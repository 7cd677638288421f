------------------------- MODULE MCInsightsRequests -------------------------
(* Small instance of InsightsRequests: points around a New Year in a zone  *)
(* east and one west of UTC, some of them in one second, some too far      *)
(* apart in time or too fast; requests of every kind.                      *)
EXTENDS InsightsRequests

CONSTANTS k1, k2, k3, k4, k5, a1, p, q, r

P(k) == [key |-> k, attr |-> a1]

MCBatches == { <<P(k1), P(k2)>>, <<P(k3)>>, <<P(k4)>>, <<P(k5)>> }

MCMonthDays == [m \in 1..12 |-> IF m \in {1, 12} THEN 2 ELSE 1]

MCPerUnit == [km |-> 10, mi |-> 16]

(* New Year is at 54 in East, at 57 in West.                               *)
East == << [from |-> 0, offset |-> 2] >>
West == << [from |-> 0, offset |-> -2], [from |-> 20, offset |-> -1] >>

MCLocations == {East, West}

MCTs == (k1 :> 53) @@ (k2 :> 53) @@ (k3 :> 54) @@ (k4 :> 55) @@ (k5 :> 57)

MCPlace == (k1 :> p) @@ (k2 :> q) @@ (k3 :> p) @@ (k4 :> q) @@ (k5 :> r)

(* In halves of a meter; from q to r is too fast for two seconds.          *)
MCDistance ==
  [a, b \in {p, q, r} |->
     CASE a = b -> 0 [] {a, b} = {p, q} -> 25 [] OTHER -> 99]

Q(kind, y, u) == [kind |-> kind, year |-> y, unit |-> u]

MCQueries ==
  { Q("overview", 0, "none"), Q("overview", 1, "other"), Q("details", 0, "mi"),
    Q("details", 1, "km"), Q("details", 7, "none"), Q("stats", 0, "none"), Q("tracked", 0, "none") }
=============================================================================
