----------------------------- MODULE MCPagedWalk -----------------------------
(* Small instance of PagedWalk: four points, two with one timestamp, some  *)
(* ahead of the clock at first, that arrive and are rewritten before and   *)
(* during the requests.  Walks have pages of one and two points in both    *)
(* orders, a moving window, and a per_page above the maximum; the others   *)
(* ask with and without a window, a box, a usable page and per_page.       *)
EXTENDS PagedWalk

CONSTANTS k1, k2, k3, k4, a1, a2

P(k, a) == [key |-> k, attr |-> a]

MCBatches ==
  { <<P(k1, a1)>>, <<P(k2, a1), P(k3, a1)>>, <<P(k3, a2)>>, <<P(k4, a1)>> }

MCTs == (k1 :> 1) @@ (k2 :> 2) @@ (k3 :> 2) @@ (k4 :> 3)

Q(start, end, box, order, page, perPage, slim) ==
  [start |-> start, end |-> end, box |-> box, order |-> order,
   page |-> page, perPage |-> perPage, slim |-> slim]

MCQueries ==
  { Q(NoStart, 3, Keys, "asc", 1, 1, FALSE),
    Q(NoStart, 3, Keys, "desc", 1, 2, FALSE),
    Q(NoStart, NoEnd, Keys, "none", 1, 1, FALSE),
    Q(NoStart, 3, {k1, k3, k4}, "asc", 1, 5, FALSE),
    Q(NoStart, 0, Keys, "none", 0, 0, TRUE),
    Q(2, 2, Keys, "desc", 2, 1, FALSE),
    Q(NoStart, NoEnd, BadBox, "asc", 1, 2, FALSE) }
=============================================================================
