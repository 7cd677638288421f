---------------------------- MODULE MCWebSettings ----------------------------
(* Small instance of WebSettings: two clients; a unit in another spelling, *)
(* a unit that is none next to another key of maps, a scalar with a maps   *)
(* that is no object, and a key off the permit list.  Of the documents     *)
(* stored before, one has no maps, one no unit and one an unknown one.     *)
EXTENDS WebSettings, TLC

MCPatches ==
  { [scalars |-> "route_opacity" :> "0.9"],
    [scalars |-> "admin" :> "yes", maps |-> "distance_unit" :> "MI "],
    [scalars |-> ("timezone" :> "UTC") @@ ("color" :> "blue"),
     maps |-> ("distance_unit" :> "furlong") @@ ("style" :> "dark")] }

MCDefaults == "route_opacity" :> "0.6"

MCSpelling == ("MI " :> "mi") @@ ("furlong" :> "furlong")

MCOlder ==
  { [scalars |-> "color" :> "red"],
    [scalars |-> "timezone" :> "Asia/Tokyo",
     maps |-> ("distance_unit" :> "mi") @@ ("style" :> "light")],
    [scalars |-> "color" :> "red", maps |-> "distance_unit" :> "furlong"],
    [scalars |-> "color" :> "red", maps |-> "style" :> "light"] }
=============================================================================
