-------------------------- MODULE MCMobileSettings --------------------------
(* Small instance of MobileSettings: two devices; a number above its       *)
(* bound, a boolean sent as text next to a number, values that are         *)
(* dropped, and a key that is no setting.                                  *)
EXTENDS MobileSettings

Number(n) == [type |-> "number", int |-> n]

Text(s, b, n) == [type |-> "string", text |-> s, bool |-> b, int |-> n]

MCClamps == "accuracy" :> <<1, 6>>

MCPatches ==
  { "accuracy" :> Number(9),
    ("accuracy" :> Text("0", FALSE, 0)) @@ ("auto_start" :> Text("true", TRUE, NoValue)),
    ("tracking_mode" :> Text("precise", NoValue, NoValue)) @@ ("theme" :> Number(1)),
    ("auto_start" :> [type |-> "bool", bool |-> FALSE])
      @@ ("accuracy" :> Number(NoValue)) @@ ("tracking_mode" :> [type |-> "other"]) }
=============================================================================
