----------------------------- MODULE PointTable -----------------------------
(***************************************************************************)
(* What the points table promises the rest of the program: a map from the  *)
(* upsert key (timestamp, latitude, longitude) to the attributes last      *)
(* written for it and the second it was written in.  A batch of points     *)
(* lands whole, later points of a batch win over earlier ones with the     *)
(* same key, nothing is ever deleted, and no write carries a stamp older   *)
(* than one already stored.  PointStore shows that the transaction in      *)
(* internal/store/points.go keeps this promise under concurrent handlers   *)
(* and crashes; PointListing reads a table that keeps it.                  *)
(***************************************************************************)
EXTENDS Integers, Sequences

CONSTANTS
  Keys,      \* upsert keys (timestamp, latitude, longitude)
  Attrs,     \* contents of the non-key columns, told apart only by equality
  Batches,   \* the batches of points clients send
  NoRow,     \* marks a key with no row
  MaxClock   \* bound on the seconds that pass

Point == [key : Keys, attr : Attrs]

Entry == [attr : Attrs, updated : Nat \ {0}]

ASSUME TableAssumption ==
  /\ Batches \subseteq Seq(Point)
  /\ NoRow \notin Entry
  /\ MaxClock \in Nat

VARIABLES
  rows,   \* the visible content of the table
  clock   \* unixepoch(), counted from 1

tableVars == <<rows, clock>>

(* The keys a batch writes.                                                *)
Touched(b) == {b[i].key : i \in DOMAIN b}

(* The i-th point of b is the one its key ends up with.                    *)
IsLast(b, i) ==
  /\ i \in DOMAIN b
  /\ \A j \in DOMAIN b : j > i => b[j].key # b[i].key

LastAttr(b, k) == b[CHOOSE i \in DOMAIN b : IsLast(b, i) /\ b[i].key = k].attr

(* The stamps a write may carry: not before any stored one, not ahead of   *)
(* the clock.                                                              *)
Stamps == {s \in 1..clock : \A k \in Keys : rows[k] # NoRow => rows[k].updated <= s}

TableInit ==
  /\ rows = [k \in Keys |-> NoRow]
  /\ clock = 1

Upsert(b) ==
  /\ \E stamp \in [Touched(b) -> Stamps] :
       rows' = [k \in Keys |->
                  IF k \in Touched(b)
                  THEN [attr |-> LastAttr(b, k), updated |-> stamp[k]]
                  ELSE rows[k]]
  /\ UNCHANGED clock

Tick ==
  /\ clock < MaxClock
  /\ clock' = clock + 1
  /\ UNCHANGED rows

TableNext == Tick \/ \E b \in Batches : Upsert(b)

TableSpec == TableInit /\ [][TableNext]_tableVars
=============================================================================
