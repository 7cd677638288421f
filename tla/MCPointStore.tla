---------------------------- MODULE MCPointStore ----------------------------
(* Small instance of PointStore: two handlers, two keys, batches that      *)
(* overlap, repeat a key, or are empty.                                    *)
EXTENDS PointStore

CONSTANTS k1, k2, a1, a2

P(k, a) == [key |-> k, attr |-> a]

MCBatches ==
  { <<>>,
    <<P(k1, a1)>>,
    <<P(k1, a2), P(k2, a1)>>,
    <<P(k2, a2), P(k1, a1), P(k2, a1)>> }
=============================================================================
