----------------------------- MODULE MCLifecycle -----------------------------
(* Small instance of Lifecycle: two handlers, batches that share a key.    *)
EXTENDS Lifecycle

CONSTANTS k1, k2, a1, a2

P(k, a) == [key |-> k, attr |-> a]

MCBatches == { <<P(k1, a1)>>, <<P(k1, a2), P(k2, a1)>> }
=============================================================================
