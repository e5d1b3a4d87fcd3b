----------------------------- MODULE MCBucket ------------------------------
(***************************************************************************)
(* One bucket of capacity 2 with three candidate ids, two listeners, the  *)
(* refresher and timeouts.                                                 *)
(***************************************************************************)
EXTENDS Bucket

CONSTANTS a, b, c, l1, l2

\* node.pending is never incremented in the repository
PendingMC == [i \in {a, b, c} |-> 0]
=============================================================================
