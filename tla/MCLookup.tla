----------------------------- MODULE MCLookup -----------------------------
(***************************************************************************)
(* Constants for checking Lookup: the local node 0 and three peers, peer  *)
(* 3 closest to the key, then 1, then 2.  The cfgs choose which peers     *)
(* hold the two values (a holder answers with one response per value)    *)
(* and which are alive; peer 1 knows 2 and 3.                              *)
(***************************************************************************)
EXTENDS Lookup

CONSTANTS l1, l2   \* listener goroutines (model values)

DistMC == (0 :> 0) @@ (1 :> 2) @@ (2 :> 1) @@ (3 :> 3)
NbrsMC == (1 :> <<2, 3>>) @@ (2 :> <<1>>) @@ (3 :> <<1, 0>>)
ListenerOfMC == [n \in 0..3 |-> l1]
ListenerOf2MC == (0 :> l1) @@ (1 :> l1) @@ (2 :> l2) @@ (3 :> l2)
=============================================================================
