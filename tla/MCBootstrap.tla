---------------------------- MODULE MCBootstrap ----------------------------
(***************************************************************************)
(* Constants for checking Bootstrap: the local node 0 and peers 1, 2, 3. *)
(* Peer 1 knows 2 and 3, peer 2 knows 1 (and the local node), peer 3     *)
(* knows nobody.  Ids share 2, 1 and 1 leading bits with the local id.   *)
(* The cfgs bootstrap from peer 1 alone, or from peers 1 and 3.           *)
(***************************************************************************)
EXTENDS Bootstrap

DistMC == (0 :> 3) @@ (1 :> 2) @@ (2 :> 1) @@ (3 :> 1)
NbrsMC == (1 :> <<2, 3>>) @@ (2 :> <<1, 0>>) @@ (3 :> <<>>)
Boot1MC == <<1>>
Boot13MC == <<1, 3>>
=============================================================================
