-------------------------- MODULE MCLatencyRouter --------------------------
(* A bucket of two members, both answering; one pass of the router. *)
EXTENDS LatencyRouter

CONSTANTS n1, n2

MembersMC == <<n1, n2>>
=============================================================================
