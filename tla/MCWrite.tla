------------------------------ MODULE MCWrite ------------------------------
(* Two senders, a batch of two messages, one fragment per packet. *)
EXTENDS Write

CONSTANTS s1, s2
=============================================================================
