------------------------------ MODULE MCPing ------------------------------
(* Constants for checking Ping: the two goroutines as model values *)
EXTENDS Ping

CONSTANTS listener, sweeper
=============================================================================
