----------------------------- MODULE MCStorage -----------------------------
(***************************************************************************)
(* Constants for checking Storage: two keys, two values, two goroutines   *)
(* calling Set.                                                            *)
(***************************************************************************)
EXTENDS Storage

CONSTANTS k1, k2, v1, v2, s1, s2   \* model values
=============================================================================
