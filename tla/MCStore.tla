------------------------------- MODULE MCStore -------------------------------
EXTENDS Store

CONSTANTS a, b, c

(* closestN(key, 3) over tables holding the local node: {Local} alone;    *)
(* {Local, a}; {Local, a, b} with the local node first, in the middle or  *)
(* last; and {Local, a, b, c} when a, b and c are all closer to the key    *)
(* than the local node                                                     *)
ClosestMC == {<<Local>>, <<a, Local>>, <<Local, a, b>>, <<a, Local, b>>,
              <<a, b, Local>>, <<a, b, c>>}
=============================================================================
