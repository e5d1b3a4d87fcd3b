----------------------------- MODULE MCJourney -----------------------------
(***************************************************************************)
(* The journey on its own, driven by an arbitrary caller: add() with any   *)
(* list of one or two routes, next(ALPHA), responseReceived() while a      *)
(* request is inflight and finish(false) (finish is only ever called with  *)
(* force = false in the repository).  The history variable batches records *)
(* what each next() call handed out.                                       *)
(***************************************************************************)
EXTENDS Journey

CONSTANTS ALPHA, Lat

VARIABLE batches

vars == <<jvars, batches>>

\* the route a routing-table node with id i is known by
Route(i) == [id |-> i, addr |-> i, lat |-> Lat[i]]

\* lists of routes a caller may pass to add()
AddInputs == { <<Route(i)>> : i \in Ids } \cup { <<Route(i), Route(j)>> : i, j \in Ids }

Init ==
    /\ JInit
    /\ batches = <<>>

Add == \E ns \in AddInputs : JAdd(ns) /\ UNCHANGED batches

TakeNext ==
    \E o \in SortedOrders :
        /\ JNext(o, ALPHA)
        /\ batches' = Append(batches, NextBatch(o, ALPHA))

Respond == inflight > 0 /\ JResponseReceived /\ UNCHANGED batches

Finish == FinishFlips(FALSE) /\ JFinish(FALSE) /\ UNCHANGED batches

Next == Add \/ TakeNext \/ Respond \/ Finish

Spec == Init /\ [][Next]_vars

TypeOK == JTypeOK /\ batches \in Seq(Seq(Routes))

HandedIds == [k \in 1..Len(FlattenSeq(batches)) |-> FlattenSeq(batches)[k].id]

(* Spec 8, journey dedup: no id is handed out by next() twice over the     *)
(* life of a journey, whatever mix of add() calls -- including ones that   *)
(* evict a frontier route and forget it was visited -- comes in between.   *)
NoRouteReturnedTwice == IsInjective(HandedIds)

-----------------------------------------------------------------------------
(* Constants for TLC: five ids, the local one (0) farthest from the       *)
(* destination; 2 and 3 tie on distance and are told apart by latency.    *)
IdsMC == 0..4
DistMC == (0 :> 0) @@ (1 :> 3) @@ (2 :> 2) @@ (3 :> 2) @@ (4 :> 1)
LatMC == (0 :> 0) @@ (1 :> 0) @@ (2 :> 1) @@ (3 :> 0) @@ (4 :> 0)
=============================================================================
