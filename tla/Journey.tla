------------------------------ MODULE Journey ------------------------------
(***************************************************************************)
(* The journey of one iterative lookup (src/unnamed/part_007, journey.go): *)
(* a bounded frontier of at most K candidate routes, the set of ids        *)
(* already visited, a hop budget, the count of inflight requests, the      *)
(* values per responder still owed, the values already seen and the       *)
(* completed flag.  Every method of the journey takes the journey mutex    *)
(* for its whole body, so each one is a single atomic action here.         *)
(*                                                                         *)
(* A route is a record [id, addr, lat]: the id the journey deduplicates    *)
(* and ranks by, the address a request is sent to, and the measured        *)
(* latency used to break ties.  Ids are compared by equality (the code     *)
(* compares 64-bit maphash sums; hash collisions are not modelled).        *)
(***************************************************************************)
EXTENDS Integers, Sequences, SequencesExt, FiniteSets, Functions

CONSTANTS
    Ids,        \* the node ids that can appear in routes
    Addrs,      \* the addresses that can appear in routes
    Lats,       \* the latencies a route can carry
    Values,     \* the values a lookup can receive
    Source,     \* the local node id, never added to the frontier
    Dist,       \* Dist[i]: common prefix length of id i with the destination
    K,          \* frontier capacity (K = 20 in the code)
    Iterations  \* the hop budget given to newJourney (K in the code)

ASSUME /\ Source \in Ids
       /\ Dist \in [Ids -> Nat]
       /\ K \in Nat \ {0}
       /\ Iterations \in Nat

VARIABLES
    visited,     \* ids added to this journey (j.visited)
    frontier,    \* j.nodes[0 .. routes-1], with j.distances folded into Dist
    remaining,   \* j.remaining
    inflight,    \* j.inflight
    completed,   \* j.completed
    outstanding, \* j.outstanding: responder id -> values still expected
    seenVals     \* j.values

jvars == <<visited, frontier, remaining, inflight, completed, outstanding, seenVals>>

Routes == [id : Ids, addr : Addrs, lat : Lats]

JTypeOK ==
    /\ visited \subseteq Ids
    /\ frontier \in Seq(Routes) /\ Len(frontier) <= K
    /\ remaining \in 0..Iterations
    /\ inflight \in Nat
    /\ completed \in BOOLEAN
    /\ DOMAIN outstanding \subseteq Ids
    /\ \A i \in DOMAIN outstanding : outstanding[i] \in Int
    /\ seenVals \subseteq Values

\* newJourney(source, destination, iterations)
JInit ==
    /\ visited = {}
    /\ frontier = <<>>
    /\ remaining = Iterations
    /\ inflight = 0
    /\ completed = FALSE
    /\ outstanding = [i \in {} |-> 0]
    /\ seenVals = {}

-----------------------------------------------------------------------------
\* mutant: duplicates are looked for in the frontier instead of visited
AddRouteFrontierOnly(st, n) ==
    IF n.id = Source \/ n.id \in {e.id : e \in ToSet(st.frontier)}
    THEN st
    ELSE LET v == st.visited \cup {n.id}
             worse == {i \in 1..Len(st.frontier) : Dist[st.frontier[i].id] < Dist[n.id]}
         IN  IF Len(st.frontier) < K
             THEN [visited |-> v, frontier |-> Append(st.frontier, n)]
             ELSE IF worse = {}
                  THEN [visited |-> v, frontier |-> st.frontier]
                  ELSE LET i == CHOOSE x \in worse : \A y \in worse : x <= y
                       IN  [visited |-> v \ {st.frontier[i].id},
                            frontier |-> [st.frontier EXCEPT ![i] = n]]

(* add(nodes): one iteration of the loop over nodes, on a state record     *)
(* [visited, frontier].  The id is marked visited before the capacity      *)
(* check, so a route that finds the frontier full and nothing worse in it  *)
(* is dropped yet stays visited.  When the frontier is full the first slot *)
(* holding a route strictly farther than the new one is overwritten and    *)
(* that route's id is deleted from visited.                                *)
(***************************************************************************)
AddRoute(st, n) ==
    IF n.id = Source \/ n.id \in st.visited
    THEN st
    ELSE LET v == st.visited \cup {n.id}
             worse == {i \in 1..Len(st.frontier) : Dist[st.frontier[i].id] < Dist[n.id]}
         IN  IF Len(st.frontier) < K
             THEN [visited |-> v, frontier |-> Append(st.frontier, n)]
             ELSE IF worse = {}
                  THEN [visited |-> v, frontier |-> st.frontier]
                  ELSE LET i == CHOOSE x \in worse : \A y \in worse : x <= y
                       IN  [visited |-> v \ {st.frontier[i].id},
                            frontier |-> [st.frontier EXCEPT ![i] = n]]

JAdd(ns) ==
    LET st == FoldLeft(AddRoute, [visited |-> visited, frontier |-> frontier], ns)
    IN  /\ visited' = st.visited
        /\ frontier' = st.frontier
        /\ UNCHANGED <<remaining, inflight, completed, outstanding, seenVals>>

(* Less: closer to the destination first, then lower latency.             *)
Less(x, y) ==
    IF Dist[x.id] # Dist[y.id] THEN Dist[x.id] > Dist[y.id] ELSE x.lat < y.lat

(* sort.Sort is not stable: any ordering of the frontier that Less sorts  *)
(* is a possible result.                                                  *)
SortedOrders ==
    { [k \in 1..Len(frontier) |-> frontier[p[k]]] :
        p \in { q \in Bijection(1..Len(frontier), 1..Len(frontier)) :
                  \A k \in 1..Len(frontier) - 1 :
                      ~Less(frontier[q[k + 1]], frontier[q[k]]) } }

Available(count) == IF Len(frontier) < count THEN Len(frontier) ELSE count

\* mutant: the hop budget is not checked
NextIsNilNoBudget == Len(frontier) = 0 \/ completed

(* next(count) returns nil, changing nothing, in this case *)
NextIsNil == remaining = 0 \/ Len(frontier) = 0 \/ completed

(* the routes next(count) returns when the sort produced order *)
NextBatch(order, count) == SubSeq(order, 1, Available(count))

(* next(count): spend one hop, credit the batch to inflight, sort and     *)
(* hand out the closest Available(count) routes                            *)
JNext(order, count) ==
    /\ ~NextIsNil
    /\ remaining' = remaining - 1
    /\ inflight' = inflight + Available(count)
    /\ frontier' = SubSeq(order, Available(count) + 1, Len(order))
    /\ UNCHANGED <<visited, completed, outstanding, seenVals>>

-----------------------------------------------------------------------------
OutstandingSum == SumFunction(outstanding)

(* finish(force) returns TRUE exactly when it flips completed *)
FinishFlips(force) ==
    IF force THEN ~completed
    ELSE ~(completed \/ inflight > 0 \/ OutstandingSum > 0)

JFinish(force) ==
    /\ completed' = (completed \/ FinishFlips(force))
    /\ UNCHANGED <<visited, frontier, remaining, inflight, outstanding, seenVals>>

(* responseReceived(): its two results, computed from the state before it *)
RRInflight == IF inflight > 0 THEN inflight - 1 ELSE inflight
RRCompleted == completed
RRShouldError == RRInflight < 1 /\ Len(frontier) < 1

JResponseReceived ==
    /\ inflight' = RRInflight
    /\ UNCHANGED <<visited, frontier, remaining, completed, outstanding, seenVals>>

(* seenValue(value): records value, reports whether it was seen before *)
JSeenValue(v) ==
    /\ seenVals' = seenVals \cup {v}
    /\ UNCHANGED <<visited, frontier, remaining, inflight, completed, outstanding>>

(* addOutstanding(from, n): only the first advertisement of a responder counts *)
JAddOutstanding(from, n) ==
    /\ outstanding' = IF from \in DOMAIN outstanding THEN outstanding
                      ELSE outstanding @@ (from :> n)
    /\ UNCHANGED <<visited, frontier, remaining, inflight, completed, seenVals>>

(* removeOutstanding(from, k): a missing entry reads as 0 *)
JRemoveOutstanding(from, k) ==
    /\ outstanding' = IF from \in DOMAIN outstanding
                      THEN [outstanding EXCEPT ![from] = @ - k]
                      ELSE outstanding @@ (from :> 0 - k)
    /\ UNCHANGED <<visited, frontier, remaining, inflight, completed, seenVals>>
=============================================================================
