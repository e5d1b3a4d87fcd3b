--------------------------- MODULE RoutingTable ----------------------------
(***************************************************************************)
(* The routing table's pure functions (src/unnamed/part_004): distance,    *)
(* bucketID and closestN, over ids of W bits instead of 256 (KEY_BITS).    *)
(* The routing table is the set of ids it holds; New inserts the local     *)
(* node too (part_003:139), into bucket 0.  Bucket contents and their      *)
(* locking are the Bucket module's; here every bucket is read as it is.   *)
(*                                                                         *)
(* The latency router's GetBestRoutes (src/latency_router.go) is here    *)
(* too: it ranks closestN's result by the latencies its goroutines        *)
(* measure, which are an input ranging over Lats.                          *)
(*                                                                         *)
(* The inputs (a table, a key, a count) are chosen by Init and never       *)
(* change: the properties check closestN's result over every such input. *)
(***************************************************************************)
EXTENDS Integers, FiniteSets, Bitwise

CONSTANTS
    W,        \* bits per id (KEY_BITS)
    Local,    \* the local node's id
    Counts,   \* the counts closestN is called with
    Lats,     \* the latencies measureNodeLatency can return
    Threshold \* lr.threshold

Ids == 0..(2^W - 1)

ASSUME /\ W \in Nat \ {0}
       /\ Local \in Ids
       /\ Counts \subseteq Nat \ {0}
       /\ Lats \subseteq Nat /\ Threshold \in Nat

VARIABLES table, key, count

vars == <<table, key, count>>

(* distance: the number of leading bits a and b share (W when equal) *)
Distance(a, b) ==
    LET x == a ^^ b
    IN  CHOOSE p \in 0..W : x < 2^(W - p) /\ (p = W \/ x >= 2^(W - p - 1))

(* bucketID: KEY_BITS - prefix, minus one unless the ids are equal *)
BucketID(l, t) ==
    LET d == W - Distance(l, t) IN IF d = 0 THEN 0 ELSE d - 1

(* the nodes bucket j holds *)
BucketNodes(j) == {n \in table : BucketID(Local, n) = j}

(* the offset the scan moves to after step i *)
NextOffset(offset, i) == IF i % 2 = 0 THEN offset + i + 1 ELSE offset - i - 1

\* mutant: offsets outside the table count as scanned
RECURSIVE ScanCountsEveryOffset(_, _, _, _, _)
ScanCountsEveryOffset(c, offset, i, scanned, acc) ==
    LET inRange == offset > -1 /\ offset < W
        acc2 == IF inRange THEN acc \cup BucketNodes(offset) ELSE acc
    IN  IF inRange /\ Cardinality(acc2) >= c THEN acc2
        ELSE IF scanned + 1 >= W THEN acc2
        ELSE ScanCountsEveryOffset(c, NextOffset(offset, i), i + 1, scanned + 1, acc2)

(* closestN's loop: from the key's bucket outwards, alternately above and *)
(* below, gathering whole buckets until count nodes are gathered or W     *)
(* buckets have been scanned                                              *)
RECURSIVE Scan(_, _, _, _, _)
Scan(c, offset, i, scanned, acc) ==
    LET inRange == offset > -1 /\ offset < W
        acc2 == IF inRange THEN acc \cup BucketNodes(offset) ELSE acc
        sc2 == IF inRange THEN scanned + 1 ELSE scanned
    IN  IF inRange /\ Cardinality(acc2) >= c THEN acc2
        ELSE IF sc2 >= W THEN acc2
        ELSE Scan(c, NextOffset(offset, i), i + 1, sc2, acc2)

Gathered(k, c) == Scan(c, BucketID(Local, k), 0, 0, {})

\* mutant: the sort keeps the farthest nodes first
ClosestNSortReversed(k, c) ==
    LET g == Gathered(k, c)
        n == IF Cardinality(g) < c THEN Cardinality(g) ELSE c
    IN  {s \in SUBSET g : /\ Cardinality(s) = n
                          /\ \A x \in s, y \in g \ s : Distance(x, k) <= Distance(y, k)}

(* closestN(k, c): sort.Slice by distance to k (not stable) and keep the  *)
(* first c: any c of the gathered nodes none of which is farther from k   *)
(* than a gathered node left out                                          *)
ClosestN(k, c) ==
    LET g == Gathered(k, c)
        n == IF Cardinality(g) < c THEN Cardinality(g) ELSE c
    IN  {s \in SUBSET g : /\ Cardinality(s) = n
                          /\ \A x \in s, y \in g \ s : Distance(x, k) >= Distance(y, k)}

(* the first c of nodes once sort.Slice has ordered them by latency (not *)
(* stable): any c of them none slower than one left out                   *)
FastestFirst(nodes, c, lat) ==
    LET n == IF Cardinality(nodes) < c THEN Cardinality(nodes) ELSE c
    IN  {p \in SUBSET nodes : /\ Cardinality(p) = n
                             /\ \A x \in p, y \in nodes \ p : lat[x] <= lat[y]}

\* mutant: the threshold filter lets a node at the threshold through
BestOfAtThreshold(nodes, c, lat) ==
    {{x \in p : lat[x] <= Threshold} : p \in FastestFirst(nodes, c, lat)}

(* GetBestRoutes after closestN(target, count*2) gave nodes and every     *)
(* goroutine has measured its node (lat): none for no nodes; otherwise    *)
(* the first count after the sort by latency, each kept only when its     *)
(* latency is below the threshold                                         *)
BestOf(nodes, c, lat) ==
    {{x \in p : lat[x] < Threshold} : p \in FastestFirst(nodes, c, lat)}

Init ==
    /\ table \in {t \in SUBSET Ids : Local \in t}
    /\ key \in Ids
    /\ count \in Counts

Next == UNCHANGED vars

Spec == Init /\ [][Next]_vars
-----------------------------------------------------------------------------
(* closestN returns count nodes, or every known node when fewer are known *)
(* (Find, Store and findValue all rely on getting K of them): the scan    *)
(* must not stop before it has looked at every bucket.                    *)
ClosestNReturnsEnough ==
    \A s \in ClosestN(key, count) :
        Cardinality(s) = IF Cardinality(table) < count THEN Cardinality(table) ELSE count

(* Spec 8: after insert(n), closestN(n.id, 1) returns n when no closer    *)
(* peer is known (nothing is closer to n than n itself).                  *)
ClosestOneFindsNode == key \in table => ClosestN(key, 1) = {{key}}

(* GetBestRoutes returns the fastest nodes below the threshold among the  *)
(* count*2 closest: count of them, or all when fewer are that fast, and   *)
(* none slower than a candidate below the threshold that it leaves out,   *)
(* whatever latency each measurement gives.                               *)
BestRoutesAreFastest ==
    \A nodes \in ClosestN(key, 2 * count) : \A lat \in [nodes -> Lats] :
        LET fast == {x \in nodes : lat[x] < Threshold}
            n == IF Cardinality(fast) < count THEN Cardinality(fast) ELSE count
        IN  \A r \in BestOf(nodes, count, lat) :
                /\ r \subseteq fast /\ Cardinality(r) = n
                /\ \A x \in r, y \in fast \ r : lat[x] <= lat[y]
=============================================================================
