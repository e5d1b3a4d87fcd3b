------------------------------ MODULE Bucket -------------------------------
(***************************************************************************)
(* One k-bucket of the routing table (src/bucket.go) and the goroutines    *)
(* that change it:                                                         *)
(*   - listener read loops (listener.go process): routing.seen(sender) and *)
(*     then, if that returned false, routing.insert(sender): two calls,    *)
(*     each taking the bucket mutex, so other goroutines run in between;   *)
(*   - request timeouts (findValueCallback, monitor): routing.remove(id);  *)
(*   - the bucket refresher (refreshPeers -> refreshBuckets -> refresh):   *)
(*     copy the node slice under the mutex, ping every copied entry        *)
(*     without it, remove the ones that did not answer, then fillBucket.   *)
(*                                                                         *)
(* b.nodes is the array of K slots: slots beyond size keep whatever was    *)
(* last written there (Nil before any write), because remove shifts the   *)
(* tail left without clearing the last slot.  Last-seen times are not      *)
(* modelled: insert's stale test reads the new node's zero seen time, so   *)
(* it only depends on pending, which nothing in the code ever increments.  *)
(***************************************************************************)
EXTENDS Integers, Sequences, SequencesExt, FiniteSets, Functions

CONSTANTS
    Ids,        \* node ids that can fall in this bucket
    Nil,        \* an empty slot of b.nodes
    K,          \* bucket capacity, and the length of b.nodes
    Pending,    \* Pending[id]: node.pending (0 for every node in the code)
    Listeners   \* listener read-loop goroutines

ASSUME /\ Nil \notin Ids
       /\ K \in Nat \ {0}
       /\ Pending \in [Ids -> Nat]

VARIABLES
    slots,     \* b.nodes
    size,      \* b.size
    cache,     \* b.cache, the promotion cache
    lpc,       \* per listener: "idle", or "insert" after seen returned false
    lid,       \* per listener: the sender it is handling
    rpc,       \* refresher: "idle", or "ping" while it walks its copy
    snap,      \* refresher: the copy of b.nodes it iterates over
    ri,        \* refresher: index into snap
    heard,     \* ids heard from and not removed since (history)
    panicked   \* a goroutine panicked, which ends the process

bvars == <<slots, size, cache>>
vars == <<slots, size, cache, lpc, lid, rpc, snap, ri, heard, panicked>>

BTypeOK ==
    /\ slots \in [1..K -> Ids \cup {Nil}]
    /\ size \in 0..K
    /\ cache \in Seq(Ids)

TypeOK ==
    /\ BTypeOK
    /\ lpc \in [Listeners -> {"idle", "insert"}]
    /\ lid \in [Listeners -> Ids \cup {Nil}]
    /\ rpc \in {"idle", "ping"}
    /\ snap \in Seq(Ids \cup {Nil}) /\ ri \in 1..K + 1
    /\ heard \subseteq Ids
    /\ panicked \in BOOLEAN

\* newRoutingTable: every bucket gets make([]*node, K)
BInit ==
    /\ slots = [i \in 1..K |-> Nil]
    /\ size = 0
    /\ cache = <<>>

-----------------------------------------------------------------------------
(* The members are the first size slots *)
Members == {slots[i] : i \in 1..size}

(* remove scans from the end: the last member slot holding id *)
Pos(id) == CHOOSE i \in 1..size : slots[i] = id /\ \A j \in i + 1..size : slots[j] # id

(* copy(b.nodes[i:], b.nodes[i+1:]): shift left, the last slot is kept *)
ShiftOut(s, i) == [j \in 1..K |-> IF j >= i /\ j < K THEN s[j + 1] ELSE s[j]]

(* get: the members, then the promotion cache *)
InBucket(id) == id \in Members \/ id \in ToSet(cache)

(* remove(id, true) *)
BRemove(id) ==
    IF id \in Members
    THEN slots' = ShiftOut(slots, Pos(id)) /\ size' = size - 1 /\ UNCHANGED cache
    ELSE UNCHANGED bvars

\* mutant: stash only refreshes cached nodes, never appends
BStashNoAppend(id) ==
    /\ cache' = cache
    /\ UNCHANGED <<slots, size>>

(* stash: a node already cached is only refreshed; otherwise appended *)
BStash(id) ==
    /\ cache' = IF id \in ToSet(cache) THEN cache ELSE Append(cache, id)
    /\ UNCHANGED <<slots, size>>

(* the entries insert's stale scan can pick: pending > 1 *)
Stale == {i \in 1..size : Pending[slots[i]] > 1}

\* mutant: insert does not first remove an existing entry
BInsertNoRemove(id) ==
    \/ /\ size < K
       /\ slots' = [slots EXCEPT ![size + 1] = id]
       /\ size' = size + 1
       /\ UNCHANGED <<cache, panicked>>
    \/ /\ size = K
       /\ BStash(id)
       /\ UNCHANGED panicked

\* mutant: the room check is off by one
BInsertRoomOffByOne(id) ==
    \/ /\ id \in Members
       /\ slots' = [ShiftOut(slots, Pos(id)) EXCEPT ![size] = id]
       /\ UNCHANGED <<size, cache, panicked>>
    \/ /\ id \notin Members /\ size <= K
       /\ slots' = [slots EXCEPT ![size + 1] = id]
       /\ size' = size + 1
       /\ UNCHANGED <<cache, panicked>>

(* insert: a member is moved to the tail; a newcomer is appended when     *)
(* there is room; a full bucket evicts a stale node by shifting it out    *)
(* and writing b.nodes[b.size] with b.size = K, past the end of the       *)
(* array (a panic); otherwise the newcomer is stashed                     *)
BInsert(id) ==
    \/ /\ id \in Members
       /\ slots' = [ShiftOut(slots, Pos(id)) EXCEPT ![size] = id]
       /\ UNCHANGED <<size, cache, panicked>>
    \/ /\ id \notin Members /\ size < K
       /\ slots' = [slots EXCEPT ![size + 1] = id]
       /\ size' = size + 1
       /\ UNCHANGED <<cache, panicked>>
    \/ /\ id \notin Members /\ size = K /\ Stale # {}
       /\ panicked' = TRUE
       /\ UNCHANGED bvars
    \/ /\ id \notin Members /\ size = K /\ Stale = {}
       /\ BStash(id)
       /\ UNCHANGED panicked
-----------------------------------------------------------------------------
Init ==
    /\ BInit
    /\ lpc = [w \in Listeners |-> "idle"]
    /\ lid = [w \in Listeners |-> Nil]
    /\ rpc = "idle" /\ snap = <<>> /\ ri = 1
    /\ heard = {}
    /\ panicked = FALSE

(* listener.process: routing.seen(sender); a known sender (member or     *)
(* cached) is only marked seen, an unknown one goes on to insert          *)
HearSeen(w, id) ==
    /\ ~panicked
    /\ lpc[w] = "idle"
    /\ heard' = heard \cup {id}
    /\ IF InBucket(id)
       THEN UNCHANGED <<lpc, lid>>
       ELSE lpc' = [lpc EXCEPT ![w] = "insert"] /\ lid' = [lid EXCEPT ![w] = id]
    /\ UNCHANGED <<bvars, rpc, snap, ri, panicked>>

(* listener.process: routing.insert(sender), under the bucket mutex again *)
HearInsert(w) ==
    /\ ~panicked
    /\ lpc[w] = "insert"
    /\ BInsert(lid[w])
    /\ lpc' = [lpc EXCEPT ![w] = "idle"]
    /\ lid' = [lid EXCEPT ![w] = Nil]
    /\ UNCHANGED <<rpc, snap, ri, heard>>

(* a request to a member timed out: routing.remove(id) *)
Timeout(id) ==
    /\ ~panicked
    /\ id \in Members
    /\ BRemove(id)
    /\ heard' = heard \ {id}
    /\ UNCHANGED <<lpc, lid, rpc, snap, ri, panicked>>

(* refresh: nodes := make([]*node, len(b.nodes)); copy(nodes, b.nodes) *)
RefreshStart ==
    /\ ~panicked
    /\ rpc = "idle"
    /\ rpc' = "ping"
    /\ snap' = [i \in 1..K |-> slots[i]]
    /\ ri' = 1
    /\ UNCHANGED <<bvars, lpc, lid, heard, panicked>>

(* refresh: if !d.pingNode(n) { b.remove(n.id, true) }; pingNode reads     *)
(* n.address first, so a nil entry panics                                 *)
RefreshPing ==
    /\ ~panicked
    /\ rpc = "ping" /\ ri <= Len(snap)
    /\ ri' = ri + 1
    /\ \/ /\ snap[ri] = Nil
          /\ panicked' = TRUE
          /\ UNCHANGED <<bvars, heard>>
       \/ /\ snap[ri] # Nil
          /\ \E answered \in BOOLEAN :
                IF answered THEN UNCHANGED <<bvars, heard>>
                ELSE BRemove(snap[ri]) /\ heard' = heard \ {snap[ri]}
          /\ UNCHANGED panicked
    /\ UNCHANGED <<lpc, lid, rpc, snap>>

(* refresh: b.fillBucket(d) returns at once, len(b.nodes) being K *)
RefreshFill ==
    /\ ~panicked
    /\ rpc = "ping" /\ ri > Len(snap)
    /\ rpc' = "idle"
    /\ UNCHANGED <<bvars, lpc, lid, snap, ri, heard, panicked>>

(* a panic ends the process: nothing happens any more *)
Crashed == panicked /\ UNCHANGED vars

Next ==
    \/ \E w \in Listeners, id \in Ids : HearSeen(w, id)
    \/ \E w \in Listeners : HearInsert(w)
    \/ \E id \in Ids : Timeout(id)
    \/ RefreshStart \/ RefreshPing \/ RefreshFill
    \/ Crashed

(* a goroutine in the middle of a handler runs on; contacts, timeouts and *)
(* the hourly refresh tick are up to the environment                      *)
Fairness ==
    /\ \A w \in Listeners : WF_vars(HearInsert(w))
    /\ WF_vars(RefreshPing) /\ WF_vars(RefreshFill)

Spec == Init /\ [][Next]_vars /\ Fairness
-----------------------------------------------------------------------------
(* Spec 3 and bucket_test: a bucket never holds a node twice, however two *)
(* listeners that both found the sender unknown race their inserts with   *)
(* timeouts and the refresher (insert first removes an existing entry).   *)
MembersDistinct == IsInjective(SubSeq(slots, 1, size))

(* No contact is forgotten: a node a listener heard from is a member, is *)
(* waiting in the promotion cache, or is about to be inserted by that     *)
(* listener, unless a timeout or the refresher removed it since.          *)
NoContactLost ==
    heard \subseteq Members \cup ToSet(cache)
                   \cup {lid[w] : w \in {x \in Listeners : lpc[x] = "insert"}}
=============================================================================
