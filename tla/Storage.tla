------------------------------ MODULE Storage ------------------------------
(***************************************************************************)
(* The in-memory storage (src/storage.go) and the goroutines that use it:  *)
(*   - Set callers (listener.store, DHT.Store for the local node): hash,   *)
(*     store.Load, store.LoadOrStore, item.insert under item.mu;           *)
(*   - the cleanup goroutine: sleep a minute, then Range over the store,   *)
(*     locking each item while it looks at the values' expiry;             *)
(*   - Iterate callers: refreshKeys (part_003), whose visitor always       *)
(*     returns true, and listener.transferKeys, whose visitor returns      *)
(*     false when sending a full batch fails.                              *)
(* Get takes no lock; it is an operator on the state, read by properties. *)
(*                                                                         *)
(* One tick of the clock is a minute.  Keys and values are model values;  *)
(* the maphash sums of keys and values are the values themselves (hash    *)
(* collisions are not modelled).  An item is a record in items, store     *)
(* maps a key to the index of its item (0: absent), so a Set can still    *)
(* hold an item that cleanup has already deleted from the store.          *)
(***************************************************************************)
EXTENDS Integers, Sequences, SequencesExt, FiniteSets, Functions

CONSTANTS
    Keys,          \* the keys values are stored under
    Vals,          \* the values
    TTLs,          \* the ttls Set is called with, in minutes
    Setters,       \* goroutines calling Set
    MaxSets,       \* bound on the number of Set calls
    MaxTime,       \* bound on the clock, in minutes
    MaxDelay,      \* bound on how old a STORE request's created time is
    TransferFails  \* whether a transferKeys batch request can fail

ASSUME /\ TTLs \subseteq Nat \ {0}
       /\ MaxSets \in Nat /\ MaxTime \in Nat /\ MaxDelay \in Nat
       /\ TransferFails \in BOOLEAN

\* the goroutines calling Iterate
Iters == {"refresh", "transfer"}

VARIABLES
    now,       \* time.Now(), in minutes
    store,     \* s.store: key -> index into items, 0 when absent
    items,     \* every item ever created: [key, values, contains]
    leaked,    \* items whose mu was locked and is never unlocked
    spc,       \* per setter: "idle", "los" (after a Load miss), "insert"
    sval,      \* per setter: the Value it is setting
    sitem,     \* per setter: the item Load or LoadOrStore returned
    sets,      \* Set calls made so far
    cpc,       \* cleanup: "sleep" or "scan"
    cnow,      \* cleanup: the now of the current scan
    ctodo,     \* cleanup: keys the Range has still to visit
    wake,      \* cleanup: when the sleep ends
    ipc,       \* per Iterate caller: "idle", "range", "get" (refreshKeys' loop)
    itodo,     \* per Iterate caller: keys the Range has still to visit
    ikeys,     \* refreshKeys: the keys collected, still to refresh
    restored   \* the d.Store calls refreshKeys made: [key, val, ttl] (history)

vars == <<now, store, items, leaked, spc, sval, sitem, sets,
          cpc, cnow, ctodo, wake, ipc, itodo, ikeys, restored>>

(* Value, as Set builds it: expires = time.Now().Add(ttl) *)
Value == [key : Keys, val : Vals, created : 0..MaxTime, expires : Nat]

ItemIds == 1..Len(items)

(* what a setter's Value holds before its first Set *)
NoValue == [key |-> CHOOSE k \in Keys : TRUE, val |-> CHOOSE x \in Vals : TRUE,
            created |-> 0, expires |-> 0]

(* the Values stored under k *)
Stored(k) == IF store[k] = 0 THEN {} ELSE ToSet(items[store[k]].values)

Init ==
    /\ now = 0
    /\ store = [k \in Keys |-> 0]
    /\ items = <<>>
    /\ leaked = {}
    /\ spc = [s \in Setters |-> "idle"]
    /\ sval = [s \in Setters |-> NoValue]
    /\ sitem = [s \in Setters |-> 0]
    /\ sets = 0
    /\ cpc = "sleep" /\ cnow = 0 /\ ctodo = {} /\ wake = 1
    /\ ipc = [g \in Iters |-> "idle"]
    /\ itodo = [g \in Iters |-> {}]
    /\ ikeys = {}
    /\ restored = {}

-----------------------------------------------------------------------------
(* Get(k, from): no lock; a zero from returns every value; otherwise the  *)
(* values created before from are counted and that many are skipped from *)
(* the front, assuming they are in created order                          *)
GetIndex(i, from) ==
    Cardinality({j \in 1..Len(items[i].values) : items[i].values[j].created < from})

Get(k, from) ==
    LET i == store[k] IN
    IF i = 0 THEN <<>>
    ELSE IF from = 0 THEN items[i].values
    ELSE IF GetIndex(i, from) >= Len(items[i].values) THEN <<>>
    ELSE SubSeq(items[i].values, GetIndex(i, from) + 1, Len(items[i].values))

\* mutant: insert does not consult contains
ItemInsertNoDedup(i, v) ==
    [items EXCEPT ![i].values = Append(@, v), ![i].contains = @ \cup {v.val}]

(* item.insert(hash, value), under item.mu: a value already contained is  *)
(* not stored again; either way it returns true                            *)
ItemInsert(i, v) ==
    IF v.val \in items[i].contains THEN items
    ELSE [items EXCEPT ![i].values = Append(@, v), ![i].contains = @ \cup {v.val}]

svars == <<spc, sval, sitem, sets>>
others == <<cpc, cnow, ctodo, wake, ipc, itodo, ikeys, restored>>

(* listener.store: each Value of a STORE request is Set with the created *)
(* time the originator's DHT.Store stamped, time.Unix(0, v.Created()),    *)
(* at most MaxDelay minutes before the request is handled here            *)
StoreCreated == {c \in 0..now : c >= now - MaxDelay}

(* Set: build the Value (expires = now + ttl), then store.Load(key) *)
SetLoad(s) ==
    /\ spc[s] = "idle" /\ sets < MaxSets
    /\ \E k \in Keys, x \in Vals, ttl \in TTLs, c \in StoreCreated :
         LET v == [key |-> k, val |-> x, created |-> c, expires |-> now + ttl] IN
         /\ sval' = [sval EXCEPT ![s] = v]
         /\ IF store[k] # 0
            THEN spc' = [spc EXCEPT ![s] = "insert"] /\ sitem' = [sitem EXCEPT ![s] = store[k]]
            ELSE spc' = [spc EXCEPT ![s] = "los"] /\ UNCHANGED sitem
    /\ sets' = sets + 1
    /\ UNCHANGED <<now, store, items, leaked, others>>

(* Set: store.LoadOrStore(key, new item holding the value); when another *)
(* Set stored an item first, insert into that one                         *)
SetLoadOrStore(s) ==
    LET v == sval[s] IN
    /\ spc[s] = "los"
    /\ IF store[v.key] = 0
       THEN /\ items' = Append(items, [key |-> v.key, values |-> <<v>>, contains |-> {v.val}])
            /\ store' = [store EXCEPT ![v.key] = Len(items) + 1]
            /\ spc' = [spc EXCEPT ![s] = "idle"]
            /\ UNCHANGED sitem
       ELSE /\ spc' = [spc EXCEPT ![s] = "insert"]
            /\ sitem' = [sitem EXCEPT ![s] = store[v.key]]
            /\ UNCHANGED <<items, store>>
    /\ UNCHANGED <<now, leaked, sval, sets, others>>

(* Set: item.insert on the item Load or LoadOrStore returned, which may   *)
(* no longer be in the store; it waits for item.mu                         *)
SetInsert(s) ==
    /\ spc[s] = "insert"
    /\ sitem[s] \notin leaked
    /\ items' = ItemInsert(sitem[s], sval[s])
    /\ spc' = [spc EXCEPT ![s] = "idle"]
    /\ UNCHANGED <<now, store, leaked, sval, sitem, sets, others>>
-----------------------------------------------------------------------------
(* the clock; past the bound time is no longer counted, but it goes on *)
Tick ==
    \/ /\ now < MaxTime
       /\ now' = now + 1
       /\ UNCHANGED <<store, items, leaked, svars, others>>
    \/ /\ now = MaxTime
       /\ UNCHANGED vars

(* cleanup: time.Sleep(time.Minute) is over; now := time.Now() and Range *)
CleanStart ==
    /\ cpc = "sleep" /\ now >= wake
    /\ cpc' = "scan" /\ cnow' = now
    /\ ctodo' = {k \in Keys : store[k] # 0}
    /\ UNCHANGED <<now, store, items, leaked, svars, wake, ipc, itodo, ikeys, restored>>

(* cleanup, one key of the Range: lock item.mu; for each value, if        *)
(* values[i].expires.After(now) then store.Delete(key); unlock             *)
CleanItem(k) ==
    /\ cpc = "scan" /\ k \in ctodo
    /\ store[k] \notin leaked
    /\ ctodo' = ctodo \ {k}
    /\ store' = IF store[k] # 0 /\ \E v \in ToSet(items[store[k]].values) : v.expires > cnow
                THEN [store EXCEPT ![k] = 0]
                ELSE store
    /\ UNCHANGED <<now, items, leaked, svars, cpc, cnow, wake, ipc, itodo, ikeys, restored>>

(* cleanup: the Range is over; sleep another minute *)
CleanDone ==
    /\ cpc = "scan" /\ ctodo = {}
    /\ cpc' = "sleep" /\ wake' = now + 1
    /\ UNCHANGED <<now, store, items, leaked, svars, cnow, ctodo, ipc, itodo, ikeys, restored>>

(* Iterate: s.store.Range; refreshKeys on its ticker, transferKeys when a *)
(* new node is heard from                                                 *)
IterStart(g) ==
    /\ ipc[g] = "idle"
    /\ ipc' = [ipc EXCEPT ![g] = "range"]
    /\ itodo' = [itodo EXCEPT ![g] = {k \in Keys : store[k] # 0}]
    /\ UNCHANGED <<now, store, items, leaked, svars, cpc, cnow, ctodo, wake, ikeys, restored>>

(* Iterate, one key of the Range: lock item.mu and call the visitor on     *)
(* each value.  refreshKeys' visitor appends value.Key and returns true.  *)
(* transferKeys' visitor returns false when the batch is full and the     *)
(* request sending it fails: Iterate then returns from the Range callback *)
(* without item.mu.Unlock(), and the Range stops.                         *)
IterVisit(g, k) ==
    /\ ipc[g] = "range" /\ k \in itodo[g]
    /\ store[k] \notin leaked
    /\ ikeys' = IF g = "refresh" /\ store[k] # 0 THEN ikeys \cup {k} ELSE ikeys
    /\ \/ /\ itodo' = [itodo EXCEPT ![g] = @ \ {k}]
          /\ UNCHANGED <<leaked, ipc>>
       \/ /\ g = "transfer" /\ TransferFails /\ store[k] # 0
          /\ leaked' = leaked \cup {store[k]}
          /\ itodo' = [itodo EXCEPT ![g] = {}]
          /\ ipc' = [ipc EXCEPT ![g] = "idle"]
    /\ UNCHANGED <<now, store, items, svars, cpc, cnow, ctodo, wake, restored>>

(* the Range is over: transferKeys sends its last batch and returns;      *)
(* refreshKeys goes on to refresh each key it collected                    *)
IterDone(g) ==
    /\ ipc[g] = "range" /\ itodo[g] = {}
    /\ ipc' = [ipc EXCEPT ![g] = IF g = "refresh" THEN "get" ELSE "idle"]
    /\ UNCHANGED <<now, store, items, leaked, svars, cpc, cnow, ctodo, wake, itodo, ikeys, restored>>

(* refreshKeys, one collected key: Get(key, time.Now()); if it returned   *)
(* values, re-Store the first one with its remaining ttl when positive    *)
RefreshKey(k) ==
    LET vs == Get(k, now) IN
    /\ ipc["refresh"] = "get" /\ k \in ikeys
    /\ ikeys' = ikeys \ {k}
    /\ restored' = IF vs # <<>> /\ vs[1].expires - now > 0
                   THEN restored \cup {[key |-> k, val |-> vs[1].val, ttl |-> vs[1].expires - now]}
                   ELSE restored
    /\ UNCHANGED <<now, store, items, leaked, svars, cpc, cnow, ctodo, wake, ipc, itodo>>

(* refreshKeys: all keys done; wait for the next tick *)
RefreshDone ==
    /\ ipc["refresh"] = "get" /\ ikeys = {}
    /\ ipc' = [ipc EXCEPT !["refresh"] = "idle"]
    /\ UNCHANGED <<now, store, items, leaked, svars, cpc, cnow, ctodo, wake, itodo, ikeys, restored>>

Next ==
    \/ \E s \in Setters : SetLoad(s) \/ SetLoadOrStore(s) \/ SetInsert(s)
    \/ Tick \/ CleanStart \/ CleanDone \/ \E k \in Keys : CleanItem(k)
    \/ \E g \in Iters : IterStart(g) \/ IterDone(g) \/ \E k \in Keys : IterVisit(g, k)
    \/ RefreshDone \/ \E k \in Keys : RefreshKey(k)

(* goroutines that are running go on; the sleeps end as time passes *)
Fairness ==
    /\ \A s \in Setters : WF_vars(SetLoadOrStore(s)) /\ WF_vars(SetInsert(s))
    /\ WF_vars(Tick) /\ WF_vars(CleanStart) /\ WF_vars(CleanDone)
    /\ WF_vars(\E k \in Keys : CleanItem(k))
    /\ \A g \in Iters : WF_vars(IterDone(g)) /\ WF_vars(\E k \in Keys : IterVisit(g, k))
    /\ WF_vars(RefreshDone) /\ WF_vars(\E k \in Keys : RefreshKey(k))

Spec == Init /\ [][Next]_vars /\ Fairness
-----------------------------------------------------------------------------
(* item.insert with contains: no key holds the same value twice, even     *)
(* when two Sets of it race between Load and LoadOrStore or into an item  *)
(* cleanup has just deleted                                                *)
NoDuplicateValues ==
    \A i \in ItemIds : \A a, b \in 1..Len(items[i].values) :
        a # b => items[i].values[a].val # items[i].values[b].val
=============================================================================
