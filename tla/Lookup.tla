------------------------------ MODULE Lookup ------------------------------
(***************************************************************************)
(* One DHT.Find of a key the local storage does not hold (part_003,       *)
(* dht.go: Find and findValueCallback), together with what it drives: the *)
(* journey (module Journey), the request cache (cache.go: set, callback,  *)
(* cleanup), the listeners' read loops for responses (listener.go:        *)
(* process) and the remote nodes answering FIND_VALUE (listener.go:       *)
(* findValue).                                                            *)
(*                                                                         *)
(* Concurrency follows the code: the caller of Find, every listener's     *)
(* read loop and the cache sweeper are separate goroutines.  A callback   *)
(* runs on the goroutine that invoked it and is split at every lock it    *)
(* takes (the journey mutex, the routing table), so callbacks of          *)
(* different responses interleave as they do in the code.  Datagrams may  *)
(* be lost or reordered; a peer not in Alive never answers.  Time only    *)
(* matters through request deadlines: Tick moves the clock past the       *)
(* deadline of the oldest request not yet expired (all requests get the  *)
(* same timeout, so they expire in the order they were sent).             *)
(***************************************************************************)
EXTENDS Integers, Sequences, SequencesExt, FiniteSets, Functions

CONSTANTS
    Peers,      \* ids (and addresses) of the remote nodes
    Local,      \* the id of this node
    Vals,       \* the values stored under the key
    Dist,       \* Dist[i]: common prefix length of id i with the key
    K,          \* K: journey capacity and hop budget
    ALPHA,      \* requests per next() (the literal 3 in Find)
    Holders,    \* peers whose storage holds the key
    Alive,      \* peers that answer requests
    Nbrs,       \* Nbrs[p]: the ids p returns from closestN(key, K)
    Tables0,    \* the routing tables (sets of peers) Find may be called with
    Listeners,  \* the listener goroutines
    ListenerOf, \* the listener whose socket a peer's datagrams reach
    Sweeper,    \* the cache sweeper goroutine
    Lossy,      \* whether datagrams can be lost
    Timely      \* whether every answer is read before its request's deadline

ASSUME /\ Local \notin Peers
       /\ Holders \subseteq Peers /\ Alive \subseteq Peers /\ Tables0 \subseteq SUBSET Peers
       /\ Nbrs \in [Peers -> Seq(Peers \cup {Local})]
       /\ ListenerOf \in [Peers \cup {Local} -> Listeners]
       /\ Sweeper \notin Listeners
       \* closestN(key, K) then returns the whole table
       /\ \A t \in Tables0 : Cardinality(t) + 1 <= K

Nodes == Peers \cup {Local}
Workers == Listeners \cup {Sweeper}

VARIABLES
    visited, frontier, remaining, inflight, completed, outstanding, seenVals,
    table,       \* remote ids in the routing table
    cache,       \* the request cache: rid -> id the callback was made for
    nextRid,     \* the next request id (pseudorandomID never repeats here)
    expiredUpTo, \* requests with rid <= expiredUpTo are past their deadline
    reqs,        \* FIND_VALUE requests on the wire: [rid, to]
    resps,       \* FIND_VALUE responses on the wire
    thread,      \* per worker goroutine: the callback it is running
    userPc,      \* where the caller of Find is
    userSend,    \* routes Find still has to send to
    delivered,   \* values passed to the user callback, in order
    errs         \* errors passed to the user callback, in order

J == INSTANCE Journey WITH Ids <- Nodes, Addrs <- Nodes, Lats <- {0},
                          Values <- Vals, Source <- Local, Iterations <- K

jvars == <<visited, frontier, remaining, inflight, completed, outstanding, seenVals>>
vars == <<jvars, table, cache, nextRid, expiredUpTo, reqs, resps, thread,
          userPc, userSend, delivered, errs>>

\* a response as the listener hands it to the callback; timeout = TRUE is
\* the (nil, ErrRequestTimeout) the sweeper passes instead
Resp == [rid : Nat, from : Nodes, vals : SUBSET Vals, found : Nat,
         nodes : Seq(Nodes), timeout : BOOLEAN]
TimeoutEv(r) == [rid |-> r, from |-> Local, vals |-> {}, found |-> 0,
                 nodes |-> <<>>, timeout |-> TRUE]

Idle == [pc |-> "idle", rid |-> 0, ev |-> TimeoutEv(0), id |-> Local,
         ret |-> FALSE, toSend |-> <<>>]

\* a routing-table node as closestN returns it (latency 0: inserted so)
Route(i) == [id |-> i, addr |-> i, lat |-> 0]

TypeOK ==
    /\ J!JTypeOK
    /\ table \subseteq Peers
    /\ cache \in [DOMAIN cache -> Nodes] /\ DOMAIN cache \subseteq 1..nextRid
    /\ nextRid \in Nat /\ expiredUpTo \in Nat
    /\ reqs \subseteq [rid : Nat, to : Nodes]
    /\ resps \subseteq Resp
    /\ \A w \in Workers : thread[w].pc \in {"idle", "rr", "out", "rmout", "vals", "user",
                              "finv", "finnf", "add", "next", "send", "ret"}
    /\ userPc \in {"start", "first", "send", "done"}
    /\ delivered \in Seq(Vals)
    /\ errs \in Seq({"timeout", "notfound", "nonodes"})

Init ==
    /\ J!JInit
    /\ table \in Tables0
    /\ cache = [r \in {} |-> Local]
    /\ nextRid = 1
    /\ expiredUpTo = 0
    /\ reqs = {} /\ resps = {}
    /\ thread = [w \in Workers |-> Idle]
    /\ userPc = "start" /\ userSend = <<>>
    /\ delivered = <<>> /\ errs = <<>>

-----------------------------------------------------------------------------
(* listener.request: register the callback for a fresh rid in the cache,  *)
(* then write the FIND_VALUE datagram (write errors are not modelled)     *)
Request(n) ==
    /\ cache' = cache @@ (nextRid :> n.id)
    /\ reqs' = reqs \cup {[rid |-> nextRid, to |-> n.addr]}
    /\ nextRid' = nextRid + 1

(* Find: storage miss, closestN(key, K), newJourney, add; the check for  *)
(* an empty closestN never fires, as the local node is always in it      *)
FindStart ==
    /\ userPc = "start"
    \* closestN(key, K) holds the local node too; with no peers known the
    \* journey stays empty, as add() skips the source
    /\ J!JAdd(<<Route(Local)>> \o SetToSeq({Route(p) : p \in table}))
    /\ userPc' = "first"
    /\ UNCHANGED <<table, cache, nextRid, expiredUpTo, reqs, resps, thread,
                   userSend, delivered, errs>>

(* Find: for _, n := range j.next(3); a nil batch ends Find silently *)
FindFirstNext ==
    /\ userPc = "first"
    /\ \/ /\ J!NextIsNil
          /\ userPc' = "done"
          /\ UNCHANGED <<jvars, userSend>>
       \/ \E o \in J!SortedOrders :
             /\ J!JNext(o, ALPHA)
             /\ userSend' = J!NextBatch(o, ALPHA)
             /\ userPc' = "send"
    /\ UNCHANGED <<table, cache, nextRid, expiredUpTo, reqs, resps, thread,
                   delivered, errs>>

(* Find: one iteration of the send loop *)
FindSend ==
    /\ userPc = "send"
    /\ IF userSend = <<>>
       THEN userPc' = "done" /\ UNCHANGED <<userSend, cache, reqs, nextRid>>
       ELSE Request(Head(userSend)) /\ userSend' = Tail(userSend) /\ UNCHANGED userPc
    /\ UNCHANGED <<jvars, table, expiredUpTo, resps, thread, delivered, errs>>
-----------------------------------------------------------------------------
(* A remote node's findValue handler: a holder streams its values, one    *)
(* per response here (the code splits at MaxEventSize), each with found =  *)
(* the number of values it holds; any other node answers with its         *)
(* closestN(key, K).                                                       *)
Serve ==
    \E m \in reqs :
        /\ m.to \in Alive
        /\ reqs' = reqs \ {m}
        /\ resps' = resps \cup
             IF m.to \in Holders
             THEN { [rid |-> m.rid, from |-> m.to, vals |-> {v}, found |-> Cardinality(Vals),
                     nodes |-> <<>>, timeout |-> FALSE] : v \in Vals }
             ELSE { [rid |-> m.rid, from |-> m.to, vals |-> {}, found |-> 0,
                     nodes |-> Nbrs[m.to], timeout |-> FALSE] }
        /\ UNCHANGED <<jvars, table, cache, nextRid, expiredUpTo, thread, userPc,
                       userSend, delivered, errs>>

(* UDP loses a datagram *)
Lose ==
    /\ Lossy
    /\ \/ \E m \in reqs : reqs' = reqs \ {m} /\ UNCHANGED resps
       \/ \E m \in resps : resps' = resps \ {m} /\ UNCHANGED reqs
    /\ UNCHANGED <<jvars, table, cache, nextRid, expiredUpTo, thread, userPc,
                   userSend, delivered, errs>>

(* the clock passes the deadline of the next request; on a timely network *)
(* not while its request or an answer to it is still on the wire           *)
Tick ==
    /\ expiredUpTo + 1 < nextRid
    /\ Timely => \A m \in reqs \cup resps : m.rid # expiredUpTo + 1
    /\ expiredUpTo' = expiredUpTo + 1
    /\ UNCHANGED <<jvars, table, cache, nextRid, reqs, resps, thread, userPc,
                   userSend, delivered, errs>>

(* listener.process for a response datagram: routing.seen, or insert when *)
(* the sender is unknown, then cache.callback: a rid no longer in the     *)
(* cache is ignored, otherwise the callback starts on this goroutine       *)
Receive(w) ==
    \E m \in resps :
        /\ ListenerOf[m.from] = w
        /\ thread[w].pc = "idle"
        /\ resps' = resps \ {m}
        /\ table' = table \cup ({m.from} \cap Peers)
        /\ IF m.rid \in DOMAIN cache
           THEN thread' = [thread EXCEPT ![w] = [Idle EXCEPT !.pc = "rr", !.rid = m.rid,
                                                   !.ev = m, !.id = cache[m.rid]]]
           ELSE UNCHANGED thread
        /\ UNCHANGED <<jvars, cache, nextRid, expiredUpTo, reqs, userPc, userSend,
                       delivered, errs>>

(* cache.cleanup: a request past its deadline gets (nil, ErrRequestTimeout) *)
Sweep ==
    \E r \in DOMAIN cache :
        /\ r <= expiredUpTo
        /\ thread[Sweeper].pc = "idle"
        /\ thread' = [thread EXCEPT ![Sweeper] = [Idle EXCEPT !.pc = "rr", !.rid = r,
                                                    !.ev = TimeoutEv(r), !.id = cache[r]]]
        /\ UNCHANGED <<jvars, table, cache, nextRid, expiredUpTo, reqs, resps, userPc,
                       userSend, delivered, errs>>

-----------------------------------------------------------------------------
(* findValueCallback(id, key, from, callback, j), one critical section or  *)
(* user callback per step, on the goroutine w that invoked it.             *)
Goto(w, pc) == thread' = [thread EXCEPT ![w].pc = pc]
Return(w, b) == thread' = [thread EXCEPT ![w].pc = "ret", ![w].ret = b]

cbvars == <<cache, nextRid, expiredUpTo, reqs, resps, userPc, userSend>>

(* a timeout removes the node from the routing table; then                *)
(* responseReceived(); a completed journey ignores the event; an error is *)
(* passed to the user only when responseReceived says so                  *)
CbResponseReceived(w) ==
    LET t == thread[w] IN
    /\ t.pc = "rr"
    /\ J!JResponseReceived
    /\ table' = IF t.ev.timeout THEN table \ {t.id} ELSE table
    /\ CASE J!RRCompleted ->
              Return(w, TRUE) /\ UNCHANGED errs
         [] t.ev.timeout /\ J!RRShouldError ->
              Return(w, TRUE) /\ errs' = Append(errs, "timeout")
         [] t.ev.timeout ->
              Return(w, FALSE) /\ UNCHANGED errs
         [] t.ev.vals # {} ->
              Goto(w, "out") /\ UNCHANGED errs
         [] t.ev.nodes = <<>> ->
              Goto(w, "finnf") /\ UNCHANGED errs
         [] OTHER ->
              Goto(w, "add") /\ UNCHANGED errs
    /\ UNCHANGED <<cbvars, delivered>>

(* j.addOutstanding(event.SenderBytes(), int(f.Found())) *)
CbAddOutstanding(w) ==
    /\ thread[w].pc = "out"
    /\ J!JAddOutstanding(thread[w].ev.from, thread[w].ev.found)
    /\ Goto(w, "rmout")
    /\ UNCHANGED <<cbvars, table, delivered, errs>>

(* j.removeOutstanding(event.SenderBytes(), f.ValuesLength()) *)
CbRemoveOutstanding(w) ==
    /\ thread[w].pc = "rmout"
    /\ J!JRemoveOutstanding(thread[w].ev.from, Cardinality(thread[w].ev.vals))
    /\ Goto(w, "vals")
    /\ UNCHANGED <<cbvars, table, delivered, errs>>

(* for each value: if !j.seenValue(v) ... ; seenValue takes the journey   *)
(* lock, the user callback runs after it is released                      *)
CbDeliver(w) ==
    LET v == CHOOSE x \in thread[w].ev.vals : TRUE IN
    /\ thread[w].pc = "vals"
    /\ J!JSeenValue(v)
    /\ Goto(w, IF v \in seenVals THEN "finv" ELSE "user")
    /\ UNCHANGED <<cbvars, table, delivered, errs>>

(* ... { callback(v, nil) } *)
CbUserValue(w) ==
    /\ thread[w].pc = "user"
    /\ delivered' = Append(delivered, CHOOSE x \in thread[w].ev.vals : TRUE)
    /\ Goto(w, "finv")
    /\ UNCHANGED <<jvars, cbvars, table, errs>>

(* return j.finish(false) *)
CbFinishValues(w) ==
    /\ thread[w].pc = "finv"
    /\ J!JFinish(FALSE)
    /\ Return(w, J!FinishFlips(FALSE))
    /\ UNCHANGED <<cbvars, table, delivered, errs>>

(* if j.finish(false) { callback(nil, "value not found"); return true }    *)
(* return false                                                            *)
CbFinishNotFound(w) ==
    /\ thread[w].pc = "finnf"
    /\ J!JFinish(FALSE)
    /\ Return(w, J!FinishFlips(FALSE))
    /\ errs' = IF J!FinishFlips(FALSE) THEN Append(errs, "notfound") ELSE errs
    /\ UNCHANGED <<cbvars, table, delivered>>

(* j.add(newNodes): every decoded neighbour is given the id the callback  *)
(* was made for (node{id: id, ...}) and its own address                   *)
CbAdd(w) ==
    LET t == thread[w] IN
    /\ t.pc = "add"
    /\ J!JAdd([k \in 1..Len(t.ev.nodes) |-> [id |-> t.id, addr |-> t.ev.nodes[k], lat |-> 0]])
    /\ Goto(w, "next")
    /\ UNCHANGED <<cbvars, table, delivered, errs>>

(* ns := j.next(3); a nil batch goes on to finish(false) *)
CbNext(w) ==
    /\ thread[w].pc = "next"
    /\ \/ /\ J!NextIsNil
          /\ Goto(w, "finnf")
          /\ UNCHANGED jvars
       \/ \E o \in J!SortedOrders :
             /\ J!JNext(o, ALPHA)
             /\ thread' = [thread EXCEPT ![w].pc = "send", ![w].toSend = J!NextBatch(o, ALPHA)]
    /\ UNCHANGED <<cbvars, table, delivered, errs>>

(* one iteration of the send loop; the callback then returns false *)
CbSend(w) ==
    LET t == thread[w] IN
    /\ t.pc = "send"
    /\ IF t.toSend = <<>>
       THEN Return(w, FALSE) /\ UNCHANGED <<cache, reqs, nextRid>>
       ELSE /\ Request(Head(t.toSend))
            /\ thread' = [thread EXCEPT ![w].toSend = Tail(t.toSend)]
    /\ UNCHANGED <<jvars, table, expiredUpTo, resps, userPc, userSend, delivered, errs>>

(* back in cache.callback, the entry is deleted if the callback returned   *)
(* true; cache.cleanup deletes it whatever the callback returned           *)
CbReturn(w) ==
    LET t == thread[w] IN
    /\ t.pc = "ret"
    /\ cache' = IF w = Sweeper \/ t.ret
                THEN [r \in DOMAIN cache \ {t.rid} |-> cache[r]]
                ELSE cache
    /\ thread' = [thread EXCEPT ![w] = Idle]
    /\ UNCHANGED <<jvars, table, nextRid, expiredUpTo, reqs, resps, userPc, userSend,
                   delivered, errs>>

Callback(w) ==
    \/ CbResponseReceived(w) \/ CbAddOutstanding(w) \/ CbRemoveOutstanding(w)
    \/ CbDeliver(w) \/ CbUserValue(w) \/ CbFinishValues(w) \/ CbFinishNotFound(w)
    \/ CbAdd(w) \/ CbNext(w) \/ CbSend(w) \/ CbReturn(w)

(* the lookup is over: Find has returned, no callback runs, no request is *)
(* pending; the goroutines go on idling                                    *)
Over ==
    /\ userPc = "done"
    /\ \A w \in Workers : thread[w].pc = "idle"
    /\ DOMAIN cache = {}
    /\ UNCHANGED vars

Next ==
    \/ FindStart \/ FindFirstNext \/ FindSend
    \/ Serve \/ Lose \/ Tick \/ Sweep
    \/ \E w \in Listeners : Receive(w)
    \/ \E w \in Workers : Callback(w)
    \/ Over

(* goroutines are scheduled, live peers answer, the sweeper and the clock *)
(* keep running and a datagram in a socket buffer is eventually read; the *)
(* network is not fair: Lose may happen or not                             *)
Fairness ==
    /\ WF_vars(FindStart) /\ WF_vars(FindFirstNext) /\ WF_vars(FindSend)
    /\ WF_vars(Serve) /\ WF_vars(Tick) /\ WF_vars(Sweep)
    /\ \A w \in Listeners : WF_vars(Receive(w))
    /\ \A w \in Workers : WF_vars(Callback(w))

Spec == Init /\ [][Next]_vars /\ Fairness
-----------------------------------------------------------------------------
(* Spec 4.6 (Find): "when no more candidates exist and no response is   *)
(* outstanding, finish the Journey with a value not found error".  So a   *)
(* Find that tells its user "value not found" delivers no value, before   *)
(* or after; findValueCallback's finish(false) on an empty or exhausted   *)
(* answer is what could break it.                                          *)
NotFoundMeansNoValue ==
    (\E i \in DOMAIN errs : errs[i] = "notfound") => delivered = <<>>

(* Spec 7: every outcome of Find reaches the user through its callback:   *)
(* a Find that misses local storage eventually delivers a value or an     *)
(* error, whatever peers are dead and datagrams are lost.                 *)
FindReports == <>(delivered # <<>> \/ errs # <<>>)
=============================================================================
