----------------------------- MODULE Bootstrap -----------------------------
(***************************************************************************)
(* The bootstrap in New (part_003, dht.go): findNodes sends FIND_NODE for *)
(* the local id to every bootstrap address, and New then reads one result *)
(* per address from br, a channel with one buffer slot per address.       *)
(* Every request's callback is findNodeCallback on one shared journey     *)
(* (module Journey): it inserts the decoded neighbours into the routing   *)
(* table, adds them to the journey and sends the next batch, and passes   *)
(* a result to br through the user callback (br <- err).                  *)
(*                                                                         *)
(* The callbacks run on the listener's read loop (listener.process ->     *)
(* cache.callback) and on the cache sweeper (cache.cleanup), each split   *)
(* at every journey lock and at the channel send, where the goroutine     *)
(* waits while br is full.  Bootstrap addresses are not added to the      *)
(* journey (their ids are unknown); the neighbours a peer returns are.    *)
(* Peers always send a well-formed payload (the invalid-payload branch,   *)
(* one user callback and return false, is left out).                      *)
(***************************************************************************)
EXTENDS Integers, Sequences, SequencesExt, FiniteSets, Functions

CONSTANTS
    Peers,      \* ids (and addresses) of the remote nodes
    Local,      \* the id of this node, the FIND_NODE target
    Boot,       \* cfg.BootstrapAddresses, in order
    Dist,       \* Dist[i]: common prefix length of id i with Local
    K,          \* K: journey capacity and hop budget
    Alive,      \* peers that answer requests
    Nbrs,       \* Nbrs[p]: the ids p returns from closestN(target, K)
    Listener,   \* the listener goroutine
    Sweeper,    \* the cache sweeper goroutine
    WriteErrors,\* whether listener.request can fail to write
    Timely      \* whether every answer is handled before its request's deadline

ASSUME /\ Local \notin Peers /\ Sweeper # Listener
       /\ Boot \in Seq(Peers) /\ Boot # <<>>
       /\ Nbrs \in [Peers -> Seq(Peers \cup {Local})]

Nodes == Peers \cup {Local}
Workers == {Listener, Sweeper}
BrCap == Len(Boot)   \* make(chan error, len(cfg.BootstrapAddresses))

VARIABLES
    visited, frontier, remaining, inflight, completed, outstanding, seenVals,
    table,       \* remote ids in the routing table
    cache,       \* the request cache: the rids with an entry
    nextRid,     \* the next request id
    expiredUpTo, \* requests with rid <= expiredUpTo are past their deadline
    reqs,        \* FIND_NODE requests on the wire: [rid, to]
    resps,       \* FIND_NODE responses on the wire
    thread,      \* per worker goroutine: the callback it is running
    upc,         \* New: "send", "recv", "returned" or "failed"
    bi,          \* New: the bootstrap address findNodes is at
    br,          \* the channel's buffer
    got,         \* results New has read from br
    successes    \* nil results among them

J == INSTANCE Journey WITH Ids <- Nodes, Addrs <- Nodes, Lats <- {0},
                          Values <- {}, Source <- Local, Iterations <- K

jvars == <<visited, frontier, remaining, inflight, completed, outstanding, seenVals>>
newvars == <<upc, bi, got, successes>>
vars == <<jvars, table, cache, nextRid, expiredUpTo, reqs, resps, thread, newvars, br>>

Resp == [rid : Nat, from : Nodes, nodes : Seq(Nodes), timeout : BOOLEAN]
TimeoutEv(r) == [rid |-> r, from |-> Local, nodes |-> <<>>, timeout |-> TRUE]
Idle == [pc |-> "idle", rid |-> 0, ev |-> TimeoutEv(0), toSend |-> <<>>,
         arg |-> "nil", ret |-> FALSE]
Route(i) == [id |-> i, addr |-> i, lat |-> 0]

TypeOK ==
    /\ J!JTypeOK
    /\ table \subseteq Peers
    /\ cache \subseteq 1..nextRid
    /\ reqs \subseteq [rid : Nat, to : Peers] /\ resps \subseteq Resp
    /\ \A w \in Workers : thread[w].pc \in {"idle", "rr", "add", "next", "fin",
                                             "send", "user", "ret"}
    /\ upc \in {"send", "recv", "returned", "failed"} /\ bi \in 1..Len(Boot) + 1
    /\ br \in Seq({"nil", "err"}) /\ Len(br) <= BrCap
    /\ got \in 0..Len(Boot) /\ successes \in 0..got

Init ==
    /\ J!JInit
    /\ table = {}
    /\ cache = {} /\ nextRid = 1 /\ expiredUpTo = 0
    /\ reqs = {} /\ resps = {}
    /\ thread = [w \in Workers |-> Idle]
    /\ upc = "send" /\ bi = 1
    /\ br = <<>> /\ got = 0 /\ successes = 0
-----------------------------------------------------------------------------
(* listener.request: cache.set for a fresh rid, then write the datagram   *)
Request(to) ==
    /\ cache' = cache \cup {nextRid}
    /\ reqs' = reqs \cup {[rid |-> nextRid, to |-> to]}
    /\ nextRid' = nextRid + 1

(* findNodes, one address of the loop; a failed write calls the user      *)
(* callback on New's goroutine and findNodes returns                      *)
FindNodes ==
    /\ upc = "send"
    /\ IF bi > Len(Boot)
       THEN upc' = "recv" /\ UNCHANGED <<bi, br, cache, reqs, nextRid>>
       ELSE /\ Request(Boot[bi])
            /\ \/ bi' = bi + 1 /\ UNCHANGED <<upc, br>>
               \/ /\ WriteErrors /\ Len(br) < BrCap
                  /\ br' = Append(br, "err") /\ upc' = "recv" /\ UNCHANGED bi
    /\ UNCHANGED <<jvars, table, expiredUpTo, resps, thread, got, successes>>

(* New: for range cfg.BootstrapAddresses { err := <-br ... }, then fail   *)
(* if no result was nil and there was more than one address               *)
NewRecv ==
    /\ upc = "recv" /\ br # <<>>
    /\ br' = Tail(br)
    /\ got' = got + 1
    /\ successes' = successes + (IF Head(br) = "nil" THEN 1 ELSE 0)
    /\ upc' = IF got' < Len(Boot) THEN "recv"
              ELSE IF successes' < 1 /\ Len(Boot) > 1 THEN "failed" ELSE "returned"
    /\ UNCHANGED <<jvars, table, cache, nextRid, expiredUpTo, reqs, resps, thread, bi>>
-----------------------------------------------------------------------------
(* a live peer's listener.findNode answers with closestN(target, K) *)
Answer ==
    \E m \in reqs :
        /\ m.to \in Alive
        /\ reqs' = reqs \ {m}
        /\ resps' = resps \cup {[rid |-> m.rid, from |-> m.to, nodes |-> Nbrs[m.to],
                                 timeout |-> FALSE]}
        /\ UNCHANGED <<jvars, table, cache, nextRid, expiredUpTo, thread, newvars, br>>

(* the clock passes the deadline of the next request; on a timely network *)
(* not while its request, its answer or the listener's callback for it is *)
(* still under way                                                         *)
Tick ==
    /\ expiredUpTo + 1 < nextRid
    /\ Timely => /\ \A m \in reqs \cup resps : m.rid # expiredUpTo + 1
                 /\ thread[Listener].rid # expiredUpTo + 1
    /\ expiredUpTo' = expiredUpTo + 1
    /\ UNCHANGED <<jvars, table, cache, nextRid, reqs, resps, thread, newvars, br>>

(* listener.process for a response: routing.seen, or insert when the      *)
(* sender is unknown; then cache.callback starts the callback, if the rid *)
(* still has an entry                                                      *)
Receive ==
    \E m \in resps :
        /\ thread[Listener].pc = "idle"
        /\ resps' = resps \ {m}
        /\ table' = table \cup {m.from}
        /\ IF m.rid \in cache
           THEN thread' = [thread EXCEPT ![Listener] = [Idle EXCEPT !.pc = "rr",
                                                          !.rid = m.rid, !.ev = m]]
           ELSE UNCHANGED thread
        /\ UNCHANGED <<jvars, cache, nextRid, expiredUpTo, reqs, newvars, br>>

(* cache.cleanup: an entry past its deadline gets (nil, ErrRequestTimeout) *)
Sweep ==
    \E r \in cache :
        /\ r <= expiredUpTo
        /\ thread[Sweeper].pc = "idle"
        /\ thread' = [thread EXCEPT ![Sweeper] = [Idle EXCEPT !.pc = "rr", !.rid = r,
                                                    !.ev = TimeoutEv(r)]]
        /\ UNCHANGED <<jvars, table, cache, nextRid, expiredUpTo, reqs, resps, newvars, br>>
-----------------------------------------------------------------------------
(* findNodeCallback(target, callback, j), one journey lock or channel     *)
(* send per step, on the goroutine w that invoked it                      *)
Goto(w, pc) == thread' = [thread EXCEPT ![w].pc = pc]
Return(w, b) == thread' = [thread EXCEPT ![w].pc = "ret", ![w].ret = b]
User(w, err, b) == thread' = [thread EXCEPT ![w].pc = "user", ![w].arg = err, ![w].ret = b]

cbvars == <<cache, nextRid, expiredUpTo, reqs, resps, newvars, br>>

(* _, shouldError := j.responseReceived(); an error goes to the user only *)
(* when shouldError, and the callback returns true; completion is ignored *)
CbResponseReceived(w) ==
    LET t == thread[w] IN
    /\ t.pc = "rr"
    /\ J!JResponseReceived
    /\ CASE t.ev.timeout /\ J!RRShouldError -> User(w, "err", TRUE)
         [] t.ev.timeout                    -> Return(w, FALSE)
         [] OTHER                           -> Goto(w, "add")
    /\ UNCHANGED <<cbvars, table>>

(* every decoded neighbour, with its own id, goes to routing.insert, then *)
(* all of them to j.add                                                    *)
CbAdd(w) ==
    LET ns == thread[w].ev.nodes IN
    /\ thread[w].pc = "add"
    /\ table' = table \cup (ToSet(ns) \cap Peers)
    /\ J!JAdd([k \in 1..Len(ns) |-> Route(ns[k])])
    /\ Goto(w, "next")
    /\ UNCHANGED cbvars

(* ns := j.next(3); nil goes on to finish(false) *)
CbNext(w) ==
    /\ thread[w].pc = "next"
    /\ \/ /\ J!NextIsNil
          /\ Goto(w, "fin")
          /\ UNCHANGED jvars
       \/ \E o \in J!SortedOrders :
             /\ J!JNext(o, 3)
             /\ thread' = [thread EXCEPT ![w].pc = "send", ![w].toSend = J!NextBatch(o, 3)]
    /\ UNCHANGED <<cbvars, table>>

(* if j.finish(false) { callback(nil); return true }; return false *)
CbFinish(w) ==
    /\ thread[w].pc = "fin"
    /\ J!JFinish(FALSE)
    /\ IF J!FinishFlips(FALSE) THEN User(w, "nil", TRUE) ELSE Return(w, FALSE)
    /\ UNCHANGED <<cbvars, table>>

(* one request of the batch; a write error calls the user back and the    *)
(* callback returns false                                                  *)
CbSend(w) ==
    LET t == thread[w] IN
    /\ t.pc = "send"
    /\ IF t.toSend = <<>>
       THEN Return(w, FALSE) /\ UNCHANGED <<cache, reqs, nextRid>>
       ELSE /\ Request(Head(t.toSend).addr)
            /\ \/ thread' = [thread EXCEPT ![w].toSend = Tail(t.toSend)]
               \/ WriteErrors /\ User(w, "err", FALSE)
    /\ UNCHANGED <<jvars, table, expiredUpTo, resps, newvars, br>>

(* New's callback: br <- err, which waits while the buffer is full *)
CbUser(w) ==
    /\ thread[w].pc = "user"
    /\ Len(br) < BrCap
    /\ br' = Append(br, thread[w].arg)
    /\ Goto(w, "ret")
    /\ UNCHANGED <<jvars, table, cache, nextRid, expiredUpTo, reqs, resps, newvars>>

(* back in cache.callback the entry is deleted if the callback returned   *)
(* true; cache.cleanup deletes it whatever the callback returned           *)
CbReturn(w) ==
    /\ thread[w].pc = "ret"
    /\ cache' = IF w = Sweeper \/ thread[w].ret THEN cache \ {thread[w].rid} ELSE cache
    /\ thread' = [thread EXCEPT ![w] = Idle]
    /\ UNCHANGED <<jvars, table, nextRid, expiredUpTo, reqs, resps, newvars, br>>

Callback(w) ==
    \/ CbResponseReceived(w) \/ CbAdd(w) \/ CbNext(w) \/ CbFinish(w)
    \/ CbSend(w) \/ CbUser(w) \/ CbReturn(w)

Next ==
    \/ FindNodes \/ NewRecv
    \/ Answer \/ Tick \/ Receive \/ Sweep
    \/ \E w \in Workers : Callback(w)

(* goroutines are scheduled, live peers answer, the clock and the sweeper *)
(* keep running and a datagram in the socket buffer is eventually read    *)
Fairness ==
    /\ WF_vars(FindNodes) /\ WF_vars(NewRecv)
    /\ WF_vars(Answer) /\ WF_vars(Tick) /\ WF_vars(Receive) /\ WF_vars(Sweep)
    /\ \A w \in Workers : WF_vars(Callback(w))

Spec == Init /\ [][Next]_vars /\ Fairness
-----------------------------------------------------------------------------
(* The listener's read loop and the cache sweeper always get back to      *)
(* their loops: no findNodeCallback they run waits forever in br <- err.  *)
(* New reads only len(BootstrapAddresses) results, and br has as many     *)
(* slots, so this needs the callbacks to send at most twice that many.    *)
WorkersNeverBlock == \A w \in Workers : thread[w].pc # "idle" ~> thread[w].pc = "idle"

(* New returns, with the node bootstrapped or with "bootstrapping failed": *)
(* the callbacks of findNodes' requests eventually put one result in br  *)
(* per bootstrap address, whatever order the answers come in.            *)
NewReturns == <>(upc \in {"returned", "failed"})
=============================================================================
