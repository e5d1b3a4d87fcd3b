------------------------------- MODULE Store -------------------------------
(***************************************************************************)
(* One DHT.Store of a key (part_003, dht.go: Store) together with what it  *)
(* drives: the request cache (cache.go: set, callback, cleanup), the       *)
(* listeners' read loops that hand STORE responses to it (listener.go:     *)
(* process) and the remote nodes' listener.store.                          *)
(*                                                                         *)
(* Store walks ns = routing.closestN(key, K): the local node stores the    *)
(* value directly, every other node gets a STORE request whose callback   *)
(* counts successes in r with atomic.AddInt32 and calls the user back.    *)
(* The routing table always holds the local node (New inserts it), so ns  *)
(* is never empty: it is the local node alone, or holds it, or is K        *)
(* remote nodes that are all closer to the key than the local node.        *)
(*                                                                         *)
(* The listeners and the cache sweeper are goroutines of their own.       *)
(* cache.callback and the sweeper's Range each load an entry, run its      *)
(* callback and delete it in separate steps, so both can run the callback *)
(* of one request.  Datagrams may be lost (Lossy); the sweeper may time    *)
(* out any entry, since an answer can arrive after its deadline.           *)
(***************************************************************************)
EXTENDS Integers, Sequences, SequencesExt, FiniteSets

CONSTANTS
    Local,        \* the local node's id
    Remote,       \* ids of the remote nodes
    Closest,      \* the results closestN(key, K) can give
    Listeners,    \* the listener goroutines
    Sweeper,      \* the cache sweeper goroutine
    Lossy,        \* whether datagrams can be lost
    WriteErrors,  \* whether listener.write can return an error
    None          \* no node

Workers == Listeners \cup {Sweeper}

ASSUME /\ Local \notin Remote /\ Sweeper \notin Listeners /\ None \notin Remote
       /\ \A ns \in Closest : ns # <<>> /\ IsInjective(ns)
                              /\ ToSet(ns) \subseteq Remote \cup {Local}

VARIABLES
    ns,       \* the nodes Store stores to
    upc,      \* the caller of Store: "start", "loop" or "returned"
    i,        \* the index in ns of the node the loop is at
    r,        \* successful stores counted by the callbacks
    stored,   \* nodes whose storage holds the value
    cache,    \* remote nodes whose request has a callback in the cache
    reqs,     \* STORE requests on the wire, by destination
    resps,    \* STORE responses on the wire, by sender
    thread,   \* per worker: the node whose request's callback it runs, or None
    calls     \* the arguments the user's callback was called with, in order

vars == <<ns, upc, i, r, stored, cache, reqs, resps, thread, calls>>

TypeOK ==
    /\ ns \in Closest
    /\ upc \in {"start", "loop", "returned"} /\ i \in 1..Len(ns)
    /\ r \in 0..Cardinality(Remote)
    /\ stored \subseteq ToSet(ns)
    /\ cache \subseteq Remote /\ reqs \subseteq Remote /\ resps \subseteq Remote
    /\ thread \in [Workers -> Remote \cup {None}]
    /\ calls \in Seq({"nil", "err"})

Init ==
    /\ ns \in Closest
    /\ upc = "start" /\ i = 1 /\ r = 0
    /\ stored = {} /\ cache = {} /\ reqs = {} /\ resps = {}
    /\ thread = [w \in Workers |-> None]
    /\ calls = <<>>

(* the user's callback is called with err *)
CallBack(err) == calls' = Append(calls, err)
-----------------------------------------------------------------------------
(* Store: a key that is not KEY_BYTES long or a value over VALUE_BYTES is *)
(* refused at once; otherwise the loop over ns begins                      *)
Begin ==
    /\ upc = "start"
    /\ \/ upc' = "loop" /\ UNCHANGED calls
       \/ upc' = "returned" /\ CallBack("err")
    /\ UNCHANGED <<ns, i, r, stored, cache, reqs, resps, thread>>

\* mutant: the loop runs one index past the end of ns
StoreStepPastEnd ==
    /\ upc = "loop"
    /\ LET n == ns[i]
           advance == IF i > Len(ns) THEN upc' = "returned" /\ UNCHANGED i
                                     ELSE i' = i + 1 /\ UNCHANGED upc
       IN \/ /\ n = Local
             /\ stored' = stored \cup {Local}
             /\ IF Len(ns) = 1
                THEN upc' = "returned" /\ CallBack("nil") /\ UNCHANGED i
                ELSE advance /\ UNCHANGED calls
             /\ UNCHANGED <<cache, reqs>>
          \/ /\ n # Local
             /\ cache' = cache \cup {n}
             /\ \/ reqs' = reqs \cup {n} /\ advance /\ UNCHANGED calls
                \/ /\ WriteErrors
                   /\ upc' = "returned" /\ CallBack("err")
                   /\ UNCHANGED <<i, reqs>>
             /\ UNCHANGED stored
    /\ UNCHANGED <<ns, r, resps, thread>>

\* mutant: the local-only shortcut returns without calling back
StoreStepNoShortcutCallback ==
    /\ upc = "loop"
    /\ LET n == ns[i]
           advance == IF i = Len(ns) THEN upc' = "returned" /\ UNCHANGED i
                                     ELSE i' = i + 1 /\ UNCHANGED upc
       IN \/ /\ n = Local
             /\ stored' = stored \cup {Local}
             /\ IF Len(ns) = 1
                THEN upc' = "returned" /\ UNCHANGED <<i, calls>>
                ELSE advance /\ UNCHANGED calls
             /\ UNCHANGED <<cache, reqs>>
          \/ /\ n # Local
             /\ cache' = cache \cup {n}
             /\ \/ reqs' = reqs \cup {n} /\ advance /\ UNCHANGED calls
                \/ /\ WriteErrors
                   /\ upc' = "returned" /\ CallBack("err")
                   /\ UNCHANGED <<i, reqs>>
             /\ UNCHANGED stored
    /\ UNCHANGED <<ns, r, resps, thread>>

(* one turn of Store's loop.  The local node stores the value directly,   *)
(* and calls back at once if it is the only node.  Any other node gets a   *)
(* request: listener.request sets the callback in the cache and writes    *)
(* the datagram; a write error is passed to the callback and Store        *)
(* returns.                                                                *)
StoreStep ==
    /\ upc = "loop"
    /\ LET n == ns[i]
           advance == IF i = Len(ns) THEN upc' = "returned" /\ UNCHANGED i
                                     ELSE i' = i + 1 /\ UNCHANGED upc
       IN \/ /\ n = Local
             /\ stored' = stored \cup {Local}
             /\ IF Len(ns) = 1
                THEN upc' = "returned" /\ CallBack("nil") /\ UNCHANGED i
                ELSE advance /\ UNCHANGED calls
             /\ UNCHANGED <<cache, reqs>>
          \/ /\ n # Local
             /\ cache' = cache \cup {n}
             /\ \/ reqs' = reqs \cup {n} /\ advance /\ UNCHANGED calls
                \/ /\ WriteErrors
                   /\ upc' = "returned" /\ CallBack("err")
                   /\ UNCHANGED <<i, reqs>>
             /\ UNCHANGED stored
    /\ UNCHANGED <<ns, r, resps, thread>>
-----------------------------------------------------------------------------
(* the remote node's listener.store: storage.Set, then a STORE response   *)
RemoteStore ==
    \E n \in reqs :
       /\ reqs' = reqs \ {n}
       /\ stored' = stored \cup {n}
       /\ resps' = resps \cup {n}
       /\ UNCHANGED <<ns, upc, i, r, cache, thread, calls>>

(* a request or a response is lost *)
Lose ==
    /\ Lossy
    /\ \/ \E n \in reqs : reqs' = reqs \ {n} /\ UNCHANGED resps
       \/ \E n \in resps : resps' = resps \ {n} /\ UNCHANGED reqs
    /\ UNCHANGED <<ns, upc, i, r, stored, cache, thread, calls>>

(* listener.process reads a response and calls cache.callback, which      *)
(* loads the entry; without one it returns                                *)
ListenerLoad(l) ==
    /\ thread[l] = None
    /\ \E n \in resps :
          /\ resps' = resps \ {n}
          /\ thread' = IF n \in cache THEN [thread EXCEPT ![l] = n] ELSE thread
    /\ UNCHANGED <<ns, upc, i, r, stored, cache, reqs, calls>>

(* the sweeper's Range reaches an entry whose ttl has passed *)
SweepLoad ==
    /\ thread[Sweeper] = None
    /\ \E n \in cache : thread' = [thread EXCEPT ![Sweeper] = n]
    /\ UNCHANGED <<ns, upc, i, r, stored, cache, reqs, resps, calls>>

\* mutant: the error branch does not return, so a timeout is also counted
RunCallbackCountsErrors(w) ==
    /\ thread[w] # None
    /\ r' = r + 1
    /\ calls' = IF w = Sweeper
                THEN IF r + 1 = Len(ns) - 1 THEN calls \o <<"err", "nil">>
                                             ELSE Append(calls, "err")
                ELSE IF r + 1 = Len(ns) - 1 THEN Append(calls, "nil") ELSE calls
    /\ cache' = cache \ {thread[w]}
    /\ thread' = [thread EXCEPT ![w] = None]
    /\ UNCHANGED <<ns, upc, i, stored, reqs, resps>>

\* mutant: success is reported once r reaches len(ns)-1, not when it gets there
RunCallbackAtLeast(w) ==
    /\ thread[w] # None
    /\ IF w = Sweeper
       THEN CallBack("err") /\ UNCHANGED r
       ELSE /\ r' = r + 1
            /\ IF r + 1 >= Len(ns) - 1 THEN CallBack("nil") ELSE UNCHANGED calls
    /\ cache' = cache \ {thread[w]}
    /\ thread' = [thread EXCEPT ![w] = None]
    /\ UNCHANGED <<ns, upc, i, stored, reqs, resps>>

(* Store's callback runs, and the entry is deleted: it returns true on    *)
(* every path.  The sweeper passes ErrRequestTimeout, which goes to the    *)
(* user; a response adds one to r, and the callback that brings r to      *)
(* len(ns)-1 reports success.                                              *)
RunCallback(w) ==
    /\ thread[w] # None
    /\ IF w = Sweeper
       THEN CallBack("err") /\ UNCHANGED r
       ELSE /\ r' = r + 1
            /\ IF r + 1 = Len(ns) - 1 THEN CallBack("nil") ELSE UNCHANGED calls
    /\ cache' = cache \ {thread[w]}
    /\ thread' = [thread EXCEPT ![w] = None]
    /\ UNCHANGED <<ns, upc, i, stored, reqs, resps>>

(* Store has returned and every request is settled *)
Settled ==
    /\ upc = "returned" /\ cache = {} /\ reqs = {} /\ resps = {}
    /\ \A w \in Workers : thread[w] = None
    /\ UNCHANGED vars

Next ==
    \/ Begin \/ StoreStep \/ RemoteStore \/ Lose
    \/ \E l \in Listeners : ListenerLoad(l)
    \/ SweepLoad
    \/ \E w \in Workers : RunCallback(w)
    \/ Settled

(* the goroutines run when they can; the network need not lose anything *)
Fairness ==
    /\ WF_vars(Begin) /\ WF_vars(StoreStep) /\ WF_vars(RemoteStore)
    /\ \A l \in Listeners : WF_vars(ListenerLoad(l))
    /\ WF_vars(SweepLoad)
    /\ \A w \in Workers : WF_vars(RunCallback(w))

Spec == Init /\ [][Next]_vars /\ Fairness
-----------------------------------------------------------------------------
(* Store reports success only when the value is on len(ns)-1 remote nodes: *)
(* every callback that counts in r stands for a STORE response, so a      *)
(* timeout racing a response, or a request lost, never counts.             *)
SuccessMeansStored ==
    (\E k \in 1..Len(calls) : calls[k] = "nil")
        => Cardinality(stored \cap Remote) >= Len(ns) - 1

(* Success is reported at most once, however the callbacks of different   *)
(* responses, run by different listeners, interleave around r.            *)
SuccessAtMostOnce ==
    Cardinality({k \in 1..Len(calls) : calls[k] = "nil"}) <= 1

(* The caller of Store is always called back: by the local shortcut, by   *)
(* enough responses, by a write error, or by the sweeper's timeouts.       *)
EventuallyCalledBack == <>(calls # <<>>)
=============================================================================
