--------------------------- MODULE LatencyRouter ---------------------------
(***************************************************************************)
(* The latency router's periodic pass (src/latency_router.go               *)
(* updateAllNodeLatencies) over one k-bucket, with the listener read loop  *)
(* that handles the pongs it waits for.                                    *)
(*                                                                         *)
(* The pass calls bucket.iterate, which holds b.mu while it calls          *)
(* measureNodeLatency on every member in turn.  A measurement registers a  *)
(* callback in the request cache (listener.request), sends a ping and      *)
(* waits on a channel of one slot, or on time.After(threshold).  The pong  *)
(* is read by the listener's process loop, which first calls               *)
(* routing.seen(sender) -- taking the mutex of the sender's bucket -- and  *)
(* only then cache.callback.                                               *)
(*                                                                         *)
(* Time: a tick is the threshold (500ms).  Answering a ping and handling   *)
(* the pong take far less, so every step that can run is taken before the  *)
(* clock moves (Urgent); time passes only while every goroutine waits.     *)
(* The cache sweeper is left out: its deadline (Timeout, a minute) is far  *)
(* beyond the threshold, and its race with the listener is Ping's.         *)
(***************************************************************************)
EXTENDS Integers, Sequences, FiniteSets, SequencesExt

CONSTANTS
    Members,      \* b.nodes[0 .. size-1] of the bucket, in slot order
    Answering,    \* the members that answer a ping
    Threshold,    \* lr.threshold, in ticks
    Hour,         \* time.Hour, the latency given to a failed measurement
    WriteErrors,  \* whether listener.write can return an error
    MaxPasses,    \* bound on the ticker's passes
    MaxTime       \* bound on the clock

Nodes == ToSet(Members)

ASSUME /\ IsInjective(Members)
       /\ Answering \subseteq Nodes
       /\ Threshold \in Nat \ {0} /\ Hour > Threshold

VARIABLES
    now,        \* the clock
    rpc,        \* the router: "idle", "request" (next member), "wait" (in the select)
    ri,         \* index into Members of the member being measured
    start,      \* time.Now() when the measurement began
    rid,        \* the request id of the current measurement
    done,       \* the current measurement's channel: <<>> or <<err>>
    holder,     \* who holds b.mu: "none", "router"
    cache,      \* request ids with a callback in the request cache
    wire,       \* pongs on their way to the listener: request ids
    lpc,        \* the listener: "idle", "seen" (calling routing.seen), "callback"
    lrid,       \* the request id of the pong the listener is handling
    latency,    \* n.latency per member
    failCount,  \* n.failCount per member
    passes,     \* passes started (bound)
    timedOut    \* members whose last measurement ended by the timer (history)

vars == <<now, rpc, ri, start, rid, done, holder, cache, wire, lpc, lrid,
          latency, failCount, passes, timedOut>>

TypeOK ==
    /\ now \in 0..MaxTime
    /\ rpc \in {"idle", "request", "wait"}
    /\ ri \in 1..Len(Members) + 1
    /\ start \in 0..MaxTime /\ rid \in Nat
    /\ done \in {<<>>, <<"nil">>}
    /\ holder \in {"none", "router"}
    /\ cache \subseteq 1..rid /\ wire \subseteq 1..rid
    /\ lpc \in {"idle", "seen", "callback"} /\ lrid \in 0..rid
    /\ latency \in [Nodes -> 0..Hour]
    /\ failCount \in [Nodes -> 0..MaxPasses]
    /\ passes \in 0..MaxPasses
    /\ timedOut \subseteq Nodes

(* the listener inserted each member with latency 0 and failCount 0 *)
Init ==
    /\ now = 0 /\ rpc = "idle" /\ ri = 1 /\ start = 0 /\ rid = 0
    /\ done = <<>> /\ holder = "none"
    /\ cache = {} /\ wire = {}
    /\ lpc = "idle" /\ lrid = 0
    /\ latency = [n \in Nodes |-> 0]
    /\ failCount = [n \in Nodes |-> 0]
    /\ passes = 0 /\ timedOut = {}

(* cache.set: the callback is stored under the request id *)
CacheSet(r) == cache' = cache \cup {r}

(* the measurement's result: n.latency = latency; failCount reset on a    *)
(* success, incremented on a failure; then iterate moves to the next slot *)
Record(n, l) ==
    /\ latency' = [latency EXCEPT ![n] = l]
    /\ failCount' = [failCount EXCEPT ![n] = IF l = Hour THEN @ + 1 ELSE 0]
    /\ ri' = ri + 1 /\ rpc' = "request"

-----------------------------------------------------------------------------
(* startLatencyUpdates: the ticker fires; updateAllNodeLatencies calls     *)
(* iterate, which takes b.mu for the whole walk                            *)
TickerFires ==
    /\ rpc = "idle" /\ passes < MaxPasses
    /\ holder = "none"
    /\ holder' = "router" /\ rpc' = "request" /\ ri' = 1
    /\ passes' = passes + 1
    /\ UNCHANGED <<now, start, rid, done, cache, wire, lpc, lrid, latency, failCount,
                   timedOut>>

(* measureNodeLatency: request registers the callback and writes the ping; *)
(* a member that answers puts a pong on the wire.  A write error is        *)
(* returned at once: failCount+1 and an hour                               *)
Request ==
    /\ rpc = "request" /\ ri <= Len(Members)
    /\ LET n == Members[ri] IN
       /\ rid' = rid + 1 /\ start' = now /\ done' = <<>>
       /\ CacheSet(rid + 1)
       /\ \/ /\ rpc' = "wait"
             /\ wire' = IF n \in Answering THEN wire \cup {rid + 1} ELSE wire
             /\ UNCHANGED <<ri, latency, failCount, timedOut>>
          \/ /\ WriteErrors
             /\ Record(n, Hour)
             /\ timedOut' = timedOut \ {n}
             /\ UNCHANGED wire
    /\ UNCHANGED <<now, holder, lpc, lrid, passes>>

(* the select receives the callback's nil: the elapsed time is the latency *)
RouterRecv ==
    /\ rpc = "wait" /\ done # <<>>
    /\ Record(Members[ri], now - start)
    /\ done' = <<>> /\ timedOut' = timedOut \ {Members[ri]}
    /\ UNCHANGED <<now, start, rid, holder, cache, wire, lpc, lrid, passes>>

(* the select's time.After(lr.threshold) fires first *)
RouterTimer ==
    /\ rpc = "wait" /\ now >= start + Threshold
    /\ Record(Members[ri], Hour)
    /\ timedOut' = timedOut \cup {Members[ri]}
    /\ UNCHANGED <<now, start, rid, done, holder, cache, wire, lpc, lrid, passes>>

(* iterate has called fn on every member: b.mu.Unlock *)
RouterUnlock ==
    /\ rpc = "request" /\ ri > Len(Members)
    /\ holder' = "none" /\ rpc' = "idle"
    /\ UNCHANGED <<now, ri, start, rid, done, cache, wire, lpc, lrid, latency,
                   failCount, passes, timedOut>>
-----------------------------------------------------------------------------
(* listener.process reads a pong from the socket *)
ListenerRead ==
    /\ lpc = "idle"
    /\ \E r \in wire :
          /\ wire' = wire \ {r}
          /\ lpc' = "seen" /\ lrid' = r
    /\ UNCHANGED <<now, rpc, ri, start, rid, done, holder, cache, latency,
                   failCount, passes, timedOut>>

(* routing.seen(sender): bucket.seen takes b.mu; the sender is a member,  *)
(* so seen returns true and nothing is inserted                           *)
ListenerSeen ==
    /\ lpc = "seen" /\ holder = "none"
    /\ lpc' = "callback"
    /\ UNCHANGED <<now, rpc, ri, start, rid, done, holder, cache, wire, lrid,
                   latency, failCount, passes, timedOut>>

(* cache.callback: the measurement's callback sends nil on its channel     *)
(* (the slot is free: one send per channel) and returns true, so the entry *)
(* is deleted; a channel whose measurement has returned is never read      *)
ListenerCallback ==
    /\ lpc = "callback"
    /\ IF lrid \in cache
       THEN /\ cache' = cache \ {lrid}
            /\ done' = IF lrid = rid /\ rpc = "wait" THEN <<"nil">> ELSE done
       ELSE UNCHANGED <<cache, done>>
    /\ lpc' = "idle" /\ lrid' = 0
    /\ UNCHANGED <<now, rpc, ri, start, rid, holder, wire, latency, failCount, passes,
                   timedOut>>
-----------------------------------------------------------------------------
(* a step that takes no time *)
Urgent ==
    \/ wire # {} \/ lpc = "callback" \/ (lpc = "seen" /\ holder = "none")
    \/ rpc = "request" \/ (rpc = "wait" /\ done # <<>>)

(* the clock moves when every goroutine waits; at MaxTime it stays *)
Tick ==
    \/ ~Urgent /\ now < MaxTime /\ now' = now + 1
       /\ UNCHANGED <<rpc, ri, start, rid, done, holder, cache, wire, lpc, lrid,
                      latency, failCount, passes, timedOut>>
    \/ now = MaxTime /\ UNCHANGED vars

Next ==
    \/ TickerFires \/ Request \/ RouterRecv \/ RouterTimer \/ RouterUnlock
    \/ ListenerRead \/ ListenerSeen \/ ListenerCallback
    \/ Tick

Fairness ==
    /\ WF_vars(Request) /\ WF_vars(RouterRecv) /\ WF_vars(RouterTimer)
    /\ WF_vars(RouterUnlock) /\ WF_vars(ListenerRead) /\ WF_vars(ListenerSeen)
    /\ WF_vars(ListenerCallback) /\ WF_vars(Tick)

Spec == Init /\ [][Next]_vars /\ Fairness
-----------------------------------------------------------------------------
(* What the router is for: a member that answers its ping at once is never *)
(* timed out by measureNodeLatency, so updateAllNodeLatencies records its *)
(* round trip, not the hour that marks an unreachable node.                *)
AnsweringNodesMeasured == timedOut \cap Answering = {}
=============================================================================
