------------------------------- MODULE Ping --------------------------------
(***************************************************************************)
(* One DHT.pingNode call (part_003), as bucket.refresh makes it, with the  *)
(* goroutines that can run its callback: the listener whose read loop     *)
(* gets the pong (listener.process -> cache.callback) and the cache       *)
(* sweeper (cache.cleanup).  pingNode waits in a select on its response   *)
(* channel, which has one slot, and on time.After(Timeout).  The cache    *)
(* deadline is Timeout after cache.set, and the timer starts after that,  *)
(* so the timer never fires before the deadline has passed.  The sweeper  *)
(* wakes every Timeout, so a pong can arrive after the deadline and be    *)
(* handled while the sweeper times the same entry out.                    *)
(***************************************************************************)
EXTENDS Sequences

CONSTANTS
    Listener,  \* the listener goroutine whose socket gets the pong
    Sweeper    \* the cache sweeper goroutine

Workers == {Listener, Sweeper}

VARIABLES
    ppc,       \* pingNode: "request", "wait" (in the select), "done"
    result,    \* what pingNode returned
    response,  \* the buffered channel: at most one bool
    cached,    \* the request's entry is in the cache
    expired,   \* the request's deadline has passed
    net,       \* the datagrams: "ping", "pong" on the wire, or "none"
    cb         \* per goroutine: the callback invocation it is running

vars == <<ppc, result, response, cached, expired, net, cb>>

CbIdle == [pc |-> "idle", val |-> FALSE]

Init ==
    /\ ppc = "request" /\ result = FALSE
    /\ response = <<>>
    /\ cached = FALSE /\ expired = FALSE
    /\ net = "none"
    /\ cb = [w \in Workers |-> CbIdle]

(* pingNode: listener.request does cache.set and writes the ping; if the  *)
(* write fails pingNode returns false, leaving the entry in the cache     *)
Request ==
    /\ ppc = "request"
    /\ cached' = TRUE
    /\ \/ net' = "ping" /\ ppc' = "wait" /\ UNCHANGED result
       \/ ppc' = "done" /\ result' = FALSE /\ UNCHANGED net
    /\ UNCHANGED <<response, expired, cb>>

(* the pinged node's listener.pong answers; either datagram may be lost *)
Answer == net = "ping" /\ net' = "pong" /\ UNCHANGED <<ppc, result, response, cached, expired, cb>>
Lose == net # "none" /\ net' = "none" /\ UNCHANGED <<ppc, result, response, cached, expired, cb>>

(* the deadline passes *)
Expire ==
    /\ cached /\ ~expired
    /\ expired' = TRUE
    /\ UNCHANGED <<ppc, result, response, cached, net, cb>>

(* listener.process reads the pong: cache.callback finds the entry and    *)
(* runs the callback, which calls routing.seen and sends true             *)
Receive ==
    /\ net = "pong" /\ cb[Listener].pc = "idle"
    /\ net' = "none"
    /\ cb' = IF cached THEN [cb EXCEPT ![Listener] = [pc |-> "send", val |-> TRUE]] ELSE cb
    /\ UNCHANGED <<ppc, result, response, cached, expired>>

(* cache.cleanup: the entry is past its deadline; the callback gets       *)
(* ErrRequestTimeout and sends false                                      *)
Sweep ==
    /\ cached /\ expired /\ cb[Sweeper].pc = "idle"
    /\ cb' = [cb EXCEPT ![Sweeper] = [pc |-> "send", val |-> FALSE]]
    /\ UNCHANGED <<ppc, result, response, cached, expired, net>>

(* the callback's response <- v: blocks while the slot is full *)
Send(w) ==
    /\ cb[w].pc = "send" /\ response = <<>>
    /\ response' = <<cb[w].val>>
    /\ cb' = [cb EXCEPT ![w].pc = "ret"]
    /\ UNCHANGED <<ppc, result, cached, expired, net>>

(* the callback returns true: cache.callback deletes the entry, and       *)
(* cache.cleanup deletes it anyway                                        *)
Return(w) ==
    /\ cb[w].pc = "ret"
    /\ cached' = FALSE
    /\ cb' = [cb EXCEPT ![w] = CbIdle]
    /\ UNCHANGED <<ppc, result, response, expired, net>>

(* pingNode's select: a value from the channel, or the timer; when both   *)
(* are ready Go picks either                                               *)
Recv ==
    /\ ppc = "wait" /\ response # <<>>
    /\ result' = Head(response) /\ response' = <<>>
    /\ ppc' = "done"
    /\ UNCHANGED <<cached, expired, net, cb>>

TimerFires ==
    /\ ppc = "wait" /\ expired
    /\ result' = FALSE /\ ppc' = "done"
    /\ UNCHANGED <<response, cached, expired, net, cb>>

(* pingNode has returned; refresh goes on with its next node, which gets  *)
(* a channel of its own                                                    *)
Returned == ppc = "done" /\ UNCHANGED vars

Next ==
    \/ Request \/ Answer \/ Lose \/ Expire \/ Receive \/ Sweep
    \/ \E w \in Workers : Send(w) \/ Return(w)
    \/ Recv \/ TimerFires \/ Returned

(* goroutines are scheduled, the node answers, time passes; the network   *)
(* may lose a datagram or not                                             *)
Fairness ==
    /\ WF_vars(Request) /\ WF_vars(Answer) /\ WF_vars(Expire)
    /\ WF_vars(Receive) /\ WF_vars(Sweep)
    /\ \A w \in Workers : WF_vars(Send(w)) /\ WF_vars(Return(w))
    /\ WF_vars(Recv) /\ WF_vars(TimerFires)

Spec == Init /\ [][Next]_vars /\ Fairness
-----------------------------------------------------------------------------
(* Every invocation of pingNode's callback returns, so the listener's     *)
(* read loop and the cache sweeper keep running: no callback is left      *)
(* blocked on the one-slot response channel after pingNode has gone.      *)
CallbacksReturn == \A w \in Workers : cb[w].pc # "idle" ~> cb[w].pc = "idle"
=============================================================================
