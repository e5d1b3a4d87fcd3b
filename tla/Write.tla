------------------------------- MODULE Write -------------------------------
(***************************************************************************)
(* The listener's outgoing path (src/listener.go write, flush, flusher,   *)
(* Close): goroutines that send (request, pong, store and find responses) *)
(* copy each fragment of a packet into l.writeBatch under l.mu and flush   *)
(* the batch with conn.WriteBatch when it is full; the flusher goroutine  *)
(* flushes whatever is batched on every tick of ftimer.  DHT.Close closes *)
(* the quit channel and the connection while senders may still run.        *)
(*                                                                         *)
(* A WriteBatch on an open connection succeeds, or (TransientErrors)      *)
(* fails with an error other than net.ErrClosed; on a closed connection   *)
(* it fails with net.ErrClosed.  Datagram contents are left out.          *)
(***************************************************************************)
EXTENDS Integers

CONSTANTS
    Senders,         \* goroutines calling listener.write
    BatchLen,        \* len(l.writeBatch), the socket batch size
    Frags,           \* fragments per packet (packet.fragment)
    MaxWrites,       \* bound on the writes of each sender
    TransientErrors  \* whether WriteBatch can fail on an open connection

ASSUME BatchLen \in Nat \ {0} /\ Frags \in Nat \ {0}

VARIABLES
    size,      \* l.writeBatchSize
    mu,        \* who holds l.mu: "none" or a sender (the flusher holds it in one step)
    wpc,       \* per sender: "idle", or "copy" while it holds l.mu in its loop
    left,      \* per sender: fragments of the current packet still to copy
    writes,    \* per sender: writes started (bound)
    closed,    \* the connection is closed (and quit with it)
    fpc,       \* the flusher: "run" or "exited"
    panicked   \* "no", or how the process died: "index" or "flush"

vars == <<size, mu, wpc, left, writes, closed, fpc, panicked>>

TypeOK ==
    /\ size \in 0..BatchLen
    /\ mu \in Senders \cup {"none"}
    /\ wpc \in [Senders -> {"idle", "copy"}]
    /\ left \in [Senders -> 0..Frags]
    /\ writes \in [Senders -> 0..MaxWrites]
    /\ closed \in BOOLEAN
    /\ fpc \in {"run", "exited"}
    /\ panicked \in {"no", "index", "flush"}

(* listen: a batch of SocketBatchSize messages, empty *)
Init ==
    /\ size = 0 /\ mu = "none"
    /\ wpc = [s \in Senders |-> "idle"]
    /\ left = [s \in Senders |-> 0]
    /\ writes = [s \in Senders |-> 0]
    /\ closed = FALSE /\ fpc = "run" /\ panicked = "no"

(* what conn.WriteBatch can return *)
Outcomes == IF closed THEN {"ErrClosed"}
            ELSE IF TransientErrors THEN {"ok", "err"} ELSE {"ok"}

(* flush: nothing to do on an empty batch; the batch is reset only when   *)
(* WriteBatch succeeds                                                     *)
Flush(res) == size' = IF size < 1 \/ res # "ok" THEN size ELSE 0
-----------------------------------------------------------------------------
(* write: the packet is fragmented, then l.mu is taken *)
WriteStart(s) ==
    /\ panicked = "no"
    /\ wpc[s] = "idle" /\ writes[s] < MaxWrites /\ mu = "none"
    /\ mu' = s /\ wpc' = [wpc EXCEPT ![s] = "copy"]
    /\ left' = [left EXCEPT ![s] = Frags]
    /\ writes' = [writes EXCEPT ![s] = @ + 1]
    /\ UNCHANGED <<size, closed, fpc, panicked>>

(* one turn of write's loop: the fragment is copied into                   *)
(* writeBatch[writeBatchSize] -- out of range when the size is BatchLen,  *)
(* a panic -- and a full batch is flushed; a flush error is returned at   *)
(* once, l.mu released by the deferred Unlock; after the last fragment    *)
(* write returns nil                                                       *)
WriteFrag(s) ==
    /\ panicked = "no" /\ wpc[s] = "copy"
    /\ \/ /\ size >= BatchLen
          /\ panicked' = "index"
          /\ UNCHANGED <<size, mu, wpc, left>>
       \/ /\ size < BatchLen
          /\ \E res \in Outcomes :
                LET full == size + 1 >= BatchLen
                    fails == full /\ res # "ok"
                    last == left[s] = 1
                IN  /\ size' = IF full /\ res = "ok" THEN 0 ELSE size + 1
                    /\ left' = [left EXCEPT ![s] = IF fails THEN 0 ELSE @ - 1]
                    /\ IF fails \/ last
                       THEN mu' = "none" /\ wpc' = [wpc EXCEPT ![s] = "idle"]
                       ELSE UNCHANGED <<mu, wpc>>
          /\ UNCHANGED panicked
    /\ UNCHANGED <<writes, closed, fpc>>

(* flusher: on a tick, flush(true) under l.mu; net.ErrClosed ends the     *)
(* flusher, any other error panics                                         *)
FlusherTick ==
    /\ panicked = "no" /\ fpc = "run" /\ mu = "none"
    /\ \E res \in Outcomes :
          /\ Flush(res)
          /\ \/ (size < 1 \/ res = "ok") /\ UNCHANGED <<fpc, panicked>>
             \/ size >= 1 /\ res = "ErrClosed"
                /\ fpc' = "exited" /\ UNCHANGED panicked
             \/ size >= 1 /\ res = "err"
                /\ panicked' = "flush" /\ UNCHANGED fpc
    /\ UNCHANGED <<mu, wpc, left, writes, closed>>

(* flusher: the quit channel is closed *)
FlusherQuit ==
    /\ panicked = "no" /\ fpc = "run" /\ closed
    /\ fpc' = "exited"
    /\ UNCHANGED <<size, mu, wpc, left, writes, closed, panicked>>

(* listener.Close (from DHT.Close): close(l.quit) and conn.Close(),        *)
(* without l.mu                                                            *)
Close ==
    /\ panicked = "no" /\ ~closed
    /\ closed' = TRUE
    /\ UNCHANGED <<size, mu, wpc, left, writes, fpc, panicked>>

(* the process has died, or every sender is done and the flusher gone *)
Stopped ==
    /\ \/ panicked # "no"
       \/ fpc = "exited" /\ \A s \in Senders : wpc[s] = "idle" /\ writes[s] = MaxWrites
    /\ UNCHANGED vars

Next ==
    \/ \E s \in Senders : WriteStart(s) \/ WriteFrag(s)
    \/ FlusherTick \/ FlusherQuit \/ Close \/ Stopped

Spec == Init /\ [][Next]_vars /\ WF_vars(Next)
-----------------------------------------------------------------------------
(* A sender never writes past the end of l.writeBatch: write copies into  *)
(* writeBatch[writeBatchSize] only while the size is below the batch       *)
(* length -- even after a flush has failed, or the connection has been    *)
(* closed by DHT.Close while other goroutines still send.                  *)
NoWriteOutOfRange == panicked # "index"
=============================================================================
