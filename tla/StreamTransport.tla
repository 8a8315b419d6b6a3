-------------------------- MODULE StreamTransport --------------------------
(***************************************************************************)
(* Stream connections on top of the engine: UringSocketTransport           *)
(* (transport.py), the completion dispatch of UringEventLoop (loop.py) and *)
(* the engine itself (UringCore), run by the one loop thread.              *)
(*                                                                         *)
(* One turn of the loop (_run_once) has three phases: run_tick drains the  *)
(* completion queue and resolves futures; it then executes the batch of    *)
(* ready callbacks, among them the done-callbacks of the futures it just   *)
(* resolved; after it returned, _process_completions goes through the same *)
(* completions once more.  Application code runs in the batch.             *)
(*                                                                         *)
(* A descriptor number can be used again as soon as its socket is closed,  *)
(* while the operations of the old connection are still in the kernel.     *)
(***************************************************************************)
EXTENDS UringCore, SequencesExt

CONSTANTS
    Conns,        \* connections, in the order in which they are made
    HighWater,    \* _high_water; a write has length 1
    LowWater,     \* _low_water
    AppMoves      \* what the application does of its own accord

AllMoves == {"write", "pause", "resume", "close", "abort"}

\* Transports receive and send on one descriptor at the same time
ASSUME TransportAssumption ==
    /\ Conns \subseteq Nat
    /\ HighWater \in Nat /\ LowWater \in Nat
    /\ AppMoves \subseteq AllMoves
    /\ ~SingleOp /\ {"recv", "send"} \subseteq Kinds

VARIABLES
    tr,          \* the transport object of each connection
    transports,  \* loop._transports: fd -> connection
    ioFutures,   \* loop._io_futures[(fd, "recv")]
    owner,       \* the connection whose callback a future carries
    ready,       \* scheduler: callbacks scheduled for the next batch
    batch,       \* callbacks the current tick still has to run
    todo,        \* completions _process_completions still has to handle
    phase,       \* "tick", "batch" or "process"
    rearming,    \* connection whose running callback ends in _rearm_recv
    received,    \* ghost: what the kernel received, per connection
    delivered    \* ghost: what data_received was called with

trVars == <<tr, transports, ioFutures, owner, ready, batch, todo, phase,
            rearming, received, delivered>>
allVars == <<vars, trVars>>

NoTransport == [made |-> FALSE, fd |-> None, closing |-> FALSE, closed |-> FALSE,
                paused |-> FALSE, recvPending |-> FALSE, size |-> 0,
                writePaused |-> FALSE, eof |-> FALSE, lost |-> 0]

TransportInit ==
    /\ Init
    /\ tr = [x \in Conns |-> NoTransport]
    /\ transports = [fd \in Fds |-> None]
    /\ ioFutures = [fd \in Fds |-> None]
    /\ owner = [c \in Calls |-> None]
    /\ ready = <<>> /\ batch = <<>> /\ todo = <<>>
    /\ phase = "batch"
    /\ rearming = None
    /\ received = [x \in Conns |-> <<>>]
    /\ delivered = [x \in Conns |-> <<>>]

----------------------------------------------------------------------------
(***************************************************************************)
(* Effects shared by several handlers, on the transport record t and on    *)
(* the ready queue.                                                        *)
(***************************************************************************)
Callback(what, x, c) == [what |-> what, conn |-> x, call |-> c]

\* The done-callback a future carries
DoneCallback(c) ==
    Callback(IF op[c].kind = "send" THEN "writeDone" ELSE "recvDone", owner[c], c)

Closed(t) == [t EXCEPT !.closing = TRUE]                       \* close
ForceClosed(t) == [t EXCEPT !.closing = TRUE, !.closed = TRUE]  \* _force_close

\* _eof_received: the protocol decides whether the transport stays open.  The
\* eof mark is not in the code, it serves ReaderAlive.
EofReceived(t, keepOpen) ==
    IF keepOpen THEN [t EXCEPT !.eof = TRUE] ELSE Closed(t)

\* _force_close schedules connection_lost unless it ran before
BugLostCallback(x) == <<Callback("connLost", x, None)>>   \* _closed not checked
LostCallback(x) ==
    IF tr[x].closed THEN <<>> ELSE <<Callback("connLost", x, None)>>

\* Bug: the size is not kept above zero
BugSendCompleted(t, n) ==
    [t EXCEPT !.size = @ - n,
              !.writePaused = IF t.size - n <= LowWater THEN FALSE ELSE @]

\* _send_completed with n bytes
SendCompleted(t, n) ==
    LET left == IF t.size > n THEN t.size - n ELSE 0 IN
    [t EXCEPT !.size = left,
              !.writePaused = IF left <= LowWater THEN FALSE ELSE @]

----------------------------------------------------------------------------
\* The completions that resolve a future, and their order in the queue
Resolving == {i \in 1..Len(cq) : \E c \in Calls : ResolvedBy(c, i)}
InOrder(hits) == \A j, k \in DOMAIN hits : j < k => hits[j] < hits[k]

\* run_tick up to the ready batch.  Resolving a future schedules its callback.
Tick ==
    /\ phase = "tick"
    /\ RunTick
    /\ \E hits \in [1..Cardinality(Resolving) -> Resolving] :
          /\ InOrder(hits)
          /\ batch' = ready \o [k \in DOMAIN hits |-> DoneCallback(futures[cq[hits[k]].fd])]
    /\ ready' = <<>>
    /\ todo' = results'
    /\ phase' = "batch"
    /\ UNCHANGED <<tr, transports, ioFutures, owner, rearming, received, delivered>>

EndBatch ==
    /\ phase = "batch" /\ batch = <<>> /\ rearming = None
    /\ phase' = "process"
    /\ UNCHANGED <<vars, tr, transports, ioFutures, owner, ready, batch, todo,
                   rearming, received, delivered>>

EndProcess ==
    /\ phase = "process" /\ todo = <<>>
    /\ phase' = "tick"
    /\ UNCHANGED <<vars, tr, transports, ioFutures, owner, ready, batch, todo,
                   rearming, received, delivered>>

\* The kernel completes an operation; the bytes belong to the connection whose
\* socket the operation was submitted on.
Kernel(c, res) ==
    /\ KernelComplete(c, res)
    /\ received' = IF op[c].kind = "recv" /\ res = "pos"
                   THEN [received EXCEPT ![owner[c]] = Append(@, c)] ELSE received
    /\ UNCHANGED <<tr, transports, ioFutures, owner, ready, batch, todo, phase,
                   rearming, delivered>>

----------------------------------------------------------------------------
\* create_connection: the kernel hands out a descriptor number whose last
\* socket is closed.  connection_made runs before the first _rearm_recv, so the
\* application may use the transport while rearming = x.
Connect(x, fd) ==
    /\ phase = "batch" /\ rearming = None
    /\ ~tr[x].made
    /\ \A y \in Conns : y < x => tr[y].made
    /\ \A y \in Conns : transports[fd] = y => tr[y].closing
    /\ tr' = [tr EXCEPT ![x] = [NoTransport EXCEPT !.made = TRUE, !.fd = fd]]
    /\ transports' = [transports EXCEPT ![fd] = x]
    /\ RegisterFd(fd)
    /\ rearming' = x
    /\ UNCHANGED <<ioFutures, owner, ready, batch, todo, phase, received, delivered>>

----------------------------------------------------------------------------
(***************************************************************************)
(* _rearm_recv, the last thing a handler does.                             *)
(***************************************************************************)
RearmSkipped(x) ==
    /\ rearming = x
    /\ tr[x].closing \/ tr[x].paused \/ tr[x].recvPending
    /\ rearming' = None
    /\ UNCHANGED <<vars, tr, transports, ioFutures, owner, ready, batch, todo, phase,
                   received, delivered>>

\* The bound on submissions is reached: exploration of this reader ends here
RearmBeyondBound(x) ==
    /\ rearming = x
    /\ ~ \E c \in Calls : Fresh(c)
    /\ rearming' = None
    /\ UNCHANGED <<vars, tr, transports, ioFutures, owner, ready, batch, todo, phase,
                   received, delivered>>

\* submit_recv fails: the transport is closed with the error, the future stays
\* in _io_futures
RearmError(x, c) ==
    /\ \/ ShouldSubmitRecv(tr[x].fd) /\ SubmitNoBuffer(c)
       \/ SubmitRecvSqFull(c, tr[x].fd)
       \/ \E b \in Buffers : SubmitRecvQueued(c, tr[x].fd, "recv", b, FALSE)
    /\ tr' = [tr EXCEPT ![x] = ForceClosed(@)]
    /\ ready' = ready \o LostCallback(x)

\* submit_recv returns, whether or not it submitted anything
RearmOk(x, c) ==
    /\ \/ SubmitRecvSkipped(c, tr[x].fd)
       \/ \E b \in Buffers : SubmitRecvQueued(c, tr[x].fd, "recv", b, TRUE)
    /\ tr' = [tr EXCEPT ![x].recvPending = TRUE]
    /\ UNCHANGED ready

\* The second place a receive future is kept, besides the engine's map
BugIoFuturesWith(x, c) == ioFutures
IoFuturesWith(x, c) == [ioFutures EXCEPT ![tr[x].fd] = c]

Rearm(x, c) ==
    /\ rearming = x
    /\ ~tr[x].closing /\ ~tr[x].paused /\ ~tr[x].recvPending
    /\ Fresh(c)
    /\ ioFutures' = IoFuturesWith(x, c)
    /\ owner' = [owner EXCEPT ![c] = x]
    /\ RearmOk(x, c) \/ RearmError(x, c)
    /\ rearming' = None
    /\ UNCHANGED <<transports, batch, todo, phase, received, delivered>>

----------------------------------------------------------------------------
(***************************************************************************)
(* The callbacks of the batch.                                             *)
(***************************************************************************)
Running(what, x, c) ==
    /\ phase = "batch" /\ rearming = None
    /\ batch # <<>> /\ Head(batch) = Callback(what, x, c)
    /\ batch' = Tail(batch)

\* A callback that runs after the transport began to close is dropped
BugIsLate(t) == t.closed
IsLate(t) == t.closing

\* _on_recv_complete
OnRecvComplete(x, c) ==
    /\ Running("recvDone", x, c)
    /\ LET t == [tr[x] EXCEPT !.recvPending = FALSE] IN
       \/ /\ IsLate(t)
          /\ tr' = [tr EXCEPT ![x] = t]
          /\ UNCHANGED <<ready, rearming, delivered>>
       \/ /\ ~IsLate(t) /\ outcome[c].tag = "error"
          /\ tr' = [tr EXCEPT ![x] = ForceClosed(t)]
          /\ ready' = ready \o LostCallback(x)
          /\ UNCHANGED <<rearming, delivered>>
       \/ /\ ~IsLate(t) /\ outcome[c].tag \in {"bytes", "count"}
          /\ tr' = [tr EXCEPT ![x] = t]
          /\ delivered' = [delivered EXCEPT ![x] =
                              Append(@, IF outcome[c].tag = "bytes"
                                        THEN outcome[c].data ELSE None)]
          /\ rearming' = x
          /\ UNCHANGED ready
       \/ /\ ~IsLate(t) /\ outcome[c].tag = "empty"   \* _eof_received
          /\ \E keepOpen \in BOOLEAN : tr' = [tr EXCEPT ![x] = EofReceived(t, keepOpen)]
          /\ UNCHANGED <<ready, rearming, delivered>>
    /\ UNCHANGED <<vars, transports, ioFutures, owner, todo, phase, received>>

\* _on_write_complete.  A future that a receive completion resolved holds
\* bytes; comparing them with 0 raises and closes the transport.
OnWriteComplete(x, c) ==
    /\ Running("writeDone", x, c)
    /\ \/ /\ tr[x].closing
          /\ UNCHANGED <<tr, ready>>
       \/ /\ ~tr[x].closing /\ outcome[c].tag = "count"
          /\ tr' = [tr EXCEPT ![x] = SendCompleted(@, 1)]
          /\ UNCHANGED ready
       \/ /\ ~tr[x].closing /\ outcome[c].tag # "count"
          /\ tr' = [tr EXCEPT ![x] = ForceClosed(@)]
          /\ ready' = ready \o LostCallback(x)
    /\ UNCHANGED <<vars, transports, ioFutures, owner, todo, phase, rearming,
                   received, delivered>>

\* _call_connection_lost
CallConnectionLost(x) ==
    /\ Running("connLost", x, None)
    /\ tr' = [tr EXCEPT ![x].lost = @ + 1]
    /\ UNCHANGED <<vars, transports, ioFutures, owner, ready, todo, phase, rearming,
                   received, delivered>>

----------------------------------------------------------------------------
(***************************************************************************)
(* What the application does with a transport, from a task or from inside  *)
(* data_received.                                                          *)
(***************************************************************************)
AppRuns(x, move) ==
    /\ move \in AppMoves
    /\ phase = "batch" /\ rearming \in {None, x}
    /\ tr[x].made

\* The record after a submit_send that worked: pause_writing is called on each
\* write at or above the mark
Written(t) == [t EXCEPT !.size = @ + 1, !.writePaused = @ \/ t.size + 1 >= HighWater]

WriteOk(x, c) ==
    /\ \E b \in Buffers : SubmitSendQueued(c, tr[x].fd, b, TRUE)
    /\ tr' = [tr EXCEPT ![x] = Written(@)]
    /\ UNCHANGED ready

\* pause_writing raises, with the data on its way: the transport is closed
WritePauseRaises(x, c) ==
    /\ \E b \in Buffers : SubmitSendQueued(c, tr[x].fd, b, TRUE)
    /\ tr[x].size + 1 >= HighWater
    /\ tr' = [tr EXCEPT ![x] = ForceClosed(Written(@))]
    /\ ready' = ready \o LostCallback(x)

\* submit_send fails
WriteError(x, c) ==
    /\ \/ SubmitNoBuffer(c)
       \/ \E b \in Buffers : SubmitSendSqFull(c, tr[x].fd, b)
       \/ \E b \in Buffers : SubmitSendQueued(c, tr[x].fd, b, FALSE)
    /\ tr' = [tr EXCEPT ![x] = ForceClosed(@)]
    /\ ready' = ready \o LostCallback(x)

\* submit_send panics: PanicException is no Exception and goes to the caller of
\* write.  A task keeps it as its result; a data_received that lets it pass ends
\* run_forever, which is not followed further.
WritePanics(x, c) ==
    /\ \E b \in Buffers : SubmitSendTooLong(c, b)
    /\ UNCHANGED <<tr, ready>>

Write(x, c) ==
    /\ AppRuns(x, "write")
    /\ ~tr[x].closing
    /\ Fresh(c)
    /\ owner' = [owner EXCEPT ![c] = x]
    /\ WriteOk(x, c) \/ WritePauseRaises(x, c) \/ WriteError(x, c) \/ WritePanics(x, c)
    /\ UNCHANGED <<transports, ioFutures, batch, todo, phase, rearming, received, delivered>>

\* pause_reading
PauseReading(x) ==
    /\ AppRuns(x, "pause")
    /\ ~tr[x].closing /\ ~tr[x].paused
    /\ tr' = [tr EXCEPT ![x].paused = TRUE]
    /\ SetPaused(tr[x].fd, TRUE)
    /\ UNCHANGED <<transports, ioFutures, owner, ready, batch, todo, phase, rearming,
                   received, delivered>>

\* The engine's part of resume_reading
BugResumeEngine(x) == UNCHANGED vars
ResumeEngine(x) ==
    IF tr[x].paused THEN SetPaused(tr[x].fd, FALSE) ELSE UNCHANGED vars

\* resume_reading ends in _rearm_recv even when reading was not paused
ResumeReading(x) ==
    /\ AppRuns(x, "resume")
    /\ ~tr[x].closing
    /\ tr' = [tr EXCEPT ![x].paused = FALSE]
    /\ ResumeEngine(x)
    /\ rearming' = x
    /\ UNCHANGED <<transports, ioFutures, owner, ready, batch, todo, phase,
                   received, delivered>>

\* close: the socket is closed; nothing is unregistered or cancelled
Close(x) ==
    /\ AppRuns(x, "close")
    /\ ~tr[x].closing
    /\ tr' = [tr EXCEPT ![x] = Closed(@)]
    /\ UNCHANGED <<vars, transports, ioFutures, owner, ready, batch, todo, phase,
                   rearming, received, delivered>>

\* abort
Abort(x) ==
    /\ AppRuns(x, "abort")
    /\ ~tr[x].closed
    /\ tr' = [tr EXCEPT ![x] = ForceClosed(@)]
    /\ ready' = ready \o LostCallback(x)
    /\ UNCHANGED <<vars, transports, ioFutures, owner, batch, todo, phase, rearming,
                   received, delivered>>

----------------------------------------------------------------------------
(***************************************************************************)
(* _process_completions after run_tick returned.                           *)
(***************************************************************************)
Handling(kind) ==
    /\ phase = "process" /\ todo # <<>> /\ Head(todo).kind = kind
    /\ todo' = Tail(todo)

\* The value _handle_recv_completion gives to a future.  A positive result
\* without data takes the error branch.
HandlerValue(r) ==
    [tag  |-> IF r.res = "pos" /\ r.data # None THEN "bytes"
              ELSE IF r.res = "zero" THEN "empty" ELSE "error",
     from |-> r.call,
     data |-> r.data]

\* _handle_recv_completion
HandleRecv ==
    /\ Handling("recv")
    /\ LET r == Head(todo)
           f == ioFutures[r.fd]
           x == transports[r.fd] IN
       /\ ioFutures' = [ioFutures EXCEPT ![r.fd] = None]
       /\ \/ /\ f # None /\ outcome[f] = Pending
             /\ outcome' = [outcome EXCEPT ![f] = HandlerValue(r)]
             /\ ready' = Append(ready, Callback("recvDone", owner[f], f))
             /\ UNCHANGED tr
          \/ /\ f # None /\ outcome[f] # Pending
             /\ UNCHANGED <<outcome, ready, tr>>
          \/ /\ f = None /\ HandlerValue(r).tag = "bytes"    \* duplication guard
             /\ UNCHANGED <<outcome, ready, tr>>
          \/ /\ f = None /\ HandlerValue(r).tag = "empty"    \* _eof_received
             /\ \E keepOpen \in BOOLEAN : tr' = [tr EXCEPT ![x] = EofReceived(@, keepOpen)]
             /\ UNCHANGED <<outcome, ready>>
          \/ /\ f = None /\ HandlerValue(r).tag = "error"    \* _error_received
             /\ tr' = [tr EXCEPT ![x] = ForceClosed(@)]
             /\ ready' = ready \o LostCallback(x)
             /\ UNCHANGED outcome
    /\ UNCHANGED <<free, sendHeld, fdState, inflightRecv, futures, recvmsgState,
                   sendmsgState, op, where, cq, mem, results, transports, owner,
                   batch, phase, rearming, received, delivered>>

\* _handle_send_completion: transports put no future under (fd, "send")
HandleSend ==
    /\ Handling("send")
    /\ LET r == Head(todo) IN
       tr' = IF r.res = "neg" THEN tr
             ELSE [tr EXCEPT ![transports[r.fd]] = SendCompleted(@, 1)]
    /\ UNCHANGED <<vars, transports, ioFutures, owner, ready, batch, phase,
                   rearming, received, delivered>>

----------------------------------------------------------------------------
TransportNext ==
    \/ Tick
    \/ EndBatch
    \/ EndProcess
    \/ \E c \in Calls, res \in {"pos", "zero", "neg"} : Kernel(c, res)
    \/ \E x \in Conns, fd \in Fds : Connect(x, fd)
    \/ \E x \in Conns : RearmSkipped(x) \/ RearmBeyondBound(x)
    \/ \E x \in Conns, c \in Calls : Rearm(x, c)
    \/ \E x \in Conns, c \in Calls : OnRecvComplete(x, c)
    \/ \E x \in Conns, c \in Calls : OnWriteComplete(x, c)
    \/ \E x \in Conns : CallConnectionLost(x)
    \/ \E x \in Conns, c \in Calls : Write(x, c)
    \/ \E x \in Conns : PauseReading(x)
    \/ \E x \in Conns : ResumeReading(x)
    \/ \E x \in Conns : Close(x)
    \/ \E x \in Conns : Abort(x)
    \/ HandleRecv
    \/ HandleSend

TransportSpec == TransportInit /\ [][TransportNext]_allVars

----------------------------------------------------------------------------
(***************************************************************************)
(* Properties                                                              *)
(***************************************************************************)

\* The type of every variable this module adds.
TransportTypeOK ==
    /\ tr \in [Conns -> [made : BOOLEAN, fd : Fds \cup {None}, closing : BOOLEAN,
                         closed : BOOLEAN, paused : BOOLEAN, recvPending : BOOLEAN,
                         size : Nat, writePaused : BOOLEAN, eof : BOOLEAN, lost : Nat]]
    /\ transports \in [Fds -> Conns \cup {None}]
    /\ ioFutures \in [Fds -> Calls \cup {None}]
    /\ owner \in [Calls -> Conns \cup {None}]
    /\ phase \in {"tick", "batch", "process"}
    /\ rearming \in Conns \cup {None}
    /\ \A x \in Conns : \A i \in DOMAIN received[x] : received[x][i] \in Calls

\* Callbacks the loop still has to run
Scheduled == Range(batch) \cup Range(ready)

(***************************************************************************)
(* connection_lost is called at most once, only for a transport that was   *)
(* force-closed, and such a transport gets it: the call is scheduled until *)
(* it ran.                                                                 *)
(***************************************************************************)
ConnectionLostOnce ==
    \A x \in Conns :
        LET queued == {i \in DOMAIN (batch \o ready) :
                          (batch \o ready)[i] = Callback("connLost", x, None)}
        IN tr[x].lost + Cardinality(queued) = IF tr[x].closed THEN 1 ELSE 0

(***************************************************************************)
(* After close, abort or an error the protocol gets no more data: a late   *)
(* completion, or a callback already in the batch, is dropped.             *)
(***************************************************************************)
NoDataAfterClose ==
    [][\A x \in Conns : tr[x].closing => delivered'[x] = delivered[x]]_allVars

(***************************************************************************)
(* The transport's flag and the engine's agree, so pause_reading stops the *)
(* engine from submitting and resume_reading lets it.                      *)
(***************************************************************************)
PauseInSync ==
    \A x \in Conns : tr[x].made /\ ~tr[x].closing =>
        /\ transports[tr[x].fd] = x
        /\ fdState[tr[x].fd].registered
        /\ fdState[tr[x].fd].paused = tr[x].paused

(***************************************************************************)
(* A reader never stalls: an open transport that is not paused and has not *)
(* seen EOF either waits for a receive that can still find its future      *)
(* (through the engine's map or through _io_futures), or a callback or     *)
(* completion that will rearm it is on its way.                            *)
(***************************************************************************)
ReaderAlive ==
    \A x \in Conns : tr[x].made /\ ~tr[x].closing =>
        IF tr[x].recvPending
        THEN \/ \E c \in Calls : /\ owner[c] = x /\ op[c].kind = "recv"
                                 /\ Outstanding(c)
                                 /\ c \in {futures[tr[x].fd], ioFutures[tr[x].fd]}
             \/ \E cb \in Scheduled : cb.what = "recvDone" /\ cb.conn = x
             \/ \E r \in Range(todo) : r.kind = "recv" /\ r.fd = tr[x].fd
        ELSE \/ tr[x].paused \/ tr[x].eof \/ rearming = x
             \/ ~ \E c \in Calls : Fresh(c)

(***************************************************************************)
(* ARCHITECTURE.md: "Data is delivered to Python in strict per-FD FIFO     *)
(* order": what data_received saw is what the kernel received on that      *)
(* connection, in that order, each piece once.                             *)
(***************************************************************************)
DeliveredFifo ==
    \A x \in Conns : IsPrefix(delivered[x], received[x])
============================================================================
