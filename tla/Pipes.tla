------------------------------- MODULE Pipes -------------------------------
(***************************************************************************)
(* A pipe with a ReadPipeTransport on one end and a WritePipeTransport on  *)
(* the other (pipes.py), in the same loop.  A unit of data is the number   *)
(* of the write() call that brought it.  Another process may hold the read *)
(* end as well (an inherited stdin) and take data out of the pipe.         *)
(***************************************************************************)
EXTENDS FdLoop

CONSTANTS
    Capacity,    \* units the kernel's pipe holds
    HighWater,   \* _high_water of a new transport
    LowWater,    \* _low_water of a new transport
    Marks,       \* what set_write_buffer_limits may be given
    MaxWrites    \* bound: calls of write()

ASSUME PipeAssumption ==
    /\ Capacity \in Nat \ {0} /\ HighWater \in Nat /\ LowWater \in Nat
    /\ Marks \subseteq Nat /\ MaxWrites \in Nat

VARIABLES
    rt,         \* the ReadPipeTransport and its descriptor
    wt,         \* the WritePipeTransport and its descriptor
    limits,     \* _high_water, _low_water; zero: _low_water is or was 0
    pipe,       \* the kernel's pipe
    other,      \* another process has the read end
    written,    \* ghost: units given to write()
    delivered,  \* ghost: units data_received got
    taken,      \* ghost: units the other process got
    dropped     \* ghost: units abort() threw away

pipeVars == <<rt, wt, limits, pipe, other, written, delivered, taken, dropped>>
ghosts == <<written, delivered, taken, dropped>>

\* ended counts connection_lost(None), error says connection_lost(exc) was
\* called, stale that the writer of a closed pipe is still registered, dead that
\* the transport was made on a closed pipe
NoReader == [on |-> FALSE, made |-> FALSE, open |-> TRUE, closing |-> FALSE,
             paused |-> FALSE, ended |-> 0, error |-> FALSE]
NoWriter == [on |-> FALSE, made |-> FALSE, open |-> TRUE, closing |-> FALSE,
             paused |-> FALSE, ended |-> 0, error |-> FALSE, buffer |-> <<>>,
             stale |-> FALSE, dead |-> FALSE]

PipeInit ==
    /\ rt = NoReader /\ wt = NoWriter /\ pipe = <<>> /\ other = TRUE
    /\ limits = [high |-> HighWater, low |-> LowWater, zero |-> LowWater = 0]
    /\ written = 0 /\ delivered = <<>> /\ taken = {} /\ dropped = {}

Units(s) == {s[i] : i \in DOMAIN s}

----------------------------------------------------------------------------
(***************************************************************************)
(* The other process, and what epoll reports.                              *)
(***************************************************************************)
OtherReads ==
    /\ other /\ pipe # <<>>
    /\ taken' = taken \cup {Head(pipe)}
    /\ pipe' = Tail(pipe)
    /\ UNCHANGED <<fdLoopVars, rt, wt, limits, other, written, delivered, dropped>>

OtherExits ==
    /\ other /\ other' = FALSE
    /\ UNCHANGED <<fdLoopVars, rt, wt, limits, pipe, ghosts>>

\* EPOLLIN or EPOLLHUP on the read end, EPOLLOUT on the write end.  EPOLLERR on
\* the write end (no reader is left) is looked up among the readers only.
Live == (IF pipe # <<>> \/ ~wt.open THEN {"read"} ELSE {})
        \cup (IF Len(pipe) < Capacity /\ wt.open THEN {"write"} ELSE {})

----------------------------------------------------------------------------
(***************************************************************************)
(* connect_read_pipe and connect_write_pipe.                               *)
(***************************************************************************)
\* A factory that raises: the pipe is closed
ConnectFails ==
    /\ \/ ~rt.on /\ rt.open /\ rt' = [rt EXCEPT !.open = FALSE] /\ UNCHANGED wt
       \/ ~wt.on /\ wt.open /\ wt' = [wt EXCEPT !.open = FALSE] /\ UNCHANGED rt
    /\ UNCHANGED <<fdLoopVars, pipe, limits, other, ghosts>>

\* The reader is added at once, connection_made is left to the loop
ConnectRead ==
    /\ ~rt.on /\ rt.open
    /\ rt' = [rt EXCEPT !.on = TRUE]
    /\ watched' = watched \cup {"read"}
    /\ CallSoon("readMade")
    /\ UNCHANGED <<wt, pipe, limits, other, ghosts>>

\* A closed pipe object is accepted here and makes a transport that is closing
ConnectWrite ==
    /\ ~wt.on
    /\ wt' = [wt EXCEPT !.on = TRUE, !.closing = ~wt.open, !.dead = ~wt.open]
    /\ CallSoon("writeMade")
    /\ UNCHANGED <<watched, rt, pipe, limits, other, ghosts>>

Made ==
    /\ \/ Runs("readMade") /\ rt' = [rt EXCEPT !.made = TRUE] /\ UNCHANGED wt
       \/ Runs("writeMade") /\ wt' = [wt EXCEPT !.made = TRUE] /\ UNCHANGED rt
    /\ Return
    /\ UNCHANGED <<watched, pipe, limits, other, ghosts>>

----------------------------------------------------------------------------
(***************************************************************************)
(* ReadPipeTransport.                                                      *)
(***************************************************************************)
ClosedReader(t) == [t EXCEPT !.closing = TRUE, !.open = FALSE, !.ended = @ + 1]

\* Bug: a queued _read_ready does not look at the flags
BugIgnoresReadiness == FALSE
IgnoresReadiness == rt.paused \/ rt.closing

\* _read_ready with data
ReadData ==
    /\ Runs("read") /\ ~IgnoresReadiness
    /\ rt.open /\ pipe # <<>>
    /\ delivered' = delivered \o pipe
    /\ pipe' = <<>>
    /\ Return
    /\ UNCHANGED <<watched, rt, wt, limits, other, written, taken, dropped>>

\* _read_ready that returns early, meets the end of the data, or meets an empty
\* pipe: BlockingIOError is an OSError, so it counts as a lost connection
ReadNothing ==
    /\ Runs("read")
    /\ \/ /\ IgnoresReadiness
          /\ UNCHANGED <<watched, rt>>
       \/ /\ ~IgnoresReadiness /\ pipe = <<>> /\ ~wt.open
          /\ watched' = watched \ {"read"}
          /\ rt' = rt \/ rt' = ClosedReader(rt)    \* eof_received decides
       \/ /\ ~IgnoresReadiness /\ pipe = <<>> /\ wt.open
          /\ watched' = watched \ {"read"}
          /\ rt' = [rt EXCEPT !.error = TRUE]
    /\ Return
    /\ UNCHANGED <<wt, pipe, limits, other, ghosts>>

PauseReading ==
    /\ rt.on /\ ~rt.closing /\ ~rt.paused
    /\ rt' = [rt EXCEPT !.paused = TRUE]
    /\ watched' = watched \ {"read"}
    /\ UNCHANGED <<ready, wt, pipe, limits, other, ghosts>>

ResumeReading ==
    /\ rt.on /\ ~rt.closing /\ rt.paused
    /\ rt' = [rt EXCEPT !.paused = FALSE]
    /\ watched' = watched \cup {"read"}
    /\ UNCHANGED <<ready, wt, pipe, limits, other, ghosts>>

\* Bug: the reader is forgotten
BugCloseRead ==
    /\ rt.on /\ ~rt.closing
    /\ rt' = ClosedReader(rt)
    /\ UNCHANGED <<fdLoopVars, wt, pipe, limits, other, ghosts>>

CloseRead ==
    /\ rt.on /\ ~rt.closing
    /\ rt' = ClosedReader(rt)
    /\ watched' = watched \ {"read"}
    /\ UNCHANGED <<ready, wt, pipe, limits, other, ghosts>>

----------------------------------------------------------------------------
(***************************************************************************)
(* WritePipeTransport.                                                     *)
(***************************************************************************)
Write ==
    /\ wt.on /\ ~wt.closing
    /\ written < MaxWrites
    /\ written' = written + 1
    /\ wt' = [wt EXCEPT !.buffer = Append(@, written + 1),
                        !.paused = @ \/ Len(wt.buffer) + 1 > limits.high]
    /\ watched' = watched \cup {"write"}
    /\ UNCHANGED <<ready, rt, pipe, limits, other, delivered, taken, dropped>>

\* The pipe is closed and connection_lost(None) called
Ended(t) == [t EXCEPT !.open = FALSE, !.ended = @ + 1]

\* Bug: what was written stays in the buffer
BugRest(n) == wt.buffer
Rest(n) == SubSeq(wt.buffer, n + 1, Len(wt.buffer))

\* Bug: the protocol is resumed between the marks only, not at an empty buffer
BugResumes(t) == Len(t.buffer) < limits.low /\ t.buffer # <<>>
Resumes(t) == Len(t.buffer) < limits.low

\* Bug: a transport that is closing is not closed when its buffer is empty
BugClosesWhenFlushed(t) == FALSE
ClosesWhenFlushed(t) == t.buffer = <<>> /\ t.closing

\* _write_ready: n units fit
WriteSome(n) ==
    /\ Runs("write")
    /\ wt.buffer # <<>>
    /\ rt.open \/ other
    /\ Len(pipe) + n <= Capacity
    /\ pipe' = pipe \o SubSeq(wt.buffer, 1, n)
    /\ LET t == [wt EXCEPT !.buffer = Rest(n)]
           u == [t EXCEPT !.paused = IF Resumes(t) THEN FALSE ELSE @] IN
       /\ wt' = IF ClosesWhenFlushed(u) THEN Ended(u) ELSE u
       /\ watched' = IF u.buffer = <<>> THEN watched \ {"write"} ELSE watched
    /\ Return
    /\ UNCHANGED <<rt, limits, other, ghosts>>

\* _write_ready writes all there is, and resume_writing calls close().  The pipe
\* is closed at once, so fileno() raises where the writer would be removed.
WriteLastAndClose ==
    /\ Runs("write")
    /\ wt.buffer # <<>> /\ ~wt.closing /\ limits.low > 0
    /\ rt.open \/ other
    /\ Len(pipe) + Len(wt.buffer) <= Capacity
    /\ pipe' = pipe \o wt.buffer
    /\ wt' = Ended([wt EXCEPT !.buffer = <<>>, !.paused = FALSE, !.closing = TRUE,
                              !.stale = TRUE])
    /\ Return
    /\ UNCHANGED <<watched, rt, limits, other, ghosts>>

\* _write_ready with an empty buffer, with BlockingIOError, or with EPIPE
WriteNothing ==
    /\ Runs("write")
    /\ \/ /\ wt.buffer = <<>>
          /\ watched' = IF wt.open THEN watched \ {"write"} ELSE watched
          /\ UNCHANGED wt
       \/ /\ wt.buffer # <<>> /\ (rt.open \/ other)
          /\ UNCHANGED <<watched, wt>>
       \/ /\ wt.buffer # <<>> /\ ~rt.open /\ ~other
          /\ watched' = watched \ {"write"}
          /\ wt' = [wt EXCEPT !.error = TRUE]
    /\ Return
    /\ UNCHANGED <<rt, pipe, limits, other, ghosts>>

CloseWrite ==
    /\ wt.on /\ ~wt.closing
    /\ LET t == [wt EXCEPT !.closing = TRUE] IN
       wt' = IF ClosesWhenFlushed(t) THEN Ended(t) ELSE t
    /\ UNCHANGED <<fdLoopVars, rt, pipe, limits, other, ghosts>>

\* Bug: abort() works on a pipe that is closed already
BugAbortable == wt.on
\* On a closed pipe fileno() raises before anything but the buffer is touched
Abortable == wt.on /\ wt.open

Abort ==
    /\ Abortable
    /\ wt' = Ended([wt EXCEPT !.closing = TRUE, !.buffer = <<>>])
    /\ dropped' = dropped \cup Units(wt.buffer)
    /\ watched' = watched \ {"write"}
    /\ UNCHANGED <<ready, rt, pipe, limits, other, written, delivered, taken>>

\* set_write_buffer_limits takes any marks and tells the protocol nothing
SetLimits(high, low) ==
    /\ wt.on
    /\ limits' = [high |-> high, low |-> low, zero |-> limits.zero \/ low = 0]
    /\ UNCHANGED <<fdLoopVars, rt, wt, pipe, other, ghosts>>

----------------------------------------------------------------------------
\* The loop's own steps, without a write the kernel refuses
PipeLoop ==
    \/ Poll(Live) /\ UNCHANGED pipeVars
    \/ Made \/ ReadData \/ ReadNothing

WriteProgress == \E n \in 1..Len(wt.buffer) : WriteSome(n)

PipeNext ==
    \/ OtherReads \/ OtherExits
    \/ ConnectFails \/ ConnectRead \/ ConnectWrite
    \/ PauseReading \/ ResumeReading \/ CloseRead
    \/ Write \/ CloseWrite \/ Abort
    \/ \E high \in Marks \cup {limits.high}, low \in Marks \cup {limits.low} : SetLimits(high, low)
    \/ PipeLoop \/ WriteProgress \/ WriteLastAndClose \/ WriteNothing

PipeSpec == FdLoopInit /\ PipeInit /\ [][PipeNext]_<<fdLoopVars, pipeVars>>

----------------------------------------------------------------------------
(***************************************************************************)
(* Properties                                                              *)
(***************************************************************************)

(***************************************************************************)
(* Every unit given to write() is in exactly one place: delivered, taken   *)
(* by the other process, in the pipe, in the transport's buffer, or thrown *)
(* away by abort(); and the reader gets what it gets in order and once.    *)
(***************************************************************************)
PipeKeepsData ==
    LET line == delivered \o pipe \o wt.buffer IN
    /\ \A i, j \in DOMAIN line : i < j => line[i] < line[j]
    /\ Units(line) \cup taken \cup dropped = 1..written
    /\ Units(line) \cap (taken \cup dropped) = {}

(***************************************************************************)
(* A transport closes its descriptor and calls connection_lost(None)       *)
(* together, each exactly once, whatever order close(), abort(), the last  *)
(* flush and the end of the data come in: it neither closes silently nor   *)
(* calls again.  Only a writer made on a closed pipe object never calls.   *)
(* connection_lost(exc) is not counted; an error may bring one before it.  *)
(***************************************************************************)
PipeEndedOnce ==
    /\ rt.on => rt.ended = IF rt.open THEN 0 ELSE 1
    /\ wt.on => wt.ended = IF wt.open \/ wt.dead THEN 0 ELSE 1

(***************************************************************************)
(* No callback for a closed descriptor stays registered (its number may    *)
(* belong to somebody else by now), and the writer is watched only while   *)
(* something is buffered, so that the loop does not spin.  The exception   *)
(* is a pipe that resume_writing closed.                                   *)
(***************************************************************************)
PipeWatchesLive ==
    /\ "read" \in watched => rt.open /\ ~rt.closing /\ ~rt.paused
    /\ "write" \in watched => (wt.open /\ wt.buffer # <<>>) \/ wt.stale

(***************************************************************************)
(* A protocol that was told pause_writing has data of its own waiting: it  *)
(* is told resume_writing by the time the buffer is empty, or the pipe is  *)
(* being closed, whatever marks are set and when.  The exception is a low  *)
(* mark of 0: the buffer is never shorter, so nobody is resumed, and       *)
(* raising the mark later resumes nobody either.                           *)
(***************************************************************************)
PausedHasBacklog == wt.paused => wt.buffer # <<>> \/ wt.closing \/ limits.zero

(***************************************************************************)
(* The protocol gets data only after connection_made and neither while it  *)
(* has paused reading nor after close(), although a _read_ready that was   *)
(* queued before stays queued.                                             *)
(***************************************************************************)
DataOnlyWhileReading ==
    [][delivered' # delivered => rt.made /\ ~rt.paused /\ ~rt.closing]_delivered

(***************************************************************************)
(* close() of the writer sends what is buffered and then closes the pipe,  *)
(* if the reader on the other end keeps reading and nobody aborts.         *)
(***************************************************************************)
CloseFlushes == wt.on /\ wt.closing ~> (~wt.open \/ "read" \notin watched)

(***************************************************************************)
(* The loop treats EPOLLERR so that "callback can handle EOF/Error": once  *)
(* no reader is left, a writer with data finds out.                        *)
(***************************************************************************)
WriterSeesError ==
    (wt.on /\ wt.buffer # <<>> /\ ~rt.open /\ ~other) ~> (wt.error \/ ~wt.open)
============================================================================
