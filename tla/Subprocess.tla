----------------------------- MODULE Subprocess -----------------------------
(***************************************************************************)
(* SubprocessTransport with the transports of the child's stdin, stdout    *)
(* and stderr (subprocess.py).  The child writes, reads and exits when it  *)
(* likes; what it started may hold its pipes and use them after it.  Its   *)
(* exit reaches the loop through a pidfd or, failing that, through a       *)
(* thread.                                                                 *)
(***************************************************************************)
EXTENDS FdLoop

CONSTANTS
    Outs,        \* the read pipes: "stdout", "stderr"
    MaxOutput,   \* bound: units written to an output pipe
    MaxInput,    \* bound: units written to stdin
    InCapacity   \* units the stdin pipe holds

ASSUME SubprocessAssumption ==
    /\ Outs \subseteq {"stdout", "stderr"}
    /\ MaxOutput \in Nat /\ MaxInput \in Nat /\ InCapacity \in Nat \ {0}

VARIABLES
    child,    \* "none", "running", "exited"
    heir,     \* a process the child started holds no pipe of it ("none"), its
              \* output pipes ("output"), or stdin as well ("all")
    outPipe,  \* units in an output pipe
    output,   \* ghost: units written to an output pipe so far
    owed,     \* ghost: how many of them the child itself had written last
    got,      \* ghost: units pipe_data_received got
    inPipe,   \* number of units in the stdin pipe
    sp,       \* the SubprocessTransport
    outT,     \* _pipes[1] and _pipes[2]: is the transport closed?
    inT       \* _pipes[0]

world == <<child, heir, outPipe, output, owed, inPipe>>
spVars == <<world, got, sp, outT, inT>>

\* via: how the exit is noticed.  exits counts process_exited.
NoProcess == [via |-> "none", rc |-> FALSE, closed |-> FALSE, exits |-> 0,
              waiter |-> "none", raised |-> FALSE]
NoStdin == [closing |-> FALSE, open |-> TRUE, buffer |-> 0, sent |-> 0]

SubprocessInit ==
    /\ child = "none" /\ heir = "none"
    /\ outPipe = [o \in Outs |-> <<>>] /\ got = [o \in Outs |-> <<>>]
    /\ output = [o \in Outs |-> 0] /\ owed = [o \in Outs |-> 0]
    /\ inPipe = 0
    /\ sp = NoProcess /\ inT = NoStdin
    /\ outT = [o \in Outs |-> FALSE]

----------------------------------------------------------------------------
(***************************************************************************)
(* The child and its heir.                                                 *)
(***************************************************************************)
WritesOutput(o) ==
    /\ output[o] < MaxOutput /\ ~outT[o]
    /\ output' = [output EXCEPT ![o] = @ + 1]
    /\ outPipe' = [outPipe EXCEPT ![o] = Append(@, output[o] + 1)]

ChildWrites(o) ==
    /\ child = "running"
    /\ WritesOutput(o)
    /\ owed' = [owed EXCEPT ![o] = output'[o]]
    /\ UNCHANGED <<fdLoopVars, child, heir, got, inPipe, sp, outT, inT>>

HeirWrites(o) ==
    /\ heir # "none"
    /\ WritesOutput(o)
    /\ UNCHANGED <<fdLoopVars, child, heir, owed, got, inPipe, sp, outT, inT>>

\* The child, or who inherited its stdin
StdinRead == child = "running" \/ heir = "all"

ChildReads ==
    /\ StdinRead /\ inPipe > 0
    /\ inPipe' = inPipe - 1
    /\ UNCHANGED <<fdLoopVars, child, heir, outPipe, output, owed, got, sp, outT, inT>>

ChildForks ==
    /\ child = "running" /\ heir = "none" /\ heir' \in {"output", "all"}
    /\ UNCHANGED <<fdLoopVars, child, outPipe, output, owed, got, inPipe, sp, outT, inT>>

HeirExits ==
    /\ heir # "none" /\ heir' = "none"
    /\ UNCHANGED <<fdLoopVars, child, outPipe, output, owed, got, inPipe, sp, outT, inT>>

\* Of its own accord or by a signal: send_signal, terminate, kill
ChildExits ==
    /\ child = "running" /\ child' = "exited"
    /\ UNCHANGED <<fdLoopVars, heir, outPipe, output, owed, got, inPipe, sp, outT, inT>>

OutputEnded == child = "exited" /\ heir = "none"

SubprocessLive ==
    {o \in Outs : outPipe[o] # <<>> \/ OutputEnded}
    \cup (IF inPipe < InCapacity THEN {"stdin"} ELSE {})
    \cup (IF child = "exited" THEN {"pidfd"} ELSE {})

----------------------------------------------------------------------------
\* Bug: the pidfd is opened and not watched
BugExitWatch(via) == {}
ExitWatch(via) == IF via = "pidfd" THEN {"pidfd"} ELSE {}

\* subprocess_exec and subprocess_shell.  pidfd_open may fail.
Start(via) ==
    /\ child = "none" /\ child' = "running"
    /\ sp' = [sp EXCEPT !.via = via]
    /\ watched' = watched \cup Outs \cup ExitWatch(via)
    /\ UNCHANGED <<ready, heir, outPipe, output, owed, got, inPipe, outT, inT>>

----------------------------------------------------------------------------
(***************************************************************************)
(* ReadSubprocessPipeTransport.                                            *)
(***************************************************************************)
\* On a closed pipe fileno() raises ValueError, which the loop prints
HasData(o) == ~outT[o] /\ outPipe[o] # <<>>

ReadOutput(o) ==
    /\ Runs(o) /\ HasData(o)
    /\ got' = [got EXCEPT ![o] = @ \o outPipe[o]]
    /\ outPipe' = [outPipe EXCEPT ![o] = <<>>]
    /\ Return
    /\ UNCHANGED <<watched, child, heir, output, owed, inPipe, sp, outT, inT>>

\* The pipe is closed, has come to its end, or is empty (BlockingIOError, which
\* is an OSError): the last two call pipe_connection_lost
ReadNoOutput(o) ==
    /\ Runs(o) /\ ~HasData(o)
    /\ \/ outT[o] /\ UNCHANGED watched
       \/ ~outT[o] /\ OutputEnded /\ watched' = watched \ {o}
       \/ ~outT[o] /\ ~OutputEnded /\ watched' = watched \ {o}
    /\ Return
    /\ UNCHANGED spVars

PauseOutput(o) ==
    /\ child # "none" /\ ~outT[o]
    /\ watched' = watched \ {o}
    /\ UNCHANGED <<ready, spVars>>

ResumeOutput(o) ==
    /\ child # "none" /\ ~outT[o]
    /\ watched' = watched \cup {o}
    /\ UNCHANGED <<ready, spVars>>

\* close of one pipe: get_pipe_transport(fd).close()
CloseOutput(o) ==
    /\ child # "none" /\ ~outT[o]
    /\ outT' = [outT EXCEPT ![o] = TRUE]
    /\ watched' = watched \ {o}
    /\ UNCHANGED <<ready, world, got, sp, inT>>

----------------------------------------------------------------------------
(***************************************************************************)
(* WriteSubprocessPipeTransport.                                           *)
(***************************************************************************)
\* close and write_eof: a buffer that is not empty keeps the pipe open
ClosedStdin(t) == [t EXCEPT !.closing = TRUE, !.open = @ /\ t.buffer > 0]

\* Bug: a flushed transport that is closing keeps its descriptor
BugFlushedStdin(t) == t
FlushedStdin(t) == IF t.buffer = 0 /\ t.closing THEN [t EXCEPT !.open = FALSE] ELSE t

WriteStdin ==
    /\ child # "none" /\ ~inT.closing /\ inT.sent < MaxInput
    /\ inT' = [inT EXCEPT !.buffer = @ + 1, !.sent = @ + 1]
    /\ watched' = watched \cup {"stdin"}
    /\ UNCHANGED <<ready, world, got, sp, outT>>

\* _write_ready: n units fit
StdinProgress(n) ==
    /\ Runs("stdin")
    /\ StdinRead
    /\ n <= inT.buffer /\ inPipe + n <= InCapacity
    /\ inPipe' = inPipe + n
    /\ inT' = FlushedStdin([inT EXCEPT !.buffer = @ - n])
    /\ watched' = IF n = inT.buffer THEN watched \ {"stdin"} ELSE watched
    /\ Return
    /\ UNCHANGED <<child, heir, outPipe, output, owed, got, sp, outT>>

\* _write_ready with an empty buffer, BlockingIOError, or EPIPE, which calls
\* pipe_connection_lost
StdinNoProgress ==
    /\ Runs("stdin")
    /\ \/ inT.buffer = 0 /\ watched' = watched \ {"stdin"}
       \/ inT.buffer > 0 /\ StdinRead /\ UNCHANGED watched
       \/ inT.buffer > 0 /\ ~StdinRead /\ watched' = watched \ {"stdin"}
    /\ Return
    /\ UNCHANGED spVars

CloseStdin ==
    /\ child # "none" /\ ~inT.closing
    /\ inT' = ClosedStdin(inT)
    /\ UNCHANGED <<fdLoopVars, world, got, sp, outT>>

AbortStdin ==
    /\ child # "none" /\ inT.open
    /\ inT' = [inT EXCEPT !.closing = TRUE, !.open = FALSE, !.buffer = 0]
    /\ watched' = watched \ {"stdin"}
    /\ UNCHANGED <<ready, world, got, sp, outT>>

----------------------------------------------------------------------------
(***************************************************************************)
(* The exit of the child: _process_exited, run by _on_pidfd_ready or       *)
(* scheduled by the waiting thread.                                        *)
(***************************************************************************)
\* Bug: the pipes are closed without reading what is left in them
BugDrain(S) == UNCHANGED <<outPipe, got>>
\* The pipes S are read until they are empty or at their end
Drain(S) ==
    /\ got' = [o \in Outs |-> IF o \in S THEN got[o] \o outPipe[o] ELSE got[o]]
    /\ outPipe' = [o \in Outs |-> IF o \in S THEN <<>> ELSE outPipe[o]]

WaiterAfterExit == IF sp.waiter = "pending" THEN "done" ELSE sp.waiter

\* Bug: the pipes stay open
BugClosedByExit == {}
ClosedByExit == Outs

ExitHandled(gone) ==
    /\ \A o \in Outs : ~outT[o]
    /\ Drain(Outs)
    /\ outT' = [o \in Outs |-> outT[o] \/ o \in ClosedByExit]
    /\ inT' = IF inT.closing THEN inT ELSE ClosedStdin(inT)
    /\ watched' = watched \ (gone \cup ClosedByExit)
    /\ sp' = [sp EXCEPT !.rc = TRUE, !.exits = @ + 1, !.waiter = WaiterAfterExit,
                        !.via = "none"]

\* The pipe o ends _process_exited early: it was closed before, and fileno()
\* raises, or pipe_data_received raises.  Nothing after that is done.
ExitCutShort(gone, o) ==
    /\ \A q \in Outs \ {o} : o = "stderr" => ~outT[q]
    /\ outT[o] \/ outPipe[o] # <<>>
    /\ Drain({q \in Outs : ~outT[q] /\ (q = o \/ o = "stderr")})
    /\ watched' = watched \ gone
    /\ sp' = [sp EXCEPT !.rc = TRUE, !.raised = TRUE, !.via = "none"]
    /\ UNCHANGED <<outT, inT>>

ProcessExited(gone) ==
    /\ ExitHandled(gone) \/ \E o \in Outs : ExitCutShort(gone, o)
    /\ Return
    /\ UNCHANGED <<child, heir, output, owed, inPipe>>

\* Bug: the pidfd stays in the epoll set
BugPidfdGone == {}
\* The pidfd is unregistered and closed first
PidfdGone == {"pidfd"}

OnPidfdReady == Runs("pidfd") /\ ProcessExited(PidfdGone)
OnThreadExit == Runs("exited") /\ ProcessExited({})

\* wait_for_exit in its thread
ThreadNotices ==
    /\ sp.via = "thread" /\ child = "exited"
    /\ CallSoon("exited")
    /\ sp' = [sp EXCEPT !.via = "none"]
    /\ UNCHANGED <<watched, world, got, outT, inT>>

----------------------------------------------------------------------------
(***************************************************************************)
(* The application.                                                        *)
(***************************************************************************)
\* _wait; it returns at once when the return code is known
Wait ==
    /\ child # "none" /\ sp.waiter # "pending"
    /\ sp' = [sp EXCEPT !.waiter = IF sp.rc THEN "done" ELSE "pending"]
    /\ UNCHANGED <<fdLoopVars, world, got, outT, inT>>

CancelWait ==
    /\ sp.waiter = "pending"
    /\ sp' = [sp EXCEPT !.waiter = "none"]
    /\ UNCHANGED <<fdLoopVars, world, got, outT, inT>>

\* close: pipes and pidfd are closed, the child is sent SIGTERM.  Nobody hears
\* of its exit any more unless a thread waits for it.
CloseTransport ==
    /\ child # "none" /\ ~sp.closed
    /\ outT' = [o \in Outs |-> TRUE]
    /\ inT' = IF inT.closing THEN inT ELSE ClosedStdin(inT)
    /\ sp' = [sp EXCEPT !.closed = TRUE, !.via = IF @ = "pidfd" THEN "none" ELSE @]
    /\ watched' = watched \ (Outs \cup {"pidfd"})
    /\ UNCHANGED <<ready, world, got>>

----------------------------------------------------------------------------
SubprocessLoop ==
    \/ Poll(SubprocessLive) /\ UNCHANGED spVars
    \/ OnPidfdReady \/ OnThreadExit
    \/ \E o \in Outs : ReadOutput(o) \/ ReadNoOutput(o)
    \/ \E n \in 1..MaxInput : StdinProgress(n)
    \/ StdinNoProgress

SubprocessNext ==
    \/ \E via \in {"pidfd", "thread"} : Start(via)
    \/ \E o \in Outs : ChildWrites(o) \/ HeirWrites(o)
    \/ ChildReads \/ ChildForks \/ HeirExits \/ ChildExits
    \/ \E o \in Outs : PauseOutput(o) \/ ResumeOutput(o) \/ CloseOutput(o)
    \/ WriteStdin \/ CloseStdin \/ AbortStdin
    \/ Wait \/ CancelWait \/ CloseTransport
    \/ ThreadNotices \/ SubprocessLoop

SubprocessSpec ==
    FdLoopInit /\ SubprocessInit /\ [][SubprocessNext]_<<fdLoopVars, spVars>>

----------------------------------------------------------------------------
(***************************************************************************)
(* Properties                                                              *)
(***************************************************************************)

(***************************************************************************)
(* process_exited comes after the child's output: when it is called, every *)
(* unit the child wrote has been delivered, in order and once, even if the *)
(* protocol had paused reading or the exit was noticed before the data.    *)
(***************************************************************************)
OutputBeforeExit ==
    sp.exits > 0 => \A o \in Outs :
        /\ Len(got[o]) >= owed[o]
        /\ \A i \in DOMAIN got[o] : got[o][i] = i

(***************************************************************************)
(* process_exited is the end of it: it is called once, no output follows   *)
(* it although _read_ready may still be queued, and nobody is left waiting *)
(* in _wait.                                                               *)
(***************************************************************************)
ExitIsFinal ==
    [][/\ sp'.exits <= 1
       /\ sp.exits = 1 => got' = got
       /\ sp'.exits = 1 => sp'.waiter # "pending"]_<<sp, got>>

\* No callback for a descriptor that is closed stays registered.
SubprocessWatchesLive ==
    /\ \A o \in Outs : o \in watched => ~outT[o]
    /\ "stdin" \in watched => inT.open
    /\ "pidfd" \in watched => sp.via = "pidfd"

(***************************************************************************)
(* stdin is closed once its transport is closing and everything buffered   *)
(* is written, so that the child sees the end of its input.                *)
(***************************************************************************)
StdinClosesWhenFlushed == inT.closing /\ inT.buffer = 0 => ~inT.open

(***************************************************************************)
(* The exit of the child is reported to the protocol, unless the transport *)
(* or one of its pipes was closed before or the protocol itself raised.    *)
(***************************************************************************)
ExitNoticed ==
    child = "exited" ~> sp.exits = 1 \/ sp.closed \/ sp.raised \/ \E o \in Outs : outT[o]
============================================================================
