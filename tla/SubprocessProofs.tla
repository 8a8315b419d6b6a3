-------------------------- MODULE SubprocessProofs --------------------------
(***************************************************************************)
(* Theorems about Subprocess, for any choice of output pipes and any       *)
(* amount of output and input.                                             *)
(***************************************************************************)
EXTENDS Subprocess, FiniteSetTheorems, TLAPS

Watches == Outs \cup {"stdin", "pidfd"}
Callbacks == Watches \cup {"exited"}
Process == [via : {"none", "pidfd", "thread"}, rc : BOOLEAN, closed : BOOLEAN,
            exits : Nat, waiter : {"none", "pending", "done"}, raised : BOOLEAN]
Stdin == [closing : BOOLEAN, open : BOOLEAN, buffer : Nat, sent : Nat]

SubprocessTypeOK ==
    /\ watched \subseteq Watches /\ ready \in Seq(Callbacks)
    /\ child \in {"none", "running", "exited"}
    /\ outPipe \in [Outs -> Seq(Nat)] /\ got \in [Outs -> Seq(Nat)]
    /\ output \in [Outs -> Nat] /\ owed \in [Outs -> Nat]
    /\ sp \in Process /\ inT \in Stdin /\ outT \in [Outs -> BOOLEAN]

\* The pipe of stdin stays open until its transport is closing and flushed, and
\* its writer is registered only while something is buffered
StdinLife ==
    /\ ~inT.closing => inT.open
    /\ "stdin" \in watched => inT.open /\ inT.buffer > 0
    /\ StdinClosesWhenFlushed

\* What was written to an output pipe was delivered or is still in it, in order
OutputInOrder ==
    \A o \in Outs :
        /\ owed[o] <= output[o] /\ Len(got[o]) + Len(outPipe[o]) = output[o]
        /\ \A i \in DOMAIN got[o] : got[o][i] = i
        /\ \A i \in DOMAIN outPipe[o] : outPipe[o][i] = Len(got[o]) + i

\* process_exited leaves every output pipe empty and closed
OutputDone ==
    \A o \in Outs :
        /\ o \in watched => ~outT[o]
        /\ sp.exits > 0 => outT[o] /\ outPipe[o] = <<>>
        /\ child = "none" => ~outT[o]

\* An exit callback is queued: the only one, and process_exited is still to come
QueuedOnce(queue, p) ==
    \A i \in DOMAIN queue : queue[i] \in {"pidfd", "exited"} =>
        /\ p.exits = 0
        /\ \A j \in DOMAIN queue : queue[j] \in {"pidfd", "exited"} => i = j
        /\ queue[i] = "pidfd" => p.via # "thread"
        /\ queue[i] = "exited" => p.via = "none"

\* The exit of the child is under way in at most one place: the pidfd is
\* watched or queued, the thread waits, or what it scheduled is queued
ExitOnce ==
    /\ child = "none" => sp.via = "none" /\ sp.exits = 0 /\ ready = <<>> /\ watched = {}
    /\ "pidfd" \in watched => sp.via = "pidfd"
    /\ sp.via # "none" => sp.exits = 0
    /\ QueuedOnce(ready, sp)
    /\ sp.exits \in {0, 1}
    /\ sp.exits = 1 => sp.rc /\ sp.waiter # "pending"

SubprocessInv == SubprocessTypeOK /\ StdinLife /\ OutputInOrder /\ OutputDone /\ ExitOnce

----------------------------------------------------------------------------
\* A sequence as long as the set it lists has no callback twice.
LEMMA ListedOnce ==
    ASSUME NEW T, IsFiniteSet(T), NEW s \in [1..Cardinality(T) -> T],
           {s[i] : i \in DOMAIN s} = T
    PROVE  \A i, j \in DOMAIN s : s[i] = s[j] => i = j
<1> DEFINE D == 1..Cardinality(T)
<1>1. Cardinality(T) \in Nat
  BY FS_CardinalityType
<1>2. IsFiniteSet(D) /\ Cardinality(D) = Cardinality(T)
  BY <1>1, FS_Interval
<1>3. s \in Surjection(D, T)
  BY DEF Surjection
<1>4. s \in Injection(D, T)
  BY <1>2, <1>3, FS_SurjSameCardinalityImpliesInj
<1> QED
  BY <1>4 DEF Injection, IsInjective

\* epoll queues callbacks of watched descriptors only, each once.
LEMMA PollQueuesWatched ==
    ASSUME NEW live, Poll(live), watched \subseteq Watches
    PROVE  /\ ready' \in Seq(Callbacks) /\ watched' = watched /\ ready = <<>>
           /\ \A i \in DOMAIN ready' : ready'[i] \in watched
           /\ \A i, j \in DOMAIN ready' : ready'[i] = ready'[j] => i = j
           /\ watched # {}
<1> DEFINE found == watched \cap live
<1>1. IsFiniteSet(found)
  <2>1. IsFiniteSet({"stdout"}) /\ IsFiniteSet({"stderr"})
        /\ IsFiniteSet({"stdin"}) /\ IsFiniteSet({"pidfd"})
    BY FS_Singleton
  <2>2. IsFiniteSet(({"stdout"} \cup {"stderr"}) \cup ({"stdin"} \cup {"pidfd"}))
    BY <2>1, FS_Union
  <2>3. found \subseteq ({"stdout"} \cup {"stderr"}) \cup ({"stdin"} \cup {"pidfd"})
    BY SubprocessAssumption DEF SubprocessAssumption, Watches
  <2> QED
    BY <2>2, <2>3, FS_Subset
<1>2. PICK s \in [1..Cardinality(found) -> found] :
        {s[i] : i \in DOMAIN s} = found /\ ready' = s
  BY DEF Poll
<1>3. found \subseteq Callbacks /\ found \subseteq watched
  BY DEF Watches, Callbacks
<1>4. found # {}
  BY DEF Poll
<1> HIDE DEF found
<1>5. \A i, j \in DOMAIN s : s[i] = s[j] => i = j
  BY <1>1, <1>2, ListedOnce
<1>6. Cardinality(found) \in Nat
  BY <1>1, FS_CardinalityType
<1>7. s \in Seq(Callbacks) /\ \A i \in DOMAIN s : s[i] \in watched
  BY <1>2, <1>3, <1>6
<1> QED
  BY <1>2, <1>3, <1>4, <1>5, <1>7 DEF Poll

\* What is left of the queue after its first callback ran.
LEMMA ReturnShifts ==
    ASSUME SubprocessTypeOK, NEW cb, Runs(cb), Return
    PROVE  /\ ready' \in Seq(Callbacks)
           /\ ready[1] = cb /\ 1 \in DOMAIN ready
           /\ \A i \in DOMAIN ready' : i + 1 \in DOMAIN ready /\ ready'[i] = ready[i + 1]
           /\ \A i, j \in DOMAIN ready' : i + 1 = j + 1 => i = j
           /\ \A i \in DOMAIN ready' : i + 1 # 1
  BY DEF SubprocessTypeOK, Runs, Return

\* A callback is queued behind all others.
LEMMA CallSoonAppends ==
    ASSUME SubprocessTypeOK, NEW cb \in Callbacks, CallSoon(cb)
    PROVE  /\ ready' \in Seq(Callbacks)
           /\ Len(ready) + 1 \in DOMAIN ready' /\ ready'[Len(ready) + 1] = cb
           /\ \A i \in DOMAIN ready' : i # Len(ready) + 1 => i \in DOMAIN ready /\ ready'[i] = ready[i]
  BY DEF SubprocessTypeOK, CallSoon

\* The output pipes are not the other descriptors.
LEMMA OutsApart == "stdin" \notin Outs /\ "pidfd" \notin Outs /\ "exited" \notin Outs
  BY SubprocessAssumption DEF SubprocessAssumption

----------------------------------------------------------------------------
(***************************************************************************)
(* What the operations do to stdin's transport and to the pipes.           *)
(***************************************************************************)
\* close()
LEMMA ClosedStdinIs ==
    ASSUME NEW t \in Stdin
    PROVE  /\ ClosedStdin(t) \in Stdin /\ ClosedStdin(t).closing
           /\ ClosedStdin(t).buffer = t.buffer
           /\ ClosedStdin(t).open <=> (t.open /\ t.buffer > 0)
<1> DEFINE e == t.open /\ t.buffer > 0
<1>1. e \in BOOLEAN
  OBVIOUS
<1>2. ClosedStdin(t) = [t EXCEPT !.closing = TRUE, !.open = e]
  BY DEF ClosedStdin
<1>3. e <=> (t.open /\ t.buffer > 0)
  OBVIOUS
<1> HIDE DEF e
<1>4. ClosedStdin(t) \in Stdin
  BY <1>1, <1>2 DEF Stdin
<1>5. ClosedStdin(t).closing = TRUE /\ ClosedStdin(t).buffer = t.buffer /\ ClosedStdin(t).open = e
  BY <1>2 DEF Stdin
<1> QED
  BY <1>3, <1>4, <1>5

\* The end of _write_ready
LEMMA FlushedStdinIs ==
    ASSUME NEW t \in Stdin
    PROVE  /\ FlushedStdin(t) \in Stdin /\ FlushedStdin(t).closing = t.closing
           /\ FlushedStdin(t).buffer = t.buffer
           /\ t.buffer = 0 /\ t.closing => ~FlushedStdin(t).open
           /\ t.buffer # 0 \/ ~t.closing => FlushedStdin(t) = t
  BY DEF Stdin, FlushedStdin

\* write() and _write_ready, and close() by the exit or by the transport
LEMMA StdinOps ==
    ASSUME SubprocessTypeOK
    PROVE  /\ WriteStdin => inT' \in Stdin /\ ~inT'.closing /\ inT'.open = inT.open
                            /\ inT'.buffer > 0
           /\ \A n \in Nat \ {0} : StdinProgress(n) =>
                 /\ inT' \in Stdin /\ inT'.closing = inT.closing /\ inT'.buffer = inT.buffer - n
                 /\ inT'.buffer = 0 /\ inT.closing => ~inT'.open
                 /\ inT'.buffer # 0 \/ ~inT.closing => inT'.open = inT.open
           /\ AbortStdin => inT' \in Stdin /\ inT'.closing /\ ~inT'.open /\ inT'.buffer = 0
<1>1. inT \in Stdin
  BY DEF SubprocessTypeOK
<1>2. ASSUME WriteStdin
      PROVE  inT' \in Stdin /\ ~inT'.closing /\ inT'.open = inT.open /\ inT'.buffer > 0
  <2> DEFINE b == inT.buffer + 1
             s == inT.sent + 1
  <2>1. b \in Nat /\ b > 0 /\ s \in Nat
    BY <1>1 DEF Stdin
  <2>2. inT' = [inT EXCEPT !.buffer = b, !.sent = s] /\ ~inT.closing
    BY <1>2 DEF WriteStdin
  <2> HIDE DEF b, s
  <2>3. inT' \in Stdin
    BY <1>1, <2>1, <2>2 DEF Stdin
  <2> QED
    BY <1>1, <2>1, <2>2, <2>3 DEF Stdin
<1>3. ASSUME NEW n \in Nat \ {0}, StdinProgress(n)
      PROVE  /\ inT' \in Stdin /\ inT'.closing = inT.closing /\ inT'.buffer = inT.buffer - n
             /\ inT'.buffer = 0 /\ inT.closing => ~inT'.open
             /\ inT'.buffer # 0 \/ ~inT.closing => inT'.open = inT.open
  <2> DEFINE b == inT.buffer - n
             t == [inT EXCEPT !.buffer = b]
  <2>1. b \in Nat
    BY <1>1, <1>3 DEF Stdin, StdinProgress
  <2>2. inT' = FlushedStdin(t)
    BY <1>3 DEF StdinProgress
  <2> HIDE DEF b
  <2>3. t \in Stdin /\ t.buffer = b /\ t.closing = inT.closing /\ t.open = inT.open
    BY <1>1, <2>1 DEF Stdin
  <2> HIDE DEF t
  <2>4. /\ inT' \in Stdin /\ inT'.closing = inT.closing /\ inT'.buffer = b
        /\ b = 0 /\ inT.closing => ~inT'.open
        /\ b # 0 \/ ~inT.closing => inT'.open = inT.open
    BY <2>2, <2>3, FlushedStdinIs
  <2> QED
    BY <2>4 DEF b
<1>4. ASSUME AbortStdin
      PROVE  inT' \in Stdin /\ inT'.closing /\ ~inT'.open /\ inT'.buffer = 0
  BY <1>1, <1>4 DEF AbortStdin, Stdin
<1> QED
  BY <1>2, <1>3, <1>4

\* _process_exited runs to its end, or is cut short by the pipe o
Handled(cb, gone) ==
    /\ Runs(cb) /\ ExitHandled(gone) /\ Return
    /\ UNCHANGED <<child, heir, output, owed, inPipe>>
CutShort(cb, gone, o) ==
    /\ Runs(cb) /\ ExitCutShort(gone, o) /\ Return
    /\ UNCHANGED <<child, heir, output, owed, inPipe>>
Notice(cb, gone) == (cb = "pidfd" /\ gone = {"pidfd"}) \/ (cb = "exited" /\ gone = {})

\* The data left in the pipes S is delivered.
LEMMA DrainIs ==
    ASSUME SubprocessTypeOK, NEW S, Drain(S)
    PROVE  /\ got' \in [Outs -> Seq(Nat)] /\ outPipe' \in [Outs -> Seq(Nat)]
           /\ \A q \in Outs \cap S : got'[q] = got[q] \o outPipe[q] /\ outPipe'[q] = <<>>
           /\ \A q \in Outs \ S : got'[q] = got[q] /\ outPipe'[q] = outPipe[q]
<1>1. \A q \in Outs : got[q] \in Seq(Nat) /\ outPipe[q] \in Seq(Nat) /\ <<>> \in Seq(Nat)
                      /\ got[q] \o outPipe[q] \in Seq(Nat)
  BY DEF SubprocessTypeOK
<1>2. \A q \in Outs : /\ got'[q] = IF q \in S THEN got[q] \o outPipe[q] ELSE got[q]
                      /\ outPipe'[q] = IF q \in S THEN <<>> ELSE outPipe[q]
  BY DEF Drain
<1>3. got' = [q \in Outs |-> got'[q]] /\ outPipe' = [q \in Outs |-> outPipe'[q]]
  BY DEF Drain
<1>4. \A q \in Outs : got'[q] \in Seq(Nat) /\ outPipe'[q] \in Seq(Nat)
  BY <1>1, <1>2
<1> QED
  BY <1>2, <1>3, <1>4

\* The transport after its child's exit.
LEMMA ExitIs ==
    ASSUME SubprocessTypeOK, NEW gone
    PROVE  /\ ExitHandled(gone) =>
                /\ sp' \in Process /\ sp'.rc /\ sp'.exits = sp.exits + 1 /\ sp'.via = "none"
                /\ sp'.waiter # "pending"
           /\ \A o : ExitCutShort(gone, o) =>
                /\ sp' \in Process /\ sp'.rc /\ sp'.exits = sp.exits /\ sp'.via = "none"
                /\ sp'.waiter = sp.waiter
<1>1. sp \in Process
  BY DEF SubprocessTypeOK
<1>2. ASSUME ExitHandled(gone)
      PROVE  /\ sp' \in Process /\ sp'.rc /\ sp'.exits = sp.exits + 1 /\ sp'.via = "none"
             /\ sp'.waiter # "pending"
  <2> DEFINE e == sp.exits + 1
             w == WaiterAfterExit
  <2>1. e \in Nat /\ w \in {"none", "pending", "done"} /\ w # "pending"
    BY <1>1 DEF Process, WaiterAfterExit
  <2>2. sp' = [sp EXCEPT !.rc = TRUE, !.exits = e, !.waiter = w, !.via = "none"]
    BY <1>2 DEF ExitHandled
  <2> HIDE DEF e, w
  <2>3. sp' \in Process
    BY <1>1, <2>1, <2>2 DEF Process
  <2>4. sp'.rc = TRUE /\ sp'.exits = e /\ sp'.via = "none" /\ sp'.waiter = w
    BY <1>1, <2>2 DEF Process
  <2> QED
    BY <2>1, <2>3, <2>4 DEF e
<1>3. ASSUME NEW o, ExitCutShort(gone, o)
      PROVE  /\ sp' \in Process /\ sp'.rc /\ sp'.exits = sp.exits /\ sp'.via = "none"
             /\ sp'.waiter = sp.waiter
  <2>1. sp' = [sp EXCEPT !.rc = TRUE, !.raised = TRUE, !.via = "none"]
    BY <1>3 DEF ExitCutShort
  <2>2. sp' \in Process
    BY <1>1, <2>1 DEF Process
  <2> QED
    BY <1>1, <2>1, <2>2 DEF Process
<1> QED
  BY <1>2, <1>3

\* What the other operations do to the transport.
LEMMA TransportIs ==
    ASSUME SubprocessTypeOK
    PROVE  /\ \A via \in {"pidfd", "thread"} : Start(via) =>
                sp' \in Process /\ sp'.via = via /\ sp'.exits = sp.exits
           /\ ThreadNotices =>
                sp' \in Process /\ sp'.via = "none" /\ sp'.exits = sp.exits /\ sp.via = "thread"
           /\ Wait => /\ sp' \in Process /\ sp'.via = sp.via /\ sp'.exits = sp.exits
                      /\ sp'.rc = sp.rc /\ (sp.rc => sp'.waiter = "done")
           /\ CancelWait => /\ sp' \in Process /\ sp'.via = sp.via /\ sp'.exits = sp.exits
                            /\ sp'.rc = sp.rc /\ sp'.waiter = "none"
           /\ CloseTransport =>
                /\ sp' \in Process /\ sp'.exits = sp.exits /\ sp'.rc = sp.rc
                /\ sp'.waiter = sp.waiter
                /\ sp'.via = IF sp.via = "pidfd" THEN "none" ELSE sp.via
<1>1. sp \in Process
  BY DEF SubprocessTypeOK
<1>2. ASSUME NEW via \in {"pidfd", "thread"}, Start(via)
      PROVE  sp' \in Process /\ sp'.via = via /\ sp'.exits = sp.exits
  BY <1>1, <1>2 DEF Start, Process
<1>3. ASSUME ThreadNotices
      PROVE  sp' \in Process /\ sp'.via = "none" /\ sp'.exits = sp.exits /\ sp.via = "thread"
  BY <1>1, <1>3 DEF ThreadNotices, Process
<1>4. ASSUME Wait
      PROVE  /\ sp' \in Process /\ sp'.via = sp.via /\ sp'.exits = sp.exits
             /\ sp'.rc = sp.rc /\ (sp.rc => sp'.waiter = "done")
  BY <1>1, <1>4 DEF Wait, Process
<1>5. ASSUME CancelWait
      PROVE  /\ sp' \in Process /\ sp'.via = sp.via /\ sp'.exits = sp.exits
             /\ sp'.rc = sp.rc /\ sp'.waiter = "none"
  BY <1>1, <1>5 DEF CancelWait, Process
<1>6. ASSUME CloseTransport
      PROVE  /\ sp' \in Process /\ sp'.exits = sp.exits /\ sp'.rc = sp.rc
             /\ sp'.waiter = sp.waiter
             /\ sp'.via = IF sp.via = "pidfd" THEN "none" ELSE sp.via
  <2> DEFINE v == IF sp.via = "pidfd" THEN "none" ELSE sp.via
  <2>1. v \in {"none", "pidfd", "thread"}
    BY <1>1 DEF Process
  <2>2. sp' = [sp EXCEPT !.closed = TRUE, !.via = v]
    BY <1>6 DEF CloseTransport
  <2> HIDE DEF v
  <2>3. sp' \in Process
    BY <1>1, <2>1, <2>2 DEF Process
  <2>4. sp'.exits = sp.exits /\ sp'.rc = sp.rc /\ sp'.waiter = sp.waiter /\ sp'.via = v
    BY <1>1, <2>2 DEF Process
  <2> QED
    BY <2>3, <2>4 DEF v
<1> QED
  BY <1>2, <1>3, <1>4, <1>5, <1>6

\* stdin's transport when the exit or close() of the transport closes it
LEMMA StdinCloses ==
    ASSUME SubprocessTypeOK, inT' = IF inT.closing THEN inT ELSE ClosedStdin(inT)
    PROVE  /\ inT' \in Stdin /\ inT'.closing /\ inT'.buffer = inT.buffer
           /\ ~inT.closing => (inT'.open <=> (inT.open /\ inT.buffer > 0))
           /\ inT.closing => inT' = inT
  BY ClosedStdinIs DEF SubprocessTypeOK

----------------------------------------------------------------------------
\* Every step keeps the types.
LEMMA SubprocessTypeStep ==
    ASSUME SubprocessTypeOK, [SubprocessNext]_<<fdLoopVars, spVars>>
    PROVE  SubprocessTypeOK'
<1>1. ASSUME NEW via \in {"pidfd", "thread"}, Start(via) PROVE SubprocessTypeOK'
  <2>1. sp' \in Process
    BY <1>1, TransportIs
  <2>2. watched' \subseteq Watches
    BY <1>1 DEF Start, ExitWatch, Watches, SubprocessTypeOK
  <2> QED
    BY <1>1, <2>1, <2>2 DEF SubprocessTypeOK, Start
<1>2. ASSUME NEW o \in Outs, ChildWrites(o) PROVE SubprocessTypeOK'
  <2>1. output[o] + 1 \in Nat /\ Append(outPipe[o], output[o] + 1) \in Seq(Nat)
    BY DEF SubprocessTypeOK
  <2>2. output' \in [Outs -> Nat] /\ outPipe' \in [Outs -> Seq(Nat)] /\ output'[o] \in Nat
    BY <1>2, <2>1 DEF ChildWrites, WritesOutput, SubprocessTypeOK
  <2>3. owed' \in [Outs -> Nat]
    BY <1>2, <2>2 DEF ChildWrites, SubprocessTypeOK
  <2> QED
    BY <1>2, <2>2, <2>3 DEF SubprocessTypeOK, ChildWrites, fdLoopVars
<1>3. ASSUME NEW o \in Outs, HeirWrites(o) PROVE SubprocessTypeOK'
  <2>1. output[o] + 1 \in Nat /\ Append(outPipe[o], output[o] + 1) \in Seq(Nat)
    BY DEF SubprocessTypeOK
  <2>2. output' \in [Outs -> Nat] /\ outPipe' \in [Outs -> Seq(Nat)] /\ output'[o] \in Nat
    BY <1>3, <2>1 DEF HeirWrites, WritesOutput, SubprocessTypeOK
  <2>3. owed' \in [Outs -> Nat]
    BY <1>3, <2>2 DEF HeirWrites, SubprocessTypeOK
  <2> QED
    BY <1>3, <2>2, <2>3 DEF SubprocessTypeOK, HeirWrites, fdLoopVars
<1>4. CASE ChildReads
  BY <1>4 DEF SubprocessTypeOK, ChildReads, Watches, fdLoopVars, spVars, world
<1>5. CASE ChildForks
  BY <1>5 DEF SubprocessTypeOK, ChildForks, Watches, fdLoopVars, spVars, world
<1>6. CASE HeirExits
  BY <1>6 DEF SubprocessTypeOK, HeirExits, Watches, fdLoopVars, spVars, world
<1>7. CASE ChildExits
  BY <1>7 DEF SubprocessTypeOK, ChildExits, Watches, fdLoopVars, spVars, world
<1>8. ASSUME NEW o \in Outs, PauseOutput(o) PROVE SubprocessTypeOK'
  BY <1>8 DEF SubprocessTypeOK, PauseOutput, Watches, fdLoopVars, spVars, world
<1>9. ASSUME NEW o \in Outs, ResumeOutput(o) PROVE SubprocessTypeOK'
  BY <1>9 DEF SubprocessTypeOK, ResumeOutput, Watches, fdLoopVars, spVars, world
<1>10. ASSUME NEW o \in Outs, CloseOutput(o) PROVE SubprocessTypeOK'
  BY <1>10 DEF SubprocessTypeOK, CloseOutput, Watches, fdLoopVars, spVars, world
<1>11. CASE WriteStdin
  <2>2. inT' \in Stdin
    BY <1>11, StdinOps
  <2>3. watched' \subseteq Watches
    BY <1>11 DEF WriteStdin, Watches, SubprocessTypeOK
  <2> QED
    BY <1>11, <2>2, <2>3 DEF SubprocessTypeOK, WriteStdin, world
<1>12. CASE CloseStdin
  <2>1. inT' \in Stdin
    BY <1>12, ClosedStdinIs DEF CloseStdin, SubprocessTypeOK
  <2> QED
    BY <1>12, <2>1 DEF SubprocessTypeOK, CloseStdin, fdLoopVars, world
<1>13. CASE AbortStdin
  <2>2. inT' \in Stdin
    BY <1>13, StdinOps
  <2>3. watched' \subseteq Watches
    BY <1>13 DEF AbortStdin, Watches, SubprocessTypeOK
  <2> QED
    BY <1>13, <2>2, <2>3 DEF SubprocessTypeOK, AbortStdin, world
<1>14. CASE Wait
  <2>1. sp' \in Process
    BY <1>14, TransportIs
  <2> QED
    BY <1>14, <2>1 DEF SubprocessTypeOK, Wait, fdLoopVars, world
<1>15. CASE CancelWait
  <2>1. sp' \in Process
    BY <1>15, TransportIs
  <2> QED
    BY <1>15, <2>1 DEF SubprocessTypeOK, CancelWait, fdLoopVars, world
<1>16. CASE CloseTransport
  <2>1. sp' \in Process
    BY <1>16, TransportIs
  <2>2. inT' \in Stdin
    BY <1>16, StdinCloses DEF CloseTransport
  <2>3. outT' \in [Outs -> BOOLEAN] /\ watched' \subseteq Watches
    BY <1>16 DEF CloseTransport, SubprocessTypeOK
  <2> QED
    BY <1>16, <2>1, <2>2, <2>3 DEF SubprocessTypeOK, CloseTransport, world
<1>17. CASE ThreadNotices
  <2>1. ready' \in Seq(Callbacks) /\ sp' \in Process
    BY <1>17, CallSoonAppends, TransportIs DEF ThreadNotices, Callbacks
  <2> QED
    BY <1>17, <2>1 DEF SubprocessTypeOK, ThreadNotices, world
<1>18. ASSUME NEW o \in Outs, ReadOutput(o) PROVE SubprocessTypeOK'
  <2>1. ready' \in Seq(Callbacks)
    BY <1>18, ReturnShifts DEF ReadOutput
  <2>2. got[o] \o outPipe[o] \in Seq(Nat) /\ <<>> \in Seq(Nat)
    BY DEF SubprocessTypeOK
  <2>3. got' \in [Outs -> Seq(Nat)] /\ outPipe' \in [Outs -> Seq(Nat)]
    BY <1>18, <2>2 DEF ReadOutput, SubprocessTypeOK
  <2> QED
    BY <1>18, <2>1, <2>3 DEF SubprocessTypeOK, ReadOutput
<1>19. ASSUME NEW o \in Outs, ReadNoOutput(o) PROVE SubprocessTypeOK'
  <2>1. ready' \in Seq(Callbacks)
    BY <1>19, ReturnShifts DEF ReadNoOutput
  <2> QED
    BY <1>19, <2>1 DEF SubprocessTypeOK, ReadNoOutput, spVars, world
<1>20. ASSUME NEW n \in Nat \ {0}, StdinProgress(n) PROVE SubprocessTypeOK'
  <2>1. ready' \in Seq(Callbacks)
    BY <1>20, ReturnShifts DEF StdinProgress
  <2>2. inT' \in Stdin
    BY <1>20, StdinOps
  <2>3. watched' \subseteq Watches
    BY <1>20 DEF StdinProgress, Watches, SubprocessTypeOK
  <2> QED
    BY <1>20, <2>1, <2>2, <2>3 DEF SubprocessTypeOK, StdinProgress, world
<1>21. CASE StdinNoProgress
  <2>1. ready' \in Seq(Callbacks)
    BY <1>21, ReturnShifts DEF StdinNoProgress
  <2> QED
    BY <1>21, <2>1 DEF SubprocessTypeOK, StdinNoProgress, spVars, world
<1>22. ASSUME NEW cb, NEW gone, Notice(cb, gone), Handled(cb, gone) PROVE SubprocessTypeOK'
  <2>1. ready' \in Seq(Callbacks)
    BY <1>22, ReturnShifts DEF Handled
  <2>2. sp' \in Process
    BY <1>22, ExitIs DEF Handled
  <2>3. inT' \in Stdin
    BY <1>22, StdinCloses DEF Handled, ExitHandled
  <2>4. got' \in [Outs -> Seq(Nat)] /\ outPipe' \in [Outs -> Seq(Nat)]
    BY <1>22, DrainIs DEF Handled, ExitHandled
  <2>5. outT' \in [Outs -> BOOLEAN] /\ watched' \subseteq Watches
    BY <1>22 DEF Handled, ExitHandled, SubprocessTypeOK
  <2> QED
    BY <1>22, <2>1, <2>2, <2>3, <2>4, <2>5 DEF SubprocessTypeOK, Handled
<1>23. ASSUME NEW cb, NEW gone, NEW o \in Outs, Notice(cb, gone), CutShort(cb, gone, o) PROVE SubprocessTypeOK'
  <2>1. ready' \in Seq(Callbacks)
    BY <1>23, ReturnShifts DEF CutShort
  <2>2. sp' \in Process
    BY <1>23, ExitIs DEF CutShort
  <2>3. got' \in [Outs -> Seq(Nat)] /\ outPipe' \in [Outs -> Seq(Nat)]
    BY <1>23, DrainIs DEF CutShort, ExitCutShort
  <2>4. UNCHANGED <<outT, inT>> /\ watched' \subseteq Watches
    BY <1>23 DEF CutShort, ExitCutShort, SubprocessTypeOK
  <2> QED
    BY <1>23, <2>1, <2>2, <2>3, <2>4 DEF SubprocessTypeOK, CutShort
<1>24. ASSUME NEW live, Poll(live), UNCHANGED spVars PROVE SubprocessTypeOK'
  BY <1>24, PollQueuesWatched DEF SubprocessTypeOK, spVars, world
<1>25. CASE UNCHANGED <<fdLoopVars, spVars>>
  BY <1>25 DEF SubprocessTypeOK, fdLoopVars, spVars, world
<1>26. \A n \in 1..MaxInput : n \in Nat \ {0}
  BY SubprocessAssumption DEF SubprocessAssumption
<1>27. ASSUME NEW cb, NEW gone, Notice(cb, gone), Runs(cb), ProcessExited(gone) PROVE SubprocessTypeOK'
  BY <1>27, <1>22, <1>23 DEF ProcessExited, Handled, CutShort
<1>28. CASE OnPidfdReady \/ OnThreadExit
  BY <1>28, <1>27 DEF OnPidfdReady, OnThreadExit, PidfdGone, Notice
<1> QED
  BY <1>1, <1>2, <1>3, <1>4, <1>5, <1>6, <1>7, <1>8, <1>9, <1>10,
     <1>11, <1>12, <1>13, <1>14, <1>15, <1>16, <1>17, <1>18, <1>19, <1>20, <1>21,
     <1>24, <1>25, <1>26, <1>28
  DEF SubprocessNext, SubprocessLoop

\* Every step keeps what is said of stdin.
LEMMA StdinStep ==
    ASSUME SubprocessTypeOK, StdinLife, [SubprocessNext]_<<fdLoopVars, spVars>>
    PROVE  StdinLife'
<1>1. ASSUME NEW via \in {"pidfd", "thread"}, Start(via) PROVE StdinLife'
  <2>1. UNCHANGED inT /\ ("stdin" \in watched' => "stdin" \in watched)
    BY <1>1, OutsApart DEF Start, ExitWatch, fdLoopVars, spVars, world
  <2> QED
    BY <2>1 DEF StdinLife, StdinClosesWhenFlushed
<1>2. ASSUME NEW o \in Outs, ChildWrites(o) PROVE StdinLife'
  <2>1. UNCHANGED inT /\ ("stdin" \in watched' => "stdin" \in watched)
    BY <1>2, OutsApart DEF ChildWrites, fdLoopVars, spVars, world
  <2> QED
    BY <2>1 DEF StdinLife, StdinClosesWhenFlushed
<1>3. ASSUME NEW o \in Outs, HeirWrites(o) PROVE StdinLife'
  <2>1. UNCHANGED inT /\ ("stdin" \in watched' => "stdin" \in watched)
    BY <1>3, OutsApart DEF HeirWrites, fdLoopVars, spVars, world
  <2> QED
    BY <2>1 DEF StdinLife, StdinClosesWhenFlushed
<1>4. CASE ChildReads
  <2>1. UNCHANGED inT /\ ("stdin" \in watched' => "stdin" \in watched)
    BY <1>4, OutsApart DEF ChildReads, fdLoopVars, spVars, world
  <2> QED
    BY <2>1 DEF StdinLife, StdinClosesWhenFlushed
<1>5. CASE ChildForks
  <2>1. UNCHANGED inT /\ ("stdin" \in watched' => "stdin" \in watched)
    BY <1>5, OutsApart DEF ChildForks, fdLoopVars, spVars, world
  <2> QED
    BY <2>1 DEF StdinLife, StdinClosesWhenFlushed
<1>6. CASE HeirExits
  <2>1. UNCHANGED inT /\ ("stdin" \in watched' => "stdin" \in watched)
    BY <1>6, OutsApart DEF HeirExits, fdLoopVars, spVars, world
  <2> QED
    BY <2>1 DEF StdinLife, StdinClosesWhenFlushed
<1>7. CASE ChildExits
  <2>1. UNCHANGED inT /\ ("stdin" \in watched' => "stdin" \in watched)
    BY <1>7, OutsApart DEF ChildExits, fdLoopVars, spVars, world
  <2> QED
    BY <2>1 DEF StdinLife, StdinClosesWhenFlushed
<1>8. ASSUME NEW o \in Outs, PauseOutput(o) PROVE StdinLife'
  <2>1. UNCHANGED inT /\ ("stdin" \in watched' => "stdin" \in watched)
    BY <1>8, OutsApart DEF PauseOutput, fdLoopVars, spVars, world
  <2> QED
    BY <2>1 DEF StdinLife, StdinClosesWhenFlushed
<1>9. ASSUME NEW o \in Outs, ResumeOutput(o) PROVE StdinLife'
  <2>1. UNCHANGED inT /\ ("stdin" \in watched' => "stdin" \in watched)
    BY <1>9, OutsApart DEF ResumeOutput, fdLoopVars, spVars, world
  <2> QED
    BY <2>1 DEF StdinLife, StdinClosesWhenFlushed
<1>10. ASSUME NEW o \in Outs, CloseOutput(o) PROVE StdinLife'
  <2>1. UNCHANGED inT /\ ("stdin" \in watched' => "stdin" \in watched)
    BY <1>10, OutsApart DEF CloseOutput, fdLoopVars, spVars, world
  <2> QED
    BY <2>1 DEF StdinLife, StdinClosesWhenFlushed
<1>11. CASE WriteStdin
  BY <1>11, StdinOps DEF StdinLife, StdinClosesWhenFlushed, WriteStdin
<1>12. CASE CloseStdin
  <2>1. inT \in Stdin /\ inT.buffer \in Nat
    BY DEF SubprocessTypeOK, Stdin
  <2>2. inT' = ClosedStdin(inT) /\ UNCHANGED watched
    BY <1>12 DEF CloseStdin, fdLoopVars
  <2> QED
    BY <2>1, <2>2, ClosedStdinIs DEF StdinLife, StdinClosesWhenFlushed
<1>13. CASE AbortStdin
  BY <1>13, StdinOps DEF StdinLife, StdinClosesWhenFlushed, AbortStdin
<1>14. CASE Wait
  <2>1. UNCHANGED inT /\ ("stdin" \in watched' => "stdin" \in watched)
    BY <1>14, OutsApart DEF Wait, fdLoopVars, spVars, world
  <2> QED
    BY <2>1 DEF StdinLife, StdinClosesWhenFlushed
<1>15. CASE CancelWait
  <2>1. UNCHANGED inT /\ ("stdin" \in watched' => "stdin" \in watched)
    BY <1>15, OutsApart DEF CancelWait, fdLoopVars, spVars, world
  <2> QED
    BY <2>1 DEF StdinLife, StdinClosesWhenFlushed
<1>16. CASE CloseTransport
  <2>1. inT.buffer \in Nat /\ ("stdin" \in watched' => "stdin" \in watched)
    BY <1>16 DEF SubprocessTypeOK, Stdin, CloseTransport
  <2>2. /\ inT'.closing /\ inT'.buffer = inT.buffer
        /\ ~inT.closing => (inT'.open <=> (inT.open /\ inT.buffer > 0))
        /\ inT.closing => inT' = inT
    BY <1>16, StdinCloses DEF CloseTransport
  <2>3. CASE inT.closing
    BY <2>1, <2>2, <2>3 DEF StdinLife, StdinClosesWhenFlushed
  <2>4. CASE ~inT.closing
    <3>1. inT.buffer = 0 => ~(inT.buffer > 0)
      OBVIOUS
    <3> QED
      BY <2>1, <2>2, <2>4, <3>1 DEF StdinLife, StdinClosesWhenFlushed
  <2> QED
    BY <2>3, <2>4
<1>17. CASE ThreadNotices
  <2>1. UNCHANGED inT /\ ("stdin" \in watched' => "stdin" \in watched)
    BY <1>17, OutsApart DEF ThreadNotices, fdLoopVars, spVars, world
  <2> QED
    BY <2>1 DEF StdinLife, StdinClosesWhenFlushed
<1>18. ASSUME NEW o \in Outs, ReadOutput(o) PROVE StdinLife'
  <2>1. UNCHANGED inT /\ ("stdin" \in watched' => "stdin" \in watched)
    BY <1>18, OutsApart DEF ReadOutput, fdLoopVars, spVars, world
  <2> QED
    BY <2>1 DEF StdinLife, StdinClosesWhenFlushed
<1>19. ASSUME NEW o \in Outs, ReadNoOutput(o) PROVE StdinLife'
  <2>1. UNCHANGED inT /\ ("stdin" \in watched' => "stdin" \in watched)
    BY <1>19, OutsApart DEF ReadNoOutput, fdLoopVars, spVars, world
  <2> QED
    BY <2>1 DEF StdinLife, StdinClosesWhenFlushed
<1>20. ASSUME NEW n \in Nat \ {0}, StdinProgress(n) PROVE StdinLife'
  <2>1. inT.buffer \in Nat /\ n <= inT.buffer
        /\ watched' = IF n = inT.buffer THEN watched \ {"stdin"} ELSE watched
    BY <1>20 DEF SubprocessTypeOK, Stdin, StdinProgress
  <2>2. /\ inT'.closing = inT.closing /\ inT'.buffer = inT.buffer - n
        /\ inT'.buffer = 0 /\ inT.closing => ~inT'.open
        /\ inT'.buffer # 0 \/ ~inT.closing => inT'.open = inT.open
    BY <1>20, StdinOps
  <2>3. "stdin" \in watched' => "stdin" \in watched /\ inT'.buffer > 0 /\ inT'.buffer # 0
    BY <2>1, <2>2
  <2> QED
    BY <2>2, <2>3 DEF StdinLife, StdinClosesWhenFlushed
<1>21. CASE StdinNoProgress
  <2>1. UNCHANGED inT /\ ("stdin" \in watched' => "stdin" \in watched)
    BY <1>21, OutsApart DEF StdinNoProgress, fdLoopVars, spVars, world
  <2> QED
    BY <2>1 DEF StdinLife, StdinClosesWhenFlushed
<1>22. ASSUME NEW cb, NEW gone, Notice(cb, gone), Handled(cb, gone) PROVE StdinLife'
  <2>1. inT.buffer \in Nat /\ ("stdin" \in watched' => "stdin" \in watched)
    BY <1>22 DEF SubprocessTypeOK, Stdin, Handled, ExitHandled
  <2>2. /\ inT'.closing /\ inT'.buffer = inT.buffer
        /\ ~inT.closing => (inT'.open <=> (inT.open /\ inT.buffer > 0))
        /\ inT.closing => inT' = inT
    BY <1>22, StdinCloses DEF Handled, ExitHandled
  <2>3. CASE inT.closing
    BY <2>1, <2>2, <2>3 DEF StdinLife, StdinClosesWhenFlushed
  <2>4. CASE ~inT.closing
    <3>1. inT.buffer = 0 => ~(inT.buffer > 0)
      OBVIOUS
    <3> QED
      BY <2>1, <2>2, <2>4, <3>1 DEF StdinLife, StdinClosesWhenFlushed
  <2> QED
    BY <2>3, <2>4
<1>23. ASSUME NEW cb, NEW gone, NEW o \in Outs, Notice(cb, gone), CutShort(cb, gone, o) PROVE StdinLife'
  <2>1. UNCHANGED inT /\ ("stdin" \in watched' => "stdin" \in watched)
    BY <1>23, OutsApart DEF CutShort, ExitCutShort, fdLoopVars, spVars, world
  <2> QED
    BY <2>1 DEF StdinLife, StdinClosesWhenFlushed
<1>24. ASSUME NEW live, Poll(live), UNCHANGED spVars PROVE StdinLife'
  BY <1>24 DEF Poll, StdinLife, StdinClosesWhenFlushed, spVars
<1>25. CASE UNCHANGED <<fdLoopVars, spVars>>
  BY <1>25 DEF StdinLife, StdinClosesWhenFlushed, fdLoopVars, spVars
<1>26. \A n \in 1..MaxInput : n \in Nat \ {0}
  BY SubprocessAssumption DEF SubprocessAssumption
<1>27. ASSUME NEW cb, NEW gone, Notice(cb, gone), Runs(cb), ProcessExited(gone) PROVE StdinLife'
  BY <1>27, <1>22, <1>23 DEF ProcessExited, Handled, CutShort
<1>28. CASE OnPidfdReady \/ OnThreadExit
  BY <1>28, <1>27 DEF OnPidfdReady, OnThreadExit, PidfdGone, Notice
<1> QED
  BY <1>1, <1>2, <1>3, <1>4, <1>5, <1>6, <1>7, <1>8, <1>9, <1>10,
     <1>11, <1>12, <1>13, <1>14, <1>15, <1>16, <1>17, <1>18, <1>19, <1>20, <1>21,
     <1>24, <1>25, <1>26, <1>28
  DEF SubprocessNext, SubprocessLoop

----------------------------------------------------------------------------
(***************************************************************************)
(* The output.                                                             *)
(***************************************************************************)
\* g was delivered and p is in the pipe: together the units 1..n, in order
InOrder(g, p, n) ==
    /\ Len(g) + Len(p) = n
    /\ \A i \in DOMAIN g : g[i] = i
    /\ \A i \in DOMAIN p : p[i] = Len(g) + i

\* A unit is written.
LEMMA InOrderAppend ==
    ASSUME NEW g \in Seq(Nat), NEW p \in Seq(Nat), NEW n \in Nat, InOrder(g, p, n)
    PROVE  InOrder(g, Append(p, n + 1), n + 1)
<1> DEFINE q == Append(p, n + 1)
<1>1. /\ DOMAIN q = 1..(Len(p) + 1) /\ Len(q) = Len(p) + 1 /\ q[Len(p) + 1] = n + 1
      /\ \A i \in 1..Len(p) : q[i] = p[i]
      /\ DOMAIN p = 1..Len(p) /\ Len(p) \in Nat /\ Len(g) \in Nat
  OBVIOUS
<1> HIDE DEF q
<1>2. Len(g) + Len(p) = n /\ \A i \in DOMAIN p : p[i] = Len(g) + i
  BY DEF InOrder
<1>3. Len(g) + Len(q) = n + 1
  BY <1>1, <1>2
<1>4. ASSUME NEW i \in DOMAIN q PROVE q[i] = Len(g) + i
  <2>1. CASE i \in 1..Len(p)
    BY <1>1, <1>2, <2>1
  <2>2. CASE i = Len(p) + 1
    BY <1>1, <1>2, <2>2
  <2> QED
    BY <1>1, <2>1, <2>2
<1> QED
  BY <1>3, <1>4 DEF InOrder, q

\* All that is in the pipe is delivered.
LEMMA InOrderRead ==
    ASSUME NEW g \in Seq(Nat), NEW p \in Seq(Nat), NEW n \in Nat, InOrder(g, p, n)
    PROVE  InOrder(g \o p, <<>>, n) /\ Len(g \o p) = n
<1> DEFINE h == g \o p
<1>1. /\ Len(h) = Len(g) + Len(p) /\ DOMAIN h = 1..(Len(g) + Len(p))
      /\ \A i \in 1..Len(g) : h[i] = g[i]
      /\ \A i \in 1..Len(p) : h[Len(g) + i] = p[i]
      /\ DOMAIN p = 1..Len(p) /\ Len(p) \in Nat /\ DOMAIN g = 1..Len(g) /\ Len(g) \in Nat
  OBVIOUS
<1> HIDE DEF h
<1>2. /\ Len(g) + Len(p) = n /\ \A i \in DOMAIN g : g[i] = i
      /\ \A i \in DOMAIN p : p[i] = Len(g) + i
  BY DEF InOrder
<1>3. ASSUME NEW i \in DOMAIN h PROVE h[i] = i
  <2>1. CASE i <= Len(g)
    BY <1>1, <1>2, <2>1
  <2>2. CASE Len(g) < i
    <3> DEFINE j == i - Len(g)
    <3>1. j \in 1..Len(p) /\ i = Len(g) + j
      BY <1>1, <2>2
    <3> HIDE DEF j
    <3> QED
      BY <1>1, <1>2, <3>1
  <2> QED
    BY <1>1, <2>1, <2>2
<1>4. Len(<<>>) = 0 /\ DOMAIN <<>> = {} /\ Len(h) + 0 = n
  BY <1>1, <1>2
<1> QED
  BY <1>1, <1>2, <1>3, <1>4 DEF InOrder, h

\* The order of the output in terms of one pipe.
LEMMA OrderIs ==
    OutputInOrder <=> \A o \in Outs : owed[o] <= output[o] /\ InOrder(got[o], outPipe[o], output[o])
  BY DEF OutputInOrder, InOrder

\* Every step keeps the output in order.
LEMMA OutputStep ==
    ASSUME SubprocessTypeOK, OutputInOrder, [SubprocessNext]_<<fdLoopVars, spVars>>
    PROVE  OutputInOrder'
<1>0. \A o \in Outs :
         /\ owed[o] <= output[o] /\ InOrder(got[o], outPipe[o], output[o])
         /\ got[o] \in Seq(Nat) /\ outPipe[o] \in Seq(Nat) /\ output[o] \in Nat /\ owed[o] \in Nat
  BY OrderIs DEF SubprocessTypeOK
<1>1. ASSUME NEW via \in {"pidfd", "thread"}, Start(via) PROVE OutputInOrder'
  BY <1>1 DEF Start, OutputInOrder, spVars, world
<1>2. ASSUME NEW o \in Outs, ChildWrites(o) PROVE OutputInOrder'
  <2>1. /\ output' = [output EXCEPT ![o] = @ + 1] /\ got' = got
        /\ outPipe' = [outPipe EXCEPT ![o] = Append(@, output[o] + 1)]
        /\ owed' = [owed EXCEPT ![o] = output'[o]]
    BY <1>2 DEF ChildWrites, WritesOutput
  <2>2. InOrder(got[o], Append(outPipe[o], output[o] + 1), output[o] + 1)
    BY <1>0, InOrderAppend
  <2>3. output'[o] = output[o] + 1 /\ outPipe'[o] = Append(outPipe[o], output[o] + 1)
    BY <2>1 DEF SubprocessTypeOK
  <2>4. \A q \in Outs \ {o} : output'[q] = output[q] /\ outPipe'[q] = outPipe[q] /\ owed'[q] = owed[q]
    BY <2>1 DEF SubprocessTypeOK
  <2>5. owed'[o] <= output'[o]
    <3>1. owed'[o] = output'[o] \/ owed'[o] = owed[o]
      BY <2>1 DEF SubprocessTypeOK
    <3> QED
      BY <1>0, <2>3, <3>1
  <2>6. \A q \in Outs : owed'[q] <= output'[q] /\ InOrder(got'[q], outPipe'[q], output'[q])
    BY <1>0, <2>1, <2>2, <2>3, <2>4, <2>5
  <2> QED
    BY <2>6 DEF OutputInOrder, InOrder
<1>3. ASSUME NEW o \in Outs, HeirWrites(o) PROVE OutputInOrder'
  <2>1. /\ output' = [output EXCEPT ![o] = @ + 1] /\ got' = got
        /\ outPipe' = [outPipe EXCEPT ![o] = Append(@, output[o] + 1)]
        /\ owed' = owed
    BY <1>3 DEF HeirWrites, WritesOutput
  <2>2. InOrder(got[o], Append(outPipe[o], output[o] + 1), output[o] + 1)
    BY <1>0, InOrderAppend
  <2>3. output'[o] = output[o] + 1 /\ outPipe'[o] = Append(outPipe[o], output[o] + 1)
    BY <2>1 DEF SubprocessTypeOK
  <2>4. \A q \in Outs \ {o} : output'[q] = output[q] /\ outPipe'[q] = outPipe[q] /\ owed'[q] = owed[q]
    BY <2>1 DEF SubprocessTypeOK
  <2>5. owed'[o] <= output'[o]
    <3>1. owed'[o] = output'[o] \/ owed'[o] = owed[o]
      BY <2>1 DEF SubprocessTypeOK
    <3> QED
      BY <1>0, <2>3, <3>1
  <2>6. \A q \in Outs : owed'[q] <= output'[q] /\ InOrder(got'[q], outPipe'[q], output'[q])
    BY <1>0, <2>1, <2>2, <2>3, <2>4, <2>5
  <2> QED
    BY <2>6 DEF OutputInOrder, InOrder
<1>4. CASE ChildReads
  BY <1>4 DEF ChildReads, OutputInOrder, spVars, world
<1>5. CASE ChildForks
  BY <1>5 DEF ChildForks, OutputInOrder, spVars, world
<1>6. CASE HeirExits
  BY <1>6 DEF HeirExits, OutputInOrder, spVars, world
<1>7. CASE ChildExits
  BY <1>7 DEF ChildExits, OutputInOrder, spVars, world
<1>8. ASSUME NEW o \in Outs, PauseOutput(o) PROVE OutputInOrder'
  BY <1>8 DEF PauseOutput, OutputInOrder, spVars, world
<1>9. ASSUME NEW o \in Outs, ResumeOutput(o) PROVE OutputInOrder'
  BY <1>9 DEF ResumeOutput, OutputInOrder, spVars, world
<1>10. ASSUME NEW o \in Outs, CloseOutput(o) PROVE OutputInOrder'
  BY <1>10 DEF CloseOutput, OutputInOrder, spVars, world
<1>11. CASE WriteStdin
  BY <1>11 DEF WriteStdin, OutputInOrder, spVars, world
<1>12. CASE CloseStdin
  BY <1>12 DEF CloseStdin, OutputInOrder, spVars, world
<1>13. CASE AbortStdin
  BY <1>13 DEF AbortStdin, OutputInOrder, spVars, world
<1>14. CASE Wait
  BY <1>14 DEF Wait, OutputInOrder, spVars, world
<1>15. CASE CancelWait
  BY <1>15 DEF CancelWait, OutputInOrder, spVars, world
<1>16. CASE CloseTransport
  BY <1>16 DEF CloseTransport, OutputInOrder, spVars, world
<1>17. CASE ThreadNotices
  BY <1>17 DEF ThreadNotices, OutputInOrder, spVars, world
<1>18. ASSUME NEW o \in Outs, ReadOutput(o) PROVE OutputInOrder'
  <2>1. /\ UNCHANGED <<output, owed>> /\ got' = [got EXCEPT ![o] = @ \o outPipe[o]]
        /\ outPipe' = [outPipe EXCEPT ![o] = <<>>]
    BY <1>18 DEF ReadOutput
  <2>2. InOrder(got[o] \o outPipe[o], <<>>, output[o])
    BY <1>0, InOrderRead
  <2>3. got'[o] = got[o] \o outPipe[o] /\ outPipe'[o] = <<>>
    BY <2>1 DEF SubprocessTypeOK
  <2>4. \A q \in Outs \ {o} : got'[q] = got[q] /\ outPipe'[q] = outPipe[q]
    BY <2>1 DEF SubprocessTypeOK
  <2>5. \A q \in Outs : owed'[q] <= output'[q] /\ InOrder(got'[q], outPipe'[q], output'[q])
    BY <1>0, <2>1, <2>2, <2>3, <2>4
  <2> QED
    BY <2>5 DEF OutputInOrder, InOrder
<1>19. ASSUME NEW o \in Outs, ReadNoOutput(o) PROVE OutputInOrder'
  BY <1>19 DEF ReadNoOutput, OutputInOrder, spVars, world
<1>20. ASSUME NEW n \in Nat \ {0}, StdinProgress(n) PROVE OutputInOrder'
  BY <1>20 DEF StdinProgress, OutputInOrder, spVars, world
<1>21. CASE StdinNoProgress
  BY <1>21 DEF StdinNoProgress, OutputInOrder, spVars, world
<1>22. ASSUME NEW cb, NEW gone, Notice(cb, gone), Handled(cb, gone) PROVE OutputInOrder'
  <2> DEFINE S == Outs
  <2>1. Drain(S) /\ UNCHANGED <<output, owed>>
    BY <1>22 DEF Handled, ExitHandled
  <2> HIDE DEF S
  <2>2. /\ \A q \in Outs \cap S : got'[q] = got[q] \o outPipe[q] /\ outPipe'[q] = <<>>
        /\ \A q \in Outs \ S : got'[q] = got[q] /\ outPipe'[q] = outPipe[q]
    BY <2>1, DrainIs
  <2>3. \A q \in Outs : InOrder(got[q] \o outPipe[q], <<>>, output[q])
    BY <1>0, InOrderRead
  <2>4. ASSUME NEW q \in Outs PROVE owed'[q] <= output'[q] /\ InOrder(got'[q], outPipe'[q], output'[q])
    <3>1. CASE q \in S
      BY <1>0, <2>1, <2>2, <2>3, <3>1
    <3>2. CASE q \notin S
      BY <1>0, <2>1, <2>2, <3>2
    <3> QED
      BY <3>1, <3>2
  <2> QED
    BY <2>4 DEF OutputInOrder, InOrder
<1>23. ASSUME NEW cb, NEW gone, NEW o \in Outs, Notice(cb, gone), CutShort(cb, gone, o) PROVE OutputInOrder'
  <2> DEFINE S == {q \in Outs : ~outT[q] /\ (q = o \/ o = "stderr")}
  <2>1. Drain(S) /\ UNCHANGED <<output, owed>>
    BY <1>23 DEF CutShort, ExitCutShort
  <2> HIDE DEF S
  <2>2. /\ \A q \in Outs \cap S : got'[q] = got[q] \o outPipe[q] /\ outPipe'[q] = <<>>
        /\ \A q \in Outs \ S : got'[q] = got[q] /\ outPipe'[q] = outPipe[q]
    BY <2>1, DrainIs
  <2>3. \A q \in Outs : InOrder(got[q] \o outPipe[q], <<>>, output[q])
    BY <1>0, InOrderRead
  <2>4. ASSUME NEW q \in Outs PROVE owed'[q] <= output'[q] /\ InOrder(got'[q], outPipe'[q], output'[q])
    <3>1. CASE q \in S
      BY <1>0, <2>1, <2>2, <2>3, <3>1
    <3>2. CASE q \notin S
      BY <1>0, <2>1, <2>2, <3>2
    <3> QED
      BY <3>1, <3>2
  <2> QED
    BY <2>4 DEF OutputInOrder, InOrder
<1>24. ASSUME NEW live, Poll(live), UNCHANGED spVars PROVE OutputInOrder'
  BY <1>24 DEF OutputInOrder, spVars, world
<1>25. CASE UNCHANGED <<fdLoopVars, spVars>>
  BY <1>25 DEF OutputInOrder, spVars, world
<1>26. \A n \in 1..MaxInput : n \in Nat \ {0}
  BY SubprocessAssumption DEF SubprocessAssumption
<1>27. ASSUME NEW cb, NEW gone, Notice(cb, gone), Runs(cb), ProcessExited(gone) PROVE OutputInOrder'
  BY <1>27, <1>22, <1>23 DEF ProcessExited, Handled, CutShort
<1>28. CASE OnPidfdReady \/ OnThreadExit
  BY <1>28, <1>27 DEF OnPidfdReady, OnThreadExit, PidfdGone, Notice
<1> QED
  BY <1>1, <1>2, <1>3, <1>4, <1>5, <1>6, <1>7, <1>8, <1>9, <1>10,
     <1>11, <1>12, <1>13, <1>14, <1>15, <1>16, <1>17, <1>18, <1>19, <1>20, <1>21,
     <1>24, <1>25, <1>26, <1>28
  DEF SubprocessNext, SubprocessLoop

\* Every step keeps the watches of the output pipes, and leaves them empty and
\* closed after process_exited.
LEMMA OutputDoneStep ==
    ASSUME SubprocessTypeOK, OutputDone, ExitOnce, [SubprocessNext]_<<fdLoopVars, spVars>>
    PROVE  OutputDone'
<1>1. ASSUME NEW via \in {"pidfd", "thread"}, Start(via) PROVE OutputDone'
  <2>1. sp'.exits = sp.exits /\ sp.exits = 0 /\ \A q \in Outs : ~outT[q]
    BY <1>1, TransportIs DEF Start, OutputDone, ExitOnce
  <2>2. UNCHANGED <<outT, outPipe>>
    BY <1>1 DEF Start
  <2>3. ~(sp'.exits > 0)
    BY <2>1
  <2> QED
    BY <2>1, <2>2, <2>3 DEF OutputDone
<1>2. ASSUME NEW o \in Outs, ChildWrites(o) PROVE OutputDone'
  <2>1. /\ ~outT[o] /\ UNCHANGED <<watched, child, sp, outT>>
        /\ \A q \in Outs \ {o} : outPipe'[q] = outPipe[q]
    BY <1>2 DEF ChildWrites, WritesOutput, SubprocessTypeOK, fdLoopVars
  <2> QED
    BY <2>1 DEF OutputDone
<1>3. ASSUME NEW o \in Outs, HeirWrites(o) PROVE OutputDone'
  <2>1. /\ ~outT[o] /\ UNCHANGED <<watched, child, sp, outT>>
        /\ \A q \in Outs \ {o} : outPipe'[q] = outPipe[q]
    BY <1>3 DEF HeirWrites, WritesOutput, SubprocessTypeOK, fdLoopVars
  <2> QED
    BY <2>1 DEF OutputDone
<1>4. CASE ChildReads
  BY <1>4, OutsApart DEF ChildReads, OutputDone, fdLoopVars, spVars, world
<1>5. CASE ChildForks
  BY <1>5, OutsApart DEF ChildForks, OutputDone, fdLoopVars, spVars, world
<1>6. CASE HeirExits
  BY <1>6, OutsApart DEF HeirExits, OutputDone, fdLoopVars, spVars, world
<1>7. CASE ChildExits
  BY <1>7, OutsApart DEF ChildExits, OutputDone, fdLoopVars, spVars, world
<1>8. ASSUME NEW o \in Outs, PauseOutput(o) PROVE OutputDone'
  BY <1>8, OutsApart DEF PauseOutput, OutputDone, fdLoopVars, spVars, world
<1>9. ASSUME NEW o \in Outs, ResumeOutput(o) PROVE OutputDone'
  BY <1>9, OutsApart DEF ResumeOutput, OutputDone, fdLoopVars, spVars, world
<1>10. ASSUME NEW o \in Outs, CloseOutput(o) PROVE OutputDone'
  <2>1. /\ outT'[o] /\ \A q \in Outs \ {o} : outT'[q] = outT[q]
        /\ watched' = watched \ {o} /\ child # "none" /\ UNCHANGED <<child, sp, outPipe>>
    BY <1>10 DEF CloseOutput, SubprocessTypeOK, world
  <2> QED
    BY <2>1 DEF OutputDone
<1>11. CASE WriteStdin
  BY <1>11, OutsApart DEF WriteStdin, OutputDone, fdLoopVars, spVars, world
<1>12. CASE CloseStdin
  BY <1>12, OutsApart DEF CloseStdin, OutputDone, fdLoopVars, spVars, world
<1>13. CASE AbortStdin
  BY <1>13, OutsApart DEF AbortStdin, OutputDone, fdLoopVars, spVars, world
<1>14. CASE Wait
  <2>1. sp'.exits = sp.exits /\ UNCHANGED <<watched, child, outPipe, outT>>
    BY <1>14, TransportIs DEF Wait, fdLoopVars, world
  <2> QED
    BY <2>1 DEF OutputDone
<1>15. CASE CancelWait
  <2>1. sp'.exits = sp.exits /\ UNCHANGED <<watched, child, outPipe, outT>>
    BY <1>15, TransportIs DEF CancelWait, fdLoopVars, world
  <2> QED
    BY <2>1 DEF OutputDone
<1>16. CASE CloseTransport
  <2>1. sp'.exits = sp.exits /\ UNCHANGED <<child, outPipe>> /\ child # "none"
    BY <1>16, TransportIs DEF CloseTransport, world
  <2>2. \A q \in Outs : outT'[q] = TRUE /\ q \notin watched'
    BY <1>16 DEF CloseTransport
  <2> QED
    BY <2>1, <2>2 DEF OutputDone
<1>17. CASE ThreadNotices
  <2>1. sp'.exits = sp.exits /\ UNCHANGED <<watched, child, outPipe, outT>>
    BY <1>17, TransportIs DEF ThreadNotices, fdLoopVars, world
  <2> QED
    BY <2>1 DEF OutputDone
<1>18. ASSUME NEW o \in Outs, ReadOutput(o) PROVE OutputDone'
  <2>1. /\ ~outT[o] /\ UNCHANGED <<watched, child, sp, outT>>
        /\ \A q \in Outs \ {o} : outPipe'[q] = outPipe[q]
    BY <1>18 DEF ReadOutput, HasData, SubprocessTypeOK
  <2> QED
    BY <2>1 DEF OutputDone
<1>19. ASSUME NEW o \in Outs, ReadNoOutput(o) PROVE OutputDone'
  BY <1>19, OutsApart DEF ReadNoOutput, OutputDone, fdLoopVars, spVars, world
<1>20. ASSUME NEW n \in Nat \ {0}, StdinProgress(n) PROVE OutputDone'
  BY <1>20, OutsApart DEF StdinProgress, OutputDone, fdLoopVars, spVars, world
<1>21. CASE StdinNoProgress
  BY <1>21, OutsApart DEF StdinNoProgress, OutputDone, fdLoopVars, spVars, world
<1>22. ASSUME NEW cb, NEW gone, Notice(cb, gone), Handled(cb, gone) PROVE OutputDone'
  <2>1. /\ \A q \in Outs : outPipe'[q] = <<>>
    BY <1>22, DrainIs DEF Handled, ExitHandled
  <2>2. /\ \A q \in Outs : outT'[q] = TRUE /\ q \notin watched'
        /\ child' = child
    BY <1>22 DEF Handled, ExitHandled, ClosedByExit
  <2>3. child # "none"
    <3>1. ready # <<>>
      BY <1>22 DEF Handled, Runs
    <3> QED
      BY <3>1 DEF ExitOnce
  <2> QED
    BY <2>1, <2>2, <2>3 DEF OutputDone
<1>23. ASSUME NEW cb, NEW gone, NEW o \in Outs, Notice(cb, gone), CutShort(cb, gone, o) PROVE OutputDone'
  <2> DEFINE S == {q \in Outs : ~outT[q] /\ (q = o \/ o = "stderr")}
  <2>1. /\ UNCHANGED <<outT, child>> /\ watched' \subseteq watched
        /\ Drain(S)
    BY <1>23 DEF CutShort, ExitCutShort
  <2>2. \A q \in Outs : outT[q] => outPipe'[q] = outPipe[q]
    <3>1. \A q \in Outs : outT[q] => q \in Outs \ S
      OBVIOUS
    <3> HIDE DEF S
    <3> QED
      BY <2>1, <3>1, DrainIs
  <2>3. sp'.exits = sp.exits
    BY <1>23, ExitIs DEF CutShort
  <2> QED
    BY <2>1, <2>2, <2>3 DEF OutputDone
<1>24. ASSUME NEW live, Poll(live), UNCHANGED spVars PROVE OutputDone'
  BY <1>24 DEF Poll, OutputDone, spVars, world
<1>25. CASE UNCHANGED <<fdLoopVars, spVars>>
  BY <1>25 DEF OutputDone, fdLoopVars, spVars, world
<1>26. \A n \in 1..MaxInput : n \in Nat \ {0}
  BY SubprocessAssumption DEF SubprocessAssumption
<1>27. ASSUME NEW cb, NEW gone, Notice(cb, gone), Runs(cb), ProcessExited(gone) PROVE OutputDone'
  BY <1>27, <1>22, <1>23 DEF ProcessExited, Handled, CutShort
<1>28. CASE OnPidfdReady \/ OnThreadExit
  BY <1>28, <1>27 DEF OnPidfdReady, OnThreadExit, PidfdGone, Notice
<1> QED
  BY <1>1, <1>2, <1>3, <1>4, <1>5, <1>6, <1>7, <1>8, <1>9, <1>10,
     <1>11, <1>12, <1>13, <1>14, <1>15, <1>16, <1>17, <1>18, <1>19, <1>20, <1>21,
     <1>24, <1>25, <1>26, <1>28
  DEF SubprocessNext, SubprocessLoop

----------------------------------------------------------------------------
(***************************************************************************)
(* The exit.                                                               *)
(***************************************************************************)
\* A callback that ran leaves the rest of the queue as it was; an exit callback
\* leaves no other behind.
LEMMA QueueShift ==
    ASSUME SubprocessTypeOK, QueuedOnce(ready, sp), NEW cb, Runs(cb), Return
    PROVE  /\ QueuedOnce(ready', sp)
           /\ cb \in {"pidfd", "exited"} =>
                 \A i \in DOMAIN ready' : ready'[i] \notin {"pidfd", "exited"}
<1>1. /\ ready[1] = cb /\ 1 \in DOMAIN ready
      /\ \A i \in DOMAIN ready' : i + 1 \in DOMAIN ready /\ ready'[i] = ready[i + 1]
      /\ \A i, j \in DOMAIN ready' : i + 1 = j + 1 => i = j
      /\ \A i \in DOMAIN ready' : i + 1 # 1
  BY ReturnShifts
<1>2. ASSUME NEW i \in DOMAIN ready', ready'[i] \in {"pidfd", "exited"},
             NEW j \in DOMAIN ready', ready'[j] \in {"pidfd", "exited"}
      PROVE  i = j
  <2>1. i + 1 = j + 1
    BY <1>1, <1>2 DEF QueuedOnce
  <2> QED
    BY <1>1, <2>1
<1>3. ASSUME cb \in {"pidfd", "exited"}, NEW i \in DOMAIN ready', ready'[i] \in {"pidfd", "exited"}
      PROVE  FALSE
  <2>1. i + 1 = 1
    BY <1>1, <1>3 DEF QueuedOnce
  <2> QED
    BY <1>1, <2>1
<1>4. ASSUME NEW i \in DOMAIN ready', ready'[i] \in {"pidfd", "exited"}
      PROVE  /\ sp.exits = 0 /\ (ready'[i] = "pidfd" => sp.via # "thread")
             /\ (ready'[i] = "exited" => sp.via = "none")
  BY <1>1, <1>4 DEF QueuedOnce
<1> QED
  BY <1>2, <1>3, <1>4 DEF QueuedOnce

\* Every step keeps the exit in one place.
LEMMA ExitStep ==
    ASSUME SubprocessTypeOK, ExitOnce, [SubprocessNext]_<<fdLoopVars, spVars>>
    PROVE  ExitOnce'
<1>1. ASSUME NEW via \in {"pidfd", "thread"}, Start(via) PROVE ExitOnce'
  <2>1. /\ sp.via = "none" /\ sp.exits = 0 /\ ready = <<>> /\ ready' = ready
        /\ child' # "none" /\ "pidfd" \notin watched
    BY <1>1 DEF Start, ExitOnce
  <2>2. sp'.via = via /\ sp'.exits = 0
    BY <1>1, <2>1, TransportIs
  <2>3. "pidfd" \in watched' => via = "pidfd"
    BY <1>1, <2>1, OutsApart DEF Start, ExitWatch
  <2>4. QueuedOnce(ready', sp')
    BY <2>1 DEF QueuedOnce
  <2> QED
    BY <2>1, <2>2, <2>3, <2>4 DEF ExitOnce
<1>2. ASSUME NEW o \in Outs, ChildWrites(o) PROVE ExitOnce'
  <2>1. /\ UNCHANGED <<ready, sp>>
        /\ child' = "none" => child = "none" /\ (watched = {} => watched' = {})
        /\ "pidfd" \in watched' => "pidfd" \in watched
    BY <1>2, OutsApart DEF ChildWrites, fdLoopVars, spVars, world
  <2> QED
    BY <2>1 DEF ExitOnce
<1>3. ASSUME NEW o \in Outs, HeirWrites(o) PROVE ExitOnce'
  <2>1. /\ UNCHANGED <<ready, sp>>
        /\ child' = "none" => child = "none" /\ (watched = {} => watched' = {})
        /\ "pidfd" \in watched' => "pidfd" \in watched
    BY <1>3, OutsApart DEF HeirWrites, fdLoopVars, spVars, world
  <2> QED
    BY <2>1 DEF ExitOnce
<1>4. CASE ChildReads
  <2>1. /\ UNCHANGED <<ready, sp>>
        /\ child' = "none" => child = "none" /\ (watched = {} => watched' = {})
        /\ "pidfd" \in watched' => "pidfd" \in watched
    BY <1>4, OutsApart DEF ChildReads, fdLoopVars, spVars, world
  <2> QED
    BY <2>1 DEF ExitOnce
<1>5. CASE ChildForks
  <2>1. /\ UNCHANGED <<ready, sp>>
        /\ child' = "none" => child = "none" /\ (watched = {} => watched' = {})
        /\ "pidfd" \in watched' => "pidfd" \in watched
    BY <1>5, OutsApart DEF ChildForks, fdLoopVars, spVars, world
  <2> QED
    BY <2>1 DEF ExitOnce
<1>6. CASE HeirExits
  <2>1. /\ UNCHANGED <<ready, sp>>
        /\ child' = "none" => child = "none" /\ (watched = {} => watched' = {})
        /\ "pidfd" \in watched' => "pidfd" \in watched
    BY <1>6, OutsApart DEF HeirExits, fdLoopVars, spVars, world
  <2> QED
    BY <2>1 DEF ExitOnce
<1>7. CASE ChildExits
  <2>1. /\ UNCHANGED <<ready, sp>>
        /\ child' = "none" => child = "none" /\ (watched = {} => watched' = {})
        /\ "pidfd" \in watched' => "pidfd" \in watched
    BY <1>7, OutsApart DEF ChildExits, fdLoopVars, spVars, world
  <2> QED
    BY <2>1 DEF ExitOnce
<1>8. ASSUME NEW o \in Outs, PauseOutput(o) PROVE ExitOnce'
  <2>1. /\ UNCHANGED <<ready, sp>>
        /\ child' = "none" => child = "none" /\ (watched = {} => watched' = {})
        /\ "pidfd" \in watched' => "pidfd" \in watched
    BY <1>8, OutsApart DEF PauseOutput, fdLoopVars, spVars, world
  <2> QED
    BY <2>1 DEF ExitOnce
<1>9. ASSUME NEW o \in Outs, ResumeOutput(o) PROVE ExitOnce'
  <2>1. /\ UNCHANGED <<ready, sp>>
        /\ child' = "none" => child = "none" /\ (watched = {} => watched' = {})
        /\ "pidfd" \in watched' => "pidfd" \in watched
    BY <1>9, OutsApart DEF ResumeOutput, fdLoopVars, spVars, world
  <2> QED
    BY <2>1 DEF ExitOnce
<1>10. ASSUME NEW o \in Outs, CloseOutput(o) PROVE ExitOnce'
  <2>1. /\ UNCHANGED <<ready, sp>>
        /\ child' = "none" => child = "none" /\ (watched = {} => watched' = {})
        /\ "pidfd" \in watched' => "pidfd" \in watched
    BY <1>10, OutsApart DEF CloseOutput, fdLoopVars, spVars, world
  <2> QED
    BY <2>1 DEF ExitOnce
<1>11. CASE WriteStdin
  <2>1. /\ UNCHANGED <<ready, sp>>
        /\ child' = "none" => child = "none" /\ (watched = {} => watched' = {})
        /\ "pidfd" \in watched' => "pidfd" \in watched
    BY <1>11, OutsApart DEF WriteStdin, fdLoopVars, spVars, world
  <2> QED
    BY <2>1 DEF ExitOnce
<1>12. CASE CloseStdin
  <2>1. /\ UNCHANGED <<ready, sp>>
        /\ child' = "none" => child = "none" /\ (watched = {} => watched' = {})
        /\ "pidfd" \in watched' => "pidfd" \in watched
    BY <1>12, OutsApart DEF CloseStdin, fdLoopVars, spVars, world
  <2> QED
    BY <2>1 DEF ExitOnce
<1>13. CASE AbortStdin
  <2>1. /\ UNCHANGED <<ready, sp>>
        /\ child' = "none" => child = "none" /\ (watched = {} => watched' = {})
        /\ "pidfd" \in watched' => "pidfd" \in watched
    BY <1>13, OutsApart DEF AbortStdin, fdLoopVars, spVars, world
  <2> QED
    BY <2>1 DEF ExitOnce
<1>14. CASE Wait
  <2>1. /\ sp'.via = sp.via /\ sp'.exits = sp.exits /\ sp'.rc = sp.rc
        /\ sp.rc => sp'.waiter # "pending"
        /\ UNCHANGED <<ready, watched, child>>
    BY <1>14, TransportIs DEF Wait, fdLoopVars, world
  <2>2. QueuedOnce(ready', sp')
    BY <2>1 DEF ExitOnce, QueuedOnce
  <2> QED
    BY <2>1, <2>2 DEF ExitOnce
<1>15. CASE CancelWait
  <2>1. /\ sp'.via = sp.via /\ sp'.exits = sp.exits /\ sp'.rc = sp.rc
        /\ sp.rc => sp'.waiter # "pending"
        /\ UNCHANGED <<ready, watched, child>>
    BY <1>15, TransportIs DEF CancelWait, fdLoopVars, world
  <2>2. QueuedOnce(ready', sp')
    BY <2>1 DEF ExitOnce, QueuedOnce
  <2> QED
    BY <2>1, <2>2 DEF ExitOnce
<1>16. CASE CloseTransport
  <2>1. /\ sp'.exits = sp.exits /\ sp'.rc = sp.rc /\ sp'.waiter = sp.waiter
        /\ sp'.via = IF sp.via = "pidfd" THEN "none" ELSE sp.via
        /\ UNCHANGED <<ready, child>> /\ "pidfd" \notin watched' /\ child # "none"
    BY <1>16, TransportIs DEF CloseTransport, world
  <2>2. QueuedOnce(ready', sp')
    BY <2>1 DEF ExitOnce, QueuedOnce
  <2> QED
    BY <2>1, <2>2 DEF ExitOnce
<1>17. CASE ThreadNotices
  <2>1. /\ sp'.via = "none" /\ sp'.exits = sp.exits /\ sp.via = "thread"
    BY <1>17, TransportIs
  <2>2. sp.exits = 0 /\ \A i \in DOMAIN ready : ready[i] \notin {"pidfd", "exited"}
    BY <2>1 DEF ExitOnce, QueuedOnce
  <2>3. /\ ready'[Len(ready) + 1] = "exited"
        /\ \A i \in DOMAIN ready' : i # Len(ready) + 1 => i \in DOMAIN ready /\ ready'[i] = ready[i]
    BY <1>17, CallSoonAppends DEF ThreadNotices, Callbacks
  <2>4. \A i \in DOMAIN ready' : ready'[i] \in {"pidfd", "exited"} => i = Len(ready) + 1
    BY <2>2, <2>3
  <2>5. QueuedOnce(ready', sp')
    BY <2>1, <2>2, <2>3, <2>4 DEF QueuedOnce
  <2>6. child' # "none" /\ "pidfd" \notin watched'
    BY <1>17, <2>1 DEF ThreadNotices, ExitOnce, world
  <2> QED
    BY <2>1, <2>2, <2>5, <2>6 DEF ExitOnce
<1>18. ASSUME NEW o \in Outs, ReadOutput(o) PROVE ExitOnce'
  <2>1. /\ UNCHANGED <<sp, child>> /\ ("pidfd" \in watched' => "pidfd" \in watched)
    BY <1>18 DEF ReadOutput, spVars, world
  <2>2. QueuedOnce(ready', sp) /\ ready # <<>>
    BY <1>18, QueueShift DEF ReadOutput, ExitOnce, Runs
  <2> QED
    BY <2>1, <2>2 DEF ExitOnce
<1>19. ASSUME NEW o \in Outs, ReadNoOutput(o) PROVE ExitOnce'
  <2>1. /\ UNCHANGED <<sp, child>> /\ ("pidfd" \in watched' => "pidfd" \in watched)
    BY <1>19 DEF ReadNoOutput, spVars, world
  <2>2. QueuedOnce(ready', sp) /\ ready # <<>>
    BY <1>19, QueueShift DEF ReadNoOutput, ExitOnce, Runs
  <2> QED
    BY <2>1, <2>2 DEF ExitOnce
<1>20. ASSUME NEW n \in Nat \ {0}, StdinProgress(n) PROVE ExitOnce'
  <2>1. /\ UNCHANGED <<sp, child>> /\ ("pidfd" \in watched' => "pidfd" \in watched)
    BY <1>20 DEF StdinProgress, spVars, world
  <2>2. QueuedOnce(ready', sp) /\ ready # <<>>
    BY <1>20, QueueShift DEF StdinProgress, ExitOnce, Runs
  <2> QED
    BY <2>1, <2>2 DEF ExitOnce
<1>21. CASE StdinNoProgress
  <2>1. /\ UNCHANGED <<sp, child>> /\ ("pidfd" \in watched' => "pidfd" \in watched)
    BY <1>21 DEF StdinNoProgress, spVars, world
  <2>2. QueuedOnce(ready', sp) /\ ready # <<>>
    BY <1>21, QueueShift DEF StdinNoProgress, ExitOnce, Runs
  <2> QED
    BY <2>1, <2>2 DEF ExitOnce
<1>22. ASSUME NEW cb, NEW gone, Notice(cb, gone), Handled(cb, gone) PROVE ExitOnce'
  <2>1. Runs(cb) /\ Return /\ cb \in {"pidfd", "exited"} /\ child' = child
    BY <1>22 DEF Handled, Notice
  <2>2. \A i \in DOMAIN ready' : ready'[i] \notin {"pidfd", "exited"}
    BY <2>1, QueueShift DEF ExitOnce
  <2>3. 1 \in DOMAIN ready /\ ready[1] = cb
    BY <2>1, ReturnShifts
  <2>4. sp.exits = 0 /\ (cb = "exited" => sp.via = "none")
    BY <2>1, <2>3 DEF ExitOnce, QueuedOnce
  <2>5. child # "none"
    BY <2>1 DEF ExitOnce, Runs
  <2>6. "pidfd" \notin watched'
    <3>1. watched' \subseteq watched \ gone
      BY <1>22 DEF Handled, ExitHandled, ClosedByExit
    <3> QED
      BY <1>22, <2>4, <3>1 DEF Notice, ExitOnce
  <2>7. sp'.via = "none" /\ sp'.rc /\ sp'.exits = 1 /\ sp'.waiter # "pending"
    BY <1>22, <2>4, ExitIs DEF Handled
  <2> QED
    BY <2>1, <2>2, <2>5, <2>6, <2>7 DEF ExitOnce, QueuedOnce
<1>23. ASSUME NEW cb, NEW gone, NEW o \in Outs, Notice(cb, gone), CutShort(cb, gone, o) PROVE ExitOnce'
  <2>1. Runs(cb) /\ Return /\ cb \in {"pidfd", "exited"} /\ child' = child
    BY <1>23 DEF CutShort, Notice
  <2>2. \A i \in DOMAIN ready' : ready'[i] \notin {"pidfd", "exited"}
    BY <2>1, QueueShift DEF ExitOnce
  <2>3. 1 \in DOMAIN ready /\ ready[1] = cb
    BY <2>1, ReturnShifts
  <2>4. sp.exits = 0 /\ (cb = "exited" => sp.via = "none")
    BY <2>1, <2>3 DEF ExitOnce, QueuedOnce
  <2>5. child # "none"
    BY <2>1 DEF ExitOnce, Runs
  <2>6. "pidfd" \notin watched'
    <3>1. watched' \subseteq watched \ gone
      BY <1>23 DEF CutShort, ExitCutShort
    <3> QED
      BY <1>23, <2>4, <3>1 DEF Notice, ExitOnce
  <2>7. sp'.via = "none" /\ sp'.rc /\ sp'.exits = 0
    BY <1>23, <2>4, ExitIs DEF CutShort
  <2> QED
    BY <2>1, <2>2, <2>5, <2>6, <2>7 DEF ExitOnce, QueuedOnce
<1>24. ASSUME NEW live, Poll(live), UNCHANGED spVars PROVE ExitOnce'
  <2>1. /\ ready' \in Seq(Callbacks) /\ watched' = watched /\ watched # {}
        /\ \A i \in DOMAIN ready' : ready'[i] \in watched
        /\ \A i, j \in DOMAIN ready' : ready'[i] = ready'[j] => i = j
    BY <1>24, PollQueuesWatched DEF SubprocessTypeOK
  <2>2. \A i \in DOMAIN ready' : ready'[i] # "exited"
    BY <2>1, OutsApart DEF SubprocessTypeOK, Watches
  <2>3. UNCHANGED <<sp, child>> /\ child # "none"
    BY <1>24, <2>1 DEF ExitOnce, spVars, world
  <2>4. QueuedOnce(ready', sp')
    BY <2>1, <2>2, <2>3 DEF QueuedOnce, ExitOnce
  <2> QED
    BY <2>1, <2>3, <2>4 DEF ExitOnce
<1>25. CASE UNCHANGED <<fdLoopVars, spVars>>
  BY <1>25 DEF ExitOnce, fdLoopVars, spVars, world
<1>26. \A n \in 1..MaxInput : n \in Nat \ {0}
  BY SubprocessAssumption DEF SubprocessAssumption
<1>27. ASSUME NEW cb, NEW gone, Notice(cb, gone), Runs(cb), ProcessExited(gone) PROVE ExitOnce'
  BY <1>27, <1>22, <1>23 DEF ProcessExited, Handled, CutShort
<1>28. CASE OnPidfdReady \/ OnThreadExit
  BY <1>28, <1>27 DEF OnPidfdReady, OnThreadExit, PidfdGone, Notice
<1> QED
  BY <1>1, <1>2, <1>3, <1>4, <1>5, <1>6, <1>7, <1>8, <1>9, <1>10,
     <1>11, <1>12, <1>13, <1>14, <1>15, <1>16, <1>17, <1>18, <1>19, <1>20, <1>21,
     <1>24, <1>25, <1>26, <1>28
  DEF SubprocessNext, SubprocessLoop

----------------------------------------------------------------------------
(***************************************************************************)
(* Theorems                                                                *)
(***************************************************************************)
\* The invariant holds at the start.
LEMMA SubprocessInitial == FdLoopInit /\ SubprocessInit => SubprocessInv
<1> SUFFICES ASSUME FdLoopInit, SubprocessInit PROVE SubprocessInv
  OBVIOUS
<1> USE DEF FdLoopInit, SubprocessInit
<1>1. SubprocessTypeOK
  BY DEF SubprocessTypeOK, NoProcess, NoStdin, Process, Stdin
<1>2. StdinLife
  BY DEF StdinLife, StdinClosesWhenFlushed, NoStdin
<1>3. OutputInOrder /\ OutputDone
  BY DEF OutputInOrder, OutputDone, NoProcess
<1>4. ExitOnce
  BY DEF ExitOnce, QueuedOnce, NoProcess
<1> QED
  BY <1>1, <1>2, <1>3, <1>4 DEF SubprocessInv

\* And every step keeps it.
LEMMA SubprocessInvStep ==
    SubprocessInv /\ [SubprocessNext]_<<fdLoopVars, spVars>> => SubprocessInv'
  BY SubprocessTypeStep, StdinStep, OutputStep, OutputDoneStep, ExitStep DEF SubprocessInv

\* Every reachable state of the transport and its child has the invariant.
LEMMA SubprocessInvariant == SubprocessSpec => []SubprocessInv
  BY SubprocessInitial, SubprocessInvStep, PTL DEF SubprocessSpec

\* When _process_exited calls process_exited, every unit the child wrote was
\* given to pipe_data_received, in order and once.
THEOREM OutputBeforeExitCorrect == SubprocessSpec => []OutputBeforeExit
<1>1. ASSUME SubprocessInv PROVE OutputBeforeExit
  <2> SUFFICES ASSUME sp.exits > 0, NEW o \in Outs
               PROVE  Len(got[o]) >= owed[o] /\ \A i \in DOMAIN got[o] : got[o][i] = i
    BY DEF OutputBeforeExit
  <2>1. outPipe[o] = <<>>
    BY <1>1 DEF SubprocessInv, OutputDone
  <2>2. /\ owed[o] <= output[o] /\ Len(got[o]) + Len(outPipe[o]) = output[o]
        /\ \A i \in DOMAIN got[o] : got[o][i] = i
    BY <1>1 DEF SubprocessInv, OutputInOrder
  <2>3. got[o] \in Seq(Nat) /\ owed[o] \in Nat /\ output[o] \in Nat
    BY <1>1 DEF SubprocessInv, SubprocessTypeOK
  <2>4. Len(outPipe[o]) = 0 /\ Len(got[o]) \in Nat
    BY <2>1, <2>3
  <2> QED
    BY <2>2, <2>3, <2>4
<1>2. SubprocessInv => OutputBeforeExit
  BY <1>1
<1> QED
  BY <1>2, SubprocessInvariant, PTL

\* process_exited is called once, whether the exit came by the pidfd or by the
\* thread and wherever close() falls; no output follows it, and nobody is left
\* in _wait.
THEOREM ExitIsFinalCorrect == SubprocessSpec => ExitIsFinal
<1>1. ASSUME SubprocessInv, SubprocessInv', [SubprocessNext]_<<fdLoopVars, spVars>>
      PROVE  /\ sp'.exits <= 1
             /\ sp.exits = 1 => got' = got
             /\ sp'.exits = 1 => sp'.waiter # "pending"
  <2>1. sp'.exits <= 1 /\ (sp'.exits = 1 => sp'.waiter # "pending")
    BY <1>1 DEF SubprocessInv, ExitOnce
  <2>2. ASSUME sp.exits = 1, got' # got PROVE FALSE
    <3>1. \A o \in Outs : outT[o]
      <4>1. sp.exits > 0
        BY <2>2
      <4> QED
        BY <1>1, <4>1 DEF SubprocessInv, OutputDone
    <3>2. ASSUME NEW cb \in {"pidfd", "exited"}, Runs(cb), Return PROVE FALSE
      <4>1. 1 \in DOMAIN ready /\ ready[1] = cb
        BY <1>1, <3>2, ReturnShifts DEF SubprocessInv
      <4>2. sp.exits = 0
        BY <1>1, <4>1 DEF SubprocessInv, ExitOnce, QueuedOnce
      <4> QED
        BY <2>2, <4>2
    <3>3. \/ \E o \in Outs : ReadOutput(o)
          \/ OnPidfdReady \/ OnThreadExit
      BY <1>1, <2>2
      DEF SubprocessNext, SubprocessLoop, Start, ChildWrites, HeirWrites, ChildReads, ChildForks,
          HeirExits, ChildExits, PauseOutput, ResumeOutput, CloseOutput, WriteStdin, CloseStdin,
          AbortStdin, Wait, CancelWait, CloseTransport, ThreadNotices, ReadNoOutput,
          StdinProgress, StdinNoProgress, spVars, world
    <3>4. CASE \E o \in Outs : ReadOutput(o)
      BY <3>1, <3>4 DEF ReadOutput, HasData
    <3>5. CASE OnPidfdReady \/ OnThreadExit
      BY <3>2, <3>5 DEF OnPidfdReady, OnThreadExit, ProcessExited
    <3> QED
      BY <3>3, <3>4, <3>5
  <2> QED
    BY <2>1, <2>2
<1>2. SubprocessInv /\ SubprocessInv' /\ [SubprocessNext]_<<fdLoopVars, spVars>> =>
        [/\ sp'.exits <= 1
         /\ sp.exits = 1 => got' = got
         /\ sp'.exits = 1 => sp'.waiter # "pending"]_<<sp, got>>
  BY <1>1
<1> QED
  BY <1>2, SubprocessInvariant, PTL DEF SubprocessSpec, ExitIsFinal

\* The loop watches no descriptor that the transport, one of its pipes or
\* _process_exited has closed.
THEOREM SubprocessWatchesLiveCorrect == SubprocessSpec => []SubprocessWatchesLive
<1>1. SubprocessInv => SubprocessWatchesLive
  BY DEF SubprocessInv, StdinLife, OutputDone, ExitOnce, SubprocessWatchesLive
<1> QED
  BY <1>1, SubprocessInvariant, PTL

\* A closing stdin with nothing buffered is closed.
THEOREM StdinClosesCorrect == SubprocessSpec => []StdinClosesWhenFlushed
<1>1. SubprocessInv => StdinClosesWhenFlushed
  BY DEF SubprocessInv, StdinLife
<1> QED
  BY <1>1, SubprocessInvariant, PTL
=============================================================================
