---------------------------- MODULE PipesProofs ----------------------------
(***************************************************************************)
(* Theorems about Pipes, for every capacity, all high-water and low-water  *)
(* marks, and any number of writes.                                        *)
(***************************************************************************)
EXTENDS Pipes, FiniteSetTheorems, TLAPS

Watches == {"read", "write"}
Callbacks == {"read", "write", "readMade", "writeMade"}
Reader == [on : BOOLEAN, made : BOOLEAN, open : BOOLEAN, closing : BOOLEAN,
           paused : BOOLEAN, ended : Nat, error : BOOLEAN]
Writer == [on : BOOLEAN, made : BOOLEAN, open : BOOLEAN, closing : BOOLEAN,
           paused : BOOLEAN, ended : Nat, error : BOOLEAN, buffer : Seq(Nat),
           stale : BOOLEAN, dead : BOOLEAN]

PipeTypeOK ==
    /\ watched \subseteq Watches /\ ready \in Seq(Callbacks)
    /\ rt \in Reader /\ wt \in Writer
    /\ pipe \in Seq(Nat) /\ delivered \in Seq(Nat)
    /\ written \in Nat /\ other \in BOOLEAN
    /\ limits \in [high : Nat, low : Nat, zero : BOOLEAN]
    /\ limits.low = 0 => limits.zero

\* A callback for the read end is around only after connect_read_pipe, and
\* close() and the flag _closing go together
ReaderLife ==
    /\ ~rt.on => ~rt.closing /\ ~rt.paused /\ rt.ended = 0
    /\ rt.on => (rt.open <=> ~rt.closing)
    /\ "read" \in watched \/ (\E i \in DOMAIN ready : ready[i] = "read") => rt.on

\* What is buffered has an open pipe to go to, and an open pipe was not ended
\* and not closed when the transport was made
WriterLife ==
    /\ ~wt.on => ~wt.closing /\ wt.ended = 0 /\ wt.buffer = <<>> /\ ~wt.dead
    /\ wt.dead => ~wt.open
    /\ wt.on /\ ~wt.closing => wt.open
    /\ wt.buffer # <<>> => wt.open
    /\ wt.open => wt.ended = 0

\* connection_made of the reader is queued ahead of every _read_ready
MadeFirst ==
    rt.on /\ ~rt.made =>
        \E k \in DOMAIN ready :
            /\ ready[k] = "readMade"
            /\ \A j \in DOMAIN ready : ready[j] = "read" => k < j

Ends == PipeEndedOnce /\ PipeWatchesLive /\ PausedHasBacklog

PipeInv == PipeTypeOK /\ ReaderLife /\ WriterLife /\ MadeFirst /\ Ends

----------------------------------------------------------------------------
\* epoll queues callbacks of watched descriptors only.
LEMMA PollQueuesWatched ==
    ASSUME NEW live, Poll(live), watched \subseteq Watches
    PROVE  /\ ready' \in Seq(Callbacks) /\ watched' = watched /\ ready = <<>>
           /\ \A i \in DOMAIN ready' : ready'[i] \in watched
<1> DEFINE found == watched \cap live
<1>1. Cardinality(found) \in Nat
  <2>1. IsFiniteSet(Watches)
    <3>1. IsFiniteSet({"read"}) /\ IsFiniteSet({"write"})
      BY FS_Singleton
    <3>2. Watches = {"read"} \cup {"write"}
      BY DEF Watches
    <3> QED
      BY <3>1, <3>2, FS_Union
  <2>2. found \subseteq Watches
    OBVIOUS
  <2> QED
    BY <2>1, <2>2, FS_Subset, FS_CardinalityType
<1>2. PICK s \in [1..Cardinality(found) -> found] : ready' = s
  BY DEF Poll
<1>3. found \subseteq Callbacks /\ found \subseteq watched
  BY DEF Watches, Callbacks
<1> HIDE DEF found
<1>4. s \in Seq(Callbacks) /\ \A i \in DOMAIN s : s[i] \in watched
  BY <1>1, <1>2, <1>3
<1> QED
  BY <1>2, <1>4 DEF Poll

\* What is left of the queue after its first callback ran.
LEMMA ReturnShifts ==
    ASSUME PipeTypeOK, NEW cb, Runs(cb), Return
    PROVE  /\ ready' \in Seq(Callbacks)
           /\ cb = ready[1] /\ 1 \in DOMAIN ready
           /\ \A i \in DOMAIN ready' : i + 1 \in DOMAIN ready /\ ready'[i] = ready[i + 1]
           /\ \A i \in DOMAIN ready : i # 1 => i - 1 \in DOMAIN ready' /\ ready'[i - 1] = ready[i]
  BY DEF PipeTypeOK, Runs, Return

\* A callback is queued behind all others.
LEMMA CallSoonAppends ==
    ASSUME PipeTypeOK, NEW cb \in Callbacks, CallSoon(cb)
    PROVE  /\ ready' \in Seq(Callbacks)
           /\ Len(ready) + 1 \in DOMAIN ready' /\ ready'[Len(ready) + 1] = cb
           /\ \A i \in DOMAIN ready : i \in DOMAIN ready' /\ ready'[i] = ready[i]
           /\ \A i \in DOMAIN ready' : i # Len(ready) + 1 => i \in DOMAIN ready
  BY DEF PipeTypeOK, CallSoon

----------------------------------------------------------------------------
(***************************************************************************)
(* What the operations do to the two transport objects.                    *)
(***************************************************************************)
\* close() of the reader
LEMMA ClosedReaderIs ==
    ASSUME NEW t \in Reader
    PROVE  /\ ClosedReader(t) \in Reader
           /\ ClosedReader(t).on = t.on /\ ClosedReader(t).made = t.made
           /\ ClosedReader(t).paused = t.paused
           /\ ClosedReader(t).closing /\ ~ClosedReader(t).open
           /\ ClosedReader(t).ended = t.ended + 1
<1> DEFINE e == t.ended + 1
<1>1. e \in Nat /\ e = t.ended + 1
  BY DEF Reader
<1>2. ClosedReader(t) = [t EXCEPT !.closing = TRUE, !.open = FALSE, !.ended = e]
  BY DEF ClosedReader
<1> HIDE DEF e
<1>3. ClosedReader(t) \in Reader
  BY <1>1, <1>2 DEF Reader
<1> QED
  BY <1>1, <1>2, <1>3 DEF Reader

\* connection_lost(None) of the writer
LEMMA EndedIs ==
    ASSUME NEW t \in Writer
    PROVE  /\ Ended(t) \in Writer
           /\ Ended(t).on = t.on /\ Ended(t).closing = t.closing
           /\ Ended(t).paused = t.paused /\ Ended(t).stale = t.stale /\ Ended(t).dead = t.dead
           /\ Ended(t).buffer = t.buffer
           /\ ~Ended(t).open /\ Ended(t).ended = t.ended + 1
<1> DEFINE e == t.ended + 1
<1>1. e \in Nat /\ e = t.ended + 1
  BY DEF Writer
<1>2. Ended(t) = [t EXCEPT !.open = FALSE, !.ended = e]
  BY DEF Ended
<1> HIDE DEF e
<1>3. Ended(t) \in Writer
  BY <1>1, <1>2 DEF Writer
<1> QED
  BY <1>1, <1>2, <1>3 DEF Writer

\* _read_ready that brings nothing
LEMMA ReadNothingIs ==
    ASSUME PipeTypeOK, ReadNothing
    PROVE  /\ rt' \in Reader /\ rt'.on = rt.on /\ rt'.made = rt.made /\ rt'.paused = rt.paused
           /\ \/ UNCHANGED <<watched, rt>>
              \/ watched' = watched \ {"read"}
           /\ \/ rt'.open = rt.open /\ rt'.closing = rt.closing /\ rt'.ended = rt.ended
              \/ /\ ~rt.closing /\ watched' = watched \ {"read"}
                 /\ rt'.closing /\ ~rt'.open /\ rt'.ended = rt.ended + 1
<1>1. rt \in Reader
  BY DEF PipeTypeOK
<1>2. CASE rt' = rt
  BY <1>1, <1>2 DEF ReadNothing
<1>3. CASE rt' = ClosedReader(rt) /\ ~IgnoresReadiness /\ watched' = watched \ {"read"}
  BY <1>1, <1>3, ClosedReaderIs DEF IgnoresReadiness
<1>4. CASE rt' = [rt EXCEPT !.error = TRUE] /\ watched' = watched \ {"read"}
  BY <1>1, <1>4 DEF Reader
<1> QED
  BY <1>2, <1>3, <1>4 DEF ReadNothing

\* What stands where in two sequences put together.
LEMMA TwoParts ==
    ASSUME NEW s \in Seq(Nat), NEW t \in Seq(Nat)
    PROVE  /\ s \o t \in Seq(Nat) /\ Len(s \o t) = Len(s) + Len(t)
           /\ \A i \in 1..Len(s) : (s \o t)[i] = s[i]
           /\ \A i \in 1..Len(t) : (s \o t)[Len(s) + i] = t[i]
  OBVIOUS

\* The buffer after n units were written
LEMMA RestIs ==
    ASSUME PipeTypeOK, NEW n \in 1..Len(wt.buffer)
    PROVE  /\ Rest(n) \in Seq(Nat) /\ Len(Rest(n)) = Len(wt.buffer) - n
           /\ SubSeq(wt.buffer, 1, n) \in Seq(Nat)
           /\ Len(SubSeq(wt.buffer, 1, n)) = n
           /\ \A i \in 1..n : SubSeq(wt.buffer, 1, n)[i] = wt.buffer[i]
           /\ \A i \in 1..Len(Rest(n)) : Rest(n)[i] = wt.buffer[n + i]
<1>1. wt.buffer \in Seq(Nat)
  BY DEF PipeTypeOK, Writer
<1> QED
  BY <1>1, SMTT(60) DEF Rest

\* write()
LEMMA WriteIs ==
    ASSUME PipeTypeOK, Write
    PROVE  /\ wt' \in Writer /\ wt'.buffer = Append(wt.buffer, written + 1)
           /\ wt'.on = wt.on /\ wt'.closing = wt.closing /\ wt'.open = wt.open
           /\ wt'.ended = wt.ended /\ wt'.stale = wt.stale /\ wt'.dead = wt.dead
<1>1. wt.buffer \in Seq(Nat) /\ Append(wt.buffer, written + 1) \in Seq(Nat)
  BY DEF PipeTypeOK, Writer
<1> QED
  BY <1>1 DEF PipeTypeOK, Writer, Write

\* close() of the writer
LEMMA CloseWriteIs ==
    ASSUME PipeTypeOK, CloseWrite
    PROVE  /\ wt' \in Writer /\ wt'.buffer = wt.buffer
           /\ wt'.on = wt.on /\ wt'.closing /\ wt'.paused = wt.paused /\ wt'.stale = wt.stale
           /\ wt'.dead = wt.dead
           /\ wt.buffer # <<>> => wt'.open = wt.open /\ wt'.ended = wt.ended
           /\ wt.buffer = <<>> => ~wt'.open /\ wt'.ended = wt.ended + 1
<1> DEFINE t == [wt EXCEPT !.closing = TRUE]
<1>1. /\ t \in Writer /\ t.buffer = wt.buffer /\ t.on = wt.on /\ t.closing
      /\ t.paused = wt.paused /\ t.stale = wt.stale /\ t.open = wt.open /\ t.ended = wt.ended
      /\ t.dead = wt.dead
  BY DEF PipeTypeOK, Writer
<1>2. wt' = IF t.buffer = <<>> /\ t.closing THEN Ended(t) ELSE t
  BY DEF CloseWrite, ClosesWhenFlushed
<1> HIDE DEF t
<1> QED
  BY <1>1, <1>2, EndedIs

\* abort()
LEMMA AbortIs ==
    ASSUME PipeTypeOK, Abort
    PROVE  /\ wt' \in Writer /\ wt'.buffer = <<>> /\ wt'.on = wt.on /\ wt'.closing
           /\ wt'.paused = wt.paused /\ wt'.stale = wt.stale /\ wt'.dead = wt.dead
           /\ ~wt'.open /\ wt'.ended = wt.ended + 1
<1> DEFINE none == <<>>
           t == [wt EXCEPT !.closing = TRUE, !.buffer = none]
<1>0. none \in Seq(Nat) /\ none = <<>> /\ wt \in Writer
  BY DEF PipeTypeOK
<1>2. wt' = Ended(t)
  BY DEF Abort
<1> HIDE DEF none
<1>1. /\ t \in Writer /\ t.buffer = <<>> /\ t.on = wt.on /\ t.closing
      /\ t.paused = wt.paused /\ t.stale = wt.stale /\ t.ended = wt.ended /\ t.dead = wt.dead
  <2>1. t \in Writer
    BY <1>0 DEF Writer
  <2> QED
    BY <1>0, <2>1 DEF Writer
<1> HIDE DEF t
<1> QED
  BY <1>1, <1>2, EndedIs

\* _write_ready that closes from resume_writing
LEMMA WriteLastIs ==
    ASSUME PipeTypeOK, WriteLastAndClose
    PROVE  /\ wt' \in Writer /\ wt'.buffer = <<>> /\ wt'.on = wt.on /\ wt'.closing
           /\ ~wt'.paused /\ wt'.stale /\ ~wt'.open /\ wt'.ended = wt.ended + 1
           /\ wt'.dead = wt.dead
<1> DEFINE none == <<>>
           t == [wt EXCEPT !.buffer = none, !.paused = FALSE, !.closing = TRUE, !.stale = TRUE]
<1>0. none \in Seq(Nat) /\ none = <<>> /\ wt \in Writer
  BY DEF PipeTypeOK
<1>2. wt' = Ended(t)
  BY DEF WriteLastAndClose
<1> HIDE DEF none
<1>1. /\ t \in Writer /\ t.buffer = <<>> /\ t.on = wt.on /\ t.closing
      /\ ~t.paused /\ t.stale /\ t.ended = wt.ended /\ t.dead = wt.dead
  <2>1. t \in Writer
    BY <1>0 DEF Writer
  <2> QED
    BY <1>0, <2>1 DEF Writer
<1> HIDE DEF t
<1> QED
  BY <1>1, <1>2, EndedIs

\* _write_ready
LEMMA WriteSomeIs ==
    ASSUME PipeTypeOK, NEW n \in 1..Len(wt.buffer), WriteSome(n)
    PROVE  /\ wt' \in Writer /\ wt'.buffer = Rest(n)
           /\ wt'.on = wt.on /\ wt'.closing = wt.closing /\ wt'.stale = wt.stale
           /\ wt'.dead = wt.dead
           /\ wt'.paused = IF Len(Rest(n)) < limits.low THEN FALSE ELSE wt.paused
           /\ IF Rest(n) = <<>> /\ wt.closing
              THEN ~wt'.open /\ wt'.ended = wt.ended + 1
              ELSE wt'.open = wt.open /\ wt'.ended = wt.ended
           /\ watched' = IF Rest(n) = <<>> THEN watched \ {"write"} ELSE watched
<1> DEFINE t == [wt EXCEPT !.buffer = Rest(n)]
           u == [t EXCEPT !.paused = IF Resumes(t) THEN FALSE ELSE @]
<1>1. /\ t \in Writer /\ t.buffer = Rest(n) /\ t.on = wt.on /\ t.closing = wt.closing
      /\ t.paused = wt.paused /\ t.stale = wt.stale /\ t.open = wt.open /\ t.ended = wt.ended
      /\ t.dead = wt.dead
  BY RestIs DEF PipeTypeOK, Writer
<1>2. /\ wt' = IF u.buffer = <<>> /\ u.closing THEN Ended(u) ELSE u
      /\ watched' = IF u.buffer = <<>> THEN watched \ {"write"} ELSE watched
  BY DEF WriteSome, ClosesWhenFlushed
<1> HIDE DEF t
<1>3. /\ u \in Writer /\ u.buffer = Rest(n) /\ u.on = wt.on /\ u.closing = wt.closing
      /\ u.paused = IF Len(Rest(n)) < limits.low THEN FALSE ELSE wt.paused
      /\ u.stale = wt.stale /\ u.open = wt.open /\ u.ended = wt.ended /\ u.dead = wt.dead
  BY <1>1 DEF Writer, Resumes
<1> HIDE DEF u
<1> QED
  BY <1>2, <1>3, EndedIs, ZenonT(60)

----------------------------------------------------------------------------
\* Every step keeps the types.
LEMMA PipeTypeStep ==
    ASSUME PipeTypeOK, [PipeNext]_<<fdLoopVars, pipeVars>> PROVE PipeTypeOK'
<1> USE PipeAssumption DEF PipeAssumption, ghosts, fdLoopVars, pipeVars
<1>0. ASSUME NEW cb, Runs(cb), Return PROVE ready' \in Seq(Callbacks)
  BY <1>0, ReturnShifts
<1>1. CASE OtherReads
  BY <1>1 DEF PipeTypeOK, Reader, Writer, Watches, OtherReads
<1>2. CASE OtherExits
  BY <1>2 DEF PipeTypeOK, OtherExits
<1>3. CASE ConnectFails
  <2>1. rt' \in Reader /\ wt' \in Writer
    BY <1>3, ZenonT(60) DEF PipeTypeOK, Reader, Writer, ConnectFails
  <2> QED
    BY <1>3, <2>1 DEF PipeTypeOK, ConnectFails
<1>4. CASE ConnectRead
  <2>1. ready' \in Seq(Callbacks)
    BY <1>4, CallSoonAppends DEF ConnectRead, Callbacks
  <2>2. rt' \in Reader /\ wt' \in Writer
    BY <1>4, ZenonT(60) DEF PipeTypeOK, Reader, Writer, ConnectRead
  <2> QED
    BY <1>4, <2>1, <2>2 DEF PipeTypeOK, Watches, ConnectRead
<1>5. CASE ConnectWrite
  <2>1. ready' \in Seq(Callbacks)
    BY <1>5, CallSoonAppends DEF ConnectWrite, Callbacks
  <2>2. rt' \in Reader /\ wt' \in Writer
    BY <1>5, ZenonT(60) DEF PipeTypeOK, Reader, Writer, ConnectWrite
  <2> QED
    BY <1>5, <2>1, <2>2 DEF PipeTypeOK, Watches, ConnectWrite
<1>6. CASE PauseReading
  BY <1>6, ZenonT(60) DEF PipeTypeOK, Reader, Writer, Watches, PauseReading
<1>7. CASE ResumeReading
  BY <1>7, ZenonT(60) DEF PipeTypeOK, Reader, Writer, Watches, ResumeReading
<1>8. CASE CloseRead
  BY <1>8, ClosedReaderIs
  DEF PipeTypeOK, CloseRead
<1>9. CASE Write
  <2>1. wt' \in Writer
    BY <1>9, WriteIs
  <2>2. /\ watched' \subseteq Watches /\ written' \in Nat
        /\ UNCHANGED <<ready, rt, limits, pipe, other, delivered>>
    BY <1>9 DEF PipeTypeOK, Watches, Write
  <2> QED
    BY <2>1, <2>2 DEF PipeTypeOK
<1>10. CASE CloseWrite
  BY <1>10, CloseWriteIs
  DEF PipeTypeOK, CloseWrite
<1>11. CASE Abort
  BY <1>11, AbortIs
  DEF PipeTypeOK, Abort
<1>12. CASE Made
  <2>1. rt' \in Reader /\ wt' \in Writer
    BY <1>12, Zenon DEF PipeTypeOK, Reader, Writer, Made
  <2>2. ready' \in Seq(Callbacks)
    BY <1>12, <1>0 DEF Made
  <2> QED
    BY <1>12, <2>1, <2>2 DEF PipeTypeOK, Made
<1>13. CASE ReadData
  BY <1>13, <1>0 DEF PipeTypeOK, Reader, Writer, Watches, ReadData
<1>14. CASE ReadNothing
  BY <1>14, <1>0, ClosedReaderIs, ZenonT(60)
  DEF PipeTypeOK, ReadNothing, Reader
<1>15. ASSUME NEW n \in 1..Len(wt.buffer), WriteSome(n) PROVE PipeTypeOK'
  <2>1. ready' \in Seq(Callbacks)
    BY <1>15, <1>0 DEF WriteSome
  <2>2. wt' \in Writer /\ watched' \subseteq Watches
    BY <1>15, WriteSomeIs DEF PipeTypeOK
  <2>3. pipe' \in Seq(Nat)
    <3>1. SubSeq(wt.buffer, 1, n) \in Seq(Nat) /\ pipe \in Seq(Nat)
      BY RestIs DEF PipeTypeOK
    <3>2. pipe' = pipe \o SubSeq(wt.buffer, 1, n)
      BY <1>15 DEF WriteSome
    <3> QED
      BY <3>1, <3>2, TwoParts, Zenon
  <2> QED
    BY <1>15, <2>1, <2>2, <2>3 DEF PipeTypeOK, WriteSome
<1>16. CASE WriteLastAndClose
  <2>1. ready' \in Seq(Callbacks)
    BY <1>16, <1>0 DEF WriteLastAndClose
  <2>2. wt' \in Writer /\ watched' \subseteq Watches
    BY <1>16, WriteLastIs DEF PipeTypeOK, WriteLastAndClose
  <2>3. pipe' \in Seq(Nat)
    BY <1>16 DEF PipeTypeOK, Writer, WriteLastAndClose
  <2> QED
    BY <1>16, <2>1, <2>2, <2>3 DEF PipeTypeOK, WriteLastAndClose
<1>17. CASE WriteNothing
  <2>1. wt' \in Writer
    BY <1>17, Zenon DEF PipeTypeOK, Writer, WriteNothing
  <2>2. ready' \in Seq(Callbacks)
    BY <1>17, <1>0 DEF WriteNothing
  <2>3. watched' \subseteq Watches
    BY <1>17 DEF PipeTypeOK, WriteNothing
  <2> QED
    BY <1>17, <2>1, <2>2, <2>3 DEF PipeTypeOK, WriteNothing
<1>18. ASSUME NEW live, Poll(live), UNCHANGED pipeVars PROVE PipeTypeOK'
  BY <1>18, PollQueuesWatched DEF PipeTypeOK
<1>19. CASE UNCHANGED <<fdLoopVars, pipeVars>>
  BY <1>19 DEF PipeTypeOK
<1>20. ASSUME NEW high \in Marks \cup {limits.high}, NEW low \in Marks \cup {limits.low},
              SetLimits(high, low)
       PROVE  PipeTypeOK'
  <2>1. high \in Nat /\ low \in Nat
    BY DEF PipeTypeOK
  <2>2. /\ limits' \in [high : Nat, low : Nat, zero : BOOLEAN]
        /\ limits'.low = 0 => limits'.zero
    BY <1>20, <2>1 DEF SetLimits, PipeTypeOK
  <2> QED
    BY <1>20, <2>2 DEF SetLimits, PipeTypeOK
<1> QED
  BY <1>1, <1>2, <1>3, <1>4, <1>5, <1>6, <1>7, <1>8, <1>9, <1>10, <1>11, <1>12,
     <1>13, <1>14, <1>15, <1>16, <1>17, <1>18, <1>19, <1>20
  DEF PipeNext, PipeLoop, WriteProgress

\* Every step keeps the reader's life.
LEMMA ReaderLifeStep ==
    ASSUME PipeTypeOK, ReaderLife, [PipeNext]_<<fdLoopVars, pipeVars>>
    PROVE  ReaderLife'
<1> USE DEF ghosts, fdLoopVars, pipeVars
<1>1. CASE OtherReads
  BY <1>1 DEF OtherReads, PipeTypeOK, Reader, ReaderLife
<1>2. CASE OtherExits
  BY <1>2 DEF OtherExits, PipeTypeOK, Reader, ReaderLife
<1>3. CASE ConnectFails
  BY <1>3 DEF ConnectFails, PipeTypeOK, Reader, ReaderLife
<1>4. CASE ConnectRead
  BY <1>4, CallSoonAppends DEF ConnectRead, Callbacks, PipeTypeOK, Reader, ReaderLife
<1>5. CASE ConnectWrite
  BY <1>5, CallSoonAppends DEF ConnectWrite, Callbacks, PipeTypeOK, Reader, ReaderLife
<1>6. CASE PauseReading
  BY <1>6 DEF PauseReading, PipeTypeOK, Reader, ReaderLife
<1>7. CASE ResumeReading
  BY <1>7 DEF ResumeReading, PipeTypeOK, Reader, ReaderLife
<1>8. CASE CloseRead
  BY <1>8, ClosedReaderIs DEF CloseRead, PipeTypeOK, Reader, ReaderLife
<1>9. CASE Write
  BY <1>9 DEF Write, PipeTypeOK, Reader, ReaderLife
<1>10. CASE CloseWrite
  BY <1>10 DEF CloseWrite, PipeTypeOK, Reader, ReaderLife
<1>11. CASE Abort
  BY <1>11 DEF Abort, PipeTypeOK, Reader, ReaderLife
<1>12. CASE Made
  <2>1. \A i \in DOMAIN ready' : i + 1 \in DOMAIN ready /\ ready'[i] = ready[i + 1]
    BY <1>12, ReturnShifts DEF Made
  <2> QED
    <3>1. /\ rt' = rt \/ rt' = [rt EXCEPT !.made = TRUE]
          /\ watched' = watched
      BY <1>12 DEF Made
    <3>2. /\ rt'.on = rt.on /\ rt'.closing = rt.closing /\ rt'.paused = rt.paused
          /\ rt'.ended = rt.ended /\ rt'.open = rt.open
      BY <3>1, Zenon DEF PipeTypeOK, Reader
    <3> QED
      BY <2>1, <3>1, <3>2, ZenonT(60) DEF ReaderLife
<1>13. CASE ReadData
  <2>1. \A i \in DOMAIN ready' : i + 1 \in DOMAIN ready /\ ready'[i] = ready[i + 1]
    BY <1>13, ReturnShifts DEF ReadData
  <2> QED
    BY <1>13, <2>1 DEF ReadData, PipeTypeOK, Reader, ReaderLife
<1>14. CASE ReadNothing
  <2>1. \A i \in DOMAIN ready' : i + 1 \in DOMAIN ready /\ ready'[i] = ready[i + 1]
    BY <1>14, ReturnShifts DEF ReadNothing
  <2>2. rt.on
    BY <1>14, ReturnShifts DEF ReadNothing, ReaderLife
  <2> QED
    BY <1>14, <2>1, <2>2, ReadNothingIs DEF ReaderLife
<1>15. ASSUME NEW n \in 1..Len(wt.buffer), WriteSome(n) PROVE ReaderLife'
  <2>1. \A i \in DOMAIN ready' : i + 1 \in DOMAIN ready /\ ready'[i] = ready[i + 1]
    BY <1>15, ReturnShifts DEF WriteSome
  <2> QED
    BY <1>15, <2>1 DEF WriteSome, PipeTypeOK, Reader, ReaderLife
<1>16. CASE WriteLastAndClose
  <2>1. \A i \in DOMAIN ready' : i + 1 \in DOMAIN ready /\ ready'[i] = ready[i + 1]
    BY <1>16, ReturnShifts DEF WriteLastAndClose
  <2> QED
    BY <1>16, <2>1 DEF WriteLastAndClose, PipeTypeOK, Reader, ReaderLife
<1>17. CASE WriteNothing
  <2>1. \A i \in DOMAIN ready' : i + 1 \in DOMAIN ready /\ ready'[i] = ready[i + 1]
    BY <1>17, ReturnShifts DEF WriteNothing
  <2> QED
    BY <1>17, <2>1 DEF WriteNothing, PipeTypeOK, Reader, ReaderLife
<1>18. ASSUME NEW live, Poll(live), UNCHANGED pipeVars PROVE ReaderLife'
  BY <1>18, PollQueuesWatched DEF PipeTypeOK, ReaderLife
<1>19. CASE UNCHANGED <<fdLoopVars, pipeVars>>
  BY <1>19 DEF ReaderLife
<1>20. ASSUME NEW high, NEW low, SetLimits(high, low) PROVE ReaderLife'
  BY <1>20 DEF SetLimits, ReaderLife
<1> QED
  BY <1>1, <1>2, <1>3, <1>4, <1>5, <1>6, <1>7, <1>8, <1>9, <1>10, <1>11, <1>12,
     <1>13, <1>14, <1>15, <1>16, <1>17, <1>18, <1>19, <1>20
  DEF PipeNext, PipeLoop, WriteProgress


\* Every step keeps the writer's life, and a paused protocol has a backlog.
LEMMA WriterLifeStep ==
    ASSUME PipeTypeOK, WriterLife, PausedHasBacklog, [PipeNext]_<<fdLoopVars, pipeVars>>
    PROVE  WriterLife' /\ PausedHasBacklog'
<1> USE PipeAssumption DEF PipeAssumption, ghosts, fdLoopVars, pipeVars
<1>1. CASE OtherReads
  BY <1>1 DEF OtherReads, WriterLife, PausedHasBacklog
<1>2. CASE OtherExits
  BY <1>2 DEF OtherExits, WriterLife, PausedHasBacklog
<1>3. CASE ConnectFails
  BY <1>3 DEF ConnectFails, PipeTypeOK, Writer, WriterLife, PausedHasBacklog
<1>4. CASE ConnectRead
  BY <1>4 DEF ConnectRead, WriterLife, PausedHasBacklog
<1>5. CASE ConnectWrite
  BY <1>5 DEF ConnectWrite, PipeTypeOK, Writer, WriterLife, PausedHasBacklog
<1>6. CASE PauseReading
  BY <1>6 DEF PauseReading, WriterLife, PausedHasBacklog
<1>7. CASE ResumeReading
  BY <1>7 DEF ResumeReading, WriterLife, PausedHasBacklog
<1>8. CASE CloseRead
  BY <1>8 DEF CloseRead, WriterLife, PausedHasBacklog
<1>9. CASE Write
  <2>1. wt.buffer \in Seq(Nat) /\ written \in Nat
    BY DEF PipeTypeOK, Writer
  <2>2. Append(wt.buffer, written + 1) # <<>>
    BY <2>1
  <2>3. wt.on /\ ~wt.closing
    BY <1>9 DEF Write
  <2> QED
    BY <1>9, <2>2, <2>3, WriteIs DEF WriterLife, PausedHasBacklog
<1>10. CASE CloseWrite
  BY <1>10, CloseWriteIs DEF WriterLife, PausedHasBacklog, CloseWrite
<1>11. CASE Abort
  BY <1>11, AbortIs DEF WriterLife, PausedHasBacklog, Abort, Abortable
<1>12. CASE Made
  BY <1>12 DEF Made, PipeTypeOK, Writer, WriterLife, PausedHasBacklog
<1>13. CASE ReadData
  BY <1>13 DEF ReadData, WriterLife, PausedHasBacklog
<1>14. CASE ReadNothing
  BY <1>14 DEF ReadNothing, WriterLife, PausedHasBacklog
<1>15. ASSUME NEW n \in 1..Len(wt.buffer), WriteSome(n) PROVE WriterLife' /\ PausedHasBacklog'
  <2>1. wt.buffer # <<>>
    BY <1>15 DEF WriteSome
  <2>2. wt.ended = 0 /\ wt.open
    BY <2>1 DEF WriterLife
  <2>3. Rest(n) = <<>> => ~wt'.paused \/ limits'.zero
    <3>1. Rest(n) = <<>> => Len(Rest(n)) < limits.low \/ limits.zero
      BY DEF PipeTypeOK
    <3>2. wt'.paused = IF Len(Rest(n)) < limits.low THEN FALSE ELSE wt.paused
      BY <1>15, WriteSomeIs
    <3>3. limits' = limits
      BY <1>15 DEF WriteSome
    <3> QED
      BY <3>1, <3>2, <3>3
  <2>4. Rest(n) # <<>> /\ wt'.paused => wt'.buffer # <<>>
    BY <1>15, WriteSomeIs
  <2>5. wt.on
    BY <2>1 DEF WriterLife
  <2> QED
    BY <1>15, <2>2, <2>3, <2>4, <2>5, WriteSomeIs DEF WriterLife, PausedHasBacklog
<1>16. CASE WriteLastAndClose
  BY <1>16, WriteLastIs DEF WriterLife, PausedHasBacklog, WriteLastAndClose
<1>17. CASE WriteNothing
  BY <1>17 DEF WriteNothing, PipeTypeOK, Writer, WriterLife, PausedHasBacklog
<1>18. ASSUME NEW live, Poll(live), UNCHANGED pipeVars PROVE WriterLife' /\ PausedHasBacklog'
  BY <1>18 DEF WriterLife, PausedHasBacklog
<1>19. CASE UNCHANGED <<fdLoopVars, pipeVars>>
  BY <1>19 DEF WriterLife, PausedHasBacklog
<1>20. ASSUME NEW high, NEW low, SetLimits(high, low) PROVE WriterLife' /\ PausedHasBacklog'
  BY <1>20 DEF SetLimits, PipeTypeOK, WriterLife, PausedHasBacklog
<1> QED
  BY <1>1, <1>2, <1>3, <1>4, <1>5, <1>6, <1>7, <1>8, <1>9, <1>10, <1>11, <1>12,
     <1>13, <1>14, <1>15, <1>16, <1>17, <1>18, <1>19, <1>20
  DEF PipeNext, PipeLoop, WriteProgress


\* Every step keeps the two sides' ends, and the watches.
LEMMA EndsStep ==
    ASSUME PipeTypeOK, ReaderLife, WriterLife, PipeEndedOnce, PipeWatchesLive,
           [PipeNext]_<<fdLoopVars, pipeVars>>
    PROVE  PipeEndedOnce' /\ PipeWatchesLive'
<1> USE DEF ghosts, fdLoopVars, pipeVars
<1>1. CASE OtherReads
  BY <1>1 DEF OtherReads, PipeEndedOnce, PipeWatchesLive, ReaderLife, WriterLife
<1>2. CASE OtherExits
  BY <1>2 DEF OtherExits, PipeEndedOnce, PipeWatchesLive, ReaderLife, WriterLife
<1>3. CASE ConnectFails
  BY <1>3, ZenonT(60) DEF ConnectFails, PipeTypeOK, Reader, Writer, PipeEndedOnce,
                          PipeWatchesLive, ReaderLife, WriterLife
<1>4. CASE ConnectRead
  BY <1>4 DEF ConnectRead, PipeTypeOK, Reader, Writer, PipeEndedOnce, PipeWatchesLive,
              ReaderLife, WriterLife
<1>5. CASE ConnectWrite
  BY <1>5 DEF ConnectWrite, PipeTypeOK, Reader, Writer, PipeEndedOnce, PipeWatchesLive,
              ReaderLife, WriterLife
<1>6. CASE PauseReading
  BY <1>6 DEF PauseReading, PipeTypeOK, Reader, Writer, PipeEndedOnce, PipeWatchesLive,
              ReaderLife, WriterLife
<1>7. CASE ResumeReading
  BY <1>7 DEF ResumeReading, PipeTypeOK, Reader, Writer, PipeEndedOnce, PipeWatchesLive,
              ReaderLife, WriterLife
<1>8. CASE CloseRead
  BY <1>8, ClosedReaderIs DEF PipeEndedOnce, PipeWatchesLive, ReaderLife, WriterLife,
                              CloseRead, PipeTypeOK
<1>9. CASE Write
  <2>1. wt.buffer \in Seq(Nat) /\ written \in Nat
    BY DEF PipeTypeOK, Writer
  <2>2. Append(wt.buffer, written + 1) # <<>>
    BY <2>1
  <2>3. /\ wt.on /\ ~wt.closing /\ watched' = watched \cup {"write"} /\ UNCHANGED rt
    BY <1>9 DEF Write
  <2> QED
    BY <1>9, <2>2, <2>3, WriteIs DEF PipeEndedOnce, PipeWatchesLive, ReaderLife, WriterLife
<1>10. CASE CloseWrite
  <2>1. wt.on /\ wt.open /\ wt.ended = 0 /\ UNCHANGED <<watched, rt>>
    BY <1>10 DEF CloseWrite, WriterLife
  <2>2. wt'.ended = IF wt'.open \/ wt'.dead THEN 0 ELSE 1
    <3>1. wt.ended + 1 = 1 /\ ~wt.dead
      BY <2>1 DEF WriterLife
    <3> QED
      BY <1>10, <2>1, <3>1, CloseWriteIs, Zenon
  <2>3. /\ wt.buffer # <<>> => wt'.buffer # <<>> /\ wt'.open
        /\ wt.stale => wt'.stale
    BY <1>10, <2>1, CloseWriteIs
  <2> QED
    BY <2>1, <2>2, <2>3 DEF PipeEndedOnce, PipeWatchesLive
<1>11. CASE Abort
  BY <1>11, AbortIs DEF PipeEndedOnce, PipeWatchesLive, ReaderLife, WriterLife, Abort, Abortable
<1>12. CASE Made
  BY <1>12, ZenonT(60) DEF Made, PipeTypeOK, Reader, Writer, PipeEndedOnce, PipeWatchesLive,
                           ReaderLife, WriterLife
<1>13. CASE ReadData
  BY <1>13 DEF ReadData, PipeEndedOnce, PipeWatchesLive, ReaderLife, WriterLife
<1>14. CASE ReadNothing
  <2>1. rt.on /\ UNCHANGED wt
    BY <1>14, ReturnShifts DEF ReadNothing, ReaderLife
  <2> QED
    BY <1>14, <2>1, ReadNothingIs DEF PipeEndedOnce, PipeWatchesLive, ReaderLife, WriterLife
<1>15. ASSUME NEW n \in 1..Len(wt.buffer), WriteSome(n) PROVE PipeEndedOnce' /\ PipeWatchesLive'
  <2>1. wt.buffer # <<>> /\ UNCHANGED rt
    BY <1>15 DEF WriteSome
  <2>2. wt.on /\ wt.ended = 0 /\ wt.open
    BY <2>1 DEF WriterLife
  <2>3. wt'.ended = IF wt'.open \/ wt'.dead THEN 0 ELSE 1
    <3>1. wt.ended + 1 = 1 /\ ~wt.dead
      BY <2>2 DEF WriterLife
    <3> QED
      BY <1>15, <2>2, <3>1, WriteSomeIs, Zenon
  <2>4. wt'.buffer # <<>> => wt'.open
    BY <1>15, <2>2, WriteSomeIs
  <2>5. /\ "read" \in watched' => "read" \in watched
        /\ "write" \in watched' => wt'.buffer # <<>>
    BY <1>15, WriteSomeIs
  <2> QED
    BY <2>1, <2>3, <2>4, <2>5 DEF PipeEndedOnce, PipeWatchesLive
<1>16. CASE WriteLastAndClose
  BY <1>16, WriteLastIs DEF PipeEndedOnce, PipeWatchesLive, ReaderLife, WriterLife, WriteLastAndClose
<1>17. CASE WriteNothing
  BY <1>17 DEF WriteNothing, PipeTypeOK, Reader, Writer, PipeEndedOnce, PipeWatchesLive,
               ReaderLife, WriterLife
<1>18. ASSUME NEW live, Poll(live), UNCHANGED pipeVars PROVE PipeEndedOnce' /\ PipeWatchesLive'
  BY <1>18, PollQueuesWatched DEF PipeTypeOK, PipeEndedOnce, PipeWatchesLive
<1>19. CASE UNCHANGED <<fdLoopVars, pipeVars>>
  BY <1>19 DEF PipeEndedOnce, PipeWatchesLive
<1>20. ASSUME NEW high, NEW low, SetLimits(high, low) PROVE PipeEndedOnce' /\ PipeWatchesLive'
  BY <1>20 DEF SetLimits, PipeEndedOnce, PipeWatchesLive
<1> QED
  BY <1>1, <1>2, <1>3, <1>4, <1>5, <1>6, <1>7, <1>8, <1>9, <1>10, <1>11, <1>12,
     <1>13, <1>14, <1>15, <1>16, <1>17, <1>18, <1>19, <1>20
  DEF PipeNext, PipeLoop, WriteProgress


\* A callback that is not connection_made leaves it queued ahead of the data.
LEMMA MadeStays ==
    ASSUME PipeTypeOK, MadeFirst, rt.on, ~rt.made,
           NEW cb, cb # "readMade", Runs(cb), Return
    PROVE  \E k \in DOMAIN ready' : /\ ready'[k] = "readMade"
               /\ \A j \in DOMAIN ready' : ready'[j] = "read" => k < j
<1>1. PICK k \in DOMAIN ready : /\ ready[k] = "readMade"
                                /\ \A j \in DOMAIN ready : ready[j] = "read" => k < j
  BY DEF MadeFirst
<1>2. k # 1
  BY <1>1, ReturnShifts
<1>3. k - 1 \in DOMAIN ready' /\ ready'[k - 1] = "readMade"
  BY <1>1, <1>2, ReturnShifts
<1>4. ASSUME NEW j \in DOMAIN ready', ready'[j] = "read" PROVE k - 1 < j
  <2>1. j + 1 \in DOMAIN ready /\ ready[j + 1] = "read"
    BY <1>4, ReturnShifts
  <2>2. k < j + 1
    BY <1>1, <2>1
  <2>3. k \in Int /\ j \in Int
    <3>1. ready \in Seq(Callbacks) /\ ready' \in Seq(Callbacks)
      BY ReturnShifts DEF PipeTypeOK
    <3> QED
      BY <3>1
  <2> QED
    BY <2>2, <2>3
<1> QED
  BY <1>3, <1>4

\* Every step keeps connection_made of the reader ahead of its data.
LEMMA MadeFirstStep ==
    ASSUME PipeTypeOK, ReaderLife, MadeFirst, [PipeNext]_<<fdLoopVars, pipeVars>>
    PROVE  MadeFirst'
<1> USE DEF ghosts, fdLoopVars, pipeVars
<1>1. CASE OtherReads
  BY <1>1 DEF OtherReads, MadeFirst
<1>2. CASE OtherExits
  BY <1>2 DEF OtherExits, MadeFirst
<1>3. CASE ConnectFails
  BY <1>3 DEF ConnectFails, PipeTypeOK, Reader, MadeFirst
<1>4. CASE ConnectRead
  <2>1. \A j \in DOMAIN ready : ready[j] # "read"
    BY <1>4 DEF ConnectRead, ReaderLife
  <2>2. CallSoon("readMade") /\ "readMade" \in Callbacks
    BY <1>4 DEF ConnectRead, Callbacks
  <2>3. \A j \in DOMAIN ready' : ready'[j] # "read"
    BY <2>1, <2>2, CallSoonAppends
  <2>4. Len(ready) + 1 \in DOMAIN ready' /\ ready'[Len(ready) + 1] = "readMade"
    BY <2>2, CallSoonAppends
  <2> QED
    BY <2>3, <2>4 DEF MadeFirst
<1>5. CASE ConnectWrite
  <2> SUFFICES ASSUME rt.on /\ ~rt.made
               PROVE  \E k \in DOMAIN ready' : /\ ready'[k] = "readMade"
                          /\ \A j \in DOMAIN ready' : ready'[j] = "read" => k < j
    BY <1>5 DEF ConnectWrite, MadeFirst
  <2>1. PICK k \in DOMAIN ready : /\ ready[k] = "readMade"
                                  /\ \A j \in DOMAIN ready : ready[j] = "read" => k < j
    BY DEF MadeFirst
  <2>2. CallSoon("writeMade") /\ "writeMade" \in Callbacks
    BY <1>5 DEF ConnectWrite, Callbacks
  <2>3. k \in DOMAIN ready' /\ ready'[k] = "readMade"
    BY <2>1, <2>2, CallSoonAppends
  <2>4. \A j \in DOMAIN ready' : ready'[j] = "read" => k < j
    BY <2>1, <2>2, CallSoonAppends
  <2> QED
    BY <2>3, <2>4
<1>6. CASE PauseReading
  BY <1>6 DEF PauseReading, PipeTypeOK, Reader, MadeFirst
<1>7. CASE ResumeReading
  BY <1>7 DEF ResumeReading, PipeTypeOK, Reader, MadeFirst
<1>8. CASE CloseRead
  BY <1>8, ClosedReaderIs DEF CloseRead, PipeTypeOK, MadeFirst
<1>9. CASE Write
  BY <1>9 DEF Write, MadeFirst
<1>10. CASE CloseWrite
  BY <1>10 DEF CloseWrite, MadeFirst
<1>11. CASE Abort
  BY <1>11 DEF Abort, MadeFirst
<1>12. CASE Made
  <2> SUFFICES ASSUME rt'.on, ~rt'.made
               PROVE  \E k \in DOMAIN ready' : /\ ready'[k] = "readMade"
                          /\ \A j \in DOMAIN ready' : ready'[j] = "read" => k < j
    BY DEF MadeFirst
  <2>1. Runs("writeMade") /\ Return /\ UNCHANGED rt
    BY <1>12 DEF Made, PipeTypeOK, Reader
  <2>2. rt.on /\ ~rt.made
    BY <2>1
  <2> QED
    BY <2>1, <2>2, MadeStays
<1>13. CASE ReadData
  <2> SUFFICES ASSUME rt'.on, ~rt'.made
               PROVE  \E k \in DOMAIN ready' : /\ ready'[k] = "readMade"
                          /\ \A j \in DOMAIN ready' : ready'[j] = "read" => k < j
    BY DEF MadeFirst
  <2>1. Runs("read") /\ Return /\ rt.on /\ ~rt.made
    BY <1>13 DEF ReadData
  <2>2. rt.on /\ ~rt.made
    BY <2>1
  <2> QED
    BY <2>1, <2>2, MadeStays
<1>14. CASE ReadNothing
  <2> SUFFICES ASSUME rt'.on, ~rt'.made
               PROVE  \E k \in DOMAIN ready' : /\ ready'[k] = "readMade"
                          /\ \A j \in DOMAIN ready' : ready'[j] = "read" => k < j
    BY DEF MadeFirst
  <2>1. Runs("read") /\ Return /\ rt.on /\ ~rt.made
    BY <1>14, ReadNothingIs DEF ReadNothing
  <2>2. rt.on /\ ~rt.made
    BY <2>1
  <2> QED
    BY <2>1, <2>2, MadeStays
<1>15. ASSUME NEW n \in 1..Len(wt.buffer), WriteSome(n) PROVE MadeFirst'
  <2> SUFFICES ASSUME rt'.on, ~rt'.made
               PROVE  \E k \in DOMAIN ready' : /\ ready'[k] = "readMade"
                          /\ \A j \in DOMAIN ready' : ready'[j] = "read" => k < j
    BY DEF MadeFirst
  <2>1. Runs("write") /\ Return /\ UNCHANGED rt
    BY <1>15 DEF WriteSome
  <2>2. rt.on /\ ~rt.made
    BY <2>1
  <2> QED
    BY <2>1, <2>2, MadeStays
<1>16. CASE WriteLastAndClose
  <2> SUFFICES ASSUME rt'.on, ~rt'.made
               PROVE  \E k \in DOMAIN ready' : /\ ready'[k] = "readMade"
                          /\ \A j \in DOMAIN ready' : ready'[j] = "read" => k < j
    BY DEF MadeFirst
  <2>1. Runs("write") /\ Return /\ UNCHANGED rt
    BY <1>16 DEF WriteLastAndClose
  <2>2. rt.on /\ ~rt.made
    BY <2>1
  <2> QED
    BY <2>1, <2>2, MadeStays
<1>17. CASE WriteNothing
  <2> SUFFICES ASSUME rt'.on, ~rt'.made
               PROVE  \E k \in DOMAIN ready' : /\ ready'[k] = "readMade"
                          /\ \A j \in DOMAIN ready' : ready'[j] = "read" => k < j
    BY DEF MadeFirst
  <2>1. Runs("write") /\ Return /\ UNCHANGED rt
    BY <1>17 DEF WriteNothing
  <2>2. rt.on /\ ~rt.made
    BY <2>1
  <2> QED
    BY <2>1, <2>2, MadeStays
<1>18. ASSUME NEW live, Poll(live), UNCHANGED pipeVars PROVE MadeFirst'
  BY <1>18 DEF Poll, MadeFirst
<1>19. CASE UNCHANGED <<fdLoopVars, pipeVars>>
  BY <1>19 DEF MadeFirst
<1>20. ASSUME NEW high, NEW low, SetLimits(high, low) PROVE MadeFirst'
  BY <1>20 DEF SetLimits, MadeFirst
<1> QED
  BY <1>1, <1>2, <1>3, <1>4, <1>5, <1>6, <1>7, <1>8, <1>9, <1>10, <1>11, <1>12,
     <1>13, <1>14, <1>15, <1>16, <1>17, <1>18, <1>19, <1>20
  DEF PipeNext, PipeLoop, WriteProgress

----------------------------------------------------------------------------
(***************************************************************************)
(* The line of units: delivered, in the pipe, in the buffer.               *)
(***************************************************************************)
Rising(l) == \A i, j \in DOMAIN l : i < j => l[i] < l[j]

\* The line l and the units that left it are the units 1..w, each once
Keeps(l, w, left) ==
    Rising(l) /\ Units(l) \cup left = 1..w /\ Units(l) \cap left = {}

Line(s, t, u) == s \o t \o u

\* What stands where in l, which is s, t and u put together
Joins(l, s, t, u) ==
    /\ l \in Seq(Nat) /\ Len(l) = Len(s) + Len(t) + Len(u)
    /\ \A i \in 1..Len(s) : l[i] = s[i]
    /\ \A i \in 1..Len(t) : l[Len(s) + i] = t[i]
    /\ \A i \in 1..Len(u) : l[Len(s) + Len(t) + i] = u[i]

\* The line joins its three parts.
LEMMA ThreeParts ==
    ASSUME NEW s \in Seq(Nat), NEW t \in Seq(Nat), NEW u \in Seq(Nat)
    PROVE  Joins(Line(s, t, u), s, t, u)
<1> DEFINE r == s \o t
<1>1. r \in Seq(Nat) /\ Len(r) = Len(s) + Len(t)
  OBVIOUS
<1>2. /\ \A i \in 1..Len(s) : r[i] = s[i]
      /\ \A i \in 1..Len(t) : r[Len(s) + i] = t[i]
  OBVIOUS
<1> HIDE DEF r
<1>3. r \o u \in Seq(Nat) /\ Len(r \o u) = Len(r) + Len(u)
  BY <1>1, TwoParts
<1>4. /\ \A i \in 1..Len(r) : (r \o u)[i] = r[i]
      /\ \A i \in 1..Len(u) : (r \o u)[Len(r) + i] = u[i]
  BY <1>1, SMTT(60)
<1>5. r \o u = Line(s, t, u)
  BY DEF r, Line
<1>6. Len(s) \in Nat /\ Len(t) \in Nat /\ Len(u) \in Nat
  OBVIOUS
<1>7. \A i \in 1..Len(s) : (r \o u)[i] = s[i]
  BY <1>1, <1>2, <1>4, <1>6
<1>8. \A i \in 1..Len(t) : (r \o u)[Len(s) + i] = t[i]
  BY <1>1, <1>2, <1>4, <1>6, SMTT(60)
<1>9. \A i \in 1..Len(u) : (r \o u)[Len(s) + Len(t) + i] = u[i]
  BY <1>1, <1>4, <1>6
<1> QED
  BY <1>1, <1>3, <1>5, <1>7, <1>8, <1>9 DEF Joins

\* Sequences with the same elements are the same.
LEMMA SameSeq ==
    ASSUME NEW s \in Seq(Nat), NEW t \in Seq(Nat), Len(s) = Len(t),
           \A i \in 1..Len(s) : s[i] = t[i]
    PROVE  s = t
  BY SMTT(60)

\* The first n elements of b went to the end of p, which makes q; c is the rest
Moved(p, b, n, q, c) ==
    /\ Len(q) = Len(p) + n /\ Len(c) = Len(b) - n
    /\ \A i \in 1..Len(p) : q[i] = p[i]
    /\ \A i \in 1..n : q[Len(p) + i] = b[i]
    /\ \A i \in 1..Len(c) : c[i] = b[n + i]

\* The position of what is behind x others.
LEMMA Behind ==
    ASSUME NEW x \in Nat, NEW y \in Nat, NEW i \in Nat, x < i, i <= x + y
    PROVE  i - x \in 1..y /\ i = x + (i - x) /\ i + 1 = x + ((i - x) + 1)
  OBVIOUS

\* The position of what is behind x + y others.
LEMMA BehindTwo ==
    ASSUME NEW x \in Nat, NEW y \in Nat, NEW n \in Nat, NEW i \in Nat,
           x + y < i, i <= x + y + n
    PROVE  /\ (i - x) - y \in 1..n /\ y + ((i - x) - y) \in 1..(y + n)
           /\ i = x + (y + ((i - x) - y)) /\ i = x + y + ((i - x) - y)
  OBVIOUS

\* The position of what is behind x + y + n others.
LEMMA Shift ==
    ASSUME NEW x \in Nat, NEW y \in Nat, NEW z \in Nat, NEW n \in Nat, NEW i \in Nat,
           x + y + n < i, n <= z, i <= x + (y + n) + (z - n)
    PROVE  /\ ((i - x) - y) - n \in 1..(z - n) /\ n + (((i - x) - y) - n) \in 1..z
           /\ i = x + (y + n) + (((i - x) - y) - n)
           /\ i = x + y + (n + (((i - x) - y) - n))
  OBVIOUS

\* Units that move from the start of the last part to the end of the middle one
\* leave the whole alone.
LEMMA Regroup ==
    ASSUME NEW d \in Seq(Nat), NEW p \in Seq(Nat), NEW b \in Seq(Nat), NEW n \in 1..Len(b),
           NEW q \in Seq(Nat), NEW c \in Seq(Nat), Moved(p, b, n, q, c)
    PROVE  Line(d, q, c) = Line(d, p, b)
<1> DEFINE l == Line(d, q, c)
           m == Line(d, p, b)
<1>0. Joins(l, d, q, c) /\ Joins(m, d, p, b)
  BY ThreeParts
<1> HIDE DEF l, m
<1>4. /\ l \in Seq(Nat) /\ Len(l) = Len(d) + Len(q) + Len(c)
      /\ \A i \in 1..Len(d) : l[i] = d[i]
      /\ \A i \in 1..Len(q) : l[Len(d) + i] = q[i]
      /\ \A i \in 1..Len(c) : l[Len(d) + Len(q) + i] = c[i]
  BY <1>0 DEF Joins
<1>5. /\ m \in Seq(Nat) /\ Len(m) = Len(d) + Len(p) + Len(b)
      /\ \A i \in 1..Len(d) : m[i] = d[i]
      /\ \A i \in 1..Len(p) : m[Len(d) + i] = p[i]
      /\ \A i \in 1..Len(b) : m[Len(d) + Len(p) + i] = b[i]
  BY <1>0 DEF Joins
<1>6. Len(d) \in Nat /\ Len(p) \in Nat /\ Len(b) \in Nat /\ n \in Nat /\ n <= Len(b)
  OBVIOUS
<1>2. Len(q) = Len(p) + n /\ Len(c) = Len(b) - n
  BY DEF Moved
<1>3. /\ \A i \in 1..Len(p) : q[i] = p[i]
      /\ \A i \in 1..n : q[Len(p) + i] = b[i]
      /\ \A i \in 1..Len(c) : c[i] = b[n + i]
  BY DEF Moved
<1>7. Len(l) = Len(m)
  BY <1>2, <1>4, <1>5, <1>6
<1>8. ASSUME NEW i \in 1..Len(l) PROVE l[i] = m[i]
  <2>0. i \in Nat /\ 1 <= i
    OBVIOUS
  <2>1. CASE i <= Len(d)
    <3>1. i \in 1..Len(d)
      BY <2>0, <2>1, <1>6
    <3> QED
      BY <3>1, <1>4, <1>5, Zenon
  <2>2. CASE Len(d) < i /\ i <= Len(d) + Len(p)
    <3> DEFINE j == i - Len(d)
    <3>0. j \in 1..Len(p) /\ i = Len(d) + j
      BY <2>0, <2>2, <1>6, Behind, ZenonT(60)
    <3> HIDE DEF j
    <3>1. j \in 1..Len(p) /\ j \in 1..Len(q) /\ i = Len(d) + j
      BY <3>0, <1>2, <1>6
    <3>2. l[i] = q[j]
      BY <3>1, <1>4
    <3>3. m[i] = p[j]
      BY <3>1, <1>5
    <3> QED
      BY <3>1, <3>2, <3>3, <1>3
  <2>3. CASE Len(d) + Len(p) < i /\ i <= Len(d) + Len(p) + n
    <3> DEFINE j == (i - Len(d)) - Len(p)
    <3>0. /\ j \in 1..n /\ Len(p) + j \in 1..(Len(p) + n)
          /\ i = Len(d) + (Len(p) + j) /\ i = Len(d) + Len(p) + j
      BY <2>0, <2>3, <1>6, BehindTwo, SMTT(60)
    <3> HIDE DEF j
    <3>1. /\ j \in 1..n /\ j \in 1..Len(b) /\ Len(p) + j \in 1..Len(q)
          /\ i = Len(d) + (Len(p) + j) /\ i = Len(d) + Len(p) + j
      BY <3>0, <1>2, <1>6
    <3>2. l[i] = q[Len(p) + j]
      BY <3>1, <1>4
    <3>3. m[i] = b[j]
      BY <3>1, <1>5
    <3> QED
      BY <3>1, <3>2, <3>3, <1>3
  <2>4. CASE Len(d) + Len(p) + n < i
    <3> DEFINE j == ((i - Len(d)) - Len(p)) - n
    <3>1. /\ j \in 1..Len(c) /\ n + j \in 1..Len(b)
          /\ i = Len(d) + Len(q) + j /\ i = Len(d) + Len(p) + (n + j)
      <4>1. Len(c) = Len(b) - n /\ Len(q) = Len(p) + n /\ i <= Len(d) + Len(q) + Len(c) /\ i \in Nat
        BY <1>2, <1>4
      <4>2. i <= Len(d) + (Len(p) + n) + (Len(b) - n) /\ i \in Nat
        BY <4>1
      <4>3. /\ j \in 1..(Len(b) - n) /\ n + j \in 1..Len(b)
            /\ i = Len(d) + (Len(p) + n) + j /\ i = Len(d) + Len(p) + (n + j)
        BY <2>4, <4>2, <1>6, Shift, SMTT(60)
      <4> QED
        BY <4>1, <4>3
    <3> HIDE DEF j
    <3>2. l[i] = c[j]
      BY <3>1, <1>4
    <3>3. m[i] = b[n + j]
      BY <3>1, <1>5
    <3> QED
      BY <3>1, <3>2, <3>3, <1>3
  <2>5. \/ i <= Len(d)
        \/ Len(d) < i /\ i <= Len(d) + Len(p)
        \/ Len(d) + Len(p) < i /\ i <= Len(d) + Len(p) + n
        \/ Len(d) + Len(p) + n < i
    BY <2>0, <1>6, SMTT(60)
  <2> QED
    BY <2>1, <2>2, <2>3, <2>4, <2>5
<1>9. l = m
  BY <1>4, <1>5, <1>7, <1>8, SameSeq
<1> QED
  BY <1>9 DEF l, m

\* Moving the first n units of the buffer into the pipe leaves the line alone.
LEMMA MoveToPipe ==
    ASSUME NEW d \in Seq(Nat), NEW p \in Seq(Nat), NEW b \in Seq(Nat), NEW n \in 1..Len(b)
    PROVE  Line(d, p \o SubSeq(b, 1, n), SubSeq(b, n + 1, Len(b))) = Line(d, p, b)
<1> DEFINE a == SubSeq(b, 1, n)
           c == SubSeq(b, n + 1, Len(b))
           q == p \o a
<1>1. /\ a \in Seq(Nat) /\ Len(a) = n /\ \A i \in 1..n : a[i] = b[i]
  OBVIOUS
<1>2. /\ c \in Seq(Nat) /\ Len(c) = Len(b) - n /\ \A i \in 1..Len(c) : c[i] = b[n + i]
  OBVIOUS
<1> HIDE DEF a, c
<1>3. /\ q \in Seq(Nat) /\ Len(q) = Len(p) + n
      /\ \A i \in 1..Len(p) : q[i] = p[i]
      /\ \A i \in 1..n : q[Len(p) + i] = b[i]
  <2>1. a \in Seq(Nat) /\ Len(a) = n
    BY <1>1
  <2>2. /\ q \in Seq(Nat) /\ Len(q) = Len(p) + Len(a)
        /\ \A i \in 1..Len(p) : q[i] = p[i]
        /\ \A i \in 1..Len(a) : q[Len(p) + i] = a[i]
    BY <2>1, TwoParts
  <2> QED
    BY <1>1, <2>1, <2>2
<1> HIDE DEF q
<1>4. n \in 1..Len(b) /\ d \in Seq(Nat) /\ p \in Seq(Nat) /\ b \in Seq(Nat)
  OBVIOUS
<1>5. Moved(p, b, n, q, c) /\ q \in Seq(Nat) /\ c \in Seq(Nat)
  BY <1>2, <1>3 DEF Moved
<1>6. Line(d, q, c) = Line(d, p, b)
  BY <1>4, <1>5, Regroup
<1> QED
  BY <1>6 DEF q, a, c

\* Delivering the pipe leaves the line alone.
LEMMA MoveToReader ==
    ASSUME NEW d \in Seq(Nat), NEW p \in Seq(Nat), NEW b \in Seq(Nat)
    PROVE  Line(d \o p, <<>>, b) = Line(d, p, b)
  BY DEF Line

\* Writing the whole buffer leaves the line alone.
LEMMA MoveAll ==
    ASSUME NEW d \in Seq(Nat), NEW p \in Seq(Nat), NEW b \in Seq(Nat)
    PROVE  Line(d, p \o b, <<>>) = Line(d, p, b)
<1>1. d \o (p \o b) = (d \o p) \o b
  BY SMTT(60)
<1>2. d \o (p \o b) \o <<>> = d \o (p \o b)
  OBVIOUS
<1> QED
  BY <1>1, <1>2 DEF Line

\* A unit that write() appends to the buffer is appended to the line.
LEMMA MoveToBuffer ==
    ASSUME NEW d \in Seq(Nat), NEW p \in Seq(Nat), NEW b \in Seq(Nat), NEW x \in Nat
    PROVE  Line(d, p, Append(b, x)) = Append(Line(d, p, b), x)
<1> DEFINE r == d \o p
<1>1. r \in Seq(Nat)
  OBVIOUS
<1> HIDE DEF r
<1>2. r \o Append(b, x) = Append(r \o b, x)
  BY <1>1, SMTT(60)
<1> QED
  BY <1>2 DEF r, Line

\* The line with a new last unit.
LEMMA KeepsAppend ==
    ASSUME NEW l \in Seq(Nat), NEW w \in Nat, NEW left, Keeps(l, w, left)
    PROVE  Keeps(Append(l, w + 1), w + 1, left)
<1> DEFINE k == Append(l, w + 1)
<1>1. /\ k \in Seq(Nat) /\ Len(k) = Len(l) + 1 /\ k[Len(l) + 1] = w + 1
      /\ \A i \in 1..Len(l) : k[i] = l[i]
      /\ DOMAIN k = 1..(Len(l) + 1) /\ DOMAIN l = 1..Len(l) /\ Len(l) \in Nat
  OBVIOUS
<1> HIDE DEF k
<1>2. \A i \in DOMAIN l : l[i] \in 1..w
  BY DEF Keeps, Units
<1>3. Rising(k)
  <2> SUFFICES ASSUME NEW i \in DOMAIN k, NEW j \in DOMAIN k, i < j PROVE k[i] < k[j]
    BY DEF Rising
  <2>1. i \in 1..Len(l)
    BY <1>1
  <2>2. CASE j \in 1..Len(l)
    BY <1>1, <2>1, <2>2 DEF Keeps, Rising
  <2>3. CASE j = Len(l) + 1
    BY <1>1, <1>2, <2>1, <2>3
  <2> QED
    BY <1>1, <2>2, <2>3
<1>4. Units(k) = Units(l) \cup {w + 1}
  <2>1. \A i \in DOMAIN k : k[i] \in Units(l) \cup {w + 1}
    BY <1>1, SMTT(60) DEF Units
  <2>2. \A i \in DOMAIN l : i \in DOMAIN k /\ l[i] = k[i]
    BY <1>1
  <2>3. Len(l) + 1 \in DOMAIN k
    BY <1>1
  <2> QED
    BY <1>1, <2>1, <2>2, <2>3 DEF Units
<1>5. w + 1 \notin left
  <2>1. left \subseteq 1..w
    BY DEF Keeps
  <2> QED
    BY <2>1
<1>6. 1..(w + 1) = (1..w) \cup {w + 1}
  OBVIOUS
<1> QED
  BY <1>3, <1>4, <1>5, <1>6 DEF Keeps, k

\* The line without some of its units: those that left it are accounted for.
LEMMA KeepsSome ==
    ASSUME NEW l \in Seq(Nat), NEW w \in Nat, NEW left, Keeps(l, w, left),
           NEW k \in Seq(Nat), NEW f \in [DOMAIN k -> DOMAIN l], NEW gone,
           \A i, j \in DOMAIN k : i < j => f[i] < f[j],
           \A i \in DOMAIN k : k[i] = l[f[i]],
           gone = {l[j] : j \in {e \in DOMAIN l : \A i \in DOMAIN k : f[i] # e}}
    PROVE  Keeps(k, w, left \cup gone)
<1>1. Rising(k)
  BY DEF Keeps, Rising
<1>2. Units(l) = Units(k) \cup gone
  BY DEF Units
<1>3. \A i, j \in DOMAIN l : i # j => l[i] # l[j]
  <2> TAKE i, j \in DOMAIN l
  <2>1. i \in Int /\ j \in Int /\ l[i] \in Int /\ l[j] \in Int
    OBVIOUS
  <2>2. (i < j => l[i] < l[j]) /\ (j < i => l[j] < l[i])
    BY DEF Keeps, Rising
  <2> QED
    BY <2>1, <2>2
<1>4. Units(k) \cap gone = {}
  BY <1>3 DEF Units
<1> QED
  BY <1>1, <1>2, <1>4 DEF Keeps

\* One unit that leaves the pipe at its head leaves the line.
LEMMA KeepsTail ==
    ASSUME NEW d \in Seq(Nat), NEW p \in Seq(Nat), NEW b \in Seq(Nat), p # <<>>,
           NEW w \in Nat, NEW left, Keeps(Line(d, p, b), w, left)
    PROVE  Keeps(Line(d, Tail(p), b), w, left \cup {Head(p)})
<1> DEFINE l == Line(d, p, b)
           q == Tail(p)
           k == Line(d, q, b)
           m == Len(d) + 1
<1>0. /\ q \in Seq(Nat) /\ Len(q) = Len(p) - 1 /\ Len(p) \in Nat \ {0}
      /\ \A i \in 1..Len(q) : q[i] = p[i + 1]
  OBVIOUS
<1>1. Head(p) = p[1] /\ Len(d) \in Nat /\ Len(b) \in Nat
  OBVIOUS
<1> HIDE DEF q
<1>2. Joins(l, d, p, b) /\ Joins(k, d, q, b)
  BY <1>0, ThreeParts
<1> HIDE DEF l, k
<1>3. /\ l \in Seq(Nat) /\ Len(l) = Len(d) + Len(p) + Len(b)
      /\ \A i \in 1..Len(d) : l[i] = d[i]
      /\ \A i \in 1..Len(p) : l[Len(d) + i] = p[i]
      /\ \A i \in 1..Len(b) : l[Len(d) + Len(p) + i] = b[i]
  BY <1>2 DEF Joins
<1>4. /\ k \in Seq(Nat) /\ Len(k) = Len(d) + Len(q) + Len(b)
      /\ \A i \in 1..Len(d) : k[i] = d[i]
      /\ \A i \in 1..Len(q) : k[Len(d) + i] = q[i]
      /\ \A i \in 1..Len(b) : k[Len(d) + Len(q) + i] = b[i]
  BY <1>2 DEF Joins
<1>5. Len(k) + 1 = Len(l) /\ DOMAIN k = 1..Len(k) /\ DOMAIN l = 1..Len(l) /\ Len(k) \in Nat
  BY <1>0, <1>1, <1>3, <1>4, SMTT(60)
<1>6. m \in 1..Len(l) /\ l[m] = Head(p)
  <2>1. 1 \in 1..Len(p) /\ m \in 1..(Len(d) + Len(p) + Len(b))
    BY <1>0, <1>1
  <2>2. l[Len(d) + 1] = p[1]
    BY <2>1, <1>3
  <2>3. m \in 1..Len(l)
    BY <2>1, <1>3
  <2> QED
    BY <2>2, <2>3, <1>1
<1> DEFINE f == [i \in DOMAIN k |-> IF i < m THEN i ELSE i + 1]
<1>7. f \in [DOMAIN k -> DOMAIN l]
  BY <1>5, SMTT(60)
<1>8. ASSUME NEW i \in DOMAIN k PROVE k[i] = l[f[i]]
  <2>1. CASE i <= Len(d)
    <3>1. i \in 1..Len(d) /\ f[i] = i
      BY <2>1, <1>1, <1>5
    <3> HIDE DEF f
    <3> QED
      BY <3>1, <1>3, <1>4
  <2>2. CASE Len(d) < i /\ i <= Len(d) + Len(q)
    <3> DEFINE j == i - Len(d)
    <3>1. j \in 1..Len(q) /\ j + 1 \in 1..Len(p) /\ i = Len(d) + j /\ i + 1 = Len(d) + (j + 1)
      <4>1. i \in Nat /\ Len(q) = Len(p) - 1 /\ Len(p) \in Nat
        BY <1>0, <1>5
      <4>2. Len(d) < i /\ i <= Len(d) + (Len(p) - 1)
        BY <2>2, <4>1
      <4>3. j \in 1..(Len(p) - 1) /\ j + 1 \in 1..Len(p)
        BY <4>1, <4>2, <1>1, Behind, SMTT(60)
      <4>4. i = Len(d) + j /\ i + 1 = Len(d) + (j + 1)
        BY <4>1, <1>1
      <4> QED
        BY <4>1, <4>3, <4>4
    <3>2. f[i] = i + 1
      BY <2>2, <1>1, <1>5
    <3> HIDE DEF j, f
    <3>3. k[i] = q[j] /\ l[f[i]] = p[j + 1]
      BY <3>1, <3>2, <1>3, <1>4
    <3> QED
      BY <3>1, <3>3, <1>0
  <2>3. CASE Len(d) + Len(q) < i
    <3> DEFINE j == (i - Len(d)) - Len(q)
    <3>0. i <= Len(d) + Len(q) + Len(b) /\ Len(q) \in Nat /\ i \in Nat
      <4>1. Len(q) \in Nat
        BY <1>0
      <4>2. i \in 1..Len(k)
        BY <1>5, Zenon
      <4>3. i \in Nat /\ i <= Len(k)
        BY <4>2, <1>5
      <4> QED
        BY <4>1, <4>3, <1>4
    <3>1. j \in 1..Len(b) /\ i = Len(d) + Len(q) + j
      BY <2>3, <3>0, <1>1, BehindTwo, SMTT(60)
    <3>2. i + 1 = Len(d) + Len(p) + j
      BY <3>0, <3>1, <1>0, <1>1
    <3>3. f[i] = i + 1
      BY <2>3, <3>0, <1>1, <1>5
    <3> HIDE DEF j, f
    <3>4. k[i] = b[j]
      BY <3>1, <1>4
    <3>5. l[i + 1] = b[j]
      BY <3>1, <3>2, <1>3
    <3> QED
      BY <3>3, <3>4, <3>5
  <2>4. i \in Nat /\ Len(q) \in Nat
    BY <1>0, <1>5, SMTT(60)
  <2> QED
    BY <2>1, <2>2, <2>3, <2>4, <1>1
<1>9. \A i, j \in DOMAIN k : i < j => f[i] < f[j]
  BY <1>1, <1>5, SMTT(60)
<1>10. {Head(p)} = {l[j] : j \in {e \in DOMAIN l : \A i \in DOMAIN k : f[i] # e}}
  <2>1. \A i \in DOMAIN k : f[i] # m
    BY <1>1, <1>5, SMTT(60)
  <2>2. ASSUME NEW e \in DOMAIN l, e # m PROVE \E i \in DOMAIN k : f[i] = e
    <3>1. CASE e < m
      <4>1. e \in DOMAIN k /\ f[e] = e
        BY <2>2, <3>1, <1>5, <1>6
      <4> QED
        BY <4>1
    <3>2. CASE e > m
      <4>1. e - 1 \in DOMAIN k /\ f[e - 1] = e
        BY <2>2, <3>2, <1>1, <1>5, <1>6, SMTT(60)
      <4> QED
        BY <4>1
    <3>3. e \in Int /\ m \in Int
      BY <1>1, <1>5
    <3> HIDE DEF m
    <3> QED
      BY <2>2, <3>1, <3>2, <3>3
  <2> HIDE DEF f
  <2>3. {e \in DOMAIN l : \A i \in DOMAIN k : f[i] # e} = {m}
    BY <2>1, <2>2, <1>5, <1>6
  <2> QED
    BY <2>3, <1>6, ZenonT(60)
<1>11. Keeps(l, w, left)
  BY DEF l
<1> HIDE DEF f, m
<1>12. k \in Seq(Nat) /\ l \in Seq(Nat)
  BY <1>3, <1>4
<1>13. Keeps(k, w, left \cup {Head(p)})
  BY <1>7, <1>8, <1>9, <1>10, <1>11, <1>12, KeepsSome, ZenonT(60)
<1> QED
  BY <1>13 DEF k, q

\* The units of a buffer that is thrown away leave the line.
LEMMA KeepsFront ==
    ASSUME NEW d \in Seq(Nat), NEW p \in Seq(Nat), NEW b \in Seq(Nat),
           NEW w \in Nat, NEW left, Keeps(Line(d, p, b), w, left)
    PROVE  Keeps(Line(d, p, <<>>), w, left \cup Units(b))
<1> DEFINE l == Line(d, p, b)
           none == <<>>
           k == Line(d, p, none)
           m == Len(d) + Len(p)
<1>0. none \in Seq(Nat) /\ Len(none) = 0
  OBVIOUS
<1>1. Len(d) \in Nat /\ Len(b) \in Nat /\ Len(p) \in Nat /\ DOMAIN b = 1..Len(b)
  OBVIOUS
<1> HIDE DEF none
<1>2. Joins(l, d, p, b) /\ Joins(k, d, p, none)
  BY <1>0, ThreeParts
<1> HIDE DEF l, k
<1>3. /\ l \in Seq(Nat) /\ Len(l) = m + Len(b)
      /\ \A i \in 1..Len(d) : l[i] = d[i]
      /\ \A i \in 1..Len(p) : l[Len(d) + i] = p[i]
      /\ \A i \in 1..Len(b) : l[m + i] = b[i]
  BY <1>2 DEF Joins
<1>4. /\ k \in Seq(Nat) /\ Len(k) = m
      /\ \A i \in 1..Len(d) : k[i] = d[i]
      /\ \A i \in 1..Len(p) : k[Len(d) + i] = p[i]
  BY <1>0, <1>1, <1>2 DEF Joins
<1>5. /\ DOMAIN k = 1..m /\ DOMAIN l = 1..(m + Len(b)) /\ m \in Nat
  BY <1>1, <1>3, <1>4
<1>6. ASSUME NEW i \in DOMAIN k PROVE k[i] = l[i]
  <2>1. CASE i <= Len(d)
    BY <2>1, <1>1, <1>3, <1>4, <1>5
  <2>2. CASE Len(d) < i
    <3> DEFINE j == i - Len(d)
    <3>1. j \in 1..Len(p) /\ i = Len(d) + j
      BY <2>2, <1>1, <1>5
    <3> HIDE DEF j
    <3> QED
      BY <3>1, <1>3, <1>4
  <2> QED
    BY <2>1, <2>2, <1>1, <1>5
<1> DEFINE f == [i \in DOMAIN k |-> i]
<1>7. f \in [DOMAIN k -> DOMAIN l]
  BY <1>1, <1>5
<1>8. \A i \in DOMAIN k : k[i] = l[f[i]]
  BY <1>6
<1>9. \A i, j \in DOMAIN k : i < j => f[i] < f[j]
  OBVIOUS
<1>10. Units(b) = {l[j] : j \in {e \in DOMAIN l : \A i \in DOMAIN k : f[i] # e}}
  <2>1. {e \in DOMAIN l : \A i \in DOMAIN k : f[i] # e} = {e \in DOMAIN l : m < e}
    BY <1>1, <1>5
  <2>2. \A i \in DOMAIN b : m + i \in {e \in DOMAIN l : m < e} /\ b[i] = l[m + i]
    BY <1>1, <1>3, <1>5, SMTT(60)
  <2>3. ASSUME NEW e \in DOMAIN l, m < e PROVE e - m \in DOMAIN b /\ b[e - m] = l[e]
    <3>1. e - m \in 1..Len(b) /\ e = m + (e - m)
      BY <2>3, <1>1, <1>5
    <3> QED
      BY <3>1, <1>1, <1>3
  <2> HIDE DEF m
  <2>4. Units(b) = {l[j] : j \in {e \in DOMAIN l : m < e}}
    BY <2>2, <2>3 DEF Units
  <2> QED
    BY <2>1, <2>4
<1>11. Keeps(l, w, left)
  BY DEF l
<1> HIDE DEF f, m
<1>12. Keeps(k, w, left \cup Units(b))
  BY <1>3, <1>4, <1>7, <1>8, <1>9, <1>10, <1>11, KeepsSome, ZenonT(60)
<1> QED
  BY <1>12 DEF k, none

----------------------------------------------------------------------------
KeepsData == Keeps(Line(delivered, pipe, wt.buffer), written, taken \cup dropped)

\* Every step keeps the account of the units.
LEMMA KeepsDataStep ==
    ASSUME PipeTypeOK, KeepsData, [PipeNext]_<<fdLoopVars, pipeVars>>
    PROVE  KeepsData'
<1> USE DEF ghosts, fdLoopVars, pipeVars
<1>0. /\ delivered \in Seq(Nat) /\ pipe \in Seq(Nat) /\ wt.buffer \in Seq(Nat)
      /\ written \in Nat /\ wt \in Writer
  BY DEF PipeTypeOK, Writer
<1>1. CASE OtherReads
  <2>1. /\ pipe # <<>> /\ pipe' = Tail(pipe) /\ taken' = taken \cup {Head(pipe)}
        /\ UNCHANGED <<delivered, wt, written, dropped>>
    BY <1>1 DEF OtherReads
  <2>2. Keeps(Line(delivered, Tail(pipe), wt.buffer), written, (taken \cup dropped) \cup {Head(pipe)})
    BY <1>0, <2>1, KeepsTail DEF KeepsData
  <2>3. taken' \cup dropped' = (taken \cup dropped) \cup {Head(pipe)}
    BY <2>1
  <2> QED
    BY <2>1, <2>2, <2>3 DEF KeepsData
<1>2. CASE OtherExits
  BY <1>2 DEF OtherExits, KeepsData
<1>3. CASE ConnectFails
  <2>1. wt'.buffer = wt.buffer /\ UNCHANGED <<delivered, pipe, written, taken, dropped>>
    BY <1>0, <1>3 DEF ConnectFails, Writer
  <2> QED
    BY <2>1 DEF KeepsData
<1>4. CASE ConnectRead
  BY <1>4 DEF ConnectRead, KeepsData
<1>5. CASE ConnectWrite
  <2>1. wt'.buffer = wt.buffer /\ UNCHANGED <<delivered, pipe, written, taken, dropped>>
    BY <1>0, <1>5 DEF ConnectWrite, Writer
  <2> QED
    BY <2>1 DEF KeepsData
<1>6. CASE PauseReading
  BY <1>6 DEF PauseReading, KeepsData
<1>7. CASE ResumeReading
  BY <1>7 DEF ResumeReading, KeepsData
<1>8. CASE CloseRead
  BY <1>8 DEF CloseRead, KeepsData
<1>9. CASE Write
  <2>1. /\ wt'.buffer = Append(wt.buffer, written + 1) /\ written' = written + 1
        /\ UNCHANGED <<delivered, pipe, taken, dropped>>
    BY <1>9, WriteIs DEF Write
  <2>2. Line(delivered, pipe, wt'.buffer) = Append(Line(delivered, pipe, wt.buffer), written + 1)
    <3>1. written + 1 \in Nat
      BY <1>0
    <3>2. Line(delivered, pipe, Append(wt.buffer, written + 1))
            = Append(Line(delivered, pipe, wt.buffer), written + 1)
      BY <1>0, <3>1, MoveToBuffer, ZenonT(60)
    <3> QED
      BY <2>1, <3>2
  <2>3. Line(delivered, pipe, wt.buffer) \in Seq(Nat)
    BY <1>0, ThreeParts DEF Joins
  <2> QED
    BY <1>0, <2>1, <2>2, <2>3, KeepsAppend DEF KeepsData
<1>10. CASE CloseWrite
  BY <1>10, CloseWriteIs DEF CloseWrite, KeepsData
<1>11. CASE Abort
  <2>1. /\ wt'.buffer = <<>> /\ dropped' = dropped \cup Units(wt.buffer)
        /\ UNCHANGED <<delivered, pipe, written, taken>>
    BY <1>11, AbortIs DEF Abort
  <2>2. Keeps(Line(delivered, pipe, <<>>), written, (taken \cup dropped) \cup Units(wt.buffer))
    BY <1>0, KeepsFront DEF KeepsData
  <2>3. taken' \cup dropped' = (taken \cup dropped) \cup Units(wt.buffer)
    BY <2>1
  <2> QED
    BY <2>1, <2>2, <2>3 DEF KeepsData
<1>12. CASE Made
  <2>1. wt'.buffer = wt.buffer /\ UNCHANGED <<delivered, pipe, written, taken, dropped>>
    BY <1>0, <1>12 DEF Made, Writer
  <2> QED
    BY <2>1 DEF KeepsData
<1>13. CASE ReadData
  <2>1. /\ delivered' = delivered \o pipe /\ pipe' = <<>>
        /\ UNCHANGED <<wt, written, taken, dropped>>
    BY <1>13 DEF ReadData
  <2>2. Line(delivered', pipe', wt'.buffer) = Line(delivered, pipe, wt.buffer)
    BY <1>0, <2>1, MoveToReader
  <2> QED
    BY <2>1, <2>2 DEF KeepsData
<1>14. CASE ReadNothing
  BY <1>14 DEF ReadNothing, KeepsData
<1>15. ASSUME NEW n \in 1..Len(wt.buffer), WriteSome(n) PROVE KeepsData'
  <2>1. /\ pipe' = pipe \o SubSeq(wt.buffer, 1, n)
        /\ UNCHANGED <<delivered, written, taken, dropped>>
    BY <1>15 DEF WriteSome
  <2>2. wt'.buffer = SubSeq(wt.buffer, n + 1, Len(wt.buffer))
    BY <1>15, WriteSomeIs DEF Rest
  <2>3. Line(delivered', pipe', wt'.buffer) = Line(delivered, pipe, wt.buffer)
    BY <1>0, <2>1, <2>2, MoveToPipe
  <2> QED
    BY <2>1, <2>3 DEF KeepsData
<1>16. CASE WriteLastAndClose
  <2>1. /\ pipe' = pipe \o wt.buffer
        /\ UNCHANGED <<delivered, written, taken, dropped>>
    BY <1>16 DEF WriteLastAndClose
  <2>2. wt'.buffer = <<>>
    BY <1>16, WriteLastIs
  <2>3. Line(delivered, pipe \o wt.buffer, <<>>) = Line(delivered, pipe, wt.buffer)
    BY <1>0, MoveAll
  <2> QED
    BY <2>1, <2>2, <2>3 DEF KeepsData
<1>17. CASE WriteNothing
  <2>1. wt'.buffer = wt.buffer /\ UNCHANGED <<delivered, pipe, written, taken, dropped>>
    BY <1>0, <1>17 DEF WriteNothing, Writer
  <2> QED
    BY <2>1 DEF KeepsData
<1>18. ASSUME NEW live, Poll(live), UNCHANGED pipeVars PROVE KeepsData'
  BY <1>18 DEF KeepsData
<1>19. CASE UNCHANGED <<fdLoopVars, pipeVars>>
  BY <1>19 DEF KeepsData
<1>20. ASSUME NEW high, NEW low, SetLimits(high, low) PROVE KeepsData'
  BY <1>20 DEF SetLimits, KeepsData
<1> QED
  BY <1>1, <1>2, <1>3, <1>4, <1>5, <1>6, <1>7, <1>8, <1>9, <1>10, <1>11, <1>12,
     <1>13, <1>14, <1>15, <1>16, <1>17, <1>18, <1>19, <1>20
  DEF PipeNext, PipeLoop, WriteProgress

----------------------------------------------------------------------------
(***************************************************************************)
(* Theorems                                                                *)
(***************************************************************************)
\* The invariant holds at the start.
LEMMA PipeInitial == FdLoopInit /\ PipeInit => PipeInv /\ KeepsData
<1> SUFFICES ASSUME FdLoopInit, PipeInit PROVE PipeInv /\ KeepsData
  OBVIOUS
<1> USE DEF FdLoopInit, PipeInit
<1>1. PipeTypeOK
  <2>1. /\ limits \in [high : Nat, low : Nat, zero : BOOLEAN]
        /\ limits.low = 0 => limits.zero
    <3>1. HighWater \in Nat /\ LowWater \in Nat
      BY PipeAssumption DEF PipeAssumption
    <3>2. (LowWater = 0) \in BOOLEAN
      OBVIOUS
    <3> QED
      BY <3>1, <3>2
  <2>2. rt \in Reader /\ wt \in Writer
    BY DEF NoReader, NoWriter, Reader, Writer
  <2> QED
    BY <2>1, <2>2 DEF PipeTypeOK
<1>2. ReaderLife /\ WriterLife /\ MadeFirst /\ Ends
  BY DEF ReaderLife, WriterLife, MadeFirst, Ends, PipeEndedOnce, PipeWatchesLive,
         PausedHasBacklog, NoReader, NoWriter
<1>3. KeepsData
  <2>1. delivered = <<>> /\ pipe = <<>> /\ wt.buffer = <<>> /\ written = 0
        /\ taken = {} /\ dropped = {}
    BY DEF NoWriter
  <2>2. Line(delivered, pipe, wt.buffer) = <<>>
    BY <2>1 DEF Line
  <2>3. Rising(<<>>) /\ Units(<<>>) = {}
    BY DEF Rising, Units
  <2> QED
    BY <2>1, <2>2, <2>3 DEF KeepsData, Keeps
<1> QED
  BY <1>1, <1>2, <1>3 DEF PipeInv

\* And every step keeps it.
LEMMA PipeInvStep ==
    PipeInv /\ KeepsData /\ [PipeNext]_<<fdLoopVars, pipeVars>> => PipeInv' /\ KeepsData'
  BY PipeTypeStep, ReaderLifeStep, WriterLifeStep, MadeFirstStep, EndsStep, KeepsDataStep
  DEF PipeInv, Ends

\* Every reachable state of the two transports and their pipe has the invariant.
LEMMA PipeInvariant == PipeSpec => [](PipeInv /\ KeepsData)
  BY PipeInitial, PipeInvStep, PTL DEF PipeSpec

\* Whatever close(), abort(), failing flushes and the other reader do, every
\* unit given to WritePipeTransport.write is in exactly one place, and the
\* protocol of ReadPipeTransport gets units in the order they were written.
THEOREM PipeKeepsDataCorrect == PipeSpec => []PipeKeepsData
<1>1. KeepsData => PipeKeepsData
  BY DEF KeepsData, Keeps, Rising, Line, PipeKeepsData
<1> QED
  BY <1>1, PipeInvariant, PTL

\* A pipe transport closes its descriptor and calls connection_lost(None) together
\* and once, but for a WritePipeTransport made on a closed pipe object.  The
\* connection_lost(exc) of an error is not counted.
THEOREM PipeEndedOnceCorrect == PipeSpec => []PipeEndedOnce
<1>1. PipeInv => PipeEndedOnce
  BY DEF PipeInv, Ends
<1> QED
  BY <1>1, PipeInvariant, PTL

\* The loop watches a pipe only while its transport can use what it reports.
THEOREM PipeWatchesLiveCorrect == PipeSpec => []PipeWatchesLive
<1>1. PipeInv => PipeWatchesLive
  BY DEF PipeInv, Ends
<1> QED
  BY <1>1, PipeInvariant, PTL

\* A protocol that was told pause_writing has data waiting or is closing, for all
\* marks and changes of them, unless the low mark is or was 0.
THEOREM PausedHasBacklogCorrect == PipeSpec => []PausedHasBacklog
<1>1. PipeInv => PausedHasBacklog
  BY DEF PipeInv, Ends
<1> QED
  BY <1>1, PipeInvariant, PTL

\* data_received comes after connection_made, not while reading is paused and
\* not after close(), although _read_ready may be queued before those.
THEOREM DataOnlyWhileReadingCorrect == PipeSpec => DataOnlyWhileReading
<1>1. ASSUME PipeInv, [PipeNext]_<<fdLoopVars, pipeVars>>
      PROVE  [delivered' # delivered => rt.made /\ ~rt.paused /\ ~rt.closing]_delivered
  <2> SUFFICES ASSUME delivered' # delivered PROVE rt.made /\ ~rt.paused /\ ~rt.closing
    BY SMTT(60)
  <2>1. ReadData
    BY <1>1, ZenonT(60) DEF PipeNext, PipeLoop, WriteProgress, OtherReads, OtherExits, ConnectFails,
                ConnectRead, ConnectWrite, PauseReading, ResumeReading, CloseRead, Write,
                CloseWrite, Abort, SetLimits, Made, ReadNothing, WriteSome, WriteLastAndClose,
                WriteNothing, ghosts, pipeVars
  <2>2. ~rt.paused /\ ~rt.closing
    BY <2>1 DEF ReadData, IgnoresReadiness
  <2>3. 1 \in DOMAIN ready /\ ready[1] = "read"
    BY <1>1, <2>1, ReturnShifts DEF ReadData, PipeInv
  <2>4. rt.on
    BY <1>1, <2>3 DEF PipeInv, ReaderLife
  <2>5. rt.made
    <3> SUFFICES ASSUME ~rt.made PROVE FALSE
      OBVIOUS
    <3>1. PICK k \in DOMAIN ready : /\ ready[k] = "readMade"
                                    /\ \A j \in DOMAIN ready : ready[j] = "read" => k < j
      BY <1>1, <2>4 DEF PipeInv, MadeFirst
    <3>2. k < 1
      BY <2>3, <3>1
    <3>3. ready \in Seq(Callbacks)
      BY <1>1 DEF PipeInv, PipeTypeOK
    <3> QED
      BY <3>1, <3>2, <3>3
  <2> QED
    BY <2>2, <2>5
<1>2. PipeInv /\ [PipeNext]_<<fdLoopVars, pipeVars>> =>
        [delivered' # delivered => rt.made /\ ~rt.paused /\ ~rt.closing]_delivered
  BY <1>1
<1> QED
  BY <1>2, PipeInvariant, PTL DEF PipeSpec, DataOnlyWhileReading
============================================================================
