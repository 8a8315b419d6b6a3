-------------------------- MODULE EventLoopProofs --------------------------
(***************************************************************************)
(* Proofs about EventLoop, for any number of handles, threads, descriptors *)
(* and futures.                                                            *)
(***************************************************************************)
EXTENDS EventLoop, FiniteSetTheorems, SequenceTheorems, TLAPS

\* What NoLostWakeup needs to know of the threads.
PcOK == pc \in [Threads -> {"idle", "pushed"}]

\* NoLostWakeup is inductive: the loop goes to epoll only with an empty queue,
\* nobody but a thread pushes while it is there, and a thread that pushed is
\* about to write until it has written.
LEMMA WakeupStep ==
    PcOK /\ NoLostWakeup /\ [LoopNext]_loopVars => PcOK' /\ NoLostWakeup'
<1> SUFFICES ASSUME PcOK, NoLostWakeup, [LoopNext]_loopVars
             PROVE  PcOK' /\ NoLostWakeup'
  OBVIOUS
<1> USE DEF PcOK, NoLostWakeup, schedVars, runVars, watchVars, doneVars
<1>1. CASE Clock
  BY <1>1 DEF Clock
<1>2. CASE CompletionSignal
  BY <1>2 DEF CompletionSignal
<1>3. ASSUME NEW fd \in Fds, NEW d \in Directions,
             AddWatch(fd, d) \/ AddWatchFails(fd, d) \/ RemoveWatch(fd, d)
      PROVE  PcOK' /\ NoLostWakeup'
  BY <1>3 DEF AddWatch, AddWatchFails, RemoveWatch
<1>4. ASSUME NEW t \in Threads, ThreadWrite(t)
      PROVE  PcOK' /\ NoLostWakeup'
  BY <1>4 DEF ThreadWrite
<1>5. ASSUME NEW t \in Threads, NEW h \in Handles, ThreadPush(t, h)
      PROVE  PcOK' /\ NoLostWakeup'
  <2>1. pc' = [pc EXCEPT ![t] = "pushed"]
    BY <1>5 DEF ThreadPush
  <2>2. pc'[t] = "pushed" /\ PcOK'
    BY <2>1
  <2> QED BY <2>2
<1>6. ASSUME NEW h \in Handles, CallSoon(h) \/ CancelHandle(h)
      PROVE  PcOK' /\ NoLostWakeup'
  BY <1>6 DEF CallSoon, CancelHandle, AppRuns
<1>7. ASSUME NEW h \in Handles, NEW w \in 0..MaxTime, CallAt(h, w)
      PROVE  PcOK' /\ NoLostWakeup'
  BY <1>7 DEF CallAt
<1>8. CASE Stop
  BY <1>8 DEF Stop
<1>9. ASSUME NEW f \in Futures, Finish(f) \/ RunUntilComplete(f)
      PROVE  PcOK' /\ NoLostWakeup'
  BY <1>9 DEF Finish, RunUntilComplete, AppRuns
<1>10. CASE RunForever
  BY <1>10 DEF RunForever
<1>11. CASE Close
  BY <1>11 DEF Close
<1>12. CASE EndLoop
  BY <1>12 DEF EndLoop
<1>13. CASE Top
  BY <1>13 DEF Top
<1>14. CASE PollReturns
  BY <1>14 DEF PollReturns
<1>15. CASE EndEvents
  BY <1>15 DEF EndEvents
<1>16. CASE Execute
  BY <1>16 DEF Execute
<1>17. CASE Return
  BY <1>17 DEF Return
<1>18. CASE EndTick
  BY <1>18 DEF EndTick
<1>19. ASSUME NEW e \in events, HandleEvent(e)
       PROVE  PcOK' /\ NoLostWakeup'
  BY <1>19 DEF HandleEvent
<1>20. ASSUME NEW s \in PopOrders, Tick(s) \/ TickFails(s)
       PROVE  PcOK' /\ NoLostWakeup'
  BY <1>20 DEF Tick, TickFails, LeavesLoop
<1>21. CASE UNCHANGED loopVars
  BY <1>21 DEF loopVars
<1>22. ASSUME NEW fd \in Fds, CloseFd(fd) \/ OpenFd(fd)
       PROVE  PcOK' /\ NoLostWakeup'
  BY <1>22 DEF CloseFd, OpenFd
<1>23. CASE EndProcess \/ ProcessFails
  BY <1>23 DEF EndProcess, ProcessFails, LeavesLoop
<1> QED
  BY <1>1, <1>2, <1>3, <1>4, <1>5, <1>6, <1>7, <1>8, <1>9, <1>10, <1>11, <1>12, <1>13,
     <1>14, <1>15, <1>16, <1>17, <1>18, <1>19, <1>20, <1>21, <1>22, <1>23
  DEF LoopNext, LoopStep

\* A callback scheduled with call_soon_threadsafe never waits for epoll's
\* timeout, for any number of threads.
THEOREM WakeupCorrect == LoopSpec => []NoLostWakeup
<1>1. LoopInit => PcOK /\ NoLostWakeup
  BY DEF LoopInit, PcOK, NoLostWakeup
<1> QED BY <1>1, WakeupStep, PTL DEF LoopSpec

----------------------------------------------------------------------------
\* What EpollMatchesWatches needs to know of the maps and of closed descriptors.
WatchesOK ==
    /\ watched \in [Fds -> SUBSET Directions] /\ mask \in [Fds -> SUBSET Directions]
    /\ EpollMatchesWatches

\* add_reader, add_writer, remove_reader and remove_writer, closing and opening
\* descriptors keep epoll's mask right; nothing else touches it or the maps.
LEMMA EpollStep == WatchesOK /\ [LoopNext]_loopVars => WatchesOK'
<1> SUFFICES ASSUME WatchesOK, [LoopNext]_loopVars
             PROVE  WatchesOK'
  OBVIOUS
<1> DEFINE Agrees(m, w, a, fd) == m[fd] = w[fd] \/ (m[fd] = {} /\ fd \in a)
<1>1. /\ watched \in [Fds -> SUBSET Directions] /\ mask \in [Fds -> SUBSET Directions]
      /\ \A fd \in Fds : Agrees(mask, watched, abandoned, fd)
  BY DEF WatchesOK, EpollMatchesWatches
<1>2. ASSUME NEW fd \in Fds, NEW m \in SUBSET Directions, NEW w \in SUBSET Directions,
             mask' = [mask EXCEPT ![fd] = m], watched' = [watched EXCEPT ![fd] = w],
             abandoned \ {fd} \subseteq abandoned',
             m = w \/ (m = {} /\ fd \in abandoned')
      PROVE  WatchesOK'
  <2>1. /\ mask' \in [Fds -> SUBSET Directions] /\ mask'[fd] = m
        /\ watched' \in [Fds -> SUBSET Directions] /\ watched'[fd] = w
        /\ \A gd \in Fds : gd # fd => mask'[gd] = mask[gd] /\ watched'[gd] = watched[gd]
    BY <1>1, <1>2
  <2>2. \A gd \in Fds : Agrees(mask', watched', abandoned', gd)
    <3> SUFFICES ASSUME NEW gd \in Fds
                 PROVE  Agrees(mask', watched', abandoned', gd)
      OBVIOUS
    <3>1. CASE gd = fd
      BY <1>2, <2>1, <3>1
    <3>2. CASE gd # fd
      <4>1. Agrees(mask, watched, abandoned, gd)
        BY <1>1
      <4> QED BY <1>2, <2>1, <3>2, <4>1
    <3> QED BY <3>1, <3>2
  <2> QED BY <2>1, <2>2 DEF WatchesOK, EpollMatchesWatches
<1>3. ASSUME NEW fd \in Fds, NEW d \in Directions, AddWatch(fd, d)
      PROVE  WatchesOK'
  <2>1. MaskWith(fd, d) = watched[fd] \cup {d}
    BY DEF MaskWith
  <2>2. watched[fd] \cup {d} \in SUBSET Directions
    BY <1>1
  <2>3. /\ mask' = [mask EXCEPT ![fd] = watched[fd] \cup {d}]
        /\ watched' = [watched EXCEPT ![fd] = watched[fd] \cup {d}]
        /\ abandoned' = abandoned \ {fd}
    BY <1>3, <2>1 DEF AddWatch
  <2> QED BY <1>2, <2>2, <2>3
<1>4. ASSUME NEW fd \in Fds, NEW d \in Directions, AddWatchFails(fd, d) \/ RemoveWatch(fd, d)
      PROVE  WatchesOK'
  <2>1. /\ mask' = [mask EXCEPT ![fd] = MaskWithout(fd, d)]
        /\ watched' = [watched EXCEPT ![fd] = watched[fd] \ {d}]
        /\ abandoned' = abandoned
    BY <1>4 DEF AddWatchFails, RemoveWatch
  <2>2. /\ MaskWithout(fd, d) \in SUBSET Directions
        /\ watched[fd] \ {d} \in SUBSET Directions
    BY <1>1 DEF MaskWithout
  <2>3. \/ MaskWithout(fd, d) = watched[fd] \ {d}
        \/ MaskWithout(fd, d) = {} /\ fd \in abandoned
    <3>1. Agrees(mask, watched, abandoned, fd)
      BY <1>1
    <3> QED BY <3>1 DEF MaskWithout
  <2> QED BY <1>2, <2>1, <2>2, <2>3
<1>5. ASSUME NEW fd \in Fds, CloseFd(fd)
      PROVE  WatchesOK'
  <2>1. /\ mask' = [mask EXCEPT ![fd] = {}] /\ watched' = watched
        /\ abandoned' = IF watched[fd] # {} THEN abandoned \cup {fd} ELSE abandoned
    BY <1>5 DEF CloseFd
  <2>2. watched' = [watched EXCEPT ![fd] = watched[fd]] /\ watched[fd] \in SUBSET Directions
    BY <1>1, <2>1
  <2> QED BY <1>2, <2>1, <2>2
<1>6. ASSUME UNCHANGED <<watched, mask, abandoned>>
      PROVE  WatchesOK'
  BY <1>6 DEF WatchesOK, EpollMatchesWatches
<1>7. \/ UNCHANGED <<watched, mask, abandoned>>
      \/ \E fd \in Fds, d \in Directions :
            AddWatch(fd, d) \/ AddWatchFails(fd, d) \/ RemoveWatch(fd, d)
      \/ \E fd \in Fds : CloseFd(fd)
  BY ZenonT(60)
  DEF LoopNext, LoopStep, loopVars, watchVars, Clock, CompletionSignal, ThreadWrite,
      ThreadPush, CallSoon, CancelHandle, CallAt, Stop, Finish, RunUntilComplete,
      RunForever, Close, EndLoop, Top, PollReturns, EndEvents, Execute, Return, EndTick,
      EndProcess, ProcessFails, HandleEvent, Tick, TickFails, OpenFd
<1> QED BY <1>3, <1>4, <1>5, <1>6, <1>7

\* Epoll watches what the maps of readers and writers say, whatever the kernel
\* refused, except for descriptors closed under their callbacks.
THEOREM EpollCorrect == LoopSpec => []EpollMatchesWatches
<1>1. LoopInit => WatchesOK
  BY DEF LoopInit, WatchesOK, EpollMatchesWatches
<1>2. WatchesOK => EpollMatchesWatches
  BY DEF WatchesOK
<1> QED BY <1>1, <1>2, EpollStep, PTL DEF LoopSpec

----------------------------------------------------------------------------
(***************************************************************************)
(* The ready queue.  What the batch still holds, followed by the queue, is *)
(* one queue that only grows at its end and shrinks at its front.          *)
(***************************************************************************)
Pending == batch \o queue
Has(q, e) == \E i \in 1..Len(q) : q[i] = e
NoDup(q) == \A i, j \in 1..Len(q) : q[i] = q[j] => i = j

\* The types of all variables, without the count of queued callbacks.
LoopTypes ==
    /\ queue \in Seq(Items) /\ batch \in Seq(Items)
    /\ current \in Items \cup {None}
    /\ cancelled \subseteq HandleItems
    /\ heap \subseteq Handles
    /\ when \in [Handles -> 0..MaxTime]
    /\ now \in 0..MaxTime
    /\ phase \in {"idle", "top", "poll", "events", "tick", "batch", "call",
                 "process"}
    /\ events \subseteq WatchItems \cup {Item("eventfd", None)}
    /\ pc \in [Threads -> {"idle", "pushed"}]
    /\ watched \in [Fds -> SUBSET Directions]
    /\ mask \in [Fds -> SUBSET Directions]
    /\ opened \subseteq Fds /\ abandoned \subseteq Fds
    /\ finished \subseteq Futures /\ stopOnDone \subseteq Futures \ finished
    /\ target \in Futures \cup {None}
    /\ stopping \in Futures \cup {None, "app"}

(***************************************************************************)
(* No callback is pending twice.  That needs to know why each source can   *)
(* add to the queue: a timer in the heap is not pending, the callback of a *)
(* future that is not done is not pending, and between epoll and the tick  *)
(* no reader or writer is pending that epoll may still report.             *)
(***************************************************************************)
Apart ==
    /\ NoDup(Pending)
    /\ \A h \in heap : ~Has(Pending, Item("handle", h))
    /\ \A f \in Futures \ finished : ~Has(Pending, StopItem(f))

PhaseInv ==
    /\ phase \notin {"batch", "call"} => batch = <<>>
    /\ phase = "poll" => \A i \in 1..Len(queue) : queue[i] \in HandleItems
    /\ phase = "events" => \A e \in events : ~Has(queue, e)
    /\ phase # "call" => current = None

\* The three sorts of callbacks, and the eventfd, are told apart.
LEMMA ItemKinds ==
    /\ \A w, id : Item(w, id).what = w /\ Item(w, id).id = id
    /\ \A e \in HandleItems : e.what = "handle" /\ e.id \in Handles
    /\ \A e \in WatchItems : e.what \in {"r", "w"} /\ e.id \in Fds
    /\ \A h \in Handles : Item("handle", h) \in HandleItems
    /\ \A f \in Futures : StopItem(f) \in Items /\ StopItem(f).what = "stop"
    /\ \A e \in Items : \/ e \in HandleItems \/ e \in WatchItems
                        \/ \E f \in Futures : e = StopItem(f)
    /\ HandleItems \subseteq Items /\ WatchItems \subseteq Items
<1>1. \A w, id : Item(w, id).what = w /\ Item(w, id).id = id
  BY DEF Item
<1>2. \A e \in HandleItems : e.what = "handle" /\ e.id \in Handles
  BY <1>1 DEF HandleItems
<1>3. \A e \in WatchItems : e.what \in {"r", "w"} /\ e.id \in Fds
  BY <1>1 DEF WatchItems, Directions
<1>4. \A h \in Handles : Item("handle", h) \in HandleItems
  BY DEF HandleItems
<1>5. \A f \in Futures : StopItem(f) \in Items /\ StopItem(f).what = "stop"
  BY <1>1 DEF StopItem, Items
<1>6. \A e \in Items : \/ e \in HandleItems \/ e \in WatchItems
                       \/ \E f \in Futures : e = StopItem(f)
  BY DEF Items
<1>7. HandleItems \subseteq Items /\ WatchItems \subseteq Items
  BY DEF Items
<1> QED
  BY <1>1, <1>2, <1>3, <1>4, <1>5, <1>6, <1>7

\* What is queued is what is pending.
LEMMA QueuedPending ==
    ASSUME LoopTypes
    PROVE  /\ Pending \in Seq(Items)
           /\ \A e : e \in Queued <=> Has(Pending, e)
           /\ \A e : Has(Pending, e) <=> Has(batch, e) \/ Has(queue, e)
<1>1. batch \in Seq(Items) /\ queue \in Seq(Items)
  BY DEF LoopTypes
<1>2. Pending \in Seq(Items) /\ Len(Pending) = Len(batch) + Len(queue)
  BY <1>1 DEF Pending
<1>3. \A i \in 1..Len(batch) : i \in 1..Len(Pending) /\ Pending[i] = batch[i]
  BY <1>1 DEF Pending
<1>4. \A i \in 1..Len(queue) :
         Len(batch) + i \in 1..Len(Pending) /\ Pending[Len(batch) + i] = queue[i]
  BY <1>1 DEF Pending
<1>5. ASSUME NEW i \in 1..Len(Pending)
      PROVE  \/ i \in 1..Len(batch)
             \/ i - Len(batch) \in 1..Len(queue) /\ Pending[i] = queue[i - Len(batch)]
  BY <1>1 DEF Pending
<1>6. \A e : Has(Pending, e) <=> Has(batch, e) \/ Has(queue, e)
  <2> TAKE e
  <2>1. Has(batch, e) \/ Has(queue, e) => Has(Pending, e)
    BY <1>3, <1>4, Zenon DEF Has
  <2>2. Has(Pending, e) => Has(batch, e) \/ Has(queue, e)
    BY <1>3, <1>5, Zenon DEF Has
  <2> QED
    BY <2>1, <2>2
<1>7. \A e : e \in Queued <=> Has(batch, e) \/ Has(queue, e)
  BY DEF Queued, Has
<1> QED
  BY <1>2, <1>6, <1>7

\* A queue without duplicates to which others are appended.
LEMMA Grow ==
    ASSUME NEW p \in Seq(Items), NEW t \in Seq(Items), NoDup(p), NoDup(t),
           \A j \in 1..Len(t) : ~Has(p, t[j])
    PROVE  /\ NoDup(p \o t)
           /\ \A e : Has(p \o t, e) <=> Has(p, e) \/ Has(t, e)
           /\ Len(p \o t) = Len(p) + Len(t)
           /\ SubSeq(p \o t, 1, Len(p)) = p
<1> DEFINE q == p \o t
<1>1. q \in Seq(Items) /\ Len(q) = Len(p) + Len(t)
  OBVIOUS
<1>2. \A i \in 1..Len(p) : i \in 1..Len(q) /\ q[i] = p[i]
  OBVIOUS
<1>3. \A i \in 1..Len(t) : Len(p) + i \in 1..Len(q) /\ q[Len(p) + i] = t[i]
  OBVIOUS
<1>4. \A i \in 1..Len(q) : \/ i \in 1..Len(p)
                           \/ i - Len(p) \in 1..Len(t) /\ q[i] = t[i - Len(p)]
  OBVIOUS
<1>5. SubSeq(q, 1, Len(p)) = p
  OBVIOUS
<1> HIDE DEF q
<1>6. \A e : Has(q, e) <=> Has(p, e) \/ Has(t, e)
  <2> TAKE e
  <2>1. Has(p, e) \/ Has(t, e) => Has(q, e)
    BY <1>2, <1>3, Zenon DEF Has
  <2>2. Has(q, e) => Has(p, e) \/ Has(t, e)
    BY <1>2, <1>4, ZenonT(60) DEF Has
  <2> QED
    BY <2>1, <2>2
<1>7. NoDup(q)
  <2> SUFFICES ASSUME NEW i \in 1..Len(q), NEW j \in 1..Len(q), q[i] = q[j] PROVE i = j
    BY DEF NoDup
  <2>1. CASE i \in 1..Len(p) /\ j \in 1..Len(p)
    BY <1>2, <2>1 DEF NoDup
  <2>2. CASE i \notin 1..Len(p) /\ j \notin 1..Len(p)
    <3>1. i - Len(p) = j - Len(p)
      BY <1>4, <2>2 DEF NoDup
    <3> QED
      BY <1>1, <3>1
  <2>3. CASE i \in 1..Len(p) /\ j \notin 1..Len(p)
    BY <1>2, <1>4, <2>3 DEF Has
  <2>4. CASE i \notin 1..Len(p) /\ j \in 1..Len(p)
    BY <1>2, <1>4, <2>4, ZenonT(60) DEF Has
  <2> QED
    BY <2>1, <2>2, <2>3, <2>4
<1> QED
  BY <1>1, <1>5, <1>6, <1>7 DEF q

\* The timers a tick pops: each expired one once, as callbacks.
LEMMA Popped ==
    ASSUME LoopTypes, NEW s, PopExpired(s)
    PROVE  /\ DOMAIN s = 1..Len(AsItems(s))
           /\ AsItems(s) \in Seq(Items) /\ NoDup(AsItems(s))
           /\ \A i \in 1..Len(AsItems(s)) :
                 s[i] \in Expired /\ AsItems(s)[i] = Item("handle", s[i])
           /\ \A h \in Expired : Has(AsItems(s), Item("handle", h))
           /\ \A e : Has(AsItems(s), e) => \E h \in Expired : e = Item("handle", h)
<1> DEFINE E == Expired
           N == Cardinality(E)
           t == AsItems(s)
<1>1. s \in [1..N -> E] /\ {s[i] : i \in DOMAIN s} = E
  BY DEF PopExpired
<1>2. IsFiniteSet(E) /\ N \in Nat
  <2>1. IsFiniteSet(Handles)
    BY LoopAssumption, FS_Interval DEF Handles
  <2>2. E \subseteq Handles
    BY DEF LoopTypes, Expired
  <2>3. IsFiniteSet(E)
    BY <2>1, <2>2, FS_Subset
  <2> QED
    BY <2>3, FS_CardinalityType
<1>3. DOMAIN s = 1..N /\ \A i \in 1..N : s[i] \in E
  BY <1>1
<1>4. \A i, j \in 1..N : s[i] = s[j] => i = j
  <2>1. s \in Surjection(1..N, E)
    BY <1>1, <1>3 DEF Surjection
  <2>2. IsFiniteSet(1..N) /\ Cardinality(1..N) = N
    BY <1>2, FS_Interval
  <2>3. s \in Injection(1..N, E)
    BY <1>2, <2>1, <2>2, FS_Surjection
  <2> QED
    BY <2>3 DEF Injection, IsInjective
<1>5. \A h \in E : h \in Handles /\ Item("handle", h) \in Items
  BY ItemKinds DEF LoopTypes, Expired
<1>6. t = [i \in 1..N |-> Item("handle", s[i])]
  BY <1>3 DEF AsItems
<1>7. t \in Seq(Items) /\ Len(t) = N
  <2>1. t \in [1..N -> Items]
    BY <1>3, <1>5, <1>6
  <2> QED
    BY <1>2, <2>1
<1>8. \A i \in 1..N : t[i] = Item("handle", s[i])
  BY <1>6
<1> HIDE DEF t, E, N
<1>9. NoDup(t)
  BY <1>4, <1>7, <1>8, ItemKinds DEF NoDup
<1>10. ASSUME NEW h \in E PROVE Has(t, Item("handle", h))
  <2>1. PICK i \in 1..N : s[i] = h
    BY <1>1, <1>3
  <2> QED
    BY <1>7, <1>8, <2>1 DEF Has
<1>11. ASSUME NEW e, Has(t, e) PROVE \E h \in E : e = Item("handle", h)
  BY <1>3, <1>7, <1>8, <1>11 DEF Has
<1> QED
  BY <1>3, <1>7, <1>8, <1>9, <1>10, <1>11 DEF t, E

\* A step adds t at the end of what is pending, and t is new there.
Grows(t) ==
    /\ t \in Seq(Items) /\ NoDup(t)
    /\ Pending' = Pending \o t
    /\ \A j \in 1..Len(t) : ~Has(Pending, t[j])
    /\ \A h \in heap' : /\ ~Has(t, Item("handle", h))
                        /\ h \in heap \/ ~Has(Pending, Item("handle", h))
    /\ finished \subseteq finished'
    /\ \A f \in Futures \ finished' : ~Has(t, StopItem(f))

\* Nothing is added.
LEMMA GrowsByNone ==
    ASSUME LoopTypes, UNCHANGED <<batch, queue>>, finished \subseteq finished',
           \A h \in heap' : h \in heap \/ ~Has(Pending, Item("handle", h))
    PROVE  \E t : Grows(t)
<1>1. Pending' = Pending /\ Pending = Pending \o <<>>
  BY QueuedPending DEF Pending
<1>2. <<>> \in Seq(Items) /\ NoDup(<<>>) /\ \A e : ~Has(<<>>, e)
  BY DEF NoDup, Has
<1>3. Grows(<<>>)
  BY <1>1, <1>2 DEF Grows
<1> QED
  BY <1>3

\* One callback is pushed.
LEMMA GrowsByOne ==
    ASSUME LoopTypes, NEW e \in Items, batch' = batch, queue' = Append(queue, e),
           ~Has(Pending, e), heap' = heap, finished \subseteq finished',
           \A h \in heap : e # Item("handle", h),
           \A f \in Futures \ finished' : e # StopItem(f)
    PROVE  \E t : Grows(t)
<1>1. batch \in Seq(Items) /\ queue \in Seq(Items) /\ <<e>> \in Seq(Items)
  BY DEF LoopTypes
<1>2. Append(queue, e) = queue \o <<e>>
  BY <1>1, AppendIsConcat
<1>3. Pending' = Pending \o <<e>>
  BY <1>1, <1>2, ConcatAssociative DEF Pending
<1>4. NoDup(<<e>>) /\ \A d : Has(<<e>>, d) <=> d = e
  BY DEF NoDup, Has
<1>5. \A j \in 1..Len(<<e>>) : ~Has(Pending, <<e>>[j])
  OBVIOUS
<1>6. Grows(<<e>>)
  BY <1>1, <1>3, <1>4, <1>5 DEF Grows
<1> QED
  BY <1>6

\* What a tick adds: the expired timers, which leave the heap; a tick that
\* fails may also schedule the end of run_until_complete.
LEMMA GrowsByTick ==
    ASSUME LoopTypes, Apart, PhaseInv, NEW s, Tick(s) \/ TickFails(s)
    PROVE  \E t : /\ Grows(t)
                  /\ \A i \in 1..Len(AsItems(s)) :
                        i \in 1..Len(t) /\ t[i] = AsItems(s)[i]
<1> DEFINE a == AsItems(s)
<1>1. PopExpired(s) /\ phase = "tick" /\ heap' = heap \ Expired
  BY DEF Tick, TickFails, PopExpired
<1>2. batch = <<>> /\ queue \in Seq(Items) /\ Pending = queue
  BY <1>1, ConcatEmptySeq DEF PhaseInv, LoopTypes, Pending
<1>3. /\ a \in Seq(Items) /\ NoDup(a)
      /\ \A i \in 1..Len(a) : s[i] \in Expired /\ a[i] = Item("handle", s[i])
      /\ \A e : Has(a, e) => \E h \in Expired : e = Item("handle", h)
  BY <1>1, Popped
<1>4. Expired \subseteq heap /\ Expired \subseteq Handles
  BY DEF Expired, LoopTypes
<1>5. \A j \in 1..Len(a) : ~Has(Pending, a[j])
  BY <1>3, <1>4 DEF Apart
<1>6. \A h \in heap' : ~Has(a, Item("handle", h)) /\ h \in heap
  BY <1>1, <1>3, ItemKinds
<1>7. \A f \in Futures : ~Has(a, StopItem(f))
  BY <1>3, ItemKinds DEF StopItem
<1> HIDE DEF a
<1>8. ASSUME finished' = finished,
             \/ batch' = queue \o a /\ queue' = <<>>
             \/ batch' = batch /\ queue' = queue \o a
      PROVE  Grows(a)
  <2>1. queue \o a \in Seq(Items)
    BY <1>2, <1>3
  <2>2. Pending' = Pending \o a
    BY <1>2, <1>8, <2>1, ConcatEmptySeq DEF Pending
  <2> QED
    BY <1>3, <1>5, <1>6, <1>7, <1>8, <2>2 DEF Grows
<1>9. ASSUME target \in Futures, target \notin finished,
             finished' = finished \cup {target}, batch' = batch,
             queue' = Append(queue \o a, StopItem(target))
      PROVE  Grows(a \o <<StopItem(target)>>)
  <2> DEFINE e == StopItem(target)
  <2>1. e \in Items /\ <<e>> \in Seq(Items) /\ queue \o a \in Seq(Items)
    BY <1>2, <1>3, <1>9, ItemKinds
  <2>2. Pending' = Pending \o (a \o <<e>>)
    <3>1. Append(queue \o a, e) = (queue \o a) \o <<e>>
      BY <2>1, AppendIsConcat
    <3>2. (queue \o a) \o <<e>> = queue \o (a \o <<e>>)
      BY <1>2, <1>3, <2>1, ConcatAssociative
    <3>3. (queue \o a) \o <<e>> \in Seq(Items)
      BY <2>1
    <3>4. Pending' = (queue \o a) \o <<e>>
      BY <1>2, <1>9, <3>1, <3>3, ConcatEmptySeq DEF Pending
    <3> QED
      BY <1>2, <3>2, <3>4
  <2>3. NoDup(<<e>>) /\ \A d : Has(<<e>>, d) <=> d = e
    BY DEF NoDup, Has
  <2>4. \A j \in 1..Len(<<e>>) : ~Has(a, <<e>>[j])
    BY <1>7, <1>9
  <2>5. /\ NoDup(a \o <<e>>) /\ a \o <<e>> \in Seq(Items)
        /\ \A d : Has(a \o <<e>>, d) <=> Has(a, d) \/ d = e
    <3>1. a \o <<e>> \in Seq(Items)
      BY <1>3, <2>1
    <3>2. /\ NoDup(a \o <<e>>)
          /\ \A d : Has(a \o <<e>>, d) <=> Has(a, d) \/ Has(<<e>>, d)
      BY <1>3, <2>1, <2>3, <2>4, Grow
    <3> QED
      BY <2>3, <3>1, <3>2
  <2>6. ~Has(Pending, e)
    BY <1>9 DEF Apart
  <2>7. \A j \in 1..Len(a \o <<e>>) : ~Has(Pending, (a \o <<e>>)[j])
    <3>1. \A d : Has(a, d) => ~Has(Pending, d)
      BY <1>5 DEF Has
    <3>2. \A j \in 1..Len(a \o <<e>>) : Has(a \o <<e>>, (a \o <<e>>)[j])
      BY DEF Has
    <3> QED
      BY <2>5, <2>6, <3>1, <3>2
  <2>8. \A h : e # Item("handle", h)
    BY ItemKinds DEF StopItem
  <2>9. \A f \in Futures \ finished' : StopItem(f) # e
    BY <1>9, ItemKinds DEF StopItem
  <2> HIDE DEF e
  <2> QED
    BY <1>6, <1>7, <1>9, <2>2, <2>5, <2>7, <2>8, <2>9 DEF Grows, e
<1>10. \A i \in 1..Len(a) :
          /\ i \in 1..Len(a \o <<StopItem(target)>>)
          /\ (a \o <<StopItem(target)>>)[i] = a[i]
  BY <1>3
<1>11. CASE Tick(s)
  <2>1. Grows(a)
    BY <1>8, <1>11 DEF Tick, ReadyAfter, doneVars, a
  <2> QED
    BY <2>1 DEF a
<1>12. CASE TickFails(s)
  <2>1. batch' = batch
    BY <1>12 DEF TickFails
  <2>2. CASE /\ target # None /\ target \notin finished
             /\ finished' = finished \cup {target}
             /\ queue' = Append(ReadyAfter(s), StopItem(target))
    <3>1. Grows(a \o <<StopItem(target)>>)
      BY <1>9, <2>1, <2>2 DEF LoopTypes, ReadyAfter, a
    <3> QED
      BY <1>10, <3>1 DEF a
  <2>3. CASE queue' = ReadyAfter(s) /\ UNCHANGED doneVars
    <3>1. Grows(a)
      BY <1>8, <2>1, <2>3 DEF ReadyAfter, doneVars, a
    <3> QED
      BY <3>1 DEF a
  <2> QED
    BY <1>12, <2>2, <2>3 DEF TickFails, LeavesLoop
<1> QED
  BY <1>11, <1>12

\* Every step but the execution of a callback only adds to what is pending.
LEMMA LoopGrows ==
    ASSUME LoopTypes, Apart, PhaseInv, [LoopNext]_loopVars
    PROVE  Execute \/ \E t : Grows(t)
<1>0. \A e : e \in Queued <=> Has(Pending, e)
  BY QueuedPending
<1>1. ASSUME NEW h \in Handles, Unused(h), batch' = batch, heap' = heap, finished' = finished,
             queue' = Append(queue, Item("handle", h))
      PROVE  \E t : Grows(t)
  <2> DEFINE e == Item("handle", h)
  <2>1. e \in Items /\ ~Has(Pending, e)
    BY <1>0, <1>1, ItemKinds DEF Unused
  <2>2. /\ \A k \in heap : e # Item("handle", k)
        /\ \A f \in Futures : e # StopItem(f)
    BY <1>1, ItemKinds DEF Unused, StopItem
  <2> HIDE DEF e
  <2> QED
    BY <1>1, <2>1, <2>2, GrowsByOne DEF e
<1>2. ASSUME NEW f \in Futures, ~Has(Pending, StopItem(f)), batch' = batch, heap' = heap,
             finished \subseteq finished', f \in finished', queue' = Append(queue, StopItem(f))
      PROVE  \E t : Grows(t)
  <2> DEFINE e == StopItem(f)
  <2>1. e \in Items
    BY ItemKinds
  <2>2. /\ \A k \in heap : e # Item("handle", k)
        /\ \A g \in Futures \ finished' : e # StopItem(g)
    BY <1>2, ItemKinds DEF StopItem
  <2> HIDE DEF e
  <2> QED
    BY <1>2, <2>1, <2>2, GrowsByOne DEF e
<1>3. ASSUME UNCHANGED <<batch, queue, heap, finished>> PROVE \E t : Grows(t)
  BY <1>3, GrowsByNone
<1>4. ASSUME NEW t \in Threads, NEW h \in Handles, ThreadPush(t, h) PROVE \E u : Grows(u)
  BY <1>1, <1>4 DEF ThreadPush, schedVars, doneVars
<1>5. ASSUME NEW h \in Handles, CallSoon(h) PROVE \E t : Grows(t)
  BY <1>1, <1>5 DEF CallSoon, schedVars, doneVars
<1>6. ASSUME NEW h \in Handles, NEW w \in 0..MaxTime, CallAt(h, w) PROVE \E t : Grows(t)
  <2>1. /\ UNCHANGED <<batch, queue, finished>> /\ heap' = heap \cup {h}
        /\ ~Has(Pending, Item("handle", h))
    BY <1>0, <1>6 DEF CallAt, doneVars, Unused
  <2> QED
    BY <2>1, GrowsByNone
<1>7. ASSUME NEW f \in Futures, Finish(f) PROVE \E t : Grows(t)
  <2>1. /\ UNCHANGED <<batch, heap>> /\ finished' = finished \cup {f} /\ f \notin finished
        /\ queue' = queue \/ queue' = Append(queue, StopItem(f))
    BY <1>7 DEF Finish, schedVars
  <2>2. ~Has(Pending, StopItem(f))
    BY <2>1 DEF Apart
  <2> QED
    BY <1>2, <2>1, <2>2, GrowsByNone
<1>8. ASSUME NEW f \in Futures, RunUntilComplete(f) PROVE \E t : Grows(t)
  <2>1. /\ UNCHANGED <<batch, heap, finished>> /\ ~Has(Pending, StopItem(f))
        /\ \/ queue' = queue
           \/ f \in finished /\ queue' = Append(queue, StopItem(f))
    BY <1>0, <1>8 DEF RunUntilComplete, schedVars
  <2> QED
    BY <1>2, <2>1, GrowsByNone
<1>9. ASSUME NEW e \in events, HandleEvent(e) PROVE \E t : Grows(t)
  <2>1. /\ UNCHANGED <<batch, heap, finished>> /\ phase = "events"
        /\ queue' = queue \/ (e.what # "eventfd" /\ queue' = Append(queue, e))
    BY <1>9 DEF HandleEvent, schedVars, doneVars
  <2>2. CASE e.what # "eventfd" /\ queue' = Append(queue, e)
    <3>1. e \in WatchItems
      BY <2>2, ItemKinds DEF LoopTypes
    <3>2. e \in Items /\ e.what \in {"r", "w"}
      BY <3>1, ItemKinds
    <3>3. ~Has(Pending, e)
      <4>1. batch = <<>> /\ ~Has(queue, e)
        BY <2>1 DEF PhaseInv
      <4>2. ~Has(batch, e)
        BY <4>1 DEF Has
      <4> QED
        BY <4>1, <4>2, QueuedPending
    <3>4. /\ \A h \in heap : e # Item("handle", h)
          /\ \A f \in Futures : e # StopItem(f)
      BY <3>2, ItemKinds DEF StopItem
    <3> QED
      BY <2>1, <2>2, <3>2, <3>3, <3>4, GrowsByOne
  <2> QED
    BY <2>1, <2>2, GrowsByNone
<1>10. ASSUME NEW s \in PopOrders, Tick(s) \/ TickFails(s) PROVE \E t : Grows(t)
  BY <1>10, GrowsByTick
<1>11. ASSUME NEW t \in Threads, ThreadWrite(t) PROVE \E u : Grows(u)
  BY <1>3, <1>11 DEF ThreadWrite, schedVars, doneVars
<1>12. ASSUME NEW fd \in Fds, NEW d \in Directions,
              AddWatch(fd, d) \/ AddWatchFails(fd, d) \/ RemoveWatch(fd, d)
       PROVE  \E t : Grows(t)
  BY <1>3, <1>12 DEF AddWatch, AddWatchFails, RemoveWatch, schedVars, doneVars
<1>13. ASSUME NEW h \in Handles, CancelHandle(h) PROVE \E t : Grows(t)
  BY <1>3, <1>13 DEF CancelHandle, doneVars
<1>14. ASSUME Clock \/ CompletionSignal \/ Stop \/ RunForever \/ Close \/ EndLoop \/ Top
                \/ PollReturns \/ EndEvents \/ Return \/ EndTick \/ EndProcess
                \/ UNCHANGED loopVars
       PROVE  \E t : Grows(t)
  BY <1>3, <1>14
  DEF Clock, CompletionSignal, Stop, RunForever, Close, EndLoop, Top, PollReturns, EndEvents,
      Return, EndTick, EndProcess, schedVars, doneVars, loopVars
<1>15. ASSUME NEW fd \in Fds, CloseFd(fd) \/ OpenFd(fd) PROVE \E t : Grows(t)
  BY <1>3, <1>15 DEF CloseFd, OpenFd, schedVars, doneVars
<1>16. CASE ProcessFails
  <2>1. UNCHANGED <<batch, heap>>
    BY <1>16 DEF ProcessFails, schedVars
  <2>2. CASE /\ target # None /\ target \notin finished
             /\ finished' = finished \cup {target}
             /\ queue' = Append(queue, StopItem(target))
    <3>1. target \in Futures /\ ~Has(Pending, StopItem(target))
      BY <2>2 DEF LoopTypes, Apart
    <3> QED
      BY <1>2, <2>1, <2>2, <3>1
  <2>3. CASE queue' = queue /\ UNCHANGED doneVars
    BY <1>3, <2>1, <2>3 DEF doneVars
  <2> QED
    BY <1>16, <2>2, <2>3 DEF ProcessFails, LeavesLoop
<1> QED
  BY <1>4, <1>5, <1>6, <1>7, <1>8, <1>9, <1>10, <1>11, <1>12, <1>13, <1>14, <1>15, <1>16
  DEF LoopNext, LoopStep

\* Executing a callback takes the oldest one from what is pending.
LEMMA ExecuteTakes ==
    ASSUME LoopTypes, Execute
    PROVE  /\ Pending # <<>> /\ Pending' = Tail(Pending)
           /\ Head(batch) = Head(Pending) /\ Head(Pending) \in Items
           /\ NoDup(Pending) => NoDup(Pending')
           /\ \A e : Has(Pending', e) => Has(Pending, e)
           /\ UNCHANGED <<heap, finished>>
<1>1. batch \in Seq(Items) /\ queue \in Seq(Items) /\ batch # <<>>
  BY DEF LoopTypes, Execute
<1>2. batch' = Tail(batch) /\ queue' = queue /\ UNCHANGED <<heap, finished>>
  BY DEF Execute, doneVars
<1>3. Pending \in Seq(Items) /\ Len(Pending) = Len(batch) + Len(queue)
  BY <1>1 DEF Pending
<1>4. Pending # <<>> /\ Head(Pending) = Head(batch) /\ Head(Pending) \in Items
  BY <1>1, <1>3 DEF Pending
<1>5. Pending' = Tail(Pending)
  BY <1>1, <1>2 DEF Pending
<1>6. /\ Len(Pending') = Len(Pending) - 1
      /\ \A i \in 1..Len(Pending') : i + 1 \in 1..Len(Pending) /\ Pending'[i] = Pending[i + 1]
  BY <1>3, <1>4, <1>5
<1>7. \A e : Has(Pending', e) => Has(Pending, e)
  BY <1>6 DEF Has
<1>8. ASSUME NoDup(Pending) PROVE NoDup(Pending')
  <2> SUFFICES ASSUME NEW i \in 1..Len(Pending'), NEW j \in 1..Len(Pending'),
                      Pending'[i] = Pending'[j]
               PROVE  i = j
    BY DEF NoDup
  <2>1. i + 1 = j + 1
    BY <1>6, <1>8 DEF NoDup
  <2> QED
    BY <1>3, <1>6, <2>1
<1> QED
  BY <1>2, <1>4, <1>5, <1>7, <1>8

\* So nothing becomes pending twice.
LEMMA ApartStep ==
    ASSUME LoopTypes, Apart, PhaseInv, [LoopNext]_loopVars PROVE Apart'
<1>1. CASE Execute
  BY <1>1, ExecuteTakes DEF Apart
<1>2. ASSUME NEW t, Grows(t) PROVE Apart'
  <2>1. Pending \in Seq(Items)
    BY QueuedPending
  <2>2. /\ NoDup(Pending')
        /\ \A e : Has(Pending', e) <=> Has(Pending, e) \/ Has(t, e)
    BY <1>2, <2>1, Grow DEF Grows, Apart
  <2> QED
    BY <1>2, <2>2 DEF Apart, Grows
<1> QED
  BY <1>1, <1>2, LoopGrows

\* Every step keeps the types.
LEMMA LoopTypesStep ==
    ASSUME LoopTypes, [LoopNext]_loopVars PROVE LoopTypes'
<1> USE DEF schedVars, runVars, watchVars, doneVars
<1>0. \A e \in Items : Append(queue, e) \in Seq(Items)
  BY DEF LoopTypes
<1>1. CASE Clock
  <2>1. now' \in 0..MaxTime
    BY <1>1, LoopAssumption DEF LoopTypes, Clock
  <2> QED
    BY <1>1, <2>1 DEF LoopTypes, Clock
<1>2. ASSUME NEW fd \in Fds, NEW d \in Directions,
             AddWatch(fd, d) \/ AddWatchFails(fd, d) \/ RemoveWatch(fd, d)
      PROVE  LoopTypes'
  <2>0. /\ watched \in [Fds -> SUBSET Directions] /\ mask \in [Fds -> SUBSET Directions]
        /\ abandoned \subseteq Fds
    BY DEF LoopTypes
  <2>1. /\ MaskWith(fd, d) \in SUBSET Directions
        /\ MaskWithout(fd, d) \in SUBSET Directions
        /\ watched[fd] \ {d} \in SUBSET Directions
        /\ watched[fd] \cup {d} \in SUBSET Directions
    BY <2>0 DEF MaskWith, MaskWithout
  <2>2. /\ watched' \in [Fds -> SUBSET Directions]
        /\ mask' \in [Fds -> SUBSET Directions]
        /\ abandoned' \subseteq Fds /\ opened' = opened
    BY <1>2, <2>0, <2>1, SMTT(60) DEF AddWatch, AddWatchFails, RemoveWatch
  <2> QED
    BY <1>2, <2>2 DEF LoopTypes, AddWatch, AddWatchFails, RemoveWatch
<1>3. ASSUME NEW t \in Threads, ThreadWrite(t) PROVE LoopTypes'
  BY <1>3 DEF LoopTypes, ThreadWrite
<1>4. ASSUME NEW t \in Threads, NEW h \in Handles, ThreadPush(t, h) PROVE LoopTypes'
  <2>1. queue' \in Seq(Items)
    BY <1>0, <1>4, ItemKinds DEF ThreadPush
  <2> QED
    BY <1>4, <2>1 DEF LoopTypes, ThreadPush
<1>5. ASSUME NEW h \in Handles, CallSoon(h) \/ CancelHandle(h) PROVE LoopTypes'
  <2>0. Item("handle", h) \in Items /\ Item("handle", h) \in HandleItems
    BY ItemKinds
  <2>1. CASE CallSoon(h)
    <3>1. queue' \in Seq(Items)
      BY <1>0, <2>0, <2>1 DEF CallSoon
    <3> QED
      BY <2>1, <3>1 DEF LoopTypes, CallSoon
  <2>2. CASE CancelHandle(h)
    <3>1. cancelled' \subseteq HandleItems
      BY <2>0, <2>2 DEF LoopTypes, CancelHandle
    <3> QED
      BY <2>2, <3>1 DEF LoopTypes, CancelHandle
  <2> QED
    BY <1>5, <2>1, <2>2
<1>6. ASSUME NEW h \in Handles, NEW w \in 0..MaxTime, CallAt(h, w) PROVE LoopTypes'
  BY <1>6 DEF LoopTypes, CallAt
<1>7. ASSUME NEW f \in Futures, Finish(f) PROVE LoopTypes'
  <2>1. queue' \in Seq(Items)
    BY <1>0, <1>7, ItemKinds DEF LoopTypes, Finish
  <2> QED
    BY <1>7, <2>1 DEF LoopTypes, Finish
<1>8. ASSUME NEW f \in Futures, RunUntilComplete(f) PROVE LoopTypes'
  <2>0. StopItem(f) \in Items /\ queue \in Seq(Items)
    BY ItemKinds DEF LoopTypes
  <2>1. queue' \in Seq(Items)
    BY <1>0, <1>8, <2>0 DEF RunUntilComplete
  <2>2. stopOnDone' \subseteq Futures \ finished
    BY <1>8 DEF LoopTypes, RunUntilComplete
  <2> QED
    BY <1>8, <2>1, <2>2 DEF LoopTypes, RunUntilComplete
<1>9. CASE PollReturns
  BY <1>9 DEF LoopTypes, PollReturns
<1>10. ASSUME NEW e \in events, HandleEvent(e) PROVE LoopTypes'
  <2>1. e.what # "eventfd" => e \in Items
    BY ItemKinds DEF LoopTypes
  <2>2. queue' \in Seq(Items)
    BY <1>0, <1>10, <2>1 DEF LoopTypes, HandleEvent
  <2> QED
    BY <1>10, <2>2 DEF LoopTypes, HandleEvent
<1>11. ASSUME NEW s, Tick(s) \/ TickFails(s) PROVE LoopTypes'
  <2>1. AsItems(s) \in Seq(Items)
    BY <1>11, Popped DEF Tick, TickFails
  <2>2. ReadyAfter(s) \in Seq(Items)
    BY <2>1 DEF ReadyAfter, LoopTypes
  <2>3. heap' \subseteq Handles
    BY <1>11 DEF Tick, TickFails, PopExpired, LoopTypes
  <2>4. CASE Tick(s)
    BY <2>2, <2>3, <2>4 DEF LoopTypes, Tick
  <2>5. CASE TickFails(s)
    <3>1. target # None => StopItem(target) \in Items /\ target \in Futures
      BY ItemKinds DEF LoopTypes
    <3>2. queue' \in Seq(Items)
      BY <2>2, <2>5, <3>1 DEF TickFails, LeavesLoop
    <3>3. finished' \subseteq Futures /\ stopOnDone' \subseteq Futures \ finished'
      BY <2>5, <3>1 DEF TickFails, LeavesLoop, LoopTypes
    <3> QED
      BY <2>3, <2>5, <3>2, <3>3 DEF LoopTypes, TickFails, LeavesLoop
  <2> QED
    BY <1>11, <2>4, <2>5
<1>12. CASE Execute
  <2>1. batch' \in Seq(Items) /\ Head(batch) \in Items
    BY <1>12 DEF Execute, LoopTypes
  <2>2. Head(batch).what = "stop" => Head(batch).id \in Futures
    BY <2>1, ItemKinds DEF StopItem
  <2>3. stopping' \in Futures \cup {None, "app"}
    BY <1>12, <2>2 DEF Execute, LoopTypes
  <2> QED
    BY <1>12, <2>1, <2>3 DEF LoopTypes, Execute
<1>13. ASSUME CompletionSignal \/ Stop \/ RunForever \/ Close \/ EndLoop \/ Top
                \/ EndEvents \/ Return \/ EndTick \/ EndProcess
       PROVE  LoopTypes'
  BY <1>13
  DEF LoopTypes, CompletionSignal, Stop, RunForever, Close, EndLoop, Top, EndEvents,
      Return, EndTick, EndProcess
<1>14. CASE UNCHANGED loopVars
  BY <1>14 DEF LoopTypes, loopVars
<1>15. ASSUME NEW fd \in Fds, CloseFd(fd) \/ OpenFd(fd) PROVE LoopTypes'
  <2>1. /\ mask' \in [Fds -> SUBSET Directions]
        /\ opened' \subseteq Fds /\ abandoned' \subseteq Fds /\ watched' = watched
    BY <1>15 DEF LoopTypes, CloseFd, OpenFd
  <2> QED
    BY <1>15, <2>1 DEF LoopTypes, CloseFd, OpenFd
<1>16. CASE ProcessFails
  <2>1. target # None => StopItem(target) \in Items /\ target \in Futures
    BY ItemKinds DEF LoopTypes
  <2>2. queue' \in Seq(Items)
    BY <1>0, <1>16, <2>1 DEF ProcessFails, LeavesLoop, LoopTypes
  <2>3. finished' \subseteq Futures /\ stopOnDone' \subseteq Futures \ finished'
    BY <1>16, <2>1 DEF ProcessFails, LeavesLoop, LoopTypes
  <2> QED
    BY <1>16, <2>2, <2>3 DEF LoopTypes, ProcessFails, LeavesLoop
<1> QED
  BY <1>1, <1>2, <1>3, <1>4, <1>5, <1>6, <1>7, <1>8, <1>9, <1>10, <1>11, <1>12, <1>13, <1>14,
     <1>15, <1>16
  DEF LoopNext, LoopStep

\* Where the loop is says what the queues hold.
LEMMA PhaseStep ==
    ASSUME LoopTypes, PhaseInv, [LoopNext]_loopVars PROVE PhaseInv'
<1> USE DEF schedVars, runVars, watchVars, doneVars
<1>1. ASSUME NEW t \in Threads, NEW h \in Handles, ThreadPush(t, h) PROVE PhaseInv'
  <2>1. /\ UNCHANGED <<batch, phase, events, current>>
        /\ queue' = Append(queue, Item("handle", h))
    BY <1>1 DEF ThreadPush
  <2>2. /\ queue \in Seq(Items) /\ Item("handle", h) \in HandleItems
        /\ Item("handle", h).what = "handle"
    BY ItemKinds DEF LoopTypes
  <2>3. /\ Len(queue') = Len(queue) + 1
        /\ \A i \in 1..Len(queue) : queue'[i] = queue[i]
        /\ queue'[Len(queue) + 1] = Item("handle", h)
    BY <2>1, <2>2
  <2>4. \A e \in events : e # Item("handle", h)
    BY ItemKinds, SMTT(60) DEF LoopTypes
  <2>5. \A e : Has(queue', e) => Has(queue, e) \/ e = Item("handle", h)
    <3> SUFFICES ASSUME NEW i \in 1..Len(queue')
                 PROVE  Has(queue, queue'[i]) \/ queue'[i] = Item("handle", h)
      BY DEF Has
    <3>1. i \in 1..Len(queue) \/ i = Len(queue) + 1
      BY <2>2, <2>3
    <3> QED
      BY <2>3, <3>1 DEF Has
  <2>6. phase = "poll" => \A i \in 1..Len(queue') : queue'[i] \in HandleItems
    BY <2>2, <2>3 DEF PhaseInv
  <2> QED
    BY <2>1, <2>4, <2>5, <2>6 DEF PhaseInv
<1>2. ASSUME NEW e \in events, HandleEvent(e) PROVE PhaseInv'
  <2>1. /\ UNCHANGED <<batch, phase, current>> /\ phase = "events"
        /\ events' = events \ {e}
        /\ queue' = queue \/ (e \in Items /\ queue' = Append(queue, e))
    BY <1>2, ItemKinds DEF HandleEvent, LoopTypes
  <2>2. queue \in Seq(Items)
    BY DEF LoopTypes
  <2>3. \A d : Has(queue', d) => Has(queue, d) \/ d = e
    <3>1. CASE queue' = queue
      BY <3>1
    <3>2. CASE e \in Items /\ queue' = Append(queue, e)
      <4>1. /\ Len(queue') = Len(queue) + 1
            /\ \A i \in 1..Len(queue) : queue'[i] = queue[i]
            /\ queue'[Len(queue) + 1] = e
        BY <2>2, <3>2
      <4> SUFFICES ASSUME NEW i \in 1..Len(queue') PROVE Has(queue, queue'[i]) \/ queue'[i] = e
        BY DEF Has
      <4>2. i \in 1..Len(queue) \/ i = Len(queue) + 1
        BY <2>2, <4>1
      <4> QED
        BY <4>1, <4>2 DEF Has
    <3> QED
      BY <2>1, <3>1, <3>2
  <2> QED
    BY <2>1, <2>3 DEF PhaseInv
<1>3. CASE PollReturns
  <2>1. /\ UNCHANGED <<batch, queue, current>> /\ phase = "poll" /\ phase' = "events"
        /\ events' \subseteq WatchItems \cup {Item("eventfd", None)}
    BY <1>3 DEF PollReturns
  <2>2. \A e \in events' : ~Has(queue, e)
    BY <2>1, ItemKinds DEF PhaseInv, Has
  <2> QED
    BY <2>1, <2>2 DEF PhaseInv
<1>4. CASE Top
  BY <1>4 DEF PhaseInv, Top
<1>5. ASSUME NEW s, Tick(s) \/ TickFails(s) PROVE PhaseInv'
  BY <1>5 DEF PhaseInv, Tick, TickFails, LeavesLoop
<1>6. CASE Execute
  BY <1>6 DEF PhaseInv, Execute
<1>7. ASSUME NEW h \in Handles, CallSoon(h) \/ CancelHandle(h) PROVE PhaseInv'
  BY <1>7 DEF PhaseInv, CallSoon, CancelHandle, AppRuns
<1>8. ASSUME NEW h \in Handles, NEW w \in 0..MaxTime, CallAt(h, w) PROVE PhaseInv'
  BY <1>8 DEF PhaseInv, CallAt, AppRuns
<1>9. ASSUME NEW f \in Futures, Finish(f) \/ RunUntilComplete(f) PROVE PhaseInv'
  BY <1>9 DEF PhaseInv, Finish, RunUntilComplete, AppRuns
<1>10. ASSUME NEW fd \in Fds, NEW d \in Directions,
              AddWatch(fd, d) \/ AddWatchFails(fd, d) \/ RemoveWatch(fd, d)
       PROVE  PhaseInv'
  BY <1>10 DEF PhaseInv, AddWatch, AddWatchFails, RemoveWatch
<1>11. ASSUME NEW t \in Threads, ThreadWrite(t) PROVE PhaseInv'
  BY <1>11 DEF PhaseInv, ThreadWrite
<1>12. ASSUME Clock \/ CompletionSignal \/ Stop \/ RunForever \/ Close \/ EndLoop
                \/ EndEvents \/ Return \/ EndTick \/ EndProcess \/ UNCHANGED loopVars
       PROVE  PhaseInv'
  BY <1>12
  DEF PhaseInv, Clock, CompletionSignal, Stop, RunForever, Close, EndLoop, EndEvents,
      Return, EndTick, EndProcess, loopVars
<1>13. ASSUME NEW fd \in Fds, CloseFd(fd) \/ OpenFd(fd) PROVE PhaseInv'
  BY <1>13 DEF PhaseInv, CloseFd, OpenFd
<1>14. CASE ProcessFails
  BY <1>14 DEF PhaseInv, ProcessFails, LeavesLoop
<1> QED
  BY <1>1, <1>2, <1>3, <1>4, <1>5, <1>6, <1>7, <1>8, <1>9, <1>10, <1>11, <1>12, <1>13, <1>14
  DEF LoopNext, LoopStep

----------------------------------------------------------------------------
(***************************************************************************)
(* What follows from the invariant.                                        *)
(***************************************************************************)
LoopInv == LoopTypes /\ Apart /\ PhaseInv

\* The invariant holds in every reachable state.
LEMMA LoopInvariant == LoopSpec => []LoopInv
<1>1. LoopInit => LoopInv
  <2> SUFFICES ASSUME LoopInit PROVE LoopInv
    OBVIOUS
  <2>1. LoopTypes
    BY LoopAssumption DEF LoopInit, LoopTypes
  <2>2. Pending = <<>>
    BY DEF LoopInit, Pending
  <2>3. Apart
    BY <2>2 DEF Apart, NoDup, Has
  <2>4. PhaseInv
    BY DEF LoopInit, PhaseInv
  <2> QED
    BY <2>1, <2>3, <2>4 DEF LoopInv
<1>2. LoopInv /\ [LoopNext]_loopVars => LoopInv'
  BY LoopTypesStep, ApartStep, PhaseStep DEF LoopInv
<1> QED
  BY <1>1, <1>2, PTL DEF LoopSpec

\* Types, and no callback is queued twice, whoever schedules callbacks.
THEOREM LoopTypeCorrect == LoopSpec => []LoopTypeOK
<1>1. LoopInv => LoopTypeOK
  <2> SUFFICES ASSUME LoopInv PROVE LoopTypeOK
    OBVIOUS
  <2>1. Pending \in Seq(Items) /\ \A e : e \in Queued <=> Has(Pending, e)
    BY QueuedPending DEF LoopInv
  <2>2. Cardinality(Queued) = Len(Pending)
    <3>1. Len(Pending) \in Nat /\ DOMAIN Pending = 1..Len(Pending)
      BY <2>1
    <3>2. Pending \in [1..Len(Pending) -> Queued]
      BY <2>1, <3>1 DEF Has
    <3>3. Pending \in Injection(1..Len(Pending), Queued)
      BY <3>2 DEF LoopInv, Apart, NoDup, Injection, IsInjective
    <3>4. Pending \in Surjection(1..Len(Pending), Queued)
      BY <2>1, <3>2 DEF Has, Surjection
    <3>5. ExistsBijection(1..Len(Pending), Queued)
      BY <3>3, <3>4 DEF Bijection, ExistsBijection
    <3> QED
      BY <3>1, <3>5, FS_CountingElements
  <2>3. \A i \in 1..Len(Pending) : Pending[i] \in Items
    BY <2>1
  <2> QED
    BY <2>2, <2>3 DEF LoopInv, LoopTypes, LoopTypeOK, Pending
<1> QED
  BY <1>1, LoopInvariant, PTL

(***************************************************************************)
(* The loop implements CallbackQueue.  A step of the abstract queue is     *)
(* found for each of the loop's: whatever adds callbacks is MakeReady,     *)
(* executing one is Begin, its return is End, a cancellation is Cancel;    *)
(* all the rest (epoll, threads, the drain of a tick) changes nothing.     *)
(***************************************************************************)
THEOREM QueueRefinement == LoopSpec => ImplementsCallbackQueue
<1>1. LoopInit => Queue!QueueInit
  BY DEF LoopInit, Queue!QueueInit
<1>2. LoopInv /\ [LoopNext]_loopVars => [Queue!QueueNext]_(Queue!queueVars)
  <2> SUFFICES ASSUME LoopInv, [LoopNext]_loopVars
               PROVE  Queue!QueueNext \/ UNCHANGED <<Pending, cancelled, current>>
    BY DEF Queue!queueVars, Pending
  <2>0. LoopTypes /\ Apart /\ PhaseInv /\ Pending \in Seq(Items)
    BY QueuedPending DEF LoopInv
  <2>1. CASE Execute
    <3>1. /\ Pending # <<>> /\ Pending' = Tail(Pending) /\ Head(batch) = Head(Pending)
      BY <2>0, <2>1, ExecuteTakes
    <3>2. current = None
      BY <2>0, <2>1 DEF PhaseInv, Execute
    <3>3. Queue!Begin
      BY <2>1, <3>1, <3>2 DEF Queue!Begin, Execute, Dropped, Pending
    <3> QED
      BY <3>3 DEF Queue!QueueNext
  <2>2. ASSUME NEW t, Grows(t), UNCHANGED <<cancelled, current>>
        PROVE  Queue!QueueNext \/ UNCHANGED <<Pending, cancelled, current>>
    <3>1. t \in Seq(Items) /\ Pending' = Pending \o t
      BY <2>2 DEF Grows
    <3>2. CASE t = <<>>
      BY <2>0, <2>2, <3>1, <3>2, ConcatEmptySeq
    <3>3. CASE t # <<>>
      <4>1. /\ NoDup(Pending') /\ Len(Pending') = Len(Pending) + Len(t)
            /\ SubSeq(Pending', 1, Len(Pending)) = Pending
        BY <2>0, <2>2, <3>1, Grow DEF Grows, Apart
      <4>2. Len(Pending) < Len(Pending')
        BY <2>0, <3>1, <3>3, <4>1
      <4>3. Queue!MakeReady
        BY <2>2, <4>1, <4>2 DEF Queue!MakeReady, NoDup, Pending
      <4> QED
        BY <4>3 DEF Queue!QueueNext
    <3> QED
      BY <3>2, <3>3
  <2>3. CASE Return
    <3>1. /\ UNCHANGED <<Pending, cancelled>> /\ current' = None
      BY <2>3 DEF Return, Pending
    <3>2. CASE current = None
      BY <3>1, <3>2
    <3>3. CASE current # None
      BY <3>1, <3>3 DEF Queue!QueueNext, Queue!End, Pending
    <3> QED
      BY <3>2, <3>3
  <2>4. ASSUME NEW h \in Handles, CancelHandle(h) PROVE Queue!QueueNext
    <3>1. Item("handle", h) \in Items
      BY ItemKinds
    <3>2. Queue!Cancel(Item("handle", h))
      BY <2>4 DEF CancelHandle, Queue!Cancel
    <3> QED
      BY <3>1, <3>2 DEF Queue!QueueNext
  <2>5. \/ Execute \/ Return \/ (\E h \in Handles : CancelHandle(h))
        \/ UNCHANGED <<cancelled, current>>
    BY ZenonT(60)
    DEF LoopNext, LoopStep, loopVars, schedVars, Clock, CompletionSignal, AddWatch,
        AddWatchFails, RemoveWatch, CloseFd, OpenFd, ThreadWrite, ThreadPush, CallSoon, CallAt,
        Stop, Finish, RunUntilComplete, RunForever, Close, EndLoop, Top, PollReturns, EndEvents,
        EndTick, EndProcess, ProcessFails, HandleEvent, Tick, TickFails
  <2> QED
    BY <2>0, <2>1, <2>2, <2>3, <2>4, <2>5, LoopGrows
<1> QED
  BY <1>1, <1>2, LoopInvariant, PTL DEF LoopSpec, ImplementsCallbackQueue, Queue!QueueSpec

\* In a queue without duplicates a callback has one place.
LEMMA OnePlace ==
    ASSUME NEW q, NoDup(q), NEW i \in 1..Len(q)
    PROVE  (CHOOSE k \in 1..Len(q) : q[k] = q[i]) = i
  BY DEF NoDup

\* A tick takes timers that expired, and puts an earlier one ahead of a later.
LEMMA TickInOrder ==
    ASSUME LoopInv, NEW s, Tick(s) \/ TickFails(s), [LoopNext]_loopVars, NEW h \in heap \ heap'
    PROVE  LET At(k) == CHOOSE i \in 1..Len(Pending') : Pending'[i] = Item("handle", k)
           IN  /\ when[h] <= now
               /\ \A k \in heap : when[k] < when[h] => k \notin heap' /\ At(k) < At(h)
<1> DEFINE At(k) == CHOOSE i \in 1..Len(Pending') : Pending'[i] = Item("handle", k)
           a == AsItems(s)
<1>0. LoopTypes /\ Apart /\ PhaseInv /\ Apart'
  BY ApartStep DEF LoopInv
<1>1. PopExpired(s) /\ heap' = heap \ Expired
  BY DEF Tick, TickFails, PopExpired
<1>2. h \in Expired /\ when[h] <= now
  BY <1>1 DEF Expired
<1>3. /\ DOMAIN s = 1..Len(a) /\ a \in Seq(Items)
      /\ \A i \in 1..Len(a) : s[i] \in Expired /\ a[i] = Item("handle", s[i])
      /\ \A k \in Expired : Has(a, Item("handle", k))
  BY <1>0, <1>1, Popped
<1>4. PICK t : /\ Grows(t)
               /\ \A i \in 1..Len(a) : i \in 1..Len(t) /\ t[i] = a[i]
  BY <1>0, GrowsByTick
<1>5. Pending \in Seq(Items) /\ t \in Seq(Items) /\ Pending' = Pending \o t
  BY <1>0, <1>4, QueuedPending DEF Grows
<1> HIDE DEF a
<1>6. \A i \in 1..Len(a) : /\ Len(Pending) + i \in 1..Len(Pending')
                           /\ Pending'[Len(Pending) + i] = a[i]
  BY <1>4, <1>5
<1>7. ASSUME NEW k \in Expired
      PROVE  \E i \in 1..Len(a) : s[i] = k /\ At(k) = Len(Pending) + i
  <2>1. PICK i \in 1..Len(a) : a[i] = Item("handle", k)
    BY <1>3 DEF Has
  <2>2. s[i] = k
    BY <1>3, <2>1, ItemKinds
  <2>3. /\ Len(Pending) + i \in 1..Len(Pending')
        /\ Pending'[Len(Pending) + i] = Item("handle", k)
    BY <1>6, <2>1
  <2>4. NoDup(Pending')
    BY <1>0 DEF Apart
  <2>5. At(k) = Len(Pending) + i
    BY <2>3, <2>4, OnePlace
  <2> QED
    BY <2>2, <2>5
<1>8. ASSUME NEW k \in heap, when[k] < when[h] PROVE k \notin heap' /\ At(k) < At(h)
  <2>0. k \in Handles /\ h \in Handles
    BY DEF LoopInv, LoopTypes
  <2>1. when[k] \in Int /\ when[h] \in Int /\ now \in Int
    BY <2>0, LoopAssumption DEF LoopInv, LoopTypes
  <2>2. k \in Expired
    BY <1>2, <1>8, <2>1 DEF Expired
  <2>3. PICK i \in 1..Len(a) : s[i] = k /\ At(k) = Len(Pending) + i
    BY <1>7, <2>2
  <2>4. PICK j \in 1..Len(a) : s[j] = h /\ At(h) = Len(Pending) + j
    BY <1>2, <1>7
  <2>5. j < i => when[h] <= when[k]
    BY <1>1, <1>3, <2>3, <2>4 DEF PopExpired, PopOrder
  <2>6. i # j
    BY <1>8, <2>1, <2>3, <2>4
  <2>7. i \in Int /\ j \in Int /\ Len(Pending) \in Int
    BY <1>5
  <2>8. i < j
    BY <1>8, <2>1, <2>5, <2>6, <2>7
  <2>9. k \notin heap'
    BY <1>1, <2>2
  <2> HIDE DEF At
  <2> QED
    BY <2>3, <2>4, <2>7, <2>8, <2>9
<1> QED
  BY <1>2, <1>8

(***************************************************************************)
(* Timers fire in the order of their expiration and never early, whatever  *)
(* else is ready and also when the tick that pops them fails.              *)
(***************************************************************************)
THEOREM TimersCorrect == LoopSpec => TimersInOrder
<1> DEFINE InOrder(h) ==
       LET ready == batch' \o queue'
           At(k) == CHOOSE i \in 1..Len(ready) : ready[i] = Item("handle", k)
       IN  /\ when[h] <= now
           /\ \A k \in heap : when[k] < when[h] =>
                 k \notin heap' /\ At(k) < At(h)
<1>1. LoopInv /\ [LoopNext]_loopVars => [\A h \in heap \ heap' : InOrder(h)]_loopVars
  <2> SUFFICES ASSUME LoopInv, [LoopNext]_loopVars, NEW h \in heap \ heap' PROVE InOrder(h)
    OBVIOUS
  <2>1. \E s \in PopOrders : Tick(s) \/ TickFails(s)
    BY ZenonT(60)
    DEF LoopNext, LoopStep, loopVars, schedVars, Clock, CompletionSignal, AddWatch,
        AddWatchFails, RemoveWatch, CloseFd, OpenFd, ThreadWrite, ThreadPush, CallSoon,
        CancelHandle, CallAt, Stop, Finish, RunUntilComplete, RunForever, Close, EndLoop, Top,
        PollReturns, EndEvents, Execute, Return, EndTick, EndProcess, ProcessFails, HandleEvent
  <2>2. Pending' = batch' \o queue'
    BY DEF Pending
  <2> QED
    BY <2>1, <2>2, TickInOrder
<1> QED
  BY <1>1, LoopInvariant, PTL DEF LoopSpec, TimersInOrder

============================================================================
