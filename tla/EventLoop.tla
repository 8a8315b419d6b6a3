----------------------------- MODULE EventLoop -----------------------------
(***************************************************************************)
(* The scheduling side of UringEventLoop (loop.py) with the ready queue    *)
(* (scheduler.rs), the timer heap (timer.rs), handles (handle.rs) and the  *)
(* timer and batch parts of run_tick (lib.rs).                             *)
(*                                                                         *)
(* One turn of run_forever: test _stopping; wait in epoll unless callbacks *)
(* are ready; handle its events; run_tick, which moves expired timers to   *)
(* the ready queue, reaps completions, and executes what was ready at that *)
(* moment; and the handlers of the completions, which call protocols.      *)
(* Other threads schedule callbacks at any point in between.               *)
(*                                                                         *)
(* A handle number is used again once its callback ran or was dropped, so  *)
(* MaxHandles bounds the handles alive at a time and not their number: a   *)
(* callback that schedules itself forever is among the behaviours.         *)
(***************************************************************************)
EXTENDS Integers, Sequences, FiniteSets

CONSTANTS
    MaxHandles,   \* bound: handles alive at a time
    MaxTime,      \* bound: the clock stops here
    Fds,          \* descriptors given to add_reader and add_writer
    Threads,      \* threads that use call_soon_threadsafe
    Futures,      \* futures given to run_until_complete
    None

ASSUME LoopAssumption ==
    /\ MaxHandles \in Nat
    /\ MaxTime \in Nat

VARIABLES
    queue,       \* Scheduler.queue
    batch,       \* what the running tick still has to execute
    current,     \* the callback being executed
    cancelled,   \* handles whose cancelled flag is set
    heap,        \* TimerHeap
    when,        \* expiration of a timer
    now,         \* CLOCK_MONOTONIC
    phase,       \* where the loop thread is
    events,      \* what epoll.poll returned
    stopping,    \* _stopping: None, or who called stop()
    closed,      \* _closed
    eventfd,     \* the eventfd is readable
    pc,          \* threads: between push_task and _write_to_self?
    watched,     \* _readers ("r") and _writers ("w") of a descriptor
    mask,        \* epoll's registration of a descriptor, {} for none
    opened,      \* the descriptors that are open
    abandoned,   \* history: closed with a reader or a writer still in the maps
    finished,    \* futures that are done
    stopOnDone,  \* futures that carry run_until_complete's callback
    target       \* the future run_until_complete waits for

loopVars == <<queue, batch, current, cancelled, heap, when, now, phase, events,
              stopping, closed, eventfd, pc, watched, mask, opened, abandoned,
              finished, stopOnDone, target>>
schedVars == <<batch, current, cancelled, heap, when, now>>
watchVars == <<watched, mask, opened, abandoned>>
runVars   == <<phase, stopping, closed, target>>
doneVars  == <<finished, stopOnDone>>

Directions == {"r", "w"}
Handles == 1..MaxHandles
Item(what, id) == [what |-> what, id |-> id]
HandleItems == {Item("handle", h) : h \in Handles}
WatchItems == {Item(d, fd) : d \in Directions, fd \in Fds}
StopItem(f) == Item("stop", f)  \* run_until_complete's callback on f
Items == HandleItems \cup WatchItems \cup {StopItem(f) : f \in Futures}

Queued == {queue[i] : i \in 1..Len(queue)} \cup {batch[i] : i \in 1..Len(batch)}

\* A handle number not in use
Unused(h) == h \notin heap /\ Item("handle", h) \notin Queued

LoopInit ==
    /\ queue = <<>> /\ batch = <<>> /\ current = None
    /\ cancelled = {} /\ heap = {} /\ when = [h \in Handles |-> 0] /\ now = 0
    /\ phase = "idle" /\ events = {}
    /\ stopping = None /\ closed = FALSE
    /\ eventfd = FALSE
    /\ pc = [t \in Threads |-> "idle"]
    /\ watched = [fd \in Fds |-> {}]
    /\ mask = [fd \in Fds |-> {}]
    /\ opened = Fds /\ abandoned = {}
    /\ finished = {} /\ stopOnDone = {} /\ target = None

----------------------------------------------------------------------------
(***************************************************************************)
(* The environment: the clock, the kernel, peers, other threads.           *)
(***************************************************************************)
Clock ==
    /\ now < MaxTime
    /\ now' = now + 1
    /\ UNCHANGED <<queue, batch, current, cancelled, heap, when, events, eventfd,
                   pc, watchVars, runVars, doneVars>>

\* A completion signals the eventfd registered with the ring.  What run_tick
\* does with completions is in UringCore and StreamTransport.
CompletionSignal ==
    /\ ~closed
    /\ eventfd' = TRUE
    /\ UNCHANGED <<queue, schedVars, events, pc, watchVars, runVars, doneVars>>

\* call_soon_threadsafe, in two steps: push_task, then _write_to_self
ThreadPush(t, h) ==
    /\ pc[t] = "idle" /\ ~closed /\ Unused(h)
    /\ queue' = Append(queue, Item("handle", h))
    /\ pc' = [pc EXCEPT ![t] = "pushed"]
    /\ UNCHANGED <<schedVars, events, eventfd, watchVars, runVars,
                   doneVars>>

\* Bug: the loop is not woken up
BugThreadWrite(t) ==
    /\ pc[t] = "pushed"
    /\ pc' = [pc EXCEPT ![t] = "idle"]
    /\ UNCHANGED <<queue, schedVars, events, eventfd, watchVars, runVars,
                   doneVars>>

ThreadWrite(t) ==
    /\ pc[t] = "pushed"
    /\ eventfd' = TRUE
    /\ pc' = [pc EXCEPT ![t] = "idle"]
    /\ UNCHANGED <<queue, schedVars, events, watchVars, runVars, doneVars>>

----------------------------------------------------------------------------
(***************************************************************************)
(* What callbacks, protocols called by completion handlers, and the main   *)
(* program while the loop does not run, do.                                *)
(***************************************************************************)
AppRuns == ~closed /\ phase \in {"idle", "call", "process"}

CallSoon(h) ==
    /\ AppRuns /\ Unused(h)
    /\ queue' = Append(queue, Item("handle", h))
    /\ UNCHANGED <<schedVars, events, eventfd, pc, watchVars, runVars,
                   doneVars>>

\* call_at; call_later computes the expiration from the same clock
CallAt(h, w) ==
    /\ AppRuns /\ Unused(h)
    /\ heap' = heap \cup {h}
    /\ when' = [when EXCEPT ![h] = w]
    /\ UNCHANGED <<queue, batch, current, cancelled, now, events, eventfd,
                   pc, watchVars, runVars, doneVars>>

\* UringHandle.cancel and TimerHandle.cancel set a flag, nothing is dequeued
CancelHandle(h) ==
    /\ AppRuns /\ ~Unused(h)
    /\ cancelled' = cancelled \cup {Item("handle", h)}
    /\ UNCHANGED <<queue, batch, current, heap, when, now, events, eventfd,
                   pc, watchVars, runVars, doneVars>>

Stop ==
    /\ AppRuns
    /\ stopping' = "app"
    /\ UNCHANGED <<queue, schedVars, events, eventfd, pc, watchVars,
                   phase, closed, target, doneVars>>

\* Bug: the other direction is forgotten
BugMaskWith(fd, d) == {d}
\* add_reader keeps EPOLLOUT when there is a writer, add_writer EPOLLIN
MaskWith(fd, d) == {d} \cup (watched[fd] \ {d})

\* _remove_reader_no_check and _remove_writer_no_check: the mask left by the
\* epoll.modify or epoll.unregister, whose failure is ignored; it fails for a
\* descriptor that the kernel no longer watches
MaskWithout(fd, d) ==
    IF d \in watched[fd] /\ mask[fd] # {} THEN watched[fd] \ {d} ELSE mask[fd]

\* add_reader and add_writer modify a registration if there is a callback for
\* the other direction; they take that callback's word for the registration
Modifies(fd, d) == watched[fd] \ {d} # {}

\* add_reader and add_writer of an open descriptor that the kernel accepts
AddWatch(fd, d) ==
    /\ AppRuns
    /\ fd \in opened /\ (Modifies(fd, d) => mask[fd] # {})
    /\ mask' = [mask EXCEPT ![fd] = MaskWith(fd, d)]
    /\ watched' = [watched EXCEPT ![fd] = @ \cup {d}]
    /\ abandoned' = abandoned \ {fd}
    /\ UNCHANGED <<queue, schedVars, events, eventfd, pc, runVars,
                   doneVars, opened>>

\* The kernel refuses: EBADF for a closed descriptor, ENOENT for one that the
\* maps have and epoll has not, EPERM or ENOSPC for others.  The exception
\* leaves add_reader after the old callback was removed.
AddWatchFails(fd, d) ==
    /\ AppRuns
    /\ Modifies(fd, d) => mask[fd] = {}
    /\ mask' = [mask EXCEPT ![fd] = MaskWithout(fd, d)]
    /\ watched' = [watched EXCEPT ![fd] = @ \ {d}]
    /\ UNCHANGED <<queue, schedVars, events, eventfd, pc, runVars,
                   doneVars, opened, abandoned>>

\* remove_reader and remove_writer: a callback already queued is not cancelled
RemoveWatch(fd, d) ==
    /\ AppRuns
    /\ d \in watched[fd]
    /\ watched' = [watched EXCEPT ![fd] = @ \ {d}]
    /\ mask' = [mask EXCEPT ![fd] = MaskWithout(fd, d)]
    /\ UNCHANGED <<queue, schedVars, events, eventfd, pc, runVars,
                   doneVars, opened, abandoned>>

\* The program closes a descriptor: the kernel forgets its registration, the
\* maps do not
CloseFd(fd) ==
    /\ AppRuns
    /\ fd \in opened
    /\ opened' = opened \ {fd}
    /\ mask' = [mask EXCEPT ![fd] = {}]
    /\ abandoned' = IF watched[fd] # {} THEN abandoned \cup {fd} ELSE abandoned
    /\ UNCHANGED <<queue, schedVars, events, eventfd, pc, runVars,
                   doneVars, watched>>

\* The number is given to another file
OpenFd(fd) ==
    /\ AppRuns
    /\ fd \notin opened
    /\ opened' = opened \cup {fd}
    /\ UNCHANGED <<queue, schedVars, events, eventfd, pc, runVars,
                   doneVars, watched, mask, abandoned>>

\* A future becomes done; run_until_complete's callback is scheduled
Finish(f) ==
    /\ AppRuns
    /\ f \notin finished
    /\ finished' = finished \cup {f}
    /\ queue' = IF f \in stopOnDone THEN Append(queue, StopItem(f)) ELSE queue
    /\ stopOnDone' = stopOnDone \ {f}
    /\ UNCHANGED <<schedVars, events, eventfd, pc, watchVars, runVars>>

----------------------------------------------------------------------------
(***************************************************************************)
(* Starting and ending the loop.                                           *)
(***************************************************************************)
RunForever ==
    /\ phase = "idle" /\ ~closed
    /\ phase' = "top" /\ target' = None
    /\ UNCHANGED <<queue, schedVars, events, stopping, closed, eventfd, pc,
                   watchVars, doneVars>>

\* run_until_complete: on a done future the callback is scheduled at once.
\* Callers do not pass a future again whose last callback has not run yet.
RunUntilComplete(f) ==
    /\ phase = "idle" /\ ~closed
    /\ StopItem(f) \notin Queued /\ f \notin stopOnDone
    /\ IF f \in finished
       THEN queue' = Append(queue, StopItem(f)) /\ UNCHANGED stopOnDone
       ELSE stopOnDone' = stopOnDone \cup {f} /\ UNCHANGED queue
    /\ phase' = "top" /\ target' = f
    /\ UNCHANGED <<schedVars, events, stopping, closed, eventfd, pc,
                   watchVars, finished>>

\* Bug: stop() takes effect only when nothing is ready
BugMustEnd == stopping # None /\ queue = <<>>
MustEnd == stopping # None

\* The loop ends: run_forever's finally clause, then run_until_complete looks
\* at its future
EndLoop ==
    /\ phase = "top" /\ MustEnd
    /\ phase' = "idle" /\ stopping' = None /\ target' = None
    /\ UNCHANGED <<queue, schedVars, events, closed, eventfd, pc,
                   watchVars, doneVars>>

Close ==
    /\ phase = "idle" /\ ~closed
    /\ closed' = TRUE
    /\ UNCHANGED <<queue, schedVars, events, eventfd, pc, watchVars,
                   doneVars, phase, stopping, target>>

----------------------------------------------------------------------------
(***************************************************************************)
(* _run_once.                                                              *)
(***************************************************************************)

\* The fast path: epoll is skipped when callbacks are ready
Top ==
    /\ phase = "top" /\ ~MustEnd
    /\ phase' = IF queue = <<>> THEN "poll" ELSE "tick"
    /\ UNCHANGED <<queue, schedVars, events, stopping, closed, eventfd, pc,
                   watchVars, doneVars, target>>

\* epoll.poll returns with what it found, at the latest after 10 ms with
\* nothing.  Any watched descriptor may be readable or writable.
PollReturns ==
    /\ phase = "poll"
    /\ phase' = "events"
    /\ \E found \in SUBSET {w \in WatchItems : w.what \in mask[w.id]} :
          events' = found \cup (IF eventfd THEN {Item("eventfd", None)} ELSE {})
    /\ UNCHANGED <<queue, schedVars, stopping, closed, eventfd, pc,
                   watchVars, doneVars, target>>

\* One event at a time, in any order: the eventfd is drained, a reader or
\* writer gets its callback queued
HandleEvent(e) ==
    /\ phase = "events" /\ e \in events
    /\ events' = events \ {e}
    /\ IF e.what = "eventfd"
       THEN eventfd' = FALSE /\ UNCHANGED queue
       ELSE /\ queue' = IF e.what \in watched[e.id] THEN Append(queue, e) ELSE queue
            /\ UNCHANGED eventfd
    /\ UNCHANGED <<schedVars, pc, watchVars, runVars, doneVars>>

EndEvents ==
    /\ phase = "events" /\ events = {}
    /\ phase' = "tick"
    /\ UNCHANGED <<queue, schedVars, events, stopping, closed, eventfd, pc,
                   watchVars, doneVars, target>>

----------------------------------------------------------------------------
(***************************************************************************)
(* run_tick.                                                               *)
(***************************************************************************)

\* Bug: timers wait while callbacks are ready
BugExpired == IF queue # <<>> THEN {} ELSE {h \in heap : when[h] <= now}
\* TimerHeap::pop_expired
Expired == {h \in heap : when[h] <= now}

\* Bug: the largest expiration is on top of the heap
BugPopOrder(s) == \A i, j \in DOMAIN s : i < j => when[s[i]] >= when[s[j]]
\* Handles leave the heap by expiration; equal ones in any order
PopOrder(s) == \A i, j \in DOMAIN s : i < j => when[s[i]] <= when[s[j]]

\* Bug: the heap is read without removing what was read
BugPopExpired(s) ==
    /\ s \in [1..Cardinality(Expired) -> Expired]
    /\ {s[i] : i \in DOMAIN s} = Expired
    /\ PopOrder(s)
    /\ UNCHANGED heap

PopExpired(s) ==
    /\ s \in [1..Cardinality(Expired) -> Expired]
    /\ {s[i] : i \in DOMAIN s} = Expired
    /\ PopOrder(s)
    /\ heap' = heap \ Expired

AsItems(s) == [i \in DOMAIN s |-> Item("handle", s[i])]

\* Bug: expired timers go in front of what was ready before
BugReadyAfter(s) == AsItems(s) \o queue
\* The queue after the timers were processed
ReadyAfter(s) == queue \o AsItems(s)

\* Scheduler::drain: the batch is what is ready now
Tick(s) ==
    /\ phase = "tick"
    /\ PopExpired(s)
    /\ batch' = ReadyAfter(s)
    /\ queue' = <<>>
    /\ phase' = "batch"
    /\ UNCHANGED <<current, cancelled, when, now, events, stopping, closed,
                   eventfd, pc, watchVars, doneVars, target>>

\* An exception leaves run_forever with q in the ready queue.
\* run_until_complete cancels its future: a plain future is done with that, a
\* task will be later.
LeavesLoop(q) ==
    /\ \/ /\ target # None /\ target \notin finished
          /\ finished' = finished \cup {target}
          /\ stopOnDone' = stopOnDone \ {target}
          /\ queue' = Append(q, StopItem(target))
       \/ /\ queue' = q
          /\ UNCHANGED doneVars
    /\ phase' = "idle" /\ stopping' = None /\ target' = None

\* Ring::submit fails
TickFails(s) ==
    /\ phase = "tick"
    /\ PopExpired(s)
    /\ LeavesLoop(ReadyAfter(s))
    /\ UNCHANGED <<batch, current, cancelled, when, now, events, closed, eventfd,
                   pc, watchVars>>

\* Bug: a handle cancelled while it waits in the queue is executed
BugDropped(i) == FALSE
\* UringHandle::execute, and run_tick for other handles, check the flag
Dropped(i) == i \in cancelled

\* The next handle of the batch
Execute ==
    /\ phase = "batch" /\ batch # <<>>
    /\ LET i == Head(batch) IN
       /\ batch' = Tail(batch)
       /\ cancelled' = cancelled \ {i}
       /\ current' = IF Dropped(i) THEN None ELSE i
       /\ phase' = IF Dropped(i) THEN "batch" ELSE "call"
       /\ stopping' = IF i.what = "stop" THEN i.id ELSE stopping
    /\ UNCHANGED <<queue, heap, when, now, events, closed, eventfd, pc,
                   watchVars, doneVars, target>>

\* A callback returns or raises; an exception is printed
Return ==
    /\ phase = "call"
    /\ phase' = "batch" /\ current' = None
    /\ UNCHANGED <<queue, batch, cancelled, heap, when, now, events, stopping, closed,
                   eventfd, pc, watchVars, doneVars, target>>

EndTick ==
    /\ phase = "batch" /\ batch = <<>>
    /\ phase' = "process"
    /\ UNCHANGED <<queue, schedVars, events, stopping, closed, eventfd, pc,
                   watchVars, doneVars, target>>

----------------------------------------------------------------------------
(***************************************************************************)
(* _process_completions: the handlers of the completions run_tick returned *)
(* call protocols, which schedule callbacks, watch descriptors and finish  *)
(* futures (AppRuns).  What a handler does is in StreamTransport and       *)
(* Server.                                                                 *)
(***************************************************************************)
EndProcess ==
    /\ phase = "process"
    /\ phase' = "top"
    /\ UNCHANGED <<queue, schedVars, events, stopping, closed, eventfd, pc,
                   watchVars, doneVars, target>>

\* A handler raises: the exception leaves _run_once and run_forever, and the
\* rest of the completions is lost
ProcessFails ==
    /\ phase = "process"
    /\ LeavesLoop(queue)
    /\ UNCHANGED <<schedVars, events, closed, eventfd, pc, watchVars>>

----------------------------------------------------------------------------
PopOrders == UNION {[1..n -> Handles] : n \in 0..MaxHandles}

\* The loop thread inside run_forever
LoopStep ==
    \/ EndLoop \/ Top \/ PollReturns \/ EndEvents \/ Execute \/ Return \/ EndTick
    \/ EndProcess
    \/ \E e \in events : HandleEvent(e)
    \/ \E s \in PopOrders : Tick(s)

LoopNext ==
    \/ Clock
    \/ CompletionSignal
    \/ \E fd \in Fds, d \in Directions :
          AddWatch(fd, d) \/ AddWatchFails(fd, d) \/ RemoveWatch(fd, d)
    \/ \E fd \in Fds : CloseFd(fd) \/ OpenFd(fd)
    \/ \E t \in Threads : ThreadWrite(t) \/ \E h \in Handles : ThreadPush(t, h)
    \/ \E h \in Handles : CallSoon(h) \/ CancelHandle(h)
    \/ \E h \in Handles, w \in 0..MaxTime : CallAt(h, w)
    \/ Stop
    \/ \E f \in Futures : Finish(f) \/ RunUntilComplete(f)
    \/ RunForever
    \/ Close
    \/ LoopStep
    \/ \E s \in PopOrders : TickFails(s)
    \/ ProcessFails

(***************************************************************************)
(* Fairness: the clock advances and a loop that was started keeps running, *)
(* which includes that every callback and every protocol returns.  Nobody  *)
(* has to start it, and neither the application nor other threads have to  *)
(* do anything.                                                            *)
(***************************************************************************)
LoopSpec ==
    /\ LoopInit /\ [][LoopNext]_loopVars
    /\ WF_loopVars(Clock)
    /\ WF_loopVars(LoopStep)

----------------------------------------------------------------------------
(***************************************************************************)
(* Properties                                                              *)
(***************************************************************************)

\* The type of every variable, and no callback is queued twice.
LoopTypeOK ==
    /\ \A i \in 1..Len(batch \o queue) : (batch \o queue)[i] \in Items
    /\ Len(batch \o queue) = Cardinality(Queued)
    /\ current \in Items \cup {None}
    /\ cancelled \subseteq HandleItems
    /\ heap \subseteq Handles
    /\ when \in [Handles -> 0..MaxTime]
    /\ now \in 0..MaxTime
    /\ phase \in {"idle", "top", "poll", "events", "tick", "batch", "call",
                 "process"}
    /\ events \subseteq WatchItems \cup {Item("eventfd", None)}
    /\ pc \in [Threads -> {"idle", "pushed"}]
    /\ watched \in [Fds -> SUBSET Directions]
    /\ mask \in [Fds -> SUBSET Directions]
    /\ opened \subseteq Fds /\ abandoned \subseteq Fds
    /\ finished \subseteq Futures /\ stopOnDone \subseteq Futures \ finished
    /\ target \in Futures \cup {None}
    /\ stopping \in Futures \cup {None, "app"}

(***************************************************************************)
(* The loop implements CallbackQueue: what run_tick still has to execute   *)
(* followed by the ready queue is one queue.  Draining it, moving timers   *)
(* into it, pushes by other threads, cancellation and a failed tick keep   *)
(* the order, lose nothing and run nothing twice or after its cancellation.*)
(***************************************************************************)
Queue == INSTANCE CallbackQueue WITH pending <- batch \o queue
ImplementsCallbackQueue == Queue!QueueSpec

(***************************************************************************)
(* No lost wakeup: while the loop waits in epoll and another thread has    *)
(* scheduled a callback, the eventfd is readable or that thread is just    *)
(* about to write to it.                                                   *)
(***************************************************************************)
NoLostWakeup ==
    phase = "poll" /\ queue # <<>> =>
        eventfd \/ \E t \in Threads : pc[t] = "pushed"

(***************************************************************************)
(* Timers leave the heap in the order of their expiration and never before *)
(* it: whenever one becomes ready it has expired, and every timer that     *)
(* expires earlier and was in the heap is ready as well, ahead of it.      *)
(***************************************************************************)
TimersInOrder ==
    [][\A h \in heap \ heap' :
          LET ready == batch' \o queue'
              At(k) == CHOOSE i \in 1..Len(ready) : ready[i] = Item("handle", k)
          IN  /\ when[h] <= now
              /\ \A k \in heap : when[k] < when[h] =>
                    k \notin heap' /\ At(k) < At(h)]_loopVars

(***************************************************************************)
(* Epoll watches exactly the directions that have a reader or a writer,    *)
(* whichever calls the kernel refused before and although add_reader and   *)
(* add_writer deduce the registration from the map of the other direction. *)
(* The one exception is a descriptor that was closed with a callback still *)
(* in the maps: the kernel watches nothing of it, also after its number    *)
(* was given to another file, until a new registration succeeds.           *)
(***************************************************************************)
EpollMatchesWatches ==
    \A fd \in Fds : \/ mask[fd] = watched[fd]
                    \/ mask[fd] = {} /\ fd \in abandoned

(***************************************************************************)
(* Every callback gets its turn: a ready callback is executed (or dropped, *)
(* if cancelled) and a timer becomes ready, unless the loop ends first.    *)
(* A callback that reschedules itself forever, or a steady stream of       *)
(* pushes by other threads, cannot keep it waiting.                        *)
(***************************************************************************)
EveryCallbackRuns ==
    /\ \A i \in HandleItems : (i \in Queued) ~> (i \notin Queued \/ phase = "idle")
    /\ \A h \in Handles : (h \in heap) ~> (h \notin heap \/ phase = "idle")

\* stop() ends the loop, whatever keeps being scheduled.
StopEndsLoop == (stopping # None /\ phase # "idle") ~> (phase = "idle")
============================================================================
