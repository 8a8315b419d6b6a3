----------------------------- MODULE UringCore -----------------------------
(***************************************************************************)
(* The io_uring engine of src/src/lib.rs (class UringCore) with the parts  *)
(* it owns: the buffer pool (buffer.rs), the per-descriptor credit state   *)
(* (state.rs), the submission and completion queues (ring.rs) and the maps *)
(* that tie a completion back to a buffer and to a Python future.          *)
(*                                                                         *)
(* Every call runs under the GIL and takes the locks it needs one after    *)
(* the other, so one call is one step.  The kernel runs concurrently: it   *)
(* completes any operation it holds, in any order, between two calls.      *)
(*                                                                         *)
(* An operation is named by the number of the call that created it, and    *)
(* the future handed to that call carries the same number.  The numbers    *)
(* are for the properties: a completion carries only user_data, that is    *)
(* the descriptor and the operation type (its generation is never read),   *)
(* and run_tick below uses nothing else.                                   *)
(***************************************************************************)
EXTENDS Integers, Sequences, FiniteSets

CONSTANTS
    Fds,            \* descriptors
    Buffers,        \* buffer indices of the pool
    MaxCalls,       \* bound: submissions explored
    CreditBudget,   \* DEFAULT_CREDIT_BUDGET (64 in the code)
    SqEntries,      \* capacity of the submission queue
    Kinds,          \* operation types the callers use
    SingleOp,       \* TRUE: callers keep one operation per descriptor
    None            \* "no entry" in a map

AllKinds == {"recv", "recvmsg", "send", "sendmsg", "accept", "close"}

ASSUME ConstantsAssumption ==
    /\ IsFiniteSet(Fds)
    /\ MaxCalls \in Nat
    /\ CreditBudget \in Nat
    /\ SqEntries \in Nat \ {0}
    /\ Kinds \subseteq AllKinds
    /\ SingleOp \in BOOLEAN
    /\ None \notin Buffers
    /\ None \notin Nat

VARIABLES
    free,          \* free[b]: how often b is on the pool's free list
    sendHeld,      \* ghost: buffers taken by submit_send, recorded nowhere
    fdState,       \* FDStateManager: credit state of a registered fd
    inflightRecv,  \* inflight_recv_buffers: fd -> buffer
    futures,       \* futures: fd -> future
    recvmsgState,  \* recvmsg_states: fd -> msghdr (named by its call)
    sendmsgState,  \* sendmsg_states: fd -> msghdr (named by its call)
    op,            \* what each call asked for
    where,         \* where each operation is
    cq,            \* completion queue
    mem,           \* content of each buffer: the call whose data it holds
    outcome,       \* what each future was resolved with
    results        \* what the last run_tick returned to Python

vars == <<free, sendHeld, fdState, inflightRecv, futures, recvmsgState,
          sendmsgState, op, where, cq, mem, outcome, results>>

Calls == 1..MaxCalls
Blank == 0          \* content of a buffer the kernel never wrote
RecvKinds == {"recv", "recvmsg"}

NotRegistered == [registered |-> FALSE, inflight |-> 0, paused |-> FALSE]
NewFdState    == [registered |-> TRUE,  inflight |-> 0, paused |-> FALSE]

NoOp == [kind |-> "none", fd |-> None, buf |-> None]
Pending == [tag |-> "pending", from |-> Blank, data |-> None]

(***************************************************************************)
(* Outstanding: pushed to the ring and not yet reaped by run_tick.         *)
(***************************************************************************)
Outstanding(c) == where[c] \in {"sq", "kernel", "cq"}
Idle(fd) == \A c \in Calls : op[c].fd = fd => ~Outstanding(c)

----------------------------------------------------------------------------
\* UringCore::new
Init ==
    /\ free = [b \in Buffers |-> 1]
    /\ sendHeld = {}
    /\ fdState = [fd \in Fds |-> NotRegistered]
    /\ inflightRecv = [fd \in Fds |-> None]
    /\ futures = [fd \in Fds |-> None]
    /\ recvmsgState = [fd \in Fds |-> None]
    /\ sendmsgState = [fd \in Fds |-> None]
    /\ op = [c \in Calls |-> NoOp]
    /\ where = [c \in Calls |-> "unused"]
    /\ cq = <<>>
    /\ mem = [b \in Buffers |-> Blank]
    /\ outcome = [c \in Calls |-> Pending]
    /\ results = <<>>

----------------------------------------------------------------------------
(***************************************************************************)
(* The pool.  The order of the free list (a FIFO SegQueue) is left open:   *)
(* acquire takes any free index.  What the properties need is how often an *)
(* index is on the list, since nothing in release checks for a second one. *)
(***************************************************************************)
Acquired(f, b) == [f EXCEPT ![b] = @ - 1]
Released(f, b) == IF b = None THEN f ELSE [f EXCEPT ![b] = @ + 1]
PoolEmpty == \A b \in Buffers : free[b] = 0

\* FDState::should_submit_recv behind FDStateManager::should_submit_recv
ShouldSubmitRecv(fd) ==
    /\ fdState[fd].registered
    /\ ~fdState[fd].paused
    /\ fdState[fd].inflight < CreditBudget

\* Bug: the two counters' updates are swapped
BugOnSubmit(fd) == [fdState EXCEPT ![fd].inflight = @ - 1]
OnSubmit(fd) == [fdState EXCEPT ![fd].inflight = @ + 1]

SqFull == Cardinality({c \in Calls : where[c] = "sq"}) >= SqEntries

(***************************************************************************)
(* Ring::submit after a push of call c: everything queued goes to the      *)
(* kernel, or io_uring_enter fails and the entries stay in the queue.      *)
(***************************************************************************)
PushAndSubmit(c, flushed) ==
    where' = [d \in Calls |->
                IF d = c \/ where[d] = "sq"
                THEN IF flushed THEN "kernel" ELSE IF d = c THEN "sq" ELSE where[d]
                ELSE where[d]]

Refuse(c) == where' = [where EXCEPT ![c] = "refused"]

Fresh(c) == where[c] = "unused" /\ \A d \in Calls : d < c => where[d] # "unused"

----------------------------------------------------------------------------
\* register_fd: replaces whatever state the descriptor had
RegisterFd(fd) ==
    /\ fdState' = [fdState EXCEPT ![fd] = NewFdState]
    /\ UNCHANGED <<free, sendHeld, inflightRecv, futures, recvmsgState,
                   sendmsgState, op, where, cq, mem, outcome, results>>

\* Bug: the tracking entry survives unregister_fd
BugUnregisterKeepsEntry(fd) ==
    /\ free' = Released(free, inflightRecv[fd])
    /\ fdState' = [fdState EXCEPT ![fd] = NotRegistered]
    /\ UNCHANGED <<sendHeld, inflightRecv, futures, recvmsgState, sendmsgState,
                   op, where, cq, mem, outcome, results>>

\* unregister_fd: the tracked buffer goes back to the pool at once
UnregisterFd(fd) ==
    /\ free' = Released(free, inflightRecv[fd])
    /\ inflightRecv' = [inflightRecv EXCEPT ![fd] = None]
    /\ fdState' = [fdState EXCEPT ![fd] = NotRegistered]
    /\ UNCHANGED <<sendHeld, futures, recvmsgState, sendmsgState, op, where,
                   cq, mem, outcome, results>>

\* pause_reading and resume_reading: an error, and no change, when unregistered
SetPaused(fd, p) ==
    /\ fdState[fd].registered
    /\ fdState' = [fdState EXCEPT ![fd].paused = p]
    /\ UNCHANGED <<free, sendHeld, inflightRecv, futures, recvmsgState,
                   sendmsgState, op, where, cq, mem, outcome, results>>

----------------------------------------------------------------------------
(***************************************************************************)
(* submit_recv and submit_recvfrom, one action per way through the code.   *)
(***************************************************************************)

\* Paused, out of credit or unregistered: Ok(()) without storing the future
SubmitRecvSkipped(c, fd) ==
    /\ ~ShouldSubmitRecv(fd)
    /\ Refuse(c)
    /\ UNCHANGED <<free, sendHeld, fdState, inflightRecv, futures, recvmsgState,
                   sendmsgState, op, cq, mem, outcome, results>>

\* "No buffers available": an error before anything changed
SubmitNoBuffer(c) ==
    /\ PoolEmpty
    /\ Refuse(c)
    /\ UNCHANGED <<free, sendHeld, fdState, inflightRecv, futures, recvmsgState,
                   sendmsgState, op, cq, mem, outcome, results>>

\* The push fails on a full queue: buffer and future are given back, the
\* credit is not
SubmitRecvSqFull(c, fd) ==
    /\ ShouldSubmitRecv(fd)
    /\ ~PoolEmpty
    /\ SqFull
    /\ fdState' = OnSubmit(fd)
    /\ futures' = [futures EXCEPT ![fd] = None]
    /\ Refuse(c)
    /\ UNCHANGED <<free, sendHeld, inflightRecv, recvmsgState, sendmsgState,
                   op, cq, mem, outcome, results>>

\* Queued.  A buffer already tracked for the descriptor is released.
SubmitRecvQueued(c, fd, kind, b, flushed) ==
    /\ ShouldSubmitRecv(fd)
    /\ free[b] > 0
    /\ ~SqFull
    /\ fdState' = OnSubmit(fd)
    /\ free' = Released(Acquired(free, b), inflightRecv[fd])
    /\ inflightRecv' = [inflightRecv EXCEPT ![fd] = b]
    /\ futures' = [futures EXCEPT ![fd] = c]
    /\ recvmsgState' = IF kind = "recvmsg"
                       THEN [recvmsgState EXCEPT ![fd] = c] ELSE recvmsgState
    /\ op' = [op EXCEPT ![c] = [kind |-> kind, fd |-> fd, buf |-> b]]
    /\ PushAndSubmit(c, flushed)
    /\ UNCHANGED <<sendHeld, sendmsgState, cq, mem, outcome, results>>

----------------------------------------------------------------------------
\* submit_send: the buffer is not recorded anywhere after the push
SubmitSendQueued(c, fd, b, flushed) ==
    /\ free[b] > 0
    /\ ~SqFull
    /\ free' = Acquired(free, b)
    /\ sendHeld' = sendHeld \cup {b}
    /\ mem' = [mem EXCEPT ![b] = c]
    /\ futures' = [futures EXCEPT ![fd] = c]
    /\ op' = [op EXCEPT ![c] = [kind |-> "send", fd |-> fd, buf |-> b]]
    /\ PushAndSubmit(c, flushed)
    /\ UNCHANGED <<fdState, inflightRecv, recvmsgState, sendmsgState, cq,
                   outcome, results>>

\* A full queue: the buffer is released, its content already overwritten
SubmitSendSqFull(c, fd, b) ==
    /\ free[b] > 0
    /\ SqFull
    /\ mem' = [mem EXCEPT ![b] = c]
    /\ futures' = [futures EXCEPT ![fd] = None]
    /\ Refuse(c)
    /\ UNCHANGED <<free, sendHeld, fdState, inflightRecv, recvmsgState,
                   sendmsgState, op, cq, outcome, results>>

\* Data longer than a buffer: the slice is clipped to the buffer's size, so
\* copy_from_slice panics, after the buffer was taken and before anything else
SubmitSendTooLong(c, b) ==
    /\ free[b] > 0
    /\ free' = Acquired(free, b)
    /\ sendHeld' = sendHeld \cup {b}
    /\ Refuse(c)
    /\ UNCHANGED <<fdState, inflightRecv, futures, recvmsgState, sendmsgState,
                   op, cq, mem, outcome, results>>

\* Bug: the message state, too, is stored only after a successful flush
BugSubmitSendtoQueued(c, fd, flushed) ==
    /\ ~SqFull
    /\ sendmsgState' = IF flushed THEN [sendmsgState EXCEPT ![fd] = c] ELSE sendmsgState
    /\ futures' = IF flushed THEN [futures EXCEPT ![fd] = c] ELSE futures
    /\ op' = [op EXCEPT ![c] = [kind |-> "sendmsg", fd |-> fd, buf |-> None]]
    /\ PushAndSubmit(c, flushed)
    /\ UNCHANGED <<free, sendHeld, fdState, inflightRecv, recvmsgState, cq,
                   mem, outcome, results>>

\* submit_sendto: the message state is stored before the flush, the future
\* only after the flush succeeded
SubmitSendtoQueued(c, fd, flushed) ==
    /\ ~SqFull
    /\ sendmsgState' = [sendmsgState EXCEPT ![fd] = c]
    /\ futures' = IF flushed THEN [futures EXCEPT ![fd] = c] ELSE futures
    /\ op' = [op EXCEPT ![c] = [kind |-> "sendmsg", fd |-> fd, buf |-> None]]
    /\ PushAndSubmit(c, flushed)
    /\ UNCHANGED <<free, sendHeld, fdState, inflightRecv, recvmsgState, cq,
                   mem, outcome, results>>

\* submit_accept stores a future first, submit_close has none
SubmitPlainQueued(c, fd, kind, flushed) ==
    /\ ~SqFull
    /\ futures' = IF kind = "accept" THEN [futures EXCEPT ![fd] = c] ELSE futures
    /\ op' = [op EXCEPT ![c] = [kind |-> kind, fd |-> fd, buf |-> None]]
    /\ PushAndSubmit(c, flushed)
    /\ UNCHANGED <<free, sendHeld, fdState, inflightRecv, recvmsgState,
                   sendmsgState, cq, mem, outcome, results>>

\* A full queue: submit_accept removes the descriptor's future, submit_sendto
\* and submit_close leave the map alone
SubmitPlainSqFull(c, fd, kind) ==
    /\ SqFull
    /\ futures' = IF kind = "accept" THEN [futures EXCEPT ![fd] = None] ELSE futures
    /\ Refuse(c)
    /\ UNCHANGED <<free, sendHeld, fdState, inflightRecv, recvmsgState,
                   sendmsgState, op, cq, mem, outcome, results>>

----------------------------------------------------------------------------
\* The kernel finishes an operation it holds.  A received message is written
\* into the buffer the operation was given.
KernelComplete(c, res) ==
    /\ where[c] = "kernel"
    /\ res = "zero" => op[c].kind \in RecvKinds
    /\ where' = [where EXCEPT ![c] = "cq"]
    /\ cq' = Append(cq, [call |-> c, fd |-> op[c].fd, kind |-> op[c].kind, res |-> res])
    /\ mem' = IF op[c].kind \in RecvKinds /\ res = "pos"
              THEN [mem EXCEPT ![op[c].buf] = c] ELSE mem
    /\ UNCHANGED <<free, sendHeld, fdState, inflightRecv, futures, recvmsgState,
                   sendmsgState, op, outcome, results>>

----------------------------------------------------------------------------
(***************************************************************************)
(* run_tick, parts 2 and 3 (timers and the ready batch are in EventLoop).  *)
(***************************************************************************)

\* Entry i is the first one of its descriptor with an operation type in ks
FirstOf(i, ks) ==
    /\ cq[i].kind \in ks
    /\ \A j \in 1..(i - 1) : cq[j].fd = cq[i].fd => cq[j].kind \notin ks

HasCqe(fd, ks) == \E i \in 1..Len(cq) : cq[i].fd = fd /\ cq[i].kind \in ks

\* Phase 1: the first receive completion of a descriptor takes the tracked
\* buffer, whichever operation it was submitted with; a later one finds none
BugDataOf(i) ==   \* the buffer is looked up once for the whole batch
    IF cq[i].res = "pos" /\ FirstOf(i, RecvKinds) /\ inflightRecv[cq[1].fd] # None
    THEN mem[inflightRecv[cq[1].fd]]
    ELSE None

DataOf(i) ==
    IF cq[i].res = "pos" /\ FirstOf(i, RecvKinds) /\ inflightRecv[cq[i].fd] # None
    THEN mem[inflightRecv[cq[i].fd]]
    ELSE None

BugReleasedByTick(b) ==   \* releases what other descriptors still use
    Cardinality({fd \in Fds : /\ \E i \in 1..Len(cq) : cq[i].kind \in RecvKinds
                              /\ inflightRecv[fd] = b})

ReleasedByTick(b) ==
    Cardinality({fd \in Fds : HasCqe(fd, RecvKinds) /\ inflightRecv[fd] = b})

\* Phase 3: the value the descriptor's future is resolved with
Resolution(i) ==
    [tag  |-> IF cq[i].res = "neg" THEN "error"
              ELSE IF cq[i].kind \notin RecvKinds THEN "count"
              ELSE IF DataOf(i) # None THEN "bytes" ELSE "empty",
     from |-> cq[i].call,
     data |-> DataOf(i)]

\* Phase 2 and 3: the first completion of a descriptor consumes its future.
\* A future that was cancelled meanwhile stays cancelled (the error is printed).
ResolvedBy(c, i) ==
    /\ futures[cq[i].fd] = c
    /\ outcome[c] = Pending
    /\ FirstOf(i, AllKinds)

BugFuturesAfterTick ==   \* only receives clear the map
    [fd \in Fds |-> IF HasCqe(fd, RecvKinds) THEN None ELSE futures[fd]]

FuturesAfterTick ==
    [fd \in Fds |-> IF HasCqe(fd, AllKinds) THEN None ELSE futures[fd]]

\* The data element of a sendmsg result, a copy of its byte count, and the
\* sender's address of a recvmsg are left out.
RunTick ==
    LET entries == 1..Len(cq) IN
    /\ free' = [b \in Buffers |-> free[b] + ReleasedByTick(b)]
    /\ inflightRecv' = [fd \in Fds |-> IF HasCqe(fd, RecvKinds)
                                       THEN None ELSE inflightRecv[fd]]
    /\ recvmsgState' = [fd \in Fds |->
            IF \E i \in entries : /\ cq[i].fd = fd /\ cq[i].kind = "recvmsg"
                                  /\ FirstOf(i, RecvKinds) /\ inflightRecv[fd] # None
            THEN None ELSE recvmsgState[fd]]
    /\ sendmsgState' = [fd \in Fds |-> IF HasCqe(fd, {"sendmsg"})
                                       THEN None ELSE sendmsgState[fd]]
    /\ futures' = FuturesAfterTick
    /\ outcome' = [c \in Calls |->
            IF \E i \in entries : ResolvedBy(c, i)
            THEN Resolution(CHOOSE i \in entries : ResolvedBy(c, i))
            ELSE outcome[c]]
    /\ results' = [i \in entries |->
            [call |-> cq[i].call, fd |-> cq[i].fd, kind |-> cq[i].kind,
             res |-> cq[i].res, data |-> DataOf(i)]]
    /\ where' = [c \in Calls |-> IF where[c] = "cq" THEN "reaped"
                                 ELSE IF where[c] = "sq" THEN "kernel"
                                 ELSE where[c]]
    /\ cq' = <<>>
    /\ UNCHANGED <<sendHeld, fdState, op, mem>>

\* The holder of a future gives up on it (wait_for, task cancellation)
CancelFuture(c) ==
    /\ op[c].kind \notin {"none", "close"}
    /\ outcome[c] = Pending
    /\ outcome' = [outcome EXCEPT ![c].tag = "cancelled"]
    /\ UNCHANGED <<free, sendHeld, fdState, inflightRecv, futures, recvmsgState,
                   sendmsgState, op, where, cq, mem, results>>

----------------------------------------------------------------------------
(***************************************************************************)
(* The callers.  With SingleOp they issue an operation only on a           *)
(* descriptor with none outstanding, and unregister only such descriptors. *)
(***************************************************************************)
MayUse(fd) == SingleOp => Idle(fd)

SubmitRecv(c, fd, kind) ==
    \/ SubmitRecvSkipped(c, fd)
    \/ ShouldSubmitRecv(fd) /\ SubmitNoBuffer(c)
    \/ SubmitRecvSqFull(c, fd)
    \/ \E b \in Buffers, flushed \in BOOLEAN : SubmitRecvQueued(c, fd, kind, b, flushed)

SubmitSend(c, fd) ==
    \/ SubmitNoBuffer(c)
    \/ \E b \in Buffers : SubmitSendSqFull(c, fd, b) \/ SubmitSendTooLong(c, b)
    \/ \E b \in Buffers, flushed \in BOOLEAN : SubmitSendQueued(c, fd, b, flushed)

SubmitOther(c, fd, kind) ==
    \/ SubmitPlainSqFull(c, fd, kind)
    \/ \E flushed \in BOOLEAN :
          IF kind = "sendmsg" THEN SubmitSendtoQueued(c, fd, flushed)
                              ELSE SubmitPlainQueued(c, fd, kind, flushed)

Submit(c, fd, kind) ==
    /\ Fresh(c)
    /\ MayUse(fd)
    /\ \/ kind \in RecvKinds /\ SubmitRecv(c, fd, kind)
       \/ kind = "send" /\ SubmitSend(c, fd)
       \/ kind \in {"sendmsg", "accept", "close"} /\ SubmitOther(c, fd, kind)

Next ==
    \/ \E fd \in Fds : RegisterFd(fd)
    \/ \E fd \in Fds : MayUse(fd) /\ UnregisterFd(fd)
    \/ \E fd \in Fds, p \in BOOLEAN : SetPaused(fd, p)
    \/ \E c \in Calls, fd \in Fds, kind \in Kinds : Submit(c, fd, kind)
    \/ \E c \in Calls, res \in {"pos", "zero", "neg"} : KernelComplete(c, res)
    \/ RunTick
    \/ \E c \in Calls : CancelFuture(c)

Spec == Init /\ [][Next]_vars

----------------------------------------------------------------------------
(***************************************************************************)
(* Properties                                                              *)
(***************************************************************************)

Stages == {"unused", "refused", "sq", "kernel", "cq", "reaped"}
FdStates == [registered : BOOLEAN, inflight : Nat, paused : BOOLEAN]
Operations == [kind : AllKinds \cup {"none"}, fd : Fds \cup {None},
               buf : Buffers \cup {None}]
Contents == Calls \cup {Blank}
Cqes == [call : Calls, fd : Fds, kind : AllKinds, res : {"pos", "zero", "neg"}]
Outcomes == [tag : {"pending", "cancelled", "error", "count", "bytes", "empty"},
             from : Contents, data : Contents \cup {None}]
ResultItems == [call : Calls, fd : Fds, kind : AllKinds,
                res : {"pos", "zero", "neg"}, data : Contents \cup {None}]

\* The type of every variable.
TypeOK ==
    /\ free \in [Buffers -> Nat]
    /\ sendHeld \subseteq Buffers
    /\ fdState \in [Fds -> FdStates]
    /\ inflightRecv \in [Fds -> Buffers \cup {None}]
    /\ futures \in [Fds -> Calls \cup {None}]
    /\ recvmsgState \in [Fds -> Calls \cup {None}]
    /\ sendmsgState \in [Fds -> Calls \cup {None}]
    /\ op \in [Calls -> Operations]
    /\ where \in [Calls -> Stages]
    /\ cq \in Seq(Cqes)
    /\ mem \in [Buffers -> Contents]
    /\ outcome \in [Calls -> Outcomes]
    /\ results \in Seq(ResultItems)

(***************************************************************************)
(* Buffer accounting: whatever the callers do, every buffer has exactly    *)
(* one holder: the free list (once), the tracking entry of one descriptor, *)
(* or a send.  So no path through submit_recv, submit_send, unregister_fd  *)
(* or run_tick frees an index twice or loses a receive buffer, and the     *)
(* subtraction in BufferPool::stats cannot wrap.                           *)
(***************************************************************************)
BufferAccounting ==
    /\ \A b \in Buffers :
          LET tracked == \E fd \in Fds : inflightRecv[fd] = b IN
          \/ free[b] = 1 /\ ~tracked /\ b \notin sendHeld
          \/ free[b] = 0 /\ tracked /\ b \notin sendHeld
          \/ free[b] = 0 /\ ~tracked /\ b \in sendHeld
    /\ \A fd, gd \in Fds :
          inflightRecv[fd] # None /\ inflightRecv[fd] = inflightRecv[gd] => fd = gd

(***************************************************************************)
(* A future stored under a descriptor is the one of an operation of that   *)
(* descriptor which is still outstanding: no completion, error path or     *)
(* overwrite leaves a future in the map that no completion will ever find. *)
(***************************************************************************)
StoredFutureHasOperation ==
    \A fd \in Fds : futures[fd] # None =>
        /\ op[futures[fd]].fd = fd
        /\ Outstanding(futures[fd])

(***************************************************************************)
(* The safety contract of Ring::prep_recv: the kernel may write into the   *)
(* buffer of an outstanding receive, so nobody else may hold it.           *)
(***************************************************************************)
KernelBufferReserved ==
    \A c \in Calls : Outstanding(c) /\ op[c].kind \in RecvKinds =>
        /\ free[op[c].buf] = 0
        /\ op[c].buf \notin sendHeld
        /\ inflightRecv[op[c].fd] = op[c].buf

(***************************************************************************)
(* The message header of an outstanding recvmsg or sendmsg is still owned  *)
(* by the map that keeps it alive (RecvMsgState, SendMsgState).            *)
(***************************************************************************)
MessageStateAlive ==
    \A c \in Calls : Outstanding(c) =>
        /\ op[c].kind = "recvmsg" => recvmsgState[op[c].fd] = c
        /\ op[c].kind = "sendmsg" => sendmsgState[op[c].fd] = c

(***************************************************************************)
(* A completion is attributed to the operation it belongs to: a future is  *)
(* resolved by its own operation with the bytes received for it, and the   *)
(* data the next run_tick takes for a queued completion, for its future    *)
(* and for the list it returns, are the ones the kernel wrote for it.      *)
(***************************************************************************)
OwnCompletion ==
    /\ \A c \in Calls : outcome[c].tag \notin {"pending", "cancelled"} =>
          /\ outcome[c].from = c
          /\ outcome[c].data \in {c, None}
    /\ \A i \in 1..Len(cq) : cq[i].kind \in RecvKinds /\ cq[i].res = "pos"
          => DataOf(i) = cq[i].call

(***************************************************************************)
(* inflight_count is what state.rs documents, the "Active operations       *)
(* currently in the kernel ring": it never exceeds the receives that are   *)
(* outstanding.  Otherwise credit is gone for good and submit_recv ends up *)
(* dropping every further receive of the descriptor.                       *)
(***************************************************************************)
CreditsMatchRing ==
    \A fd \in Fds :
        fdState[fd].inflight <=
            Cardinality({c \in Calls : /\ Outstanding(c) /\ op[c].fd = fd
                                       /\ op[c].kind \in RecvKinds})

============================================================================
