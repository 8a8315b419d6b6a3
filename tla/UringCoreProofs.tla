-------------------------- MODULE UringCoreProofs --------------------------
(***************************************************************************)
(* Proofs about UringCore for every set of descriptors and buffers, every  *)
(* credit budget, queue size and number of calls.                          *)
(***************************************************************************)
EXTENDS UringCore, FiniteSetTheorems, SequenceTheorems, TLAPS

(***************************************************************************)
(* What an operation that entered the ring was given: a descriptor, a type *)
(* and, for a receive, a buffer.  TypeOK is inductive with this.           *)
(***************************************************************************)
OpsWellFormed ==
    \A c \in Calls : where[c] \notin {"unused", "refused"} =>
        /\ op[c].fd \in Fds
        /\ op[c].kind \in AllKinds
        /\ op[c].kind \in RecvKinds => op[c].buf \in Buffers

TypeInv == TypeOK /\ OpsWellFormed

\* A set counted by the model (queue entries, descriptors of a buffer) has a
\* natural number of elements.
LEMMA CountsAreNat ==
    /\ \A b : ReleasedByTick(b) \in Nat
    /\ Cardinality({c \in Calls : where[c] = "sq"}) \in Nat
<1>1. \A b : IsFiniteSet({fd \in Fds : HasCqe(fd, RecvKinds) /\ inflightRecv[fd] = b})
  BY ConstantsAssumption, FS_Subset
<1>2. IsFiniteSet(Calls)
  BY ConstantsAssumption, FS_Interval DEF Calls
<1>3. IsFiniteSet({c \in Calls : where[c] = "sq"})
  BY <1>2, FS_Subset
<1> QED
  BY <1>1, <1>3, FS_CardinalityType DEF ReleasedByTick

\* Pushing an operation and flushing the queue keeps every stage a stage.
LEMMA PushAndSubmitType ==
    ASSUME TypeOK, NEW c \in Calls, NEW flushed \in BOOLEAN, PushAndSubmit(c, flushed)
    PROVE  /\ where' \in [Calls -> Stages]
           /\ \A d \in Calls : where'[d] \notin {"unused", "refused"} =>
                 d = c \/ where[d] \notin {"unused", "refused"}
  BY DEF TypeOK, PushAndSubmit, Stages

\* FDState::on_submit keeps the credit state well typed.
LEMMA OnSubmitType ==
    ASSUME TypeOK, NEW fd \in Fds PROVE OnSubmit(fd) \in [Fds -> FdStates]
<1>1. fdState[fd] \in FdStates
  BY DEF TypeOK
<1>2. [fdState[fd] EXCEPT !.inflight = @ + 1] \in FdStates
  BY <1>1 DEF FdStates
<1> QED
  BY <1>2 DEF OnSubmit, TypeOK

\* UringCore::new establishes the types.
LEMMA TypeInvInit == Init => TypeInv
<1> SUFFICES ASSUME Init PROVE TypeInv
  OBVIOUS
<1> USE ConstantsAssumption DEF Init
<1>1. TypeOK
  BY DEF TypeOK, NotRegistered, NoOp, Pending, Stages, FdStates, Operations,
         Contents, Outcomes
<1>2. OpsWellFormed
  BY DEF OpsWellFormed
<1> QED
  BY <1>1, <1>2 DEF TypeInv

\* Every way through the submit methods keeps the types.
LEMMA TypeInvSubmit ==
    ASSUME TypeInv, NEW c \in Calls, NEW fd \in Fds, NEW kind \in Kinds,
           Submit(c, fd, kind)
    PROVE  TypeInv'
<1> USE ConstantsAssumption DEF TypeInv
<1>1. CASE Refuse(c) /\ UNCHANGED <<free, sendHeld, fdState, inflightRecv, futures,
                 recvmsgState, sendmsgState, op, cq, mem, outcome, results>>
  BY <1>1 DEF Refuse, TypeOK, OpsWellFormed, Stages
<1>2. CASE SubmitRecvSqFull(c, fd)
  BY <1>2, OnSubmitType DEF SubmitRecvSqFull, Refuse, TypeOK, OpsWellFormed, Stages
<1>3. ASSUME NEW b \in Buffers, NEW flushed \in BOOLEAN, kind \in RecvKinds,
             SubmitRecvQueued(c, fd, kind, b, flushed)
      PROVE  TypeInv'
  <2>1. /\ free' \in [Buffers -> Nat]
        /\ fdState' \in [Fds -> FdStates]
    BY <1>3, OnSubmitType DEF SubmitRecvQueued, Released, Acquired, TypeOK
  <2>2. /\ op' \in [Calls -> Operations]
        /\ op'[c] = [kind |-> kind, fd |-> fd, buf |-> b]
        /\ \A d \in Calls : d # c => op'[d] = op[d]
    BY <1>3 DEF SubmitRecvQueued, TypeOK, Operations, AllKinds, RecvKinds
  <2>3. TypeOK'
    <3>1. /\ inflightRecv' \in [Fds -> Buffers \cup {None}]
          /\ futures' \in [Fds -> Calls \cup {None}]
          /\ recvmsgState' \in [Fds -> Calls \cup {None}]
      BY <1>3 DEF SubmitRecvQueued, TypeOK
    <3>2. where' \in [Calls -> Stages]
      BY <1>3, PushAndSubmitType DEF SubmitRecvQueued
    <3> QED
      BY <1>3, <2>1, <2>2, <3>1, <3>2 DEF SubmitRecvQueued, TypeOK
  <2>4. OpsWellFormed'
    BY <1>3, <2>2, PushAndSubmitType DEF SubmitRecvQueued, OpsWellFormed, RecvKinds, AllKinds
  <2> QED
    BY <2>3, <2>4
<1>4. ASSUME NEW b \in Buffers, NEW flushed \in BOOLEAN, SubmitSendQueued(c, fd, b, flushed)
      PROVE  TypeInv'
  <2>1. free' \in [Buffers -> Nat]
    BY <1>4 DEF SubmitSendQueued, Acquired, TypeOK
  <2>2. /\ op' \in [Calls -> Operations]
        /\ op'[c] = [kind |-> "send", fd |-> fd, buf |-> b]
        /\ \A d \in Calls : d # c => op'[d] = op[d]
    BY <1>4 DEF SubmitSendQueued, TypeOK, Operations, AllKinds
  <2>3. TypeOK'
    BY <1>4, <2>1, <2>2, PushAndSubmitType, ZenonT(60) DEF SubmitSendQueued, TypeOK, Contents
  <2>4. OpsWellFormed'
    BY <1>4, <2>2, PushAndSubmitType DEF SubmitSendQueued, OpsWellFormed, RecvKinds, AllKinds
  <2> QED
    BY <2>3, <2>4
<1>5. ASSUME NEW b \in Buffers, SubmitSendSqFull(c, fd, b)
      PROVE  TypeInv'
  BY <1>5 DEF SubmitSendSqFull, Refuse, TypeOK, OpsWellFormed, Stages, Contents
<1>11. ASSUME NEW b \in Buffers, SubmitSendTooLong(c, b)
       PROVE  TypeInv'
  <2>1. free' \in [Buffers -> Nat]
    BY <1>11 DEF SubmitSendTooLong, Acquired, TypeOK
  <2> QED
    BY <1>11, <2>1 DEF SubmitSendTooLong, Refuse, TypeOK, OpsWellFormed, Stages
<1>6. ASSUME kind \in {"sendmsg", "accept", "close"}, SubmitPlainSqFull(c, fd, kind)
      PROVE  TypeInv'
  BY <1>6 DEF SubmitPlainSqFull, Refuse, TypeOK, OpsWellFormed, Stages
<1>7. ASSUME NEW flushed \in BOOLEAN, kind \in {"sendmsg", "accept", "close"},
             SubmitSendtoQueued(c, fd, flushed) \/ SubmitPlainQueued(c, fd, kind, flushed)
      PROVE  TypeInv'
  <2>1. PICK k \in {"sendmsg", "accept", "close"} :
            op' = [op EXCEPT ![c] = [kind |-> k, fd |-> fd, buf |-> None]]
    BY <1>7 DEF SubmitSendtoQueued, SubmitPlainQueued
  <2>2. /\ op' \in [Calls -> Operations]
        /\ op'[c] = [kind |-> k, fd |-> fd, buf |-> None]
        /\ \A d \in Calls : d # c => op'[d] = op[d]
    BY <2>1 DEF TypeOK, Operations, AllKinds
  <2>3. TypeOK'
    <3>1. /\ futures' \in [Fds -> Calls \cup {None}]
          /\ sendmsgState' \in [Fds -> Calls \cup {None}]
      <4>1. CASE SubmitSendtoQueued(c, fd, flushed)
        BY <4>1 DEF SubmitSendtoQueued, TypeOK
      <4>2. CASE SubmitPlainQueued(c, fd, kind, flushed)
        BY <4>2 DEF SubmitPlainQueued, TypeOK
      <4> QED
        BY <1>7, <4>1, <4>2
    <3>2. where' \in [Calls -> Stages]
      BY <1>7, PushAndSubmitType DEF SubmitSendtoQueued, SubmitPlainQueued
    <3> QED
      <4>1. UNCHANGED <<free, sendHeld, fdState, inflightRecv, recvmsgState, cq,
                        mem, outcome, results>>
        BY <1>7 DEF SubmitSendtoQueued, SubmitPlainQueued
      <4> QED
        BY <2>2, <3>1, <3>2, <4>1 DEF TypeOK
  <2>4. OpsWellFormed'
    BY <1>7, <2>2, PushAndSubmitType
    DEF SubmitSendtoQueued, SubmitPlainQueued, OpsWellFormed, RecvKinds, AllKinds
  <2> QED
    BY <2>3, <2>4
<1>8. CASE kind \in RecvKinds /\ SubmitRecv(c, fd, kind)
  BY <1>1, <1>2, <1>3, <1>8 DEF SubmitRecv, SubmitRecvSkipped, SubmitNoBuffer
<1>9. CASE kind = "send" /\ SubmitSend(c, fd)
  BY <1>1, <1>4, <1>5, <1>9, <1>11 DEF SubmitSend, SubmitNoBuffer
<1>10. CASE kind \in {"sendmsg", "accept", "close"} /\ SubmitOther(c, fd, kind)
  BY <1>6, <1>7, <1>10 DEF SubmitOther
<1> QED
  BY <1>8, <1>9, <1>10 DEF Submit

\* What a tick reads from a queued completion.
LEMMA CqeTypes ==
    ASSUME TypeInv, NEW i \in 1..Len(cq)
    PROVE  /\ cq[i] \in Cqes
           /\ DataOf(i) \in Contents \cup {None}
           /\ Resolution(i) \in Outcomes
<1>1. cq[i] \in Cqes
  BY DEF TypeInv, TypeOK
<1>2. DataOf(i) \in Contents \cup {None}
  <2>1. inflightRecv[cq[i].fd] \in Buffers \cup {None}
    BY <1>1 DEF TypeInv, TypeOK, Cqes
  <2> QED
    BY <2>1 DEF DataOf, TypeInv, TypeOK
<1>3. Resolution(i) \in Outcomes
  BY <1>1, <1>2 DEF Resolution, Outcomes, Cqes, Contents
<1> QED
  BY <1>1, <1>2, <1>3

\* run_tick keeps the types.
LEMMA TypeInvRunTick ==
    ASSUME TypeInv, RunTick PROVE TypeInv'
<1> DEFINE entries == 1..Len(cq)
<1>1. free' \in [Buffers -> Nat]
  BY CountsAreNat DEF RunTick, TypeInv, TypeOK
<1>2. /\ inflightRecv' \in [Fds -> Buffers \cup {None}]
      /\ futures' \in [Fds -> Calls \cup {None}]
      /\ recvmsgState' \in [Fds -> Calls \cup {None}]
      /\ sendmsgState' \in [Fds -> Calls \cup {None}]
  BY DEF RunTick, FuturesAfterTick, TypeInv, TypeOK
<1>3. outcome' \in [Calls -> Outcomes]
  <2> DEFINE pick(c) == CHOOSE i \in entries : ResolvedBy(c, i)
  <2>1. ASSUME NEW c \in Calls, \E i \in entries : ResolvedBy(c, i)
        PROVE  Resolution(pick(c)) \in Outcomes
    <3>1. pick(c) \in entries
      BY <2>1
    <3> QED
      BY <3>1, CqeTypes
  <2>2. outcome' = [c \in Calls |-> IF \E i \in entries : ResolvedBy(c, i)
                                    THEN Resolution(pick(c)) ELSE outcome[c]]
    BY DEF RunTick
  <2> HIDE DEF entries, pick
  <2> QED
    BY <2>1, <2>2 DEF TypeInv, TypeOK
<1>4. results' \in Seq(ResultItems)
  <2> DEFINE item(i) == [call |-> cq[i].call, fd |-> cq[i].fd, kind |-> cq[i].kind,
                         res |-> cq[i].res, data |-> DataOf(i)]
  <2>1. \A i \in 1..Len(cq) : item(i) \in ResultItems
    BY CqeTypes DEF Cqes, ResultItems
  <2>2. Len(cq) \in Nat
    BY DEF TypeInv, TypeOK
  <2>3. results' = [i \in 1..Len(cq) |-> item(i)]
    BY DEF RunTick
  <2> HIDE DEF item
  <2>4. results' \in [1..Len(cq) -> ResultItems]
    BY <2>1, <2>3
  <2> QED
    BY <2>2, <2>4
<1>5. /\ where' \in [Calls -> Stages]
      /\ cq' \in Seq(Cqes)
      /\ \A c \in Calls : where'[c] \notin {"unused", "refused"} =>
                          where[c] \notin {"unused", "refused"}
  BY DEF RunTick, TypeInv, TypeOK, Stages
<1>6. UNCHANGED <<sendHeld, fdState, op, mem>>
  BY DEF RunTick
<1>7. TypeOK'
  BY <1>1, <1>2, <1>3, <1>4, <1>5, <1>6 DEF TypeInv, TypeOK
<1>8. OpsWellFormed'
  BY <1>5, <1>6 DEF TypeInv, OpsWellFormed
<1> QED
  BY <1>7, <1>8 DEF TypeInv

\* Every call and every completion keeps the types.
LEMMA TypeInvStep ==
    TypeInv /\ [Next]_vars => TypeInv'
<1> SUFFICES ASSUME TypeInv, [Next]_vars PROVE TypeInv'
  OBVIOUS
<1> USE DEF TypeInv
<1>1. ASSUME NEW fd \in Fds, RegisterFd(fd) PROVE TypeInv'
  BY <1>1 DEF RegisterFd, NewFdState, FdStates, TypeOK, OpsWellFormed
<1>2. ASSUME NEW fd \in Fds, UnregisterFd(fd) PROVE TypeInv'
  BY <1>2, ConstantsAssumption
  DEF UnregisterFd, Released, NotRegistered, FdStates, TypeOK, OpsWellFormed
<1>3. ASSUME NEW fd \in Fds, NEW p \in BOOLEAN, SetPaused(fd, p) PROVE TypeInv'
  <2>1. fdState[fd] \in FdStates
    BY DEF TypeOK
  <2>2. [fdState[fd] EXCEPT !.paused = p] \in FdStates
    BY <2>1 DEF FdStates
  <2>3. fdState' \in [Fds -> FdStates]
    BY <1>3, <2>2 DEF SetPaused, TypeOK
  <2> QED
    BY <1>3, <2>3 DEF SetPaused, TypeOK, OpsWellFormed
<1>4. ASSUME NEW c \in Calls, NEW fd \in Fds, NEW kind \in Kinds, Submit(c, fd, kind)
      PROVE  TypeInv'
  BY <1>4, TypeInvSubmit
<1>5. ASSUME NEW c \in Calls, NEW res \in {"pos", "zero", "neg"}, KernelComplete(c, res)
      PROVE  TypeInv'
  <2>1. /\ op[c].fd \in Fds
        /\ op[c].kind \in AllKinds
        /\ op[c].kind \in RecvKinds => op[c].buf \in Buffers
    BY <1>5 DEF KernelComplete, OpsWellFormed
  <2>2. cq' \in Seq(Cqes)
    <3>1. [call |-> c, fd |-> op[c].fd, kind |-> op[c].kind, res |-> res] \in Cqes
      BY <2>1 DEF Cqes
    <3> QED
      BY <1>5, <3>1 DEF KernelComplete, TypeOK
  <2>3. mem' \in [Buffers -> Contents]
    BY <1>5, <2>1 DEF KernelComplete, TypeOK, Contents
  <2>4. where' \in [Calls -> Stages]
    BY <1>5 DEF KernelComplete, TypeOK, Stages
  <2>5. TypeOK'
    BY <1>5, <2>2, <2>3, <2>4 DEF KernelComplete, TypeOK
  <2>6. OpsWellFormed'
    BY <1>5, <2>1 DEF KernelComplete, OpsWellFormed, TypeOK
  <2> QED
    BY <2>5, <2>6
<1>6. CASE RunTick
  BY <1>6, TypeInvRunTick
<1>7. ASSUME NEW c \in Calls, CancelFuture(c) PROVE TypeInv'
  <2>1. outcome[c] \in Outcomes
    BY DEF TypeOK
  <2>2. [outcome[c] EXCEPT !.tag = "cancelled"] \in Outcomes
    BY <2>1 DEF Outcomes
  <2>3. outcome' \in [Calls -> Outcomes]
    BY <1>7, <2>2 DEF CancelFuture, TypeOK
  <2> QED
    BY <1>7, <2>3 DEF CancelFuture, TypeOK, OpsWellFormed
<1>8. CASE UNCHANGED vars
  BY <1>8 DEF vars, TypeOK, OpsWellFormed
<1> QED
  BY <1>1, <1>2, <1>3, <1>4, <1>5, <1>6, <1>7, <1>8 DEF Next

(***************************************************************************)
(* Types: every map, queue and record of the engine keeps its type through *)
(* every call, kernel completion and tick.                                 *)
(***************************************************************************)
THEOREM TypeCorrect == Spec => []TypeOK
<1>1. Init => TypeInv
  BY TypeInvInit
<1>2. TypeInv /\ [Next]_vars => TypeInv'
  BY TypeInvStep
<1>3. TypeInv => TypeOK
  BY DEF TypeInv
<1> QED
  BY <1>1, <1>2, <1>3, PTL DEF Spec

----------------------------------------------------------------------------
(***************************************************************************)
(* Buffers.                                                                *)
(***************************************************************************)

\* A buffer with one tracking entry is released once by a tick that reaps a
\* receive of that entry's descriptor, any other buffer not at all.
LEMMA ReleaseCount ==
    ASSUME TypeOK, BufferAccounting, NEW b \in Buffers
    PROVE  ReleasedByTick(b) =
              IF \E fd \in Fds : HasCqe(fd, RecvKinds) /\ inflightRecv[fd] = b
              THEN 1 ELSE 0
<1> DEFINE S == {fd \in Fds : HasCqe(fd, RecvKinds) /\ inflightRecv[fd] = b}
<1>1. CASE \E fd \in Fds : HasCqe(fd, RecvKinds) /\ inflightRecv[fd] = b
  <2>1. PICK fd \in Fds : HasCqe(fd, RecvKinds) /\ inflightRecv[fd] = b
    BY <1>1
  <2>2. \A gd \in S : gd = fd
    BY <2>1, ConstantsAssumption DEF BufferAccounting
  <2>3. S = {fd}
    BY <2>1, <2>2
  <2> QED
    BY <1>1, <2>3, FS_Singleton DEF ReleasedByTick
<1>2. CASE ~ \E fd \in Fds : HasCqe(fd, RecvKinds) /\ inflightRecv[fd] = b
  <2>1. S = {}
    BY <1>2
  <2> QED
    BY <1>2, <2>1, FS_EmptySet DEF ReleasedByTick
<1> QED
  BY <1>1, <1>2

\* At the start every buffer is on the free list once.
LEMMA AccountingInit == Init => BufferAccounting
  BY ConstantsAssumption DEF Init, BufferAccounting

\* unregister_fd moves the tracked buffer to the free list.
LEMMA AccountingUnregister ==
    ASSUME TypeOK, BufferAccounting, NEW fd \in Fds, UnregisterFd(fd)
    PROVE  BufferAccounting'
<1> USE ConstantsAssumption DEF TypeOK, UnregisterFd, Released
<1>1. CASE inflightRecv[fd] = None
  <2>1. UNCHANGED <<free, sendHeld, inflightRecv>>
    BY <1>1
  <2> QED
    BY <2>1 DEF BufferAccounting
<1>2. CASE inflightRecv[fd] # None
  <2>1. /\ inflightRecv[fd] \in Buffers
        /\ free' = [free EXCEPT ![inflightRecv[fd]] = @ + 1]
    BY <1>2
  <2> QED
    BY <2>1 DEF BufferAccounting
<1> QED
  BY <1>1, <1>2

\* A queued receive moves its buffer from the free list to the tracking entry,
\* and the buffer tracked before back to the free list.
LEMMA AccountingSubmitRecv ==
    ASSUME TypeOK, BufferAccounting, NEW c \in Calls, NEW fd \in Fds, NEW kind,
           NEW b \in Buffers, NEW flushed, SubmitRecvQueued(c, fd, kind, b, flushed)
    PROVE  BufferAccounting'
<1> USE ConstantsAssumption DEF TypeOK
<1>1. /\ free[b] = 1
      /\ inflightRecv[fd] # b
      /\ inflightRecv' = [inflightRecv EXCEPT ![fd] = b]
      /\ sendHeld' = sendHeld
  BY SMTT(60) DEF SubmitRecvQueued, BufferAccounting
<1>2. \A x \in Buffers : free'[x] = IF x = b THEN 0
                                   ELSE IF x = inflightRecv[fd] THEN free[x] + 1
                                   ELSE free[x]
  BY <1>1 DEF SubmitRecvQueued, Released, Acquired
<1>3. \A x \in Buffers : x # b =>
        ((\E gd \in Fds : inflightRecv'[gd] = x)
            <=> (\E gd \in Fds : inflightRecv[gd] = x) /\ x # inflightRecv[fd])
  BY <1>1 DEF BufferAccounting
<1>4. \E gd \in Fds : inflightRecv'[gd] = b
  BY <1>1
<1>5. \A gd \in Fds : inflightRecv'[gd] = b => gd = fd
  <2>1. \A gd \in Fds : inflightRecv[gd] # b
    BY <1>1, b \in Buffers, SMTT(60) DEF BufferAccounting
  <2> QED
    BY <1>1, <2>1
<1>6. b \notin sendHeld
  BY <1>1 DEF BufferAccounting
<1>7. ASSUME NEW x \in Buffers
      PROVE  LET tracked == \E gd \in Fds : inflightRecv'[gd] = x IN
             \/ free'[x] = 1 /\ ~tracked /\ x \notin sendHeld'
             \/ free'[x] = 0 /\ tracked /\ x \notin sendHeld'
             \/ free'[x] = 0 /\ ~tracked /\ x \in sendHeld'
  <2>1. CASE x = b
    BY <2>1, <1>1, <1>2, <1>4, <1>6
  <2>2. CASE x # b /\ x = inflightRecv[fd]
    BY <2>2, <1>1, <1>2, <1>3, SMTT(60) DEF BufferAccounting
  <2>3. CASE x # b /\ x # inflightRecv[fd]
    BY <2>3, <1>1, <1>2, <1>3 DEF BufferAccounting
  <2> QED
    BY <2>1, <2>2, <2>3
<1>8. ASSUME NEW gd \in Fds, NEW hd \in Fds, inflightRecv'[gd] # None,
             inflightRecv'[gd] = inflightRecv'[hd]
      PROVE  gd = hd
  BY <1>8, <1>1, <1>5 DEF BufferAccounting
<1> QED
  BY <1>7, <1>8 DEF BufferAccounting

\* A queued send, and one that panics, takes its buffer off the free list for good.
LEMMA AccountingSubmitSend ==
    ASSUME TypeOK, BufferAccounting, NEW c \in Calls, NEW fd \in Fds,
           NEW b \in Buffers, NEW flushed,
           SubmitSendQueued(c, fd, b, flushed) \/ SubmitSendTooLong(c, b)
    PROVE  BufferAccounting'
<1>1. /\ free[b] > 0 /\ free' = Acquired(free, b) /\ sendHeld' = sendHeld \cup {b}
      /\ inflightRecv' = inflightRecv
  BY DEF SubmitSendQueued, SubmitSendTooLong
<1> QED
  BY <1>1, ConstantsAssumption DEF TypeOK, Acquired, BufferAccounting

\* run_tick frees the tracked buffer of each descriptor with a receive
\* completion, once.
LEMMA AccountingRunTick ==
    ASSUME TypeOK, BufferAccounting, RunTick
    PROVE  BufferAccounting'
<1> USE ConstantsAssumption
<1>1. \A b \in Buffers : free'[b] = free[b] +
          (IF \E fd \in Fds : HasCqe(fd, RecvKinds) /\ inflightRecv[fd] = b
           THEN 1 ELSE 0)
  BY ReleaseCount DEF RunTick
<1>2. \A fd \in Fds : inflightRecv'[fd] = IF HasCqe(fd, RecvKinds)
                                         THEN None ELSE inflightRecv[fd]
  BY DEF RunTick
<1>3. sendHeld' = sendHeld
  BY DEF RunTick
<1>4. ASSUME NEW b \in Buffers
      PROVE  LET tracked == \E fd \in Fds : inflightRecv'[fd] = b IN
             \/ free'[b] = 1 /\ ~tracked /\ b \notin sendHeld'
             \/ free'[b] = 0 /\ tracked /\ b \notin sendHeld'
             \/ free'[b] = 0 /\ ~tracked /\ b \in sendHeld'
  <2>1. CASE \E fd \in Fds : HasCqe(fd, RecvKinds) /\ inflightRecv[fd] = b
    <3>1. free[b] = 0 /\ b \notin sendHeld
      BY <2>1 DEF BufferAccounting
    <3>2. ~ \E fd \in Fds : inflightRecv'[fd] = b
      BY <2>1, <1>2 DEF BufferAccounting
    <3> QED
      BY <1>1, <1>3, <2>1, <3>1, <3>2
  <2>2. CASE ~ \E fd \in Fds : HasCqe(fd, RecvKinds) /\ inflightRecv[fd] = b
    <3>1. free'[b] = free[b]
      BY <2>2, <1>1 DEF TypeOK
    <3>2. (\E fd \in Fds : inflightRecv'[fd] = b) <=> (\E fd \in Fds : inflightRecv[fd] = b)
      BY <2>2, <1>2
    <3> QED
      BY <1>3, <3>1, <3>2 DEF BufferAccounting
  <2> QED
    BY <2>1, <2>2
<1>5. ASSUME NEW fd \in Fds, NEW gd \in Fds, inflightRecv'[fd] # None,
             inflightRecv'[fd] = inflightRecv'[gd]
      PROVE  fd = gd
  BY <1>5, <1>2 DEF BufferAccounting
<1> QED
  BY <1>4, <1>5 DEF BufferAccounting

\* Every call and every completion preserves the accounting.
LEMMA AccountingStep ==
    TypeInv /\ BufferAccounting /\ [Next]_vars => BufferAccounting'
<1> SUFFICES ASSUME TypeOK, BufferAccounting, [Next]_vars PROVE BufferAccounting'
  BY DEF TypeInv
<1>1. CASE UNCHANGED <<free, sendHeld, inflightRecv>>
  BY <1>1 DEF BufferAccounting
<1>2. ASSUME NEW fd \in Fds, UnregisterFd(fd) PROVE BufferAccounting'
  BY <1>2, AccountingUnregister
<1>3. ASSUME NEW c \in Calls, NEW fd \in Fds, NEW kind \in Kinds, Submit(c, fd, kind)
      PROVE  BufferAccounting'
  <2>1. CASE SubmitRecv(c, fd, kind)
    BY <2>1, <1>1, AccountingSubmitRecv
    DEF SubmitRecv, SubmitRecvSkipped, SubmitNoBuffer, SubmitRecvSqFull
  <2>2. CASE SubmitSend(c, fd)
    BY <2>2, <1>1, AccountingSubmitSend DEF SubmitSend, SubmitNoBuffer, SubmitSendSqFull
  <2>3. CASE SubmitOther(c, fd, kind)
    BY <2>3, <1>1 DEF SubmitOther, SubmitPlainSqFull, SubmitSendtoQueued, SubmitPlainQueued
  <2> QED
    BY <1>3, <2>1, <2>2, <2>3 DEF Submit
<1>4. CASE RunTick
  BY <1>4, AccountingRunTick
<1> QED
  BY <1>1, <1>2, <1>3, <1>4
  DEF Next, RegisterFd, SetPaused, KernelComplete, CancelFuture, vars

(***************************************************************************)
(* No buffer is ever freed twice or dropped by a receive path: for all     *)
(* callers, all interleavings with the kernel and all error paths.         *)
(***************************************************************************)
THEOREM AccountingCorrect == Spec => []BufferAccounting
<1>1. Init => TypeInv /\ BufferAccounting
  BY TypeInvInit, AccountingInit
<1>2. TypeInv /\ BufferAccounting /\ [Next]_vars => (TypeInv /\ BufferAccounting)'
  BY TypeInvStep, AccountingStep
<1> QED
  BY <1>1, <1>2, PTL DEF Spec

----------------------------------------------------------------------------
(***************************************************************************)
(* Futures.  The completion queue holds exactly the operations that are    *)
(* waiting to be reaped, each with the descriptor and type it was given.   *)
(***************************************************************************)
QueueInv ==
    /\ \A i \in 1..Len(cq) : /\ where[cq[i].call] = "cq"
                             /\ cq[i].fd = op[cq[i].call].fd
                             /\ cq[i].kind = op[cq[i].call].kind
    /\ \A c \in Calls : where[c] = "cq" => \E i \in 1..Len(cq) : cq[i].call = c

\* A submit method touches the ring only through the call it was given: it
\* pushes a fresh operation or refuses it.
LEMMA SubmitTouchesOwnCall ==
    ASSUME TypeInv, NEW c \in Calls, NEW fd \in Fds, NEW kind \in Kinds,
           Submit(c, fd, kind)
    PROVE  /\ where[c] = "unused"
           /\ cq' = cq
           /\ \A d \in Calls : d # c => op'[d] = op[d]
           /\ \A d \in Calls : d # c => (where'[d] # where[d] =>
                                      where[d] = "sq" /\ where'[d] = "kernel")
           /\ \/ where'[c] = "refused"
              \/ where'[c] \in {"sq", "kernel"} /\ op'[c].fd = fd
<1> DEFINE Touched ==
       /\ cq' = cq
       /\ \A d \in Calls : d # c => op'[d] = op[d]
       /\ \A d \in Calls : d # c => (where'[d] # where[d] =>
                                      where[d] = "sq" /\ where'[d] = "kernel")
       /\ \/ where'[c] = "refused"
          \/ where'[c] \in {"sq", "kernel"} /\ op'[c].fd = fd
<1> USE DEF TypeInv, TypeOK
<1>1. where[c] = "unused"
  BY DEF Submit, Fresh
<1>2. ASSUME Refuse(c), UNCHANGED <<op, cq>> PROVE Touched
  BY <1>1, <1>2 DEF Refuse
<1>3. ASSUME NEW flushed \in BOOLEAN, NEW k, NEW b,
             op' = [op EXCEPT ![c] = [kind |-> k, fd |-> fd, buf |-> b]],
             PushAndSubmit(c, flushed), cq' = cq
      PROVE  Touched
  BY <1>1, <1>3 DEF PushAndSubmit
<1> HIDE DEF Touched
<1>4. ASSUME SubmitRecv(c, fd, kind) PROVE Touched
  <2>1. ASSUME NEW b \in Buffers, NEW flushed \in BOOLEAN,
               SubmitRecvQueued(c, fd, kind, b, flushed)
        PROVE  Touched
    BY <1>3, <2>1 DEF SubmitRecvQueued
  <2> QED
    BY <1>2, <1>4, <2>1 DEF SubmitRecv, SubmitRecvSkipped, SubmitNoBuffer, SubmitRecvSqFull
<1>5. ASSUME SubmitSend(c, fd) PROVE Touched
  <2>1. ASSUME NEW b \in Buffers, NEW flushed \in BOOLEAN,
               SubmitSendQueued(c, fd, b, flushed)
        PROVE  Touched
    BY <1>3, <2>1 DEF SubmitSendQueued
  <2> QED
    BY <1>2, <1>5, <2>1 DEF SubmitSend, SubmitNoBuffer, SubmitSendSqFull, SubmitSendTooLong
<1>6. ASSUME SubmitOther(c, fd, kind) PROVE Touched
  <2>1. CASE SubmitPlainSqFull(c, fd, kind)
    BY <1>2, <2>1 DEF SubmitPlainSqFull
  <2>2. ASSUME NEW flushed \in BOOLEAN, SubmitSendtoQueued(c, fd, flushed) PROVE Touched
    BY <1>3, <2>2 DEF SubmitSendtoQueued
  <2>3. ASSUME NEW flushed \in BOOLEAN, SubmitPlainQueued(c, fd, kind, flushed) PROVE Touched
    BY <1>3, <2>3 DEF SubmitPlainQueued
  <2> QED
    BY <1>6, <2>1, <2>2, <2>3 DEF SubmitOther
<1>7. Touched
  BY <1>4, <1>5, <1>6 DEF Submit
<1> QED
  BY <1>1, <1>7 DEF Touched

\* Every call preserves that queued completions and operations in stage "cq"
\* correspond.
LEMMA QueueInvStep ==
    ASSUME TypeInv, QueueInv, [Next]_vars PROVE QueueInv'
<1> USE DEF TypeInv
<1>0. \A i \in 1..Len(cq) : cq[i].call \in Calls
  <2>1. \A i \in 1..Len(cq) : cq[i] \in Cqes
    BY DEF TypeOK
  <2> QED
    BY <2>1 DEF Cqes
<1>1. CASE UNCHANGED <<op, where, cq>>
  BY <1>1 DEF QueueInv
<1>2. ASSUME NEW c \in Calls, NEW fd \in Fds, NEW kind \in Kinds, Submit(c, fd, kind)
      PROVE  QueueInv'
  BY <1>0, <1>2, SubmitTouchesOwnCall, SMTT(60) DEF QueueInv
<1>3. ASSUME NEW c \in Calls, NEW res \in {"pos", "zero", "neg"}, KernelComplete(c, res)
      PROVE  QueueInv'
  <2>1. /\ cq \in Seq(Cqes)
        /\ Len(cq') = Len(cq) + 1
        /\ \A i \in 1..Len(cq) : cq'[i] = cq[i]
        /\ cq'[Len(cq) + 1] = [call |-> c, fd |-> op[c].fd, kind |-> op[c].kind, res |-> res]
    BY <1>3 DEF KernelComplete, TypeOK
  <2>2. op' = op /\ where' = [where EXCEPT ![c] = "cq"]
    BY <1>3 DEF KernelComplete
  <2>3. ASSUME NEW i \in 1..Len(cq')
        PROVE  /\ where'[cq'[i].call] = "cq"
               /\ cq'[i].fd = op'[cq'[i].call].fd
               /\ cq'[i].kind = op'[cq'[i].call].kind
    <3>1. CASE i \in 1..Len(cq)
      BY <1>0, <2>1, <2>2, <3>1 DEF QueueInv, TypeOK
    <3>2. CASE i = Len(cq) + 1
      BY <2>1, <2>2, <3>2 DEF TypeOK
    <3> QED
      BY <2>1, <3>1, <3>2
  <2>4. ASSUME NEW d \in Calls, where'[d] = "cq"
        PROVE  \E i \in 1..Len(cq') : cq'[i].call = d
    <3>1. CASE d = c
      BY <2>1, <3>1
    <3>2. CASE d # c
      <4>1. where[d] = "cq"
        BY <2>2, <2>4, <3>2 DEF TypeOK
      <4>2. PICK i \in 1..Len(cq) : cq[i].call = d
        BY <1>0, <4>1 DEF QueueInv
      <4>3. i \in 1..Len(cq') /\ cq'[i] = cq[i]
        BY <2>1, <4>2
      <4> QED
        BY <4>2, <4>3
    <3> QED
      BY <3>1, <3>2
  <2> QED
    BY <2>3, <2>4 DEF QueueInv
<1>4. CASE RunTick
  BY <1>4 DEF RunTick, QueueInv, TypeOK
<1> QED
  BY <1>1, <1>2, <1>3, <1>4
  DEF Next, RegisterFd, UnregisterFd, SetPaused, CancelFuture, vars

\* What a submit method may store under a descriptor: the future it was
\* given, and only when the operation was pushed.
LEMMA SubmitStoresOwnFuture ==
    ASSUME TypeInv, NEW c \in Calls, NEW fd \in Fds, NEW kind \in Kinds,
           Submit(c, fd, kind)
    PROVE  \A gd \in Fds : \/ futures'[gd] = futures[gd]
                           \/ futures'[gd] = None
                           \/ gd = fd /\ futures'[gd] = c /\ where'[c] # "refused"
<1> DEFINE Goal == \A gd \in Fds : \/ futures'[gd] = futures[gd]
                                   \/ futures'[gd] = None
                                   \/ gd = fd /\ futures'[gd] = c /\ where'[c] # "refused"
<1>0. futures \in [Fds -> Calls \cup {None}] /\ where \in [Calls -> Stages]
  BY DEF TypeInv, TypeOK
<1>1. ASSUME futures' = futures \/ futures' = [futures EXCEPT ![fd] = None] PROVE Goal
  BY <1>0, <1>1
<1>2. ASSUME NEW flushed \in BOOLEAN, futures' = [futures EXCEPT ![fd] = c],
             PushAndSubmit(c, flushed)
      PROVE  Goal
  <2>1. where'[c] # "refused"
    BY <1>2 DEF PushAndSubmit
  <2> QED
    BY <1>0, <1>2, <2>1
<1> HIDE DEF Goal
<1>3. ASSUME SubmitRecv(c, fd, kind) PROVE Goal
  BY <1>1, <1>2, <1>3
  DEF SubmitRecv, SubmitRecvSkipped, SubmitNoBuffer, SubmitRecvSqFull, SubmitRecvQueued
<1>4. ASSUME SubmitSend(c, fd) PROVE Goal
  BY <1>1, <1>2, <1>4 DEF SubmitSend, SubmitNoBuffer, SubmitSendSqFull, SubmitSendQueued, SubmitSendTooLong
<1>5. ASSUME SubmitOther(c, fd, kind) PROVE Goal
  BY <1>1, <1>2, <1>5 DEF SubmitOther, SubmitPlainSqFull, SubmitSendtoQueued, SubmitPlainQueued
<1>6. Goal
  BY <1>3, <1>4, <1>5 DEF Submit
<1> QED
  BY <1>6 DEF Goal

\* Every call preserves that a stored future has an outstanding operation.
LEMMA StoredFutureStep ==
    ASSUME TypeInv, QueueInv, StoredFutureHasOperation, [Next]_vars
    PROVE  StoredFutureHasOperation'
<1> USE ConstantsAssumption DEF TypeInv
<1>0. \A fd \in Fds : futures[fd] # None => futures[fd] \in Calls
  BY DEF TypeOK
<1>1. CASE UNCHANGED <<op, where, futures>>
  BY <1>1 DEF StoredFutureHasOperation, Outstanding
<1>2. ASSUME NEW c \in Calls, NEW fd \in Fds, NEW kind \in Kinds, Submit(c, fd, kind)
      PROVE  StoredFutureHasOperation'
  BY <1>0, <1>2, SubmitTouchesOwnCall, SubmitStoresOwnFuture
  DEF StoredFutureHasOperation, Outstanding
<1>3. ASSUME NEW c \in Calls, NEW res \in {"pos", "zero", "neg"}, KernelComplete(c, res)
      PROVE  StoredFutureHasOperation'
  BY <1>0, <1>3 DEF KernelComplete, StoredFutureHasOperation, Outstanding, TypeOK
<1>4. CASE RunTick
  <2> SUFFICES ASSUME NEW fd \in Fds, futures'[fd] # None
               PROVE  /\ op'[futures'[fd]].fd = fd
                      /\ where'[futures'[fd]] \in {"sq", "kernel", "cq"}
    BY DEF StoredFutureHasOperation, Outstanding
  <2>1. /\ ~HasCqe(fd, AllKinds)
        /\ futures'[fd] = futures[fd]
        /\ op' = op
    BY <1>4 DEF RunTick, FuturesAfterTick
  <2>2. futures[fd] \in Calls /\ op[futures[fd]].fd = fd /\ Outstanding(futures[fd])
    BY <1>0, <2>1 DEF StoredFutureHasOperation
  <2>3. where[futures[fd]] # "cq"
    <3>1. \A i \in 1..Len(cq) : cq[i].kind \in AllKinds
      BY CqeTypes DEF Cqes
    <3> QED
      BY <2>1, <2>2, <3>1 DEF QueueInv, HasCqe
  <2> QED
    BY <1>4, <2>1, <2>2, <2>3 DEF RunTick, Outstanding
<1> QED
  BY <1>1, <1>2, <1>3, <1>4
  DEF Next, RegisterFd, UnregisterFd, SetPaused, CancelFuture, vars

(***************************************************************************)
(* No orphaned future: for all callers, a future the engine stores is the  *)
(* future of an operation that is still in the ring, so the completion of  *)
(* that operation, or an earlier one of the same descriptor, takes it out. *)
(***************************************************************************)
THEOREM StoredFutureCorrect == Spec => []StoredFutureHasOperation
<1> DEFINE Inv == TypeInv /\ QueueInv /\ StoredFutureHasOperation
<1>1. Init => Inv
  BY TypeInvInit, ConstantsAssumption DEF Init, QueueInv, StoredFutureHasOperation
<1>2. Inv /\ [Next]_vars => Inv'
  BY TypeInvStep, QueueInvStep, StoredFutureStep
<1> QED
  BY <1>1, <1>2, PTL DEF Spec

----------------------------------------------------------------------------
(***************************************************************************)
(* The safety contract of prep_recv, for callers that keep one operation   *)
(* outstanding per descriptor.  Then the tracking entry of a descriptor is *)
(* the buffer of its outstanding receive, and BufferAccounting gives that  *)
(* buffer to nobody else.                                                  *)
(***************************************************************************)
OnePerFd ==
    \A c, d \in Calls : Outstanding(c) /\ Outstanding(d) /\ op[c].fd = op[d].fd => c = d

ReceiveTracked ==
    \A c \in Calls : Outstanding(c) /\ op[c].kind \in RecvKinds =>
        inflightRecv[op[c].fd] = op[c].buf

\* Callers that keep to SingleOp never have two operations on a descriptor.
LEMMA OnePerFdStep ==
    ASSUME SingleOp, TypeInv, OnePerFd, [Next]_vars PROVE OnePerFd'
<1> USE DEF TypeInv
<1>1. CASE UNCHANGED <<op, where>>
  BY <1>1 DEF OnePerFd, Outstanding
<1>2. ASSUME NEW c \in Calls, NEW fd \in Fds, NEW kind \in Kinds, Submit(c, fd, kind)
      PROVE  OnePerFd'
  <2>1. \A d \in Calls : op[d].fd = fd => ~Outstanding(d)
    BY <1>2 DEF Submit, MayUse, Idle
  <2>2. \A d \in Calls : Outstanding(d)' => d = c \/ Outstanding(d)
    BY <1>2, SubmitTouchesOwnCall DEF Outstanding
  <2>3. Outstanding(c)' => op'[c].fd = fd
    BY <1>2, SubmitTouchesOwnCall DEF Outstanding
  <2>4. \A d \in Calls : d # c => op'[d] = op[d]
    BY <1>2, SubmitTouchesOwnCall
  <2>5. ASSUME NEW d \in Calls, NEW e \in Calls, Outstanding(d)', Outstanding(e)',
               op'[d].fd = op'[e].fd
        PROVE  d = e
    BY <2>1, <2>2, <2>3, <2>4, <2>5 DEF OnePerFd
  <2> QED
    BY <2>5 DEF OnePerFd
<1>3. ASSUME NEW c \in Calls, NEW res \in {"pos", "zero", "neg"}, KernelComplete(c, res)
      PROVE  OnePerFd'
  BY <1>3 DEF KernelComplete, OnePerFd, Outstanding, TypeOK
<1>4. CASE RunTick
  <2>1. op' = op /\ \A c \in Calls : Outstanding(c)' => Outstanding(c)
    BY <1>4 DEF RunTick, Outstanding
  <2> QED
    BY <2>1 DEF OnePerFd
<1> QED
  BY <1>1, <1>2, <1>3, <1>4
  DEF Next, RegisterFd, UnregisterFd, SetPaused, CancelFuture, vars

\* A submit method changes the tracking entry of its own descriptor only, and
\* an operation it pushes is a tracked receive or no receive at all.
LEMMA SubmitTracks ==
    ASSUME TypeInv, NEW c \in Calls, NEW fd \in Fds, NEW kind \in Kinds,
           Submit(c, fd, kind)
    PROVE  /\ \A gd \in Fds : gd # fd => inflightRecv'[gd] = inflightRecv[gd]
           /\ where'[c] # "refused" /\ op'[c].kind \in RecvKinds =>
                 inflightRecv'[fd] = op'[c].buf
<1> DEFINE Goal == /\ \A gd \in Fds : gd # fd => inflightRecv'[gd] = inflightRecv[gd]
                   /\ where'[c] # "refused" /\ op'[c].kind \in RecvKinds =>
                         inflightRecv'[fd] = op'[c].buf
<1>0. inflightRecv \in [Fds -> Buffers \cup {None}] /\ op \in [Calls -> Operations]
      /\ where \in [Calls -> Stages]
  BY DEF TypeInv, TypeOK
<1>1. ASSUME Refuse(c), inflightRecv' = inflightRecv PROVE Goal
  BY <1>0, <1>1 DEF Refuse
<1>2. ASSUME NEW k \in {"send", "sendmsg", "accept", "close"}, NEW b,
             op' = [op EXCEPT ![c] = [kind |-> k, fd |-> fd, buf |-> b]],
             inflightRecv' = inflightRecv
      PROVE  Goal
  BY <1>0, <1>2 DEF RecvKinds
<1>3. ASSUME NEW b \in Buffers, NEW flushed, SubmitRecvQueued(c, fd, kind, b, flushed)
      PROVE  Goal
  BY <1>0, <1>3 DEF SubmitRecvQueued
<1> HIDE DEF Goal
<1>4. ASSUME SubmitRecv(c, fd, kind) PROVE Goal
  BY <1>1, <1>3, <1>4 DEF SubmitRecv, SubmitRecvSkipped, SubmitNoBuffer, SubmitRecvSqFull
<1>5. ASSUME SubmitSend(c, fd) PROVE Goal
  BY <1>1, <1>2, <1>5 DEF SubmitSend, SubmitNoBuffer, SubmitSendSqFull, SubmitSendQueued, SubmitSendTooLong
<1>6. ASSUME SubmitOther(c, fd, kind), kind \in {"sendmsg", "accept", "close"} PROVE Goal
  <2>1. CASE SubmitPlainSqFull(c, fd, kind)
    BY <1>1, <2>1 DEF SubmitPlainSqFull
  <2>2. ASSUME NEW flushed \in BOOLEAN, SubmitSendtoQueued(c, fd, flushed) PROVE Goal
    BY <1>2, <2>2 DEF SubmitSendtoQueued
  <2>3. ASSUME NEW flushed \in BOOLEAN, SubmitPlainQueued(c, fd, kind, flushed) PROVE Goal
    BY <1>2, <1>6, <2>3 DEF SubmitPlainQueued
  <2> QED
    BY <1>6, <2>1, <2>2, <2>3 DEF SubmitOther
<1>7. Goal
  BY <1>4, <1>5, <1>6 DEF Submit
<1> QED
  BY <1>7 DEF Goal

\* Under SingleOp an outstanding receive stays the one its descriptor tracks.
LEMMA ReceiveTrackedStep ==
    ASSUME SingleOp, TypeInv, QueueInv, OnePerFd, ReceiveTracked, [Next]_vars
    PROVE  ReceiveTracked'
<1> USE DEF TypeInv
<1>0. \A c \in Calls : Outstanding(c) => op[c].fd \in Fds
  BY DEF Outstanding, OpsWellFormed
<1>1. CASE UNCHANGED <<op, where, inflightRecv>>
  BY <1>1 DEF ReceiveTracked, Outstanding
<1>2. ASSUME NEW fd \in Fds, MayUse(fd), UnregisterFd(fd) PROVE ReceiveTracked'
  <2>1. op' = op /\ where' = where /\ \A gd \in Fds : gd # fd =>
            inflightRecv'[gd] = inflightRecv[gd]
    BY <1>2 DEF UnregisterFd, TypeOK
  <2>2. \A c \in Calls : Outstanding(c) => op[c].fd # fd
    BY <1>2 DEF MayUse, Idle
  <2> QED
    BY <1>0, <2>1, <2>2 DEF ReceiveTracked, Outstanding
<1>3. ASSUME NEW c \in Calls, NEW fd \in Fds, NEW kind \in Kinds, Submit(c, fd, kind)
      PROVE  ReceiveTracked'
  <2>1. \A d \in Calls : op[d].fd = fd => ~Outstanding(d)
    BY <1>3 DEF Submit, MayUse, Idle
  <2>2. ASSUME NEW d \in Calls, Outstanding(d)', op'[d].kind \in RecvKinds
        PROVE  inflightRecv'[op'[d].fd] = op'[d].buf
    <3>1. CASE d = c
      BY <1>3, <2>2, <3>1, SubmitTouchesOwnCall, SubmitTracks DEF Outstanding
    <3>2. CASE d # c
      <4>1. Outstanding(d) /\ op'[d] = op[d]
        BY <1>3, <2>2, <3>2, SubmitTouchesOwnCall DEF Outstanding
      <4>2. op[d].fd # fd /\ op[d].fd \in Fds
        BY <1>0, <2>1, <4>1
      <4> QED
        BY <1>3, <2>2, <4>1, <4>2, SubmitTracks DEF ReceiveTracked
    <3> QED
      BY <3>1, <3>2
  <2> QED
    BY <2>2 DEF ReceiveTracked
<1>4. ASSUME NEW c \in Calls, NEW res \in {"pos", "zero", "neg"}, KernelComplete(c, res)
      PROVE  ReceiveTracked'
  BY <1>4 DEF KernelComplete, ReceiveTracked, Outstanding, TypeOK
<1>5. CASE RunTick
  <2> SUFFICES ASSUME NEW c \in Calls, Outstanding(c)', op'[c].kind \in RecvKinds
               PROVE  inflightRecv'[op'[c].fd] = op'[c].buf
    BY DEF ReceiveTracked
  <2>1. op' = op /\ Outstanding(c) /\ where[c] # "cq"
    BY <1>5 DEF RunTick, Outstanding
  <2>2. ~HasCqe(op[c].fd, RecvKinds)
    <3> SUFFICES ASSUME NEW i \in 1..Len(cq), cq[i].fd = op[c].fd PROVE FALSE
      BY DEF HasCqe
    <3>1. cq[i].call \in Calls
      BY CqeTypes DEF Cqes
    <3>2. where[cq[i].call] = "cq" /\ op[cq[i].call].fd = op[c].fd
      BY DEF QueueInv
    <3> QED
      BY <2>1, <3>1, <3>2 DEF OnePerFd, Outstanding
  <2> QED
    BY <1>0, <1>5, <2>1, <2>2 DEF RunTick, ReceiveTracked
<1> QED
  BY <1>1, <1>2, <1>3, <1>4, <1>5
  DEF Next, RegisterFd, SetPaused, CancelFuture, vars

\* A tracked buffer is neither free nor used by a send.
LEMMA TrackedMeansReserved ==
    TypeInv /\ BufferAccounting /\ ReceiveTracked => KernelBufferReserved
<1> SUFFICES ASSUME TypeInv, BufferAccounting, ReceiveTracked,
                    NEW c \in Calls, Outstanding(c), op[c].kind \in RecvKinds
             PROVE  /\ free[op[c].buf] = 0
                    /\ op[c].buf \notin sendHeld
                    /\ inflightRecv[op[c].fd] = op[c].buf
  BY DEF KernelBufferReserved
<1>1. op[c].fd \in Fds /\ op[c].buf \in Buffers
  BY DEF TypeInv, OpsWellFormed, Outstanding
<1>2. inflightRecv[op[c].fd] = op[c].buf
  BY DEF ReceiveTracked
<1> QED
  BY <1>1, <1>2 DEF BufferAccounting

(***************************************************************************)
(* prep_recv's contract ("The buffer must remain valid until completion")  *)
(* holds for every caller that keeps one operation outstanding per         *)
(* descriptor and unregisters only idle descriptors.                       *)
(***************************************************************************)
THEOREM ReservedCorrect == SingleOp => (Spec => []KernelBufferReserved)
<1> SUFFICES ASSUME SingleOp PROVE Spec => []KernelBufferReserved
  OBVIOUS
<1> DEFINE Inv == TypeInv /\ BufferAccounting /\ QueueInv /\ OnePerFd /\ ReceiveTracked
<1>1. Init => Inv
  <2>1. Init => QueueInv /\ OnePerFd /\ ReceiveTracked
    BY DEF Init, QueueInv, OnePerFd, ReceiveTracked, Outstanding
  <2> QED
    BY <2>1, TypeInvInit, AccountingInit
<1>2. Inv /\ [Next]_vars => Inv'
  BY TypeInvStep, AccountingStep, QueueInvStep, OnePerFdStep, ReceiveTrackedStep
<1>3. Inv => KernelBufferReserved
  BY TrackedMeansReserved
<1> QED
  BY <1>1, <1>2, <1>3, PTL DEF Spec

----------------------------------------------------------------------------
(***************************************************************************)
(* Message headers, for the same callers.                                  *)
(***************************************************************************)

\* A submit method changes the message states of its own descriptor only, and
\* a message it pushes has its state there.
LEMMA SubmitKeepsMessages ==
    ASSUME TypeInv, NEW c \in Calls, NEW fd \in Fds, NEW kind \in Kinds,
           Submit(c, fd, kind)
    PROVE  /\ \A gd \in Fds : gd # fd => /\ recvmsgState'[gd] = recvmsgState[gd]
                                         /\ sendmsgState'[gd] = sendmsgState[gd]
           /\ where'[c] # "refused" =>
                 /\ op'[c].kind = "recvmsg" => recvmsgState'[fd] = c
                 /\ op'[c].kind = "sendmsg" => sendmsgState'[fd] = c
<1> DEFINE Goal == /\ \A gd \in Fds : gd # fd =>
                          /\ recvmsgState'[gd] = recvmsgState[gd]
                          /\ sendmsgState'[gd] = sendmsgState[gd]
                   /\ where'[c] # "refused" =>
                          /\ op'[c].kind = "recvmsg" => recvmsgState'[fd] = c
                          /\ op'[c].kind = "sendmsg" => sendmsgState'[fd] = c
<1>0. /\ recvmsgState \in [Fds -> Calls \cup {None}]
      /\ sendmsgState \in [Fds -> Calls \cup {None}]
      /\ op \in [Calls -> Operations] /\ where \in [Calls -> Stages]
  BY DEF TypeInv, TypeOK
<1>1. ASSUME Refuse(c), UNCHANGED <<recvmsgState, sendmsgState>> PROVE Goal
  BY <1>0, <1>1 DEF Refuse
<1>2. ASSUME NEW k \in {"send", "accept", "close"}, NEW b,
             op' = [op EXCEPT ![c] = [kind |-> k, fd |-> fd, buf |-> b]],
             UNCHANGED <<recvmsgState, sendmsgState>>
      PROVE  Goal
  BY <1>0, <1>2
<1>3. ASSUME NEW b \in Buffers, NEW flushed, kind \in RecvKinds,
             SubmitRecvQueued(c, fd, kind, b, flushed)
      PROVE  Goal
  BY <1>0, <1>3 DEF SubmitRecvQueued, RecvKinds
<1>4. ASSUME NEW flushed, SubmitSendtoQueued(c, fd, flushed) PROVE Goal
  BY <1>0, <1>4 DEF SubmitSendtoQueued
<1> HIDE DEF Goal
<1>5. ASSUME SubmitRecv(c, fd, kind), kind \in RecvKinds PROVE Goal
  BY <1>1, <1>3, <1>5 DEF SubmitRecv, SubmitRecvSkipped, SubmitNoBuffer, SubmitRecvSqFull
<1>6. ASSUME SubmitSend(c, fd) PROVE Goal
  BY <1>1, <1>2, <1>6 DEF SubmitSend, SubmitNoBuffer, SubmitSendSqFull, SubmitSendQueued, SubmitSendTooLong
<1>7. ASSUME SubmitOther(c, fd, kind), kind \in {"sendmsg", "accept", "close"} PROVE Goal
  <2>1. CASE SubmitPlainSqFull(c, fd, kind)
    BY <1>1, <2>1 DEF SubmitPlainSqFull
  <2>2. ASSUME NEW flushed \in BOOLEAN, kind # "sendmsg",
               SubmitPlainQueued(c, fd, kind, flushed)
        PROVE  Goal
    BY <1>2, <1>7, <2>2 DEF SubmitPlainQueued
  <2> QED
    BY <1>4, <1>7, <2>1, <2>2 DEF SubmitOther
<1>8. Goal
  BY <1>5, <1>6, <1>7 DEF Submit
<1> QED
  BY <1>8 DEF Goal

\* A descriptor with an operation that run_tick does not reap has no completion
\* in the queue at all.
LEMMA NoOtherCqe ==
    ASSUME TypeInv, QueueInv, OnePerFd, NEW c \in Calls, Outstanding(c),
           where[c] # "cq", NEW ks
    PROVE  ~HasCqe(op[c].fd, ks)
<1> SUFFICES ASSUME NEW i \in 1..Len(cq), cq[i].fd = op[c].fd PROVE FALSE
  BY DEF HasCqe
<1>1. cq[i].call \in Calls
  BY CqeTypes DEF Cqes
<1>2. where[cq[i].call] = "cq" /\ op[cq[i].call].fd = op[c].fd
  BY DEF QueueInv
<1> QED
  BY <1>1, <1>2 DEF OnePerFd, Outstanding

\* Under SingleOp the header of an outstanding message stays in its map.
LEMMA MessageStateStep ==
    ASSUME SingleOp, TypeInv, QueueInv, OnePerFd, MessageStateAlive, [Next]_vars
    PROVE  MessageStateAlive'
<1> USE DEF TypeInv
<1>0. \A c \in Calls : Outstanding(c) => op[c].fd \in Fds
  BY DEF Outstanding, OpsWellFormed
<1>1. CASE UNCHANGED <<op, where, recvmsgState, sendmsgState>>
  BY <1>1 DEF MessageStateAlive, Outstanding
<1>2. ASSUME NEW c \in Calls, NEW fd \in Fds, NEW kind \in Kinds, Submit(c, fd, kind)
      PROVE  MessageStateAlive'
  <2>1. \A d \in Calls : op[d].fd = fd => ~Outstanding(d)
    BY <1>2 DEF Submit, MayUse, Idle
  <2>2. ASSUME NEW d \in Calls, Outstanding(d)'
        PROVE  /\ op'[d].kind = "recvmsg" => recvmsgState'[op'[d].fd] = d
               /\ op'[d].kind = "sendmsg" => sendmsgState'[op'[d].fd] = d
    <3>1. CASE d = c
      BY <1>2, <2>2, <3>1, SubmitTouchesOwnCall, SubmitKeepsMessages DEF Outstanding
    <3>2. CASE d # c
      <4>1. Outstanding(d) /\ op'[d] = op[d]
        BY <1>2, <2>2, <3>2, SubmitTouchesOwnCall DEF Outstanding
      <4>2. op[d].fd # fd /\ op[d].fd \in Fds
        BY <1>0, <2>1, <4>1
      <4> QED
        BY <1>2, <4>1, <4>2, SubmitKeepsMessages DEF MessageStateAlive
    <3> QED
      BY <3>1, <3>2
  <2> QED
    BY <2>2 DEF MessageStateAlive
<1>3. ASSUME NEW c \in Calls, NEW res \in {"pos", "zero", "neg"}, KernelComplete(c, res)
      PROVE  MessageStateAlive'
  BY <1>3 DEF KernelComplete, MessageStateAlive, Outstanding, TypeOK
<1>4. CASE RunTick
  <2> SUFFICES ASSUME NEW c \in Calls, Outstanding(c)'
               PROVE  /\ op'[c].kind = "recvmsg" => recvmsgState'[op'[c].fd] = c
                      /\ op'[c].kind = "sendmsg" => sendmsgState'[op'[c].fd] = c
    BY DEF MessageStateAlive
  <2>1. op' = op /\ Outstanding(c) /\ where[c] # "cq"
    BY <1>4 DEF RunTick, Outstanding
  <2>2. ~HasCqe(op[c].fd, {"recvmsg"}) /\ ~HasCqe(op[c].fd, {"sendmsg"})
    BY <2>1, NoOtherCqe
  <2>3. /\ recvmsgState'[op[c].fd] = recvmsgState[op[c].fd]
        /\ sendmsgState'[op[c].fd] = sendmsgState[op[c].fd]
    BY <1>0, <1>4, <2>1, <2>2 DEF RunTick, HasCqe
  <2> QED
    BY <2>1, <2>3 DEF MessageStateAlive
<1> QED
  BY <1>1, <1>2, <1>3, <1>4
  DEF Next, RegisterFd, UnregisterFd, SetPaused, CancelFuture, vars

(***************************************************************************)
(* A message header outlives its operation: for every caller that keeps    *)
(* one operation outstanding per descriptor, RecvMsgState and SendMsgState *)
(* stay in their maps until the completion was reaped.                     *)
(***************************************************************************)
THEOREM MessageStateCorrect == SingleOp => (Spec => []MessageStateAlive)
<1> SUFFICES ASSUME SingleOp PROVE Spec => []MessageStateAlive
  OBVIOUS
<1> DEFINE Inv == TypeInv /\ QueueInv /\ OnePerFd /\ MessageStateAlive
<1>1. Init => Inv
  <2>1. Init => QueueInv /\ OnePerFd /\ MessageStateAlive
    BY DEF Init, QueueInv, OnePerFd, MessageStateAlive, Outstanding
  <2> QED
    BY <2>1, TypeInvInit
<1>2. Inv /\ [Next]_vars => Inv'
  BY TypeInvStep, QueueInvStep, OnePerFdStep, MessageStateStep
<1> QED
  BY <1>1, <1>2, PTL DEF Spec

----------------------------------------------------------------------------
(***************************************************************************)
(* Attribution of completions, for the same callers.  An operation is in   *)
(* the queue once, and the bytes the kernel wrote for it stay in its       *)
(* buffer until run_tick reads them.                                       *)
(***************************************************************************)
QueuedOnce == \A i, j \in 1..Len(cq) : cq[i].call = cq[j].call => i = j

BytesKept ==
    \A i \in 1..Len(cq) : cq[i].kind \in RecvKinds /\ cq[i].res = "pos" =>
        mem[op[cq[i].call].buf] = cq[i].call

ResolvedByOwn ==
    \A c \in Calls : outcome[c].tag \notin {"pending", "cancelled"} =>
        outcome[c].from = c /\ outcome[c].data \in {c, None}

Reserved == TypeInv /\ BufferAccounting /\ QueueInv /\ OnePerFd /\ ReceiveTracked

\* Two outstanding receives have different buffers, and neither is free.
LEMMA OwnBuffer ==
    ASSUME Reserved, NEW c \in Calls, Outstanding(c), op[c].kind \in RecvKinds
    PROVE  /\ op[c].buf \in Buffers /\ free[op[c].buf] = 0
           /\ \A d \in Calls :
                 Outstanding(d) /\ op[d].kind \in RecvKinds /\ op[d].buf = op[c].buf
                 => d = c
<1> USE DEF Reserved
<1>1. op[c].buf \in Buffers /\ op[c].fd \in Fds
  BY DEF TypeInv, OpsWellFormed, Outstanding
<1>2. free[op[c].buf] = 0
  BY TrackedMeansReserved DEF KernelBufferReserved
<1>3. ASSUME NEW d \in Calls, Outstanding(d), op[d].kind \in RecvKinds,
             op[d].buf = op[c].buf
      PROVE  d = c
  <2>1. op[d].fd \in Fds /\ inflightRecv[op[d].fd] = op[d].buf
    BY <1>3 DEF TypeInv, OpsWellFormed, Outstanding, ReceiveTracked
  <2>2. inflightRecv[op[c].fd] = op[c].buf
    BY DEF ReceiveTracked
  <2>3. op[d].fd = op[c].fd
    BY <1>1, <1>3, <2>1, <2>2, ConstantsAssumption DEF BufferAccounting
  <2> QED
    BY <1>3, <2>3 DEF OnePerFd
<1> QED
  BY <1>1, <1>2, <1>3

\* What the next run_tick takes for a queued receive is what was received.
LEMMA DataOfOwn ==
    ASSUME Reserved, QueuedOnce, BytesKept, NEW i \in 1..Len(cq),
           cq[i].kind \in RecvKinds, cq[i].res = "pos"
    PROVE  DataOf(i) = cq[i].call
<1> USE DEF Reserved
<1>1. /\ cq[i].call \in Calls /\ where[cq[i].call] = "cq"
      /\ cq[i].fd = op[cq[i].call].fd /\ cq[i].kind = op[cq[i].call].kind
  BY CqeTypes DEF Cqes, QueueInv
<1>2. /\ inflightRecv[cq[i].fd] = op[cq[i].call].buf
      /\ op[cq[i].call].buf \in Buffers
  BY <1>1, OwnBuffer DEF ReceiveTracked, Outstanding
<1>3. FirstOf(i, RecvKinds)
  <2> SUFFICES ASSUME NEW j \in 1..(i - 1), cq[j].fd = cq[i].fd PROVE FALSE
    BY DEF FirstOf
  <2>1. j \in 1..Len(cq) /\ j # i
    BY DEF TypeInv, TypeOK
  <2>2. /\ cq[j].call \in Calls /\ where[cq[j].call] = "cq"
        /\ op[cq[j].call].fd = op[cq[i].call].fd
    BY <1>1, <2>1, CqeTypes DEF Cqes, QueueInv
  <2>3. cq[j].call = cq[i].call
    BY <1>1, <2>2 DEF OnePerFd, Outstanding
  <2> QED
    BY <2>1, <2>3 DEF QueuedOnce
<1> QED
  BY <1>1, <1>2, <1>3, ConstantsAssumption DEF DataOf, BytesKept

\* Every call keeps an operation in the completion queue at most once.
LEMMA QueuedOnceStep ==
    ASSUME TypeInv, QueueInv, QueuedOnce, [Next]_vars PROVE QueuedOnce'
<1> USE DEF TypeInv
<1>1. CASE UNCHANGED cq
  BY <1>1 DEF QueuedOnce
<1>2. ASSUME NEW c \in Calls, NEW res \in {"pos", "zero", "neg"}, KernelComplete(c, res)
      PROVE  QueuedOnce'
  <2>1. /\ cq \in Seq(Cqes)
        /\ Len(cq') = Len(cq) + 1
        /\ \A i \in 1..Len(cq) : cq'[i] = cq[i]
        /\ cq'[Len(cq) + 1].call = c
    BY <1>2 DEF KernelComplete, TypeOK
  <2>2. \A i \in 1..Len(cq) : cq[i].call # c
    BY <1>2 DEF KernelComplete, QueueInv
  <2> QED
    BY <2>1, <2>2 DEF QueuedOnce
<1>3. CASE RunTick
  BY <1>3 DEF RunTick, QueuedOnce
<1>4. ASSUME NEW c \in Calls, NEW fd \in Fds, NEW kind \in Kinds, Submit(c, fd, kind)
      PROVE  cq' = cq
  BY <1>4, SubmitTouchesOwnCall
<1> QED
  BY <1>1, <1>2, <1>3, <1>4
  DEF Next, RegisterFd, UnregisterFd, SetPaused, CancelFuture, vars

\* A submit method writes only to a buffer that was free.
LEMMA SubmitWritesFree ==
    ASSUME TypeInv, NEW c \in Calls, NEW fd \in Fds, NEW kind \in Kinds,
           Submit(c, fd, kind), NEW b \in Buffers, free[b] = 0
    PROVE  mem'[b] = mem[b]
<1>0. mem \in [Buffers -> Contents]
  BY DEF TypeInv, TypeOK
<1>1. CASE SubmitRecv(c, fd, kind)
  BY <1>1 DEF SubmitRecv, SubmitRecvSkipped, SubmitNoBuffer, SubmitRecvSqFull, SubmitRecvQueued
<1>2. CASE SubmitSend(c, fd)
  BY <1>0, <1>2 DEF SubmitSend, SubmitNoBuffer, SubmitSendSqFull, SubmitSendQueued, SubmitSendTooLong
<1>3. CASE SubmitOther(c, fd, kind)
  BY <1>3 DEF SubmitOther, SubmitPlainSqFull, SubmitSendtoQueued, SubmitPlainQueued
<1> QED
  BY <1>1, <1>2, <1>3 DEF Submit

\* Nobody overwrites received bytes before run_tick has read them.
LEMMA BytesKeptStep ==
    ASSUME Reserved, BytesKept, [Next]_vars PROVE BytesKept'
<1> USE DEF Reserved, TypeInv
<1>0. ASSUME NEW i \in 1..Len(cq)
      PROVE  /\ cq[i].call \in Calls /\ Outstanding(cq[i].call)
             /\ where[cq[i].call] = "cq"
             /\ cq[i].kind = op[cq[i].call].kind
  BY CqeTypes DEF Cqes, QueueInv, Outstanding
<1>1. CASE UNCHANGED <<cq, op, mem>>
  BY <1>1 DEF BytesKept
<1>2. ASSUME NEW c \in Calls, NEW fd \in Fds, NEW kind \in Kinds, Submit(c, fd, kind)
      PROVE  BytesKept'
  <2> SUFFICES ASSUME NEW i \in 1..Len(cq), cq[i].kind \in RecvKinds, cq[i].res = "pos"
               PROVE  mem'[op'[cq[i].call].buf] = cq[i].call
    BY <1>2, SubmitTouchesOwnCall DEF BytesKept
  <2>1. op'[cq[i].call] = op[cq[i].call]
    BY <1>0, <1>2, SubmitTouchesOwnCall
  <2>2. op[cq[i].call].buf \in Buffers /\ free[op[cq[i].call].buf] = 0
    BY <1>0, OwnBuffer
  <2> QED
    BY <1>2, <2>1, <2>2, SubmitWritesFree DEF BytesKept
<1>3. ASSUME NEW c \in Calls, NEW res \in {"pos", "zero", "neg"}, KernelComplete(c, res)
      PROVE  BytesKept'
  <2>1. /\ cq \in Seq(Cqes)
        /\ Len(cq') = Len(cq) + 1
        /\ \A i \in 1..Len(cq) : cq'[i] = cq[i]
        /\ cq'[Len(cq) + 1] = [call |-> c, fd |-> op[c].fd, kind |-> op[c].kind, res |-> res]
        /\ op' = op
    BY <1>3 DEF KernelComplete, TypeOK
  <2>2. Outstanding(c) /\ where[c] # "cq"
    BY <1>3 DEF KernelComplete, Outstanding
  <2>3. ASSUME NEW i \in 1..Len(cq), cq[i].kind \in RecvKinds, cq[i].res = "pos"
        PROVE  mem'[op[cq[i].call].buf] = cq[i].call
    <3>1. mem[op[cq[i].call].buf] = cq[i].call /\ op[cq[i].call].buf \in Buffers
      BY <1>0, <2>3, OwnBuffer DEF BytesKept
    <3>2. op[c].kind \in RecvKinds => op[c].buf # op[cq[i].call].buf
      BY <1>0, <2>2, <2>3, OwnBuffer
    <3> QED
      BY <1>3, <3>1, <3>2 DEF KernelComplete, TypeOK
  <2>4. op[c].kind \in RecvKinds /\ res = "pos" => mem'[op[c].buf] = c
    BY <1>3, <2>2, OwnBuffer DEF KernelComplete, TypeOK
  <2>5. ASSUME NEW i \in 1..Len(cq'), cq'[i].kind \in RecvKinds, cq'[i].res = "pos"
        PROVE  mem'[op'[cq'[i].call].buf] = cq'[i].call
    <3>1. CASE i \in 1..Len(cq)
      BY <2>1, <2>3, <2>5, <3>1
    <3>2. CASE i = Len(cq) + 1
      BY <2>1, <2>4, <2>5, <3>2
    <3> QED
      BY <2>1, <3>1, <3>2
  <2> QED
    BY <2>5 DEF BytesKept
<1>4. CASE RunTick
  BY <1>4 DEF RunTick, BytesKept
<1> QED
  BY <1>1, <1>2, <1>3, <1>4
  DEF Next, RegisterFd, UnregisterFd, SetPaused, CancelFuture, vars

\* run_tick resolves a future with the completion of its own operation.
LEMMA ResolvedByOwnStep ==
    ASSUME Reserved, QueuedOnce, BytesKept, StoredFutureHasOperation, ResolvedByOwn,
           [Next]_vars
    PROVE  ResolvedByOwn'
<1> USE DEF Reserved, TypeInv
<1>1. CASE UNCHANGED outcome
  BY <1>1 DEF ResolvedByOwn
<1>2. CASE RunTick
  <2> DEFINE entries == 1..Len(cq)
  <2> SUFFICES ASSUME NEW c \in Calls, outcome'[c].tag \notin {"pending", "cancelled"}
               PROVE  outcome'[c].from = c /\ outcome'[c].data \in {c, None}
    BY DEF ResolvedByOwn
  <2>1. CASE ~ \E i \in entries : ResolvedBy(c, i)
    BY <1>2, <2>1 DEF RunTick, ResolvedByOwn
  <2>2. CASE \E i \in entries : ResolvedBy(c, i)
    <3>1. PICK i \in entries : ResolvedBy(c, i) /\ outcome'[c] = Resolution(i)
      <4> DEFINE i == CHOOSE i \in entries : ResolvedBy(c, i)
      <4>1. i \in entries /\ ResolvedBy(c, i)
        BY <2>2
      <4>2. outcome'[c] = Resolution(i)
        BY <1>2, <2>2 DEF RunTick
      <4> HIDE DEF i
      <4> QED
        BY <4>1, <4>2
    <3>2. /\ cq[i].call \in Calls /\ cq[i].fd \in Fds /\ Outstanding(cq[i].call)
          /\ cq[i].fd = op[cq[i].call].fd /\ cq[i].kind = op[cq[i].call].kind
      BY CqeTypes DEF Cqes, QueueInv, Outstanding
    <3>3. futures[cq[i].fd] = c /\ c # None
      BY <3>1, ConstantsAssumption DEF ResolvedBy, Calls
    <3>4. op[c].fd = cq[i].fd /\ Outstanding(c)
      BY <3>2, <3>3 DEF StoredFutureHasOperation
    <3>5. cq[i].call = c
      BY <3>2, <3>4 DEF OnePerFd
    <3>6. DataOf(i) \in {c, None}
      <4>1. CASE cq[i].kind \in RecvKinds /\ cq[i].res = "pos"
        BY <3>5, <4>1, DataOfOwn
      <4>2. CASE ~(cq[i].kind \in RecvKinds /\ cq[i].res = "pos")
        BY <4>2 DEF DataOf, FirstOf
      <4> QED
        BY <4>1, <4>2
    <3> QED
      BY <3>1, <3>5, <3>6 DEF Resolution
  <2> QED
    BY <2>1, <2>2
<1>3. ASSUME NEW c \in Calls, CancelFuture(c) PROVE ResolvedByOwn'
  <2>1. outcome[c] \in Outcomes
    BY DEF TypeOK
  <2>2. outcome'[c].tag = "cancelled" /\ \A d \in Calls : d # c => outcome'[d] = outcome[d]
    BY <1>3, <2>1 DEF CancelFuture, TypeOK, Outcomes
  <2> QED
    BY <2>2 DEF ResolvedByOwn
<1>4. ASSUME NEW c \in Calls, NEW fd \in Fds, NEW kind \in Kinds, Submit(c, fd, kind)
      PROVE  outcome' = outcome
  <2>1. ASSUME SubmitRecv(c, fd, kind) PROVE outcome' = outcome
    BY <2>1 DEF SubmitRecv, SubmitRecvSkipped, SubmitNoBuffer, SubmitRecvSqFull, SubmitRecvQueued
  <2>2. ASSUME SubmitSend(c, fd) PROVE outcome' = outcome
    BY <2>2 DEF SubmitSend, SubmitNoBuffer, SubmitSendSqFull, SubmitSendQueued, SubmitSendTooLong
  <2>3. ASSUME SubmitOther(c, fd, kind) PROVE outcome' = outcome
    BY <2>3 DEF SubmitOther, SubmitPlainSqFull, SubmitSendtoQueued, SubmitPlainQueued
  <2> QED
    BY <1>4, <2>1, <2>2, <2>3 DEF Submit
<1> QED
  BY <1>1, <1>2, <1>3, <1>4
  DEF Next, RegisterFd, UnregisterFd, SetPaused, KernelComplete, vars

(***************************************************************************)
(* Although user_data names only a descriptor and an operation type, for   *)
(* callers that keep one operation outstanding per descriptor each future  *)
(* gets the result and the bytes of its own operation.                     *)
(***************************************************************************)
THEOREM OwnCompletionCorrect == SingleOp => (Spec => []OwnCompletion)
<1> SUFFICES ASSUME SingleOp PROVE Spec => []OwnCompletion
  OBVIOUS
<1> DEFINE Inv == /\ Reserved /\ QueuedOnce /\ BytesKept
                  /\ StoredFutureHasOperation /\ ResolvedByOwn
<1>1. Init => Inv
  <2>1. Init => /\ QueueInv /\ OnePerFd /\ ReceiveTracked /\ QueuedOnce /\ BytesKept
                /\ StoredFutureHasOperation /\ ResolvedByOwn
    BY DEF Init, QueueInv, OnePerFd, ReceiveTracked, QueuedOnce, BytesKept,
           StoredFutureHasOperation, ResolvedByOwn, Outstanding, Pending
  <2> QED
    BY <2>1, TypeInvInit, AccountingInit DEF Reserved
<1>2. Inv /\ [Next]_vars => Inv'
  <2> SUFFICES ASSUME Inv, [Next]_vars PROVE Inv'
    OBVIOUS
  <2>1. Reserved'
    BY TypeInvStep, AccountingStep, QueueInvStep, OnePerFdStep, ReceiveTrackedStep
    DEF Reserved
  <2>2. QueuedOnce' /\ StoredFutureHasOperation'
    BY QueuedOnceStep, StoredFutureStep DEF Reserved
  <2>3. BytesKept' /\ ResolvedByOwn'
    BY BytesKeptStep, ResolvedByOwnStep
  <2> QED
    BY <2>1, <2>2, <2>3
<1>3. Inv => OwnCompletion
  BY DataOfOwn DEF OwnCompletion, ResolvedByOwn
<1> QED
  BY <1>1, <1>2, <1>3, PTL DEF Spec

============================================================================
