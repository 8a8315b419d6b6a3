----------------------- MODULE StreamTransportProofs -----------------------
(***************************************************************************)
(* Proofs about StreamTransport for every number of connections, also of   *)
(* connections that follow each other on one descriptor, and every number  *)
(* of calls, buffers and queue entries.                                    *)
(***************************************************************************)
EXTENDS StreamTransport, UringCoreProofs

----------------------------------------------------------------------------
(***************************************************************************)
(* The engine below the transports.  Every step of the loop but one is a   *)
(* call of the engine or leaves it alone; _handle_recv_completion resolves *)
(* a future of its own accord.                                             *)
(***************************************************************************)

\* What _handle_recv_completion changes in the engine: the outcome of the
\* future it found.
ResolvesOnly ==
    /\ \/ outcome' = outcome
       \/ \E r \in ResultItems, f \in Calls :
             outcome[f] = Pending /\ outcome' = [outcome EXCEPT ![f] = HandlerValue(r)]
    /\ UNCHANGED <<free, sendHeld, fdState, inflightRecv, futures, recvmsgState,
                   sendmsgState, op, where, cq, mem, results>>

\* The value given to a future is one.
LEMMA HandlerValueType ==
    ASSUME NEW r \in ResultItems PROVE HandlerValue(r) \in Outcomes
  BY DEF HandlerValue, ResultItems, Outcomes, Contents

\* A write is a call of submit_send.
LEMMA WriteIsSubmit ==
    ASSUME NEW x \in Conns, NEW c \in Calls, tr[x].fd \in Fds, Write(x, c)
    PROVE  Submit(c, tr[x].fd, "send")
<1>1. SubmitSend(c, tr[x].fd)
  BY DEF Write, WriteOk, WritePauseRaises, WriteError, WritePanics, SubmitSend
<1> QED
  BY <1>1, TransportAssumption DEF Write, Submit, MayUse

\* _rearm_recv is a call of submit_recv.
LEMMA RearmIsSubmit ==
    ASSUME NEW x \in Conns, NEW c \in Calls, tr[x].fd \in Fds, Rearm(x, c)
    PROVE  Submit(c, tr[x].fd, "recv")
<1>1. SubmitRecv(c, tr[x].fd, "recv")
  BY DEF Rearm, RearmOk, RearmError, SubmitRecv
<1> QED
  BY <1>1, TransportAssumption DEF Rearm, Submit, MayUse, RecvKinds

\* A submission leaves registration and the paused flag of every descriptor.
LEMMA SubmitKeepsPaused ==
    ASSUME TypeOK, NEW c \in Calls, NEW fd \in Fds, NEW kind \in {"recv", "send"},
           Submit(c, fd, kind)
    PROVE  \A gd \in Fds : /\ fdState'[gd].registered = fdState[gd].registered
                           /\ fdState'[gd].paused = fdState[gd].paused
<1>1. fdState' = fdState \/ fdState' = OnSubmit(fd)
  BY DEF Submit, SubmitRecv, SubmitSend, SubmitOther, SubmitRecvSkipped, SubmitNoBuffer,
         SubmitRecvSqFull, SubmitRecvQueued, SubmitSendQueued, SubmitSendSqFull,
         SubmitSendTooLong, RecvKinds
<1>2. fdState \in [Fds -> FdStates]
  BY DEF TypeOK
<1> QED
  BY <1>1, <1>2 DEF OnSubmit, FdStates

----------------------------------------------------------------------------
(***************************************************************************)
(* The transport record.                                                   *)
(***************************************************************************)
Records == [made : BOOLEAN, fd : Fds \cup {None}, closing : BOOLEAN,
            closed : BOOLEAN, paused : BOOLEAN, recvPending : BOOLEAN,
            size : Nat, writePaused : BOOLEAN, eof : BOOLEAN, lost : Nat]

\* u is the record t after a handler that neither pauses reading nor calls
\* connection_lost: the connection stays, and closing is never undone.
Later(t, u) ==
    /\ u \in Records
    /\ u.made = t.made /\ u.fd = t.fd
    /\ u.lost = t.lost /\ u.paused = t.paused
    /\ t.closing => u.closing

\* What close, _force_close, _eof_received, _send_completed and the receive
\* callback make of a record.
LEMMA RecordUpdates ==
    ASSUME NEW t \in Records
    PROVE  /\ Later(t, Closed(t)) /\ Closed(t).closed = t.closed
           /\ Closed(t).closing /\ Closed(t).recvPending = t.recvPending
           /\ Later(t, ForceClosed(t)) /\ ForceClosed(t).closed /\ ForceClosed(t).closing
           /\ \A keepOpen \in BOOLEAN :
                 /\ Later(t, EofReceived(t, keepOpen))
                 /\ EofReceived(t, keepOpen).closed = t.closed
                 /\ EofReceived(t, keepOpen).recvPending = t.recvPending
                 /\ EofReceived(t, keepOpen).eof \/ EofReceived(t, keepOpen).closing
           /\ Later(t, SendCompleted(t, 1)) /\ SendCompleted(t, 1).closed = t.closed
           /\ SendCompleted(t, 1).recvPending = t.recvPending
           /\ SendCompleted(t, 1).closing = t.closing
           /\ SendCompleted(t, 1).eof = t.eof
<1>1. /\ Later(t, Closed(t)) /\ Closed(t).closed = t.closed
      /\ Closed(t).closing /\ Closed(t).recvPending = t.recvPending
  BY DEF Later, Closed, Records
<1>2. Later(t, ForceClosed(t)) /\ ForceClosed(t).closed /\ ForceClosed(t).closing
  BY DEF Later, ForceClosed, Records
<1>3. ASSUME NEW keepOpen \in BOOLEAN
      PROVE  /\ Later(t, EofReceived(t, keepOpen))
             /\ EofReceived(t, keepOpen).closed = t.closed
             /\ EofReceived(t, keepOpen).recvPending = t.recvPending
             /\ EofReceived(t, keepOpen).eof \/ EofReceived(t, keepOpen).closing
  BY <1>1, ZenonT(60) DEF Later, EofReceived, Records
<1>4. /\ Later(t, SendCompleted(t, 1)) /\ SendCompleted(t, 1).closed = t.closed
      /\ SendCompleted(t, 1).recvPending = t.recvPending
      /\ SendCompleted(t, 1).closing = t.closing
      /\ SendCompleted(t, 1).eof = t.eof
  <2> DEFINE left == IF t.size > 1 THEN t.size - 1 ELSE 0
             wp == IF left <= LowWater THEN FALSE ELSE t.writePaused
  <2>1. left \in Nat /\ wp \in BOOLEAN
    <3>1. t.size \in Nat /\ t.writePaused \in BOOLEAN
      BY DEF Records
    <3>2. left \in Nat
      BY <3>1
    <3>3. wp \in BOOLEAN
      BY <3>1, Zenon
    <3> QED
      BY <3>2, <3>3
  <2>2. SendCompleted(t, 1) = [t EXCEPT !.size = left, !.writePaused = wp]
    BY DEF SendCompleted
  <2> HIDE DEF left, wp
  <2> QED
    BY <2>1, <2>2 DEF Later, Records
<1> QED
  BY <1>1, <1>2, <1>3, <1>4

\* A receive callback clears the pending flag first and changes nothing else.
LEMMA ClearPending ==
    ASSUME NEW t \in Records, NEW b \in BOOLEAN
    PROVE  /\ Later(t, [t EXCEPT !.recvPending = b])
           /\ [t EXCEPT !.recvPending = b].recvPending = b
           /\ [t EXCEPT !.recvPending = b].closed = t.closed
           /\ [t EXCEPT !.recvPending = b].closing = t.closing
           /\ [t EXCEPT !.recvPending = b].eof = t.eof
  BY DEF Later, Records

\* Two updates in a row are an update.
LEMMA LaterTrans ==
    ASSUME NEW t, NEW u, NEW v, Later(t, u), Later(u, v) PROVE Later(t, v)
  BY DEF Later

\* What write makes of the record and of the ready queue, whichever way it ends.
LEMMA WriteIs ==
    ASSUME NEW x \in Conns, NEW c \in Calls, tr \in [Conns -> Records], Write(x, c)
    PROVE  \E u : /\ tr' = [tr EXCEPT ![x] = u] /\ Later(tr[x], u)
                  /\ \/ /\ ready' = ready /\ u.closed = tr[x].closed
                        /\ u.recvPending = tr[x].recvPending /\ u.eof = tr[x].eof
                     \/ ready' = ready \o LostCallback(x) /\ u.closed /\ u.closing
<1> DEFINE t == tr[x]
           w == Written(t)
<1>0. t \in Records
  OBVIOUS
<1>1. Later(t, w) /\ w.closed = t.closed /\ w.recvPending = t.recvPending /\ w.eof = t.eof
  <2> DEFINE n == t.size + 1
             wp == t.writePaused \/ n >= HighWater
  <2>1. w = [t EXCEPT !.size = n, !.writePaused = wp]
    BY DEF Written
  <2>2. n \in Nat
    BY <1>0 DEF Records
  <2>3. wp \in BOOLEAN
    BY <1>0, Zenon DEF Records
  <2> HIDE DEF t, w, n, wp
  <2> QED
    BY <1>0, <2>1, <2>2, <2>3 DEF Later, Records
<1>2. w \in Records
  BY <1>1 DEF Later
<1>3. CASE WriteOk(x, c)
  <2>1. tr' = [tr EXCEPT ![x] = w] /\ ready' = ready
    BY <1>3 DEF WriteOk
  <2> HIDE DEF w
  <2> QED
    BY <1>1, <2>1
<1>4. CASE WritePauseRaises(x, c)
  <2> DEFINE u == ForceClosed(w)
  <2>1. tr' = [tr EXCEPT ![x] = u] /\ ready' = ready \o LostCallback(x)
    BY <1>4 DEF WritePauseRaises
  <2>2. Later(t, u) /\ u.closed /\ u.closing
    BY <1>1, <1>2, RecordUpdates, LaterTrans
  <2> HIDE DEF u
  <2> QED
    BY <2>1, <2>2
<1>5. CASE WriteError(x, c)
  <2> DEFINE u == ForceClosed(t)
  <2>1. tr' = [tr EXCEPT ![x] = u] /\ ready' = ready \o LostCallback(x)
    BY <1>5 DEF WriteError
  <2>2. Later(t, u) /\ u.closed /\ u.closing
    BY <1>0, RecordUpdates
  <2> HIDE DEF u
  <2> QED
    BY <2>1, <2>2
<1>6. CASE WritePanics(x, c)
  <2>1. tr' = [tr EXCEPT ![x] = t] /\ ready' = ready
    BY <1>6 DEF WritePanics
  <2>2. Later(t, t)
    BY <1>0 DEF Later
  <2> QED
    BY <2>1, <2>2
<1> QED
  BY <1>3, <1>4, <1>5, <1>6 DEF Write

----------------------------------------------------------------------------
(***************************************************************************)
(* Types.  TransportTypeOK is inductive together with the types of the     *)
(* queues the loop works off.                                              *)
(***************************************************************************)
Callbacks == [what : {"recvDone", "writeDone", "connLost"},
              conn : Conns \cup {None}, call : Calls \cup {None}]

TransportTypes ==
    /\ tr \in [Conns -> Records]
    /\ transports \in [Fds -> Conns \cup {None}]
    /\ ioFutures \in [Fds -> Calls \cup {None}]
    /\ owner \in [Calls -> Conns \cup {None}]
    /\ phase \in {"tick", "batch", "process"}
    /\ rearming \in Conns \cup {None}
    /\ received \in [Conns -> Seq(Calls)]
    /\ DOMAIN delivered = Conns
    /\ ready \in Seq(Callbacks)
    /\ batch \in Seq(Callbacks)
    /\ todo \in Seq(ResultItems)

\* The types the runs check are among them.
LEMMA TypesAreOK == TransportTypes => TransportTypeOK
  BY DEF TransportTypes, TransportTypeOK, Records

\* A connection is not None.
LEMMA ConnsAreNot == None \notin Conns /\ None \notin Calls
<1>1. None \notin Nat /\ Conns \subseteq Nat /\ MaxCalls \in Nat
  BY ConstantsAssumption, TransportAssumption
<1>2. Calls \subseteq Nat
  BY <1>1 DEF Calls
<1> QED
  BY <1>1, <1>2

\* An update of the table of transports, also one through an empty entry of
\* _transports, which does nothing.
LEMMA TableUpdate ==
    ASSUME NEW x \in Conns \cup {None}, NEW f \in [Conns -> Records], NEW u,
           x \in Conns => u \in Records
    PROVE  /\ [f EXCEPT ![x] = u] \in [Conns -> Records]
           /\ \A y \in Conns : [f EXCEPT ![x] = u][y] = IF y = x THEN u ELSE f[y]
  BY ConnsAreNot

\* Scheduling connection_lost appends at most one callback.
LEMMA LostCallbackType ==
    ASSUME NEW x \in Conns \cup {None} PROVE LostCallback(x) \in Seq(Callbacks)
<1>1. Callback("connLost", x, None) \in Callbacks
  BY DEF Callback, Callbacks
<1>2. <<Callback("connLost", x, None)>> \in Seq(Callbacks) /\ <<>> \in Seq(Callbacks)
  BY <1>1
<1> QED
  BY <1>2 DEF LostCallback

\* A queue of callbacks stays one when callbacks are appended.
LEMMA ReadyGrows ==
    ASSUME NEW q \in Seq(Callbacks), NEW x \in Conns \cup {None}
    PROVE  /\ q \o LostCallback(x) \in Seq(Callbacks)
           /\ \A cb \in Callbacks : Append(q, cb) \in Seq(Callbacks)
<1>1. PICK t \in Seq(Callbacks) : t = LostCallback(x)
  BY LostCallbackType
<1>2. q \o t \in Seq(Callbacks)
  OBVIOUS
<1> QED
  BY <1>1, <1>2

\* The callback that runs is the first of the batch and leaves it.
LEMMA RunningTypes ==
    ASSUME TransportTypes, NEW what, NEW x, NEW c, Running(what, x, c)
    PROVE  /\ batch' \in Seq(Callbacks)
           /\ Len(batch) > 0 /\ batch[1] = Callback(what, x, c)
           /\ Len(batch') = Len(batch) - 1
           /\ \A i \in 1..Len(batch') : batch'[i] = batch[i + 1]
  BY DEF Running, TransportTypes

\* The completion that is handled next leaves the list.
LEMMA HandlingTypes ==
    ASSUME TransportTypes, NEW kind, Handling(kind)
    PROVE  /\ todo' \in Seq(ResultItems)
           /\ Head(todo) \in ResultItems
           /\ Head(todo).fd \in Fds
           /\ transports[Head(todo).fd] \in Conns \cup {None}
           /\ Len(todo') = Len(todo) - 1 /\ Len(todo) > 0
           /\ Head(todo) = todo[1]
           /\ \A i \in 1..Len(todo') : todo'[i] = todo[i + 1]
<1>1. /\ todo' \in Seq(ResultItems)
      /\ Head(todo) \in ResultItems
      /\ Len(todo') = Len(todo) - 1 /\ Len(todo) > 0
      /\ Head(todo) = todo[1]
      /\ \A i \in 1..Len(todo') : todo'[i] = todo[i + 1]
  BY DEF Handling, TransportTypes
<1>2. Head(todo).fd \in Fds
  BY <1>1 DEF ResultItems
<1> QED
  BY <1>1, <1>2 DEF TransportTypes

\* A future's done-callback is a callback of the transport that waits for it.
LEMMA DoneCallbackType ==
    ASSUME TransportTypes, NEW c \in Calls
    PROVE  /\ DoneCallback(c) \in Callbacks
           /\ DoneCallback(c).what # "connLost"
           /\ DoneCallback(c).conn = owner[c]
           /\ DoneCallback(c).call = c
  BY DEF DoneCallback, Callback, Callbacks, TransportTypes

\* What a tick appends to the callbacks that were ready: done-callbacks of
\* futures of the engine's map.
LEMMA TickBatch ==
    ASSUME TypeInv, TransportTypes, Tick
    PROVE  \E t \in Seq(Callbacks) :
              /\ batch' = ready \o t
              /\ \A i \in 1..Len(t) : \E c \in Calls : t[i] = DoneCallback(c)
              /\ \A i \in Resolving : \E k \in 1..Len(t) :
                    t[k] = DoneCallback(futures[cq[i].fd])
<1> DEFINE R == Resolving
           N == Cardinality(Resolving)
<1>1. PICK hits \in [1..N -> R] :
         /\ InOrder(hits)
         /\ batch' = ready \o [k \in DOMAIN hits |-> DoneCallback(futures[cq[hits[k]].fd])]
  BY DEF Tick
<1>2. IsFiniteSet(R) /\ N \in Nat
  <2>1. Len(cq) \in Nat
    BY DEF TypeInv, TypeOK
  <2>2. IsFiniteSet(1..Len(cq))
    BY <2>1, FS_Interval
  <2>3. IsFiniteSet(R)
    BY <2>2, FS_Subset DEF Resolving
  <2> QED
    BY <2>3, FS_CardinalityType
<1>3. ASSUME NEW i \in R PROVE futures[cq[i].fd] \in Calls
  BY <1>3 DEF Resolving, ResolvedBy
<1>4. DOMAIN hits = 1..N
  OBVIOUS
<1> DEFINE t == [k \in 1..N |-> DoneCallback(futures[cq[hits[k]].fd])]
<1>5. \A k \in 1..N : hits[k] \in R /\ futures[cq[hits[k]].fd] \in Calls
  BY <1>3
<1>6. t \in Seq(Callbacks) /\ Len(t) = N
  <2>1. \A k \in 1..N : DoneCallback(futures[cq[hits[k]].fd]) \in Callbacks
    BY <1>5, DoneCallbackType
  <2>2. t \in [1..N -> Callbacks]
    BY <2>1
  <2> QED
    BY <1>2, <2>2
<1>7. \A i \in 1..Len(t) : \E c \in Calls : t[i] = DoneCallback(c)
  BY <1>5, <1>6
<1>8. ASSUME NEW i \in R PROVE \E k \in 1..N : hits[k] = i
  <2>1. R \subseteq Int
    BY DEF Resolving
  <2>2. \A j, k \in 1..N : hits[j] = hits[k] => j = k
    <3> SUFFICES ASSUME NEW j \in 1..N, NEW k \in 1..N, j # k PROVE hits[j] # hits[k]
      OBVIOUS
    <3>0. hits[j] \in R /\ hits[k] \in R
      OBVIOUS
    <3>1. hits[j] \in Int /\ hits[k] \in Int
      BY <2>1, <3>0, Zenon
    <3>3. j \in Int /\ k \in Int
      BY <1>2
    <3>2. (j < k => hits[j] < hits[k]) /\ (k < j => hits[k] < hits[j])
      BY <1>1, <1>4 DEF InOrder
    <3> QED
      BY <3>1, <3>2, <3>3
  <2>3. hits \in Injection(1..N, R)
    BY <2>2 DEF Injection, IsInjective
  <2>4. Cardinality(1..N) = Cardinality(R)
    BY <1>2, FS_Interval
  <2>5. hits \in Surjection(1..N, R)
    BY <1>2, <2>3, <2>4, FS_Injection
  <2> QED
    BY <2>5 DEF Surjection
<1>9. \A i \in R : \E k \in 1..Len(t) : t[k] = DoneCallback(futures[cq[i].fd])
  BY <1>6, <1>8
<1>10. batch' = ready \o t
  BY <1>1, <1>4
<1> HIDE DEF t
<1> QED
  BY <1>6, <1>7, <1>9, <1>10

\* What a tick leaves for _process_completions: the completions it reaped.
LEMMA TickTodo ==
    ASSUME TypeInv, Tick
    PROVE  /\ todo' \in Seq(ResultItems)
           /\ Len(todo') = Len(cq)
           /\ \A i \in 1..Len(cq) : /\ todo'[i].kind = cq[i].kind
                                    /\ todo'[i].fd = cq[i].fd
<1>1. RunTick /\ todo' = results'
  BY ZenonT(60) DEF Tick
<1>2. todo' \in Seq(ResultItems)
  BY <1>1, TypeInvRunTick DEF TypeInv, TypeOK
<1> DEFINE item(i) == [call |-> cq[i].call, fd |-> cq[i].fd, kind |-> cq[i].kind,
                       res |-> cq[i].res, data |-> DataOf(i)]
<1>3. todo' = [i \in 1..Len(cq) |-> item(i)]
  BY <1>1 DEF RunTick
<1>4. \A i \in 1..Len(cq) : item(i).kind = cq[i].kind /\ item(i).fd = cq[i].fd
  OBVIOUS
<1>5. Len(cq) \in Nat
  BY DEF TypeInv, TypeOK
<1> HIDE DEF item
<1>6. Len(todo') = Len(cq)
  BY <1>2, <1>3, <1>5
<1> QED
  BY <1>2, <1>3, <1>4, <1>6

\* The handlers of the engine's completions and callbacks keep the types.
LEMMA TypesHandler ==
    ASSUME TypeInv, TransportTypes,
           \/ \E x \in Conns, c \in Calls : OnRecvComplete(x, c) \/ OnWriteComplete(x, c)
           \/ \E x \in Conns : CallConnectionLost(x)
           \/ HandleRecv \/ HandleSend
    PROVE  TransportTypes'
<1>1. ASSUME NEW x \in Conns, NEW c \in Calls, OnRecvComplete(x, c) PROVE TransportTypes'
  <2>0. tr[x] \in Records
    BY DEF TransportTypes
  <2>1. PICK t \in Records : t = [tr[x] EXCEPT !.recvPending = FALSE]
    BY <2>0, ClearPending DEF Later
  <2>2. PICK u \in Records : tr' = [tr EXCEPT ![x] = u]
    BY <1>1, <2>1, RecordUpdates DEF OnRecvComplete, Later
  <2>3. tr' \in [Conns -> Records]
    BY <2>2 DEF TransportTypes
  <2>4. batch' \in Seq(Callbacks)
    BY <1>1, RunningTypes DEF OnRecvComplete
  <2>5. ready' \in Seq(Callbacks)
    <3>1. ready' = ready \/ ready' = ready \o LostCallback(x)
      BY <1>1 DEF OnRecvComplete
    <3> QED
      BY <3>1, ReadyGrows DEF TransportTypes
  <2>6. rearming' \in Conns \cup {None} /\ DOMAIN delivered' = Conns
    BY <1>1 DEF OnRecvComplete, TransportTypes
  <2> QED
    BY <1>1, <2>3, <2>4, <2>5, <2>6 DEF OnRecvComplete, TransportTypes
<1>2. ASSUME NEW x \in Conns, NEW c \in Calls, OnWriteComplete(x, c) PROVE TransportTypes'
  <2>0. tr[x] \in Records
    BY DEF TransportTypes
  <2>1. tr' \in [Conns -> Records]
    <3>1. \/ tr' = tr
          \/ tr' = [tr EXCEPT ![x] = SendCompleted(tr[x], 1)]
          \/ tr' = [tr EXCEPT ![x] = ForceClosed(tr[x])]
      BY <1>2 DEF OnWriteComplete
    <3>2. SendCompleted(tr[x], 1) \in Records /\ ForceClosed(tr[x]) \in Records
      BY <2>0, RecordUpdates DEF Later
    <3> QED
      BY <3>1, <3>2 DEF TransportTypes
  <2>2. batch' \in Seq(Callbacks)
    BY <1>2, RunningTypes DEF OnWriteComplete
  <2>3. ready' \in Seq(Callbacks)
    <3>1. ready' = ready \/ ready' = ready \o LostCallback(x)
      BY <1>2 DEF OnWriteComplete
    <3> QED
      BY <3>1, ReadyGrows DEF TransportTypes
  <2> QED
    BY <1>2, <2>1, <2>2, <2>3 DEF OnWriteComplete, TransportTypes
<1>3. ASSUME NEW x \in Conns, CallConnectionLost(x) PROVE TransportTypes'
  <2>0. tr[x] \in Records
    BY DEF TransportTypes
  <2>1. [tr[x] EXCEPT !.lost = @ + 1] \in Records
    BY <2>0 DEF Records
  <2>2. tr' \in [Conns -> Records]
    BY <1>3, <2>1 DEF CallConnectionLost, TransportTypes
  <2>3. batch' \in Seq(Callbacks)
    BY <1>3, RunningTypes DEF CallConnectionLost
  <2> QED
    BY <1>3, <2>2, <2>3 DEF CallConnectionLost, TransportTypes
<1>4. CASE HandleRecv
  <2> DEFINE r == Head(todo)
             x == transports[r.fd]
             f == ioFutures[r.fd]
  <2>0. r.fd \in Fds /\ x \in Conns \cup {None} /\ todo' \in Seq(ResultItems)
    BY <1>4, HandlingTypes, Zenon DEF HandleRecv
  <2>1. x \in Conns => tr[x] \in Records
    BY DEF TransportTypes
  <2>2. tr' \in [Conns -> Records]
    <3>1. PICK u : /\ tr' = tr \/ tr' = [tr EXCEPT ![x] = u]
                   /\ x \in Conns => u \in Records
      BY <1>4, <2>1, RecordUpdates, Zenon DEF HandleRecv, Later
    <3> QED
      BY <2>0, <3>1, TableUpdate DEF TransportTypes
  <2>3. ready' \in Seq(Callbacks)
    <3>1. ASSUME f # None PROVE Callback("recvDone", owner[f], f) \in Callbacks
      <4>1. f \in Calls
        BY <2>0, <3>1 DEF TransportTypes
      <4> QED
        BY <4>1 DEF Callback, Callbacks, TransportTypes
    <3>2. ready \o LostCallback(x) \in Seq(Callbacks)
      BY <2>0, ReadyGrows DEF TransportTypes
    <3>3. \/ ready' = ready
          \/ f # None /\ ready' = Append(ready, Callback("recvDone", owner[f], f))
          \/ ready' = ready \o LostCallback(x)
      BY <1>4, Zenon DEF HandleRecv
    <3> QED
      BY <2>0, <3>1, <3>2, <3>3, ReadyGrows, Zenon DEF TransportTypes
  <2>4. ioFutures' \in [Fds -> Calls \cup {None}]
    BY <1>4, Zenon DEF HandleRecv, TransportTypes
  <2> QED
    BY <1>4, <2>0, <2>2, <2>3, <2>4, Zenon DEF HandleRecv, TransportTypes
<1>5. CASE HandleSend
  <2> DEFINE x == transports[Head(todo).fd]
  <2>0. x \in Conns \cup {None} /\ todo' \in Seq(ResultItems)
    BY <1>5, HandlingTypes DEF HandleSend
  <2>1. x \in Conns => tr[x] \in Records
    BY DEF TransportTypes
  <2>2. tr' \in [Conns -> Records]
    <3>1. PICK u : /\ tr' = tr \/ tr' = [tr EXCEPT ![x] = u]
                   /\ x \in Conns => u \in Records
      BY <1>5, <2>1, RecordUpdates DEF HandleSend, Later
    <3> QED
      BY <2>0, <3>1, TableUpdate, SMTT(60) DEF TransportTypes
  <2> QED
    BY <1>5, <2>0, <2>2 DEF HandleSend, TransportTypes
<1> QED
  BY <1>1, <1>2, <1>3, <1>4, <1>5

(***************************************************************************)
(* A connection that was not made yet is known nowhere, a made one has a   *)
(* descriptor, and a force-closed one is closing.                          *)
(***************************************************************************)
Mentions(q, x) == \E i \in 1..Len(q) : q[i].conn = x

Unknown(x) ==
    /\ \A fd \in Fds : transports[fd] # x
    /\ \A c \in Calls : owner[c] # x
    /\ rearming # x
    /\ ~Mentions(ready, x) /\ ~Mentions(batch, x)

MadeFirst ==
    \A x \in Conns :
        /\ ~tr[x].made => tr[x] = NoTransport /\ Unknown(x)
        /\ tr[x].made => tr[x].fd \in Fds
        /\ tr[x].closed => tr[x].closing

\* The batch is worked off before the loop goes on.
BatchDone == phase # "batch" => batch = <<>> /\ rearming = None

\* What the application does, and the loop on its own, keeps the types.
LEMMA TypesApp ==
    ASSUME TypeInv, TransportTypes, MadeFirst,
           \/ Tick \/ EndBatch \/ EndProcess
           \/ \E c \in Calls, res \in {"pos", "zero", "neg"} : Kernel(c, res)
           \/ \E x \in Conns, fd \in Fds : Connect(x, fd)
           \/ \E x \in Conns : RearmSkipped(x) \/ RearmBeyondBound(x)
           \/ \E x \in Conns, c \in Calls : Rearm(x, c) \/ Write(x, c)
           \/ \E x \in Conns : PauseReading(x) \/ ResumeReading(x) \/ Close(x) \/ Abort(x)
    PROVE  TransportTypes'
<1>0. \A x \in Conns : tr[x] \in Records
  BY DEF TransportTypes
<1>1. CASE Tick
  <2>1. PICK t \in Seq(Callbacks) : batch' = ready \o t
    BY <1>1, TickBatch, ZenonT(60)
  <2>2. batch' \in Seq(Callbacks)
    BY <2>1 DEF TransportTypes
  <2>3. todo' \in Seq(ResultItems)
    BY <1>1, TickTodo
  <2>4. /\ ready' = <<>> /\ phase' = "batch"
        /\ UNCHANGED <<tr, transports, ioFutures, owner, rearming, received, delivered>>
    BY <1>1, ZenonT(60) DEF Tick
  <2> QED
    BY <2>2, <2>3, <2>4 DEF TransportTypes
<1>2. CASE EndBatch \/ EndProcess
  BY <1>2 DEF EndBatch, EndProcess, TransportTypes
<1>3. ASSUME NEW c \in Calls, NEW res, Kernel(c, res) PROVE TransportTypes'
  <2>1. received' \in [Conns -> Seq(Calls)]
    <3>1. CASE received' = received
      BY <3>1 DEF TransportTypes
    <3>2. CASE received' = [received EXCEPT ![owner[c]] = Append(@, c)]
      <4>1. CASE owner[c] \in Conns
        <5>1. received[owner[c]] \in Seq(Calls)
          BY <4>1 DEF TransportTypes
        <5>2. Append(received[owner[c]], c) \in Seq(Calls)
          BY <5>1
        <5> QED
          BY <3>2, <5>2 DEF TransportTypes
      <4>2. CASE owner[c] \notin Conns
        BY <3>2, <4>2 DEF TransportTypes
      <4> QED
        BY <4>1, <4>2
    <3> QED
      BY <1>3, <3>1, <3>2 DEF Kernel
  <2> QED
    BY <1>3, <2>1 DEF Kernel, TransportTypes
<1>4. ASSUME NEW x \in Conns, NEW fd \in Fds, Connect(x, fd) PROVE TransportTypes'
  <2>1. [NoTransport EXCEPT !.made = TRUE, !.fd = fd] \in Records
    BY DEF NoTransport, Records
  <2>2. tr' \in [Conns -> Records]
    BY <1>4, <2>1 DEF Connect, TransportTypes
  <2> QED
    BY <1>4, <2>2 DEF Connect, TransportTypes
<1>5. ASSUME NEW x \in Conns, RearmSkipped(x) \/ RearmBeyondBound(x) PROVE TransportTypes'
  BY <1>5 DEF RearmSkipped, RearmBeyondBound, TransportTypes
<1>6. ASSUME NEW x \in Conns, NEW c \in Calls, Rearm(x, c) PROVE TransportTypes'
  <2>1. /\ ioFutures' \in [Fds -> Calls \cup {None}]
        /\ owner' \in [Calls -> Conns \cup {None}]
        /\ rearming' \in Conns \cup {None}
    BY <1>6 DEF Rearm, IoFuturesWith, TransportTypes
  <2>2. \/ /\ tr' = [tr EXCEPT ![x] = [tr[x] EXCEPT !.recvPending = TRUE]]
           /\ ready' = ready
        \/ /\ tr' = [tr EXCEPT ![x] = ForceClosed(tr[x])]
           /\ ready' = ready \o LostCallback(x)
    BY <1>6 DEF Rearm, RearmOk, RearmError
  <2>3. [tr[x] EXCEPT !.recvPending = TRUE] \in Records /\ ForceClosed(tr[x]) \in Records
    BY <1>0, RecordUpdates, ClearPending DEF Later
  <2>4. tr' \in [Conns -> Records]
    BY <2>2, <2>3 DEF TransportTypes
  <2>5. ready' \in Seq(Callbacks)
    BY <2>2, ReadyGrows, ZenonT(60) DEF TransportTypes
  <2> QED
    BY <1>6, <2>1, <2>4, <2>5 DEF Rearm, TransportTypes
<1>7. ASSUME NEW x \in Conns, NEW c \in Calls, Write(x, c) PROVE TransportTypes'
  <2>1. PICK u : /\ tr' = [tr EXCEPT ![x] = u] /\ Later(tr[x], u)
                 /\ ready' = ready \/ ready' = ready \o LostCallback(x)
    BY <1>7, WriteIs DEF TransportTypes
  <2>3. tr' \in [Conns -> Records]
    BY <2>1 DEF TransportTypes, Later
  <2>4. ready' \in Seq(Callbacks)
    BY <2>1, ReadyGrows, ZenonT(60) DEF TransportTypes
  <2>5. owner' \in [Calls -> Conns \cup {None}]
    BY <1>7 DEF Write, TransportTypes
  <2> QED
    BY <1>7, <2>3, <2>4, <2>5 DEF Write, TransportTypes
<1>8. ASSUME NEW x \in Conns, PauseReading(x) \/ ResumeReading(x) PROVE TransportTypes'
  <2>1. PICK p \in BOOLEAN : tr' = [tr EXCEPT ![x] = [tr[x] EXCEPT !.paused = p]]
    BY <1>8 DEF PauseReading, ResumeReading
  <2>2. [tr[x] EXCEPT !.paused = p] \in Records
    BY <1>0 DEF Records
  <2>3. tr' \in [Conns -> Records]
    BY <2>1, <2>2 DEF TransportTypes
  <2> QED
    BY <1>8, <2>3, ZenonT(60) DEF PauseReading, ResumeReading, TransportTypes
<1>9. ASSUME NEW x \in Conns, Close(x) \/ Abort(x) PROVE TransportTypes'
  <2>1. Closed(tr[x]) \in Records /\ ForceClosed(tr[x]) \in Records
    BY <1>0, RecordUpdates DEF Later
  <2>2. tr' \in [Conns -> Records]
    BY <1>9, <2>1, ZenonT(60) DEF Close, Abort, TransportTypes
  <2>3. ready' = ready \/ ready' = ready \o LostCallback(x)
    BY <1>9 DEF Close, Abort
  <2>4. ready' \in Seq(Callbacks)
    BY <2>3, ReadyGrows DEF TransportTypes
  <2> QED
    BY <1>9, <2>2, <2>4 DEF Close, Abort, TransportTypes
<1> QED
  BY <1>1, <1>2, <1>3, <1>4, <1>5, <1>6, <1>7, <1>8, <1>9

\* Every step of the loop, the kernel and the application keeps the types.
LEMMA TypesStep ==
    ASSUME TypeInv, TransportTypes, MadeFirst, TransportNext PROVE TransportTypes'
  BY TypesApp, TypesHandler DEF TransportNext

----------------------------------------------------------------------------
(***************************************************************************)
(* Connections are made first.                                             *)
(***************************************************************************)

\* Whom a queue mentions after callbacks were appended or the first one left.
LEMMA MentionsAfter ==
    ASSUME NEW q \in Seq(Callbacks), NEW y
    PROVE  /\ \A x \in Conns \cup {None} : Mentions(q \o LostCallback(x), y) => Mentions(q, y) \/ y = x
           /\ \A cb \in Callbacks : Mentions(Append(q, cb), y) => Mentions(q, y) \/ y = cb.conn
           /\ \A t \in Seq(Callbacks) :
                 Mentions(q \o t, y) => Mentions(q, y) \/ Mentions(t, y)
           /\ q # <<>> /\ Mentions(Tail(q), y) => Mentions(q, y)
<1>1. \A t \in Seq(Callbacks) : Mentions(q \o t, y) => Mentions(q, y) \/ Mentions(t, y)
  <2> SUFFICES ASSUME NEW t \in Seq(Callbacks), NEW i \in 1..Len(q \o t), (q \o t)[i].conn = y
               PROVE  Mentions(q, y) \/ Mentions(t, y)
    BY DEF Mentions
  <2>1. CASE i \in 1..Len(q)
    BY <2>1 DEF Mentions
  <2>2. CASE i \notin 1..Len(q)
    <3>1. i - Len(q) \in 1..Len(t) /\ (q \o t)[i] = t[i - Len(q)]
      BY <2>2
    <3> QED
      BY <3>1 DEF Mentions
  <2> QED
    BY <2>1, <2>2
<1>2. \A x \in Conns \cup {None} : Mentions(LostCallback(x), y) => y = x
  BY DEF Mentions, LostCallback, Callback
<1>3. \A x \in Conns \cup {None} : Mentions(q \o LostCallback(x), y) => Mentions(q, y) \/ y = x
  BY <1>1, <1>2, LostCallbackType
<1>4. \A cb \in Callbacks : Mentions(Append(q, cb), y) => Mentions(q, y) \/ y = cb.conn
  BY DEF Mentions
<1>5. q # <<>> /\ Mentions(Tail(q), y) => Mentions(q, y)
  <2> SUFFICES ASSUME q # <<>>, NEW i \in 1..Len(Tail(q)), Tail(q)[i].conn = y
               PROVE  Mentions(q, y)
    BY DEF Mentions
  <2>1. i + 1 \in 1..Len(q) /\ Tail(q)[i] = q[i + 1]
    OBVIOUS
  <2> QED
    BY <2>1 DEF Mentions
<1> QED
  BY <1>1, <1>3, <1>4, <1>5

\* A queue that may have got the connection_lost call of x mentions nobody else.
LEMMA LostAdds ==
    ASSUME NEW q \in Seq(Callbacks), NEW r, NEW x \in Conns, NEW y, y # x, ~Mentions(q, y),
           r = q \/ r = q \o LostCallback(x)
    PROVE  ~Mentions(r, y)
<1>1. CASE r = q
  BY <1>1
<1>2. CASE r = q \o LostCallback(x)
  <2>1. x \in Conns \cup {None}
    OBVIOUS
  <2>2. Mentions(q \o LostCallback(x), y) => Mentions(q, y) \/ y = x
    BY ONLY q \in Seq(Callbacks), <2>1, MentionsAfter
  <2> QED
    BY <1>2, <2>2
<1> QED
  BY <1>1, <1>2

\* A step keeps the order if it changes only records of made connections and
\* adds no reference to another one.
LEMMA MadeKept ==
    ASSUME MadeFirst,
           \A y \in Conns : tr'[y] = tr[y] \/ (/\ tr[y].made /\ tr'[y].made
                                               /\ tr'[y].fd = tr[y].fd
                                               /\ tr'[y].closed => tr'[y].closing),
           \A y \in Conns : ~tr[y].made => Unknown(y)'
    PROVE  MadeFirst'
  BY DEF MadeFirst

\* The same for the usual step, which updates one record.
LEMMA MadeUpdate ==
    ASSUME TransportTypes, MadeFirst, NEW x \in Conns \cup {None}, NEW u,
           x \in Conns => /\ tr[x].made
                          /\ Later(tr[x], u)
                          /\ u.closing \/ u.closed = tr[x].closed,
           tr' = tr \/ tr' = [tr EXCEPT ![x] = u],
           \A y \in Conns : ~tr[y].made => Unknown(y)'
    PROVE  MadeFirst'
<1>1. \A y \in Conns : tr'[y] = IF y = x /\ tr' # tr THEN u ELSE tr[y]
  BY TableUpdate DEF TransportTypes, Later
<1>2. ASSUME x \in Conns
      PROVE  /\ tr[x].made /\ u.made /\ u.fd = tr[x].fd
             /\ u.closed => u.closing
  BY <1>2 DEF Later, MadeFirst
<1> QED
  BY <1>1, <1>2, MadeKept

\* Callbacks and completions belong to connections that were made.
LEMMA MadeHandler ==
    ASSUME TypeInv, TransportTypes, MadeFirst,
           \/ \E x \in Conns, c \in Calls : OnRecvComplete(x, c) \/ OnWriteComplete(x, c)
           \/ \E x \in Conns : CallConnectionLost(x)
           \/ HandleRecv \/ HandleSend
    PROVE  MadeFirst'
<1>0. /\ ready \in Seq(Callbacks) /\ batch \in Seq(Callbacks)
      /\ \A x \in Conns : tr[x] \in Records
  BY DEF TransportTypes
<1>1. ASSUME NEW x \in Conns, NEW c, NEW what, Running(what, x, c)
      PROVE  /\ tr[x].made
             /\ \A y : Mentions(batch', y) => Mentions(batch, y)
  <2>1. batch # <<>> /\ batch' = Tail(batch)
    BY <1>1 DEF Running
  <2>2. 1 \in 1..Len(batch) /\ batch[1].conn = x
    <3>1. Len(batch) > 0 /\ batch[1] = Callback(what, x, c)
      BY <1>1, RunningTypes
    <3>2. Len(batch) \in Nat
      BY <1>0
    <3> QED
      BY <3>1, <3>2 DEF Callback
  <2>3. Mentions(batch, x)
    BY <2>2 DEF Mentions
  <2>4. tr[x].made
    BY <2>3 DEF MadeFirst, Unknown
  <2> QED
    BY <1>0, <2>1, <2>4, MentionsAfter
<1>2. ASSUME NEW x \in Conns, NEW c \in Calls, OnRecvComplete(x, c) PROVE MadeFirst'
  <2>1. Running("recvDone", x, c)
    BY <1>2 DEF OnRecvComplete
  <2>2. PICK t \in Records : /\ t = [tr[x] EXCEPT !.recvPending = FALSE]
                             /\ Later(tr[x], t) /\ t.closed = tr[x].closed
    BY <1>0, ClearPending DEF Later
  <2>3. PICK u : /\ tr' = [tr EXCEPT ![x] = u]
                 /\ Later(tr[x], u) /\ (u.closing \/ u.closed = tr[x].closed)
    <3>1. \/ tr' = [tr EXCEPT ![x] = t]
          \/ tr' = [tr EXCEPT ![x] = ForceClosed(t)]
          \/ \E keepOpen \in BOOLEAN : tr' = [tr EXCEPT ![x] = EofReceived(t, keepOpen)]
      BY <1>2, <2>2 DEF OnRecvComplete
    <3>2. Later(tr[x], ForceClosed(t)) /\ ForceClosed(t).closing
      <4>1. Later(t, ForceClosed(t)) /\ ForceClosed(t).closing
        BY RecordUpdates
      <4> QED
        BY <2>2, <4>1, LaterTrans
    <3>3. \A k \in BOOLEAN : /\ Later(tr[x], EofReceived(t, k))
                             /\ EofReceived(t, k).closed = tr[x].closed
      <4> SUFFICES ASSUME NEW k \in BOOLEAN
                   PROVE  /\ Later(tr[x], EofReceived(t, k))
                          /\ EofReceived(t, k).closed = tr[x].closed
        OBVIOUS
      <4>1. Later(t, EofReceived(t, k)) /\ EofReceived(t, k).closed = t.closed
        BY RecordUpdates
      <4> QED
        BY <2>2, <4>1, LaterTrans
    <3> QED
      BY <2>2, <3>1, <3>2, <3>3
  <2>4. ready' = ready \/ ready' = ready \o LostCallback(x)
    BY <1>2 DEF OnRecvComplete
  <2>5. (rearming' = rearming \/ rearming' = x) /\ UNCHANGED <<transports, owner>>
    BY <1>2 DEF OnRecvComplete
  <2>6. ASSUME NEW y \in Conns, ~tr[y].made PROVE Unknown(y)'
    <3>1. Unknown(y) /\ y # x
      BY <1>1, <2>1, <2>6 DEF MadeFirst
    <3>2. ~Mentions(ready', y)
      <4>1. ~Mentions(ready, y)
        BY <3>1 DEF Unknown
      <4> QED
        BY <1>0, <2>4, <3>1, <4>1, LostAdds
    <3>3. ~Mentions(batch', y)
      BY <1>1, <2>1, <3>1 DEF Unknown
    <3> QED
      BY <2>5, <3>1, <3>2, <3>3 DEF Unknown
  <2> QED
    BY <1>1, <2>1, <2>3, <2>6, MadeUpdate
<1>3. ASSUME NEW x \in Conns, NEW c \in Calls, OnWriteComplete(x, c) PROVE MadeFirst'
  <2>1. Running("writeDone", x, c)
    BY <1>3 DEF OnWriteComplete
  <2>3. PICK u : /\ tr' = tr \/ tr' = [tr EXCEPT ![x] = u]
                 /\ Later(tr[x], u) /\ (u.closing \/ u.closed = tr[x].closed)
    <3>1. tr[x] \in Records
      BY <1>0
    <3> QED
      BY <1>3, <3>1, RecordUpdates DEF OnWriteComplete
  <2>4. ready' = ready \/ ready' = ready \o LostCallback(x)
    BY <1>3 DEF OnWriteComplete
  <2>5. UNCHANGED <<transports, owner, rearming>>
    BY <1>3 DEF OnWriteComplete
  <2>6. ASSUME NEW y \in Conns, ~tr[y].made PROVE Unknown(y)'
    <3>1. Unknown(y) /\ y # x
      BY <1>1, <2>1, <2>6 DEF MadeFirst
    <3>2. ~Mentions(ready', y)
      <4>1. ~Mentions(ready, y)
        BY <3>1 DEF Unknown
      <4> QED
        BY <1>0, <2>4, <3>1, <4>1, LostAdds
    <3>3. ~Mentions(batch', y)
      BY <1>1, <2>1, <3>1 DEF Unknown
    <3> QED
      BY <2>5, <3>1, <3>2, <3>3 DEF Unknown
  <2> QED
    BY <1>1, <2>1, <2>3, <2>6, MadeUpdate
<1>4. ASSUME NEW x \in Conns, CallConnectionLost(x) PROVE MadeFirst'
  <2>1. Running("connLost", x, None)
    BY <1>4 DEF CallConnectionLost
  <2>2. \A y \in Conns : tr'[y] = tr[y] \/ (/\ tr[y].made /\ tr'[y].made
                                            /\ tr'[y].fd = tr[y].fd
                                            /\ tr'[y].closed => tr'[y].closing)
    <3>1. tr[x].made
      BY <1>1, <2>1
    <3>2. /\ [tr[x] EXCEPT !.lost = @ + 1].made = tr[x].made
          /\ [tr[x] EXCEPT !.lost = @ + 1].fd = tr[x].fd
          /\ [tr[x] EXCEPT !.lost = @ + 1].closed = tr[x].closed
          /\ [tr[x] EXCEPT !.lost = @ + 1].closing = tr[x].closing
      BY <1>0 DEF Records
    <3>3. \A y \in Conns : tr'[y] = IF y = x THEN [tr[x] EXCEPT !.lost = @ + 1] ELSE tr[y]
      BY <1>4 DEF CallConnectionLost, TransportTypes
    <3> QED
      BY <3>1, <3>2, <3>3 DEF MadeFirst
  <2>3. \A y \in Conns : ~tr[y].made => Unknown(y)'
    BY <1>0, <1>1, <1>4, <2>1 DEF CallConnectionLost, MadeFirst, Unknown
  <2> QED
    BY <2>2, <2>3, MadeKept
<1>5. ASSUME NEW kind, Handling(kind)
      PROVE  LET x == transports[Head(todo).fd] IN
             /\ x \in Conns \cup {None}
             /\ x \in Conns => tr[x].made
  BY <1>5, HandlingTypes DEF MadeFirst, Unknown
<1>6. CASE HandleRecv
  <2> DEFINE r == Head(todo)
             x == transports[r.fd]
             f == ioFutures[r.fd]
  <2>0. /\ x \in Conns \cup {None}
        /\ x \in Conns => tr[x].made
        /\ r.fd \in Fds
    BY <1>5, <1>6, HandlingTypes, Zenon DEF HandleRecv
  <2>1. PICK u : /\ tr' = tr \/ tr' = [tr EXCEPT ![x] = u]
                 /\ x \in Conns => Later(tr[x], u) /\ (u.closing \/ u.closed = tr[x].closed)
    <3>1. \/ tr' = tr
          \/ tr' = [tr EXCEPT ![x] = ForceClosed(tr[x])]
          \/ \E keepOpen \in BOOLEAN : tr' = [tr EXCEPT ![x] = EofReceived(tr[x], keepOpen)]
      BY <1>6, Zenon DEF HandleRecv
    <3>2. x \in Conns => tr[x] \in Records
      BY <1>0
    <3> HIDE DEF x, r, f
    <3>3. CASE x \notin Conns
      BY <3>1, <3>3
    <3>4. CASE x \in Conns
      <4>1. Later(tr[x], ForceClosed(tr[x])) /\ ForceClosed(tr[x]).closing
        BY <3>2, <3>4, RecordUpdates
      <4>2. \A k \in BOOLEAN : /\ Later(tr[x], EofReceived(tr[x], k))
                               /\ EofReceived(tr[x], k).closed = tr[x].closed
        BY <3>2, <3>4, RecordUpdates
      <4> QED
        BY <3>1, <4>1, <4>2
    <3> QED
      BY <3>3, <3>4
  <2>2. \/ ready' = ready
        \/ f # None /\ ready' = Append(ready, Callback("recvDone", owner[f], f))
        \/ ready' = ready \o LostCallback(x)
    BY <1>6, Zenon DEF HandleRecv
  <2>3. ASSUME f # None
        PROVE  f \in Calls /\ Callback("recvDone", owner[f], f) \in Callbacks
               /\ Callback("recvDone", owner[f], f).conn = owner[f]
    <3>1. f \in Calls
      BY <2>0, <2>3, SMTT(60) DEF TransportTypes
    <3> QED
      BY <3>1 DEF Callback, Callbacks, TransportTypes
  <2>4. UNCHANGED <<transports, owner, rearming, batch>>
    BY <1>6, ZenonT(60) DEF HandleRecv
  <2>5. ASSUME NEW y \in Conns, ~tr[y].made PROVE Unknown(y)'
    <3>1. Unknown(y) /\ y # x
      BY <2>0, <2>5 DEF MadeFirst
    <3>2. f # None => owner[f] # y
      BY <2>3, <3>1 DEF Unknown
    <3>3. ~Mentions(ready', y)
      <4> HIDE DEF x, r, f
      <4>1. ~Mentions(ready, y)
        BY <3>1 DEF Unknown
      <4>2. ~Mentions(ready \o LostCallback(x), y)
        BY <1>0, <2>0, <3>1, <4>1, MentionsAfter
      <4>3. f # None => ~Mentions(Append(ready, Callback("recvDone", owner[f], f)), y)
        BY <1>0, <2>3, <3>2, <4>1, MentionsAfter
      <4> QED
        BY <2>2, <4>1, <4>2, <4>3
    <3> QED
      BY <2>4, <3>1, <3>3 DEF Unknown
  <2> HIDE DEF x, r, f
  <2> QED
    BY <2>0, <2>1, <2>5, MadeUpdate
<1>7. CASE HandleSend
  <2> DEFINE x == transports[Head(todo).fd]
  <2>0. x \in Conns \cup {None} /\ (x \in Conns => tr[x].made)
    BY <1>5, <1>7 DEF HandleSend
  <2>1. PICK u : /\ tr' = tr \/ tr' = [tr EXCEPT ![x] = u]
                 /\ x \in Conns => Later(tr[x], u) /\ (u.closing \/ u.closed = tr[x].closed)
    <3>1. tr' = tr \/ tr' = [tr EXCEPT ![x] = SendCompleted(tr[x], 1)]
      BY <1>7 DEF HandleSend
    <3>2. x \in Conns => tr[x] \in Records
      BY <1>0
    <3> HIDE DEF x
    <3> QED
      BY <3>1, <3>2, RecordUpdates
  <2>2. \A y \in Conns : ~tr[y].made => Unknown(y)'
    BY <1>7 DEF HandleSend, MadeFirst, Unknown
  <2> HIDE DEF x
  <2> QED
    BY <2>0, <2>1, <2>2, MadeUpdate
<1> QED
  BY <1>2, <1>3, <1>4, <1>6, <1>7

\* The application uses connections that were made, and _rearm_recv runs for
\* such a one.
LEMMA MadeApp ==
    ASSUME TypeInv, TransportTypes, MadeFirst,
           \/ Tick \/ EndBatch \/ EndProcess
           \/ \E c \in Calls, res \in {"pos", "zero", "neg"} : Kernel(c, res)
           \/ \E x \in Conns, fd \in Fds : Connect(x, fd)
           \/ \E x \in Conns : RearmSkipped(x) \/ RearmBeyondBound(x)
           \/ \E x \in Conns, c \in Calls : Rearm(x, c) \/ Write(x, c)
           \/ \E x \in Conns : PauseReading(x) \/ ResumeReading(x) \/ Close(x) \/ Abort(x)
    PROVE  MadeFirst'
<1>0. /\ ready \in Seq(Callbacks) /\ batch \in Seq(Callbacks)
      /\ \A x \in Conns : tr[x] \in Records
      /\ owner \in [Calls -> Conns \cup {None}]
      /\ tr \in [Conns -> Records]
  BY DEF TransportTypes
<1>1. CASE Tick
  <2>1. PICK t \in Seq(Callbacks) :
           /\ batch' = ready \o t
           /\ \A i \in 1..Len(t) : \E c \in Calls : t[i] = DoneCallback(c)
    BY <1>1, TickBatch, ZenonT(60)
  <2>2. ready' = <<>> /\ UNCHANGED <<tr, transports, owner, rearming>>
    BY <1>1, ZenonT(60) DEF Tick
  <2>3. ASSUME NEW y \in Conns, ~tr[y].made PROVE Unknown(y)'
    <3>1. Unknown(y)
      BY <2>3 DEF MadeFirst
    <3>2. ~Mentions(t, y)
      <4> SUFFICES ASSUME NEW i \in 1..Len(t), t[i].conn = y PROVE FALSE
        BY DEF Mentions
      <4>1. PICK c \in Calls : t[i] = DoneCallback(c)
        BY <2>1
      <4> QED
        BY <3>1, <4>1, DoneCallbackType DEF Unknown
    <3>3. ~Mentions(batch', y)
      BY <1>0, <2>1, <3>1, <3>2, MentionsAfter DEF Unknown
    <3>4. ~Mentions(ready', y)
      BY <2>2 DEF Mentions
    <3> QED
      BY <2>2, <3>1, <3>3, <3>4 DEF Unknown
  <2> QED
    BY <2>2, <2>3, MadeKept
<1>2. CASE UNCHANGED <<tr, transports, owner, rearming, ready, batch>>
  BY <1>2 DEF MadeFirst, Unknown
<1>3. ASSUME NEW x \in Conns, NEW fd \in Fds, Connect(x, fd) PROVE MadeFirst'
  <2>1. \A y \in Conns : tr'[y] = IF y = x THEN [NoTransport EXCEPT !.made = TRUE, !.fd = fd]
                                           ELSE tr[y]
    BY <1>0, <1>3 DEF Connect
  <2>2. /\ transports' = [transports EXCEPT ![fd] = x]
        /\ rearming' = x
        /\ UNCHANGED <<owner, ready, batch>>
    BY <1>3 DEF Connect
  <2>3. tr'[x].made /\ tr'[x].fd = fd /\ ~tr'[x].closed
    BY <2>1 DEF NoTransport
  <2>4. ASSUME NEW y \in Conns, y # x, ~tr[y].made PROVE Unknown(y)'
    <3>1. Unknown(y)
      BY <2>4 DEF MadeFirst
    <3>2. \A gd \in Fds : transports'[gd] # y
      BY <2>2, <2>4, <3>1 DEF Unknown, TransportTypes
    <3> QED
      BY <2>2, <2>4, <3>1, <3>2 DEF Unknown
  <2> QED
    BY <2>1, <2>3, <2>4 DEF MadeFirst
<1>4. ASSUME NEW x \in Conns, RearmSkipped(x) \/ RearmBeyondBound(x) PROVE MadeFirst'
  <2>1. rearming' = None /\ UNCHANGED <<tr, transports, owner, ready, batch>>
    BY <1>4 DEF RearmSkipped, RearmBeyondBound
  <2> QED
    BY <2>1, ConnsAreNot DEF MadeFirst, Unknown
<1>5. ASSUME NEW x \in Conns, NEW c \in Calls, Rearm(x, c) \/ Write(x, c) PROVE MadeFirst'
  <2>1. tr[x].made
    BY <1>5 DEF Rearm, Write, AppRuns, MadeFirst, Unknown
  <2>2. PICK u : /\ tr' = [tr EXCEPT ![x] = u]
                 /\ Later(tr[x], u) /\ (u.closing \/ u.closed = tr[x].closed)
    <3>1. CASE tr' = [tr EXCEPT ![x] = ForceClosed(tr[x])]
      BY <1>0, <3>1, RecordUpdates
    <3>2. CASE tr' = [tr EXCEPT ![x] = [tr[x] EXCEPT !.recvPending = TRUE]]
      BY <1>0, <3>2, ClearPending, ZenonT(60)
    <3>3. CASE Write(x, c)
      BY <1>0, <3>3, WriteIs, ZenonT(60)
    <3> QED
      BY <1>5, <3>1, <3>2, <3>3 DEF Rearm, RearmOk, RearmError
  <2>3. ready' = ready \/ ready' = ready \o LostCallback(x)
    BY <1>0, <1>5, WriteIs DEF Rearm, RearmOk, RearmError
  <2>4. /\ owner' = [owner EXCEPT ![c] = x]
        /\ rearming' \in {rearming, None}
        /\ UNCHANGED <<transports, batch>>
    BY <1>5 DEF Rearm, Write
  <2>5. ASSUME NEW y \in Conns, ~tr[y].made PROVE Unknown(y)'
    <3>1. Unknown(y) /\ y # x /\ y # None
      BY <2>1, <2>5, ConnsAreNot DEF MadeFirst
    <3>2. ~Mentions(ready', y)
      <4>1. ~Mentions(ready, y)
        BY <3>1 DEF Unknown
      <4> QED
        BY <1>0, <2>3, <3>1, <4>1, LostAdds
    <3>3. \A d \in Calls : owner'[d] # y
      BY <1>0, <2>4, <3>1 DEF Unknown
    <3> QED
      BY <2>4, <3>1, <3>2, <3>3 DEF Unknown
  <2> QED
    BY <2>1, <2>2, <2>5, MadeUpdate
<1>6. ASSUME NEW x \in Conns, PauseReading(x) \/ ResumeReading(x) PROVE MadeFirst'
  <2>1. tr[x].made /\ (rearming' = rearming \/ rearming' = x)
    BY <1>6 DEF PauseReading, ResumeReading, AppRuns
  <2>2. PICK p \in BOOLEAN : tr' = [tr EXCEPT ![x] = [tr[x] EXCEPT !.paused = p]]
    BY <1>6 DEF PauseReading, ResumeReading
  <2>3. \A y \in Conns : tr'[y] = IF y = x THEN [tr[x] EXCEPT !.paused = p] ELSE tr[y]
    BY <1>0, <2>2
  <2>4. /\ [tr[x] EXCEPT !.paused = p].made = tr[x].made
        /\ [tr[x] EXCEPT !.paused = p].fd = tr[x].fd
        /\ [tr[x] EXCEPT !.paused = p].closed = tr[x].closed
        /\ [tr[x] EXCEPT !.paused = p].closing = tr[x].closing
    BY <1>0 DEF Records
  <2>5. UNCHANGED <<transports, owner, ready, batch>>
    BY <1>6 DEF PauseReading, ResumeReading
  <2>6. \A y \in Conns : ~tr[y].made => Unknown(y)'
    BY <2>1, <2>5 DEF MadeFirst, Unknown
  <2> QED
    BY <2>1, <2>3, <2>4, <2>6 DEF MadeFirst
<1>7. ASSUME NEW x \in Conns, Close(x) \/ Abort(x) PROVE MadeFirst'
  <2>1. tr[x].made /\ UNCHANGED <<transports, owner, batch, rearming>>
    BY <1>7 DEF Close, Abort, AppRuns
  <2>2. PICK u : /\ tr' = [tr EXCEPT ![x] = u]
                 /\ Later(tr[x], u) /\ (u.closing \/ u.closed = tr[x].closed)
    <3>1. tr' = [tr EXCEPT ![x] = ForceClosed(tr[x])] \/ tr' = [tr EXCEPT ![x] = Closed(tr[x])]
      BY <1>7 DEF Close, Abort
    <3> QED
      BY <1>0, <3>1, RecordUpdates
  <2>3. ready' = ready \/ ready' = ready \o LostCallback(x)
    BY <1>7 DEF Close, Abort
  <2>4. ASSUME NEW y \in Conns, ~tr[y].made PROVE Unknown(y)'
    <3>1. Unknown(y) /\ y # x
      BY <2>1, <2>4 DEF MadeFirst
    <3>2. ~Mentions(ready', y)
      <4>1. ~Mentions(ready, y)
        BY <3>1 DEF Unknown
      <4> QED
        BY <1>0, <2>3, <3>1, <4>1, LostAdds
    <3> QED
      BY <2>1, <3>1, <3>2 DEF Unknown
  <2> QED
    BY <2>1, <2>2, <2>4, MadeUpdate
<1> QED
  BY <1>1, <1>2, <1>3, <1>4, <1>5, <1>6, <1>7 DEF EndBatch, EndProcess, Kernel

\* Every step keeps that connections are made first.
LEMMA MadeStep ==
    ASSUME TypeInv, TransportTypes, MadeFirst, TransportNext PROVE MadeFirst'
  BY MadeApp, MadeHandler DEF TransportNext

----------------------------------------------------------------------------
(***************************************************************************)
(* What the engine guarantees to any caller holds below the transports.    *)
(***************************************************************************)

\* A step of the loop is one of the engine, or resolves a future.
LEMMA EngineStep ==
    ASSUME TransportTypes, MadeFirst, TransportNext PROVE [Next]_vars \/ ResolvesOnly
<1>0. \A x \in Conns : tr[x].made => tr[x].fd \in Fds
  BY DEF MadeFirst
<1>1. CASE Tick
  BY <1>1 DEF Tick, Next
<1>2. ASSUME NEW c \in Calls, NEW res \in {"pos", "zero", "neg"}, Kernel(c, res) PROVE Next
  BY <1>2 DEF Kernel, Next
<1>3. ASSUME NEW x \in Conns, NEW fd \in Fds, Connect(x, fd) PROVE Next
  BY <1>3 DEF Connect, Next
<1>4. ASSUME NEW x \in Conns, NEW c \in Calls, Rearm(x, c) PROVE Next
  <2>1. tr[x].fd \in Fds
    BY <1>0, <1>4 DEF Rearm, MadeFirst, Unknown
  <2> QED
    BY <1>4, <2>1, RearmIsSubmit, TransportAssumption DEF Next
<1>5. ASSUME NEW x \in Conns, NEW c \in Calls, Write(x, c) PROVE Next
  <2>1. tr[x].fd \in Fds
    BY <1>0, <1>5 DEF Write, AppRuns
  <2> QED
    BY <1>5, <2>1, WriteIsSubmit, TransportAssumption DEF Next
<1>6. ASSUME NEW x \in Conns, PauseReading(x) PROVE Next
  BY <1>0, <1>6 DEF PauseReading, AppRuns, Next
<1>7. ASSUME NEW x \in Conns, ResumeReading(x) PROVE [Next]_vars
  BY <1>0, <1>7 DEF ResumeReading, ResumeEngine, AppRuns, Next
<1>8. CASE HandleRecv
  <2> DEFINE r == Head(todo)
             f == ioFutures[r.fd]
  <2>1. r \in ResultItems /\ r.fd \in Fds
    BY <1>8, HandlingTypes, ZenonT(60) DEF HandleRecv
  <2>2. f # None => f \in Calls
    BY <2>1, ZenonT(60) DEF TransportTypes
  <2>3. \/ outcome' = outcome
        \/ /\ f # None /\ outcome[f] = Pending
           /\ outcome' = [outcome EXCEPT ![f] = HandlerValue(r)]
    BY <1>8, ZenonT(60) DEF HandleRecv
  <2>4. UNCHANGED <<free, sendHeld, fdState, inflightRecv, futures, recvmsgState,
                    sendmsgState, op, where, cq, mem, results>>
    BY <1>8, ZenonT(60) DEF HandleRecv
  <2> HIDE DEF r, f
  <2> QED
    BY <2>1, <2>2, <2>3, <2>4 DEF ResolvesOnly
<1>9. CASE UNCHANGED vars
  BY <1>9
<1> QED
  BY <1>1, <1>2, <1>3, <1>4, <1>5, <1>6, <1>7, <1>8, <1>9
  DEF TransportNext, EndBatch, EndProcess, RearmSkipped, RearmBeyondBound, OnRecvComplete,
      OnWriteComplete, CallConnectionLost, Close, Abort, HandleSend

EngineInv == TypeInv /\ BufferAccounting /\ QueueInv /\ StoredFutureHasOperation

\* Resolving a future disturbs nothing the engine relies on.
LEMMA EngineInvStep ==
    ASSUME EngineInv, [Next]_vars \/ ResolvesOnly PROVE EngineInv'
<1>1. CASE [Next]_vars
  BY <1>1, TypeInvStep, AccountingStep, QueueInvStep, StoredFutureStep DEF EngineInv
<1>2. CASE ResolvesOnly
  <2>1. UNCHANGED <<free, sendHeld, fdState, inflightRecv, futures, recvmsgState,
                    sendmsgState, op, where, cq, mem, results>>
    BY <1>2 DEF ResolvesOnly
  <2>2. outcome' \in [Calls -> Outcomes]
    BY <1>2, HandlerValueType, Zenon DEF ResolvesOnly, EngineInv, TypeInv, TypeOK
  <2>3. TypeInv'
    BY <2>1, <2>2 DEF EngineInv, TypeInv, TypeOK, OpsWellFormed
  <2>4. BufferAccounting' /\ QueueInv' /\ StoredFutureHasOperation'
    BY <2>1 DEF EngineInv, BufferAccounting, QueueInv, StoredFutureHasOperation, Outstanding
  <2> QED
    BY <2>3, <2>4 DEF EngineInv
<1> QED
  BY <1>1, <1>2

\* The batch is worked off before the phase ends.
LEMMA BatchDoneStep ==
    ASSUME TransportTypes, BatchDone, TransportNext PROVE BatchDone'
  BY ConnsAreNot, ZenonT(60)
  DEF TransportNext, BatchDone, Tick, EndBatch, EndProcess, Kernel, Connect, RearmSkipped,
     RearmBeyondBound, Rearm, OnRecvComplete, OnWriteComplete, CallConnectionLost, Running,
     Write, PauseReading, ResumeReading, Close, Abort, AppRuns, HandleRecv, HandleSend,
     Handling

----------------------------------------------------------------------------
(***************************************************************************)
(* Pausing.                                                                *)
(***************************************************************************)

\* A step that leaves the flags of the engine and moves records only forward
\* keeps transport and engine in agreement.
LEMMA SyncUpdate ==
    ASSUME TransportTypes, PauseInSync, NEW x \in Conns \cup {None}, NEW u,
           x \in Conns => Later(tr[x], u),
           tr' = tr \/ tr' = [tr EXCEPT ![x] = u],
           transports' = transports,
           \A fd \in Fds : /\ fdState'[fd].registered = fdState[fd].registered
                           /\ fdState'[fd].paused = fdState[fd].paused,
           \A y \in Conns : tr[y].made => tr[y].fd \in Fds
    PROVE  PauseInSync'
<1>1. \A y \in Conns : tr'[y] = IF y = x /\ tr' # tr THEN u ELSE tr[y]
  BY TableUpdate DEF TransportTypes, Later
<1>2. ASSUME NEW y \in Conns, tr'[y].made, ~tr'[y].closing
      PROVE  /\ tr[y].made /\ ~tr[y].closing
             /\ tr'[y].fd = tr[y].fd /\ tr'[y].paused = tr[y].paused
  BY <1>1, <1>2 DEF Later
<1> QED
  BY <1>2 DEF PauseInSync

\* A connection that is open has its descriptor to itself.
LEMMA OpenOwnsFd ==
    ASSUME PauseInSync, NEW x \in Conns, NEW y \in Conns,
           tr[x].made, ~tr[x].closing, tr[y].made, ~tr[y].closing, tr[x].fd = tr[y].fd
    PROVE  x = y
  BY DEF PauseInSync

\* pause_reading and resume_reading change both flags alike, every other step
\* neither.
LEMMA PauseInSyncStep ==
    ASSUME TypeInv, TransportTypes, MadeFirst, PauseInSync, TransportNext
    PROVE  PauseInSync'
<1>0. /\ tr \in [Conns -> Records]
      /\ \A x \in Conns : tr[x] \in Records
      /\ \A x \in Conns : tr[x].made => tr[x].fd \in Fds
      /\ fdState \in [Fds -> FdStates]
      /\ TypeOK
  BY DEF TransportTypes, MadeFirst, TypeInv, TypeOK
<1>1. ASSUME UNCHANGED <<tr, transports, fdState>> PROVE PauseInSync'
  BY <1>1 DEF PauseInSync
<1>2. ASSUME NEW x \in Conns, NEW fd \in Fds, Connect(x, fd) PROVE PauseInSync'
  <2>1. \A y \in Conns : tr'[y] = IF y = x THEN [NoTransport EXCEPT !.made = TRUE, !.fd = fd]
                                           ELSE tr[y]
    BY <1>0, <1>2 DEF Connect
  <2>2. /\ transports' = [transports EXCEPT ![fd] = x]
        /\ fdState' = [fdState EXCEPT ![fd] = NewFdState]
        /\ \A y \in Conns : transports[fd] = y => tr[y].closing
    BY <1>2 DEF Connect, RegisterFd
  <2>3. transports \in [Fds -> Conns \cup {None}]
    BY DEF TransportTypes
  <2>4. ASSUME NEW y \in Conns, tr'[y].made, ~tr'[y].closing
        PROVE  /\ transports'[tr'[y].fd] = y
               /\ fdState'[tr'[y].fd].registered
               /\ fdState'[tr'[y].fd].paused = tr'[y].paused
    <3>1. CASE y = x
      <4>1. tr'[y].fd = fd /\ tr'[y].paused = FALSE
        BY <2>1, <3>1 DEF NoTransport
      <4> QED
        BY <1>0, <2>2, <2>3, <3>1, <4>1 DEF NewFdState
    <3>2. CASE y # x
      <4>1. tr'[y] = tr[y]
        BY <2>1, <3>2
      <4>2. /\ transports[tr[y].fd] = y /\ tr[y].fd \in Fds
            /\ fdState[tr[y].fd].registered
            /\ fdState[tr[y].fd].paused = tr[y].paused
        BY <1>0, <2>4, <4>1 DEF PauseInSync
      <4>3. tr[y].fd # fd
        BY <2>2, <2>4, <4>1, <4>2
      <4> QED
        BY <1>0, <2>2, <2>3, <4>1, <4>2, <4>3
    <3> QED
      BY <3>1, <3>2
  <2> QED
    BY <2>4 DEF PauseInSync
<1>3. ASSUME NEW x \in Conns, NEW c \in Calls, Rearm(x, c) \/ Write(x, c) PROVE PauseInSync'
  <2>1. tr[x].made /\ tr[x].fd \in Fds
    BY <1>0, <1>3 DEF Rearm, Write, AppRuns, MadeFirst, Unknown
  <2>2. PICK kind \in {"recv", "send"} : Submit(c, tr[x].fd, kind)
    BY <1>3, <2>1, RearmIsSubmit, WriteIsSubmit
  <2>3. \A fd \in Fds : /\ fdState'[fd].registered = fdState[fd].registered
                        /\ fdState'[fd].paused = fdState[fd].paused
    BY <1>0, <2>1, <2>2, SubmitKeepsPaused
  <2>4. PICK u : tr' = [tr EXCEPT ![x] = u] /\ Later(tr[x], u)
    <3>1. CASE tr' = [tr EXCEPT ![x] = ForceClosed(tr[x])]
      BY <1>0, <3>1, RecordUpdates
    <3>2. CASE tr' = [tr EXCEPT ![x] = [tr[x] EXCEPT !.recvPending = TRUE]]
      BY <1>0, <3>2, ClearPending
    <3>3. CASE Write(x, c)
      BY <1>0, <3>3, WriteIs, ZenonT(60)
    <3> QED
      BY <1>3, <3>1, <3>2, <3>3 DEF Rearm, RearmOk, RearmError
  <2>5. transports' = transports
    BY <1>3 DEF Rearm, Write
  <2> QED
    BY <1>0, <2>3, <2>4, <2>5, SyncUpdate
<1>4. ASSUME NEW x \in Conns, PauseReading(x) \/ ResumeReading(x) PROVE PauseInSync'
  <2>1. tr[x].made /\ ~tr[x].closing /\ transports' = transports
    BY <1>4 DEF PauseReading, ResumeReading, AppRuns
  <2>2. PICK p \in BOOLEAN :
           /\ tr' = [tr EXCEPT ![x] = [tr[x] EXCEPT !.paused = p]]
           /\ \/ fdState' = [fdState EXCEPT ![tr[x].fd].paused = p]
              \/ fdState' = fdState /\ p = FALSE /\ ~tr[x].paused
    BY <1>4 DEF PauseReading, ResumeReading, ResumeEngine, SetPaused, vars
  <2>3. \A y \in Conns : tr'[y] = IF y = x THEN [tr[x] EXCEPT !.paused = p] ELSE tr[y]
    BY <1>0, <2>2
  <2>4. /\ [tr[x] EXCEPT !.paused = p].made = tr[x].made
        /\ [tr[x] EXCEPT !.paused = p].fd = tr[x].fd
        /\ [tr[x] EXCEPT !.paused = p].paused = p
        /\ [tr[x] EXCEPT !.paused = p].closing = tr[x].closing
    BY <1>0 DEF Records
  <2>5. /\ tr[x].fd \in Fds
        /\ fdState[tr[x].fd].registered
        /\ fdState[tr[x].fd].paused = tr[x].paused
        /\ fdState[tr[x].fd] \in FdStates
        /\ tr[x].paused \in BOOLEAN
    BY <1>0, <2>1 DEF PauseInSync, Records
  <2>6. /\ \A fd \in Fds : fd # tr[x].fd => fdState'[fd] = fdState[fd]
        /\ fdState'[tr[x].fd].registered
        /\ fdState'[tr[x].fd].paused = p
    BY <1>0, <2>2, <2>5 DEF FdStates
  <2>7. ASSUME NEW y \in Conns, tr'[y].made, ~tr'[y].closing
        PROVE  /\ transports'[tr'[y].fd] = y
               /\ fdState'[tr'[y].fd].registered
               /\ fdState'[tr'[y].fd].paused = tr'[y].paused
    <3>1. CASE y = x
      BY <2>1, <2>3, <2>4, <2>6, <3>1, ZenonT(60) DEF PauseInSync
    <3>2. CASE y # x
      <4>1. tr'[y] = tr[y] /\ tr[y].fd \in Fds
        BY <1>0, <2>3, <2>7, <3>2
      <4>2. tr[y].fd # tr[x].fd
        BY <2>1, <2>7, <3>2, <4>1, OpenOwnsFd
      <4> QED
        BY <2>1, <2>6, <2>7, <4>1, <4>2 DEF PauseInSync
    <3> QED
      BY <3>1, <3>2
  <2> QED
    BY <2>7 DEF PauseInSync
<1>5. ASSUME NEW x \in Conns, Close(x) \/ Abort(x) PROVE PauseInSync'
  <2>1. tr' = [tr EXCEPT ![x] = ForceClosed(tr[x])] \/ tr' = [tr EXCEPT ![x] = Closed(tr[x])]
    BY <1>5 DEF Close, Abort
  <2>2. PICK u : tr' = [tr EXCEPT ![x] = u] /\ Later(tr[x], u)
    BY <1>0, <2>1, RecordUpdates
  <2>3. UNCHANGED <<transports, fdState>>
    BY <1>5 DEF Close, Abort, vars
  <2> QED
    BY <1>0, <2>2, <2>3, SyncUpdate
<1>6. ASSUME NEW x \in Conns, NEW c \in Calls, OnRecvComplete(x, c) PROVE PauseInSync'
  <2>1. PICK t \in Records : /\ t = [tr[x] EXCEPT !.recvPending = FALSE]
                             /\ Later(tr[x], t)
    BY <1>0, ClearPending DEF Later
  <2>2. \/ tr' = [tr EXCEPT ![x] = t]
        \/ tr' = [tr EXCEPT ![x] = ForceClosed(t)]
        \/ \E keepOpen \in BOOLEAN : tr' = [tr EXCEPT ![x] = EofReceived(t, keepOpen)]
    BY <1>6, <2>1 DEF OnRecvComplete
  <2>3. Later(t, ForceClosed(t)) /\ \A k \in BOOLEAN : Later(t, EofReceived(t, k))
    BY RecordUpdates
  <2>4. Later(tr[x], ForceClosed(t)) /\ \A k \in BOOLEAN : Later(tr[x], EofReceived(t, k))
    BY <2>1, <2>3, LaterTrans
  <2>5. PICK u : tr' = [tr EXCEPT ![x] = u] /\ Later(tr[x], u)
    BY <2>1, <2>2, <2>4
  <2>6. UNCHANGED <<transports, fdState>>
    BY <1>6 DEF OnRecvComplete, vars
  <2> QED
    BY <1>0, <2>5, <2>6, SyncUpdate
<1>7. ASSUME NEW x \in Conns, NEW c \in Calls, OnWriteComplete(x, c) PROVE PauseInSync'
  <2>1. \/ tr' = tr
        \/ tr' = [tr EXCEPT ![x] = SendCompleted(tr[x], 1)]
        \/ tr' = [tr EXCEPT ![x] = ForceClosed(tr[x])]
    BY <1>7 DEF OnWriteComplete
  <2>2. PICK u : (tr' = tr \/ tr' = [tr EXCEPT ![x] = u]) /\ Later(tr[x], u)
    BY <1>0, <2>1, RecordUpdates
  <2>3. UNCHANGED <<transports, fdState>>
    BY <1>7 DEF OnWriteComplete, vars
  <2> QED
    BY <1>0, <2>2, <2>3, SyncUpdate
<1>8. ASSUME NEW x \in Conns, CallConnectionLost(x) PROVE PauseInSync'
  <2>1. \A y \in Conns : tr'[y] = IF y = x THEN [tr[x] EXCEPT !.lost = @ + 1] ELSE tr[y]
    BY <1>0, <1>8 DEF CallConnectionLost
  <2>2. /\ [tr[x] EXCEPT !.lost = @ + 1].made = tr[x].made
        /\ [tr[x] EXCEPT !.lost = @ + 1].fd = tr[x].fd
        /\ [tr[x] EXCEPT !.lost = @ + 1].paused = tr[x].paused
        /\ [tr[x] EXCEPT !.lost = @ + 1].closing = tr[x].closing
    BY <1>0 DEF Records
  <2>3. UNCHANGED <<transports, fdState>>
    BY <1>8 DEF CallConnectionLost, vars
  <2>4. \A y \in Conns : /\ tr'[y].made = tr[y].made /\ tr'[y].fd = tr[y].fd
                         /\ tr'[y].paused = tr[y].paused /\ tr'[y].closing = tr[y].closing
    BY <2>1, <2>2
  <2> QED
    BY <2>3, <2>4 DEF PauseInSync
<1>9. CASE HandleRecv \/ HandleSend
  <2> DEFINE x == transports[Head(todo).fd]
  <2>1. x \in Conns \cup {None}
    BY <1>9, HandlingTypes, ZenonT(60) DEF HandleRecv, HandleSend
  <2>2. \/ tr' = tr
        \/ tr' = [tr EXCEPT ![x] = ForceClosed(tr[x])]
        \/ tr' = [tr EXCEPT ![x] = SendCompleted(tr[x], 1)]
        \/ \E keepOpen \in BOOLEAN : tr' = [tr EXCEPT ![x] = EofReceived(tr[x], keepOpen)]
    BY <1>9, ZenonT(60) DEF HandleRecv, HandleSend
  <2>3. UNCHANGED <<transports, fdState>>
    BY <1>9, ZenonT(60) DEF HandleRecv, HandleSend, vars
  <2> HIDE DEF x
  <2>4. PICK u : (tr' = tr \/ tr' = [tr EXCEPT ![x] = u]) /\ (x \in Conns => Later(tr[x], u))
    <3>1. CASE x \notin Conns
      BY <2>2, <3>1
    <3>2. CASE x \in Conns
      <4>1. /\ Later(tr[x], ForceClosed(tr[x])) /\ Later(tr[x], SendCompleted(tr[x], 1))
            /\ \A k \in BOOLEAN : Later(tr[x], EofReceived(tr[x], k))
        BY <1>0, <3>2, RecordUpdates
      <4> QED
        BY <2>2, <4>1
    <3> QED
      BY <3>1, <3>2
  <2> QED
    BY <1>0, <2>1, <2>3, <2>4, SyncUpdate
<1> QED
  BY <1>1, <1>2, <1>3, <1>4, <1>5, <1>6, <1>7, <1>8, <1>9
  DEF TransportNext, Tick, RunTick, EndBatch, EndProcess, Kernel, KernelComplete,
      RearmSkipped, RearmBeyondBound, vars

----------------------------------------------------------------------------
(***************************************************************************)
(* connection_lost.  The invariant says it of a queue of callbacks and a   *)
(* table of transports: the call of a connection is queued at most once,   *)
(* and it is queued or has run exactly when _force_close ran.              *)
(***************************************************************************)
LostCall(x) == Callback("connLost", x, None)
Holds(q, e) == \E i \in 1..Len(q) : q[i] = e
HoldsOnce(q, e) == \A i, j \in 1..Len(q) : q[i] = e /\ q[j] = e => i = j

LostOn(q, table) ==
    \A x \in Conns :
        /\ HoldsOnce(q, LostCall(x))
        /\ Holds(q, LostCall(x)) => table[x].closed /\ table[x].lost = 0
        /\ ~Holds(q, LostCall(x)) => table[x].lost = IF table[x].closed THEN 1 ELSE 0

LostOnce == LostOn(batch \o ready, tr)

\* Appending other callbacks, or working off another one, leaves the call
\* where it is.
LEMMA HoldsAfter ==
    ASSUME NEW q \in Seq(Callbacks), NEW e
    PROVE  /\ \A t \in Seq(Callbacks) : ~Holds(t, e) =>
                 /\ Holds(q \o t, e) <=> Holds(q, e)
                 /\ HoldsOnce(q, e) => HoldsOnce(q \o t, e)
           /\ q # <<>> /\ Head(q) # e =>
                 /\ Holds(Tail(q), e) <=> Holds(q, e)
                 /\ HoldsOnce(q, e) => HoldsOnce(Tail(q), e)
           /\ q # <<>> /\ Head(q) = e /\ HoldsOnce(q, e) =>
                 ~Holds(Tail(q), e) /\ HoldsOnce(Tail(q), e)
           /\ ~Holds(q, e) => Holds(q \o <<e>>, e) /\ HoldsOnce(q \o <<e>>, e)
<1>1. ASSUME NEW t \in Seq(Callbacks), ~Holds(t, e)
      PROVE  /\ Holds(q \o t, e) <=> Holds(q, e)
             /\ HoldsOnce(q, e) => HoldsOnce(q \o t, e)
  <2>1. ASSUME NEW i \in 1..Len(q \o t), (q \o t)[i] = e
        PROVE  i \in 1..Len(q) /\ q[i] = e
    <3>1. i \in 1..Len(q)
      <4> SUFFICES ASSUME i \notin 1..Len(q) PROVE FALSE
        OBVIOUS
      <4>1. i - Len(q) \in 1..Len(t) /\ t[i - Len(q)] = e
        BY <2>1
      <4> QED
        BY <1>1, <4>1 DEF Holds
    <3> QED
      BY <2>1, <3>1
  <2>2. ASSUME NEW i \in 1..Len(q) PROVE i \in 1..Len(q \o t) /\ (q \o t)[i] = q[i]
    OBVIOUS
  <2>3. Holds(q \o t, e) <=> Holds(q, e)
    BY <2>1, <2>2 DEF Holds
  <2>4. HoldsOnce(q, e) => HoldsOnce(q \o t, e)
    BY <2>1 DEF HoldsOnce
  <2> QED
    BY <2>3, <2>4
<1>2. ASSUME q # <<>> PROVE /\ q[1] = Head(q) /\ 1 \in 1..Len(q)
                            /\ \A i \in 1..Len(Tail(q)) : i + 1 \in 1..Len(q) /\ Tail(q)[i] = q[i + 1]
                            /\ \A i \in 1..Len(q) : i # 1 => i - 1 \in 1..Len(Tail(q)) /\ Tail(q)[i - 1] = q[i]
  BY <1>2
<1>3. ASSUME q # <<>>, Head(q) # e
      PROVE  /\ Holds(Tail(q), e) <=> Holds(q, e)
             /\ HoldsOnce(q, e) => HoldsOnce(Tail(q), e)
  <2>1. Holds(Tail(q), e) <=> Holds(q, e)
    BY <1>2, <1>3 DEF Holds
  <2>2. HoldsOnce(q, e) => HoldsOnce(Tail(q), e)
    BY <1>2, <1>3 DEF HoldsOnce
  <2> QED
    BY <2>1, <2>2
<1>4. ASSUME q # <<>>, Head(q) = e, HoldsOnce(q, e)
      PROVE  ~Holds(Tail(q), e) /\ HoldsOnce(Tail(q), e)
  <2>1. ASSUME NEW i \in 1..Len(Tail(q)), Tail(q)[i] = e PROVE FALSE
    <3>1. i + 1 \in 1..Len(q) /\ q[i + 1] = e /\ 1 \in 1..Len(q) /\ q[1] = e
      BY <1>2, <1>4, <2>1
    <3>2. i + 1 = 1
      BY <1>4, <3>1 DEF HoldsOnce
    <3>3. i \in Nat \ {0}
      OBVIOUS
    <3> QED
      BY <3>2, <3>3
  <2> QED
    BY <2>1 DEF Holds, HoldsOnce
<1>5. ASSUME ~Holds(q, e) PROVE Holds(q \o <<e>>, e) /\ HoldsOnce(q \o <<e>>, e)
  <2>1. /\ Len(q \o <<e>>) = Len(q) + 1
        /\ (q \o <<e>>)[Len(q) + 1] = e
        /\ \A i \in 1..Len(q) : (q \o <<e>>)[i] = q[i]
        /\ Len(q) \in Nat
    OBVIOUS
  <2> QED
    BY <1>5, <2>1 DEF Holds, HoldsOnce
<1> QED
  BY <1>1, <1>3, <1>4, <1>5

\* The two queues as one.
LEMMA QueueAlgebra ==
    ASSUME NEW b \in Seq(Callbacks), NEW r \in Seq(Callbacks)
    PROVE  /\ b \o r \in Seq(Callbacks)
           /\ \A t \in Seq(Callbacks) : b \o (r \o t) = (b \o r) \o t
           /\ \A cb \in Callbacks : Append(r, cb) = r \o <<cb>>
           /\ b # <<>> => /\ Tail(b) \o r = Tail(b \o r)
                          /\ b \o r # <<>> /\ Head(b \o r) = Head(b)
           /\ <<>> \o r = r /\ r \o <<>> = r
<1>1. b \o r \in Seq(Callbacks)
  OBVIOUS
<1>2. \A t \in Seq(Callbacks) : b \o (r \o t) = (b \o r) \o t
  BY ConcatAssociative, SMTT(60)
<1>3. \A cb \in Callbacks : Append(r, cb) = r \o <<cb>>
  BY AppendIsConcat
<1>4. b # <<>> => /\ Tail(b) \o r = Tail(b \o r)
                  /\ b \o r # <<>> /\ Head(b \o r) = Head(b)
  <2> SUFFICES ASSUME b # <<>>
               PROVE  /\ Tail(b) \o r = Tail(b \o r)
                      /\ b \o r # <<>> /\ Head(b \o r) = Head(b)
    OBVIOUS
  <2>1. Len(b) \in Nat /\ Len(b) > 0 /\ Len(r) \in Nat
    OBVIOUS
  <2>2. Len(b \o r) = Len(b) + Len(r) /\ b \o r # <<>> /\ Head(b \o r) = Head(b)
    BY <2>1
  <2>3. /\ Tail(b) \in Seq(Callbacks) /\ Len(Tail(b)) = Len(b) - 1
        /\ \A i \in 1..Len(Tail(b)) : Tail(b)[i] = b[i + 1]
    BY <2>1
  <2>4. /\ Tail(b \o r) \in Seq(Callbacks) /\ Len(Tail(b \o r)) = Len(b) + Len(r) - 1
        /\ \A i \in 1..Len(Tail(b \o r)) : Tail(b \o r)[i] = (b \o r)[i + 1]
    BY <1>1, <2>1, <2>2, HeadTailProperties
  <2>5. /\ Tail(b) \o r \in Seq(Callbacks) /\ Len(Tail(b) \o r) = Len(b) - 1 + Len(r)
        /\ \A i \in 1..Len(Tail(b) \o r) :
              (Tail(b) \o r)[i] = IF i <= Len(b) - 1 THEN Tail(b)[i] ELSE r[i - (Len(b) - 1)]
    BY <2>1, <2>3, ConcatProperties
  <2>6. \A i \in 1..(Len(b) + Len(r)) :
           (b \o r)[i] = IF i <= Len(b) THEN b[i] ELSE r[i - Len(b)]
    BY ConcatProperties
  <2>7. ASSUME NEW i \in 1..Len(Tail(b) \o r) PROVE (Tail(b) \o r)[i] = Tail(b \o r)[i]
    <3>1. i \in 1..(Len(b) + Len(r) - 1) /\ i + 1 \in 1..(Len(b) + Len(r))
      BY <2>1, <2>5
    <3>2. Tail(b \o r)[i] = IF i + 1 <= Len(b) THEN b[i + 1] ELSE r[i + 1 - Len(b)]
      BY <2>1, <2>4, <2>6, <3>1
    <3>3. CASE i <= Len(b) - 1
      BY <2>1, <2>3, <2>5, <3>1, <3>2, <3>3
    <3>4. CASE ~(i <= Len(b) - 1)
      <4>1. i - (Len(b) - 1) = i + 1 - Len(b)
        BY <2>1, <3>1
      <4> QED
        BY <2>1, <2>5, <3>1, <3>2, <3>4, <4>1
    <3> QED
      BY <3>3, <3>4
  <2>8. Len(Tail(b) \o r) = Len(Tail(b \o r))
    BY <2>1, <2>4, <2>5
  <2>9. Tail(b) \o r = Tail(b \o r)
    BY <2>4, <2>5, <2>7, <2>8, SeqEqual
  <2> QED
    BY <2>2, <2>9
<1>5. <<>> \o r = r /\ r \o <<>> = r
  BY ConcatEmptySeq
<1> QED
  BY <1>1, <1>2, <1>3, <1>4, <1>5

\* Callbacks other than connection_lost come and go.
LEMMA LostOther ==
    ASSUME NEW q \in Seq(Callbacks), NEW u, NEW v, LostOn(q, u),
           \A x \in Conns : v[x].closed = u[x].closed /\ v[x].lost = u[x].lost
    PROVE  /\ LostOn(q, v)
           /\ q # <<>> /\ Head(q).what # "connLost" => LostOn(Tail(q), v)
           /\ \A t \in Seq(Callbacks) :
                 (\A i \in 1..Len(t) : t[i].what # "connLost") => LostOn(q \o t, v)
<1>0. \A x : LostCall(x).what = "connLost"
  BY DEF LostCall, Callback
<1>1. LostOn(q, v)
  BY DEF LostOn
<1>2. ASSUME q # <<>>, Head(q).what # "connLost" PROVE LostOn(Tail(q), v)
  <2> SUFFICES ASSUME NEW x \in Conns
               PROVE  /\ HoldsOnce(Tail(q), LostCall(x))
                      /\ Holds(Tail(q), LostCall(x)) <=> Holds(q, LostCall(x))
    BY <1>1 DEF LostOn
  <2>1. Head(q) # LostCall(x)
    BY <1>0, <1>2
  <2>2. HoldsOnce(q, LostCall(x))
    BY DEF LostOn
  <2> QED
    BY <1>2, <2>1, <2>2, HoldsAfter
<1>3. ASSUME NEW t \in Seq(Callbacks), \A i \in 1..Len(t) : t[i].what # "connLost"
      PROVE  LostOn(q \o t, v)
  <2> SUFFICES ASSUME NEW x \in Conns
               PROVE  /\ HoldsOnce(q \o t, LostCall(x))
                      /\ Holds(q \o t, LostCall(x)) <=> Holds(q, LostCall(x))
    BY <1>1 DEF LostOn
  <2>1. ~Holds(t, LostCall(x))
    BY <1>0, <1>3 DEF Holds
  <2>2. HoldsOnce(q, LostCall(x))
    BY DEF LostOn
  <2> QED
    BY <2>1, <2>2, HoldsAfter
<1> QED
  BY <1>1, <1>2, <1>3

\* _force_close schedules the call unless it was scheduled before.
LEMMA LostForced ==
    ASSUME NEW q \in Seq(Callbacks), LostOn(q, tr), NEW x \in Conns \cup {None}, NEW v,
           x \in Conns => v[x].closed /\ v[x].lost = tr[x].lost,
           \A y \in Conns : y # x => v[y].closed = tr[y].closed /\ v[y].lost = tr[y].lost
    PROVE  LostOn(q \o LostCallback(x), v)
<1>0. \A y, z : LostCall(y) = LostCall(z) => y = z
  <2>1. \A y : LostCall(y).conn = y
    BY DEF LostCall, Callback
  <2> QED
    BY <2>1
<1>1. LostCallback(x) = IF tr[x].closed THEN <<>> ELSE <<LostCall(x)>>
  BY DEF LostCallback, LostCall
<1>2. LostCall(x) \in Callbacks
  BY DEF LostCall, Callback, Callbacks
<1> SUFFICES ASSUME NEW y \in Conns
             PROVE  LET p == q \o LostCallback(x) IN
                    /\ HoldsOnce(p, LostCall(y))
                    /\ Holds(p, LostCall(y)) => v[y].closed /\ v[y].lost = 0
                    /\ ~Holds(p, LostCall(y)) => v[y].lost = IF v[y].closed THEN 1 ELSE 0
  BY DEF LostOn
<1>3. /\ HoldsOnce(q, LostCall(y))
      /\ Holds(q, LostCall(y)) => tr[y].closed /\ tr[y].lost = 0
      /\ ~Holds(q, LostCall(y)) => tr[y].lost = IF tr[y].closed THEN 1 ELSE 0
  BY DEF LostOn
<1>4. CASE tr[x].closed
  <2>1. q \o LostCallback(x) = q
    BY <1>1, <1>4, ConcatEmptySeq
  <2> QED
    BY <1>3, <1>4, <2>1
<1>5. CASE ~tr[x].closed
  <2>0. LostCallback(x) = <<LostCall(x)>> /\ <<LostCall(x)>> \in Seq(Callbacks)
    BY <1>1, <1>2, <1>5
  <2>1. CASE y = x
    <3>1. ~Holds(q, LostCall(y)) /\ tr[y].lost = 0
      BY <1>3, <1>5, <2>1
    <3>2. Holds(q \o <<LostCall(y)>>, LostCall(y)) /\ HoldsOnce(q \o <<LostCall(y)>>, LostCall(y))
      BY <3>1, HoldsAfter
    <3> QED
      BY <2>0, <2>1, <3>1, <3>2
  <2>2. CASE y # x
    <3>1. ~Holds(<<LostCall(x)>>, LostCall(y))
      BY <1>0, <2>2 DEF Holds
    <3>2. /\ Holds(q \o <<LostCall(x)>>, LostCall(y)) <=> Holds(q, LostCall(y))
          /\ HoldsOnce(q \o <<LostCall(x)>>, LostCall(y))
      BY <1>3, <2>0, <3>1, HoldsAfter
    <3> QED
      BY <1>3, <2>0, <2>2, <3>2
  <2> QED
    BY <2>1, <2>2
<1> QED
  BY <1>4, <1>5

\* _call_connection_lost runs the only call there is.
LEMMA LostRuns ==
    ASSUME NEW q \in Seq(Callbacks), q # <<>>, LostOn(q, tr), NEW x \in Conns,
           Head(q) = LostCall(x), NEW v,
           v[x].closed = tr[x].closed /\ v[x].lost = tr[x].lost + 1,
           \A y \in Conns : y # x => v[y].closed = tr[y].closed /\ v[y].lost = tr[y].lost
    PROVE  LostOn(Tail(q), v)
<1>0. \A y, z : LostCall(y) = LostCall(z) => y = z
  <2>1. \A y : LostCall(y).conn = y
    BY DEF LostCall, Callback
  <2> QED
    BY <2>1
<1> SUFFICES ASSUME NEW y \in Conns
             PROVE  /\ HoldsOnce(Tail(q), LostCall(y))
                    /\ Holds(Tail(q), LostCall(y)) => v[y].closed /\ v[y].lost = 0
                    /\ ~Holds(Tail(q), LostCall(y)) => v[y].lost = IF v[y].closed THEN 1 ELSE 0
  BY DEF LostOn
<1>3. /\ HoldsOnce(q, LostCall(y))
      /\ Holds(q, LostCall(y)) => tr[y].closed /\ tr[y].lost = 0
      /\ ~Holds(q, LostCall(y)) => tr[y].lost = IF tr[y].closed THEN 1 ELSE 0
  BY DEF LostOn
<1>4. CASE y = x
  <2>1. Holds(q, LostCall(y))
    <3>1. 1 \in 1..Len(q) /\ q[1] = Head(q)
      OBVIOUS
    <3> QED
      BY <1>4, <3>1 DEF Holds
  <2>2. ~Holds(Tail(q), LostCall(y)) /\ HoldsOnce(Tail(q), LostCall(y))
    BY <1>3, <1>4, HoldsAfter
  <2> QED
    BY <1>3, <1>4, <2>1, <2>2
<1>5. CASE y # x
  <2>1. Head(q) # LostCall(y)
    BY <1>0, <1>5
  <2>2. /\ Holds(Tail(q), LostCall(y)) <=> Holds(q, LostCall(y))
        /\ HoldsOnce(Tail(q), LostCall(y))
    BY <1>3, <2>1, HoldsAfter
  <2> QED
    BY <1>3, <1>5, <2>2
<1> QED
  BY <1>4, <1>5

\* The flags that matter here, after an update of one record.
LEMMA LostUpdate ==
    ASSUME TransportTypes, NEW x \in Conns \cup {None}, NEW u,
           x \in Conns => Later(tr[x], u),
           tr' = [tr EXCEPT ![x] = u]
    PROVE  /\ x \in Conns => tr'[x].closed = u.closed /\ tr'[x].lost = tr[x].lost
           /\ \A y \in Conns : y # x => /\ tr'[y].closed = tr[y].closed
                                        /\ tr'[y].lost = tr[y].lost
  BY TableUpdate DEF TransportTypes, Later

\* Callbacks that run, and completions that are handled.
LEMMA LostHandler ==
    ASSUME TypeInv, TransportTypes, LostOnce,
           \/ \E x \in Conns, c \in Calls : OnRecvComplete(x, c) \/ OnWriteComplete(x, c)
           \/ \E x \in Conns : CallConnectionLost(x)
           \/ HandleRecv \/ HandleSend
    PROVE  LostOnce'
<1> DEFINE q == batch \o ready
<1>0. /\ ready \in Seq(Callbacks) /\ batch \in Seq(Callbacks)
      /\ tr \in [Conns -> Records]
      /\ \A x \in Conns : tr[x] \in Records
      /\ q \in Seq(Callbacks)
      /\ LostOn(q, tr)
  BY QueueAlgebra DEF TransportTypes, LostOnce
<1>1. ASSUME NEW x, NEW c, NEW what, Running(what, x, c)
      PROVE  /\ q # <<>> /\ Head(q) = Callback(what, x, c)
             /\ batch' \in Seq(Callbacks)
             /\ batch' \o ready = Tail(q)
             /\ Tail(q) \in Seq(Callbacks)
  <2>1. batch # <<>> /\ batch' = Tail(batch) /\ Head(batch) = Callback(what, x, c)
    BY <1>1 DEF Running
  <2>2. q # <<>> /\ Head(q) = Callback(what, x, c) /\ batch' \o ready = Tail(q)
    BY <1>0, <2>1, QueueAlgebra, ZenonT(60)
  <2>3. batch' \in Seq(Callbacks) /\ Tail(q) \in Seq(Callbacks)
    BY <1>0, <2>1, <2>2, HeadTailProperties
  <2> QED
    BY <2>2, <2>3
<1>assoc. ASSUME NEW x \in Conns \cup {None}, NEW b \in Seq(Callbacks), b \o ready \in Seq(Callbacks)
      PROVE  b \o (ready \o LostCallback(x)) = (b \o ready) \o LostCallback(x)
  BY <1>0, <1>assoc, QueueAlgebra, LostCallbackType, SMTT(60)
<1> HIDE DEF q
<1>2. ASSUME NEW x \in Conns, NEW c \in Calls, NEW what \in {"recvDone", "writeDone"},
             Running(what, x, c), NEW u, Later(tr[x], u),
             tr' = [tr EXCEPT ![x] = u],
             \/ ready' = ready /\ u.closed = tr[x].closed
             \/ ready' = ready \o LostCallback(x) /\ u.closed
      PROVE  LostOnce'
  <2>1. Head(q).what # "connLost"
    BY <1>1, <1>2 DEF Callback
  <2>2. LostOn(Tail(q), tr) /\ Tail(q) \in Seq(Callbacks)
    BY <1>0, <1>1, <1>2, <2>1, LostOther
  <2>3. /\ tr'[x].closed = u.closed /\ tr'[x].lost = tr[x].lost
        /\ \A y \in Conns : y # x => tr'[y].closed = tr[y].closed /\ tr'[y].lost = tr[y].lost
    BY <1>2, LostUpdate
  <2>4. CASE ready' = ready /\ u.closed = tr[x].closed
    <3>1. \A y \in Conns : tr'[y].closed = tr[y].closed /\ tr'[y].lost = tr[y].lost
      BY <2>3, <2>4
    <3>2. LostOn(Tail(q), tr')
      BY <2>2, <3>1, LostOther
    <3> QED
      BY <1>1, <1>2, <2>4, <3>2 DEF LostOnce
  <2>5. CASE ready' = ready \o LostCallback(x) /\ u.closed
    <3>1. tr'[x].closed /\ tr'[x].lost = tr[x].lost
      BY <2>3, <2>5
    <3>2. LostOn(Tail(q) \o LostCallback(x), tr')
      <4> DEFINE p == Tail(q)
      <4>1. x \in Conns \cup {None}
        OBVIOUS
      <4>2. p \in Seq(Callbacks) /\ LostOn(p, tr)
        BY <2>2
      <4> HIDE DEF p
      <4>3. LostOn(p \o LostCallback(x), tr')
        BY <2>3, <3>1, <4>1, <4>2, LostForced
      <4> QED
        BY <4>3 DEF p
    <3>3. batch' \o ready' = Tail(q) \o LostCallback(x)
      <4>1. batch' \in Seq(Callbacks) /\ batch' \o ready = Tail(q)
        BY <1>1, <1>2
      <4> QED
        BY <1>assoc, <2>2, <2>5, <4>1
    <3> QED
      BY <3>2, <3>3 DEF LostOnce
  <2> QED
    BY <1>2, <2>4, <2>5
<1>3. ASSUME NEW x \in Conns, NEW c \in Calls, OnRecvComplete(x, c) PROVE LostOnce'
  <2>0. Running("recvDone", x, c)
    BY <1>3 DEF OnRecvComplete
  <2>1. PICK t \in Records : /\ t = [tr[x] EXCEPT !.recvPending = FALSE]
                             /\ Later(tr[x], t) /\ t.closed = tr[x].closed
    BY <1>0, ClearPending, ZenonT(60) DEF Later
  <2>2. \/ tr' = [tr EXCEPT ![x] = t] /\ ready' = ready
        \/ tr' = [tr EXCEPT ![x] = ForceClosed(t)] /\ ready' = ready \o LostCallback(x)
        \/ /\ \E keepOpen \in BOOLEAN : tr' = [tr EXCEPT ![x] = EofReceived(t, keepOpen)]
           /\ ready' = ready
    BY <1>3, <2>1 DEF OnRecvComplete
  <2>3. CASE tr' = [tr EXCEPT ![x] = t] /\ ready' = ready
    BY <1>2, <2>0, <2>1, <2>3
  <2>4. CASE tr' = [tr EXCEPT ![x] = ForceClosed(t)] /\ ready' = ready \o LostCallback(x)
    <3>1. Later(t, ForceClosed(t)) /\ ForceClosed(t).closed
      BY RecordUpdates
    <3>2. Later(tr[x], ForceClosed(t))
      BY <2>1, <3>1, LaterTrans
    <3> QED
      BY <1>2, <2>0, <2>4, <3>1, <3>2
  <2>5. ASSUME NEW k \in BOOLEAN, tr' = [tr EXCEPT ![x] = EofReceived(t, k)], ready' = ready
        PROVE  LostOnce'
    <3>1. Later(t, EofReceived(t, k)) /\ EofReceived(t, k).closed = t.closed
      BY RecordUpdates
    <3>2. Later(tr[x], EofReceived(t, k))
      BY <2>1, <3>1, LaterTrans
    <3> QED
      BY <1>2, <2>0, <2>1, <2>5, <3>1, <3>2
  <2> QED
    BY <2>2, <2>3, <2>4, <2>5
<1>4. ASSUME NEW x \in Conns, NEW c \in Calls, OnWriteComplete(x, c) PROVE LostOnce'
  <2>0. Running("writeDone", x, c)
    BY <1>4 DEF OnWriteComplete
  <2>1. \/ tr' = tr /\ ready' = ready
        \/ tr' = [tr EXCEPT ![x] = SendCompleted(tr[x], 1)] /\ ready' = ready
        \/ tr' = [tr EXCEPT ![x] = ForceClosed(tr[x])] /\ ready' = ready \o LostCallback(x)
    BY <1>4 DEF OnWriteComplete
  <2>2. /\ Later(tr[x], SendCompleted(tr[x], 1)) /\ SendCompleted(tr[x], 1).closed = tr[x].closed
        /\ Later(tr[x], ForceClosed(tr[x])) /\ ForceClosed(tr[x]).closed
    BY <1>0, RecordUpdates
  <2>3. CASE tr' = tr /\ ready' = ready
    <3>1. Later(tr[x], tr[x]) /\ tr' = [tr EXCEPT ![x] = tr[x]]
      BY <1>0, <2>3 DEF Later
    <3> QED
      BY <1>2, <2>0, <2>3, <3>1
  <2> QED
    BY <1>2, <2>0, <2>1, <2>2, <2>3
<1>5. ASSUME NEW x \in Conns, CallConnectionLost(x) PROVE LostOnce'
  <2>0. Running("connLost", x, None) /\ ready' = ready
    BY <1>5 DEF CallConnectionLost
  <2>1. \A y \in Conns : tr'[y] = IF y = x THEN [tr[x] EXCEPT !.lost = @ + 1] ELSE tr[y]
    BY <1>0, <1>5 DEF CallConnectionLost
  <2>2. /\ tr'[x].lost = tr[x].lost + 1
        /\ tr'[x].closed = tr[x].closed
    <3>1. /\ [tr[x] EXCEPT !.lost = @ + 1].lost = tr[x].lost + 1
          /\ [tr[x] EXCEPT !.lost = @ + 1].closed = tr[x].closed
      BY <1>0 DEF Records
    <3> QED
      BY <2>1, <3>1
  <2>3. Head(q) = LostCall(x)
    BY <1>1, <2>0 DEF LostCall
  <2>4. LostOn(Tail(q), tr')
    <3>1. q # <<>> /\ q \in Seq(Callbacks) /\ LostOn(q, tr)
      BY <1>0, <1>1, <2>0
    <3>2. \A y \in Conns : y # x => tr'[y].closed = tr[y].closed /\ tr'[y].lost = tr[y].lost
      BY <2>1
    <3> QED
      BY ONLY x \in Conns, <2>2, <2>3, <3>1, <3>2, LostRuns
  <2> QED
    BY <1>1, <2>0, <2>4 DEF LostOnce
<1>6. CASE HandleRecv
  <2> DEFINE r == Head(todo)
             x == transports[r.fd]
             f == ioFutures[r.fd]
             cb == Callback("recvDone", owner[f], f)
  <2>0. x \in Conns \cup {None} /\ r.fd \in Fds /\ batch' = batch
    BY <1>6, HandlingTypes, Zenon DEF HandleRecv
  <2>1. \/ tr' = tr /\ ready' = ready
        \/ tr' = tr /\ f # None /\ ready' = Append(ready, cb)
        \/ /\ \E keepOpen \in BOOLEAN : tr' = [tr EXCEPT ![x] = EofReceived(tr[x], keepOpen)]
           /\ ready' = ready
        \/ tr' = [tr EXCEPT ![x] = ForceClosed(tr[x])] /\ ready' = ready \o LostCallback(x)
    BY <1>6, Zenon DEF HandleRecv
  <2>2. f # None => cb \in Callbacks /\ cb.what # "connLost"
    <3> SUFFICES ASSUME f # None PROVE cb \in Callbacks /\ cb.what # "connLost"
      OBVIOUS
    <3>1. f \in Calls
      BY <2>0 DEF TransportTypes
    <3> QED
      BY <3>1 DEF Callback, Callbacks, TransportTypes
  <2>3. x \in Conns => tr[x] \in Records
    BY <1>0
  <2> HIDE DEF x, r, f, cb
  <2>4. CASE tr' = tr /\ ready' = ready
    BY <1>0, <2>0, <2>4 DEF LostOnce
  <2>5. CASE tr' = tr /\ f # None /\ ready' = Append(ready, cb)
    <3>1. batch' \o ready' = q \o <<cb>> /\ <<cb>> \in Seq(Callbacks)
      BY <1>0, <2>0, <2>2, <2>5, QueueAlgebra DEF q
    <3>2. \A i \in 1..Len(<<cb>>) : <<cb>>[i].what # "connLost"
      BY <2>2, <2>5
    <3>3. LostOn(q \o <<cb>>, tr)
      BY <1>0, <3>1, <3>2, LostOther
    <3> QED
      BY <2>5, <3>1, <3>3 DEF LostOnce
  <2>6. ASSUME NEW k \in BOOLEAN, tr' = [tr EXCEPT ![x] = EofReceived(tr[x], k)], ready' = ready
        PROVE  LostOnce'
    <3>1. x \in Conns => /\ Later(tr[x], EofReceived(tr[x], k))
                         /\ EofReceived(tr[x], k).closed = tr[x].closed
      BY <2>3, RecordUpdates
    <3>2. \A y \in Conns : tr'[y].closed = tr[y].closed /\ tr'[y].lost = tr[y].lost
      <4>1. CASE x \in Conns
        <5>1. /\ tr'[x].closed = EofReceived(tr[x], k).closed /\ tr'[x].lost = tr[x].lost
              /\ \A y \in Conns : y # x => tr'[y].closed = tr[y].closed /\ tr'[y].lost = tr[y].lost
          BY <2>6, <3>1, <4>1, LostUpdate
        <5> QED
          BY <3>1, <4>1, <5>1
      <4>2. CASE x \notin Conns
        BY <1>0, <2>6, <4>2
      <4> QED
        BY <4>1, <4>2
    <3>3. LostOn(q, tr')
      BY <1>0, <3>2, LostOther
    <3> QED
      BY <2>0, <2>6, <3>3 DEF LostOnce, q
  <2>7. CASE tr' = [tr EXCEPT ![x] = ForceClosed(tr[x])] /\ ready' = ready \o LostCallback(x)
    <3>1. x \in Conns => Later(tr[x], ForceClosed(tr[x])) /\ ForceClosed(tr[x]).closed
      BY <2>3, RecordUpdates
    <3>2. /\ x \in Conns => tr'[x].closed /\ tr'[x].lost = tr[x].lost
          /\ \A y \in Conns : y # x => tr'[y].closed = tr[y].closed /\ tr'[y].lost = tr[y].lost
      BY <2>0, <2>7, <3>1, LostUpdate
    <3>3. LostOn(q \o LostCallback(x), tr')
      BY <1>0, <2>0, <3>2, LostForced
    <3>4. batch' \o ready' = q \o LostCallback(x)
      BY <1>0, <1>assoc, <2>0, <2>7 DEF q
    <3> QED
      BY <3>3, <3>4 DEF LostOnce
  <2> QED
    BY <2>1, <2>4, <2>5, <2>6, <2>7
<1>7. CASE HandleSend
  <2> DEFINE x == transports[Head(todo).fd]
  <2>0. x \in Conns \cup {None} /\ batch' = batch /\ ready' = ready
    BY <1>7, HandlingTypes DEF HandleSend
  <2>1. tr' = tr \/ tr' = [tr EXCEPT ![x] = SendCompleted(tr[x], 1)]
    BY <1>7 DEF HandleSend
  <2>2. x \in Conns => tr[x] \in Records
    BY <1>0
  <2> HIDE DEF x
  <2>3. x \in Conns => /\ Later(tr[x], SendCompleted(tr[x], 1))
                       /\ SendCompleted(tr[x], 1).closed = tr[x].closed
    BY <2>2, RecordUpdates
  <2>4. \A y \in Conns : tr'[y].closed = tr[y].closed /\ tr'[y].lost = tr[y].lost
    BY <2>0, <2>1, <2>3, LostUpdate
  <2>5. LostOn(q, tr')
    BY <1>0, <2>4, LostOther
  <2> QED
    BY <2>0, <2>5 DEF LostOnce, q
<1> QED
  BY <1>3, <1>4, <1>5, <1>6, <1>7

\* What the application and the loop do.
LEMMA LostApp ==
    ASSUME TypeInv, TransportTypes, MadeFirst, BatchDone, LostOnce,
           \/ Tick \/ EndBatch \/ EndProcess
           \/ \E c \in Calls, res \in {"pos", "zero", "neg"} : Kernel(c, res)
           \/ \E x \in Conns, fd \in Fds : Connect(x, fd)
           \/ \E x \in Conns : RearmSkipped(x) \/ RearmBeyondBound(x)
           \/ \E x \in Conns, c \in Calls : Rearm(x, c) \/ Write(x, c)
           \/ \E x \in Conns : PauseReading(x) \/ ResumeReading(x) \/ Close(x) \/ Abort(x)
    PROVE  LostOnce'
<1> DEFINE q == batch \o ready
<1>0. /\ ready \in Seq(Callbacks) /\ batch \in Seq(Callbacks)
      /\ tr \in [Conns -> Records]
      /\ \A x \in Conns : tr[x] \in Records
      /\ q \in Seq(Callbacks)
      /\ LostOn(q, tr)
  BY QueueAlgebra DEF TransportTypes, LostOnce
<1>1. CASE Tick
  <2>1. PICK t \in Seq(Callbacks) :
           /\ batch' = ready \o t
           /\ \A i \in 1..Len(t) : \E c \in Calls : t[i] = DoneCallback(c)
    BY <1>1, TickBatch, ZenonT(60)
  <2>2. ready' = <<>> /\ tr' = tr /\ batch = <<>>
    BY <1>1, ZenonT(60) DEF Tick, BatchDone
  <2>3. q = ready
    BY <1>0, <2>2, QueueAlgebra
  <2>4. \A i \in 1..Len(t) : t[i].what # "connLost"
    BY <2>1, DoneCallbackType
  <2>5. LostOn(ready \o t, tr)
    BY <1>0, <2>3, <2>4, LostOther
  <2>6. ready \o t \in Seq(Callbacks)
    BY <1>0
  <2>7. batch' \o ready' = ready \o t
    BY <2>1, <2>2, <2>6, QueueAlgebra
  <2> QED
    BY <2>2, <2>5, <2>7 DEF LostOnce
<1>2. ASSUME UNCHANGED <<ready, batch>>,
             \A y \in Conns : tr'[y].closed = tr[y].closed /\ tr'[y].lost = tr[y].lost
      PROVE  LostOnce'
  <2>1. LostOn(q, tr')
    BY <1>0, <1>2, LostOther
  <2> QED
    BY <1>2, <2>1 DEF LostOnce
<1>12. ASSUME NEW x \in Conns, NEW u, tr' = [tr EXCEPT ![x] = u], Later(tr[x], u), u.closed,
              ready' = ready \o LostCallback(x), batch' = batch
       PROVE  LostOnce'
  <2>2. x \in Conns \cup {None}
    OBVIOUS
  <2>3. /\ tr'[x].closed /\ tr'[x].lost = tr[x].lost
        /\ \A y \in Conns : y # x => tr'[y].closed = tr[y].closed /\ tr'[y].lost = tr[y].lost
    BY <1>12, LostUpdate, ZenonT(60)
  <2>4. batch' \o ready' = q \o LostCallback(x)
    <3>1. LostCallback(x) \in Seq(Callbacks)
      BY <2>2, LostCallbackType, Zenon
    <3>2. \A t \in Seq(Callbacks) : batch \o (ready \o t) = (batch \o ready) \o t
      <4> HIDE DEF q
      <4> QED
        BY <1>0, QueueAlgebra, SMTT(60)
    <3>3. batch \o (ready \o LostCallback(x)) = (batch \o ready) \o LostCallback(x)
      BY <3>1, <3>2, Zenon
    <3> QED
      BY <1>12, <3>3, Zenon
  <2> HIDE DEF q
  <2>5. LostOn(q \o LostCallback(x), tr')
    BY <1>0, <2>2, <2>3, LostForced
  <2> QED
    BY <2>4, <2>5 DEF LostOnce
<1>3. ASSUME NEW x \in Conns, tr' = [tr EXCEPT ![x] = ForceClosed(tr[x])],
             ready' = ready \o LostCallback(x), batch' = batch
      PROVE  LostOnce'
  <2>1. Later(tr[x], ForceClosed(tr[x])) /\ ForceClosed(tr[x]).closed
    BY <1>0, RecordUpdates
  <2> QED
    BY <1>3, <1>12, <2>1
<1>4. ASSUME NEW x \in Conns, NEW u, tr' = [tr EXCEPT ![x] = u], Later(tr[x], u),
             u.closed = tr[x].closed, UNCHANGED <<ready, batch>>
      PROVE  LostOnce'
  <2>1. /\ tr'[x].closed = u.closed /\ tr'[x].lost = tr[x].lost
        /\ \A y \in Conns : y # x => tr'[y].closed = tr[y].closed /\ tr'[y].lost = tr[y].lost
    BY <1>4, LostUpdate
  <2>2. \A y \in Conns : tr'[y].closed = tr[y].closed /\ tr'[y].lost = tr[y].lost
    BY <1>4, <2>1
  <2> QED
    BY <1>2, <1>4, <2>2
<1>5. ASSUME NEW x \in Conns, NEW fd \in Fds, Connect(x, fd) PROVE LostOnce'
  <2>1. \A y \in Conns : tr'[y] = IF y = x THEN [NoTransport EXCEPT !.made = TRUE, !.fd = fd]
                                           ELSE tr[y]
    BY <1>0, <1>5 DEF Connect
  <2>2. tr[x] = NoTransport /\ UNCHANGED <<ready, batch>>
    BY <1>5 DEF Connect, MadeFirst
  <2>3. tr'[x].closed = tr[x].closed /\ tr'[x].lost = tr[x].lost
    BY <2>1, <2>2, ZenonT(60) DEF NoTransport
  <2> QED
    BY <1>2, <2>1, <2>2, <2>3
<1>6. ASSUME NEW x \in Conns, NEW c \in Calls, Rearm(x, c) PROVE LostOnce'
  <2>1. \/ /\ tr' = [tr EXCEPT ![x] = [tr[x] EXCEPT !.recvPending = TRUE]]
           /\ ready' = ready
        \/ /\ tr' = [tr EXCEPT ![x] = ForceClosed(tr[x])]
           /\ ready' = ready \o LostCallback(x)
    BY <1>6 DEF Rearm, RearmOk, RearmError
  <2>2. LET u == [tr[x] EXCEPT !.recvPending = TRUE] IN Later(tr[x], u) /\ u.closed = tr[x].closed
    BY <1>0, ClearPending
  <2>3. batch' = batch
    BY <1>6 DEF Rearm
  <2> QED
    BY <1>3, <1>4, <2>1, <2>2, <2>3
<1>7. ASSUME NEW x \in Conns, NEW c \in Calls, Write(x, c) PROVE LostOnce'
  <2>1. batch' = batch
    BY <1>7 DEF Write
  <2>2. PICK u : /\ tr' = [tr EXCEPT ![x] = u] /\ Later(tr[x], u)
                 /\ \/ ready' = ready /\ u.closed = tr[x].closed
                    \/ ready' = ready \o LostCallback(x) /\ u.closed
    BY <1>0, <1>7, WriteIs, ZenonT(60)
  <2> QED
    BY <1>4, <1>12, <2>1, <2>2
<1>8. ASSUME NEW x \in Conns, PauseReading(x) \/ ResumeReading(x) PROVE LostOnce'
  <2>1. PICK p \in BOOLEAN : tr' = [tr EXCEPT ![x] = [tr[x] EXCEPT !.paused = p]]
    BY <1>8 DEF PauseReading, ResumeReading
  <2>2. /\ [tr[x] EXCEPT !.paused = p].closed = tr[x].closed
        /\ [tr[x] EXCEPT !.paused = p].lost = tr[x].lost
    BY <1>0 DEF Records
  <2>3. \A y \in Conns : tr'[y] = IF y = x THEN [tr[x] EXCEPT !.paused = p] ELSE tr[y]
    BY <1>0, <2>1
  <2>4. UNCHANGED <<ready, batch>>
    BY <1>8 DEF PauseReading, ResumeReading
  <2> QED
    BY <1>2, <2>2, <2>3, <2>4
<1>9. ASSUME NEW x \in Conns, Close(x) PROVE LostOnce'
  <2>1. Later(tr[x], Closed(tr[x])) /\ Closed(tr[x]).closed = tr[x].closed
    BY <1>0, RecordUpdates
  <2> QED
    BY <1>4, <1>9, <2>1 DEF Close
<1>10. ASSUME NEW x \in Conns, Abort(x) PROVE LostOnce'
  BY <1>3, <1>10 DEF Abort
<1>11. CASE UNCHANGED <<tr, ready, batch>>
  BY <1>11 DEF LostOnce
<1> QED
  BY <1>1, <1>5, <1>6, <1>7, <1>8, <1>9, <1>10, <1>11
  DEF EndBatch, EndProcess, Kernel, RearmSkipped, RearmBeyondBound

\* What it says of cardinalities.
LEMMA LostOnceCounts ==
    ASSUME TransportTypes, LostOnce PROVE ConnectionLostOnce
<1> DEFINE q == batch \o ready
<1>1. q \in Seq(Callbacks)
  BY QueueAlgebra DEF TransportTypes
<1> SUFFICES ASSUME NEW x \in Conns
             PROVE  tr[x].lost + Cardinality({i \in DOMAIN q : q[i] = LostCall(x)})
                       = IF tr[x].closed THEN 1 ELSE 0
  BY DEF ConnectionLostOnce, LostCall
<1>2. /\ HoldsOnce(q, LostCall(x))
      /\ Holds(q, LostCall(x)) => tr[x].closed /\ tr[x].lost = 0
      /\ ~Holds(q, LostCall(x)) => tr[x].lost = IF tr[x].closed THEN 1 ELSE 0
  BY DEF LostOnce, LostOn
<1>3. tr[x].lost \in Nat
  BY DEF TransportTypes, Records
<1> DEFINE S == {i \in DOMAIN q : q[i] = LostCall(x)}
<1>4. DOMAIN q = 1..Len(q)
  BY <1>1
<1> HIDE DEF q
<1>5. CASE ~Holds(q, LostCall(x))
  <2>1. S = {}
    BY <1>4, <1>5 DEF Holds
  <2>2. Cardinality(S) = 0
    BY <2>1, FS_EmptySet
  <2> QED
    BY <1>2, <1>3, <1>5, <2>2
<1>6. CASE Holds(q, LostCall(x))
  <2>1. PICK i \in 1..Len(q) : q[i] = LostCall(x)
    BY <1>6 DEF Holds
  <2>2. S = {i}
    BY <1>2, <1>4, <2>1 DEF HoldsOnce
  <2>3. Cardinality(S) = 1
    BY <2>2, FS_Singleton
  <2> QED
    BY <1>2, <1>3, <1>6, <2>3
<1> QED
  BY <1>5, <1>6

----------------------------------------------------------------------------
(***************************************************************************)
(* The inductive invariant and what follows from it.                       *)
(***************************************************************************)
TransportInv ==
    /\ EngineInv
    /\ TransportTypes
    /\ MadeFirst
    /\ BatchDone
    /\ PauseInSync
    /\ LostOnce

\* It holds before the first connection.
LEMMA TransportInvInit == TransportInit => TransportInv
<1> SUFFICES ASSUME TransportInit PROVE TransportInv
  OBVIOUS
<1>1. EngineInv
  BY TypeInvInit, AccountingInit, ConstantsAssumption
  DEF TransportInit, EngineInv, Init, QueueInv, StoredFutureHasOperation
<1>2. TransportTypes
  <2>1. NoTransport \in Records
    BY DEF NoTransport, Records
  <2> QED
    BY <2>1 DEF TransportInit, TransportTypes
<1>3. \A x \in Conns : tr[x] = NoTransport
  BY DEF TransportInit
<1>4. MadeFirst
  <2>1. \A x \in Conns : Unknown(x)
    BY ConnsAreNot DEF TransportInit, Unknown, Mentions
  <2>2. \A x \in Conns : ~tr[x].made /\ ~tr[x].closed
    BY <1>3 DEF NoTransport
  <2> QED
    BY <1>3, <2>1, <2>2 DEF MadeFirst
<1>5. BatchDone
  BY DEF TransportInit, BatchDone
<1>6. PauseInSync
  BY <1>3 DEF PauseInSync, NoTransport
<1>7. LostOnce
  <2>1. batch \o ready = <<>>
    BY DEF TransportInit
  <2>2. \A e : ~Holds(<<>>, e) /\ HoldsOnce(<<>>, e)
    BY DEF Holds, HoldsOnce
  <2> QED
    BY <1>3, <2>1, <2>2 DEF LostOnce, LostOn, NoTransport
<1> QED
  BY <1>1, <1>2, <1>4, <1>5, <1>6, <1>7 DEF TransportInv

\* Every step of the loop, the kernel and the application preserves it.
LEMMA TransportInvStep ==
    TransportInv /\ [TransportNext]_allVars => TransportInv'
<1> SUFFICES ASSUME TransportInv, [TransportNext]_allVars PROVE TransportInv'
  OBVIOUS
<1>1. CASE UNCHANGED allVars
  <2>1. UNCHANGED vars /\ UNCHANGED trVars
    BY <1>1 DEF allVars
  <2>2. EngineInv'
    BY <2>1, EngineInvStep DEF TransportInv
  <2>3. TransportTypes' /\ MadeFirst' /\ BatchDone' /\ LostOnce' /\ PauseInSync'
    BY <2>1 DEF trVars, vars, TransportInv, TransportTypes, MadeFirst, Unknown, BatchDone,
                LostOnce, PauseInSync
  <2> QED
    BY <2>2, <2>3 DEF TransportInv
<1>2. CASE TransportNext
  <2>1. TypeInv /\ TransportTypes /\ MadeFirst /\ BatchDone /\ PauseInSync /\ LostOnce
    BY DEF TransportInv, EngineInv
  <2>2. EngineInv'
    BY <1>2, <2>1, EngineStep, EngineInvStep DEF TransportInv
  <2>3. TransportTypes' /\ MadeFirst' /\ BatchDone' /\ PauseInSync'
    BY <1>2, <2>1, TypesStep, MadeStep, BatchDoneStep, PauseInSyncStep
  <2>4. LostOnce'
    BY <1>2, <2>1, LostApp, LostHandler DEF TransportNext
  <2> QED
    BY <2>2, <2>3, <2>4 DEF TransportInv
<1> QED
  BY <1>1, <1>2

\* The invariant holds in every reachable state.
LEMMA TransportInvariant == TransportSpec => []TransportInv
  BY TransportInvInit, TransportInvStep, PTL DEF TransportSpec

\* The types of the transports, for any number of connections.
THEOREM TransportTypeCorrect == TransportSpec => []TransportTypeOK
<1>1. TransportInv => TransportTypeOK
  BY TypesAreOK DEF TransportInv
<1> QED
  BY <1>1, TransportInvariant, PTL

(***************************************************************************)
(* The engine's promises hold below the transports, whose handlers issue   *)
(* operations, and reuse descriptors, without the discipline of SingleOp.  *)
(***************************************************************************)
THEOREM TransportAccountingCorrect ==
    TransportSpec => [](BufferAccounting /\ StoredFutureHasOperation)
<1>1. TransportInv => BufferAccounting /\ StoredFutureHasOperation
  BY DEF TransportInv, EngineInv
<1> QED
  BY <1>1, TransportInvariant, PTL

(***************************************************************************)
(* The composition implements the engine: a step of the loop, a transport  *)
(* or the kernel is a step of the engine, leaves it alone, or is           *)
(* _handle_recv_completion resolving a future that was pending.            *)
(***************************************************************************)
THEOREM EngineBelow ==
    TransportSpec => Init /\ [][[Next]_vars \/ ResolvesOnly]_vars
<1>1. TransportInit => Init
  BY DEF TransportInit
<1>2. TransportInv /\ [TransportNext]_allVars => [[Next]_vars \/ ResolvesOnly]_vars
  <2> SUFFICES ASSUME TransportInv, [TransportNext]_allVars
               PROVE  [Next]_vars \/ ResolvesOnly \/ UNCHANGED vars
    OBVIOUS
  <2>1. CASE TransportNext
    BY <2>1, EngineStep DEF TransportInv
  <2>2. CASE UNCHANGED allVars
    BY <2>2 DEF allVars
  <2> QED
    BY <2>1, <2>2
<1> QED
  BY <1>1, <1>2, TransportInvariant, PTL DEF TransportSpec

\* A step of the engine leaves the futures alone that are done.
LEMMA DoneStays ==
    ASSUME TypeInv, [Next]_vars \/ ResolvesOnly, NEW c \in Calls, outcome[c] # Pending
    PROVE  outcome'[c] = outcome[c]
<1>0. outcome \in [Calls -> Outcomes]
  BY DEF TypeInv, TypeOK
<1>1. CASE ResolvesOnly
  BY <1>0, <1>1, ZenonT(60) DEF ResolvesOnly
<1>2. CASE RunTick
  <2>1. \A i \in 1..Len(cq) : ~ResolvedBy(c, i)
    BY DEF ResolvedBy
  <2> QED
    BY <1>2, <2>1, ZenonT(60) DEF RunTick
<1>3. ASSUME NEW d \in Calls, CancelFuture(d) PROVE outcome'[c] = outcome[c]
  BY <1>0, <1>3, ZenonT(60) DEF CancelFuture
<1>4. CASE UNCHANGED outcome
  BY <1>4
<1>5. CASE UNCHANGED vars
  BY <1>4, <1>5 DEF vars
<1>6. ASSUME NEW d \in Calls, NEW fd \in Fds, NEW kind \in Kinds, Submit(d, fd, kind)
      PROVE  UNCHANGED outcome
  BY <1>6, ZenonT(60)
  DEF Submit, SubmitRecv, SubmitSend, SubmitOther, SubmitRecvSkipped, SubmitNoBuffer,
      SubmitRecvSqFull, SubmitRecvQueued, SubmitSendSqFull, SubmitSendQueued, SubmitSendTooLong,
      SubmitPlainSqFull, SubmitSendtoQueued, SubmitPlainQueued
<1> QED
  BY <1>1, <1>2, <1>3, <1>4, <1>5, <1>6, ZenonT(60)
  DEF Next, RegisterFd, UnregisterFd, SetPaused, KernelComplete

(***************************************************************************)
(* A future is resolved once: run_tick takes it from the engine's map, and *)
(* _handle_recv_completion from _io_futures, where the same future is kept *)
(* for the second handling of its completion.  Whichever comes first,      *)
(* neither changes the value of a future that is done.                     *)
(***************************************************************************)
THEOREM ResolvedOnce ==
    TransportSpec =>
        [][\A c \in Calls : outcome[c] # Pending => outcome'[c] = outcome[c]]_outcome
<1>1. TransportInv /\ [TransportNext]_allVars =>
         [\A c \in Calls : outcome[c] # Pending => outcome'[c] = outcome[c]]_outcome
  <2> SUFFICES ASSUME TransportInv, [TransportNext]_allVars,
                      NEW c \in Calls, outcome[c] # Pending
               PROVE  outcome'[c] = outcome[c]
    OBVIOUS
  <2>1. CASE TransportNext
    BY <2>1, EngineStep, DoneStays DEF TransportInv, EngineInv
  <2>2. CASE UNCHANGED allVars
    BY <2>2 DEF allVars, vars
  <2> QED
    BY <2>1, <2>2
<1> QED
  BY <1>1, TransportInvariant, PTL DEF TransportSpec

(***************************************************************************)
(* connection_lost is called once for a transport that was force-closed    *)
(* and never for another, however abort, errors in callbacks, errors in    *)
(* submissions and errors in completions meet.                             *)
(***************************************************************************)
THEOREM ConnectionLostCorrect == TransportSpec => []ConnectionLostOnce
<1>1. TransportInv => ConnectionLostOnce
  BY LostOnceCounts DEF TransportInv
<1> QED
  BY <1>1, TransportInvariant, PTL

(***************************************************************************)
(* pause_reading and resume_reading of an open transport always reach the  *)
(* engine, also when its descriptor belonged to a connection before.       *)
(***************************************************************************)
THEOREM PauseInSyncCorrect == TransportSpec => []PauseInSync
<1>1. TransportInv => PauseInSync
  BY DEF TransportInv
<1> QED
  BY <1>1, TransportInvariant, PTL

(***************************************************************************)
(* A transport that began to close gets no more data: only the receive     *)
(* callback delivers, and it looks at closing first.                       *)
(***************************************************************************)
THEOREM NoDataAfterCloseCorrect == TransportSpec => NoDataAfterClose
<1>1. TransportInv /\ [TransportNext]_allVars =>
         [\A x \in Conns : tr[x].closing => delivered'[x] = delivered[x]]_allVars
  <2> SUFFICES ASSUME TransportInv, [TransportNext]_allVars,
                      NEW y \in Conns, tr[y].closing
               PROVE  delivered'[y] = delivered[y]
    OBVIOUS
  <2>1. ASSUME NEW x \in Conns, NEW c \in Calls, OnRecvComplete(x, c)
        PROVE  delivered'[y] = delivered[y]
    <3>1. [tr[x] EXCEPT !.recvPending = FALSE].closing = tr[x].closing
      BY ClearPending DEF TransportInv, TransportTypes
    <3>2. CASE x = y
      BY <2>1, <3>1, <3>2 DEF OnRecvComplete, IsLate
    <3>3. CASE x # y
      <4>1. DOMAIN delivered = Conns
        BY DEF TransportInv, TransportTypes
      <4> QED
        BY <2>1, <3>3, <4>1 DEF OnRecvComplete
    <3> QED
      BY <3>2, <3>3
  <2>2. CASE UNCHANGED delivered
    BY <2>2
  <2> QED
    BY <2>1, <2>2, Zenon
    DEF TransportNext, allVars, trVars, Tick, EndBatch, EndProcess, Kernel, Connect,
        RearmSkipped, RearmBeyondBound, Rearm, OnWriteComplete, CallConnectionLost, Write,
        PauseReading, ResumeReading, Close, Abort, HandleRecv, HandleSend
<1> QED
  BY <1>1, TransportInvariant, PTL DEF TransportSpec, NoDataAfterClose

----------------------------------------------------------------------------
(***************************************************************************)
(* Readers.  A submission that was not made yet has left no trace, and the *)
(* credit a descriptor has used is less than the number of the next call.  *)
(***************************************************************************)
CallFresh ==
    \A c \in Calls : where[c] = "unused" =>
        /\ outcome[c] = Pending
        /\ \A fd \in Fds : fdState[fd].inflight < c /\ ioFutures[fd] # c

NoneFresh == ~ \E c \in Calls : Fresh(c)

\* _process_completions handles everything before the next tick.
TodoDone == phase = "tick" => todo = <<>>

\* A receive callback of x waits in the queue q.
WillRecv(q, x) == \E i \in 1..Len(q) : q[i].what = "recvDone" /\ q[i].conn = x
Called(x) == WillRecv(batch, x) \/ WillRecv(ready, x)

\* A receive completion of the descriptor is still to be processed.
Waiting(fd) == \E i \in 1..Len(todo) : todo[i].kind = "recv" /\ todo[i].fd = fd

(***************************************************************************)
(* x waits for its receive: the future in _io_futures is its own and not   *)
(* resolved, and the operation is in the ring, or a completion that will   *)
(* resolve the future is among those still to be processed.  The engine's  *)
(* map is not needed: a write may have overwritten the entry.              *)
(***************************************************************************)
Awaits(x) ==
    LET fd == tr[x].fd
        f  == ioFutures[fd]
    IN  /\ f \in Calls
        /\ owner[f] = x /\ op[f].kind = "recv" /\ op[f].fd = fd /\ outcome[f] = Pending
        /\ Outstanding(f) \/ Waiting(fd)

Rests(x) == tr[x].paused \/ tr[x].eof \/ rearming = x \/ NoneFresh

Reader(x) ==
    tr[x].made /\ ~tr[x].closing =>
        /\ tr[x].recvPending => Awaits(x) \/ Called(x)
        /\ ~tr[x].recvPending => Rests(x)

Readers == \A x \in Conns : Reader(x)

\* ReaderAlive is what the runs check of it.
LEMMA ReadersAlive ==
    ASSUME TransportTypes, Readers PROVE ReaderAlive
<1> SUFFICES ASSUME NEW x \in Conns, tr[x].made, ~tr[x].closing
             PROVE  IF tr[x].recvPending
                    THEN \/ \E c \in Calls : /\ owner[c] = x /\ op[c].kind = "recv"
                                             /\ Outstanding(c)
                                             /\ c \in {futures[tr[x].fd], ioFutures[tr[x].fd]}
                         \/ \E cb \in Scheduled : cb.what = "recvDone" /\ cb.conn = x
                         \/ \E r \in Range(todo) : r.kind = "recv" /\ r.fd = tr[x].fd
                    ELSE \/ tr[x].paused \/ tr[x].eof \/ rearming = x
                         \/ ~ \E c \in Calls : Fresh(c)
  BY DEF ReaderAlive
<1>0. /\ ready \in Seq(Callbacks) /\ batch \in Seq(Callbacks) /\ todo \in Seq(ResultItems)
      /\ DOMAIN ready = 1..Len(ready) /\ DOMAIN batch = 1..Len(batch) /\ DOMAIN todo = 1..Len(todo)
  BY DEF TransportTypes
<1>1. ASSUME Called(x) PROVE \E cb \in Scheduled : cb.what = "recvDone" /\ cb.conn = x
  BY <1>0, <1>1 DEF Called, WillRecv, Scheduled, Range
<1>2. ASSUME Awaits(x)
      PROVE  \/ \E c \in Calls : /\ owner[c] = x /\ op[c].kind = "recv"
                                 /\ Outstanding(c)
                                 /\ c \in {futures[tr[x].fd], ioFutures[tr[x].fd]}
             \/ \E r \in Range(todo) : r.kind = "recv" /\ r.fd = tr[x].fd
  BY <1>0, <1>2 DEF Awaits, Waiting, Range
<1> QED
  BY <1>1, <1>2 DEF Readers, Reader, Rests, NoneFresh

\* What the steps of the engine do to unused calls: only a submission, of the
\* next call, uses one up.
LEMMA UnusedCalls ==
    ASSUME TypeInv, [Next]_vars \/ ResolvesOnly
    PROVE  \/ \A d \in Calls : where'[d] = "unused" <=> where[d] = "unused"
           \/ \E c \in Calls : /\ Fresh(c) /\ where'[c] # "unused"
                               /\ \A d \in Calls : d # c =>
                                     (where'[d] = "unused" <=> where[d] = "unused")
<1>0. where \in [Calls -> Stages]
  BY DEF TypeInv, TypeOK
<1>1. ASSUME NEW c \in Calls, NEW fd \in Fds, NEW kind \in Kinds, Submit(c, fd, kind)
      PROVE  /\ Fresh(c) /\ where'[c] # "unused"
             /\ \A d \in Calls : d # c => (where'[d] = "unused" <=> where[d] = "unused")
  <2>1. Fresh(c)
    BY <1>1 DEF Submit
  <2> QED
    BY <1>1, <2>1, SubmitTouchesOwnCall
<1>2. ASSUME NEW c \in Calls, NEW res, KernelComplete(c, res)
      PROVE  \A d \in Calls : where'[d] = "unused" <=> where[d] = "unused"
  BY <1>0, <1>2 DEF KernelComplete
<1>3. ASSUME RunTick PROVE \A d \in Calls : where'[d] = "unused" <=> where[d] = "unused"
  BY <1>3 DEF RunTick
<1>4. CASE UNCHANGED where
  BY <1>4
<1> QED
  BY <1>1, <1>2, <1>3, <1>4
  DEF Next, RegisterFd, UnregisterFd, SetPaused, CancelFuture, vars, ResolvesOnly

\* The bound on submissions is final.
LEMMA NoneFreshKept ==
    ASSUME TypeInv, [Next]_vars \/ ResolvesOnly, NoneFresh PROVE NoneFresh'
<1>1. \A d \in Calls : where'[d] = "unused" <=> where[d] = "unused"
  BY UnusedCalls DEF NoneFresh
<1> QED
  BY <1>1 DEF NoneFresh, Fresh

\* Everything is processed before the phase ends.
LEMMA TodoDoneStep ==
    ASSUME TransportTypes, TodoDone, TransportNext PROVE TodoDone'
  BY ConnsAreNot, Zenon
  DEF TransportNext, TodoDone, Tick, EndBatch, EndProcess, Kernel, Connect, RearmSkipped,
     RearmBeyondBound, Rearm, OnRecvComplete, OnWriteComplete, CallConnectionLost, Running,
     Write, PauseReading, ResumeReading, Close, Abort, AppRuns, HandleRecv, HandleSend,
     Handling

\* A submission resolves nothing, and takes at most one credit.
LEMMA SubmitCredit ==
    ASSUME TypeInv, NEW c \in Calls, NEW fd \in Fds, NEW kind \in {"recv", "send"},
           Submit(c, fd, kind)
    PROVE  /\ outcome' = outcome
           /\ \A gd \in Fds : /\ fdState[gd].inflight \in Nat
                              /\ fdState'[gd].inflight <= fdState[gd].inflight + 1
<1>1. /\ fdState' = fdState \/ fdState' = OnSubmit(fd)
      /\ outcome' = outcome
  BY DEF Submit, SubmitRecv, SubmitSend, SubmitOther, SubmitRecvSkipped, SubmitNoBuffer,
         SubmitRecvSqFull, SubmitRecvQueued, SubmitSendQueued, SubmitSendSqFull,
         SubmitSendTooLong, RecvKinds
<1>2. fdState \in [Fds -> FdStates]
  BY DEF TypeInv, TypeOK
<1>3. \A gd \in Fds : fdState[gd].inflight \in Nat
  BY <1>2 DEF FdStates
<1>4. \A gd \in Fds : OnSubmit(fd)[gd].inflight <= fdState[gd].inflight + 1
  BY <1>2, <1>3 DEF OnSubmit, FdStates
<1> QED
  BY <1>1, <1>3, <1>4

\* A submission of the next call leaves the later ones without a trace.
LEMMA CallFreshSubmit ==
    ASSUME TypeInv, CallFresh, NEW c \in Calls, NEW fd \in Fds,
           NEW kind \in {"recv", "send"}, Submit(c, fd, kind),
           \A gd \in Fds : ioFutures'[gd] = ioFutures[gd] \/ ioFutures'[gd] = c
    PROVE  CallFresh'
<1> SUFFICES ASSUME NEW d \in Calls, where'[d] = "unused"
             PROVE  /\ outcome'[d] = Pending
                    /\ \A gd \in Fds : fdState'[gd].inflight < d /\ ioFutures'[gd] # d
  BY DEF CallFresh
<1>1. kind \in Kinds
  BY TransportAssumption
<1>2. Fresh(c)
  BY DEF Submit
<1>3. d # c /\ where[d] = "unused" /\ where[c] = "unused"
  BY <1>1, SubmitTouchesOwnCall
<1>4. c \in Nat /\ d \in Nat
  BY ConstantsAssumption DEF Calls
<1>5. c < d
  BY <1>2, <1>3, <1>4 DEF Fresh
<1>6. outcome'[d] = Pending
  BY <1>3, SubmitCredit DEF CallFresh
<1>7. ASSUME NEW gd \in Fds PROVE fdState'[gd].inflight < d /\ ioFutures'[gd] # d
  <2>1. fdState[gd].inflight < c /\ ioFutures[gd] # d
    BY <1>3 DEF CallFresh
  <2>2. /\ fdState[gd].inflight \in Nat
        /\ fdState'[gd].inflight <= fdState[gd].inflight + 1
    BY SubmitCredit
  <2>3. fdState'[gd].inflight \in Int
    <3>1. TypeInv'
      BY <1>1, TypeInvStep DEF Next
    <3>2. fdState' \in [Fds -> FdStates]
      BY <3>1 DEF TypeInv, TypeOK
    <3> QED
      BY <3>2 DEF FdStates
  <2> QED
    BY <1>3, <1>4, <1>5, <2>1, <2>2, <2>3
<1> QED
  BY <1>6, <1>7

\* A tick resolves futures of operations that were submitted.
LEMMA TickOutcome ==
    ASSUME TypeInv, StoredFutureHasOperation, RunTick, NEW c \in Calls,
           outcome'[c] # outcome[c]
    PROVE  \E i \in 1..Len(cq) : ResolvedBy(c, i) /\ Outstanding(c)
<1>1. PICK i \in 1..Len(cq) : ResolvedBy(c, i)
  BY DEF RunTick
<1>2. cq[i].fd \in Fds
  BY CqeTypes DEF Cqes
<1>3. futures[cq[i].fd] = c
  BY <1>1, ZenonT(60) DEF ResolvedBy
<1> QED
  BY <1>1, <1>2, <1>3, ConnsAreNot DEF StoredFutureHasOperation

\* Unused calls stay without a trace.
LEMMA CallFreshStep ==
    ASSUME EngineInv, TransportTypes, MadeFirst, CallFresh, TransportNext PROVE CallFresh'
<1>0. TypeInv /\ StoredFutureHasOperation
  BY DEF EngineInv
<1>1. ASSUME NEW x \in Conns, NEW c \in Calls, Rearm(x, c) PROVE CallFresh'
  <2>1. tr[x].fd \in Fds
    BY <1>1 DEF Rearm, MadeFirst, Unknown
  <2>2. Submit(c, tr[x].fd, "recv")
    BY <1>1, <2>1, RearmIsSubmit
  <2>3. \A gd \in Fds : ioFutures'[gd] = ioFutures[gd] \/ ioFutures'[gd] = c
    BY <1>1 DEF Rearm, IoFuturesWith, TransportTypes
  <2> QED
    BY <1>0, <2>1, <2>2, <2>3, CallFreshSubmit
<1>2. ASSUME NEW x \in Conns, NEW c \in Calls, Write(x, c) PROVE CallFresh'
  <2>1. tr[x].fd \in Fds
    BY <1>2 DEF Write, AppRuns, MadeFirst
  <2>2. Submit(c, tr[x].fd, "send")
    BY <1>2, <2>1, WriteIsSubmit
  <2>3. ioFutures' = ioFutures
    BY <1>2 DEF Write
  <2> QED
    BY <1>0, <2>1, <2>2, <2>3, CallFreshSubmit
<1>3. CASE Tick
  <2>1. RunTick /\ UNCHANGED <<fdState, ioFutures>>
    BY <1>3 DEF Tick, RunTick
  <2>2. ASSUME NEW c \in Calls, where'[c] = "unused"
        PROVE  where[c] = "unused" /\ outcome'[c] = outcome[c]
    <3>1. where[c] = "unused"
      BY <2>1, <2>2 DEF RunTick
    <3> QED
      BY <1>0, <2>1, <3>1, TickOutcome DEF Outstanding
  <2> QED
    BY <2>1, <2>2 DEF CallFresh
<1>4. ASSUME NEW c \in Calls, NEW res, Kernel(c, res) PROVE CallFresh'
  <2>1. UNCHANGED <<outcome, fdState, ioFutures>> /\ where' = [where EXCEPT ![c] = "cq"]
    BY <1>4 DEF Kernel, KernelComplete
  <2> QED
    BY <1>0, <2>1 DEF CallFresh, TypeInv, TypeOK
<1>5. ASSUME NEW x \in Conns, NEW fd \in Fds, Connect(x, fd) PROVE CallFresh'
  <2>1. /\ UNCHANGED <<outcome, where, ioFutures>>
        /\ fdState' = [fdState EXCEPT ![fd] = NewFdState]
    BY <1>5 DEF Connect, RegisterFd
  <2>2. \A gd \in Fds : fdState'[gd] = fdState[gd] \/ fdState'[gd].inflight = 0
    BY <1>0, <2>1 DEF TypeInv, TypeOK, NewFdState
  <2>3. \A d \in Calls : 0 < d
    BY ConstantsAssumption DEF Calls
  <2> QED
    BY <2>1, <2>2, <2>3 DEF CallFresh
<1>6. ASSUME NEW x \in Conns, NEW p \in BOOLEAN, SetPaused(tr[x].fd, p), ioFutures' = ioFutures
      PROVE  CallFresh'
  <2>1. /\ UNCHANGED <<outcome, where, ioFutures>>
        /\ fdState' = [fdState EXCEPT ![tr[x].fd].paused = p]
    BY <1>6 DEF SetPaused
  <2>2. \A gd \in Fds : fdState'[gd].inflight = fdState[gd].inflight
    BY <1>0, <2>1 DEF TypeInv, TypeOK, FdStates
  <2> QED
    BY <2>1, <2>2 DEF CallFresh
<1>7. CASE HandleRecv
  <2> DEFINE r == Head(todo)
             f == ioFutures[r.fd]
  <2>1. r.fd \in Fds
    BY <1>7, HandlingTypes, ZenonT(60) DEF HandleRecv
  <2>2. /\ UNCHANGED <<fdState, where>>
        /\ ioFutures' = [ioFutures EXCEPT ![r.fd] = None]
        /\ outcome' = outcome \/ outcome' = [outcome EXCEPT ![f] = HandlerValue(r)]
    BY <1>7, ZenonT(60) DEF HandleRecv
  <2> HIDE DEF r
  <2>3. ASSUME NEW c \in Calls, where[c] = "unused"
        PROVE  /\ outcome'[c] = outcome[c]
               /\ \A fd \in Fds : ioFutures'[fd] # c
    <3>1. f # c /\ None # c
      BY <2>1, <2>3, ConnsAreNot DEF CallFresh
    <3>2. outcome'[c] = outcome[c]
      BY <1>0, <2>2, <3>1 DEF TypeInv, TypeOK
    <3>3. \A fd \in Fds : ioFutures'[fd] # c
      BY <2>2, <2>3, <3>1 DEF CallFresh, TransportTypes
    <3> QED
      BY <3>2, <3>3
  <2> QED
    BY <2>2, <2>3, ZenonT(60) DEF CallFresh
<1>8. CASE UNCHANGED <<outcome, fdState, where, ioFutures>>
  BY <1>8 DEF CallFresh
<1>9. ASSUME NEW x \in Conns, PauseReading(x) \/ ResumeReading(x) PROVE CallFresh'
  BY <1>6, <1>8, <1>9 DEF PauseReading, ResumeReading, ResumeEngine, vars
<1> QED
  BY <1>1, <1>2, <1>3, <1>4, <1>5, <1>7, <1>8, <1>9
  DEF TransportNext, EndBatch, EndProcess, RearmSkipped, RearmBeyondBound, OnRecvComplete,
      OnWriteComplete, CallConnectionLost, Close, Abort, HandleSend, vars

\* Receive callbacks stay in a queue that grows, and the first one to leave is
\* the only one lost.
LEMMA WillRecvAfter ==
    ASSUME NEW q \in Seq(Callbacks), NEW x
    PROVE  /\ \A t \in Seq(Callbacks) :
                 /\ WillRecv(q, x) => WillRecv(q \o t, x)
                 /\ WillRecv(t, x) => WillRecv(q \o t, x)
           /\ \A y \in Conns \cup {None} : WillRecv(q, x) => WillRecv(q \o LostCallback(y), x)
           /\ \A cb \in Callbacks :
                 /\ WillRecv(q, x) => WillRecv(Append(q, cb), x)
                 /\ cb.what = "recvDone" /\ cb.conn = x => WillRecv(Append(q, cb), x)
           /\ /\ q # <<>> /\ WillRecv(q, x)
              /\ ~(Head(q).what = "recvDone" /\ Head(q).conn = x)
              => WillRecv(Tail(q), x)
<1>1. \A t \in Seq(Callbacks) :
         /\ WillRecv(q, x) => WillRecv(q \o t, x)
         /\ WillRecv(t, x) => WillRecv(q \o t, x)
  <2> SUFFICES ASSUME NEW t \in Seq(Callbacks)
               PROVE  /\ WillRecv(q, x) => WillRecv(q \o t, x)
                      /\ WillRecv(t, x) => WillRecv(q \o t, x)
    OBVIOUS
  <2>1. \A i \in 1..Len(q) : i \in 1..Len(q \o t) /\ (q \o t)[i] = q[i]
    OBVIOUS
  <2>2. \A i \in 1..Len(t) : Len(q) + i \in 1..Len(q \o t) /\ (q \o t)[Len(q) + i] = t[i]
    OBVIOUS
  <2> QED
    BY <2>1, <2>2 DEF WillRecv
<1>2. \A y \in Conns \cup {None} : WillRecv(q, x) => WillRecv(q \o LostCallback(y), x)
  BY <1>1, LostCallbackType
<1>3. \A cb \in Callbacks :
         /\ WillRecv(q, x) => WillRecv(Append(q, cb), x)
         /\ cb.what = "recvDone" /\ cb.conn = x => WillRecv(Append(q, cb), x)
  <2> SUFFICES ASSUME NEW cb \in Callbacks
               PROVE  /\ WillRecv(q, x) => WillRecv(Append(q, cb), x)
                      /\ cb.what = "recvDone" /\ cb.conn = x => WillRecv(Append(q, cb), x)
    OBVIOUS
  <2>1. /\ \A i \in 1..Len(q) : i \in 1..Len(Append(q, cb)) /\ Append(q, cb)[i] = q[i]
        /\ Len(q) + 1 \in 1..Len(Append(q, cb)) /\ Append(q, cb)[Len(q) + 1] = cb
    OBVIOUS
  <2> QED
    BY <2>1 DEF WillRecv
<1>4. ASSUME q # <<>>, WillRecv(q, x), ~(Head(q).what = "recvDone" /\ Head(q).conn = x)
      PROVE  WillRecv(Tail(q), x)
  <2>1. PICK i \in 1..Len(q) : q[i].what = "recvDone" /\ q[i].conn = x
    BY <1>4 DEF WillRecv
  <2>2. Head(q) = q[1]
    BY <1>4
  <2>3. i # 1
    BY <1>4, <2>1, <2>2
  <2>4. i - 1 \in 1..Len(Tail(q)) /\ Tail(q)[i - 1] = q[i]
    BY <1>4, <2>3
  <2> QED
    BY <2>1, <2>4 DEF WillRecv
<1> QED
  BY <1>1, <1>2, <1>3, <1>4

\* The record of x after a step that does not concern its reading: whatever
\* made x rest still does, and an open x was open before.
Undisturbed(x) ==
    tr'[x].made /\ ~tr'[x].closing =>
        /\ tr[x].made /\ ~tr[x].closing
        /\ tr'[x].fd = tr[x].fd /\ tr'[x].paused = tr[x].paused
        /\ tr'[x].recvPending = tr[x].recvPending
        /\ tr[x].eof => tr'[x].eof

\* Such is an update that closes a record or leaves its flags alone.
LEMMA RecordUndisturbed ==
    ASSUME TransportTypes, NEW y \in Conns \cup {None}, NEW u, NEW x \in Conns,
           y \in Conns => /\ Later(tr[y], u)
                          /\ \/ u.closing
                             \/ /\ u.recvPending = tr[y].recvPending
                                /\ tr[y].eof => u.eof,
           tr' = tr \/ tr' = [tr EXCEPT ![y] = u]
    PROVE  Undisturbed(x)
<1>1. tr'[x] = IF x = y /\ tr' # tr THEN u ELSE tr[x]
  BY TableUpdate DEF TransportTypes, Later
<1>2. CASE tr'[x] = tr[x]
  BY <1>2 DEF Undisturbed
<1>3. CASE x = y /\ tr'[x] = u
  BY <1>3 DEF Undisturbed, Later
<1> QED
  BY <1>1, <1>2, <1>3

\* A reader whose future, operation and completions are left alone stays one.
LEMMA ReaderQuiet ==
    ASSUME EngineInv, TransportTypes, MadeFirst, TransportNext, NEW x \in Conns, Reader(x),
           tr'[x].made /\ ~tr'[x].closing =>
               /\ tr[x].made /\ ~tr[x].closing
               /\ tr'[x].fd = tr[x].fd /\ tr'[x].recvPending = tr[x].recvPending,
           UNCHANGED <<ioFutures, owner, op, outcome>>,
           \A c \in Calls : Outstanding(c) => Outstanding(c)',
           \A fd \in Fds : Waiting(fd) => Waiting(fd)',
           Called(x) => Called(x)',
           ~tr[x].recvPending /\ (tr[x].paused \/ tr[x].eof \/ rearming = x) => Rests(x)'
    PROVE  Reader(x)'
<1> SUFFICES ASSUME tr'[x].made, ~tr'[x].closing
             PROVE  /\ tr'[x].recvPending => Awaits(x)' \/ Called(x)'
                    /\ ~tr'[x].recvPending => Rests(x)'
  BY DEF Reader
<1>1. tr[x].fd \in Fds
  BY DEF MadeFirst
<1>2. Awaits(x) => Awaits(x)'
  BY <1>1 DEF Awaits
<1>3. NoneFresh => NoneFresh'
  BY EngineStep, NoneFreshKept DEF EngineInv
<1>4. NoneFresh => Rests(x)'
  BY <1>3 DEF Rests
<1> QED
  BY <1>2, <1>4 DEF Reader, Rests

\* Nothing of the engine a reader waits for changes.
LEMMA EngineQuiet ==
    ASSUME UNCHANGED vars \/ UNCHANGED <<op, where, outcome>>
    PROVE  /\ UNCHANGED <<op, outcome>>
           /\ \A c \in Calls : Outstanding(c) => Outstanding(c)'
  BY DEF Outstanding, vars

\* A step that only updates one record, and may schedule connection_lost,
\* leaves every reader alone.
LEMMA ReaderUpdate ==
    ASSUME EngineInv, TransportTypes, MadeFirst, TransportNext, NEW x \in Conns, Reader(x),
           NEW y \in Conns \cup {None}, NEW u,
           y \in Conns => /\ Later(tr[y], u)
                          /\ \/ u.closing
                             \/ /\ u.recvPending = tr[y].recvPending
                                /\ tr[y].eof => u.eof,
           tr' = tr \/ tr' = [tr EXCEPT ![y] = u],
           UNCHANGED <<vars, ioFutures, owner, rearming>>,
           \A fd \in Fds : Waiting(fd) => Waiting(fd)',
           Called(x) => Called(x)'
    PROVE  Reader(x)'
<1>1. Undisturbed(x)
  BY RecordUndisturbed
<1>2. /\ UNCHANGED <<op, outcome>>
      /\ \A c \in Calls : Outstanding(c) => Outstanding(c)'
  BY EngineQuiet
<1>3. CASE ~(tr'[x].made /\ ~tr'[x].closing)
  BY <1>3 DEF Reader
<1>4. CASE tr'[x].made /\ ~tr'[x].closing
  <2>1. (tr[x].paused \/ tr[x].eof \/ rearming = x) => Rests(x)'
    BY <1>1, <1>4 DEF Undisturbed, Rests
  <2> QED
    BY <1>1, <1>2, <2>1, ReaderQuiet DEF Undisturbed
<1> QED
  BY <1>3, <1>4

\* Callbacks already scheduled stay so while ready grows and the head of the
\* batch is another callback.
LEMMA CalledKept ==
    ASSUME TransportTypes, NEW x \in Conns,
           \/ batch' = batch
           \/ \E what, y, c : /\ Running(what, y, c)
                              /\ what # "recvDone" \/ y # x,
           \/ ready' = ready
           \/ \E y \in Conns \cup {None} : ready' = ready \o LostCallback(y)
           \/ \E cb \in Callbacks : ready' = Append(ready, cb),
           Called(x)
    PROVE  Called(x)'
<1>1. ready \in Seq(Callbacks) /\ batch \in Seq(Callbacks)
  BY DEF TransportTypes
<1>2. WillRecv(ready, x) => WillRecv(ready', x)
  <2>1. ASSUME NEW y \in Conns \cup {None}, ready' = ready \o LostCallback(y), WillRecv(ready, x)
        PROVE  WillRecv(ready', x)
    <3>1. WillRecv(ready \o LostCallback(y), x)
      BY <1>1, <2>1, WillRecvAfter
    <3> QED
      BY <2>1, <3>1
  <2>2. ASSUME NEW cb \in Callbacks, ready' = Append(ready, cb), WillRecv(ready, x)
        PROVE  WillRecv(ready', x)
    <3>1. WillRecv(Append(ready, cb), x)
      BY <1>1, <2>2, WillRecvAfter
    <3> QED
      BY <2>2, <3>1
  <2> QED
    BY <2>1, <2>2
<1>3. WillRecv(batch, x) => WillRecv(batch', x)
  <2>1. ASSUME NEW what, NEW y, NEW c, Running(what, y, c), what # "recvDone" \/ y # x,
               WillRecv(batch, x)
        PROVE  WillRecv(batch', x)
    <3>1. /\ batch # <<>> /\ batch' = Tail(batch)
          /\ Head(batch).what = what /\ Head(batch).conn = y
      BY <2>1 DEF Running, Callback
    <3> QED
      BY <1>1, <2>1, <3>1, WillRecvAfter
  <2> QED
    BY <2>1
<1> QED
  BY <1>2, <1>3 DEF Called

----------------------------------------------------------------------------
(***************************************************************************)
(* The steps that concern a reader.                                        *)
(***************************************************************************)

\* A tick: the future is resolved and its callback put into the batch, or the
\* completion is left to _process_completions, or the operation is still in
\* the ring.
LEMMA ReaderTick ==
    ASSUME EngineInv, TransportTypes, MadeFirst, BatchDone, TodoDone, Tick, TransportNext,
           NEW x \in Conns, Reader(x)
    PROVE  Reader(x)'
<1>0. TypeInv /\ QueueInv /\ StoredFutureHasOperation
  BY DEF EngineInv
<1>1. /\ UNCHANGED <<tr, ioFutures, owner, rearming, op>>
      /\ RunTick /\ phase = "tick" /\ ready' = <<>>
  BY DEF Tick, RunTick
<1> SUFFICES ASSUME tr[x].made, ~tr[x].closing
             PROVE  /\ tr[x].recvPending => Awaits(x)' \/ Called(x)'
                    /\ ~tr[x].recvPending => Rests(x)'
  BY <1>1 DEF Reader
<1>2. PICK t \in Seq(Callbacks) :
         /\ batch' = ready \o t
         /\ \A i \in Resolving : \E k \in 1..Len(t) : t[k] = DoneCallback(futures[cq[i].fd])
  BY <1>0, TickBatch, ZenonT(60)
<1>3. Called(x) => Called(x)'
  <2>1. batch = <<>>
    BY <1>1 DEF BatchDone
  <2>2. Called(x) => WillRecv(ready, x)
    BY <2>1 DEF Called, WillRecv
  <2>3. ready \in Seq(Callbacks)
    BY DEF TransportTypes
  <2>4. Called(x) => WillRecv(ready \o t, x)
    BY <2>2, <2>3, WillRecvAfter
  <2> QED
    BY <1>2, <2>4 DEF Called
<1>4. ASSUME Awaits(x) PROVE Awaits(x)' \/ Called(x)'
  <2> DEFINE fd == tr[x].fd
             f == ioFutures[fd]
  <2>1. /\ f \in Calls /\ fd \in Fds
        /\ owner[f] = x /\ op[f].kind = "recv" /\ op[f].fd = fd /\ outcome[f] = Pending
        /\ Outstanding(f) \/ Waiting(fd)
    BY <1>4 DEF Awaits, MadeFirst
  <2>2. Outstanding(f)
    <3>1. ~Waiting(fd)
      BY <1>1 DEF TodoDone, Waiting
    <3> QED
      BY <2>1, <3>1
  <2> HIDE DEF f
  <2>3. CASE \E i \in 1..Len(cq) : ResolvedBy(f, i)
    <3>1. PICK i \in 1..Len(cq) : ResolvedBy(f, i)
      BY <2>3
    <3>2. i \in Resolving /\ futures[cq[i].fd] = f
      BY <2>1, <3>1 DEF Resolving, ResolvedBy
    <3>3. PICK k \in 1..Len(t) : t[k] = DoneCallback(f)
      BY <1>2, <3>2
    <3>4. DoneCallback(f).what = "recvDone" /\ DoneCallback(f).conn = x
      BY <2>1 DEF DoneCallback, Callback
    <3>5. WillRecv(t, x)
      BY <3>3, <3>4 DEF WillRecv
    <3>6. ready \in Seq(Callbacks)
      BY DEF TransportTypes
    <3>7. WillRecv(ready \o t, x)
      BY <3>5, <3>6, WillRecvAfter
    <3> QED
      BY <1>2, <3>7 DEF Called
  <2>4. CASE ~ \E i \in 1..Len(cq) : ResolvedBy(f, i)
    <3>1. outcome'[f] = Pending
      BY <1>0, <1>1, <2>1, <2>4, TickOutcome
    <3>2. Outstanding(f)' \/ Waiting(fd)'
      <4>1. CASE where[f] = "cq"
        <5>1. PICK i \in 1..Len(cq) : cq[i].call = f
          BY <1>0, <2>1, <4>1 DEF QueueInv
        <5>2. cq[i].fd = fd /\ cq[i].kind = "recv"
          BY <1>0, <2>1, <5>1 DEF QueueInv
        <5>3. i \in 1..Len(todo') /\ todo'[i].kind = "recv" /\ todo'[i].fd = fd
          BY <1>0, <5>1, <5>2, TickTodo
        <5>4. fd' = fd
          BY <1>1
        <5> HIDE DEF fd
        <5> QED
          BY <5>3, <5>4 DEF Waiting
      <4>2. CASE where[f] \in {"sq", "kernel"}
        <5>1. where'[f] = "kernel"
          BY <1>1, <2>1, <4>2 DEF RunTick
        <5>2. f' = f
          BY <1>1 DEF f
        <5> QED
          BY <5>1, <5>2 DEF Outstanding
      <4> QED
        BY <2>2, <4>1, <4>2 DEF Outstanding
    <3> QED
      BY <1>1, <2>1, <3>1, <3>2 DEF Awaits, f
  <2> QED
    BY <2>3, <2>4
<1>5. NoneFresh => NoneFresh'
  BY <1>0, EngineStep, NoneFreshKept
<1> QED
  BY <1>1, <1>3, <1>4, <1>5 DEF Reader, Rests

\* _handle_recv_completion: it may take the future x waits for, and then calls
\* x back.
LEMMA ReaderHandleRecv ==
    ASSUME EngineInv, TransportTypes, MadeFirst, HandleRecv, TransportNext,
           NEW x \in Conns, Reader(x)
    PROVE  Reader(x)'
<1> DEFINE r == Head(todo)
           f == ioFutures[r.fd]
           y == transports[r.fd]
<1>1. /\ r.fd \in Fds /\ y \in Conns \cup {None}
      /\ todo' \in Seq(ResultItems) /\ Len(todo') = Len(todo) - 1 /\ Len(todo) > 0
      /\ r = todo[1]
      /\ \A i \in 1..Len(todo') : todo'[i] = todo[i + 1]
  BY HandlingTypes, ZenonT(60) DEF HandleRecv
<1>2. /\ ioFutures' = [ioFutures EXCEPT ![r.fd] = None]
      /\ UNCHANGED <<owner, op, where, rearming, batch>>
  BY ZenonT(60) DEF HandleRecv
<1>3. \/ /\ f # None /\ outcome[f] = Pending
         /\ outcome' = [outcome EXCEPT ![f] = HandlerValue(r)]
         /\ ready' = Append(ready, Callback("recvDone", owner[f], f))
         /\ tr' = tr
      \/ f # None /\ outcome[f] # Pending /\ UNCHANGED <<outcome, ready, tr>>
      \/ f = None /\ UNCHANGED <<outcome, ready, tr>>
      \/ /\ f = None /\ UNCHANGED <<outcome, ready>>
         /\ \E keepOpen \in BOOLEAN : tr' = [tr EXCEPT ![y] = EofReceived(tr[y], keepOpen)]
      \/ /\ f = None /\ outcome' = outcome /\ ready' = ready \o LostCallback(y)
         /\ tr' = [tr EXCEPT ![y] = ForceClosed(tr[y])]
  BY ZenonT(60) DEF HandleRecv
<1>4. f # None => f \in Calls /\ Callback("recvDone", owner[f], f) \in Callbacks
  BY <1>1 DEF TransportTypes, Callback, Callbacks
<1> HIDE DEF r, f, y
<1>5. Undisturbed(x)
  <2>1. ASSUME y \in Conns PROVE tr[y] \in Records
    BY <2>1 DEF TransportTypes
  <2>2. CASE tr' = tr
    BY <2>2 DEF Undisturbed
  <2>3. ASSUME NEW keepOpen \in BOOLEAN, tr' = [tr EXCEPT ![y] = EofReceived(tr[y], keepOpen)]
        PROVE  Undisturbed(x)
    <3> DEFINE u == EofReceived(tr[y], keepOpen)
    <3>1. y \in Conns => /\ Later(tr[y], u)
                         /\ \/ u.closing
                            \/ u.recvPending = tr[y].recvPending /\ (tr[y].eof => u.eof)
      BY <2>1, RecordUpdates
    <3> HIDE DEF u
    <3>2. tr' = [tr EXCEPT ![y] = u]
      BY <2>3 DEF u
    <3> QED
      BY <1>1, <3>1, <3>2, RecordUndisturbed
  <2>4. ASSUME tr' = [tr EXCEPT ![y] = ForceClosed(tr[y])] PROVE Undisturbed(x)
    <3> DEFINE u == ForceClosed(tr[y])
    <3>1. y \in Conns => Later(tr[y], u) /\ u.closing
      BY <2>1, RecordUpdates
    <3> HIDE DEF u
    <3>2. tr' = [tr EXCEPT ![y] = u]
      BY <2>4 DEF u
    <3> QED
      BY <1>1, <3>1, <3>2, RecordUndisturbed
  <2> QED
    BY <1>3, <2>2, <2>3, <2>4
<1> SUFFICES ASSUME tr'[x].made, ~tr'[x].closing
             PROVE  /\ tr'[x].recvPending => Awaits(x)' \/ Called(x)'
                    /\ ~tr'[x].recvPending => Rests(x)'
  BY DEF Reader
<1>6. /\ tr[x].made /\ ~tr[x].closing /\ tr[x].fd \in Fds
      /\ tr'[x].fd = tr[x].fd /\ tr'[x].paused = tr[x].paused
      /\ tr'[x].recvPending = tr[x].recvPending
      /\ tr[x].eof => tr'[x].eof
  BY <1>5 DEF Undisturbed, MadeFirst
<1>7. Called(x) => Called(x)'
  BY <1>1, <1>2, <1>3, <1>4, CalledKept
<1>8. ASSUME Awaits(x) PROVE Awaits(x)' \/ Called(x)'
  <2> DEFINE fd == tr[x].fd
             g == ioFutures[fd]
  <2>1. /\ g \in Calls
        /\ owner[g] = x /\ op[g].kind = "recv" /\ op[g].fd = fd /\ outcome[g] = Pending
        /\ Outstanding(g) \/ Waiting(fd)
    BY <1>8 DEF Awaits
  <2> HIDE DEF g
  <2>2. CASE f = g
    <3>1. f # None
      BY <2>1, <2>2, ConnsAreNot
    <3>2. ready' = Append(ready, Callback("recvDone", x, f))
      BY <1>3, <2>1, <2>2, <3>1
    <3>3. /\ Callback("recvDone", x, f) \in Callbacks
          /\ Callback("recvDone", x, f).what = "recvDone"
          /\ Callback("recvDone", x, f).conn = x
      BY <1>4, <2>1, <2>2, <3>1 DEF Callback
    <3>4. ready \in Seq(Callbacks)
      BY DEF TransportTypes
    <3>5. WillRecv(Append(ready, Callback("recvDone", x, f)), x)
      BY <3>3, <3>4, WillRecvAfter
    <3> QED
      BY <3>2, <3>5 DEF Called
  <2>3. CASE f # g
    <3>1. r.fd # fd
      BY <2>3 DEF f, g
    <3>2. ioFutures'[fd] = g
      BY <1>2, <1>6, <3>1 DEF TransportTypes, g
    <3>3. outcome'[g] = Pending
      BY <1>3, <2>1, <2>3 DEF EngineInv, TypeInv, TypeOK
    <3>4. Waiting(fd) => \E i \in 1..Len(todo') : todo'[i].kind = "recv" /\ todo'[i].fd = fd
      <4> SUFFICES ASSUME NEW i \in 1..Len(todo), todo[i].kind = "recv", todo[i].fd = fd
                   PROVE  \E j \in 1..Len(todo') : todo'[j].kind = "recv" /\ todo'[j].fd = fd
        BY DEF Waiting
      <4>1. i # 1
        BY <1>1, <3>1
      <4>2. i - 1 \in 1..Len(todo') /\ todo'[i - 1] = todo[i]
        BY <1>1, <4>1
      <4> QED
        BY <4>2
    <3>5. tr'[x].fd = fd
      BY <1>6
    <3> HIDE DEF fd
    <3>6. Outstanding(g) => where'[g] \in {"sq", "kernel", "cq"}
      BY <1>2 DEF Outstanding
    <3> QED
      BY <1>2, <2>1, <3>2, <3>3, <3>4, <3>5, <3>6 DEF Awaits, Waiting, Outstanding
  <2> QED
    BY <2>2, <2>3
<1>9. NoneFresh => NoneFresh'
  BY EngineStep, NoneFreshKept DEF EngineInv
<1> QED
  BY <1>2, <1>6, <1>7, <1>8, <1>9, Zenon DEF Reader, Rests

\* A submission for another connection, or a send, leaves what x waits for.
LEMMA AwaitsSubmit ==
    ASSUME EngineInv, TransportTypes, MadeFirst, CallFresh, NEW x \in Conns,
           tr[x].made, tr'[x].fd = tr[x].fd, ioFutures'[tr[x].fd] = ioFutures[tr[x].fd],
           NEW y, NEW c \in Calls, NEW fd \in Fds, NEW kind \in {"recv", "send"},
           Submit(c, fd, kind), owner' = [owner EXCEPT ![c] = y], todo' = todo,
           Awaits(x)
    PROVE  Awaits(x)'
<1> DEFINE g == ioFutures[tr[x].fd]
<1>0. TypeInv /\ kind \in Kinds
  BY TransportAssumption DEF EngineInv
<1>1. /\ g \in Calls
      /\ owner[g] = x /\ op[g].kind = "recv" /\ op[g].fd = tr[x].fd /\ outcome[g] = Pending
      /\ Outstanding(g) \/ Waiting(tr[x].fd)
  BY DEF Awaits
<1>2. where[c] = "unused"
  BY <1>0, SubmitTouchesOwnCall
<1>3. tr[x].fd \in Fds
  BY DEF MadeFirst
<1>4. g # c
  BY <1>2, <1>3 DEF CallFresh
<1> HIDE DEF g
<1>5. /\ op'[g] = op[g]
      /\ where'[g] # where[g] => where[g] = "sq" /\ where'[g] = "kernel"
  BY <1>0, <1>1, <1>4, SubmitTouchesOwnCall
<1>6. outcome' = outcome
  BY <1>0, SubmitCredit
<1>7. owner'[g] = x
  BY <1>1, <1>4 DEF TransportTypes
<1>8. Outstanding(g) => where'[g] \in {"sq", "kernel", "cq"}
  BY <1>5 DEF Outstanding
<1>9. ioFutures'[tr'[x].fd] = g
  BY DEF g
<1>10. Waiting(tr[x].fd) => Waiting(tr[x].fd)'
  BY DEF Waiting
<1> QED
  BY <1>1, <1>5, <1>6, <1>7, <1>8, <1>9, <1>10 DEF Awaits, Outstanding

\* _rearm_recv of x while it has credit: the receive is in the ring and its
\* future in _io_futures, or the transport is closed.
LEMMA ReaderRearm ==
    ASSUME EngineInv, TransportTypes, MadeFirst, PauseInSync, CallFresh,
           MaxCalls <= CreditBudget, TransportNext,
           NEW x \in Conns, NEW c \in Calls, Rearm(x, c)
    PROVE  Reader(x)'
<1>0. TypeInv /\ tr[x] \in Records /\ ForceClosed(tr[x]).closing
  BY RecordUpdates DEF EngineInv, TransportTypes
<1>1. tr[x].made /\ tr[x].fd \in Fds
  BY DEF Rearm, MadeFirst, Unknown
<1>2. CASE RearmError(x, c)
  <2>1. tr'[x].closing
    BY <1>0, <1>2 DEF RearmError, TransportTypes
  <2> QED
    BY <2>1 DEF Reader
<1>3. CASE RearmOk(x, c)
  <2>0. tr' = [tr EXCEPT ![x] = [tr[x] EXCEPT !.recvPending = TRUE]]
    BY <1>3 DEF RearmOk
  <2>1. tr'[x].recvPending /\ tr'[x].fd = tr[x].fd
    BY <1>0, <2>0, ClearPending DEF TransportTypes, Later
  <2>2. where[c] = "unused"
    BY DEF Rearm, Fresh
  <2>3. ShouldSubmitRecv(tr[x].fd)
    <3>1. fdState[tr[x].fd].registered /\ ~fdState[tr[x].fd].paused
      BY <1>1 DEF Rearm, PauseInSync
    <3>2. fdState[tr[x].fd].inflight < c
      BY <1>1, <2>2 DEF CallFresh
    <3>3. fdState[tr[x].fd].inflight \in Nat /\ c \in Nat /\ c <= MaxCalls
      BY <1>0, <1>1, ConstantsAssumption DEF TypeInv, TypeOK, FdStates, Calls
    <3> QED
      BY <3>1, <3>2, <3>3, ConstantsAssumption DEF ShouldSubmitRecv
  <2>4. PICK b \in Buffers : SubmitRecvQueued(c, tr[x].fd, "recv", b, TRUE)
    BY <1>3, <2>3 DEF RearmOk, SubmitRecvSkipped
  <2>5. /\ op'[c] = [kind |-> "recv", fd |-> tr[x].fd, buf |-> b]
        /\ outcome' = outcome /\ where'[c] = "kernel"
    BY <1>0, <2>4 DEF SubmitRecvQueued, PushAndSubmit, TypeInv, TypeOK
  <2>6. outcome[c] = Pending
    BY <2>2 DEF CallFresh
  <2>7. ioFutures'[tr[x].fd] = c /\ owner'[c] = x
    BY <1>1 DEF Rearm, IoFuturesWith, TransportTypes
  <2>8. Awaits(x)'
    BY <2>1, <2>5, <2>6, <2>7 DEF Awaits, Outstanding
  <2> QED
    BY <2>1, <2>8 DEF Reader
<1> QED
  BY <1>2, <1>3 DEF Rearm

\* The other readers while y submits: those that rest do not depend on the
\* rearming of y.
LEMMA ReaderBesides ==
    ASSUME EngineInv, TransportTypes, MadeFirst, CallFresh, TransportNext,
           NEW x \in Conns, Reader(x), Undisturbed(x),
           ioFutures'[tr[x].fd] = ioFutures[tr[x].fd] \/ ~tr[x].made \/ tr[x].closing,
           NEW y \in Conns, NEW c \in Calls, NEW fd \in Fds, NEW kind \in {"recv", "send"},
           Submit(c, fd, kind), owner' = [owner EXCEPT ![c] = y],
           UNCHANGED <<batch, todo>>,
           rearming = x => rearming' = x,
           ready' = ready \/ ready' = ready \o LostCallback(y)
    PROVE  Reader(x)'
<1> SUFFICES ASSUME tr'[x].made, ~tr'[x].closing
             PROVE  /\ tr'[x].recvPending => Awaits(x)' \/ Called(x)'
                    /\ ~tr'[x].recvPending => Rests(x)'
  BY DEF Reader
<1>1. /\ tr[x].made /\ ~tr[x].closing
      /\ tr'[x].fd = tr[x].fd /\ tr'[x].paused = tr[x].paused
      /\ tr'[x].recvPending = tr[x].recvPending
      /\ tr[x].eof => tr'[x].eof
  BY DEF Undisturbed
<1>2. Awaits(x) => Awaits(x)'
  BY <1>1, AwaitsSubmit
<1>3. Called(x) => Called(x)'
  BY CalledKept
<1>4. NoneFresh => NoneFresh'
  BY EngineStep, NoneFreshKept DEF EngineInv
<1> QED
  BY <1>1, <1>2, <1>3, <1>4 DEF Reader, Rests

\* The receive of one transport leaves the others alone: open transports do
\* not share a descriptor.
LEMMA ReadersRearm ==
    ASSUME EngineInv, TransportTypes, MadeFirst, PauseInSync, CallFresh, Readers,
           MaxCalls <= CreditBudget, TransportNext,
           NEW y \in Conns, NEW c \in Calls, Rearm(y, c)
    PROVE  Readers'
<1> SUFFICES ASSUME NEW x \in Conns, x # y PROVE Reader(x)'
  BY ReaderRearm DEF Readers
<1>1. tr[y].made /\ ~tr[y].closing /\ tr[y].fd \in Fds /\ rearming = y
  BY DEF Rearm, MadeFirst, Unknown
<1>2. Submit(c, tr[y].fd, "recv")
  BY <1>1, RearmIsSubmit
<1>3. tr'[x] = tr[x]
  BY DEF Rearm, RearmOk, RearmError, TransportTypes
<1>4. ioFutures'[tr[x].fd] = ioFutures[tr[x].fd] \/ ~tr[x].made \/ tr[x].closing
  <2> SUFFICES ASSUME tr[x].made, ~tr[x].closing
               PROVE  ioFutures'[tr[x].fd] = ioFutures[tr[x].fd]
    OBVIOUS
  <2>1. tr[x].fd # tr[y].fd
    BY <1>1, OpenOwnsFd
  <2>2. tr[x].fd \in Fds
    BY DEF MadeFirst
  <2> QED
    BY <2>1, <2>2 DEF Rearm, IoFuturesWith, TransportTypes
<1>5. /\ owner' = [owner EXCEPT ![c] = y] /\ UNCHANGED <<batch, todo>>
      /\ ready' = ready \/ ready' = ready \o LostCallback(y)
  BY DEF Rearm, RearmOk, RearmError
<1>6. Undisturbed(x) /\ Reader(x)
  BY <1>3 DEF Undisturbed, Readers
<1>7. rearming = x => rearming' = x
  BY <1>1
<1> QED
  BY <1>1, <1>2, <1>4, <1>5, <1>6, <1>7, ReaderBesides

\* A write leaves every reader alone, also the one of its own transport, whose
\* entry in the engine's map it overwrites.
LEMMA ReadersWrite ==
    ASSUME EngineInv, TransportTypes, MadeFirst, CallFresh, Readers, TransportNext,
           NEW y \in Conns, NEW c \in Calls, Write(y, c)
    PROVE  Readers'
<1> SUFFICES ASSUME NEW x \in Conns PROVE Reader(x)'
  BY DEF Readers
<1>1. tr[y].made /\ tr[y].fd \in Fds /\ tr[y] \in Records
  BY DEF Write, AppRuns, MadeFirst, TransportTypes
<1>2. Submit(c, tr[y].fd, "send")
  BY <1>1, WriteIsSubmit
<1>5. PICK u : /\ tr' = [tr EXCEPT ![y] = u] /\ Later(tr[y], u)
               /\ \/ /\ ready' = ready
                     /\ u.recvPending = tr[y].recvPending /\ u.eof = tr[y].eof
                  \/ ready' = ready \o LostCallback(y) /\ u.closing
  BY WriteIs, ZenonT(60) DEF TransportTypes
<1>3. /\ owner' = [owner EXCEPT ![c] = y] /\ UNCHANGED <<batch, todo, ioFutures, rearming>>
      /\ ready' = ready \/ ready' = ready \o LostCallback(y)
  BY <1>5 DEF Write
<1>4. Undisturbed(x)
  BY <1>5, RecordUndisturbed
<1> QED
  BY <1>1, <1>2, <1>3, <1>4, ReaderBesides DEF Readers

\* The receive callback of a transport clears its pending flag and rearms,
\* sees EOF or closes.
LEMMA ReadersCallback ==
    ASSUME EngineInv, TransportTypes, MadeFirst, Readers, TransportNext,
           NEW y \in Conns, NEW c \in Calls, OnRecvComplete(y, c)
    PROVE  Readers'
<1> DEFINE t == [tr[y] EXCEPT !.recvPending = FALSE]
<1>0. tr[y] \in Records /\ tr \in [Conns -> Records]
  BY DEF TransportTypes
<1>1. /\ Later(tr[y], t) /\ ~t.recvPending /\ t.closing = tr[y].closing
      /\ t \in Records
  BY <1>0, ClearPending DEF Later
<1>2. /\ Running("recvDone", y, c)
      /\ UNCHANGED <<vars, ioFutures, owner, todo>>
      /\ \/ t.closing /\ tr' = [tr EXCEPT ![y] = t] /\ UNCHANGED <<ready, rearming>>
         \/ /\ tr' = [tr EXCEPT ![y] = ForceClosed(t)]
            /\ ready' = ready \o LostCallback(y) /\ UNCHANGED rearming
         \/ tr' = [tr EXCEPT ![y] = t] /\ rearming' = y /\ UNCHANGED ready
         \/ /\ \E keepOpen \in BOOLEAN : tr' = [tr EXCEPT ![y] = EofReceived(t, keepOpen)]
            /\ UNCHANGED <<ready, rearming>>
  BY DEF OnRecvComplete, IsLate
<1> HIDE DEF t
<1>3. Reader(y)'
  <2>1. CASE t.closing /\ tr' = [tr EXCEPT ![y] = t]
    BY <1>0, <2>1 DEF Reader
  <2>2. CASE tr' = [tr EXCEPT ![y] = ForceClosed(t)]
    <3>1. tr'[y].closing
      BY <1>0, <1>1, <2>2, RecordUpdates
    <3> QED
      BY <3>1 DEF Reader
  <2>3. CASE tr' = [tr EXCEPT ![y] = t] /\ rearming' = y
    BY <1>0, <1>1, <2>3 DEF Reader, Rests
  <2>4. ASSUME NEW keepOpen \in BOOLEAN, tr' = [tr EXCEPT ![y] = EofReceived(t, keepOpen)]
        PROVE  Reader(y)'
    <3>1. /\ tr'[y].eof \/ tr'[y].closing
          /\ ~tr'[y].recvPending
      BY <1>0, <1>1, <2>4, RecordUpdates
    <3> QED
      BY <3>1 DEF Reader, Rests
  <2> QED
    BY <1>2, <2>1, <2>2, <2>3, <2>4
<1>4. ASSUME NEW x \in Conns, x # y PROVE Reader(x)'
  <2>1. tr'[x] = tr[x]
    BY <1>0, <1>2, <1>4
  <2>2. Called(x) => Called(x)'
    BY <1>2, <1>4, CalledKept, SMTT(60)
  <2>3. /\ UNCHANGED <<op, outcome, ioFutures, owner>>
        /\ \A d \in Calls : Outstanding(d) => Outstanding(d)'
    BY <1>2, EngineQuiet
  <2>4. \A fd \in Fds : Waiting(fd) => Waiting(fd)'
    BY <1>2 DEF Waiting
  <2>5. rearming # x
    BY <1>2, ConnsAreNot DEF Running
  <2>6. tr[x].paused \/ tr[x].eof => Rests(x)'
    BY <2>1 DEF Rests
  <2> QED
    BY <2>1, <2>2, <2>3, <2>4, <2>5, <2>6, ReaderQuiet DEF Readers
<1> QED
  BY <1>3, <1>4 DEF Readers

\* A new connection and a resumed one go on to _rearm_recv.
LEMMA ReadersBegin ==
    ASSUME EngineInv, TransportTypes, MadeFirst, Readers, TransportNext, NEW y \in Conns,
           \/ \E fd \in Fds : Connect(y, fd)
           \/ PauseReading(y) \/ ResumeReading(y)
    PROVE  Readers'
<1>0. tr[y] \in Records /\ tr \in [Conns -> Records]
  BY DEF TransportTypes
<1>1. /\ UNCHANGED <<op, where, outcome, ioFutures, owner, todo, batch, ready>>
      /\ \A x \in Conns : x # y => tr'[x] = tr[x]
  BY <1>0, Zenon DEF Connect, RegisterFd, PauseReading, ResumeReading, ResumeEngine, SetPaused, vars
<1>2. \A x \in Conns : x # y /\ rearming = x => rearming' = x
  BY ConnsAreNot DEF Connect, PauseReading, ResumeReading, AppRuns
<1>3. /\ \A d \in Calls : Outstanding(d) => Outstanding(d)'
      /\ \A fd \in Fds : Waiting(fd) => Waiting(fd)'
      /\ \A x \in Conns : Called(x) => Called(x)'
  BY <1>1 DEF Outstanding, Waiting, Called
<1>4. ASSUME NEW x \in Conns, x # y PROVE Reader(x)'
  <2>1. (tr[x].paused \/ tr[x].eof \/ rearming = x) => Rests(x)'
    BY <1>1, <1>2, <1>4 DEF Rests
  <2> QED
    BY <1>1, <1>3, <1>4, <2>1, ReaderQuiet DEF Readers
<1>5. ASSUME NEW fd \in Fds, Connect(y, fd) PROVE Reader(y)'
  <2>1. tr'[y] = [NoTransport EXCEPT !.made = TRUE, !.fd = fd] /\ rearming' = y
    BY <1>0, <1>5 DEF Connect
  <2>2. ~tr'[y].recvPending
    BY <2>1 DEF NoTransport
  <2> QED
    BY <2>1, <2>2 DEF Reader, Rests
<1>6. ASSUME tr'[y].fd = tr[y].fd, tr'[y].recvPending = tr[y].recvPending,
             tr'[y].paused \/ rearming' = y, tr[y].made, ~tr[y].closing
      PROVE  Reader(y)'
  <2>1. Rests(y)'
    BY <1>6 DEF Rests
  <2> QED
    BY <1>1, <1>3, <1>6, <2>1, ReaderQuiet DEF Readers
<1>7. CASE PauseReading(y)
  <2>1. tr'[y] = [tr[y] EXCEPT !.paused = TRUE]
    BY <1>0, <1>7 DEF PauseReading
  <2>2. tr[y].made /\ ~tr[y].closing
    BY <1>7 DEF PauseReading, AppRuns
  <2>3. /\ tr'[y].fd = tr[y].fd /\ tr'[y].recvPending = tr[y].recvPending
        /\ tr'[y].paused
    BY <1>0, <2>1 DEF Records
  <2> QED
    BY <1>4, <1>6, <2>2, <2>3 DEF Readers
<1>8. CASE ResumeReading(y)
  <2>1. tr'[y] = [tr[y] EXCEPT !.paused = FALSE]
    BY <1>0, <1>8 DEF ResumeReading
  <2>2. tr[y].made /\ ~tr[y].closing /\ rearming' = y
    BY <1>8 DEF ResumeReading, AppRuns
  <2>3. tr'[y].fd = tr[y].fd /\ tr'[y].recvPending = tr[y].recvPending
    BY <1>0, <2>1 DEF Records
  <2> QED
    BY <1>4, <1>6, <2>2, <2>3 DEF Readers
<1> QED
  BY <1>4, <1>5, <1>7, <1>8 DEF Readers

\* The remaining handlers close a transport or do not concern its reading.
LEMMA ReadersOther ==
    ASSUME EngineInv, TransportTypes, MadeFirst, Readers, TransportNext, NEW x \in Conns,
           NEW y \in Conns,
           \/ \E c \in Calls : OnWriteComplete(y, c)
           \/ CallConnectionLost(y) \/ Close(y) \/ Abort(y)
           \/ RearmSkipped(y) \/ RearmBeyondBound(y)
    PROVE  Reader(x)'
<1>0. tr[y] \in Records /\ tr \in [Conns -> Records] /\ Reader(x)
  BY DEF TransportTypes, Readers
<1>1. UNCHANGED <<vars, ioFutures, owner, todo>>
  BY DEF OnWriteComplete, CallConnectionLost, Close, Abort, RearmSkipped, RearmBeyondBound
<1>2. \A fd \in Fds : Waiting(fd) => Waiting(fd)'
  BY <1>1 DEF Waiting
<1>3. Called(x) => Called(x)'
  <2>1. /\ \/ batch' = batch
           \/ \E what, z, c : Running(what, z, c) /\ (what # "recvDone" \/ z # x)
        /\ ready' = ready \/ ready' = ready \o LostCallback(y)
    BY DEF OnWriteComplete, CallConnectionLost, Close, Abort, RearmSkipped, RearmBeyondBound
  <2> QED
    BY <2>1, CalledKept
<1>4. ASSUME NEW u, Later(tr[y], u),
             u.closing \/ (u.recvPending = tr[y].recvPending /\ (tr[y].eof => u.eof)),
             tr' = [tr EXCEPT ![y] = u], rearming' = rearming
      PROVE  Reader(x)'
  BY <1>0, <1>1, <1>2, <1>3, <1>4, ReaderUpdate
<1>5. CASE UNCHANGED <<tr, rearming>>
  <2>1. \A fd \in Fds : Waiting(fd) => Waiting(fd)'
    BY <1>2
  <2>2. /\ UNCHANGED <<op, outcome>>
        /\ \A c \in Calls : Outstanding(c) => Outstanding(c)'
    BY <1>1, EngineQuiet
  <2>3. (tr[x].paused \/ tr[x].eof \/ rearming = x) => Rests(x)'
    BY <1>5 DEF Rests
  <2> QED
    BY <1>0, <1>1, <1>3, <1>5, <2>1, <2>2, <2>3, ReaderQuiet
<1>6. ASSUME NEW c \in Calls, OnWriteComplete(y, c) PROVE Reader(x)'
  <2>1. /\ rearming' = rearming
        /\ \/ tr' = tr
           \/ tr' = [tr EXCEPT ![y] = SendCompleted(tr[y], 1)]
           \/ tr' = [tr EXCEPT ![y] = ForceClosed(tr[y])]
    BY <1>6 DEF OnWriteComplete
  <2>2. /\ Later(tr[y], SendCompleted(tr[y], 1)) /\ Later(tr[y], ForceClosed(tr[y]))
        /\ ForceClosed(tr[y]).closing
        /\ SendCompleted(tr[y], 1).recvPending = tr[y].recvPending
        /\ SendCompleted(tr[y], 1).eof = tr[y].eof
    BY <1>0, RecordUpdates
  <2>3. CASE tr' = tr
    BY <1>5, <2>1, <2>3
  <2>4. CASE tr' = [tr EXCEPT ![y] = SendCompleted(tr[y], 1)]
    <3> DEFINE u == SendCompleted(tr[y], 1)
    <3>1. Later(tr[y], u) /\ u.recvPending = tr[y].recvPending /\ (tr[y].eof => u.eof)
      BY <2>2
    <3>2. tr' = [tr EXCEPT ![y] = u]
      BY <2>4
    <3> HIDE DEF u
    <3> QED
      BY <1>4, <2>1, <3>1, <3>2
  <2>5. CASE tr' = [tr EXCEPT ![y] = ForceClosed(tr[y])]
    <3> DEFINE u == ForceClosed(tr[y])
    <3>1. Later(tr[y], u) /\ u.closing /\ tr' = [tr EXCEPT ![y] = u]
      BY <2>2, <2>5
    <3> HIDE DEF u
    <3> QED
      BY <1>4, <2>1, <3>1
  <2> QED
    BY <2>1, <2>3, <2>4, <2>5
<1>7. CASE Close(y) \/ Abort(y)
  <2>1. /\ rearming' = rearming
        /\ \E u \in {Closed(tr[y]), ForceClosed(tr[y])} : tr' = [tr EXCEPT ![y] = u]
    BY <1>7 DEF Close, Abort
  <2>2. PICK u \in {Closed(tr[y]), ForceClosed(tr[y])} : tr' = [tr EXCEPT ![y] = u]
    BY <2>1
  <2>3. Later(tr[y], u) /\ u.closing
    BY <1>0, RecordUpdates
  <2> QED
    BY <1>4, <2>1, <2>2, <2>3
<1>8. CASE CallConnectionLost(y)
  <2> DEFINE u == [tr[y] EXCEPT !.lost = @ + 1]
  <2>1. tr' = [tr EXCEPT ![y] = u] /\ rearming' = rearming
    BY <1>8 DEF CallConnectionLost
  <2>2. /\ u.made = tr[y].made /\ u.closing = tr[y].closing /\ u.fd = tr[y].fd
        /\ u.recvPending = tr[y].recvPending /\ u.paused = tr[y].paused /\ u.eof = tr[y].eof
    BY <1>0 DEF Records
  <2> HIDE DEF u
  <2>3. tr'[x] = IF x = y THEN u ELSE tr[x]
    BY <1>0, <2>1
  <2>4. /\ UNCHANGED <<op, outcome>>
        /\ \A c \in Calls : Outstanding(c) => Outstanding(c)'
    BY <1>1, EngineQuiet
  <2>5. (tr[x].paused \/ tr[x].eof \/ rearming = x) => Rests(x)'
    BY <2>1, <2>2, <2>3 DEF Rests
  <2> QED
    BY <1>0, <1>1, <1>2, <1>3, <2>2, <2>3, <2>4, <2>5, ReaderQuiet
<1>9. CASE RearmSkipped(y) \/ RearmBeyondBound(y)
  <2>1. tr' = tr /\ rearming = y
    BY <1>9 DEF RearmSkipped, RearmBeyondBound
  <2>2. CASE ~tr[x].made \/ tr[x].closing
    BY <2>1, <2>2 DEF Reader
  <2>3. CASE tr[x].made /\ ~tr[x].closing
    <3>1. ~tr[x].recvPending /\ (tr[x].paused \/ tr[x].eof \/ rearming = x) => Rests(x)'
      <4>1. NoneFresh => NoneFresh'
        BY <1>1 DEF NoneFresh, Fresh, vars
      <4> QED
        BY <1>9, <2>1, <2>3, <4>1 DEF RearmSkipped, RearmBeyondBound, Rests, NoneFresh
    <3>2. /\ UNCHANGED <<op, outcome>>
          /\ \A c \in Calls : Outstanding(c) => Outstanding(c)'
      BY <1>1, EngineQuiet
    <3> QED
      BY <1>0, <1>1, <1>2, <1>3, <2>1, <3>1, <3>2, ReaderQuiet
  <2> QED
    BY <2>2, <2>3
<1> QED
  BY <1>6, <1>7, <1>8, <1>9

\* Every step keeps the readers going.
LEMMA ReadersStep ==
    ASSUME TransportInv, CallFresh, TodoDone, Readers, MaxCalls <= CreditBudget, TransportNext
    PROVE  Readers'
<1>0. EngineInv /\ TransportTypes /\ MadeFirst /\ BatchDone /\ PauseInSync
  BY DEF TransportInv
<1>1. CASE Tick
  BY <1>0, <1>1, ReaderTick DEF Readers
<1>2. CASE HandleRecv
  BY <1>0, <1>2, ReaderHandleRecv DEF Readers
<1>3. CASE HandleSend
  <2> SUFFICES ASSUME NEW x \in Conns PROVE Reader(x)'
    BY DEF Readers
  <2> DEFINE y == transports[Head(todo).fd]
             u == SendCompleted(tr[y], 1)
  <2>1. /\ todo' \in Seq(ResultItems) /\ Len(todo') = Len(todo) - 1 /\ Len(todo) > 0
        /\ Head(todo) = todo[1] /\ y \in Conns \cup {None}
        /\ \A i \in 1..Len(todo') : todo'[i] = todo[i + 1]
    BY <1>0, <1>3, HandlingTypes DEF HandleSend
  <2>2. /\ tr' = tr \/ tr' = [tr EXCEPT ![y] = u]
        /\ UNCHANGED <<vars, ioFutures, owner, ready, batch, rearming>>
        /\ Head(todo).kind = "send"
    BY <1>3 DEF HandleSend, Handling
  <2>3. y \in Conns => /\ Later(tr[y], u)
                       /\ u.recvPending = tr[y].recvPending /\ (tr[y].eof => u.eof)
    BY <1>0, RecordUpdates DEF TransportTypes
  <2> HIDE DEF y, u
  <2>4. ASSUME NEW fd \in Fds, Waiting(fd) PROVE Waiting(fd)'
    <3>1. PICK i \in 1..Len(todo) : todo[i].kind = "recv" /\ todo[i].fd = fd
      BY <2>4 DEF Waiting
    <3>2. i - 1 \in 1..Len(todo') /\ todo'[i - 1] = todo[i]
      BY <2>1, <2>2, <3>1
    <3> QED
      BY <3>1, <3>2 DEF Waiting
  <2>5. Called(x) => Called(x)'
    BY <2>2 DEF Called
  <2> QED
    BY <1>0, <2>1, <2>2, <2>3, <2>4, <2>5, ReaderUpdate DEF Readers
<1>4. ASSUME EndBatch \/ EndProcess \/ \E c \in Calls, res \in {"pos", "zero", "neg"} : Kernel(c, res)
      PROVE  Readers'
  <2>1. UNCHANGED <<tr, ioFutures, owner, todo, batch, ready, rearming, op, outcome>>
    BY <1>4 DEF EndBatch, EndProcess, Kernel, KernelComplete, vars
  <2>2. \A c \in Calls : Outstanding(c) => Outstanding(c)'
    <3>1. where \in [Calls -> Stages]
      BY <1>0 DEF EngineInv, TypeInv, TypeOK
    <3>2. where' = where \/ \E c \in Calls : where' = [where EXCEPT ![c] = "cq"]
      BY <1>4 DEF EndBatch, EndProcess, Kernel, KernelComplete, vars
    <3> QED
      BY <3>1, <3>2 DEF Outstanding
  <2>3. ASSUME NEW x \in Conns PROVE Reader(x)'
    <3>1. /\ Called(x) => Called(x)'
          /\ \A fd \in Fds : Waiting(fd) => Waiting(fd)'
          /\ (tr[x].paused \/ tr[x].eof \/ rearming = x) => Rests(x)'
      BY <2>1 DEF Called, Waiting, Rests
    <3> QED
      BY <1>0, <2>1, <2>2, <3>1, ReaderQuiet DEF Readers
  <2> QED
    BY <2>3 DEF Readers
<1>5. ASSUME NEW y \in Conns, NEW fd \in Fds, Connect(y, fd) PROVE Readers'
  BY <1>0, <1>5, ReadersBegin
<1>6. ASSUME NEW y \in Conns, PauseReading(y) \/ ResumeReading(y) PROVE Readers'
  BY <1>0, <1>6, ReadersBegin
<1>7. ASSUME NEW y \in Conns, NEW c \in Calls, Rearm(y, c) PROVE Readers'
  BY <1>0, <1>7, ReadersRearm
<1>8. ASSUME NEW y \in Conns, NEW c \in Calls, Write(y, c) PROVE Readers'
  BY <1>0, <1>8, ReadersWrite
<1>9. ASSUME NEW y \in Conns, NEW c \in Calls, OnRecvComplete(y, c) PROVE Readers'
  BY <1>0, <1>9, ReadersCallback
<1>10. ASSUME NEW y \in Conns, NEW c \in Calls, OnWriteComplete(y, c) PROVE Readers'
  BY <1>0, <1>10, ReadersOther DEF Readers
<1>11. ASSUME NEW y \in Conns,
              \/ CallConnectionLost(y) \/ Close(y) \/ Abort(y)
              \/ RearmSkipped(y) \/ RearmBeyondBound(y)
       PROVE  Readers'
  BY <1>0, <1>11, ReadersOther DEF Readers
<1> QED
  BY <1>1, <1>2, <1>3, <1>4, <1>5, <1>6, <1>7, <1>8, <1>9, <1>10, <1>11 DEF TransportNext

ReaderInv == TransportInv /\ CallFresh /\ TodoDone /\ Readers

(***************************************************************************)
(* A reader never stalls while it has credit, however many connections     *)
(* follow each other on its descriptor and whatever writes, pauses, errors *)
(* and late completions come in between.  The credit has to cover the      *)
(* submissions because run_tick never gives any back: without it           *)
(* submit_recv drops the receive silently and the reader does stall.       *)
(***************************************************************************)
THEOREM ReaderAliveCorrect ==
    MaxCalls <= CreditBudget => (TransportSpec => []ReaderAlive)
<1> SUFFICES ASSUME MaxCalls <= CreditBudget PROVE TransportSpec => []ReaderAlive
  OBVIOUS
<1>1. TransportInit => ReaderInv
  <2> SUFFICES ASSUME TransportInit PROVE ReaderInv
    OBVIOUS
  <2>1. CallFresh
    <3>1. \A d \in Calls : 0 < d
      BY ConstantsAssumption DEF Calls
    <3>2. \A fd \in Fds : fdState[fd].inflight = 0
      BY DEF TransportInit, Init, NotRegistered
    <3> QED
      BY <3>1, <3>2, ConnsAreNot DEF TransportInit, Init, CallFresh
  <2>2. TodoDone
    BY DEF TransportInit, TodoDone
  <2>3. Readers
    BY DEF TransportInit, Readers, Reader, NoTransport
  <2> QED
    BY <2>1, <2>2, <2>3, TransportInvInit DEF ReaderInv
<1>2. ReaderInv /\ [TransportNext]_allVars => ReaderInv'
  <2> SUFFICES ASSUME ReaderInv, [TransportNext]_allVars PROVE ReaderInv'
    OBVIOUS
  <2>1. TransportInv'
    BY TransportInvStep DEF ReaderInv
  <2>2. CASE TransportNext
    <3>1. CallFresh' /\ TodoDone'
      BY <2>2, CallFreshStep, TodoDoneStep DEF ReaderInv, TransportInv
    <3>2. Readers'
      BY <2>2, ReadersStep DEF ReaderInv
    <3> QED
      BY <2>1, <3>1, <3>2 DEF ReaderInv
  <2>3. CASE UNCHANGED allVars
    <3>1. UNCHANGED vars /\ UNCHANGED trVars
      BY <2>3 DEF allVars
    <3>2. CallFresh' /\ TodoDone'
      BY <3>1 DEF vars, trVars, ReaderInv, CallFresh, TodoDone
    <3>3. Readers'
      BY <3>1 DEF vars, trVars, ReaderInv, Readers, Reader, Awaits, Called, Rests, NoneFresh,
                  Fresh, Outstanding, Waiting
    <3> QED
      BY <2>1, <3>2, <3>3 DEF ReaderInv
  <2> QED
    BY <2>2, <2>3
<1>3. ReaderInv => ReaderAlive
  BY ReadersAlive DEF ReaderInv, TransportInv
<1> QED
  BY <1>1, <1>2, <1>3, PTL DEF TransportSpec

============================================================================
