--------------------------- MODULE DatagramProofs ---------------------------
(***************************************************************************)
(* Theorems about Datagram.                                                *)
(***************************************************************************)
EXTENDS Datagram, FiniteSetTheorems, TLAPS

DatagramTypeOK ==
    /\ watched \subseteq {"datagram"}
    /\ ready \in Seq({"datagram", "datagramLost"})
    /\ dg \in [on : BOOLEAN, closing : BOOLEAN, busy : BOOLEAN, lost : Nat]

(***************************************************************************)
(* _call_connection_lost is queued once, by close(), and until it has run  *)
(* connection_lost was not called.  A datagram_received in progress holds  *)
(* the queue: its _read_ready is at the head.                              *)
(***************************************************************************)
LostPending ==
    /\ \A i, j \in DOMAIN ready :
          ready[i] = "datagramLost" /\ ready[j] = "datagramLost" => i = j
    /\ (\E i \in DOMAIN ready : ready[i] = "datagramLost") => dg.closing /\ dg.lost = 0
    /\ dg.lost <= 1
    /\ dg.lost = 1 => dg.closing
    /\ dg.busy => ready # <<>> /\ Head(ready) = "datagram" /\ dg.lost = 0

DatagramInv == DatagramTypeOK /\ LostPending

\* epoll queues callbacks of watched descriptors only.
LEMMA PollQueuesWatched ==
    ASSUME NEW live, Poll(live), watched \subseteq {"datagram"}
    PROVE  ready' \in Seq({"datagram"}) /\ watched' = watched
<1> DEFINE found == watched \cap live
<1>1. Cardinality(found) \in Nat
  <2>1. IsFiniteSet({"datagram"})
    BY FS_Singleton
  <2>2. found \subseteq {"datagram"}
    OBVIOUS
  <2> QED
    BY <2>1, <2>2, FS_Subset, FS_CardinalityType
<1>2. PICK s \in [1..Cardinality(found) -> found] : ready' = s
  BY DEF Poll
<1>3. s \in [1..Cardinality(found) -> {"datagram"}]
  BY <1>2
<1> HIDE DEF found
<1> QED
  BY <1>1, <1>2, <1>3 DEF Poll

\* What is left of the queue after its first callback ran.
LEMMA ReturnShifts ==
    ASSUME DatagramTypeOK, ready # <<>>, Return
    PROVE  /\ ready' \in Seq({"datagram", "datagramLost"})
           /\ Head(ready) = ready[1] /\ 1 \in DOMAIN ready
           /\ \A i \in DOMAIN ready' : i + 1 \in DOMAIN ready /\ ready'[i] = ready[i + 1]
  BY DEF DatagramTypeOK, Return

\* Every step keeps the invariant.
LEMMA DatagramInvStep ==
    DatagramInv /\ [DatagramNext]_<<fdLoopVars, dgVars>> => DatagramInv'
<1> SUFFICES ASSUME DatagramInv, [DatagramNext]_<<fdLoopVars, dgVars>>
             PROVE  DatagramInv'
  OBVIOUS
<1> USE DEF DatagramInv, DatagramTypeOK, LostPending, fdLoopVars, dgVars
<1>1. CASE CreateEndpoint
  BY <1>1 DEF CreateEndpoint
<1>2. CASE CloseDatagram
  <2>1. /\ ready' = Append(ready, "datagramLost")
        /\ dg' = [dg EXCEPT !.closing = TRUE] /\ ~dg.closing
    BY <1>2 DEF CloseDatagram, CallSoon
  <2>2. DatagramTypeOK'
    <3>1. ready' \in Seq({"datagram", "datagramLost"})
      BY <2>1
    <3>2. watched' \subseteq {"datagram"}
      BY <1>2 DEF CloseDatagram
    <3> QED
      BY <2>1, <3>1, <3>2
  <2>3. dg'.closing /\ dg'.lost = 0
    BY <2>1
  <2>4. \A i \in DOMAIN ready : ready[i] # "datagramLost"
    BY <2>1
  <2>5. \A i \in DOMAIN ready' : ready'[i] = "datagramLost" => i = Len(ready) + 1
    BY <2>1, <2>4
  <2>6. dg'.busy => ready' # <<>> /\ Head(ready') = "datagram"
    BY <2>1
  <2> QED
    BY <2>2, <2>3, <2>5, <2>6
<1>3. CASE SendtoFails
  BY <1>3 DEF SendtoFails
<1>4. CASE KernelDiscards
  BY <1>4 DEF KernelDiscards
<1>5. ASSUME NEW what, Arrives(what) PROVE DatagramInv'
  BY <1>5 DEF Arrives
<1>6. CASE DatagramNothing \/ DatagramError \/ ReceivedReturns \/ ReceivedRaises
  <2>1. /\ ready # <<>> /\ Return /\ watched' = watched
        /\ dg' \in {dg, [dg EXCEPT !.busy = FALSE]} /\ ~dg'.busy
    BY <1>6 DEF DatagramNothing, DatagramError, ReceivedReturns, ReceivedRaises, Runs
  <2>2. /\ dg'.closing = dg.closing /\ dg'.lost = dg.lost
        /\ dg' \in [on : BOOLEAN, closing : BOOLEAN, busy : BOOLEAN, lost : Nat]
    BY <2>1
  <2> QED
    BY <2>1, <2>2, ReturnShifts
<1>7. CASE DatagramLost
  <2>1. /\ ready # <<>> /\ Head(ready) = "datagramLost" /\ Return
        /\ dg' = [dg EXCEPT !.lost = @ + 1] /\ watched' = watched
    BY <1>7 DEF DatagramLost, Runs
  <2>2. dg.closing /\ dg.lost = 0 /\ ~dg.busy
    BY <2>1, ReturnShifts
  <2>3. dg'.closing /\ dg'.lost = 1 /\ ~dg'.busy /\ DatagramTypeOK'
    BY <2>1, <2>2, ReturnShifts
  <2>4. \A i \in DOMAIN ready' : ready'[i] # "datagramLost"
    BY <2>1, ReturnShifts
  <2> QED
    BY <2>3, <2>4
<1>8. ASSUME NEW live, Poll(live), UNCHANGED dgVars PROVE DatagramInv'
  <2>1. ready' \in Seq({"datagram"}) /\ watched' = watched
    BY <1>8, PollQueuesWatched
  <2>2. \A i \in DOMAIN ready' : ready'[i] = "datagram"
    BY <2>1
  <2>3. ready' \in Seq({"datagram", "datagramLost"})
    BY <2>1
  <2>4. ~dg.busy
    BY <1>8 DEF Poll
  <2> QED
    BY <1>8, <2>1, <2>2, <2>3, <2>4
<1>9. CASE UNCHANGED <<fdLoopVars, dgVars>>
  BY <1>9
<1>10. CASE DatagramData
  <2>1. /\ ready # <<>> /\ Head(ready) = "datagram" /\ UNCHANGED <<ready, watched>>
        /\ dg' = [dg EXCEPT !.busy = TRUE] /\ ~dg.closing
    BY <1>10 DEF DatagramData, Runs, Receives
  <2>2. dg \in [on : BOOLEAN, closing : BOOLEAN, busy : BOOLEAN, lost : Nat] /\ dg.lost = 0
    BY <2>1
  <2>3. /\ dg'.closing = dg.closing /\ dg'.lost = 0
        /\ dg' \in [on : BOOLEAN, closing : BOOLEAN, busy : BOOLEAN, lost : Nat]
    BY <2>1, <2>2
  <2> QED
    BY <2>1, <2>2, <2>3
<1> QED
  BY <1>1, <1>2, <1>3, <1>4, <1>5, <1>6, <1>7, <1>8, <1>9, <1>10
  DEF DatagramNext, DatagramLoop

(***************************************************************************)
(* A protocol hears of nothing after close() but the exception of its own  *)
(* datagram_received, if that is where close() was called, and then        *)
(* connection_lost, once: whatever was queued when close() was called,     *)
(* however many datagrams arrive.                                          *)
(***************************************************************************)
THEOREM DatagramQuietCorrect == DatagramSpec => DatagramQuietAfterClose
<1> DEFINE Quiet == /\ received' # received => ~dg.closing
                    /\ reported' # reported /\ dg.closing => dg.busy /\ ~dg'.busy
                    /\ <<received, reported>>' # <<received, reported>> => dg.lost = 0
                    /\ dg'.lost <= 1
<1>1. FdLoopInit /\ DatagramInit => DatagramInv
  BY DEF FdLoopInit, DatagramInit, DatagramInv, DatagramTypeOK, LostPending
<1>2. DatagramInv /\ DatagramInv' /\ [DatagramNext]_<<fdLoopVars, dgVars>>
        => [Quiet]_<<dg, received, reported>>
  <2> SUFFICES ASSUME DatagramInv, DatagramInv', DatagramNext PROVE Quiet
    BY DEF dgVars
  <2>1. /\ dg'.lost <= 1 /\ (dg.busy => dg.lost = 0) /\ (~dg.closing => dg.lost = 0)
        /\ dg \in [on : BOOLEAN, closing : BOOLEAN, busy : BOOLEAN, lost : Nat]
    BY DEF DatagramInv, DatagramTypeOK, LostPending
  <2>2. /\ received' # received => DatagramData
        /\ reported' # reported => DatagramError \/ ReceivedRaises \/ SendtoFails
    BY DEF DatagramNext, DatagramLoop, CreateEndpoint, CloseDatagram, KernelDiscards,
           Arrives, DatagramNothing, DatagramError, DatagramData, ReceivedReturns, ReceivedRaises,
           SendtoFails, DatagramLost, dgVars
  <2>3. DatagramData \/ DatagramError \/ SendtoFails => ~dg.closing
    BY DEF DatagramData, DatagramError, SendtoFails, Receives
  <2>4. ReceivedRaises => dg.busy /\ ~dg'.busy
    BY <2>1 DEF ReceivedRaises
  <2> QED
    BY <2>1, <2>2, <2>3, <2>4
<1> QED
  BY <1>1, <1>2, DatagramInvStep, PTL DEF DatagramSpec, DatagramQuietAfterClose
============================================================================
