------------------------------ MODULE Datagram ------------------------------
(***************************************************************************)
(* UringDatagramTransport (datagram.py): a UDP socket watched with         *)
(* add_reader and written to directly.                                     *)
(***************************************************************************)
EXTENDS FdLoop

CONSTANTS MaxArrivals   \* bound: datagrams and errors that reach the socket

ASSUME DatagramAssumption == MaxArrivals \in Nat

VARIABLES
    dg,        \* the transport; busy: inside datagram_received, lost counts
               \* connection_lost
    inbox,     \* the socket's receive queue: "data", or "error" (an ICMP answer)
    arrivals,  \* how much reached the socket
    received,  \* calls of datagram_received
    reported   \* calls of error_received

dgVars == <<dg, inbox, arrivals, received, reported>>

DatagramInit ==
    /\ dg = [on |-> FALSE, closing |-> FALSE, busy |-> FALSE, lost |-> 0]
    /\ inbox = <<>> /\ arrivals = 0 /\ received = 0 /\ reported = 0

----------------------------------------------------------------------------
\* create_datagram_endpoint: connection_made follows at once, before any
\* callback of the reader can run
CreateEndpoint ==
    /\ ~dg.on
    /\ dg' = [dg EXCEPT !.on = TRUE]
    /\ watched' = watched \cup {"datagram"}
    /\ UNCHANGED <<ready, inbox, arrivals, received, reported>>

Arrives(what) ==
    /\ dg.on /\ arrivals < MaxArrivals
    /\ inbox' = Append(inbox, what)
    /\ arrivals' = arrivals + 1
    /\ UNCHANGED <<fdLoopVars, dg, received, reported>>

\* The kernel may discard what it reported, a bad checksum for example
KernelDiscards ==
    /\ inbox # <<>> /\ inbox' = Tail(inbox)
    /\ UNCHANGED <<fdLoopVars, dg, arrivals, received, reported>>

\* Bug: a queued _read_ready does not look at _closing
BugReceives == inbox # <<>>
Receives == ~dg.closing /\ inbox # <<>>

\* _read_ready does nothing: closing, or BlockingIOError
DatagramNothing ==
    /\ Runs("datagram") /\ ~dg.busy /\ ~Receives
    /\ Return
    /\ UNCHANGED <<watched, dgVars>>

\* _read_ready: recvfrom raises, error_received
DatagramError ==
    /\ Runs("datagram") /\ ~dg.busy /\ Receives /\ Head(inbox) = "error"
    /\ inbox' = Tail(inbox)
    /\ reported' = reported + 1
    /\ Return
    /\ UNCHANGED <<watched, dg, arrivals, received>>

\* _read_ready calls datagram_received, which may send, close and raise
DatagramData ==
    /\ Runs("datagram") /\ ~dg.busy /\ Receives /\ Head(inbox) = "data"
    /\ inbox' = Tail(inbox)
    /\ received' = received + 1
    /\ dg' = [dg EXCEPT !.busy = TRUE]
    /\ UNCHANGED <<fdLoopVars, arrivals, reported>>

\* datagram_received returns, or raises BlockingIOError
ReceivedReturns ==
    /\ dg.busy
    /\ dg' = [dg EXCEPT !.busy = FALSE]
    /\ Return
    /\ UNCHANGED <<watched, inbox, arrivals, received, reported>>

\* datagram_received raises another exception: _read_ready takes it for one of
\* the socket and calls error_received, also if the transport was closed
ReceivedRaises ==
    /\ dg.busy
    /\ dg' = [dg EXCEPT !.busy = FALSE]
    /\ reported' = reported + 1
    /\ Return
    /\ UNCHANGED <<watched, inbox, arrivals, received>>

\* sendto that the kernel refuses with an error.  One that works, or that a
\* full socket buffer drops with BlockingIOError, changes nothing here.
SendtoFails ==
    /\ dg.on /\ ~dg.closing /\ reported < MaxArrivals
    /\ reported' = reported + 1
    /\ UNCHANGED <<fdLoopVars, dg, inbox, arrivals, received>>

\* Bug: close() does not schedule connection_lost
BugCloseDatagram ==
    /\ dg.on /\ ~dg.closing
    /\ dg' = [dg EXCEPT !.closing = TRUE]
    /\ watched' = watched \ {"datagram"}
    /\ UNCHANGED <<ready, inbox, arrivals, received, reported>>

\* close, which abort calls
CloseDatagram ==
    /\ dg.on /\ ~dg.closing
    /\ dg' = [dg EXCEPT !.closing = TRUE]
    /\ watched' = watched \ {"datagram"}
    /\ CallSoon("datagramLost")
    /\ UNCHANGED <<inbox, arrivals, received, reported>>

\* _call_connection_lost
DatagramLost ==
    /\ Runs("datagramLost")
    /\ dg' = [dg EXCEPT !.lost = @ + 1]
    /\ Return
    /\ UNCHANGED <<watched, inbox, arrivals, received, reported>>

DatagramLoop ==
    \/ Poll(IF inbox = <<>> THEN {} ELSE {"datagram"}) /\ UNCHANGED dgVars
    \/ DatagramNothing \/ DatagramError \/ DatagramData
    \/ ReceivedReturns \/ ReceivedRaises \/ DatagramLost

DatagramNext ==
    \/ CreateEndpoint \/ CloseDatagram \/ SendtoFails
    \/ KernelDiscards \/ \E what \in {"data", "error"} : Arrives(what)
    \/ DatagramLoop

DatagramSpec ==
    FdLoopInit /\ DatagramInit /\ [][DatagramNext]_<<fdLoopVars, dgVars>>

----------------------------------------------------------------------------
(***************************************************************************)
(* Properties                                                              *)
(***************************************************************************)

(***************************************************************************)
(* close() is the end: the protocol gets no datagram after it, not even    *)
(* through a _read_ready that was queued before, and no error but one: a   *)
(* datagram_received that closes the transport and then raises gets its    *)
(* own exception as error_received.  connection_lost is the last and only  *)
(* call after that.                                                        *)
(***************************************************************************)
DatagramQuietAfterClose ==
    [][/\ received' # received => ~dg.closing
       /\ reported' # reported /\ dg.closing => dg.busy /\ ~dg'.busy
       /\ <<received, reported>>' # <<received, reported>> => dg.lost = 0
       /\ dg'.lost <= 1]_<<dg, received, reported>>

\* A closed endpoint gets connection_lost.
DatagramLostCalled == dg.closing ~> dg.lost = 1
============================================================================
