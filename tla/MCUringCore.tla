---------------------------- MODULE MCUringCore ----------------------------
(***************************************************************************)
(* TLC instances of UringCore: descriptors and buffers are model values    *)
(* and interchangeable.                                                    *)
(***************************************************************************)
EXTENDS UringCore, TLC

CONSTANTS f1, f2, b1, b2

OneFd == {f1}
TwoFds == {f1, f2}
TwoBuffers == {b1, b2}
MixedKinds == {"recv", "send", "sendmsg"}
MessageKinds == {"recvmsg", "sendmsg", "accept"}
ReceiveOnly == {"recv"}

Symmetry == Permutations(Fds) \cup Permutations(Buffers)

\* What buffers, credits and futures depend on.  The contents of buffers, the
\* values futures got and the list returned to Python feed back into none of
\* the other variables, so states that differ only there need one visit.
BookkeepingView == <<free, sendHeld, fdState, inflightRecv, futures,
                     recvmsgState, sendmsgState, op, where, cq>>

\* The list run_tick returned is read by nothing in this module
CoreView == <<BookkeepingView, mem, outcome>>
============================================================================
