------------------------- MODULE MCStreamTransport -------------------------
(***************************************************************************)
(* TLC instances of StreamTransport.                                       *)
(***************************************************************************)
EXTENDS StreamTransport

CONSTANTS f1, b1, b2

OneFd == {f1}
TwoBuffers == {b1, b2}
StreamKinds == {"recv", "send"}
OneConn == {1}
NoMoves == {}

\* Each tick overwrites results and copies it to todo, where it is read
View == <<free, sendHeld, fdState, inflightRecv, futures, op, where, cq, mem,
          outcome, trVars>>

Symmetry == Permutations(Buffers)
============================================================================
