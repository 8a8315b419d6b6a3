---------------------------- MODULE MCEventLoop ----------------------------
(***************************************************************************)
(* TLC instances of EventLoop.                                             *)
(***************************************************************************)
EXTENDS EventLoop

CONSTANTS d1, t1, g1

NoFds == {}
OneFd == {d1}
NoThreads == {}
OneThread == {t1}
NoFutures == {}
OneFuture == {g1}
============================================================================
