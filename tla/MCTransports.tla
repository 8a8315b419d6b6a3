---------------------------- MODULE MCTransports ----------------------------
(***************************************************************************)
(* TLC instances of the transports that live on add_reader and add_writer, *)
(* and of the server.  They share the loop and nothing else, so each       *)
(* behaviour is about one of them; the initial state says which.           *)
(***************************************************************************)
EXTENDS Pipes, Datagram, Subprocess, Server

CONSTANT Scenarios

VARIABLE scenario

otherVars == <<fdLoopVars, pipeVars, dgVars, spVars, serverVars>>
mcVars == <<scenario, otherVars>>

MCInit ==
    /\ scenario \in Scenarios
    /\ FdLoopInit /\ PipeInit /\ DatagramInit /\ SubprocessInit /\ ServerInit

InPipe(A) ==
    scenario = "pipe" /\ A /\ UNCHANGED <<scenario, dgVars, spVars, serverVars>>
InDatagram(A) ==
    scenario = "datagram" /\ A /\ UNCHANGED <<scenario, pipeVars, spVars, serverVars>>
InSubprocess(A) ==
    scenario = "subprocess" /\ A /\ UNCHANGED <<scenario, pipeVars, dgVars, serverVars>>
InServer(A) ==
    scenario = "server" /\ A /\ UNCHANGED <<scenario, fdLoopVars, pipeVars, dgVars, spVars>>

MCNext ==
    \/ InPipe(PipeNext) \/ InDatagram(DatagramNext)
    \/ InSubprocess(SubprocessNext) \/ InServer(ServerNext)

\* The loop polls and runs what is ready
LoopSteps ==
    \/ InPipe(PipeLoop \/ WriteProgress \/ WriteNothing)
    \/ InDatagram(DatagramLoop) \/ InSubprocess(SubprocessLoop) \/ InServer(ServerLoop)

\* The thread that waits for a child runs, the kernel accepts who is waiting
OutsideSteps ==
    \/ InSubprocess(ThreadNotices)
    \/ \E s \in Servers, c \in Clients : InServer(KernelAccepts(s, c))

(***************************************************************************)
(* Fairness, one condition for all scenarios since a behaviour stays in    *)
(* one.  A pipe that has room again and again does not refuse every write. *)
(* Applications, peers and children owe nothing.                           *)
(***************************************************************************)
MCSpec ==
    /\ MCInit /\ [][MCNext]_mcVars
    /\ WF_mcVars(LoopSteps)
    /\ WF_mcVars(OutsideSteps)
    /\ SF_mcVars(InPipe(WriteProgress))

TwoOuts == {"stdout", "stderr"}
OneOut == {"stdout"}
============================================================================
