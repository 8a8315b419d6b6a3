------------------------------- MODULE Server -------------------------------
(***************************************************************************)
(* UringServer (server.py), create_server and create_unix_server, and what *)
(* the loop does with the completion of an accept (loop.py).  A server has *)
(* one listening socket.  An accept in the kernel holds the socket, so it  *)
(* outlives close(); the completion names only the descriptor's number,    *)
(* and a new server may have got that number by then.                      *)
(***************************************************************************)
EXTENDS Integers, Sequences, FiniteSets

CONSTANTS
    Servers, Clients,   \* each client connects once
    ListenFds,          \* descriptor numbers of listening sockets
    MaxErrors,          \* bound: accepts the kernel ends with an error
    Nobody              \* no server, no client, no descriptor

ASSUME ServerAssumption ==
    /\ MaxErrors \in Nat
    /\ Nobody \notin Servers \cup Clients \cup ListenFds

VARIABLES
    sv,        \* the UringServer objects
    servers,   \* the loop's _servers: descriptor -> server
    armed,     \* accepts in the kernel on a server's socket
    conn,      \* the clients' connections: to: server asked, by: server that got it
    cq,        \* accept completions run_tick has not taken yet
    todo,      \* accept completions _process_completions has not handled yet
    running,   \* run_tick runs callbacks; todo waits
    handling,  \* descriptor whose completion is being handled: connection_made runs
    failed,    \* ghost: servers with an accept that failed or was never submitted
    errors,    \* accepts ended by an error
    crashed,   \* ghost: an exception left _process_completions
    queued     \* accepts on a number whose flush failed, still in the submission queue

serverVars == <<sv, servers, armed, conn, cq, todo, running, handling, failed,
                errors, crashed, queued>>

\* state: "none", "open", "closed", or "lost" when create_server raised
NoServer == [state |-> "none", fd |-> Nobody, started |-> FALSE,
             serving |-> FALSE, forever |-> FALSE]

ServerInit ==
    /\ sv = [s \in Servers |-> NoServer]
    /\ servers = [f \in ListenFds |-> Nobody]
    /\ armed = [s \in Servers |-> 0]
    /\ conn = [c \in Clients |-> [state |-> "none", to |-> Nobody, by |-> Nobody]]
    /\ cq = <<>> /\ todo = <<>> /\ running = TRUE /\ handling = Nobody
    /\ failed = {} /\ errors = 0 /\ crashed = FALSE /\ queued = [f \in ListenFds |-> 0]

Bound(s) == sv[s].state \in {"open", "lost"}

\* submit() sends everything that is queued, in order: an accept that is still
\* there is sent first
NothingQueued == \A f \in ListenFds : queued[f] = 0

\* submit_accept raises: nothing was pushed, or only the flush failed and the
\* accept stays in the submission queue
SubmitRaises(f) == queued' \in {queued, [queued EXCEPT ![f] = @ + 1]}

----------------------------------------------------------------------------
(***************************************************************************)
(* Clients and the kernel.  A listening socket is there while its server   *)
(* has it open or an accept holds it.                                      *)
(***************************************************************************)
ClientConnects(c, s) ==
    /\ conn[c].state = "none" /\ (Bound(s) \/ armed[s] > 0)
    /\ conn' = [conn EXCEPT ![c] = [state |-> "backlog", to |-> s, by |-> Nobody]]
    /\ UNCHANGED <<sv, servers, armed, cq, todo, running, handling, failed, errors, crashed,
                   queued>>

Completes(s, c) ==
    /\ armed[s] > 0
    /\ armed' = [armed EXCEPT ![s] = @ - 1]
    /\ cq' = Append(cq, [fd |-> sv[s].fd, client |-> c])

KernelAccepts(s, c) ==
    /\ conn[c].state = "backlog" /\ conn[c].to = s
    /\ Completes(s, c)
    /\ conn' = [conn EXCEPT ![c].state = "accepted"]
    /\ UNCHANGED <<sv, servers, todo, running, handling, failed, errors, crashed, queued>>

\* EMFILE, ECONNABORTED and the like
KernelRefuses(s) ==
    /\ errors < MaxErrors /\ errors' = errors + 1
    /\ Completes(s, Nobody)
    /\ failed' = failed \cup {s}
    /\ UNCHANGED <<sv, servers, conn, todo, running, handling, crashed, queued>>

----------------------------------------------------------------------------
(***************************************************************************)
(* The application, in a callback of the loop.                             *)
(***************************************************************************)
\* What create_server and create_unix_server have in common: a listening socket
\* with a free number, a server object and its entry in _servers
Listens(s, f, server) ==
    /\ running /\ sv[s].state = "none"
    /\ \A t \in Servers : Bound(t) => sv[t].fd # f
    /\ sv' = [sv EXCEPT ![s] = server]
    /\ servers' = [servers EXCEPT ![f] = s]

\* started: start_serving is true
Create(s, f, started) ==
    /\ Listens(s, f, [NoServer EXCEPT !.state = "open", !.fd = f, !.started = started])
    /\ started => NothingQueued
    /\ armed' = IF started THEN [armed EXCEPT ![s] = @ + 1] ELSE armed
    /\ UNCHANGED <<conn, cq, todo, running, handling, failed, errors, crashed, queued>>

\* submit_accept raises.  The entry in _servers keeps the socket open, and the
\* caller gets no server it could close, although it accepts once the accept
\* left in the queue is sent.
CreateFails(s, f) ==
    /\ errors < MaxErrors /\ errors' = errors + 1
    /\ Listens(s, f, [NoServer EXCEPT !.state = "lost", !.fd = f])
    /\ failed' = failed \cup {s} /\ SubmitRaises(f)
    /\ UNCHANGED <<armed, conn, cq, todo, running, handling, crashed>>

\* Bug: the entry in _servers stays
BugForget(s) == servers
Forget(s) == IF sv[s].state = "open" THEN [servers EXCEPT ![sv[s].fd] = Nobody] ELSE servers

Closed(t) == IF t.state = "open" THEN [t EXCEPT !.state = "closed", !.serving = FALSE] ELSE t

\* close, from a callback or from connection_made.  The accept is not cancelled.
Close(s) ==
    /\ running \/ handling # Nobody
    /\ sv[s].state = "open"
    /\ sv' = [sv EXCEPT ![s] = Closed(@)]
    /\ servers' = Forget(s)
    /\ UNCHANGED <<armed, conn, cq, todo, running, handling, failed, errors, crashed,
                   queued>>

\* start_serving.  submit_accept is called without its future and raises
\* TypeError if there is a socket; _serving stays set either way.
StartServing(s) ==
    /\ running /\ sv[s].state \in {"open", "closed"} /\ ~sv[s].serving
    /\ sv' = [sv EXCEPT ![s].serving = TRUE]
    /\ UNCHANGED <<servers, armed, conn, cq, todo, running, handling, failed, errors, crashed,
                   queued>>

\* serve_forever.  With _serving not set it does what start_serving does, and
\* waits only if that did not raise.
ServeForever(s) ==
    /\ running /\ sv[s].state \in {"open", "closed"} /\ ~sv[s].forever
    /\ sv[s].serving \/ sv[s].state = "closed"
    /\ sv' = [sv EXCEPT ![s].serving = TRUE, ![s].forever = TRUE]
    /\ UNCHANGED <<servers, armed, conn, cq, todo, running, handling, failed, errors, crashed,
                   queued>>

\* The task in serve_forever is cancelled, the only way out of it
CancelForever(s) ==
    /\ running /\ sv[s].forever
    /\ sv' = [sv EXCEPT ![s] = [Closed(@) EXCEPT !.forever = FALSE]]
    /\ servers' = Forget(s)
    /\ UNCHANGED <<armed, conn, cq, todo, running, handling, failed, errors, crashed,
                   queued>>

----------------------------------------------------------------------------
(***************************************************************************)
(* The loop: run_tick takes the completions and runs the callbacks, then   *)
(* _process_completions handles what was taken.                            *)
(***************************************************************************)
\* An accept on number f reaches the kernel.  If the server was closed the number
\* means no listening socket now, and the accept ends with EBADF or EINVAL.
Accepts(f) ==
    \/ /\ servers[f] # Nobody
       /\ armed' = [armed EXCEPT ![servers[f]] = @ + 1] /\ UNCHANGED cq
    \/ /\ servers[f] = Nobody
       /\ cq' = Append(cq, [fd |-> f, client |-> Nobody]) /\ UNCHANGED armed

\* A submit() after one that failed, of any operation; run_tick's at the latest
SendQueued(f) ==
    /\ queued[f] > 0 /\ queued' = [queued EXCEPT ![f] = @ - 1]
    /\ Accepts(f)
    /\ UNCHANGED <<sv, servers, conn, todo, running, handling, failed, errors, crashed>>

RunTick ==
    /\ ~running /\ todo = <<>> /\ handling = Nobody /\ NothingQueued
    /\ todo' = cq /\ cq' = <<>> /\ running' = TRUE
    /\ UNCHANGED <<sv, servers, armed, conn, handling, failed, errors, crashed, queued>>

EndBatch ==
    /\ running /\ running' = FALSE
    /\ UNCHANGED <<sv, servers, armed, conn, cq, todo, handling, failed, errors, crashed,
                   queued>>

Handles(f) == ~running /\ handling = Nobody /\ todo # <<>> /\ f = Head(todo).fd

\* _create_transport_for_accepted: the protocol comes from server s
CreateTransport(c, s) == [conn EXCEPT ![c].state = "served", ![c].by = s]

\* Bug: the descriptor of a connection whose protocol raised stays open
BugAfterRaise(c) == [conn EXCEPT ![c].state = "leaked"]
AfterRaise(c) == [conn EXCEPT ![c].state = "closed"]

\* Bug: the accept is rearmed only if the transport was made
BugRearms(made, f) == IF made THEN f ELSE Nobody
Rearms(made, f) == f

\* _handle_accept_completion with a server for the descriptor: a transport is
\* made, or a step of that raises and the descriptor is closed
AcceptHandled(f) ==
    /\ Handles(f) /\ Head(todo).client # Nobody /\ servers[f] # Nobody
    /\ \E made \in BOOLEAN :
          /\ conn' = IF made THEN CreateTransport(Head(todo).client, servers[f])
                             ELSE AfterRaise(Head(todo).client)
          /\ handling' = Rearms(made, f)
    /\ todo' = Tail(todo)
    /\ UNCHANGED <<sv, servers, armed, cq, running, failed, errors, crashed, queued>>

\* An error, or no server: the connection's descriptor is forgotten
AcceptIgnored(f) ==
    /\ Handles(f) /\ (Head(todo).client = Nobody \/ servers[f] = Nobody)
    /\ conn' = IF Head(todo).client = Nobody THEN conn
               ELSE [conn EXCEPT ![Head(todo).client].state = "leaked"]
    /\ todo' = Tail(todo)
    /\ UNCHANGED <<sv, servers, armed, cq, running, handling, failed, errors, crashed,
                   queued>>

\* connection_made has returned, and may have closed the server
Rearm(f) ==
    /\ handling = f /\ f # Nobody /\ NothingQueued
    /\ handling' = Nobody
    /\ Accepts(f)
    /\ UNCHANGED <<sv, servers, conn, todo, running, failed, errors, crashed, queued>>

\* submit_accept raises: the exception leaves _process_completions and
\* run_forever, and what was not handled yet is gone.  The application may run
\* the loop again.
RearmFails(f) ==
    /\ handling = f /\ f # Nobody /\ errors < MaxErrors
    /\ handling' = Nobody /\ todo' = <<>>
    /\ conn' = [c \in Clients |-> IF \E i \in DOMAIN todo : todo[i].client = c
                                  THEN [conn[c] EXCEPT !.state = "leaked"] ELSE conn[c]]
    /\ errors' = errors + 1 /\ crashed' = TRUE /\ SubmitRaises(f)
    /\ UNCHANGED <<sv, servers, armed, cq, running, failed>>

----------------------------------------------------------------------------
ServerLoop ==
    \/ RunTick \/ EndBatch
    \/ \E f \in ListenFds : AcceptHandled(f) \/ AcceptIgnored(f) \/ Rearm(f) \/ SendQueued(f)

ServerNext ==
    \/ \E s \in Servers, f \in ListenFds :
          CreateFails(s, f) \/ \E started \in BOOLEAN : Create(s, f, started)
    \/ \E s \in Servers :
          \/ Close(s) \/ StartServing(s) \/ ServeForever(s) \/ CancelForever(s)
          \/ KernelRefuses(s)
          \/ \E c \in Clients : ClientConnects(c, s) \/ KernelAccepts(s, c)
    \/ \E f \in ListenFds : RearmFails(f)
    \/ ServerLoop

ServerSpec == ServerInit /\ [][ServerNext]_serverVars

----------------------------------------------------------------------------
(***************************************************************************)
(* Properties                                                              *)
(***************************************************************************)

\* A server that was started and never met an error
Healthy(s) == sv[s].state = "open" /\ sv[s].started /\ s \notin failed /\ ~crashed

Pending(f) == handling = f \/ \E i \in DOMAIN (todo \o cq) : (todo \o cq)[i].fd = f

(***************************************************************************)
(* The chain of accepts never breaks: an open server that met no error has *)
(* an accept in the kernel, or a completion on its way that will submit    *)
(* the next one, whatever its protocols raise.                             *)
(***************************************************************************)
AcceptPending ==
    \A s \in Servers : Healthy(s) => armed[s] > 0 \/ Pending(sv[s].fd)

(***************************************************************************)
(* An accepted descriptor is given to a transport or closed.  One is lost  *)
(* only if its server was closed while the accept was under way, or after  *)
(* an exception in _process_completions.                                   *)
(***************************************************************************)
LeakOnlyAfterClose ==
    \A c \in Clients : conn[c].state = "leaked" => crashed \/ sv[conn[c].to].state = "closed"

(***************************************************************************)
(* close() is final for the protocol factory: no protocol of a closed      *)
(* server is made for a completion that was already under way.             *)
(***************************************************************************)
ClosedServesNobody ==
    [][\A c \in Clients : conn'[c].by # conn[c].by => sv[conn'[c].by].state # "closed"]_conn

(***************************************************************************)
(* A client in the backlog of a server gets accepted, if the server is     *)
(* started, stays open and meets no error.                                 *)
(***************************************************************************)
BacklogServed ==
    \A c \in Clients : conn[c].state = "backlog"
        ~> (conn[c].state \notin {"backlog", "accepted"} \/ ~Healthy(conn[c].to))

(***************************************************************************)
(* close() says "Stop serving and close the server.": who connects to a    *)
(* server after it was closed gets no protocol.                            *)
(***************************************************************************)
ClosedStopsServing ==
    [][\A c \in Clients : conn'[c].by # conn[c].by => sv[conn[c].to].state # "closed"]_conn
============================================================================
