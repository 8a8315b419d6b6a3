---------------------------- MODULE ServerProofs ----------------------------
(***************************************************************************)
(* Theorems about Server.                                                  *)
(***************************************************************************)
EXTENDS Server, TLAPS

ServerObject == [state: {"none", "open", "closed", "lost"}, fd: ListenFds \cup {Nobody},
                 started: BOOLEAN, serving: BOOLEAN, forever: BOOLEAN]
Connection == [state: {"none", "backlog", "accepted", "served", "closed", "leaked"},
               to: Servers \cup {Nobody}, by: Servers \cup {Nobody}]
Completion == [fd: ListenFds, client: Clients \cup {Nobody}]

ServerTypeOK ==
    /\ sv \in [Servers -> ServerObject] /\ servers \in [ListenFds -> Servers \cup {Nobody}]
    /\ armed \in [Servers -> Nat] /\ conn \in [Clients -> Connection]
    /\ cq \in Seq(Completion) /\ todo \in Seq(Completion)
    /\ running \in BOOLEAN /\ handling \in ListenFds \cup {Nobody}
    /\ failed \subseteq Servers /\ errors \in 0..MaxErrors /\ crashed \in BOOLEAN
    /\ queued \in [ListenFds -> Nat]

\* _servers has the open sockets and nothing else; accepts and connections are
\* those of servers that were made
ServersMatch ==
    /\ \A s \in Servers : Bound(s) => sv[s].fd \in ListenFds /\ servers[sv[s].fd] = s
    /\ \A f \in ListenFds : servers[f] # Nobody => Bound(servers[f]) /\ sv[servers[f]].fd = f
    /\ \A s \in Servers : sv[s].state # "none" => sv[s].fd \in ListenFds
    /\ \A s \in Servers : armed[s] > 0 => sv[s].state # "none"
    /\ \A c \in Clients : conn[c].state # "none" => conn[c].to \in Servers
    /\ \A c \in Clients : conn[c].state = "none" => conn[c].by = Nobody

\* A completion with a client has the number of the server the client asked for
RoutedIn(q, cs, ss) ==
    \A i \in DOMAIN q : q[i].client # Nobody =>
        /\ cs[q[i].client].state # "none" /\ cs[q[i].client].to \in Servers
        /\ ss[cs[q[i].client].to].state # "none"
        /\ ss[cs[q[i].client].to].fd = q[i].fd
Routed(q) == RoutedIn(q, conn, sv)

\* What makes LeakOnlyAfterClose and ClosedServesNobody inductive
ServerInv ==
    ServerTypeOK /\ ServersMatch /\ Routed(todo) /\ Routed(cq) /\ LeakOnlyAfterClose

----------------------------------------------------------------------------
(***************************************************************************)
(* Queues of completions: what the first and the rest are.                 *)
(***************************************************************************)
\* The head and the tail of a queue of completions are completions
LEMMA QueueParts ==
    ASSUME NEW q \in Seq(Completion), q # <<>>
    PROVE  /\ Head(q) \in Completion /\ Tail(q) \in Seq(Completion)
           /\ 1 \in DOMAIN q /\ Head(q) = q[1]
           /\ \A i \in DOMAIN Tail(q) : i + 1 \in DOMAIN q /\ Tail(q)[i] = q[i + 1]
  OBVIOUS

\* An appended completion comes last, the others keep their places
LEMMA QueueAppend ==
    ASSUME NEW q \in Seq(Completion), NEW e \in Completion
    PROVE  /\ Append(q, e) \in Seq(Completion)
           /\ \A i \in DOMAIN Append(q, e) :
                 \/ i \in DOMAIN q /\ Append(q, e)[i] = q[i]
                 \/ Append(q, e)[i] = e
  OBVIOUS

\* The rest of a routed queue is routed
LEMMA RoutedTail ==
    ASSUME NEW q \in Seq(Completion), q # <<>>, NEW cs, NEW ss, RoutedIn(q, cs, ss)
    PROVE  RoutedIn(Tail(q), cs, ss)
  BY QueueParts DEF RoutedIn

\* A routed queue stays routed when no connection that has been made changes its
\* server and no server changes its number
LEMMA RoutedStays ==
    ASSUME NEW q \in Seq(Completion), NEW cs, NEW ss, NEW ds, NEW ts,
           RoutedIn(q, cs, ss),
           \A c \in Clients : cs[c].state # "none" =>
                ds[c].state # "none" /\ ds[c].to = cs[c].to,
           \A s \in Servers : ss[s].state # "none" =>
                ts[s].state # "none" /\ ts[s].fd = ss[s].fd
    PROVE  RoutedIn(q, ds, ts)
  <1> SUFFICES ASSUME NEW i \in DOMAIN q, q[i].client # Nobody
               PROVE  /\ ds[q[i].client].state # "none" /\ ds[q[i].client].to \in Servers
                      /\ ts[ds[q[i].client].to].state # "none"
                      /\ ts[ds[q[i].client].to].fd = q[i].fd
    BY DEF RoutedIn
  <1>1. q[i] \in Completion
    OBVIOUS
  <1>2. q[i].client \in Clients
    BY <1>1, SMTT(60) DEF Completion
  <1> QED
    BY <1>2 DEF RoutedIn

\* A queue stays routed when a routed completion is appended
LEMMA RoutedAppend ==
    ASSUME NEW q \in Seq(Completion), NEW e \in Completion, NEW cs, NEW ss,
           RoutedIn(q, cs, ss),
           e.client # Nobody =>
               /\ cs[e.client].state # "none" /\ cs[e.client].to \in Servers
               /\ ss[cs[e.client].to].state # "none"
               /\ ss[cs[e.client].to].fd = e.fd
    PROVE  RoutedIn(Append(q, e), cs, ss)
  BY QueueAppend DEF RoutedIn

\* The accepts in the kernel are counted when one more gets there
LEMMA AcceptsArms ==
    ASSUME ServerTypeOK, NEW f \in ListenFds, Accepts(f) PROVE armed' \in [Servers -> Nat]
  <1>1. armed \in [Servers -> Nat] /\ servers[f] \in Servers \cup {Nobody}
    BY DEF ServerTypeOK
  <1>2. CASE armed' = armed
    BY <1>1, <1>2
  <1>3. CASE servers[f] # Nobody /\ armed' = [armed EXCEPT ![servers[f]] = @ + 1]
    BY <1>1, <1>3
  <1> QED
    BY <1>2, <1>3 DEF Accepts

\* So are the accepts a submission that raises leaves in the queue
LEMMA RaisesQueues ==
    ASSUME ServerTypeOK, NEW f \in ListenFds, SubmitRaises(f)
    PROVE  queued' \in [ListenFds -> Nat]
  <1>1. queued \in [ListenFds -> Nat]
    BY DEF ServerTypeOK
  <1>2. CASE queued' = queued
    BY <1>1, <1>2
  <1>3. CASE queued' = [queued EXCEPT ![f] = @ + 1]
    BY <1>1, <1>3
  <1> QED
    BY <1>2, <1>3 DEF SubmitRaises

----------------------------------------------------------------------------
\* Type, _servers, routing and the fate of descriptors are right initially
LEMMA InvInit == ServerInit => ServerInv
  <1> SUFFICES ASSUME ServerInit PROVE ServerInv
    OBVIOUS
  <1>1. ServerTypeOK
    <2>1. sv \in [Servers -> ServerObject]
      BY DEF ServerInit, NoServer, ServerObject
    <2>2. servers \in [ListenFds -> Servers \cup {Nobody}] /\ armed \in [Servers -> Nat]
      BY DEF ServerInit
    <2>3. conn \in [Clients -> Connection]
      BY DEF ServerInit, Connection
    <2>4. cq \in Seq(Completion) /\ todo \in Seq(Completion)
      BY DEF ServerInit
    <2>6. running \in BOOLEAN /\ crashed \in BOOLEAN
      BY DEF ServerInit
    <2>7. handling \in ListenFds \cup {Nobody} /\ failed \subseteq Servers
      BY DEF ServerInit
    <2>5. errors \in 0..MaxErrors
      BY ServerAssumption DEF ServerAssumption, ServerInit
    <2>8. queued \in [ListenFds -> Nat]
      BY DEF ServerInit
    <2> QED
      BY <2>1, <2>2, <2>3, <2>4, <2>5, <2>6, <2>7, <2>8 DEF ServerTypeOK
  <1>2. ServersMatch
    BY DEF ServerInit, ServersMatch, NoServer, Bound
  <1>3. Routed(todo) /\ Routed(cq)
    BY DEF ServerInit, Routed, RoutedIn
  <1>4. LeakOnlyAfterClose
    BY DEF ServerInit, LeakOnlyAfterClose
  <1> QED
    BY <1>1, <1>2, <1>3, <1>4 DEF ServerInv

\* A client in a backlog; Bound or armed servers are not "none"
LEMMA ClientConnectsInv ==
    ASSUME ServerInv, NEW c \in Clients, NEW s \in Servers, ClientConnects(c, s)
    PROVE  ServerInv'
  <1> USE ServerAssumption DEF ServerAssumption, ServerInv
  <1>1. ServerTypeOK'
    <2>1. sv' \in [Servers -> ServerObject]
      BY DEF ServerTypeOK, ServerObject, ClientConnects
    <2>2. servers' \in [ListenFds -> Servers \cup {Nobody}] /\ armed' \in [Servers -> Nat]
      BY DEF ServerTypeOK, ClientConnects
    <2>3. conn' \in [Clients -> Connection]
      BY DEF ServerTypeOK, Connection, ClientConnects
    <2>4. cq' \in Seq(Completion) /\ todo' \in Seq(Completion)
      BY DEF ServerTypeOK, ClientConnects
    <2>5. running' \in BOOLEAN /\ crashed' \in BOOLEAN
      BY DEF ServerTypeOK, ClientConnects
    <2>6. handling' \in ListenFds \cup {Nobody} /\ failed' \subseteq Servers
      BY DEF ServerTypeOK, ClientConnects
    <2>7. errors' \in 0..MaxErrors
      BY DEF ServerTypeOK, ClientConnects
    <2>8. queued' \in [ListenFds -> Nat]
      BY DEF ServerTypeOK, ClientConnects
    <2> QED
      BY <2>1, <2>2, <2>3, <2>4, <2>5, <2>6, <2>7, <2>8 DEF ServerTypeOK
  <1>2. ServersMatch'
    BY DEF ServersMatch, ServerTypeOK, ServerObject, Connection, Bound, ClientConnects
  <1>3. Routed(todo)' /\ Routed(cq)'
    <2>1. /\ \A d \in Clients : conn[d].state # "none" =>
                conn'[d].state # "none" /\ conn'[d].to = conn[d].to
          /\ \A t \in Servers : sv[t].state # "none" =>
                sv'[t].state # "none" /\ sv'[t].fd = sv[t].fd
      BY DEF ServerTypeOK, ServerObject, Connection, ClientConnects
    <2>2. todo' = todo /\ cq' = cq /\ todo \in Seq(Completion) /\ cq \in Seq(Completion)
      BY DEF ServerTypeOK, ClientConnects
    <2> QED
      BY <2>1, <2>2, RoutedStays, Zenon DEF Routed
  <1>4. LeakOnlyAfterClose'
    BY DEF LeakOnlyAfterClose, ServerTypeOK, Connection, ServerObject, ClientConnects
  <1> QED
    BY <1>1, <1>2, <1>3, <1>4

\* What the methods of a server make of the object is a server object
LEMMA ServerUpdates ==
    ASSUME ServerTypeOK, NEW s \in Servers
    PROVE  /\ Closed(sv[s]) \in ServerObject
           /\ [sv[s] EXCEPT !.serving = TRUE] \in ServerObject
           /\ [sv[s] EXCEPT !.serving = TRUE, !.forever = TRUE] \in ServerObject
  <1>1. sv[s] \in ServerObject
    BY DEF ServerTypeOK
  <1>2. \A t \in ServerObject : [t EXCEPT !.state = "closed", !.serving = FALSE] \in ServerObject
    BY DEF ServerObject
  <1>3. Closed(sv[s]) \in ServerObject
    BY <1>1, <1>2 DEF Closed
  <1>4. \A t \in ServerObject : /\ [t EXCEPT !.serving = TRUE] \in ServerObject
                               /\ [t EXCEPT !.serving = TRUE, !.forever = TRUE] \in ServerObject
    BY DEF ServerObject
  <1> QED
    BY <1>1, <1>3, <1>4

\* The entry in _servers goes with the open socket
LEMMA CloseInv ==
    ASSUME ServerInv, NEW s \in Servers, Close(s)
    PROVE  ServerInv'
  <1> USE ServerAssumption DEF ServerAssumption, ServerInv
  <1>1. ServerTypeOK'
    <2>1. sv' \in [Servers -> ServerObject]
      <3>1. Closed(sv[s]) \in ServerObject
        BY ServerUpdates
      <3> QED
        BY <3>1 DEF ServerTypeOK, Close
    <2>2. servers' \in [ListenFds -> Servers \cup {Nobody}] /\ armed' \in [Servers -> Nat]
      BY DEF ServerTypeOK, Close, Closed, Forget
    <2>3. conn' \in [Clients -> Connection]
      BY DEF ServerTypeOK, Connection, Close, Closed, Forget
    <2>4. cq' \in Seq(Completion) /\ todo' \in Seq(Completion)
      BY DEF ServerTypeOK, Close, Closed, Forget
    <2>5. running' \in BOOLEAN /\ crashed' \in BOOLEAN
      BY DEF ServerTypeOK, Close, Closed, Forget
    <2>6. handling' \in ListenFds \cup {Nobody} /\ failed' \subseteq Servers
      BY DEF ServerTypeOK, Close, Closed, Forget
    <2>7. errors' \in 0..MaxErrors
      BY DEF ServerTypeOK, Close, Closed, Forget
    <2>8. queued' \in [ListenFds -> Nat]
      BY DEF ServerTypeOK, Close, Closed, Forget
    <2> QED
      BY <2>1, <2>2, <2>3, <2>4, <2>5, <2>6, <2>7, <2>8 DEF ServerTypeOK
  <1>2. ServersMatch'
    BY DEF ServersMatch, ServerTypeOK, ServerObject, Connection, Bound, Close,
           Closed, Forget
  <1>3. Routed(todo)' /\ Routed(cq)'
    <2>1. /\ \A c \in Clients : conn[c].state # "none" =>
                conn'[c].state # "none" /\ conn'[c].to = conn[c].to
          /\ \A t \in Servers : sv[t].state # "none" =>
                sv'[t].state # "none" /\ sv'[t].fd = sv[t].fd
      BY DEF ServerTypeOK, ServerObject, Connection, Close, Closed, Forget
    <2>2. todo' = todo /\ cq' = cq /\ todo \in Seq(Completion) /\ cq \in Seq(Completion)
      BY DEF ServerTypeOK, Close, Closed, Forget
    <2> QED
      BY <2>1, <2>2, RoutedStays, Zenon DEF Routed
  <1>4. LeakOnlyAfterClose'
    BY DEF LeakOnlyAfterClose, ServerTypeOK, Connection, ServerObject, Close, Closed,
           Forget
  <1> QED
    BY <1>1, <1>2, <1>3, <1>4

\* start_serving sets a flag
LEMMA StartServingInv ==
    ASSUME ServerInv, NEW s \in Servers, StartServing(s)
    PROVE  ServerInv'
  <1> USE ServerAssumption DEF ServerAssumption, ServerInv
  <1>1. ServerTypeOK'
    <2>1. sv' \in [Servers -> ServerObject]
      <3>1. [sv[s] EXCEPT !.serving = TRUE] \in ServerObject
        BY ServerUpdates
      <3> QED
        BY <3>1 DEF ServerTypeOK, StartServing
    <2>2. servers' \in [ListenFds -> Servers \cup {Nobody}] /\ armed' \in [Servers -> Nat]
      BY DEF ServerTypeOK, StartServing
    <2>3. conn' \in [Clients -> Connection]
      BY DEF ServerTypeOK, Connection, StartServing
    <2>4. cq' \in Seq(Completion) /\ todo' \in Seq(Completion)
      BY DEF ServerTypeOK, StartServing
    <2>5. running' \in BOOLEAN /\ crashed' \in BOOLEAN
      BY DEF ServerTypeOK, StartServing
    <2>6. handling' \in ListenFds \cup {Nobody} /\ failed' \subseteq Servers
      BY DEF ServerTypeOK, StartServing
    <2>7. errors' \in 0..MaxErrors
      BY DEF ServerTypeOK, StartServing
    <2>8. queued' \in [ListenFds -> Nat]
      BY DEF ServerTypeOK, StartServing
    <2> QED
      BY <2>1, <2>2, <2>3, <2>4, <2>5, <2>6, <2>7, <2>8 DEF ServerTypeOK
  <1>2. ServersMatch'
    BY DEF ServersMatch, ServerTypeOK, ServerObject, Connection, Bound, StartServing
  <1>3. Routed(todo)' /\ Routed(cq)'
    <2>1. /\ \A c \in Clients : conn[c].state # "none" =>
                conn'[c].state # "none" /\ conn'[c].to = conn[c].to
          /\ \A t \in Servers : sv[t].state # "none" =>
                sv'[t].state # "none" /\ sv'[t].fd = sv[t].fd
      BY DEF ServerTypeOK, ServerObject, Connection, StartServing
    <2>2. todo' = todo /\ cq' = cq /\ todo \in Seq(Completion) /\ cq \in Seq(Completion)
      BY DEF ServerTypeOK, StartServing
    <2> QED
      BY <2>1, <2>2, RoutedStays, Zenon DEF Routed
  <1>4. LeakOnlyAfterClose'
    BY DEF LeakOnlyAfterClose, ServerTypeOK, Connection, ServerObject, StartServing
  <1> QED
    BY <1>1, <1>2, <1>3, <1>4

\* serve_forever sets two
LEMMA ServeForeverInv ==
    ASSUME ServerInv, NEW s \in Servers, ServeForever(s)
    PROVE  ServerInv'
  <1> USE ServerAssumption DEF ServerAssumption, ServerInv
  <1>1. ServerTypeOK'
    <2>1. sv' \in [Servers -> ServerObject]
      <3>1. [sv[s] EXCEPT !.serving = TRUE, !.forever = TRUE] \in ServerObject
        BY ServerUpdates, ZenonT(60)
      <3> QED
        BY <3>1 DEF ServerTypeOK, ServeForever
    <2>2. servers' \in [ListenFds -> Servers \cup {Nobody}] /\ armed' \in [Servers -> Nat]
      BY DEF ServerTypeOK, ServeForever
    <2>3. conn' \in [Clients -> Connection]
      BY DEF ServerTypeOK, Connection, ServeForever
    <2>4. cq' \in Seq(Completion) /\ todo' \in Seq(Completion)
      BY DEF ServerTypeOK, ServeForever
    <2>5. running' \in BOOLEAN /\ crashed' \in BOOLEAN
      BY DEF ServerTypeOK, ServeForever
    <2>6. handling' \in ListenFds \cup {Nobody} /\ failed' \subseteq Servers
      BY DEF ServerTypeOK, ServeForever
    <2>7. errors' \in 0..MaxErrors
      BY DEF ServerTypeOK, ServeForever
    <2>8. queued' \in [ListenFds -> Nat]
      BY DEF ServerTypeOK, ServeForever
    <2> QED
      BY <2>1, <2>2, <2>3, <2>4, <2>5, <2>6, <2>7, <2>8 DEF ServerTypeOK
  <1>2. ServersMatch'
    BY DEF ServersMatch, ServerTypeOK, ServerObject, Connection, Bound, ServeForever
  <1>3. Routed(todo)' /\ Routed(cq)'
    <2>1. /\ \A c \in Clients : conn[c].state # "none" =>
                conn'[c].state # "none" /\ conn'[c].to = conn[c].to
          /\ \A t \in Servers : sv[t].state # "none" =>
                sv'[t].state # "none" /\ sv'[t].fd = sv[t].fd
      BY DEF ServerTypeOK, ServerObject, Connection, ServeForever
    <2>2. todo' = todo /\ cq' = cq /\ todo \in Seq(Completion) /\ cq \in Seq(Completion)
      BY DEF ServerTypeOK, ServeForever
    <2> QED
      BY <2>1, <2>2, RoutedStays, Zenon DEF Routed
  <1>4. LeakOnlyAfterClose'
    <2>1. \A t \in Servers : sv'[t].state = sv[t].state
      BY DEF ServerTypeOK, ServerObject, ServeForever
    <2> QED
      BY <2>1 DEF LeakOnlyAfterClose, ServersMatch, ServerTypeOK, Connection,
             ServeForever
  <1> QED
    BY <1>1, <1>2, <1>3, <1>4

\* A cancelled serve_forever closes the server if it is open
LEMMA CancelForeverInv ==
    ASSUME ServerInv, NEW s \in Servers, CancelForever(s)
    PROVE  ServerInv'
  <1> USE ServerAssumption DEF ServerAssumption, ServerInv
  <1>1. ServerTypeOK'
    <2>1. sv' \in [Servers -> ServerObject]
      <3>1. Closed(sv[s]) \in ServerObject
        BY ServerUpdates
      <3>2. [Closed(sv[s]) EXCEPT !.forever = FALSE] \in ServerObject
        BY <3>1 DEF ServerObject
      <3> QED
        BY <3>2 DEF ServerTypeOK, CancelForever
    <2>2. servers' \in [ListenFds -> Servers \cup {Nobody}] /\ armed' \in [Servers -> Nat]
      BY DEF ServerTypeOK, CancelForever, Closed, Forget
    <2>3. conn' \in [Clients -> Connection]
      BY DEF ServerTypeOK, Connection, CancelForever, Closed, Forget
    <2>4. cq' \in Seq(Completion) /\ todo' \in Seq(Completion)
      BY DEF ServerTypeOK, CancelForever, Closed, Forget
    <2>5. running' \in BOOLEAN /\ crashed' \in BOOLEAN
      BY DEF ServerTypeOK, CancelForever, Closed, Forget
    <2>6. handling' \in ListenFds \cup {Nobody} /\ failed' \subseteq Servers
      BY DEF ServerTypeOK, CancelForever, Closed, Forget
    <2>7. errors' \in 0..MaxErrors
      BY DEF ServerTypeOK, CancelForever, Closed, Forget
    <2>8. queued' \in [ListenFds -> Nat]
      BY DEF ServerTypeOK, CancelForever, Closed, Forget
    <2> QED
      BY <2>1, <2>2, <2>3, <2>4, <2>5, <2>6, <2>7, <2>8 DEF ServerTypeOK
  <1>2. ServersMatch'
    BY DEF ServersMatch, ServerTypeOK, ServerObject, Connection, Bound,
           CancelForever, Closed, Forget
  <1>3. Routed(todo)' /\ Routed(cq)'
    <2>1. /\ \A c \in Clients : conn[c].state # "none" =>
                conn'[c].state # "none" /\ conn'[c].to = conn[c].to
          /\ \A t \in Servers : sv[t].state # "none" =>
                sv'[t].state # "none" /\ sv'[t].fd = sv[t].fd
      BY DEF ServerTypeOK, ServerObject, Connection, CancelForever, Closed, Forget
    <2>2. todo' = todo /\ cq' = cq /\ todo \in Seq(Completion) /\ cq \in Seq(Completion)
      BY DEF ServerTypeOK, CancelForever, Closed, Forget
    <2> QED
      BY <2>1, <2>2, RoutedStays, Zenon DEF Routed
  <1>4. LeakOnlyAfterClose'
    BY DEF LeakOnlyAfterClose, ServerTypeOK, Connection, ServerObject, CancelForever,
           Closed, Forget
  <1> QED
    BY <1>1, <1>2, <1>3, <1>4

\* A new server gets a free number
LEMMA CreateInv ==
    ASSUME ServerInv, NEW s \in Servers, NEW f \in ListenFds,
               NEW started \in BOOLEAN, Create(s, f, started)
    PROVE  ServerInv'
  <1> USE ServerAssumption DEF ServerAssumption, ServerInv
  <1>1. ServerTypeOK'
    <2>1. sv' \in [Servers -> ServerObject]
      BY DEF ServerTypeOK, ServerObject, Create, Listens, NoServer
    <2>2. servers' \in [ListenFds -> Servers \cup {Nobody}] /\ armed' \in [Servers -> Nat]
      BY DEF ServerTypeOK, Create, Listens, NoServer
    <2>3. conn' \in [Clients -> Connection]
      BY DEF ServerTypeOK, Connection, Create, Listens, NoServer
    <2>4. cq' \in Seq(Completion) /\ todo' \in Seq(Completion)
      BY DEF ServerTypeOK, Create, Listens, NoServer
    <2>5. running' \in BOOLEAN /\ crashed' \in BOOLEAN
      BY DEF ServerTypeOK, Create, Listens, NoServer
    <2>6. handling' \in ListenFds \cup {Nobody} /\ failed' \subseteq Servers
      BY DEF ServerTypeOK, Create, Listens, NoServer
    <2>7. errors' \in 0..MaxErrors
      BY DEF ServerTypeOK, Create, Listens, NoServer
    <2>8. queued' \in [ListenFds -> Nat]
      BY DEF ServerTypeOK, Create, Listens, NoServer
    <2> QED
      BY <2>1, <2>2, <2>3, <2>4, <2>5, <2>6, <2>7, <2>8 DEF ServerTypeOK
  <1>2. ServersMatch'
    BY DEF ServersMatch, ServerTypeOK, ServerObject, Connection, Bound, Create,
           Listens, NoServer
  <1>3. Routed(todo)' /\ Routed(cq)'
    <2>1. /\ \A c \in Clients : conn[c].state # "none" =>
                conn'[c].state # "none" /\ conn'[c].to = conn[c].to
          /\ \A t \in Servers : sv[t].state # "none" =>
                sv'[t].state # "none" /\ sv'[t].fd = sv[t].fd
      BY DEF ServerTypeOK, ServerObject, Connection, Create, Listens, NoServer
    <2>2. todo' = todo /\ cq' = cq /\ todo \in Seq(Completion) /\ cq \in Seq(Completion)
      BY DEF ServerTypeOK, Create, Listens, NoServer
    <2> QED
      BY <2>1, <2>2, RoutedStays, Zenon DEF Routed
  <1>4. LeakOnlyAfterClose'
    BY DEF LeakOnlyAfterClose, ServerTypeOK, Connection, ServerObject, Create,
           Listens, NoServer
  <1> QED
    BY <1>1, <1>2, <1>3, <1>4

\* So does one whose accept was not submitted
LEMMA CreateFailsInv ==
    ASSUME ServerInv, NEW s \in Servers, NEW f \in ListenFds, CreateFails(s, f)
    PROVE  ServerInv'
  <1> USE ServerAssumption DEF ServerAssumption, ServerInv
  <1>1. ServerTypeOK'
    <2>1. sv' \in [Servers -> ServerObject]
      BY DEF ServerTypeOK, ServerObject, CreateFails, Listens, NoServer
    <2>2. servers' \in [ListenFds -> Servers \cup {Nobody}] /\ armed' \in [Servers -> Nat]
      BY DEF ServerTypeOK, CreateFails, Listens, NoServer
    <2>3. conn' \in [Clients -> Connection]
      BY DEF ServerTypeOK, Connection, CreateFails, Listens, NoServer
    <2>4. cq' \in Seq(Completion) /\ todo' \in Seq(Completion)
      BY DEF ServerTypeOK, CreateFails, Listens, NoServer
    <2>5. running' \in BOOLEAN /\ crashed' \in BOOLEAN
      BY DEF ServerTypeOK, CreateFails, Listens, NoServer
    <2>6. handling' \in ListenFds \cup {Nobody} /\ failed' \subseteq Servers
      BY DEF ServerTypeOK, CreateFails, Listens, NoServer
    <2>7. errors' \in 0..MaxErrors
      BY DEF ServerTypeOK, CreateFails, Listens, NoServer
    <2>8. queued' \in [ListenFds -> Nat]
      BY RaisesQueues DEF CreateFails
    <2> QED
      BY <2>1, <2>2, <2>3, <2>4, <2>5, <2>6, <2>7, <2>8 DEF ServerTypeOK
  <1>2. ServersMatch'
    BY DEF ServersMatch, ServerTypeOK, ServerObject, Connection, Bound, CreateFails,
           Listens, NoServer
  <1>3. Routed(todo)' /\ Routed(cq)'
    <2>1. /\ \A c \in Clients : conn[c].state # "none" =>
                conn'[c].state # "none" /\ conn'[c].to = conn[c].to
          /\ \A t \in Servers : sv[t].state # "none" =>
                sv'[t].state # "none" /\ sv'[t].fd = sv[t].fd
      BY DEF ServerTypeOK, ServerObject, Connection, CreateFails, Listens, NoServer
    <2>2. todo' = todo /\ cq' = cq /\ todo \in Seq(Completion) /\ cq \in Seq(Completion)
      BY DEF ServerTypeOK, CreateFails, Listens, NoServer
    <2> QED
      BY <2>1, <2>2, RoutedStays, Zenon DEF Routed
  <1>4. LeakOnlyAfterClose'
    BY DEF LeakOnlyAfterClose, ServerTypeOK, Connection, ServerObject, CreateFails,
           Listens, NoServer
  <1> QED
    BY <1>1, <1>2, <1>3, <1>4

\* The end of the callbacks changes nothing else
LEMMA EndBatchInv ==
    ASSUME ServerInv, EndBatch
    PROVE  ServerInv'
  <1> USE ServerAssumption DEF ServerAssumption, ServerInv
  <1>1. ServerTypeOK'
    <2>1. sv' \in [Servers -> ServerObject]
      BY DEF ServerTypeOK, ServerObject, EndBatch
    <2>2. servers' \in [ListenFds -> Servers \cup {Nobody}] /\ armed' \in [Servers -> Nat]
      BY DEF ServerTypeOK, EndBatch
    <2>3. conn' \in [Clients -> Connection]
      BY DEF ServerTypeOK, Connection, EndBatch
    <2>4. cq' \in Seq(Completion) /\ todo' \in Seq(Completion)
      BY DEF ServerTypeOK, EndBatch
    <2>5. running' \in BOOLEAN /\ crashed' \in BOOLEAN
      BY DEF ServerTypeOK, EndBatch
    <2>6. handling' \in ListenFds \cup {Nobody} /\ failed' \subseteq Servers
      BY DEF ServerTypeOK, EndBatch
    <2>7. errors' \in 0..MaxErrors
      BY DEF ServerTypeOK, EndBatch
    <2>8. queued' \in [ListenFds -> Nat]
      BY DEF ServerTypeOK, EndBatch
    <2> QED
      BY <2>1, <2>2, <2>3, <2>4, <2>5, <2>6, <2>7, <2>8 DEF ServerTypeOK
  <1>2. ServersMatch'
    BY DEF ServersMatch, ServerTypeOK, ServerObject, Connection, Bound, EndBatch
  <1>3. Routed(todo)' /\ Routed(cq)'
    <2>1. /\ \A c \in Clients : conn[c].state # "none" =>
                conn'[c].state # "none" /\ conn'[c].to = conn[c].to
          /\ \A t \in Servers : sv[t].state # "none" =>
                sv'[t].state # "none" /\ sv'[t].fd = sv[t].fd
      BY DEF ServerTypeOK, ServerObject, Connection, EndBatch
    <2>2. todo' = todo /\ cq' = cq /\ todo \in Seq(Completion) /\ cq \in Seq(Completion)
      BY DEF ServerTypeOK, EndBatch
    <2> QED
      BY <2>1, <2>2, RoutedStays, Zenon DEF Routed
  <1>4. LeakOnlyAfterClose'
    BY DEF LeakOnlyAfterClose, ServerTypeOK, Connection, ServerObject, EndBatch
  <1> QED
    BY <1>1, <1>2, <1>3, <1>4

\* run_tick takes all completions
LEMMA RunTickInv ==
    ASSUME ServerInv, RunTick
    PROVE  ServerInv'
  <1> USE ServerAssumption DEF ServerAssumption, ServerInv
  <1>1. ServerTypeOK'
    <2>1. sv' \in [Servers -> ServerObject]
      BY DEF ServerTypeOK, ServerObject, RunTick
    <2>2. servers' \in [ListenFds -> Servers \cup {Nobody}] /\ armed' \in [Servers -> Nat]
      BY DEF ServerTypeOK, RunTick
    <2>3. conn' \in [Clients -> Connection]
      BY DEF ServerTypeOK, Connection, RunTick
    <2>4. cq' \in Seq(Completion) /\ todo' \in Seq(Completion)
      BY DEF ServerTypeOK, RunTick
    <2>5. running' \in BOOLEAN /\ crashed' \in BOOLEAN
      BY DEF ServerTypeOK, RunTick
    <2>6. handling' \in ListenFds \cup {Nobody} /\ failed' \subseteq Servers
      BY DEF ServerTypeOK, RunTick
    <2>7. errors' \in 0..MaxErrors
      BY DEF ServerTypeOK, RunTick
    <2>8. queued' \in [ListenFds -> Nat]
      BY DEF ServerTypeOK, RunTick
    <2> QED
      BY <2>1, <2>2, <2>3, <2>4, <2>5, <2>6, <2>7, <2>8 DEF ServerTypeOK
  <1>2. ServersMatch'
    BY DEF ServersMatch, ServerTypeOK, ServerObject, Connection, Bound, RunTick
  <1>3. Routed(todo)' /\ Routed(cq)'
    BY DEF Routed, RoutedIn, RunTick
  <1>4. LeakOnlyAfterClose'
    BY DEF LeakOnlyAfterClose, ServerTypeOK, Connection, ServerObject, RunTick
  <1> QED
    BY <1>1, <1>2, <1>3, <1>4

\* An accepted client is routed to the server it asked for
LEMMA KernelAcceptsInv ==
    ASSUME ServerInv, NEW s \in Servers, NEW c \in Clients, KernelAccepts(s, c)
    PROVE  ServerInv'
  <1> USE ServerAssumption DEF ServerAssumption, ServerInv
  <1>1. ServerTypeOK'
    <2>1. sv' \in [Servers -> ServerObject]
      BY DEF ServerTypeOK, ServerObject, KernelAccepts, Completes
    <2>2. servers' \in [ListenFds -> Servers \cup {Nobody}] /\ armed' \in [Servers -> Nat]
      BY DEF ServerTypeOK, KernelAccepts, Completes
    <2>3. conn' \in [Clients -> Connection]
      BY ZenonT(60) DEF ServerTypeOK, Connection, KernelAccepts, Completes
    <2>4. cq' \in Seq(Completion) /\ todo' \in Seq(Completion)
      <3>1. [fd |-> sv[s].fd, client |-> c] \in Completion
        BY DEF ServerTypeOK, ServersMatch, Completion, KernelAccepts, Completes
      <3> QED
        BY <3>1, QueueAppend DEF ServerTypeOK, KernelAccepts, Completes
    <2>5. running' \in BOOLEAN /\ crashed' \in BOOLEAN
      BY DEF ServerTypeOK, KernelAccepts, Completes
    <2>6. handling' \in ListenFds \cup {Nobody} /\ failed' \subseteq Servers
      BY DEF ServerTypeOK, KernelAccepts, Completes
    <2>7. errors' \in 0..MaxErrors
      BY DEF ServerTypeOK, KernelAccepts, Completes
    <2>8. queued' \in [ListenFds -> Nat]
      BY DEF ServerTypeOK, KernelAccepts, Completes
    <2> QED
      BY <2>1, <2>2, <2>3, <2>4, <2>5, <2>6, <2>7, <2>8 DEF ServerTypeOK
  <1>2. ServersMatch'
    BY DEF ServersMatch, ServerTypeOK, ServerObject, Connection, Bound,
           KernelAccepts, Completes
  <1>3. Routed(todo)' /\ Routed(cq)'
    <2>1. /\ \A d \in Clients : conn[d].state # "none" =>
                conn'[d].state # "none" /\ conn'[d].to = conn[d].to
          /\ \A t \in Servers : sv[t].state # "none" =>
                sv'[t].state # "none" /\ sv'[t].fd = sv[t].fd
      BY DEF ServerTypeOK, ServerObject, Connection, KernelAccepts, Completes
    <2>2. todo' = todo /\ todo \in Seq(Completion) /\ cq \in Seq(Completion)
      BY DEF ServerTypeOK, KernelAccepts
    <2>3. RoutedIn(todo, conn', sv') /\ RoutedIn(cq, conn', sv')
      BY <2>1, <2>2, RoutedStays, Zenon DEF Routed
    <2>4. [fd |-> sv[s].fd, client |-> c] \in Completion
      BY DEF ServerTypeOK, ServersMatch, Completion, KernelAccepts, Completes
    <2>5. /\ conn'[c].state # "none" /\ conn'[c].to = s
          /\ sv'[s].state # "none" /\ sv'[s].fd = sv[s].fd
      BY DEF ServerTypeOK, Connection, ServersMatch, KernelAccepts, Completes
    <2>6. RoutedIn(cq', conn', sv')
      BY <2>2, <2>3, <2>4, <2>5, RoutedAppend DEF KernelAccepts, Completes
    <2> QED
      BY <2>2, <2>3, <2>6 DEF Routed
  <1>4. LeakOnlyAfterClose'
    BY DEF LeakOnlyAfterClose, ServerTypeOK, Connection, ServerObject, KernelAccepts,
           Completes
  <1> QED
    BY <1>1, <1>2, <1>3, <1>4

\* An error has no client
LEMMA KernelRefusesInv ==
    ASSUME ServerInv, NEW s \in Servers, KernelRefuses(s)
    PROVE  ServerInv'
  <1> USE ServerAssumption DEF ServerAssumption, ServerInv
  <1>1. ServerTypeOK'
    <2>1. sv' \in [Servers -> ServerObject]
      BY DEF ServerTypeOK, ServerObject, KernelRefuses, Completes
    <2>2. servers' \in [ListenFds -> Servers \cup {Nobody}] /\ armed' \in [Servers -> Nat]
      BY DEF ServerTypeOK, KernelRefuses, Completes
    <2>3. conn' \in [Clients -> Connection]
      BY DEF ServerTypeOK, Connection, KernelRefuses, Completes
    <2>4. cq' \in Seq(Completion) /\ todo' \in Seq(Completion)
      <3>1. [fd |-> sv[s].fd, client |-> Nobody] \in Completion
        BY DEF ServerTypeOK, ServersMatch, Completion, KernelRefuses, Completes
      <3> QED
        BY <3>1, QueueAppend DEF ServerTypeOK, KernelRefuses, Completes
    <2>5. running' \in BOOLEAN /\ crashed' \in BOOLEAN
      BY DEF ServerTypeOK, KernelRefuses, Completes
    <2>6. handling' \in ListenFds \cup {Nobody} /\ failed' \subseteq Servers
      BY DEF ServerTypeOK, KernelRefuses, Completes
    <2>7. errors' \in 0..MaxErrors
      BY DEF ServerTypeOK, KernelRefuses, Completes
    <2>8. queued' \in [ListenFds -> Nat]
      BY DEF ServerTypeOK, KernelRefuses, Completes
    <2> QED
      BY <2>1, <2>2, <2>3, <2>4, <2>5, <2>6, <2>7, <2>8 DEF ServerTypeOK
  <1>2. ServersMatch'
    BY DEF ServersMatch, ServerTypeOK, ServerObject, Connection, Bound,
           KernelRefuses, Completes
  <1>3. Routed(todo)' /\ Routed(cq)'
    <2>1. /\ todo' = todo /\ conn' = conn /\ sv' = sv /\ cq \in Seq(Completion)
          /\ cq' = Append(cq, [fd |-> sv[s].fd, client |-> Nobody])
      BY DEF ServerTypeOK, KernelRefuses, Completes
    <2>2. [fd |-> sv[s].fd, client |-> Nobody] \in Completion
      BY DEF ServerTypeOK, ServersMatch, Completion, KernelRefuses, Completes
    <2>3. RoutedIn(cq', conn, sv)
      BY <2>1, <2>2, RoutedAppend DEF Routed
    <2> QED
      BY <2>1, <2>3 DEF Routed
  <1>4. LeakOnlyAfterClose'
    BY DEF LeakOnlyAfterClose, ServerTypeOK, Connection, ServerObject, KernelRefuses,
           Completes
  <1> QED
    BY <1>1, <1>2, <1>3, <1>4

\* A submission on a closed number completes with an error
LEMMA RearmInv ==
    ASSUME ServerInv, NEW f \in ListenFds, Rearm(f)
    PROVE  ServerInv'
  <1> USE ServerAssumption DEF ServerAssumption, ServerInv
  <1>1. ServerTypeOK'
    <2>1. sv' \in [Servers -> ServerObject]
      BY DEF ServerTypeOK, ServerObject, Rearm, Accepts
    <2>2. servers' \in [ListenFds -> Servers \cup {Nobody}] /\ armed' \in [Servers -> Nat]
      BY AcceptsArms DEF ServerTypeOK, Rearm
    <2>3. conn' \in [Clients -> Connection]
      BY DEF ServerTypeOK, Connection, Rearm, Accepts
    <2>4. cq' \in Seq(Completion) /\ todo' \in Seq(Completion)
      <3>1. [fd |-> f, client |-> Nobody] \in Completion
        BY DEF ServerTypeOK, ServersMatch, Completion
      <3>2. cq \in Seq(Completion) /\ todo \in Seq(Completion) /\ todo' = todo
        BY DEF ServerTypeOK, Rearm, Accepts
      <3>3. cq' = cq \/ cq' = Append(cq, [fd |-> f, client |-> Nobody])
        BY DEF Rearm, Accepts
      <3>4. Append(cq, [fd |-> f, client |-> Nobody]) \in Seq(Completion)
        BY <3>1, <3>2, QueueAppend
      <3> QED
        BY <3>2, <3>3, <3>4
    <2>5. running' \in BOOLEAN /\ crashed' \in BOOLEAN
      BY DEF ServerTypeOK, Rearm, Accepts
    <2>6. handling' \in ListenFds \cup {Nobody} /\ failed' \subseteq Servers
      BY DEF ServerTypeOK, Rearm, Accepts
    <2>7. errors' \in 0..MaxErrors
      BY DEF ServerTypeOK, Rearm, Accepts
    <2>8. queued' \in [ListenFds -> Nat]
      BY DEF ServerTypeOK, Rearm, Accepts
    <2> QED
      BY <2>1, <2>2, <2>3, <2>4, <2>5, <2>6, <2>7, <2>8 DEF ServerTypeOK
  <1>2. ServersMatch'
    <2>1. UNCHANGED <<sv, servers, conn>>
      BY DEF Rearm, Accepts
    <2>2. ASSUME NEW s \in Servers, armed'[s] > 0 PROVE sv[s].state # "none"
      <3>1. CASE armed' = armed
        BY <2>2, <3>1 DEF ServersMatch
      <3>2. CASE servers[f] # Nobody /\ armed' = [armed EXCEPT ![servers[f]] = @ + 1]
        <4>1. s = servers[f] \/ armed'[s] = armed[s]
          BY <3>2 DEF ServerTypeOK
        <4>2. sv[servers[f]].state # "none"
          BY <3>2 DEF ServersMatch, Bound
        <4> QED
          BY <2>2, <4>1, <4>2 DEF ServersMatch
      <3> QED
        BY <3>1, <3>2 DEF Rearm, Accepts
    <2> QED
      BY <2>1, <2>2 DEF ServersMatch, Bound
  <1>3. Routed(todo)' /\ Routed(cq)'
    <2>1. todo' = todo /\ conn' = conn /\ sv' = sv /\ cq \in Seq(Completion)
      BY DEF ServerTypeOK, Rearm, Accepts
    <2>2. [fd |-> f, client |-> Nobody] \in Completion
      BY DEF Completion
    <2>3. RoutedIn(cq', conn, sv)
      BY <2>1, <2>2, RoutedAppend DEF Routed, Rearm, Accepts
    <2> QED
      BY <2>1, <2>3 DEF Routed
  <1>4. LeakOnlyAfterClose'
    BY DEF LeakOnlyAfterClose, ServerTypeOK, Connection, ServerObject, Rearm, Accepts
  <1> QED
    BY <1>1, <1>2, <1>3, <1>4

\* So does one that was left in the submission queue
LEMMA SendQueuedInv ==
    ASSUME ServerInv, NEW f \in ListenFds, SendQueued(f)
    PROVE  ServerInv'
  <1> USE ServerAssumption DEF ServerAssumption, ServerInv
  <1>1. ServerTypeOK'
    <2>1. sv' \in [Servers -> ServerObject]
      BY DEF ServerTypeOK, ServerObject, SendQueued, Accepts
    <2>2. servers' \in [ListenFds -> Servers \cup {Nobody}] /\ armed' \in [Servers -> Nat]
      BY AcceptsArms DEF ServerTypeOK, SendQueued
    <2>3. conn' \in [Clients -> Connection]
      BY DEF ServerTypeOK, Connection, SendQueued, Accepts
    <2>4. cq' \in Seq(Completion) /\ todo' \in Seq(Completion)
      <3>1. [fd |-> f, client |-> Nobody] \in Completion
        BY DEF ServerTypeOK, ServersMatch, Completion
      <3>2. cq \in Seq(Completion) /\ todo \in Seq(Completion) /\ todo' = todo
        BY DEF ServerTypeOK, SendQueued, Accepts
      <3>3. cq' = cq \/ cq' = Append(cq, [fd |-> f, client |-> Nobody])
        BY DEF SendQueued, Accepts
      <3>4. Append(cq, [fd |-> f, client |-> Nobody]) \in Seq(Completion)
        BY <3>1, <3>2, QueueAppend
      <3> QED
        BY <3>2, <3>3, <3>4
    <2>5. running' \in BOOLEAN /\ crashed' \in BOOLEAN
      BY DEF ServerTypeOK, SendQueued, Accepts
    <2>6. handling' \in ListenFds \cup {Nobody} /\ failed' \subseteq Servers
      BY DEF ServerTypeOK, SendQueued, Accepts
    <2>7. errors' \in 0..MaxErrors
      BY DEF ServerTypeOK, SendQueued, Accepts
    <2>8. queued' \in [ListenFds -> Nat]
      <3>1. queued[f] \in Nat /\ queued[f] - 1 \in Nat
        BY DEF ServerTypeOK, SendQueued
      <3> QED
        BY <3>1 DEF ServerTypeOK, SendQueued
    <2> QED
      BY <2>1, <2>2, <2>3, <2>4, <2>5, <2>6, <2>7, <2>8 DEF ServerTypeOK
  <1>2. ServersMatch'
    <2>1. UNCHANGED <<sv, servers, conn>>
      BY DEF SendQueued, Accepts
    <2>2. ASSUME NEW s \in Servers, armed'[s] > 0 PROVE sv[s].state # "none"
      <3>1. CASE armed' = armed
        BY <2>2, <3>1 DEF ServersMatch
      <3>2. CASE servers[f] # Nobody /\ armed' = [armed EXCEPT ![servers[f]] = @ + 1]
        <4>1. s = servers[f] \/ armed'[s] = armed[s]
          BY <3>2 DEF ServerTypeOK
        <4>2. sv[servers[f]].state # "none"
          BY <3>2 DEF ServersMatch, Bound
        <4> QED
          BY <2>2, <4>1, <4>2 DEF ServersMatch
      <3> QED
        BY <3>1, <3>2 DEF SendQueued, Accepts
    <2> QED
      BY <2>1, <2>2 DEF ServersMatch, Bound
  <1>3. Routed(todo)' /\ Routed(cq)'
    <2>1. todo' = todo /\ conn' = conn /\ sv' = sv /\ cq \in Seq(Completion)
      BY DEF ServerTypeOK, SendQueued, Accepts
    <2>2. [fd |-> f, client |-> Nobody] \in Completion
      BY DEF Completion
    <2>3. RoutedIn(cq', conn, sv)
      BY <2>1, <2>2, RoutedAppend DEF Routed, SendQueued, Accepts
    <2> QED
      BY <2>1, <2>3 DEF Routed
  <1>4. LeakOnlyAfterClose'
    BY DEF LeakOnlyAfterClose, ServerTypeOK, Connection, ServerObject, SendQueued, Accepts
  <1> QED
    BY <1>1, <1>2, <1>3, <1>4

\* What an exception drops is lost
LEMMA RearmFailsInv ==
    ASSUME ServerInv, NEW f \in ListenFds, RearmFails(f)
    PROVE  ServerInv'
  <1> USE ServerAssumption DEF ServerAssumption, ServerInv
  <1>1. ServerTypeOK'
    <2>1. sv' \in [Servers -> ServerObject]
      BY DEF ServerTypeOK, ServerObject, RearmFails
    <2>2. servers' \in [ListenFds -> Servers \cup {Nobody}] /\ armed' \in [Servers -> Nat]
      BY DEF ServerTypeOK, RearmFails
    <2>3. conn' \in [Clients -> Connection]
      <3>1. \A c \in Clients : conn[c] \in Connection
        BY DEF ServerTypeOK
      <3>2. \A c \in Clients : [conn[c] EXCEPT !.state = "leaked"] \in Connection
        BY <3>1 DEF Connection
      <3> QED
        BY <3>1, <3>2 DEF RearmFails
    <2>4. cq' \in Seq(Completion) /\ todo' \in Seq(Completion)
      BY DEF ServerTypeOK, RearmFails
    <2>5. running' \in BOOLEAN /\ crashed' \in BOOLEAN
      BY DEF ServerTypeOK, RearmFails
    <2>6. handling' \in ListenFds \cup {Nobody} /\ failed' \subseteq Servers
      BY DEF ServerTypeOK, RearmFails
    <2>7. errors' \in 0..MaxErrors
      BY DEF ServerTypeOK, RearmFails
    <2>8. queued' \in [ListenFds -> Nat]
      BY RaisesQueues DEF RearmFails
    <2> QED
      BY <2>1, <2>2, <2>3, <2>4, <2>5, <2>6, <2>7, <2>8 DEF ServerTypeOK
  <1>2. ServersMatch'
    <2>1. \A i \in DOMAIN todo : todo[i].client # Nobody => conn[todo[i].client].state # "none"
      BY DEF Routed, RoutedIn
    <2>2. \A d \in Clients : conn'[d].state # "none" =>
              conn[d].state # "none" /\ conn'[d].to = conn[d].to
      BY <2>1 DEF ServerTypeOK, Connection, RearmFails
    <2> QED
      BY <2>2 DEF ServersMatch, Bound, RearmFails
  <1>3. Routed(todo)' /\ Routed(cq)'
    <2>1. /\ \A d \in Clients : conn[d].state # "none" =>
                conn'[d].state # "none" /\ conn'[d].to = conn[d].to
          /\ \A t \in Servers : sv[t].state # "none" =>
                sv'[t].state # "none" /\ sv'[t].fd = sv[t].fd
      BY DEF ServerTypeOK, ServerObject, Connection, RearmFails
    <2>2. todo' = <<>> /\ cq' = cq /\ cq \in Seq(Completion)
      BY DEF ServerTypeOK, RearmFails
    <2>3. RoutedIn(cq, conn', sv')
      BY <2>1, <2>2, RoutedStays, Zenon DEF Routed
    <2> QED
      BY <2>2, <2>3 DEF Routed, RoutedIn
  <1>4. LeakOnlyAfterClose'
    BY DEF LeakOnlyAfterClose, ServerTypeOK, Connection, ServerObject, RearmFails
  <1> QED
    BY <1>1, <1>2, <1>3, <1>4

\* A handled completion gives its client a transport or closes it
LEMMA AcceptHandledInv ==
    ASSUME ServerInv, NEW f \in ListenFds, AcceptHandled(f)
    PROVE  ServerInv'
  <1> USE ServerAssumption DEF ServerAssumption, ServerInv
  <1>1. ServerTypeOK'
    <2>1. sv' \in [Servers -> ServerObject]
      BY DEF ServerTypeOK, ServerObject, AcceptHandled, Handles, AfterRaise, Rearms,
             CreateTransport
    <2>2. servers' \in [ListenFds -> Servers \cup {Nobody}] /\ armed' \in [Servers -> Nat]
      BY DEF ServerTypeOK, AcceptHandled, Handles, AfterRaise, Rearms, CreateTransport
    <2>3. conn' \in [Clients -> Connection]
      <3>1. CreateTransport(Head(todo).client, servers[f]) \in [Clients -> Connection]
        BY ZenonT(60) DEF ServerTypeOK, Connection, CreateTransport
      <3>2. AfterRaise(Head(todo).client) \in [Clients -> Connection]
        BY ZenonT(60) DEF ServerTypeOK, Connection, AfterRaise
      <3> QED
        BY <3>1, <3>2 DEF AcceptHandled
    <2>4. cq' \in Seq(Completion) /\ todo' \in Seq(Completion)
      BY DEF ServerTypeOK, AcceptHandled, Handles, AfterRaise, Rearms, CreateTransport
    <2>5. running' \in BOOLEAN /\ crashed' \in BOOLEAN
      BY DEF ServerTypeOK, AcceptHandled, Handles, AfterRaise, Rearms, CreateTransport
    <2>6. handling' \in ListenFds \cup {Nobody} /\ failed' \subseteq Servers
      BY DEF ServerTypeOK, AcceptHandled, Handles, AfterRaise, Rearms, CreateTransport
    <2>7. errors' \in 0..MaxErrors
      BY DEF ServerTypeOK, AcceptHandled, Handles, AfterRaise, Rearms, CreateTransport
    <2>8. queued' \in [ListenFds -> Nat]
      BY DEF ServerTypeOK, AcceptHandled, Handles, AfterRaise, Rearms, CreateTransport
    <2> QED
      BY <2>1, <2>2, <2>3, <2>4, <2>5, <2>6, <2>7, <2>8 DEF ServerTypeOK
  <1>2. ServersMatch'
    <2>1. Head(todo) \in Completion /\ 1 \in DOMAIN todo /\ Head(todo) = todo[1]
      BY QueueParts DEF ServerTypeOK, AcceptHandled, Handles
    <2>2. Head(todo).client # Nobody => conn[Head(todo).client].state # "none"
      BY <2>1 DEF Routed, RoutedIn
    <2>3. \A d \in Clients : conn'[d].state # "none" =>
              conn[d].state # "none" /\ conn'[d].to = conn[d].to
      BY <2>2, SMTT(60) DEF ServerTypeOK, Connection, AcceptHandled, AfterRaise, CreateTransport
    <2>4. \A d \in Clients : conn'[d].state = "none" => conn'[d].by = Nobody
      BY <2>2, SMTT(60) DEF ServerTypeOK, ServersMatch, Connection, AcceptHandled, AfterRaise,
                  CreateTransport
    <2> QED
      BY <2>3, <2>4 DEF ServersMatch, Bound, AcceptHandled
  <1>3. Routed(todo)' /\ Routed(cq)'
    <2>1. /\ \A d \in Clients : conn[d].state # "none" =>
                conn'[d].state # "none" /\ conn'[d].to = conn[d].to
          /\ \A t \in Servers : sv[t].state # "none" =>
                sv'[t].state # "none" /\ sv'[t].fd = sv[t].fd
      BY DEF ServerTypeOK, ServerObject, Connection, AcceptHandled, Handles,
             AfterRaise, Rearms, CreateTransport
    <2>2. /\ cq' = cq /\ cq \in Seq(Completion) /\ todo \in Seq(Completion)
          /\ todo # <<>> /\ todo' = Tail(todo) /\ Tail(todo) \in Seq(Completion)
      BY DEF ServerTypeOK, AcceptHandled, Handles, AfterRaise, Rearms, CreateTransport
    <2>3. RoutedIn(Tail(todo), conn, sv)
      BY <2>2, RoutedTail DEF Routed
    <2>4. RoutedIn(Tail(todo), conn', sv') /\ RoutedIn(cq, conn', sv')
      BY <2>1, <2>2, <2>3, RoutedStays, ZenonT(60) DEF Routed
    <2> QED
      BY <2>2, <2>4 DEF Routed
  <1>4. LeakOnlyAfterClose'
    BY DEF LeakOnlyAfterClose, ServerTypeOK, Connection, ServerObject, AcceptHandled,
           Handles, AfterRaise, Rearms, CreateTransport
  <1> QED
    BY <1>1, <1>2, <1>3, <1>4

\* A client is lost only if its server has no entry in _servers, hence is closed
LEMMA AcceptIgnoredInv ==
    ASSUME ServerInv, NEW f \in ListenFds, AcceptIgnored(f)
    PROVE  ServerInv'
  <1> USE ServerAssumption DEF ServerAssumption, ServerInv
  <1>1. ServerTypeOK'
    <2>1. sv' \in [Servers -> ServerObject]
      BY DEF ServerTypeOK, ServerObject, AcceptIgnored, Handles
    <2>2. servers' \in [ListenFds -> Servers \cup {Nobody}] /\ armed' \in [Servers -> Nat]
      BY DEF ServerTypeOK, AcceptIgnored, Handles
    <2>3. conn' \in [Clients -> Connection]
      BY ZenonT(60) DEF ServerTypeOK, Connection, AcceptIgnored, Handles
    <2>4. cq' \in Seq(Completion) /\ todo' \in Seq(Completion)
      BY DEF ServerTypeOK, AcceptIgnored, Handles
    <2>5. running' \in BOOLEAN /\ crashed' \in BOOLEAN
      BY DEF ServerTypeOK, AcceptIgnored, Handles
    <2>6. handling' \in ListenFds \cup {Nobody} /\ failed' \subseteq Servers
      BY DEF ServerTypeOK, AcceptIgnored, Handles
    <2>7. errors' \in 0..MaxErrors
      BY DEF ServerTypeOK, AcceptIgnored, Handles
    <2>8. queued' \in [ListenFds -> Nat]
      BY DEF ServerTypeOK, AcceptIgnored, Handles
    <2> QED
      BY <2>1, <2>2, <2>3, <2>4, <2>5, <2>6, <2>7, <2>8 DEF ServerTypeOK
  <1>2. ServersMatch'
    <2>1. Head(todo) \in Completion /\ 1 \in DOMAIN todo /\ Head(todo) = todo[1]
      BY QueueParts DEF ServerTypeOK, AcceptIgnored, Handles
    <2>2. Head(todo).client # Nobody => conn[Head(todo).client].state # "none"
      BY <2>1 DEF Routed, RoutedIn
    <2>3. \A d \in Clients : conn'[d].state # "none" =>
              conn[d].state # "none" /\ conn'[d].to = conn[d].to
      BY <2>2 DEF ServerTypeOK, Connection, AcceptIgnored
    <2> QED
      BY <2>3 DEF ServersMatch, Bound, AcceptIgnored
  <1>3. Routed(todo)' /\ Routed(cq)'
    <2>1. /\ \A d \in Clients : conn[d].state # "none" =>
                conn'[d].state # "none" /\ conn'[d].to = conn[d].to
          /\ \A t \in Servers : sv[t].state # "none" =>
                sv'[t].state # "none" /\ sv'[t].fd = sv[t].fd
      BY DEF ServerTypeOK, ServerObject, Connection, AcceptIgnored, Handles
    <2>2. /\ cq' = cq /\ cq \in Seq(Completion) /\ todo \in Seq(Completion)
          /\ todo # <<>> /\ todo' = Tail(todo) /\ Tail(todo) \in Seq(Completion)
      BY DEF ServerTypeOK, AcceptIgnored, Handles
    <2>3. RoutedIn(Tail(todo), conn, sv)
      BY <2>2, RoutedTail DEF Routed
    <2>4. RoutedIn(Tail(todo), conn', sv') /\ RoutedIn(cq, conn', sv')
      BY <2>1, <2>2, <2>3, RoutedStays, Zenon DEF Routed
    <2> QED
      BY <2>2, <2>4 DEF Routed
  <1>4. LeakOnlyAfterClose'
    <2>1. Head(todo) \in Completion /\ 1 \in DOMAIN todo /\ Head(todo) = todo[1]
      BY QueueParts DEF ServerTypeOK, AcceptIgnored, Handles
    <2>2. CASE Head(todo).client = Nobody
      BY <2>2 DEF LeakOnlyAfterClose, AcceptIgnored
    <2>3. CASE Head(todo).client # Nobody
      <3> DEFINE c == Head(todo).client
      <3>1. c \in Clients /\ servers[f] = Nobody /\ f = Head(todo).fd
        BY <2>1, <2>3 DEF Completion, AcceptIgnored, Handles
      <3>2. conn[c].to \in Servers /\ sv[conn[c].to].state # "none" /\ sv[conn[c].to].fd = f
        BY <2>1, <2>3, <3>1 DEF Routed, RoutedIn
      <3>3. ~Bound(conn[c].to)
        BY <3>1, <3>2 DEF ServersMatch
      <3>4. sv[conn[c].to].state = "closed"
        BY <3>2, <3>3 DEF Bound, ServerTypeOK, ServerObject
      <3>5. conn' = [conn EXCEPT ![c].state = "leaked"] /\ sv' = sv /\ crashed' = crashed
        BY <2>3 DEF AcceptIgnored
      <3> QED
        BY <3>1, <3>4, <3>5 DEF LeakOnlyAfterClose, ServerTypeOK, Connection
    <2> QED
      BY <2>2, <2>3
  <1> QED
    BY <1>1, <1>2, <1>3, <1>4

----------------------------------------------------------------------------
\* Every step keeps the invariant
LEMMA InvNext == ServerInv /\ [ServerNext]_serverVars => ServerInv'
  <1> SUFFICES ASSUME ServerInv, [ServerNext]_serverVars PROVE ServerInv'
    OBVIOUS
  <1>1. CASE UNCHANGED serverVars
    BY <1>1 DEF serverVars, ServerInv, ServerTypeOK, ServersMatch, Bound, Routed,
       RoutedIn, LeakOnlyAfterClose
  <1>2. CASE ServerNext
    BY <1>2, ClientConnectsInv, CloseInv, StartServingInv, ServeForeverInv,
       CancelForeverInv, CreateInv, CreateFailsInv, EndBatchInv, RunTickInv,
       KernelAcceptsInv, KernelRefusesInv, RearmInv, SendQueuedInv, RearmFailsInv,
       AcceptHandledInv, AcceptIgnoredInv, Zenon
    DEF ServerNext, ServerLoop
  <1> QED
    BY <1>1, <1>2

\* The invariant holds in every state of the server
LEMMA InvAlways == ServerSpec => []ServerInv
  BY InvInit, InvNext, PTL DEF ServerSpec

(***************************************************************************)
(* For any number of servers, clients and descriptor numbers: an accepted  *)
(* descriptor is lost only when its server was closed or an exception left *)
(* _process_completions.                                                   *)
(***************************************************************************)
THEOREM LeakCorrect == ServerSpec => []LeakOnlyAfterClose
  <1>1. ServerInv => LeakOnlyAfterClose
    BY DEF ServerInv
  <1> QED
    BY <1>1, InvAlways, PTL

\* A step that gives a connection to a server finds the server open
LEMMA ServesOpen ==
    ASSUME ServerInv, ServerNext, NEW c \in Clients, conn'[c].by # conn[c].by
    PROVE  sv[conn'[c].by].state # "closed"
  <1>1. ASSUME NEW f \in ListenFds, AcceptHandled(f)
        PROVE  sv[conn'[c].by].state # "closed"
    <2>1. servers[f] \in Servers /\ Bound(servers[f])
      BY <1>1, SMTT(60) DEF ServerInv, ServersMatch, ServerTypeOK, AcceptHandled
    <2>2. conn'[c].by = servers[f]
      BY <1>1 DEF ServerInv, ServerTypeOK, Connection, AcceptHandled,
             CreateTransport, AfterRaise
    <2> QED
      BY <2>1, <2>2 DEF Bound
  <1>2. ASSUME NEW f \in ListenFds, AcceptIgnored(f)
        PROVE  conn'[c].by = conn[c].by
    BY <1>2 DEF ServerInv, ServerTypeOK, Connection, AcceptIgnored
  <1>3. ASSUME NEW f \in ListenFds, RearmFails(f)
        PROVE  conn'[c].by = conn[c].by
    BY <1>3 DEF ServerInv, ServerTypeOK, Connection, RearmFails
  <1>4. ASSUME NEW s \in Servers, NEW d \in Clients, KernelAccepts(s, d)
        PROVE  conn'[c].by = conn[c].by
    BY <1>4 DEF ServerInv, ServerTypeOK, Connection, KernelAccepts
  <1>5. ASSUME NEW s \in Servers, NEW d \in Clients, ClientConnects(d, s)
        PROVE  conn'[c].by = conn[c].by
    BY <1>5 DEF ServerInv, ServersMatch, ServerTypeOK, Connection, ClientConnects
  <1>6. ASSUME NEW s \in Servers,
               \/ Close(s) \/ StartServing(s) \/ ServeForever(s)
               \/ CancelForever(s) \/ KernelRefuses(s)
        PROVE  conn' = conn
    BY <1>6 DEF Close, StartServing, ServeForever, CancelForever, KernelRefuses
  <1>7. ASSUME NEW s \in Servers, NEW f \in ListenFds,
               CreateFails(s, f) \/ \E started \in BOOLEAN : Create(s, f, started)
        PROVE  conn' = conn
    BY <1>7 DEF CreateFails, Create
  <1>8. ASSUME RunTick \/ EndBatch \/ \E f \in ListenFds : Rearm(f) \/ SendQueued(f)
        PROVE  conn' = conn
    BY <1>8 DEF RunTick, EndBatch, Rearm, SendQueued
  <1> QED
    BY <1>1, <1>2, <1>3, <1>4, <1>5, <1>6, <1>7, <1>8, Zenon DEF ServerNext, ServerLoop

(***************************************************************************)
(* For any number of servers, clients and descriptor numbers: no protocol  *)
(* of a closed server is made, because the completion is looked up in      *)
(* _servers and close() takes the server out of it.                        *)
(***************************************************************************)
THEOREM ServesNobodyCorrect == ServerSpec => ClosedServesNobody
  <1> DEFINE Opens == \A c \in Clients :
                        conn'[c].by # conn[c].by => sv[conn'[c].by].state # "closed"
  <1>1. ServerInv /\ [ServerNext]_serverVars => [Opens]_conn
    <2>1. ASSUME ServerInv, ServerNext PROVE Opens
      BY <2>1, ServesOpen
    <2>2. ASSUME UNCHANGED serverVars PROVE UNCHANGED conn
      BY <2>2 DEF serverVars
    <2> QED
      BY <2>1, <2>2
  <1> QED
    BY <1>1, InvAlways, PTL DEF ServerSpec, ClosedServesNobody
----------------------------------------------------------------------------
(***************************************************************************)
(* The chain of accepts.                                                   *)
(***************************************************************************)
\* A completion in q that will make the loop submit an accept on number f
Waits(q, f) == \E i \in DOMAIN q : q[i].fd = f /\ q[i].client # Nobody

\* What makes AcceptPending inductive: the completion on its way is no error
AcceptChain ==
    \A s \in Servers : Healthy(s) =>
        \/ armed[s] > 0 \/ handling = sv[s].fd
        \/ Waits(todo, sv[s].fd) \/ Waits(cq, sv[s].fd)

\* The completion on its way is the first or in the rest
LEMMA WaitsTail ==
    ASSUME NEW q \in Seq(Completion), q # <<>>, NEW f, Waits(q, f)
    PROVE  Waits(Tail(q), f) \/ (Head(q).fd = f /\ Head(q).client # Nobody)
  <1>1. PICK i \in DOMAIN q : q[i].fd = f /\ q[i].client # Nobody
    BY DEF Waits
  <1>2. CASE i = 1
    BY <1>1, <1>2, QueueParts
  <1>3. CASE i # 1
    <2>1. i - 1 \in DOMAIN Tail(q) /\ Tail(q)[i - 1] = q[i]
      BY <1>3
    <2> QED
      BY <1>1, <2>1 DEF Waits
  <1> QED
    BY <1>2, <1>3

\* An appended completion leaves the others where they are
LEMMA WaitsAppend ==
    ASSUME NEW q \in Seq(Completion), NEW e \in Completion, NEW f,
           Waits(q, f) \/ (e.fd = f /\ e.client # Nobody)
    PROVE  Waits(Append(q, e), f)
  <1>1. CASE Waits(q, f)
    <2>1. PICK i \in DOMAIN q : q[i].fd = f /\ q[i].client # Nobody
      BY <1>1 DEF Waits
    <2>2. i \in DOMAIN Append(q, e) /\ Append(q, e)[i] = q[i]
      OBVIOUS
    <2> QED
      BY <2>1, <2>2 DEF Waits
  <1>2. CASE e.fd = f /\ e.client # Nobody
    <2>1. Len(q) + 1 \in DOMAIN Append(q, e) /\ Append(q, e)[Len(q) + 1] = e
      OBVIOUS
    <2> QED
      BY <1>2, <2>1 DEF Waits
  <1> QED
    BY <1>1, <1>2

\* A step that makes no server healthy and touches neither queue nor accepts
LEMMA ChainStays ==
    ASSUME AcceptChain, armed' = armed, handling' = handling, todo' = todo, cq' = cq,
           \A s \in Servers : Healthy(s)' => Healthy(s) /\ sv'[s].fd = sv[s].fd
    PROVE  AcceptChain'
  BY DEF AcceptChain

\* Every step keeps the chain.
LEMMA ChainStep ==
    ASSUME ServerInv, AcceptChain, [ServerNext]_serverVars PROVE AcceptChain'
  <1>0. /\ todo \in Seq(Completion) /\ cq \in Seq(Completion) /\ armed \in [Servers -> Nat]
        /\ sv \in [Servers -> ServerObject] /\ servers \in [ListenFds -> Servers \cup {Nobody}]
        /\ conn \in [Clients -> Connection]
    BY DEF ServerInv, ServerTypeOK
  <1>1. ASSUME NEW s \in Servers, NEW c \in Clients, ClientConnects(c, s) PROVE AcceptChain'
    BY <1>1, ChainStays DEF ClientConnects, Healthy
  <1>2. ASSUME NEW s \in Servers, NEW c \in Clients, KernelAccepts(s, c) PROVE AcceptChain'
    <2> DEFINE e == [fd |-> sv[s].fd, client |-> c]
    <2>1. /\ armed' = [armed EXCEPT ![s] = @ - 1] /\ cq' = Append(cq, e) /\ armed[s] > 0
          /\ UNCHANGED <<sv, todo, handling, failed, crashed>>
      BY <1>2 DEF KernelAccepts, Completes
    <2>2. sv[s].fd \in ListenFds /\ c # Nobody
      BY <2>1, ServerAssumption DEF ServerAssumption, ServerInv, ServersMatch
    <2>3. e \in Completion /\ e.fd = sv[s].fd /\ e.client # Nobody
      BY <2>2 DEF Completion
    <2> HIDE DEF e
    <2>4. ASSUME NEW t \in Servers, Healthy(t)'
          PROVE  \/ armed'[t] > 0 \/ handling' = sv'[t].fd
                 \/ Waits(todo', sv'[t].fd) \/ Waits(cq', sv'[t].fd)
      <3>1. Healthy(t)
        BY <2>1, <2>4 DEF Healthy
      <3>2. CASE t = s
        BY <1>0, <2>1, <2>3, <3>2, WaitsAppend
      <3>3. CASE t # s
        <4>1. armed'[t] = armed[t]
          BY <1>0, <2>1, <3>3
        <4>2. Waits(cq, sv[t].fd) => Waits(cq', sv[t].fd)
          BY <1>0, <2>1, <2>3, WaitsAppend
        <4> QED
          BY <2>1, <3>1, <4>1, <4>2 DEF AcceptChain
      <3> QED
        BY <3>2, <3>3
    <2> QED
      BY <2>4 DEF AcceptChain
  <1>3. ASSUME NEW s \in Servers, KernelRefuses(s) PROVE AcceptChain'
    <2> DEFINE e == [fd |-> sv[s].fd, client |-> Nobody]
    <2>1. /\ armed' = [armed EXCEPT ![s] = @ - 1] /\ cq' = Append(cq, e) /\ armed[s] > 0
          /\ failed' = failed \cup {s} /\ UNCHANGED <<sv, todo, handling, crashed>>
      BY <1>3 DEF KernelRefuses, Completes
    <2>2. sv[s].fd \in ListenFds
      BY <2>1 DEF ServerInv, ServersMatch
    <2>3. e \in Completion
      BY <2>2 DEF Completion
    <2> HIDE DEF e
    <2>4. ASSUME NEW t \in Servers, Healthy(t)'
          PROVE  \/ armed'[t] > 0 \/ handling' = sv'[t].fd
                 \/ Waits(todo', sv'[t].fd) \/ Waits(cq', sv'[t].fd)
      <3>1. Healthy(t) /\ t # s
        BY <2>1, <2>4 DEF Healthy
      <3>2. armed'[t] = armed[t]
        BY <1>0, <2>1, <3>1
      <3>3. Waits(cq, sv[t].fd) => Waits(cq', sv[t].fd)
        BY <1>0, <2>1, <2>3, WaitsAppend
      <3> QED
        BY <2>1, <3>1, <3>2, <3>3 DEF AcceptChain
    <2> QED
      BY <2>4 DEF AcceptChain
  <1>4. ASSUME NEW s \in Servers, NEW f \in ListenFds, NEW started \in BOOLEAN, Create(s, f, started)
        PROVE  AcceptChain'
    <2>1. /\ sv' = [sv EXCEPT ![s] = [NoServer EXCEPT !.state = "open", !.fd = f, !.started = started]]
          /\ armed' = IF started THEN [armed EXCEPT ![s] = @ + 1] ELSE armed
          /\ UNCHANGED <<todo, cq, handling, failed, crashed>>
      BY <1>4 DEF Create, Listens
    <2>2. ASSUME NEW t \in Servers, Healthy(t)'
          PROVE  \/ armed'[t] > 0 \/ handling' = sv'[t].fd
                 \/ Waits(todo', sv'[t].fd) \/ Waits(cq', sv'[t].fd)
      <3>1. CASE t = s
        <4>1. sv'[s].started = started
          BY <1>0, <2>1 DEF NoServer
        <4>2. started
          BY <2>2, <3>1, <4>1 DEF Healthy
        <4> QED
          BY <1>0, <2>1, <3>1, <4>2
      <3>2. CASE t # s
        <4>1. sv'[t] = sv[t] /\ armed'[t] = armed[t]
          BY <1>0, <2>1, <3>2
        <4>2. Healthy(t)
          BY <2>1, <2>2, <4>1 DEF Healthy
        <4> QED
          BY <2>1, <4>1, <4>2 DEF AcceptChain
      <3> QED
        BY <3>1, <3>2
    <2> QED
      BY <2>2 DEF AcceptChain
  <1>5. ASSUME NEW s \in Servers, NEW f \in ListenFds, CreateFails(s, f) PROVE AcceptChain'
    <2>1. /\ sv' = [sv EXCEPT ![s] = [NoServer EXCEPT !.state = "lost", !.fd = f]]
          /\ failed' = failed \cup {s}
          /\ UNCHANGED <<armed, todo, cq, handling, crashed>>
      BY <1>5 DEF CreateFails, Listens
    <2>2. \A t \in Servers : Healthy(t)' => Healthy(t) /\ sv'[t].fd = sv[t].fd
      BY <1>0, <2>1 DEF Healthy
    <2> QED
      BY <2>1, <2>2, ChainStays
  <1>6. ASSUME NEW s \in Servers, \/ Close(s) \/ StartServing(s) \/ ServeForever(s) \/ CancelForever(s)
        PROVE  AcceptChain'
    <2>1. UNCHANGED <<armed, todo, cq, handling, failed, crashed>>
      BY <1>6 DEF Close, StartServing, ServeForever, CancelForever
    <2>2. \A t \in Servers : /\ sv'[t].fd = sv[t].fd /\ sv'[t].started = sv[t].started
                             /\ sv'[t].state = "open" => sv[t].state = "open"
      <3>1. CASE Close(s)
        BY <1>0, <3>1 DEF Close, Closed, ServerObject
      <3>2. CASE StartServing(s)
        BY <1>0, <3>2 DEF StartServing, ServerObject
      <3>3. CASE ServeForever(s)
        BY <1>0, <3>3 DEF ServeForever, ServerObject
      <3>4. CASE CancelForever(s)
        <4>1. /\ Closed(sv[s]) \in ServerObject /\ Closed(sv[s]).fd = sv[s].fd
              /\ Closed(sv[s]).started = sv[s].started
              /\ Closed(sv[s]).state = "open" => sv[s].state = "open"
          BY <1>0 DEF Closed, ServerObject
        <4> QED
          BY <1>0, <3>4, <4>1 DEF CancelForever, ServerObject
      <3> QED
        BY <1>6, <3>1, <3>2, <3>3, <3>4
    <2>3. \A t \in Servers : Healthy(t)' => Healthy(t)
      BY <2>1, <2>2 DEF Healthy
    <2> QED
      BY <2>1, <2>2, <2>3, ChainStays
  <1>7. CASE RunTick
    <2>1. todo = <<>> /\ todo' = cq /\ UNCHANGED <<sv, armed, handling, failed, crashed>>
      BY <1>7 DEF RunTick
    <2>2. \A f : ~Waits(todo, f)
      BY <2>1 DEF Waits
    <2> QED
      BY <2>1, <2>2 DEF AcceptChain, Healthy
  <1>8. CASE EndBatch
    BY <1>8, ChainStays DEF EndBatch, Healthy
  <1>9. ASSUME NEW f \in ListenFds, AcceptHandled(f) PROVE AcceptChain'
    <2>1. /\ todo # <<>> /\ f = Head(todo).fd /\ handling = Nobody /\ handling' = f /\ todo' = Tail(todo)
          /\ UNCHANGED <<sv, armed, cq, failed, crashed>>
      BY <1>9 DEF AcceptHandled, Handles, Rearms
    <2>2. ASSUME NEW t \in Servers, Healthy(t)'
          PROVE  \/ armed'[t] > 0 \/ handling' = sv'[t].fd
                 \/ Waits(todo', sv'[t].fd) \/ Waits(cq', sv'[t].fd)
      <3>1. Healthy(t)
        BY <2>1, <2>2 DEF Healthy
      <3>2. handling # sv[t].fd
        BY <2>1, <3>1, ServerAssumption
        DEF ServerAssumption, Healthy, ServerInv, ServersMatch, Bound
      <3>3. Waits(todo, sv[t].fd) => Waits(todo', sv[t].fd) \/ handling' = sv[t].fd
        BY <1>0, <2>1, WaitsTail
      <3> QED
        BY <2>1, <3>1, <3>2, <3>3 DEF AcceptChain
    <2> QED
      BY <2>2 DEF AcceptChain
  <1>10. ASSUME NEW f \in ListenFds, AcceptIgnored(f) PROVE AcceptChain'
    <2>1. /\ todo # <<>> /\ f = Head(todo).fd /\ todo' = Tail(todo)
          /\ Head(todo).client = Nobody \/ servers[f] = Nobody
          /\ UNCHANGED <<sv, armed, cq, failed, crashed, handling>>
      BY <1>10 DEF AcceptIgnored, Handles
    <2>2. ASSUME NEW t \in Servers, Healthy(t)'
          PROVE  \/ armed'[t] > 0 \/ handling' = sv'[t].fd
                 \/ Waits(todo', sv'[t].fd) \/ Waits(cq', sv'[t].fd)
      <3>1. Healthy(t)
        BY <2>1, <2>2 DEF Healthy
      <3>2. sv[t].fd \in ListenFds /\ servers[sv[t].fd] = t
        BY <3>1 DEF Healthy, ServerInv, ServersMatch, Bound
      <3>3. Waits(todo, sv[t].fd) => Waits(todo', sv[t].fd)
        <4>1. ~(Head(todo).fd = sv[t].fd /\ Head(todo).client # Nobody)
          BY <2>1, <3>2, ServerAssumption DEF ServerAssumption
        <4> QED
          BY <1>0, <2>1, <4>1, WaitsTail
      <3> QED
        BY <2>1, <3>1, <3>3 DEF AcceptChain
    <2> QED
      BY <2>2 DEF AcceptChain
  <1>11. ASSUME NEW f \in ListenFds, Rearm(f) \/ SendQueued(f) PROVE AcceptChain'
    <2>1. /\ handling' = handling \/ (handling = f /\ Rearm(f))
          /\ Accepts(f) /\ UNCHANGED <<sv, todo, failed, crashed>>
      BY <1>11 DEF Rearm, SendQueued
    <2>2. ASSUME NEW t \in Servers, Healthy(t)'
          PROVE  \/ armed'[t] > 0 \/ handling' = sv'[t].fd
                 \/ Waits(todo', sv'[t].fd) \/ Waits(cq', sv'[t].fd)
      <3>1. Healthy(t)
        BY <2>1, <2>2 DEF Healthy
      <3>2. servers[sv[t].fd] = t
        BY <3>1 DEF Healthy, ServerInv, ServersMatch, Bound
      <3>3. armed'[t] >= armed[t]
        <4>1. armed[t] \in Nat
          BY <1>0
        <4>2. CASE armed' = armed
          BY <4>1, <4>2
        <4>3. CASE armed' = [armed EXCEPT ![servers[f]] = @ + 1]
          <5>1. armed'[t] = armed[t] \/ armed'[t] = armed[t] + 1
            BY <1>0, <4>3
          <5> QED
            BY <4>1, <5>1
        <4> QED
          BY <2>1, <4>2, <4>3 DEF Accepts
      <3>4. CASE sv[t].fd = f
        <4>1. servers[f] = t /\ t # Nobody
          BY <3>2, <3>4, ServerAssumption DEF ServerAssumption
        <4>2. armed' = [armed EXCEPT ![t] = @ + 1]
          BY <2>1, <4>1 DEF Accepts
        <4> QED
          BY <1>0, <4>2
      <3>5. CASE sv[t].fd # f
        <4>1. Waits(cq, sv[t].fd) => Waits(cq', sv[t].fd)
          <5>1. CASE cq' = cq
            BY <5>1
          <5>2. CASE cq' = Append(cq, [fd |-> f, client |-> Nobody])
            <6>1. [fd |-> f, client |-> Nobody] \in Completion
              BY DEF Completion
            <6> QED
              BY <1>0, <5>2, <6>1, WaitsAppend
          <5> QED
            BY <2>1, <5>1, <5>2 DEF Accepts
        <4>2. armed[t] > 0 => armed'[t] > 0
          <5>1. armed[t] \in Nat /\ armed'[t] \in Nat
            BY <1>0, <2>1, AcceptsArms DEF ServerInv
          <5> QED
            BY <3>3, <5>1
        <4> QED
          BY <2>1, <3>1, <3>5, <4>1, <4>2 DEF AcceptChain
      <3> QED
        BY <3>4, <3>5
    <2> QED
      BY <2>2 DEF AcceptChain
  <1>12. ASSUME NEW f \in ListenFds, RearmFails(f) PROVE AcceptChain'
    BY <1>12 DEF RearmFails, AcceptChain, Healthy
  <1>13. CASE UNCHANGED serverVars
    BY <1>13, ChainStays DEF serverVars, Healthy
  <1> QED
    BY <1>1, <1>2, <1>3, <1>4, <1>5, <1>6, <1>7, <1>8, <1>9, <1>10, <1>11, <1>12, <1>13
    DEF ServerNext, ServerLoop

(***************************************************************************)
(* For any number of servers, clients and descriptor numbers, also when a  *)
(* closed server's number is used again: an open server that met no error  *)
(* has an accept in the kernel or a completion on its way that will submit *)
(* the next one.                                                           *)
(***************************************************************************)
THEOREM AcceptPendingCorrect == ServerSpec => []AcceptPending
  <1>1. ServerInit => AcceptChain
    BY DEF ServerInit, NoServer, AcceptChain, Healthy
  <1>2. ServerInv /\ AcceptChain /\ [ServerNext]_serverVars => AcceptChain'
    BY ChainStep
  <1>3. ASSUME ServerInv, AcceptChain PROVE AcceptPending
    <2>1. todo \in Seq(Completion) /\ cq \in Seq(Completion)
      BY <1>3 DEF ServerInv, ServerTypeOK
    <2>2. ASSUME NEW f, Waits(todo, f) PROVE Pending(f)
      <3>1. PICK i \in DOMAIN todo : todo[i].fd = f
        BY <2>2 DEF Waits
      <3>2. i \in DOMAIN (todo \o cq) /\ (todo \o cq)[i] = todo[i]
        BY <2>1
      <3> QED
        BY <3>1, <3>2 DEF Pending
    <2>3. ASSUME NEW f, Waits(cq, f) PROVE Pending(f)
      <3>1. PICK i \in DOMAIN cq : cq[i].fd = f
        BY <2>3 DEF Waits
      <3>2. Len(todo) + i \in DOMAIN (todo \o cq) /\ (todo \o cq)[Len(todo) + i] = cq[i]
        BY <2>1
      <3> QED
        BY <3>1, <3>2 DEF Pending
    <2> QED
      BY <1>3, <2>2, <2>3 DEF AcceptChain, AcceptPending, Pending
  <1>4. ServerInv /\ AcceptChain => AcceptPending
    BY <1>3
  <1> QED
    BY <1>1, <1>2, <1>4, InvAlways, PTL DEF ServerSpec
============================================================================
