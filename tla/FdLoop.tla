------------------------------- MODULE FdLoop -------------------------------
(***************************************************************************)
(* What a transport built on add_reader and add_writer sees of the loop:   *)
(* the callbacks epoll watches a descriptor for, and the ready queue.  The *)
(* loop itself is in EventLoop.                                            *)
(***************************************************************************)
EXTENDS Integers, Sequences, FiniteSets

VARIABLES
    watched,  \* callbacks with an entry in _readers or _writers
    ready     \* callbacks the loop will run, oldest first

fdLoopVars == <<watched, ready>>

FdLoopInit == watched = {} /\ ready = <<>>

\* epoll is asked only when nothing is ready (_run_once).  It reports every
\* watched descriptor that is live, in any order, and the loop queues their
\* callbacks.
Poll(live) ==
    /\ ready = <<>>
    /\ LET found == watched \cap live IN
       /\ found # {}
       /\ \E s \in [1..Cardinality(found) -> found] :
             {s[i] : i \in DOMAIN s} = found /\ ready' = s
    /\ UNCHANGED watched

\* The oldest callback runs.  remove_reader and remove_writer leave the queue
\* alone, so it may run after its descriptor is no longer watched.
Runs(cb) == ready # <<>> /\ Head(ready) = cb
Return == ready' = Tail(ready)
CallSoon(cb) == ready' = Append(ready, cb)
============================================================================
