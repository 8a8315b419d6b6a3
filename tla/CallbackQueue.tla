--------------------------- MODULE CallbackQueue ---------------------------
(***************************************************************************)
(* What call_soon, call_soon_threadsafe, the timers and the done-callbacks *)
(* promise together: scheduled callbacks are executed one at a time, in    *)
(* the order in which they became ready, each of them once, except those   *)
(* that are cancelled before their turn.                                   *)
(***************************************************************************)
EXTENDS Integers, Sequences

CONSTANTS Items, None

VARIABLES pending,    \* callbacks that are ready, oldest first
          cancelled,  \* callbacks cancelled before their turn
          current     \* the callback being executed

queueVars == <<pending, cancelled, current>>

QueueInit == pending = <<>> /\ cancelled = {} /\ current = None

\* Some callbacks that were not ready become ready, behind all others
MakeReady ==
    /\ Len(pending) < Len(pending')
    /\ SubSeq(pending', 1, Len(pending)) = pending
    /\ \A i, j \in 1..Len(pending') : pending'[i] = pending'[j] => i = j
    /\ UNCHANGED <<cancelled, current>>

\* The oldest callback is executed, or dropped if it was cancelled
Begin ==
    /\ current = None /\ pending # <<>>
    /\ pending' = Tail(pending)
    /\ current' = IF Head(pending) \in cancelled THEN None ELSE Head(pending)
    /\ cancelled' = cancelled \ {Head(pending)}

End == current # None /\ current' = None /\ UNCHANGED <<pending, cancelled>>

Cancel(i) == cancelled' = cancelled \cup {i} /\ UNCHANGED <<pending, current>>

QueueNext == MakeReady \/ Begin \/ End \/ \E i \in Items : Cancel(i)

QueueSpec == QueueInit /\ [][QueueNext]_queueVars
============================================================================
