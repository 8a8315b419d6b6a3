----------------------------- MODULE FixedFiles -----------------------------
(***************************************************************************)
(* Registered files: Ring::register_file, unregister_file and shutdown     *)
(* (ring.rs) over FixedFdTable (fixed_fd.rs) and the kernel's own array,   *)
(* which every update may fail to change.  The ring's mutex makes a call   *)
(* one step.                                                               *)
(*                                                                         *)
(* The prep_ functions of ring.rs submit on the slot lookup_fixed returns, *)
(* so a wrong slot means input or output on another connection.  A number  *)
(* is not a file: it may be closed and given to another file while the     *)
(* kernel's array still holds the first one, and an entry that could not   *)
(* be flushed waits in the submission queue with the slot it was given.    *)
(***************************************************************************)
EXTENDS Integers, Sequences

CONSTANTS
    Fds,        \* descriptor numbers
    Files,      \* open files, which numbers refer to
    Capacity,   \* DEFAULT_RING_SIZE, the number of slots
    QueueSize,  \* the entries the submission queue holds
    None        \* -1 in an array of files, absence elsewhere

ASSUME FilesAssumption ==
    /\ Capacity \in Nat
    /\ QueueSize \in Nat
    /\ None \notin Fds /\ None \notin Files
    /\ None \notin Int

VARIABLES
    table,   \* Ring.registered_fds: None or a FixedFdTable
    kernel,  \* the array registered with the kernel, or None
    file,    \* the file each number refers to, None for a closed one
    queued,  \* entries pushed and not yet taken by the kernel
    stale    \* history: numbers closed while the table had a slot for them

filesVars == <<table, kernel, file, queued, stale>>

Slots == 0..(Capacity - 1)
Arrays == [Slots -> Files \cup {None}]
Tables == [index : [Fds -> Slots \cup {None}],
           files : [Slots -> Fds \cup {None}],
           free  : Seq(Slots)]

\* None is neither a table nor an array of files
ASSUME NoneAssumption == None \notin Tables /\ None \notin Arrays

NoFiles == [i \in Slots |-> None]

\* Bug: the indices start at 1
BugNewTable == [index |-> [fd \in Fds |-> None],
                files |-> NoFiles,
                free  |-> [k \in 1..Capacity |-> Capacity + 1 - k]]

\* FixedFdTable::new: the indices are pushed in reverse, so that 0 is on top
NewTable == [index |-> [fd \in Fds |-> None],
             files |-> NoFiles,
             free  |-> [k \in 1..Capacity |-> Capacity - k]]

\* A submission queue entry: the number and the slot it was pushed with, and
\* as history the file it was meant for and whether no later call of the
\* program took that file away from it
Entries == [fd : Fds, slot : Slots \cup {None}, file : Files, sound : BOOLEAN]

HasSlot(fd) == table # None /\ table.index[fd] # None

Top(s) == s[Len(s)]
Popped(s) == SubSeq(s, 1, Len(s) - 1)

\* FixedFdTable::insert with a free index: it looks the number up itself, and
\* changes nothing for one that has a slot
Insert(t, fd) ==
    IF t.index[fd] # None THEN t
    ELSE [index |-> [t.index EXCEPT ![fd] = Top(t.free)],
          files |-> [t.files EXCEPT ![Top(t.free)] = fd],
          free  |-> Popped(t.free)]

\* Bug: the slot does not go back to the free indices
BugRemove(t, fd) ==
    [index |-> [t.index EXCEPT ![fd] = None],
     files |-> [t.files EXCEPT ![t.index[fd]] = None],
     free  |-> t.free]

\* FixedFdTable::remove of a descriptor that has a slot
Remove(t, fd) ==
    [index |-> [t.index EXCEPT ![fd] = None],
     files |-> [t.files EXCEPT ![t.index[fd]] = None],
     free  |-> Append(t.free, t.index[fd])]

FilesInit ==
    /\ table = None /\ kernel = None
    /\ file = [fd \in Fds |-> None]
    /\ queued = <<>> /\ stale = {}

----------------------------------------------------------------------------
\* The first call registers an empty array with the kernel; nothing happens
\* if the kernel refuses, as it does when an array is still registered
MayCreate == table = None => kernel = None
TableBefore == IF table = None THEN NewTable ELSE table
KernelBefore == IF table = None THEN NoFiles ELSE kernel

\* register_file returns early for a descriptor that has a slot
NeedsSlot(fd) == TableBefore.index[fd] = None

\* No free index: an error, the table stays as it is
RegisterFull(fd) ==
    /\ MayCreate /\ NeedsSlot(fd) /\ TableBefore.free = <<>>
    /\ table' = TableBefore /\ kernel' = KernelBefore
    /\ UNCHANGED <<file, queued, stale>>

\* insert, then register_files_update puts the file the number refers to now
\* into the kernel's array
RegisterOk(fd) ==
    /\ MayCreate /\ NeedsSlot(fd) /\ TableBefore.free # <<>>
    /\ file[fd] # None
    /\ table' = Insert(TableBefore, fd)
    /\ kernel' = [KernelBefore EXCEPT ![table'.index[fd]] = file[fd]]
    /\ UNCHANGED <<file, queued, stale>>

\* Bug: no rollback
BugRegisterRefused(fd) ==
    /\ MayCreate /\ NeedsSlot(fd) /\ TableBefore.free # <<>>
    /\ table' = Insert(TableBefore, fd)
    /\ kernel' = KernelBefore
    /\ UNCHANGED <<file, queued, stale>>

\* register_files_update fails, as it does for a closed number: the insertion
\* is rolled back
RegisterRefused(fd) ==
    /\ MayCreate /\ NeedsSlot(fd) /\ TableBefore.free # <<>>
    /\ table' = Remove(Insert(TableBefore, fd), fd)
    /\ kernel' = KernelBefore
    /\ UNCHANGED <<file, queued, stale>>

\* The queue when the program takes their file away from the entries in lost
Losing(lost) ==
    [k \in 1..Len(queued) |->
        [queued[k] EXCEPT !.sound = @ /\ queued[k] \notin lost]]

\* unregister_file: the table forgets the file first; a kernel that refuses
\* (ok = FALSE) keeps it in a slot that the table considers free.  Entries
\* already queued keep the slot, which the next register_file may give away.
Unregister(fd, ok) ==
    /\ HasSlot(fd)
    /\ table' = Remove(table, fd)
    /\ kernel' = IF ok THEN [kernel EXCEPT ![table.index[fd]] = None] ELSE kernel
    /\ queued' = Losing({e \in Entries : e.fd = fd /\ e.slot # None})
    /\ stale' = stale \ {fd}
    /\ UNCHANGED file

\* Ring::shutdown ignores the kernel's answer
Shutdown(ok) ==
    /\ table # None
    /\ table' = None
    /\ kernel' = IF ok THEN None ELSE kernel
    /\ queued' = Losing({e \in Entries : e.slot # None})
    /\ stale' = {}
    /\ UNCHANGED file

----------------------------------------------------------------------------
\* Bug: a descriptor without a slot is taken for the one in slot 0
BugLookupFixed(fd) == IF HasSlot(fd) THEN table.index[fd] ELSE 0

\* lookup_fixed: the slot of a number, or nothing
LookupFixed(fd) == IF HasSlot(fd) THEN table.index[fd] ELSE None

\* A prep_ function pushes an entry for an open number: on its slot if it has
\* one, else on the number itself; a full queue refuses it
Push(fd) ==
    /\ file[fd] # None /\ Len(queued) < QueueSize
    /\ queued' = Append(queued, [fd |-> fd, slot |-> LookupFixed(fd),
                                 file |-> file[fd], sound |-> fd \notin stale])
    /\ UNCHANGED <<table, kernel, file, stale>>

\* The kernel takes the oldest entry: by the same submit_ call, or by a later
\* one when that call's flush failed
Flush ==
    /\ queued # <<>>
    /\ queued' = Tail(queued)
    /\ UNCHANGED <<table, kernel, file, stale>>

\* The file the kernel works on if it takes an entry now
Target(e) ==
    IF e.slot = None THEN file[e.fd]
    ELSE IF kernel = None THEN None ELSE kernel[e.slot]

\* The program opens a file, or duplicates one: the number may be one that was
\* closed before
OpenFd(fd, f) ==
    /\ file[fd] = None
    /\ file' = [file EXCEPT ![fd] = f]
    /\ UNCHANGED <<table, kernel, queued, stale>>

\* The program closes a number; the kernel's array keeps the file, and neither
\* Ring nor the table is told
CloseFd(fd) ==
    /\ file[fd] # None
    /\ file' = [file EXCEPT ![fd] = None]
    /\ queued' = Losing({e \in Entries : e.fd = fd /\ e.slot = None})
    /\ stale' = IF HasSlot(fd) THEN stale \cup {fd} ELSE stale
    /\ UNCHANGED <<table, kernel>>

FilesNext ==
    \/ \E fd \in Fds : RegisterFull(fd)
    \/ \E fd \in Fds : RegisterOk(fd)
    \/ \E fd \in Fds : RegisterRefused(fd)
    \/ \E fd \in Fds, ok \in BOOLEAN : Unregister(fd, ok)
    \/ \E ok \in BOOLEAN : Shutdown(ok)
    \/ \E fd \in Fds : Push(fd)
    \/ Flush
    \/ \E fd \in Fds, f \in Files : OpenFd(fd, f)
    \/ \E fd \in Fds : CloseFd(fd)

FilesSpec == FilesInit /\ [][FilesNext]_filesVars

----------------------------------------------------------------------------
(***************************************************************************)
(* Properties                                                              *)
(***************************************************************************)
\* The type of the variables; with a table there is an array in the kernel.
FilesTypeOK ==
    /\ table \in Tables \cup {None}
    /\ kernel \in Arrays \cup {None}
    /\ table # None => kernel \in Arrays
    /\ file \in [Fds -> Files \cup {None}]
    /\ queued \in Seq(Entries)
    /\ stale \in SUBSET Fds

(***************************************************************************)
(* A slot has one owner: the map and the array of files are inverses of    *)
(* each other, and the free indices are the slots without a file, each of  *)
(* them once.  No path, rollback included, gives a slot to two descriptors *)
(* or loses one.                                                           *)
(***************************************************************************)
OwnedOnce(t) ==
    /\ \A fd \in Fds, i \in Slots : t.index[fd] = i <=> t.files[i] = fd
    /\ \A i \in Slots : t.files[i] = None <=> \E k \in 1..Len(t.free) : t.free[k] = i
    /\ \A k, l \in 1..Len(t.free) : t.free[k] = t.free[l] => k = l

SlotOwnedOnce == table # None => OwnedOnce(table)

(***************************************************************************)
(* The slot lookup_fixed returns for a number holds, in the kernel too,    *)
(* the file that number refers to, whatever updates the kernel refused     *)
(* before; except for a number that was closed while the table had a slot  *)
(* for it.  Ring learns nothing of a close, and when the number is given   *)
(* to another file register_file returns the old slot (ring.rs:313), until *)
(* unregister_file or shutdown.                                            *)
(***************************************************************************)
KernelAgrees ==
    table # None => \A fd \in Fds : table.index[fd] # None =>
        \/ fd \in stale
        \/ file[fd] # None /\ kernel[table.index[fd]] = file[fd]

(***************************************************************************)
(* An entry that waits in the submission queue reaches the file it was     *)
(* pushed for, whatever is registered, unregistered, opened and closed     *)
(* meanwhile: no other number gets its slot.  Excepted are an entry on a   *)
(* slot whose own number was unregistered since (or the ring shut down),   *)
(* an entry on a number that was closed since, and an entry pushed for a   *)
(* number that was closed while it had a slot.                             *)
(***************************************************************************)
QueuedReachesItsFile ==
    \A k \in 1..Len(queued) : queued[k].sound => Target(queued[k]) = queued[k].file
============================================================================
