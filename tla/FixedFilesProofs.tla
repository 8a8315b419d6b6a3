-------------------------- MODULE FixedFilesProofs --------------------------
(***************************************************************************)
(* Proofs about FixedFiles, for every set of descriptors and every number  *)
(* of slots.                                                               *)
(***************************************************************************)
EXTENDS FixedFiles, SequenceTheorems, TLAPS

\* What is known of a table between two calls.
GoodTable(t) == t \in Tables /\ OwnedOnce(t)

\* The top of a non-empty stack of slots is a slot without a file, and the rest
\* of the stack holds the others.
LEMMA StackTop ==
    ASSUME NEW t, GoodTable(t), t.free # <<>>
    PROVE  /\ Top(t.free) \in Slots
           /\ t.files[Top(t.free)] = None
           /\ Popped(t.free) \in Seq(Slots)
           /\ Len(Popped(t.free)) = Len(t.free) - 1
           /\ \A k \in 1..(Len(t.free) - 1) : Popped(t.free)[k] = t.free[k]
<1>1. t.free \in Seq(Slots) /\ Len(t.free) \in Nat /\ Len(t.free) > 0
  BY DEF GoodTable, Tables
<1>2. Len(t.free) \in 1..Len(t.free) /\ Top(t.free) \in Slots
  BY <1>1 DEF Top
<1>3. t.files[Top(t.free)] = None
  BY <1>2 DEF GoodTable, OwnedOnce, Top
<1>4. Popped(t.free) \in Seq(Slots) /\ Len(Popped(t.free)) = Len(t.free) - 1
      /\ \A k \in 1..(Len(t.free) - 1) : Popped(t.free)[k] = t.free[k]
  BY <1>1 DEF Popped
<1> QED BY <1>2, <1>3, <1>4

\* FixedFdTable::new returns a good table.
LEMMA NewTableGood == GoodTable(NewTable)
<1> USE FilesAssumption
<1>1. NewTable.free \in [1..Capacity -> Slots]
  BY DEF NewTable, Slots
<1>2. NewTable.free \in Seq(Slots) /\ Len(NewTable.free) = Capacity
  BY <1>1, IsASeq DEF NewTable
<1>3. NewTable \in Tables
  BY <1>2 DEF NewTable, Tables, NoFiles
<1>4. \A fd \in Fds, i \in Slots : NewTable.index[fd] = i <=> NewTable.files[i] = fd
  BY DEF NewTable, NoFiles, Slots
<1>5. \A i \in Slots : \E k \in 1..Len(NewTable.free) : NewTable.free[k] = i
  <2> TAKE i \in Slots
  <2>1. Capacity - i \in 1..Capacity /\ Capacity - (Capacity - i) = i
    BY DEF Slots
  <2> QED BY <1>2, <2>1 DEF NewTable
<1>6. \A k, l \in 1..Len(NewTable.free) : NewTable.free[k] = NewTable.free[l] => k = l
  BY <1>2 DEF NewTable
<1> QED BY <1>3, <1>4, <1>5, <1>6 DEF GoodTable, OwnedOnce, NewTable, NoFiles

\* FixedFdTable::insert keeps a table good, and gives the descriptor the slot
\* on top of the stack.
LEMMA InsertGood ==
    ASSUME NEW t, GoodTable(t), NEW fd \in Fds, t.index[fd] = None, t.free # <<>>
    PROVE  /\ GoodTable(Insert(t, fd))
           /\ Insert(t, fd).index[fd] = Top(t.free)
           /\ \A gd \in Fds : gd # fd => Insert(t, fd).index[gd] = t.index[gd]
<1> USE FilesAssumption
<1> DEFINE i == Top(t.free)
           u == Insert(t, fd)
<1>1. /\ i \in Slots /\ t.files[i] = None
      /\ Popped(t.free) \in Seq(Slots) /\ Len(Popped(t.free)) = Len(t.free) - 1
      /\ \A k \in 1..(Len(t.free) - 1) : Popped(t.free)[k] = t.free[k]
  BY StackTop
<1>2. /\ t.index \in [Fds -> Slots \cup {None}] /\ t.files \in [Slots -> Fds \cup {None}]
      /\ t.free \in Seq(Slots) /\ Len(t.free) \in Nat /\ Len(t.free) > 0
  BY DEF GoodTable, Tables
<1>3. /\ u.index = [t.index EXCEPT ![fd] = i] /\ u.files = [t.files EXCEPT ![i] = fd]
      /\ u.free = Popped(t.free)
  BY DEF Insert
<1>4. u \in Tables
  BY <1>1, <1>2 DEF Insert, Tables
<1>5. \A gd \in Fds, j \in Slots : u.index[gd] = j <=> u.files[j] = gd
  <2> TAKE gd \in Fds, j \in Slots
  <2>1. t.index[gd] = j <=> t.files[j] = gd
    BY DEF GoodTable, OwnedOnce
  <2>2. j # None
    BY DEF Slots
  <2> QED BY <1>1, <1>2, <1>3, <2>1, <2>2
<1>6. t.free[Len(t.free)] = i
  BY DEF Top
<1>7. \A k, l \in 1..Len(t.free) : t.free[k] = t.free[l] => k = l
  BY DEF GoodTable, OwnedOnce
<1>8. \A j \in Slots : u.files[j] = None <=> \E k \in 1..Len(u.free) : u.free[k] = j
  <2> TAKE j \in Slots
  <2>1. t.files[j] = None <=> \E k \in 1..Len(t.free) : t.free[k] = j
    BY DEF GoodTable, OwnedOnce
  <2>2. CASE j = i
    <3>1. u.files[j] # None
      BY <1>1, <1>2, <1>3, <2>2
    <3>2. ASSUME NEW k \in 1..Len(u.free), u.free[k] = j
          PROVE  FALSE
      BY <1>1, <1>2, <1>3, <1>6, <1>7, <2>2, <3>2
    <3> QED BY <3>1, <3>2
  <2>3. CASE j # i
    <3>1. u.files[j] = t.files[j]
      BY <1>1, <1>2, <1>3, <2>3
    <3>2. (\E k \in 1..Len(t.free) : t.free[k] = j) <=> \E k \in 1..Len(u.free) : u.free[k] = j
      <4>1. Len(u.free) = Len(t.free) - 1 /\ \A k \in 1..Len(u.free) : u.free[k] = t.free[k]
        BY <1>1, <1>2, <1>3
      <4>2. ASSUME NEW k \in 1..Len(t.free), t.free[k] = j
            PROVE  k \in 1..Len(u.free) /\ u.free[k] = j
        <5>1. k # Len(t.free)
          BY <1>6, <2>3, <4>2
        <5> QED BY <1>2, <4>1, <4>2, <5>1
      <4>3. ASSUME NEW k \in 1..Len(u.free), u.free[k] = j
            PROVE  k \in 1..Len(t.free) /\ t.free[k] = j
        BY <1>2, <4>1, <4>3
      <4> QED BY <4>2, <4>3, Zenon
    <3> QED BY <2>1, <3>1, <3>2
  <2> QED BY <2>2, <2>3
<1>9. \A k, l \in 1..Len(u.free) : u.free[k] = u.free[l] => k = l
  BY <1>1, <1>2, <1>3, <1>7, SMTT(60)
<1>10. u.index[fd] = i /\ \A gd \in Fds : gd # fd => u.index[gd] = t.index[gd]
  BY <1>2, <1>3
<1> QED BY <1>4, <1>5, <1>8, <1>9, <1>10 DEF GoodTable, OwnedOnce

\* FixedFdTable::remove keeps a table good.
LEMMA RemoveGood ==
    ASSUME NEW t, GoodTable(t), NEW fd \in Fds, t.index[fd] # None
    PROVE  /\ GoodTable(Remove(t, fd))
           /\ Remove(t, fd).index[fd] = None
           /\ \A gd \in Fds : gd # fd => Remove(t, fd).index[gd] = t.index[gd]
<1> USE FilesAssumption
<1> DEFINE i == t.index[fd]
           u == Remove(t, fd)
<1>1. /\ t.index \in [Fds -> Slots \cup {None}] /\ t.files \in [Slots -> Fds \cup {None}]
      /\ t.free \in Seq(Slots) /\ Len(t.free) \in Nat
  BY DEF GoodTable, Tables
<1>2. i \in Slots /\ t.files[i] = fd
  BY <1>1 DEF GoodTable, OwnedOnce
<1>3. /\ u.index = [t.index EXCEPT ![fd] = None] /\ u.files = [t.files EXCEPT ![i] = None]
      /\ u.free = Append(t.free, i)
  BY DEF Remove
<1>4. /\ u.free \in Seq(Slots) /\ Len(u.free) = Len(t.free) + 1
      /\ u.free[Len(u.free)] = i
      /\ \A k \in 1..Len(t.free) : u.free[k] = t.free[k]
  BY <1>1, <1>2, <1>3
<1>5. u \in Tables
  BY <1>1, <1>2, <1>3, <1>4 DEF Remove, Tables
<1>6. \A gd \in Fds, j \in Slots : u.index[gd] = j <=> u.files[j] = gd
  <2> TAKE gd \in Fds, j \in Slots
  <2>1. /\ t.index[gd] = j <=> t.files[j] = gd
        /\ t.index[gd] = i <=> t.files[i] = gd
    BY <1>2 DEF GoodTable, OwnedOnce
  <2>2. j # None
    BY DEF Slots
  <2> QED BY <1>1, <1>2, <1>3, <2>1, <2>2
<1>7. \A j \in Slots : t.files[j] = None <=> \E k \in 1..Len(t.free) : t.free[k] = j
  BY DEF GoodTable, OwnedOnce
<1>8. \A j \in Slots : u.files[j] = None <=> \E k \in 1..Len(u.free) : u.free[k] = j
  <2> TAKE j \in Slots
  <2>1. CASE j = i
    <3>1. u.files[j] = None
      BY <1>1, <1>2, <1>3, <2>1
    <3>2. Len(u.free) \in 1..Len(u.free) /\ u.free[Len(u.free)] = j
      BY <1>1, <1>4, <2>1
    <3> QED BY <3>1, <3>2
  <2>2. CASE j # i
    <3>1. u.files[j] = t.files[j]
      BY <1>1, <1>2, <1>3, <2>2
    <3>2. (\E k \in 1..Len(t.free) : t.free[k] = j) <=> \E k \in 1..Len(u.free) : u.free[k] = j
      BY <1>1, <1>4, <2>2, SMTT(60)
    <3> QED BY <1>7, <3>1, <3>2
  <2> QED BY <2>1, <2>2
<1>9. \A k \in 1..Len(t.free) : t.free[k] # i
  BY <1>2, <1>7
<1>10. \A k, l \in 1..Len(u.free) : u.free[k] = u.free[l] => k = l
  <2> SUFFICES ASSUME NEW k \in 1..Len(u.free), NEW l \in 1..Len(u.free), u.free[k] = u.free[l]
               PROVE  k = l
    OBVIOUS
  <2> DEFINE n == Len(t.free)
  <2>1. n \in Nat /\ k \in 1..(n + 1) /\ l \in 1..(n + 1)
    BY <1>1, <1>4
  <2>2. CASE k \in 1..n /\ l \in 1..n
    <3>1. t.free[k] = t.free[l]
      BY <1>4, <2>2
    <3> QED BY <2>2, <3>1 DEF GoodTable, OwnedOnce
  <2>3. CASE k = n + 1 /\ l \in 1..n
    BY <1>4, <1>9, <2>3
  <2>4. CASE k \in 1..n /\ l = n + 1
    BY <1>4, <1>9, <2>4
  <2>5. CASE k = n + 1 /\ l = n + 1
    BY <2>5
  <2> QED BY <2>1, <2>2, <2>3, <2>4, <2>5, SMTT(60)
<1>11. u.index[fd] = None /\ \A gd \in Fds : gd # fd => u.index[gd] = t.index[gd]
  BY <1>1, <1>3
<1> QED BY <1>5, <1>6, <1>8, <1>10, <1>11 DEF GoodTable, OwnedOnce

----------------------------------------------------------------------------
(***************************************************************************)
(* The inductive invariant.  KernelAgrees needs that two descriptors never *)
(* share a slot, which SlotOwnedOnce gives; QueuedReachesItsFile that a    *)
(* queued entry with a slot is an entry of the number that owns the slot.  *)
(***************************************************************************)
EntryOk(e) ==
    IF e.slot = None THEN file[e.fd] = e.file
    ELSE /\ table # None /\ table.index[e.fd] = e.slot
         /\ kernel[e.slot] = e.file

QueueInv == \A k \in 1..Len(queued) : queued[k].sound => EntryOk(queued[k])

FilesInv == FilesTypeOK /\ SlotOwnedOnce /\ KernelAgrees /\ QueueInv

\* A number's slot holds its file, or the number was closed with the slot.
Agree(t, k) ==
    \A fd \in Fds : t.index[fd] # None =>
        \/ fd \in stale
        \/ file[fd] # None /\ k[t.index[fd]] = file[fd]

\* The queued entries agree with a table and a kernel's array.
EntriesAgree(t, k) ==
    \A m \in 1..Len(queued) :
        queued[m].sound =>
            IF queued[m].slot = None THEN file[queued[m].fd] = queued[m].file
            ELSE /\ t.index[queued[m].fd] = queued[m].slot
                 /\ k[queued[m].slot] = queued[m].file

\* What register_file works on: the table, or the one it creates first.
LEMMA BeforeGood ==
    ASSUME FilesInv, MayCreate
    PROVE  /\ GoodTable(TableBefore)
           /\ KernelBefore \in Arrays
           /\ Agree(TableBefore, KernelBefore)
           /\ EntriesAgree(TableBefore, KernelBefore)
<1>1. CASE table = None
  <2>1. GoodTable(TableBefore) /\ KernelBefore \in Arrays /\ Agree(TableBefore, KernelBefore)
    BY <1>1, NewTableGood DEF TableBefore, KernelBefore, NewTable, Arrays, NoFiles, Agree
  <2>2. EntriesAgree(TableBefore, KernelBefore)
    BY <1>1 DEF FilesInv, QueueInv, EntryOk, EntriesAgree
  <2> QED BY <2>1, <2>2
<1>2. CASE table # None
  <2>1. TableBefore = table /\ KernelBefore = kernel
    BY <1>2 DEF TableBefore, KernelBefore
  <2>2. GoodTable(table) /\ kernel \in Arrays
    BY <1>2 DEF FilesInv, FilesTypeOK, SlotOwnedOnce, GoodTable
  <2>3. Agree(table, kernel)
    BY <1>2 DEF FilesInv, KernelAgrees, Agree
  <2>4. EntriesAgree(table, kernel)
    BY <1>2 DEF FilesInv, EntriesAgree, QueueInv, EntryOk
  <2> QED BY <2>1, <2>2, <2>3, <2>4
<1> QED BY <1>1, <1>2

\* What is queued names a number and a file.
LEMMA EntryTypes ==
    ASSUME FilesInv
    PROVE  \A k \in 1..Len(queued) : queued[k].fd \in Fds /\ queued[k].file \in Files
<1>1. queued \in Seq(Entries)
  BY DEF FilesInv, FilesTypeOK
<1>2. \A k \in 1..Len(queued) : queued[k] \in Entries
  BY <1>1
<1> QED BY <1>2 DEF Entries

\* register_file keeps the invariant when what it leaves behind agrees.
LEMMA RegisterInv ==
    ASSUME FilesInv, UNCHANGED <<file, queued, stale>>,
           GoodTable(table)', kernel' \in Arrays,
           Agree(table', kernel'), EntriesAgree(table', kernel')
    PROVE  FilesInv'
<1> USE FilesAssumption
<1>1. table' # None
  BY NoneAssumption DEF GoodTable
<1>2. FilesTypeOK' /\ SlotOwnedOnce'
  BY <1>1 DEF GoodTable, FilesInv, FilesTypeOK, SlotOwnedOnce
<1>3. KernelAgrees'
  BY DEF KernelAgrees, Agree
<1>4. QueueInv'
  BY <1>1 DEF QueueInv, EntryOk, EntriesAgree
<1> QED BY <1>2, <1>3, <1>4 DEF FilesInv

\* An entry that is still sound after Losing was sound before and is not one of
\* the lost ones; apart from that nothing changed.
LEMMA LosingKeeps ==
    ASSUME queued \in Seq(Entries), NEW lost, queued' = Losing(lost)
    PROVE  /\ queued' \in Seq(Entries) /\ Len(queued') = Len(queued)
           /\ \A k \in 1..Len(queued) :
                /\ queued[k] \in Entries
                /\ queued'[k].fd = queued[k].fd /\ queued'[k].slot = queued[k].slot
                /\ queued'[k].file = queued[k].file
                /\ queued'[k].sound => queued[k].sound /\ queued[k] \notin lost
<1>1. Len(queued) \in Nat /\ \A k \in 1..Len(queued) : queued[k] \in Entries
  OBVIOUS
<1>2. queued' = [k \in 1..Len(queued) |->
                    [queued[k] EXCEPT !.sound = queued[k].sound /\ queued[k] \notin lost]]
  BY DEF Losing
<1>3. \A k \in 1..Len(queued) :
        queued'[k] = [queued[k] EXCEPT !.sound = queued[k].sound /\ queued[k] \notin lost]
  BY <1>2
<1>4. ASSUME NEW k \in 1..Len(queued)
      PROVE  /\ queued'[k] \in Entries
             /\ queued'[k].fd = queued[k].fd /\ queued'[k].slot = queued[k].slot
             /\ queued'[k].file = queued[k].file
             /\ queued'[k].sound = (queued[k].sound /\ queued[k] \notin lost)
  BY <1>1, <1>3, ZenonT(60) DEF Entries
<1>5. queued' \in [1..Len(queued) -> Entries]
  BY <1>2, <1>3, <1>4
<1>6. queued' \in Seq(Entries) /\ Len(queued') = Len(queued)
  BY <1>1, <1>2, <1>5, IsASeq
<1> QED BY <1>1, <1>4, <1>6

\* register_file preserves the invariant, whichever way it ends.
LEMMA RegisterStep ==
    ASSUME FilesInv, NEW fd \in Fds,
           RegisterFull(fd) \/ RegisterOk(fd) \/ RegisterRefused(fd)
    PROVE  FilesInv'
<1> USE FilesAssumption
<1> DEFINE t == TableBefore
           i == Top(t.free)
           u == Insert(t, fd)
<1>1. /\ GoodTable(t) /\ KernelBefore \in Arrays
      /\ Agree(t, KernelBefore) /\ EntriesAgree(t, KernelBefore)
      /\ t.index[fd] = None /\ UNCHANGED <<file, queued, stale>>
  BY BeforeGood DEF RegisterFull, RegisterOk, RegisterRefused, NeedsSlot
<1>2. ASSUME t.free # <<>>
      PROVE  /\ GoodTable(u) /\ u.index[fd] = i /\ i \in Slots /\ t.files[i] = None
             /\ \A gd \in Fds : gd # fd => u.index[gd] = t.index[gd]
  BY <1>1, <1>2, InsertGood, StackTop
<1>3. CASE RegisterFull(fd)
  BY <1>1, <1>3, RegisterInv DEF RegisterFull
<1>4. CASE RegisterOk(fd)
  <2>1. /\ t.free # <<>> /\ file[fd] # None /\ table' = u
        /\ kernel' = [KernelBefore EXCEPT ![i] = file[fd]]
    BY <1>2, <1>4 DEF RegisterOk
  <2>2. kernel' \in Arrays /\ kernel'[i] = file[fd]
        /\ \A j \in Slots : j # i => kernel'[j] = KernelBefore[j]
    BY <1>1, <1>2, <2>1 DEF Arrays, FilesInv, FilesTypeOK
  <2>3. ASSUME NEW gd \in Fds, t.index[gd] # None
        PROVE  t.index[gd] \in Slots /\ t.index[gd] # i /\ gd # fd
    <3>1. t.index[gd] \in Slots
      BY <1>1, <2>3 DEF GoodTable, Tables
    <3>2. t.files[t.index[gd]] = gd
      BY <1>1, <3>1 DEF GoodTable, OwnedOnce
    <3> QED BY <1>1, <1>2, <2>1, <2>3, <3>1, <3>2
  <2>4. Agree(table', kernel')
    <3> SUFFICES ASSUME NEW gd \in Fds, table'.index[gd] # None
                 PROVE  \/ gd \in stale
                        \/ file[gd] # None /\ kernel'[table'.index[gd]] = file[gd]
      BY DEF Agree
    <3>1. CASE gd = fd
      BY <1>2, <2>1, <2>2, <3>1
    <3>2. CASE gd # fd
      <4>1. t.index[gd] # None /\ table'.index[gd] = t.index[gd]
        BY <1>2, <2>1, <3>2
      <4> QED BY <1>1, <2>2, <2>3, <4>1 DEF Agree
    <3> QED BY <3>1, <3>2
  <2>5. EntriesAgree(table', kernel')
    <3> SUFFICES ASSUME NEW m \in 1..Len(queued), queued[m].sound, queued[m].slot # None
                 PROVE  /\ table'.index[queued[m].fd] = queued[m].slot
                        /\ kernel'[queued[m].slot] = queued[m].file
      BY <1>1 DEF EntriesAgree
    <3>1. queued[m].fd \in Fds
      BY EntryTypes
    <3>2. /\ t.index[queued[m].fd] = queued[m].slot
          /\ KernelBefore[queued[m].slot] = queued[m].file
      BY <1>1 DEF EntriesAgree
    <3> QED BY <1>2, <2>1, <2>2, <2>3, <3>1, <3>2
  <2> QED BY <1>1, <1>2, <2>1, <2>2, <2>4, <2>5, RegisterInv
<1>5. CASE RegisterRefused(fd)
  <2>1. /\ t.free # <<>> /\ table' = Remove(u, fd) /\ kernel' = KernelBefore
    BY <1>5 DEF RegisterRefused
  <2>2. u.index[fd] # None
    BY <1>2, <2>1 DEF Slots
  <2>3. /\ GoodTable(Remove(u, fd)) /\ Remove(u, fd).index[fd] = None
        /\ \A gd \in Fds : gd # fd => Remove(u, fd).index[gd] = u.index[gd]
    BY <1>2, <2>1, <2>2, RemoveGood
  <2>4. \A gd \in Fds : table'.index[gd] = t.index[gd]
    BY <1>1, <1>2, <2>1, <2>3
  <2>5. Agree(table', kernel')
    BY <1>1, <2>1, <2>4 DEF Agree
  <2>6. \A m \in 1..Len(queued) : queued[m].fd \in Fds
    BY EntryTypes
  <2>7. EntriesAgree(table', kernel')
    BY <1>1, <2>1, <2>4, <2>6 DEF EntriesAgree
  <2> QED BY <1>1, <2>1, <2>3, <2>5, <2>7, RegisterInv
<1> QED BY <1>3, <1>4, <1>5

\* unregister_file preserves the invariant, also when the kernel refuses.
LEMMA UnregisterStep ==
    ASSUME FilesInv, NEW fd \in Fds, NEW ok \in BOOLEAN, Unregister(fd, ok)
    PROVE  FilesInv'
<1> USE FilesAssumption
<1> DEFINE i == table.index[fd]
           lost == {e \in Entries : e.fd = fd /\ e.slot # None}
<1>1. /\ GoodTable(table) /\ kernel \in Arrays /\ i # None
      /\ file' = file /\ stale' = stale \ {fd} /\ queued' = Losing(lost)
  BY DEF Unregister, HasSlot, FilesInv, FilesTypeOK, SlotOwnedOnce, GoodTable
<1>2. /\ GoodTable(Remove(table, fd)) /\ Remove(table, fd).index[fd] = None
      /\ \A gd \in Fds : gd # fd => Remove(table, fd).index[gd] = table.index[gd]
  BY <1>1, RemoveGood
<1>3. table' = Remove(table, fd) /\ kernel' \in {kernel, [kernel EXCEPT ![i] = None]}
  BY DEF Unregister
<1>4. i \in Slots /\ table.files[i] = fd /\ table # None /\ table' # None
  <2>1. i \in Slots
    BY <1>1 DEF GoodTable, Tables
  <2>2. table.files[i] = fd
    BY <1>1, <2>1 DEF GoodTable, OwnedOnce
  <2>3. table # None /\ table' # None
    BY <1>1, <1>2, <1>3, NoneAssumption DEF GoodTable
  <2> QED BY <2>1, <2>2, <2>3
<1>5. kernel' \in Arrays /\ \A j \in Slots : j # i => kernel'[j] = kernel[j]
  BY <1>1, <1>3, <1>4 DEF Arrays
<1>6. ASSUME NEW gd \in Fds, gd # fd, table.index[gd] # None
      PROVE  table'.index[gd] = table.index[gd] /\ kernel'[table.index[gd]] = kernel[table.index[gd]]
  <2>1. table.index[gd] \in Slots /\ table.files[table.index[gd]] = gd
    BY <1>1, <1>6 DEF GoodTable, OwnedOnce, Tables
  <2> QED BY <1>2, <1>3, <1>4, <1>5, <1>6, <2>1
<1>7. KernelAgrees'
  BY <1>1, <1>2, <1>3, <1>4, <1>6 DEF FilesInv, KernelAgrees
<1>8. /\ queued' \in Seq(Entries) /\ Len(queued') = Len(queued)
      /\ \A k \in 1..Len(queued) :
           /\ queued[k] \in Entries
           /\ queued'[k].fd = queued[k].fd /\ queued'[k].slot = queued[k].slot
           /\ queued'[k].file = queued[k].file
           /\ queued'[k].sound => queued[k].sound /\ queued[k] \notin lost
  BY <1>1, LosingKeeps DEF FilesInv, FilesTypeOK
<1>9. QueueInv'
  <2> SUFFICES ASSUME NEW k \in 1..Len(queued'), queued'[k].sound
               PROVE  EntryOk(queued[k])'
    BY DEF QueueInv
  <2>1. /\ k \in 1..Len(queued) /\ queued[k] \in Entries /\ EntryOk(queued[k])
        /\ queued'[k].fd = queued[k].fd /\ queued'[k].slot = queued[k].slot
        /\ queued'[k].file = queued[k].file
        /\ queued[k].fd \in Fds /\ (queued[k].fd = fd => queued[k].slot = None)
    BY <1>8 DEF FilesInv, QueueInv, Entries
  <2> QED BY <1>1, <1>4, <1>6, <2>1 DEF EntryOk
<1>10. FilesTypeOK' /\ SlotOwnedOnce'
  BY <1>1, <1>2, <1>3, <1>5, <1>8 DEF FilesInv, FilesTypeOK, SlotOwnedOnce, GoodTable
<1> QED BY <1>7, <1>9, <1>10 DEF FilesInv

\* Ring::shutdown preserves the invariant.
LEMMA ShutdownStep ==
    ASSUME FilesInv, NEW ok \in BOOLEAN, Shutdown(ok)
    PROVE  FilesInv'
<1> DEFINE lost == {e \in Entries : e.slot # None}
<1>1. /\ queued \in Seq(Entries) /\ queued' = Losing(lost) /\ file' = file
      /\ table' = None /\ stale' = {} /\ kernel' \in {kernel, None}
  BY DEF Shutdown, FilesInv, FilesTypeOK
<1>2. /\ queued' \in Seq(Entries) /\ Len(queued') = Len(queued)
      /\ \A k \in 1..Len(queued) :
           /\ queued[k] \in Entries
           /\ queued'[k].fd = queued[k].fd /\ queued'[k].slot = queued[k].slot
           /\ queued'[k].file = queued[k].file
           /\ queued'[k].sound => queued[k].sound /\ queued[k] \notin lost
  BY <1>1, LosingKeeps
<1>3. QueueInv'
  BY <1>1, <1>2 DEF FilesInv, QueueInv, EntryOk
<1> QED BY <1>1, <1>2, <1>3 DEF FilesInv, FilesTypeOK, SlotOwnedOnce, KernelAgrees

\* Closing a number preserves the invariant.
LEMMA CloseStep ==
    ASSUME FilesInv, NEW fd \in Fds, CloseFd(fd)
    PROVE  FilesInv'
<1> DEFINE lost == {e \in Entries : e.fd = fd /\ e.slot = None}
<1>1. /\ queued \in Seq(Entries) /\ queued' = Losing(lost)
      /\ file \in [Fds -> Files \cup {None}] /\ file' = [file EXCEPT ![fd] = None]
      /\ stale \in SUBSET Fds /\ stale' = IF HasSlot(fd) THEN stale \cup {fd} ELSE stale
      /\ table' = table /\ kernel' = kernel
  BY DEF CloseFd, FilesInv, FilesTypeOK
<1>2. /\ queued' \in Seq(Entries) /\ Len(queued') = Len(queued)
      /\ \A k \in 1..Len(queued) :
           /\ queued[k] \in Entries
           /\ queued'[k].fd = queued[k].fd /\ queued'[k].slot = queued[k].slot
           /\ queued'[k].file = queued[k].file
           /\ queued'[k].sound => queued[k].sound /\ queued[k] \notin lost
  BY <1>1, LosingKeeps
<1>3. QueueInv'
  <2> SUFFICES ASSUME NEW k \in 1..Len(queued'), queued'[k].sound
               PROVE  EntryOk(queued[k])'
    BY DEF QueueInv
  <2>1. /\ k \in 1..Len(queued) /\ EntryOk(queued[k])
        /\ queued'[k].fd = queued[k].fd /\ queued'[k].slot = queued[k].slot
        /\ queued'[k].file = queued[k].file
        /\ queued[k].fd \in Fds /\ (queued[k].fd = fd => queued[k].slot # None)
    BY <1>2 DEF FilesInv, QueueInv, Entries
  <2> QED BY <1>1, <2>1 DEF EntryOk
<1>4. KernelAgrees'
  BY <1>1 DEF FilesInv, KernelAgrees, HasSlot
<1>5. FilesTypeOK' /\ SlotOwnedOnce'
  BY <1>1, <1>2 DEF FilesInv, FilesTypeOK, SlotOwnedOnce
<1> QED BY <1>3, <1>4, <1>5 DEF FilesInv

\* Pushing an entry preserves the invariant: it names the slot of its number.
LEMMA PushStep ==
    ASSUME FilesInv, NEW fd \in Fds, Push(fd)
    PROVE  FilesInv'
<1> USE FilesAssumption
<1> DEFINE e == [fd |-> fd, slot |-> LookupFixed(fd), file |-> file[fd], sound |-> fd \notin stale]
<1>1. /\ queued \in Seq(Entries) /\ queued' = Append(queued, e)
      /\ table' = table /\ kernel' = kernel /\ file' = file /\ stale' = stale
      /\ file[fd] \in Files
  BY DEF Push, FilesInv, FilesTypeOK
<1>2. LookupFixed(fd) \in Slots \cup {None}
  BY DEF LookupFixed, HasSlot, FilesInv, FilesTypeOK, Tables
<1>3. e \in Entries
  BY <1>1, <1>2 DEF Entries
<1>4. /\ queued' \in Seq(Entries) /\ Len(queued) \in Nat /\ Len(queued') = Len(queued) + 1
      /\ queued'[Len(queued) + 1] = e
      /\ \A k \in 1..Len(queued) : queued'[k] = queued[k]
  BY <1>1, <1>3
<1>5. e.sound => EntryOk(e)
  BY DEF EntryOk, LookupFixed, HasSlot, FilesInv, KernelAgrees
<1>6. QueueInv'
  <2> SUFFICES ASSUME NEW k \in 1..Len(queued'), queued'[k].sound
               PROVE  EntryOk(queued[k])'
    BY DEF QueueInv
  <2>1. CASE k \in 1..Len(queued)
    BY <1>1, <1>4, <2>1 DEF FilesInv, QueueInv, EntryOk
  <2>2. CASE k = Len(queued) + 1
    BY <1>1, <1>4, <1>5, <2>2 DEF EntryOk
  <2> QED BY <1>4, <2>1, <2>2
<1>7. FilesTypeOK' /\ SlotOwnedOnce' /\ KernelAgrees'
  BY <1>1, <1>4 DEF FilesInv, FilesTypeOK, SlotOwnedOnce, KernelAgrees
<1> QED BY <1>6, <1>7 DEF FilesInv

\* Every step preserves the invariant.
LEMMA FilesInvStep == FilesInv /\ [FilesNext]_filesVars => FilesInv'
<1> SUFFICES ASSUME FilesInv, [FilesNext]_filesVars
             PROVE  FilesInv'
  OBVIOUS
<1>1. ASSUME NEW fd \in Fds, RegisterFull(fd) \/ RegisterOk(fd) \/ RegisterRefused(fd)
      PROVE  FilesInv'
  BY <1>1, RegisterStep
<1>2. ASSUME NEW fd \in Fds, NEW ok \in BOOLEAN, Unregister(fd, ok)
      PROVE  FilesInv'
  BY <1>2, UnregisterStep
<1>3. ASSUME NEW ok \in BOOLEAN, Shutdown(ok)
      PROVE  FilesInv'
  BY <1>3, ShutdownStep
<1>4. ASSUME NEW fd \in Fds, Push(fd)
      PROVE  FilesInv'
  BY <1>4, PushStep
<1>5. CASE Flush
  <2>1. /\ queued \in Seq(Entries) /\ queued # <<>> /\ queued' = Tail(queued)
        /\ table' = table /\ kernel' = kernel /\ file' = file /\ stale' = stale
    BY <1>5 DEF Flush, FilesInv, FilesTypeOK
  <2>2. /\ queued' \in Seq(Entries) /\ Len(queued) \in Nat /\ Len(queued') = Len(queued) - 1
        /\ \A k \in 1..Len(queued') : k + 1 \in 1..Len(queued) /\ queued'[k] = queued[k + 1]
    BY <2>1
  <2>3. QueueInv'
    BY <2>1, <2>2 DEF FilesInv, QueueInv, EntryOk
  <2> QED BY <2>1, <2>2, <2>3 DEF FilesInv, FilesTypeOK, SlotOwnedOnce, KernelAgrees
<1>6. ASSUME NEW fd \in Fds, NEW f \in Files, OpenFd(fd, f)
      PROVE  FilesInv'
  <2>1. /\ file \in [Fds -> Files \cup {None}] /\ file[fd] = None
        /\ file' = [file EXCEPT ![fd] = f]
        /\ table' = table /\ kernel' = kernel /\ queued' = queued /\ stale' = stale
    BY <1>6 DEF OpenFd, FilesInv, FilesTypeOK
  <2>2. KernelAgrees'
    BY <2>1 DEF FilesInv, KernelAgrees
  <2>3. QueueInv'
    <3>1. \A k \in 1..Len(queued) : queued[k].fd \in Fds /\ queued[k].file \in Files
      BY EntryTypes
    <3> QED BY <2>1, <3>1, FilesAssumption DEF FilesInv, QueueInv, EntryOk
  <2>4. FilesTypeOK' /\ SlotOwnedOnce'
    BY <2>1 DEF FilesInv, FilesTypeOK, SlotOwnedOnce
  <2> QED BY <2>2, <2>3, <2>4 DEF FilesInv
<1>7. ASSUME NEW fd \in Fds, CloseFd(fd)
      PROVE  FilesInv'
  BY <1>7, CloseStep
<1>8. CASE UNCHANGED filesVars
  BY <1>8 DEF filesVars, FilesInv, FilesTypeOK, SlotOwnedOnce, KernelAgrees, QueueInv, EntryOk
<1> QED BY <1>1, <1>2, <1>3, <1>4, <1>5, <1>6, <1>7, <1>8 DEF FilesNext

\* The invariant holds always.
LEMMA FilesInvCorrect == FilesSpec => []FilesInv
<1>1. FilesInit => FilesInv
  BY DEF FilesInit, FilesInv, FilesTypeOK, SlotOwnedOnce, KernelAgrees, QueueInv
<1> QED BY <1>1, FilesInvStep, PTL DEF FilesSpec

\* The variables of Ring and FixedFdTable have their types.
THEOREM FilesTypeCorrect == FilesSpec => []FilesTypeOK
<1>1. FilesInv => FilesTypeOK
  BY DEF FilesInv
<1> QED BY <1>1, FilesInvCorrect, PTL

\* register_file, its rollback, and unregister_file never give a slot to two
\* descriptors and never lose one.
THEOREM SlotOwnedOnceCorrect == FilesSpec => []SlotOwnedOnce
<1>1. FilesInv => SlotOwnedOnce
  BY DEF FilesInv
<1> QED BY <1>1, FilesInvCorrect, PTL

\* The slot a submission uses for a number holds, in the kernel, the file that
\* number refers to, whichever updates of the kernel's array failed before,
\* unless the number was closed while it had the slot.
THEOREM KernelAgreesCorrect == FilesSpec => []KernelAgrees
<1>1. FilesInv => KernelAgrees
  BY DEF FilesInv
<1> QED BY <1>1, FilesInvCorrect, PTL

\* An entry that stays in the submission queue after a failed flush reaches the
\* file it was pushed for, whatever other numbers are registered, unregistered,
\* opened and closed before the kernel takes it.
THEOREM QueuedReachesItsFileCorrect == FilesSpec => []QueuedReachesItsFile
<1>1. FilesInv => QueuedReachesItsFile
  <2> SUFFICES ASSUME FilesInv, NEW k \in 1..Len(queued), queued[k].sound
               PROVE  Target(queued[k]) = queued[k].file
    BY DEF QueuedReachesItsFile
  <2>1. EntryOk(queued[k])
    BY DEF FilesInv, QueueInv
  <2>2. table # None => kernel # None
    BY NoneAssumption DEF FilesInv, FilesTypeOK
  <2> QED BY <2>1, <2>2 DEF EntryOk, Target
<1> QED BY <1>1, FilesInvCorrect, PTL
============================================================================
