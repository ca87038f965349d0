--------------------------- MODULE MetadataTable ---------------------------
(***************************************************************************)
(* The metadata of the vectors of an index (src/Core/MetadataSet.cpp with  *)
(* the offset table of inc/Helper/LockFree.h): one run of bytes per        *)
(* vector, those of the loaded file in front and those added since behind  *)
(* them.  MemMetadataSet keeps everything in memory and reads the offset   *)
(* table without a lock while vectors are added; FileMetadataSet reads the *)
(* file under the lock.  Either is saved, while vectors are still added,   *)
(* to temporary files that then take the place of the old ones, and the    *)
(* process may die between any two steps of that.                          *)
(*                                                                         *)
(* The metadata of item i is Size[i] bytes, each written here as i.        *)
(***************************************************************************)
EXTENDS Integers, Sequences, FiniteSets, FiniteSetsExt, SequencesExt

CONSTANTS
  File,       \* FileMetadataSet, or MemMetadataSet
  Size,       \* Size[i]: the length of the metadata of item i
  Loaded,     \* items in the files at the start
  BlockSize,  \* entries of a block of the offset table
  Capacity,   \* m_maxSize of the offset table
  Readers,    \* threads that read
  MaxSaves,   \* bound on saves and refinements
  MaxCrashes  \* bound on crashes

MetadataAssumption ==
  /\ BlockSize \in Nat \ {0} /\ Capacity > Loaded
  /\ Loaded \in 0..Len(Size)
  /\ \A i \in DOMAIN Size : Size[i] \in Nat

VARIABLES
  size,     \* m_size of the offset table
  blocks,   \* m_blocks
  count,    \* m_count: items of the loaded part
  holder,   \* bytes of the loaded part (m_metadataHolder, or what m_fp reads)
  newdata,  \* m_newdata
  adding,   \* what the thread that adds is doing, and the item
  reading,  \* what each reader is doing
  saving,   \* what the thread that saves is doing, and what it saves
  disk,     \* the files: meta, index, metaTmp, indexTmp
  tried,    \* items handed to Add so far, the loaded ones included
  items,    \* history: the items of the set, in order
  bounds,   \* saves and crashes so far
  lost      \* history: items added between the writing of a FileMetadataSet's files
            \* and its switch to them, and was a set saved that lacks some?

vars ==
  <<size, blocks, count, holder, newdata, adding, reading, saving, disk, tried, items, bounds, lost>>

\* Item 0 stands for one without bytes.
Bytes(i) == [k \in 1..(IF i = 0 THEN 0 ELSE Size[i]) |-> i]

All(is) == FlattenSeq([k \in DOMAIN is |-> Bytes(is[k])])

Nothing == [is |-> FALSE]

Written(x) == [is |-> TRUE, has |-> x]

Idle == [pc |-> "idle"]

Down == adding.pc = "down"

-----------------------------------------------------------------------------
(* The offset table.                                                       *)

Offset(i) == blocks[i \div BlockSize + 1][i % BlockSize]

Back == Offset(size - 1)

\* The running sums of the sizes of the items.
Ends(is) == [k \in 1..Len(is) + 1 |-> Len(All(SubSeq(is, 1, k - 1)))]

Blank == [k \in 0..BlockSize - 1 |-> -1]

\* assign: the table with these entries, in as many blocks as they take.
Assigned(os) ==
  [b \in 1..(Len(os) + BlockSize - 1) \div BlockSize |->
     [k \in 0..BlockSize - 1 |->
        IF (b - 1) * BlockSize + k < Len(os) THEN os[(b - 1) * BlockSize + k + 1] ELSE -1]]

-----------------------------------------------------------------------------
(* Add: holds the lock from its first step to its last.                    *)

WriterIn == adding.pc \notin {"idle", "down"}

\* FileMetadataSet holds it while it saves and, again, while it swaps the files.
Locked ==
  \/ WriterIn
  \/ File /\ saving.pc \in {"bytes", "swap1", "swap2", "swap3", "swap4"} /\ saving.whole

AddInsert ==
  /\ adding = Idle /\ ~Locked /\ tried < Len(Size)
  /\ newdata' = newdata \o Bytes(tried + 1)
  /\ tried' = tried + 1 /\ adding' = [pc |-> "insert", item |-> tried + 1]
  /\ UNCHANGED <<size, blocks, count, holder, reading, saving, disk, items, bounds, lost>>

\* push_back finds the block of the next entry, or refuses when the table is
\* full.
AddBlock ==
  /\ adding.pc = "insert"
  /\ IF ~File /\ size > Capacity - 1
       THEN adding' = [adding EXCEPT !.pc = "full"] /\ UNCHANGED blocks
       ELSE /\ adding' = [adding EXCEPT !.pc = "block"]
            /\ blocks' = IF size \div BlockSize >= Len(blocks) THEN Append(blocks, Blank) ELSE blocks
  /\ UNCHANGED <<size, count, holder, newdata, reading, saving, disk, tried, items, bounds, lost>>

AddStore ==
  /\ adding.pc = "block" /\ adding' = [adding EXCEPT !.pc = "store"]
  /\ blocks' = [blocks EXCEPT ![size \div BlockSize + 1][size % BlockSize] =
                  Back + Size[adding.item]]
  /\ UNCHANGED <<size, count, holder, newdata, reading, saving, disk, tried, items, bounds, lost>>

AddPublish ==
  /\ adding.pc = "store" /\ adding' = Idle
  /\ size' = size + 1 /\ items' = Append(items, adding.item)
  /\ lost' = IF File /\ saving.pc = "swap0" /\ saving.whole
               THEN [lost EXCEPT !.items = @ \cup {size - 1}] ELSE lost
  /\ UNCHANGED <<blocks, count, holder, newdata, reading, saving, disk, tried, bounds>>

\* The bytes of an item the table has no room for are taken back.
Shorter(d, i) == SubSeq(d, 1, Len(d) - Size[i])

AddRefused ==
  /\ adding.pc = "full" /\ adding' = Idle
  /\ newdata' = Shorter(newdata, adding.item)
  /\ UNCHANGED <<size, blocks, count, holder, reading, saving, disk, tried, items, bounds, lost>>

-----------------------------------------------------------------------------
(* GetMetadataCopy.                                                        *)

\* The items there are: Count() of them, one fewer than the offsets.
Ids == 0..size - 2

\* The two offsets of an item below Count(); MemMetadataSet reads them without
\* the lock.
ReadOffsets(r) ==
  /\ ~Down /\ reading[r].pc \in {"idle", "done"} /\ (File => ~Locked)
  /\ \E id \in Ids :
       reading' = [reading EXCEPT ![r] =
         [pc |-> "offsets", id |-> id, from |-> Offset(id), to |-> Offset(id + 1), n |-> count]]
  /\ UNCHANGED <<size, blocks, count, holder, newdata, adding, saving, disk, tried, items, bounds, lost>>

\* The bytes between two offsets, which lie in the loaded part or behind it.
\* What lies outside of either is whatever memory holds, here 0.
PartOf(id, from, to, n) ==
  LET s == IF id < n THEN from ELSE from - Offset(n)
      d == IF id < n THEN holder ELSE newdata
  IN [k \in 1..(to - from) |-> IF s + k \in DOMAIN d THEN d[s + k] ELSE 0]

\* FileMetadataSet holds the lock since it read the offsets: nothing can come
\* between the two steps, which its first step's guard and this one's express.
ReadBytes(r) ==
  /\ ~Down /\ reading[r].pc = "offsets"
  /\ reading[r].id < count \/ ~Locked
  /\ reading' = [reading EXCEPT ![r] =
       [pc |-> "done", id |-> @.id, got |-> PartOf(@.id, @.from, @.to, count)]]
  /\ UNCHANGED <<size, blocks, count, holder, newdata, adding, saving, disk, tried, items, bounds, lost>>

\* The lock of FileMetadataSet is the reader's while it reads.
ReaderIn == File /\ \E r \in Readers : reading[r].pc = "offsets"

-----------------------------------------------------------------------------
(* SaveMetadata and RefineMetadata.                                        *)

\* The number of items, once; then that many offsets, without the lock.
SaveIndex ==
  /\ ~Down /\ saving = Idle /\ bounds.saves < MaxSaves /\ (File => ~Locked)
  /\ bounds' = [bounds EXCEPT !.saves = @ + 1]
  /\ disk' = [disk EXCEPT !.indexTmp = Written([k \in 1..size |-> Offset(k - 1)])]
  /\ saving' = [pc |-> "bytes", n |-> size - 1, whole |-> TRUE]
  /\ UNCHANGED <<size, blocks, count, holder, newdata, adding, reading, tried, items, lost>>

\* The loaded bytes and, under the lock, those of the items counted before; a
\* FileMetadataSet writes everything it has, but has not let go of the lock.
SavedBytes(n) == holder \o SubSeq(newdata, 1, Offset(n) - Offset(count))

SaveBytes ==
  /\ ~Down /\ saving.pc = "bytes" /\ ~WriterIn
  /\ disk' = [disk EXCEPT !.metaTmp = Written(SavedBytes(saving.n))]
  /\ saving' = [saving EXCEPT !.pc = "swap0"]
  /\ lost' = [lost EXCEPT !.saved = @ \/ lost.items # {}]
  /\ UNCHANGED <<size, blocks, count, holder, newdata, adding, reading, tried, items, bounds>>

\* RefineMetadata writes a selection of the items, reading each through
\* GetMetadata, to the same temporary files.
RefineMetadata ==
  /\ ~Down /\ saving = Idle /\ bounds.saves < MaxSaves /\ ~Locked
  /\ bounds' = [bounds EXCEPT !.saves = @ + 1]
  /\ \E keep \in SUBSET Ids :
       LET ids == SetToSortSeq(keep, <)
           chosen == FlattenSeq([k \in DOMAIN ids |->
                       PartOf(ids[k], Offset(ids[k]), Offset(ids[k] + 1), count)])
           sums == [k \in 1..Len(ids) + 1 |->
                      FoldLeft(LAMBDA s, i : s + Offset(i + 1) - Offset(i), 0, SubSeq(ids, 1, k - 1))]
       IN disk' = [disk EXCEPT !.indexTmp = Written(sums), !.metaTmp = Written(chosen)]
  /\ saving' = [pc |-> "swap0", n |-> size - 1, whole |-> FALSE]
  /\ lost' = [lost EXCEPT !.saved = @ \/ lost.items # {}]
  /\ UNCHANGED <<size, blocks, count, holder, newdata, adding, reading, tried, items>>

\* The old files are removed and the temporary ones take their names, in four
\* steps; FileMetadataSet::SaveMetadata holds the lock during them.
RemoveMeta ==
  /\ ~Down /\ saving.pc = "swap0" /\ saving' = [saving EXCEPT !.pc = "swap1"]
  /\ File => ~WriterIn /\ ~ReaderIn
  /\ disk' = [disk EXCEPT !.meta = Nothing]
  /\ UNCHANGED <<size, blocks, count, holder, newdata, adding, reading, tried, items, bounds, lost>>

RemoveIndex ==
  /\ ~Down /\ saving.pc = "swap1" /\ saving' = [saving EXCEPT !.pc = "swap2"]
  /\ disk' = [disk EXCEPT !.index = Nothing]
  /\ UNCHANGED <<size, blocks, count, holder, newdata, adding, reading, tried, items, bounds, lost>>

RenameMeta ==
  /\ ~Down /\ saving.pc = "swap2" /\ saving' = [saving EXCEPT !.pc = "swap3"]
  /\ disk' = [disk EXCEPT !.meta = disk.metaTmp, !.metaTmp = Nothing]
  /\ UNCHANGED <<size, blocks, count, holder, newdata, adding, reading, tried, items, bounds, lost>>

RenameIndex ==
  /\ ~Down /\ saving.pc = "swap3"
  /\ saving' = IF File /\ saving.whole THEN [saving EXCEPT !.pc = "swap4"] ELSE Idle
  /\ disk' = [disk EXCEPT !.index = disk.indexTmp, !.indexTmp = Nothing]
  /\ UNCHANGED <<size, blocks, count, holder, newdata, adding, reading, tried, items, bounds, lost>>

\* FileMetadataSet opens the new file: all its items are loaded ones now.
NoneLeft == <<>>

Reopen ==
  /\ ~Down /\ saving.pc = "swap4" /\ saving' = Idle
  /\ holder' = disk.meta.has /\ count' = size - 1 /\ newdata' = NoneLeft
  /\ UNCHANGED <<size, blocks, adding, reading, disk, tried, items, bounds, lost>>

-----------------------------------------------------------------------------
\* The process dies.
Crash ==
  /\ ~Down /\ bounds.crashes < MaxCrashes
  /\ bounds' = [bounds EXCEPT !.crashes = @ + 1]
  /\ adding' = [pc |-> "down"] /\ saving' = Idle
  /\ reading' = [r \in Readers |-> Idle]
  /\ size' = 0 /\ blocks' = <<>> /\ count' = 0 /\ holder' = <<>> /\ newdata' = <<>> /\ items' = <<>>
  /\ lost' = [lost EXCEPT !.items = {}]
  /\ UNCHANGED <<disk, tried>>

\* The items whose bytes and ends a pair of files holds.
Items(meta, index) ==
  LET n == Len(index) - 1
  IN [k \in 1..n |-> IF index[k + 1] > index[k] /\ index[k] + 1 \in DOMAIN meta
                       THEN meta[index[k] + 1] ELSE 0]

\* Both files are opened; without one of them loading fails.  MemMetadataSet reads
\* the bytes too, and fails if there are too few.
Loads ==
  disk.meta.is /\ disk.index.is /\ (File \/ Len(disk.meta.has) >= Last(disk.index.has))

Reload ==
  /\ Down /\ Loads /\ Len(disk.index.has) <= Capacity
  /\ adding' = Idle
  /\ count' = Len(disk.index.has) - 1 /\ size' = Len(disk.index.has)
  /\ blocks' = Assigned(disk.index.has)
  /\ holder' = (IF File THEN disk.meta.has ELSE SubSeq(disk.meta.has, 1, Last(disk.index.has)))
  /\ newdata' = <<>>
  /\ items' = Items(disk.meta.has, disk.index.has)
  /\ UNCHANGED <<reading, saving, disk, tried, bounds, lost>>

First == [k \in 1..Loaded |-> k]

Init ==
  /\ count = Loaded /\ size = Loaded + 1
  /\ blocks = Assigned(Ends(First)) /\ holder = All(First) /\ newdata = <<>>
  /\ adding = Idle /\ saving = Idle /\ reading = [r \in Readers |-> Idle]
  /\ disk = [meta |-> Written(All(First)), index |-> Written(Ends(First)),
             metaTmp |-> Nothing, indexTmp |-> Nothing]
  /\ tried = Loaded /\ items = First
  /\ bounds = [saves |-> 0, crashes |-> 0] /\ lost = [items |-> {}, saved |-> FALSE]

Add == AddInsert \/ AddBlock \/ AddStore \/ AddPublish \/ AddRefused

Save == SaveIndex \/ SaveBytes \/ RemoveMeta \/ RemoveIndex \/ RenameMeta \/ RenameIndex \/ Reopen

Next ==
  \/ Add /\ ~ReaderIn
  \/ \E r \in Readers : (~ReaderIn /\ ReadOffsets(r)) \/ ReadBytes(r)
  \/ (Save \/ RefineMetadata) /\ ~ReaderIn
  \/ Crash \/ Reload

Spec == Init /\ [][Next]_vars

-----------------------------------------------------------------------------
\* Every variable has its type.
TypeOK ==
  /\ size \in 0..Capacity /\ count \in 0..Len(Size) /\ tried \in 0..Len(Size)
  /\ \A b \in DOMAIN blocks : blocks[b] \in [0..BlockSize - 1 -> -1..Len(All([k \in DOMAIN Size |-> k]))]
  /\ Range(newdata) \cup Range(holder) \cup Range(items) \subseteq {0} \cup DOMAIN Size
  /\ adding.pc \in {"idle", "down", "insert", "block", "store", "full"}
  /\ \A r \in Readers : reading[r].pc \in {"idle", "offsets", "done"}
  /\ saving.pc \in {"idle", "bytes", "swap0", "swap1", "swap2", "swap3", "swap4"}
  /\ DOMAIN disk = {"meta", "index", "metaTmp", "indexTmp"}
  /\ bounds \in [saves : 0..MaxSaves, crashes : 0..MaxCrashes]
  /\ lost.items \subseteq 0..Len(Size) /\ lost.saved \in BOOLEAN

\* What GetMetadataCopy returns for an item is the metadata that was added with
\* it, whatever was added or saved while it read (the offset table read without
\* a lock; the bytes of a FileMetadataSet moving from memory into the file).  An
\* item added after a FileMetadataSet wrote its files and before it switched to
\* them is lost, and the next save shifts what follows it; nothing else is.
ReadRight ==
  \A r \in Readers :
    reading[r].pc = "done" /\ ~lost.saved /\ reading[r].id \notin lost.items =>
      /\ reading[r].id < Len(items)
      /\ reading[r].got = Bytes(items[reading[r].id + 1])

\* Between two calls of Add the bytes in memory are those of the items the offset
\* table counts: an item it had no room for leaves nothing behind (the rollback
\* of MemMetadataSet::Add).
NoneBehind == adding = Idle /\ saving.pc # "swap4" => Len(newdata) = Back - Offset(count)

\* Two files describe the same items.
Matching(meta, index) ==
  meta.is /\ index.is /\ Len(meta.has) = Last(index.has)
    /\ \A k \in 1..Len(index.has) - 1 : \E i \in DOMAIN Size :
         SubSeq(meta.has, index.has[k] + 1, index.has[k + 1]) = Bytes(i)

\* Where both files exist, they were written by the same save: one that dies half
\* way does not leave the bytes of one save with the offsets of another (the order
\* of the removals and the renames in SaveMetadata and RefineMetadata), unless the
\* set that was saved lacks an item.
NeverMixed ==
  disk.meta.is /\ disk.index.is /\ ~lost.saved => Matching(disk.meta, disk.index)

\* Outside the four steps that replace the files they are a complete pair that
\* loads; within them a complete pair is on the disk under one name or the other,
\* from which the set can be restored by hand, though no constructor looks at the
\* temporary names (the same steps).
Replacing == saving.pc \in {"swap1", "swap2", "swap3"}
Recoverable ==
  ~lost.saved =>
    /\ ~Down /\ ~Replacing => Loads /\ Matching(disk.meta, disk.index)
    /\ \E m \in {disk.meta, disk.metaTmp}, i \in {disk.index, disk.indexTmp} : Matching(m, i)

\* After a crash the files load.
\* The code does not keep this: README, Disagreements.  No run checks it.
CrashLoads == Down => Loads

\* A FileMetadataSet that was saved has every item it was given.
\* The code does not keep this: README, Disagreements.  No run checks it.
NoneLost == lost.items = {}
=============================================================================
