---------------------------- MODULE BlockStore ----------------------------
(***************************************************************************)
(* SPDKIO: a key-value store on blocks of a disk.  The mapping points from *)
(* a key to an address list: the length of its value and the blocks the    *)
(* value is in.  A Put writes into new blocks and a new list, gives the    *)
(* old blocks back, swings the pointer and keeps the old list for reuse.   *)
(*                                                                         *)
(* Lengths count records, of which a block holds PageSize.  The disk takes *)
(* one block at a time; see BlockIo for what is below ReadBlocks and       *)
(* WriteBlocks.                                                            *)
(***************************************************************************)
EXTENDS Integers, Sequences, SequencesExt, FiniteSetsExt, Bags, Functions

CONSTANTS
  Keys,
  Threads,
  Records,
  Blocks,      \* the blocks of the disk
  Lists,       \* bound: the address lists that can be allocated
  PageSize,    \* records in a block
  BlockLimit,  \* m_blockLimit
  BufferSize,  \* m_bufferLimit
  Inputs,      \* input: the values of Put and Merge
  Locking,     \* input: which operations on a key exclude each other
  Restarts,    \* input: may the program be restarted
  None

ASSUME StoreAssumption ==
  /\ PageSize \in Nat \ {0} /\ BlockLimit \in Nat /\ BufferSize \in Nat
  /\ Inputs \subseteq Seq(Records)
  /\ Locking \in {"all", "writers"}
  /\ Restarts \in BOOLEAN
  /\ None \notin Blocks \cup Lists \cup Keys

(* Being without a value is not the same as an empty value. *)
ASSUME ValueAssumption == None \notin Seq(Records)

VARIABLES
  mapping,  \* m_pBlockMapping
  list,     \* the address lists: a length, -1 at first, and the blocks
  buffer,   \* m_buffer: how often each list is in the queue of spare ones
  free,     \* m_blockAddresses: how often each block is in the queue
  disk,     \* the records in each block
  op        \* the operation of each thread: next step and locals

vars == <<mapping, list, buffer, free, disk, op>>

Idle == [pc |-> "idle", call |-> "none", key |-> None, arg |-> None, value |-> << >>,
         old |-> None, new |-> None, from |-> 0, k |-> 0, n |-> 0]

Fresh == [size |-> -1, at |-> [i \in 1..BlockLimit |-> None]]

(* The queues are used from every thread: what is pushed comes back some   *)
(* time, and the order is of no account.                                   *)
Queue(S) == [x \in S |-> 1]
Push(q, x) == q (+) SetToBag({x})
Pop(q, x) == q (-) SetToBag({x})

(* How many blocks hold n records. *)
Pages(n) == (n + PageSize - 1) \div PageSize

Page(v, i) == SubSeq(v, (i - 1) * PageSize + 1, IF i * PageSize < Len(v) THEN i * PageSize ELSE Len(v))

(* What a read finds in the i-th block of a list. *)
Chunk(l, i) ==
  LET here == list[l].size - (i - 1) * PageSize
      data == disk[list[l].at[i]] IN
  SubSeq(data, 1, IF here < Len(data) THEN here ELSE Len(data))

Init ==
  /\ mapping = [k \in Keys |-> None]
  /\ free = Queue(Blocks)
  /\ \E b \in kSubset(BufferSize, Lists) : buffer = Queue(b)
  /\ list = [l \in Lists |-> Fresh]
  /\ disk = [b \in Blocks |-> << >>]
  /\ op = [t \in Threads |-> Idle]

To(t, l) == op' = [op EXCEPT ![t].pc = l]
At(t, l) == op[t].pc = l

-----------------------------------------------------------------------------
(* The callers hold the lock of the posting while they write it: one       *)
(* writer for each key, and with "all" no reader beside it.  They ask only *)
(* for keys they have put.                                                 *)
Excludes(o, p) == IF Locking = "all" THEN {o, p} # {"get"} ELSE "get" \notin {o, p}

Call(t, o, k, v) ==
  /\ At(t, "idle")
  /\ \A u \in Threads : op[u].key = k => ~Excludes(op[u].call, o)
  /\ o # "put" => mapping[k] # None
  /\ o \in {"get", "merge"} => list[mapping[k]].size >= 0
  /\ op' = [op EXCEPT ![t] = [Idle EXCEPT !.pc = "called", !.call = o, !.key = k,
                                         !.arg = IF o \in {"put", "merge"} THEN v ELSE None]]
  /\ UNCHANGED <<mapping, list, buffer, free, disk>>

Called(t, o) == At(t, "called") /\ op[t].call = o

Return(t) ==
  /\ op[t].pc \in {"done", "failed"}
  /\ op' = [op EXCEPT ![t] = Idle]
  /\ UNCHANGED <<mapping, list, buffer, free, disk>>

(* A value that is too long is refused, and so is the deletion of an empty *)
(* list.                                                                   *)
Refuse(t) ==
  LET size == list[mapping[op[t].key]].size IN
  /\ At(t, "called")
  /\ CASE op[t].call = "put"    -> Pages(Len(op[t].arg)) >= BlockLimit
       [] op[t].call = "merge"  -> Pages(size + Len(op[t].arg)) >= BlockLimit
       [] op[t].call = "delete" -> size < 0
       [] OTHER -> FALSE
  /\ To(t, "failed")
  /\ UNCHANGED <<mapping, list, buffer, free, disk>>

-----------------------------------------------------------------------------
(* Get: the pointer, the length and then block after block.  Without the   *)
(* lock the key may be gone by then: that is undefined and not followed.   *)
Get(t) ==
  /\ Called(t, "get")
  /\ mapping[op[t].key] # None
  /\ list[mapping[op[t].key]].size >= 0
  /\ op' = [op EXCEPT ![t].pc = "read", ![t].old = mapping[op[t].key], ![t].k = 1]
  /\ UNCHANGED <<mapping, list, buffer, free, disk>>

ReadBlock(t) ==
  /\ At(t, "read")
  /\ (op[t].k - 1) * PageSize < list[op[t].old].size
  /\ op' = [op EXCEPT ![t].value = @ \o Chunk(op[t].old, op[t].k), ![t].k = @ + 1]
  /\ UNCHANGED <<mapping, list, buffer, free, disk>>

ReadEnd(t) ==
  /\ At(t, "read")
  /\ (op[t].k - 1) * PageSize >= list[op[t].old].size
  /\ To(t, "done")
  /\ UNCHANGED <<mapping, list, buffer, free, disk>>

-----------------------------------------------------------------------------
(* Put *)

Held == {op[t].old : t \in Threads} \cup {op[t].new : t \in Threads}
Unused == Lists \ (Held \cup BagToSet(buffer) \cup {mapping[k] : k \in Keys})

(* A key without a list gets one, from the buffer if that is more than     *)
(* full.                                                                   *)
PutFirst(t) ==
  /\ Called(t, "put")
  /\ Pages(Len(op[t].arg)) < BlockLimit
  /\ mapping[op[t].key] = None
  /\ \E l \in Lists :
       /\ IF BagCardinality(buffer) > BufferSize
            THEN BagIn(l, buffer) /\ buffer' = Pop(buffer, l)
            ELSE l \in Unused /\ UNCHANGED buffer
       /\ mapping' = [mapping EXCEPT ![op[t].key] = l]
       /\ list' = [list EXCEPT ![l] = Fresh]
  /\ UNCHANGED <<free, disk, op>>

Put(t) ==
  LET l == mapping[op[t].key]
      v == op[t].arg IN
  /\ Called(t, "put")
  /\ Pages(Len(v)) < BlockLimit
  /\ l # None
  /\ IF list[l].size < 0
       THEN op' = [op EXCEPT ![t].pc = "blocks", ![t].new = l, ![t].value = v, ![t].n = Pages(Len(v))]
       ELSE op' = [op EXCEPT ![t].pc = "spare",  ![t].old = l, ![t].value = v, ![t].n = Pages(Len(v))]
  /\ UNCHANGED <<mapping, list, buffer, free, disk>>

(* The spare list of a Merge starts with the full blocks of the old one.   *)
Spare(t) ==
  /\ At(t, "spare")
  /\ \E l \in BagToSet(buffer) :
       /\ buffer' = Pop(buffer, l)
       /\ list' = [list EXCEPT ![l].at = [i \in 1..BlockLimit |->
                     IF i <= op[t].from THEN list[op[t].old].at[i] ELSE @[i]]]
       /\ op' = [op EXCEPT ![t].pc = "blocks", ![t].new = l]
  /\ UNCHANGED <<mapping, free, disk>>

(* GetBlocks spins while there is no free block. *)
GetBlock(t) ==
  /\ At(t, "blocks")
  /\ op[t].k < op[t].n
  /\ \E b \in BagToSet(free) :
       /\ free' = Pop(free, b)
       /\ list' = [list EXCEPT ![op[t].new].at[op[t].from + op[t].k + 1] = b]
  /\ op' = [op EXCEPT ![t].k = @ + 1]
  /\ UNCHANGED <<mapping, buffer, disk>>

GotBlocks(t) ==
  /\ At(t, "blocks")
  /\ op[t].k = op[t].n
  /\ op' = [op EXCEPT ![t].pc = "write", ![t].k = 0]
  /\ UNCHANGED <<mapping, list, buffer, free, disk>>

WriteBlock(t) ==
  LET i == op[t].k + 1 IN
  /\ At(t, "write")
  /\ op[t].k < op[t].n
  /\ disk' = [disk EXCEPT ![list[op[t].new].at[op[t].from + i]] = Page(op[t].value, i)]
  /\ op' = [op EXCEPT ![t].k = i]
  /\ UNCHANGED <<mapping, list, buffer, free>>

(* With the length the new list is complete.  If it is the key's own list, *)
(* the operation ends.                                                     *)
SetSize(t) ==
  /\ At(t, "write")
  /\ op[t].k = op[t].n
  /\ list' = [list EXCEPT ![op[t].new].size = op[t].from * PageSize + Len(op[t].value)]
  /\ op' = [op EXCEPT ![t] = IF op[t].old \in {None, op[t].new} THEN [@ EXCEPT !.pc = "done"]
                             ELSE [@ EXCEPT !.pc = "release", !.k = op[t].from]]
  /\ UNCHANGED <<mapping, buffer, free, disk>>

(* Bug: the last block is forgotten.                                       *)
ReleaseFull(t) ==
  LET o == list[op[t].old] IN
  /\ At(t, "release")
  /\ IF op[t].k + 1 < Pages(o.size)
       THEN /\ free' = Push(free, o.at[op[t].k + 1])
            /\ op' = [op EXCEPT ![t].k = @ + 1]
       ELSE /\ UNCHANGED free
            /\ To(t, IF op[t].new = None THEN "forget" ELSE "swap")
  /\ UNCHANGED <<mapping, list, buffer, disk>>

(* The old blocks beyond the ones the new list shares. *)
Release(t) ==
  LET o == list[op[t].old] IN
  /\ At(t, "release")
  /\ IF op[t].k < Pages(o.size)
       THEN /\ free' = Push(free, o.at[op[t].k + 1])
            /\ op' = [op EXCEPT ![t].k = @ + 1]
       ELSE /\ UNCHANGED free
            /\ To(t, IF op[t].new = None THEN "forget" ELSE "swap")
  /\ UNCHANGED <<mapping, list, buffer, disk>>

(* Bug: the list that stays in use is put aside.                           *)
KeepNew(t) ==
  /\ At(t, "keep")
  /\ buffer' = Push(buffer, op[t].new)
  /\ To(t, "done")
  /\ UNCHANGED <<mapping, list, free, disk>>

Swap(t) ==
  /\ At(t, "swap")
  /\ IF mapping[op[t].key] = op[t].old
       THEN /\ mapping' = [mapping EXCEPT ![op[t].key] = op[t].new]
            /\ To(t, "keep")
       ELSE /\ op' = [op EXCEPT ![t].old = mapping[op[t].key]]
            /\ UNCHANGED mapping
  /\ UNCHANGED <<list, buffer, free, disk>>

Keep(t) ==
  /\ At(t, "keep")
  /\ buffer' = Push(buffer, op[t].old)
  /\ To(t, "done")
  /\ UNCHANGED <<mapping, list, free, disk>>

-----------------------------------------------------------------------------
(* Bug: the records in the last block are left out of the new one.         *)
MergeTail(t) ==
  LET l    == mapping[op[t].key]
      v    == op[t].arg
      size == list[l].size
      full == size \div PageSize
      part == size % PageSize IN
  /\ Called(t, "merge")
  /\ Pages(size + Len(v)) < BlockLimit
  /\ op' = [op EXCEPT ![t] = [@ EXCEPT !.from = full, !.n = Pages(size + Len(v)) - full,
              !.pc = IF part # 0 THEN "spare" ELSE "blocks",
              !.old = l, !.new = IF part # 0 THEN None ELSE l, !.value = v]]
  /\ UNCHANGED <<mapping, list, buffer, free, disk>>

(* Merge: a partly filled last block is read and written anew, with a new  *)
(* list; otherwise the blocks are added to the list in place.              *)
Merge(t) ==
  LET l    == mapping[op[t].key]
      v    == op[t].arg
      size == list[l].size
      full == size \div PageSize
      part == size % PageSize IN
  /\ Called(t, "merge")
  /\ Pages(size + Len(v)) < BlockLimit
  /\ op' = [op EXCEPT ![t] = [@ EXCEPT !.from = full, !.n = Pages(size + Len(v)) - full,
              !.pc = IF part # 0 THEN "spare" ELSE "blocks",
              !.old = l,
              !.new = IF part # 0 THEN None ELSE l,
              !.value = IF part # 0 THEN SubSeq(disk[list[l].at[full + 1]], 1, part) \o v ELSE v]]
  /\ UNCHANGED <<mapping, list, buffer, free, disk>>

-----------------------------------------------------------------------------
(* Delete: the blocks, then the list are given back before the pointer is  *)
(* reset.                                                                  *)
Delete(t) ==
  /\ Called(t, "delete")
  /\ list[mapping[op[t].key]].size >= 0
  /\ op' = [op EXCEPT ![t].pc = "release", ![t].old = mapping[op[t].key]]
  /\ UNCHANGED <<mapping, list, buffer, free, disk>>

Forget(t) ==
  /\ At(t, "forget")
  /\ buffer' = Push(buffer, op[t].old)
  /\ To(t, "unmap")
  /\ UNCHANGED <<mapping, list, free, disk>>

Unmap(t) ==
  /\ At(t, "unmap")
  /\ mapping' = [mapping EXCEPT ![op[t].key] = None]
  /\ To(t, "done")
  /\ UNCHANGED <<list, buffer, free, disk>>

-----------------------------------------------------------------------------
(* ShutDown saves the mapping; the next start loads it, allocates the      *)
(* spare lists and initialises the block controller, which puts every      *)
(* block into the queue.  A key without a list comes back with an empty    *)
(* one.                                                                    *)
Restart ==
  /\ Restarts
  /\ \A t \in Threads : At(t, "idle")
  /\ LET mapped == {k \in Keys : mapping[k] # None} IN
       \E at \in [Keys -> Lists], b \in kSubset(BufferSize, Lists) :
         /\ IsInjective(at)
         /\ \A k \in mapped : at[k] = mapping[k]
         /\ b \cap {at[k] : k \in Keys} = {}
         /\ mapping' = at
         /\ buffer' = Queue(b)
         /\ list' = [l \in Lists |-> IF l \in {mapping[k] : k \in mapped} THEN list[l] ELSE Fresh]
  /\ free' = Queue(Blocks)
  /\ UNCHANGED <<disk, op>>

-----------------------------------------------------------------------------
Step(t) ==
  \/ Refuse(t) \/ Get(t) \/ PutFirst(t) \/ Put(t) \/ Merge(t) \/ Delete(t)
  \/ ReadBlock(t) \/ ReadEnd(t)
  \/ Spare(t) \/ GetBlock(t) \/ GotBlocks(t) \/ WriteBlock(t) \/ SetSize(t)
  \/ Release(t) \/ Swap(t) \/ Keep(t) \/ Forget(t) \/ Unmap(t)
  \/ Return(t)

Next ==
  \/ Restart
  \/ \E t \in Threads :
       \/ Step(t)
       \/ \E o \in {"get", "put", "merge", "delete"}, k \in Keys, v \in Inputs : Call(t, o, k, v)

Spec == Init /\ [][Next]_vars

(* An operation that was called goes on. *)
FairSpec == Spec /\ \A t \in Threads : WF_vars(Step(t))

-----------------------------------------------------------------------------
PC == {"idle", "called", "done", "failed", "read", "spare", "blocks", "write", "release", "swap", "keep",
       "forget", "unmap"}

(* Every variable keeps its type. *)
TypeOK ==
  /\ mapping \in [Keys -> Lists \cup {None}]
  /\ \A l \in Lists : list[l].size \in -1..(BlockLimit * PageSize)
                      /\ list[l].at \in [1..BlockLimit -> Blocks \cup {None}]
  /\ IsABag(buffer) /\ DOMAIN buffer \subseteq Lists
  /\ IsABag(free) /\ DOMAIN free \subseteq Blocks
  /\ disk \in [Blocks -> Seq(Records)]
  /\ \A t \in Threads :
       /\ op[t].pc \in PC /\ op[t].key \in Keys \cup {None}
       /\ op[t].old \in Lists \cup {None} /\ op[t].new \in Lists \cup {None}
       /\ op[t].k \in Nat /\ op[t].n \in Nat /\ op[t].from \in Nat

(* The blocks in use: of each key's list, less the ones already released,  *)
(* and of the list that a thread fills.                                    *)
Writer(k) == {t \in Threads : op[t].key = k /\ op[t].call # "get"}
Releasing(t) == op[t].pc \in {"release", "swap", "keep", "forget", "unmap"}
UsedBy(l) == IF list[l].size < 0 THEN {} ELSE {list[l].at[i] : i \in 1..Pages(list[l].size)}
Filled(t) ==
  CASE op[t].pc = "blocks" -> {list[op[t].new].at[op[t].from + i] : i \in 1..op[t].k}
    [] op[t].pc = "write"  -> {list[op[t].new].at[op[t].from + i] : i \in 1..op[t].n}
    [] op[t].pc \in {"release", "swap", "keep"} /\ op[t].new # None -> UsedBy(op[t].new)
    [] OTHER -> {}
Kept(t) ==
  LET o == list[op[t].old] IN
  IF At(t, "release") THEN {o.at[i] : i \in op[t].k + 1..Pages(o.size)} ELSE {}
OwnedBy(k) ==
  IF \E t \in Writer(k) : Releasing(t)
    THEN UNION {Kept(t) \cup Filled(t) : t \in Writer(k)}
    ELSE (IF mapping[k] = None THEN {} ELSE UsedBy(mapping[k])) \cup UNION {Filled(t) : t \in Writer(k)}

(* No block is lost, none is free twice, none is free while a key uses it, *)
(* and no two keys share one.                                              *)
BlocksOwned ==
  /\ \A b \in BagToSet(free) : free[b] = 1
  /\ BagToSet(free) \cup UNION {OwnedBy(k) : k \in Keys} = Blocks
  /\ \A k \in Keys : OwnedBy(k) \cap BagToSet(free) = {}
  /\ \A k, j \in Keys : k # j => OwnedBy(k) \cap OwnedBy(j) = {}

(* No list serves two keys, and none is spare or in the hands of a thread  *)
(* while a key has it, other than for the moment in which Delete has not   *)
(* reset the pointer yet.                                                  *)
Has(k) == IF \E t \in Writer(k) : op[t].pc = "unmap" THEN None ELSE mapping[k]
ListsOwned ==
  /\ \A l \in BagToSet(buffer) : buffer[l] = 1
  /\ \A k \in Keys : Has(k) # None =>
       /\ Has(k) \notin BagToSet(buffer)
       /\ \A j \in Keys : Has(k) = Has(j) => k = j
       /\ \A t \in Threads : op[t].new = Has(k) => op[t].key = k
  /\ \A t \in Threads : op[t].new # None => op[t].new \notin BagToSet(buffer)

-----------------------------------------------------------------------------
(* The record at a position is at its place in its block. *)
RecordAt(l, i) == disk[list[l].at[((i - 1) \div PageSize) + 1]][((i - 1) % PageSize) + 1]

(* The value of a key: of its list, or of the list that a writer has       *)
(* completed and is about to install.                                      *)
Contents(l) == IF l = None \/ list[l].size < 0 THEN None
               ELSE [i \in 1..list[l].size |-> RecordAt(l, i)]

ValueOf(k) ==
  IF \E t \in Writer(k) : Releasing(t)
    THEN LET t == CHOOSE t \in Writer(k) : Releasing(t) IN Contents(op[t].new)
    ELSE Contents(mapping[k])

CallOf(t) ==
  [op |-> op[t].call, key |-> op[t].key, value |-> op[t].arg,
   state |-> CASE op[t].pc \in {"idle", "failed", "done"} -> op[t].pc
               [] Releasing(t) -> "done"
               [] OTHER -> "called",
   answer |-> IF op[t].call = "get" /\ At(t, "done") THEN op[t].value ELSE None]

KV == INSTANCE KeyValue WITH
  Values <- Inputs, Callers <- Threads,
  store <- [k \in Keys |-> ValueOf(k)], call <- [t \in Threads |-> CallOf(t)]

(* With the callers' locks the block store is a key-value store: every     *)
(* operation takes effect at one moment although blocks and lists are      *)
(* recycled under other keys, and a Get returns the value of its key.      *)
IsKeyValue == KV!Spec

(* A Get returns a value that was put, also beside a writer. *)
(* The code does not keep this: README, Disagreements.  No run checks it.  *)
NoTornRead == \A t \in Threads : At(t, "done") /\ op[t].call = "get" => op[t].value \in Inputs

=============================================================================
