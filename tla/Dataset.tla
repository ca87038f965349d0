------------------------------- MODULE Dataset -------------------------------
(***************************************************************************)
(* COMMON::Dataset, the table behind the vectors, the graph, the labels    *)
(* and the sizes: the rows it was initialised or loaded with in one        *)
(* buffer, the rows added since in blocks of 2^rowsInBlockEx rows that are *)
(* allocated as they are needed.  Operations are atomic here; what other   *)
(* threads see of a table that grows is in LabelRows.                      *)
(***************************************************************************)
EXTENDS Integers, SequencesExt

CONSTANTS
  Values,    \* what a row may hold
  Blank,     \* the bytes that memset(-1) leaves
  BlockRows, \* rowsInBlock + 1, a power of two
  MaxRows,   \* capacity
  WithData,  \* whether batches bring their rows (vectors) or add blank ones (labels, graph)
  Unread     \* what a row holds that is in no block

DatasetAssumption == BlockRows \in Nat \ {0} /\ MaxRows \in Nat /\ Blank # Unread /\ {Blank, Unread} \cap Values = {}

VARIABLES
  rows,      \* rows in the buffer
  incRows,   \* rows in the blocks
  maxRows,
  data,      \* the buffer
  incBlocks, \* the blocks
  file,      \* what was saved: R() and the rows
  begin      \* the caller: R() before the batch it may yet take back

vars == <<rows, incRows, maxRows, data, incBlocks, file, begin>>

R == rows + incRows
Block(i) == (i - rows) \div BlockRows + 1
Pos(i) == ((i - rows) % BlockRows) + 1

(* At: the blocks hold the rows from "rows" on.                            *)
At(i) == IF i < rows THEN IF i < Len(data) THEN data[i + 1] ELSE Unread
         ELSE IF Block(i) \in DOMAIN incBlocks THEN incBlocks[Block(i)][Pos(i)] ELSE Unread
Rows == [i \in 1 .. R |-> At(i - 1)]
Blanks(n) == [i \in 1 .. n |-> Blank]

Initialize(n, cap, buffer) ==
  /\ rows' = n /\ data' = buffer /\ incBlocks' = <<>> /\ maxRows' = cap

Init ==
  /\ rows \in 0 .. MaxRows
  /\ incRows = 0
  /\ maxRows = MaxRows
  /\ data = Blanks(rows)
  /\ incBlocks = <<>>
  /\ file = <<>>
  /\ begin = rows

(* AddBatch(num, pData), num = Len(new) and no pData when new is blank.    *)
(* Blocks already there are written again only where pData covers them.    *)
GrownDown(n) == (incRows + n) \div BlockRows
Grown(n) == (incRows + n + BlockRows - 1) \div BlockRows
Allocated(k) == incBlocks \o [i \in 1 .. k - Len(incBlocks) |-> Blanks(BlockRows)]
Filled(blocks, new) ==
  [b \in DOMAIN blocks |-> [p \in 1 .. BlockRows |->
     LET at == (b - 1) * BlockRows + p - 1 - incRows
     IN IF at \in 0 .. Len(new) - 1 /\ new[at + 1] # Blank THEN new[at + 1] ELSE blocks[b][p]]]

AddBatch(new) ==
  LET need == Grown(Len(new)) IN
  /\ R <= maxRows - Len(new)
  /\ incBlocks' = Filled(IF need > Len(incBlocks) THEN Allocated(need) ELSE incBlocks, new)
  /\ incRows' = incRows + Len(new)
  /\ begin' = R
  /\ UNCHANGED <<rows, maxRows, data, file>>

(* ALIGN_ALLOC fails for the last block: the blocks before it stay, and    *)
(* the rows written so far are not counted.                                *)
AddBatchOverflow(new) ==
  LET need == Grown(Len(new)) IN
  /\ R <= maxRows - Len(new)
  /\ need > Len(incBlocks)
  /\ incBlocks' = Filled(IF need - 1 > Len(incBlocks) THEN Allocated(need - 1) ELSE incBlocks, new)
  /\ UNCHANGED <<rows, incRows, maxRows, data, file, begin>>

(* SetR, by which AddIndex takes a batch back when a later table is full.  *)
SetR(n) ==
  /\ n < R /\ n = begin
  /\ rows' = IF n >= rows THEN rows ELSE n
  /\ incRows' = IF n >= rows THEN n - rows ELSE 0
  /\ UNCHANGED <<maxRows, data, incBlocks, file, begin>>

(* A row is written once its batch is there to stay.                       *)
Write(i, v) ==
  /\ i < R
  /\ IF i < rows THEN data' = [data EXCEPT ![i + 1] = v] /\ incBlocks' = incBlocks
                 ELSE incBlocks' = [incBlocks EXCEPT ![Block(i)][Pos(i)] = v] /\ data' = data
  /\ begin' = R
  /\ UNCHANGED <<rows, incRows, maxRows, file>>

Save == file' = Rows /\ UNCHANGED <<rows, incRows, maxRows, data, incBlocks, begin>>

(* Load into a table just made, or into one that Initialize gave n blank   *)
(* rows: only the count of rows is replaced then, the buffer is not.       *)
LoadNew ==
  /\ file # <<>>
  /\ Initialize(Len(file), MaxRows, file)
  /\ incRows' = 0 /\ begin' = Len(file) /\ file' = file

LoadOver(n) ==
  /\ file # <<>> /\ n \in Len(file) .. MaxRows
  /\ rows' = Len(file) /\ maxRows' = MaxRows /\ incBlocks' = <<>>
  /\ data' = file \o Blanks(n - Len(file))
  /\ incRows' = 0 /\ begin' = Len(file) /\ file' = file

(* Refine into a new table, for the rows that are kept, in their order.    *)
(* The capacity comes back from the blocks reserved for the old one.       *)
Reserved == (maxRows + BlockRows - 1) \div BlockRows
Refine(kept) ==
  /\ kept # {} /\ kept \subseteq 0 .. R - 1
  /\ LET s == SetToSortSeq(kept, <)
     IN Initialize(Len(s), Reserved * BlockRows, [i \in DOMAIN s |-> At(s[i])]) /\ begin' = Len(s)
  /\ incRows' = 0 /\ file' = file

Batches == UNION {IF WithData THEN [1 .. n -> Values] ELSE {Blanks(n)} : n \in 1 .. MaxRows}

Next ==
  \/ \E new \in Batches : AddBatch(new) \/ AddBatchOverflow(new)
  \/ \E n \in 1 .. MaxRows : SetR(n) \/ LoadOver(n)
  \/ \E i \in 0 .. R - 1, v \in Values : Write(i, v)
  \/ Save \/ LoadNew
  \/ \E kept \in SUBSET (0 .. R - 1) : Refine(kept)
Spec == Init /\ [][Next]_vars

-----------------------------------------------------------------------------
TypeOK ==
  /\ rows \in Nat /\ incRows \in Nat /\ R <= Reserved * BlockRows
  /\ \A b \in DOMAIN incBlocks : Len(incBlocks[b]) = BlockRows
  /\ begin \in Nat

(* Every row that R() counts is in the buffer or in a block, after any     *)
(* growth, rollback or load.                                               *)
RowsThere == \A i \in 0 .. R - 1 : At(i) # Unread

(* The blocks stay within what Initialize reserved, so that push_back does *)
(* not move the array of blocks under a reader.                            *)
NeverMoved == Len(incBlocks) <= Reserved
=============================================================================
