----------------------------- MODULE StaticBuild -----------------------------
(***************************************************************************)
(* ExtraStaticSearcher::BuildIndex and LoadIndex: the selections of        *)
(* ReplicaSelection, the postings spread over index files, each written    *)
(* from the part of the selections that belongs to it, loaded again and    *)
(* parsed as a search parses them.  StaticLayout has the bytes of a file.  *)
(***************************************************************************)
EXTENDS ReplicaSelection

CONSTANTS
  Files,      \* m_ssdIndexFileNum
  Delta,      \* m_enableDeltaEncoding
  Rearrange   \* m_enablePostingListRearrange

FileSize == Ceil(Heads, Files)

(* As with the batches, the last file must not begin after the last        *)
(* posting: the sizes copied for it would be a negative number.            *)
StaticBuildAssumption ==
  /\ Files \in Nat \ {0} /\ {Delta, Rearrange} \subseteq BOOLEAN
  /\ (Files - 1) * FileSize <= Heads

VARIABLES
  bounds,   \* selectionsBatchOffset
  written,  \* the index files: each the postings in it
  infos,    \* m_listInfos: the place of a posting within its file
  opened    \* m_indexFiles

vars == <<step, batch, full, file, mem, lo, hi, copies, sizes, bounds, written, infos, opened>>
own == <<bounds, written, infos, opened>>

Init ==
  /\ SelectionInit
  /\ bounds = <<>> /\ written = <<>> /\ infos = <<>> /\ opened = 0

Prepare == Prepared /\ UNCHANGED own
StartBatch == BatchStarted /\ UNCHANGED own
Search == Approximate /\ UNCHANGED own
CountReplicas == ReplicasCounted /\ UNCHANGED own
SortSelections == SelectionsSorted /\ UNCHANGED own
CutPosting == PostingCut /\ UNCHANGED own

(* Where the postings of each file begin in the sorted selections.         *)
DivideFiles ==
  /\ CutDone
  /\ bounds' = <<0>> \o [i \in 1 .. Files |-> LowerBound(MinOf(Heads, i * FileSize))]
  /\ IF Files > 1 THEN SaveBatch(mem) ELSE UNCHANGED rows
  /\ step' = "file"
  /\ UNCHANGED <<batch, full, copies, sizes, written, infos, opened>>

NextFile == Len(written)
FileStart == NextFile * FileSize
FileEnd == MinOf(Heads, FileStart + FileSize)

LoadSelections ==
  /\ step = "file" /\ NextFile < Files
  /\ LET a == bounds[NextFile + 1]
         b == bounds[NextFile + 2]
     IN  IF Files > 1
         THEN LoadBatch(a, b) /\ step' = IF LoadableFrom(file, a, b) THEN "write" ELSE "failed"
         ELSE UNCHANGED rows /\ step' = "write"
  /\ UNCHANGED <<batch, full, copies, sizes, bounds, written, infos, opened>>

(* One cell for a vector's identifier, one for the vector itself.          *)
Encoded(p, v) == IF Delta THEN Place[v] - Place[HeadOf(p)] ELSE Place[v]
GetPostingListFullData(p) ==
  LET ids == MembersOf(p)
      vectors == [k \in 1 .. Len(ids) |-> Encoded(p, ids[k])]
  IN  IF Rearrange THEN vectors \o ids ELSE FlattenSeq([k \in 1 .. Len(ids) |-> <<ids[k], vectors[k]>>])

WriteFile ==
  /\ step = "write"
  /\ IF \A p \in FileStart .. FileEnd - 1 : Matches(p)
     THEN /\ written' = Append(written, [k \in 1 .. FileEnd - FileStart |-> GetPostingListFullData(FileStart + k - 1)])
          /\ step' = "file"
     ELSE UNCHANGED written /\ step' = "failed"
  /\ UNCHANGED <<batch, full, file, mem, lo, hi, copies, sizes, bounds, infos, opened>>

BuildEnd ==
  /\ step = "file" /\ NextFile = Files
  /\ step' = "load"
  /\ UNCHANGED <<batch, full, file, mem, lo, hi, copies, sizes, bounds, written, infos, opened>>

(* LoadIndex opens the files one after another while there is a next one.  *)
LoadFile ==
  /\ step = "load" /\ opened < Len(written)
  /\ infos' = infos \o [k \in 1 .. Len(written[opened + 1]) |-> k]
  /\ opened' = opened + 1
  /\ UNCHANGED <<step, batch, full, file, mem, lo, hi, copies, sizes, bounds, written>>

LoadEnd ==
  /\ step = "load" /\ opened = Len(written)
  /\ step' = "done"
  /\ UNCHANGED <<batch, full, file, mem, lo, hi, copies, sizes, bounds, written, infos, opened>>

Next ==
  \/ Prepare \/ StartBatch \/ Search \/ CountReplicas \/ SortSelections \/ CutPosting
  \/ DivideFiles \/ LoadSelections \/ WriteFile \/ BuildEnd \/ LoadFile \/ LoadEnd
Spec == Init /\ [][Next]_vars

(* How a search finds and parses a posting.                                *)
ListPerFile == Ceil(Len(infos), opened)
FileId(p) == IF opened = 1 THEN 0 ELSE p \div ListPerFile
Read(p) == written[FileId(p) + 1][infos[p + 1]]
EleCount(p) == Len(Read(p)) \div 2
OffsetPlain(p, i) == 2 * i
OffsetVectorID(p, i) == IF Rearrange THEN EleCount(p) + i ELSE 2 * i
OffsetVector(p, i) == IF Rearrange THEN i ELSE 2 * i + 1
ParseEncoding(p, x) == IF Delta THEN x + Place[HeadOf(p)] ELSE x
Parsed(p) == [k \in 1 .. EleCount(p) |->
  <<Read(p)[OffsetVectorID(p, k - 1) + 1], ParseEncoding(p, Read(p)[OffsetVector(p, k - 1) + 1])>>]

-----------------------------------------------------------------------------
TypeOK ==
  /\ step \in {"prepare", "batch", "search", "cut", "file", "write", "load", "done", "failed"}
  /\ batch \in 0 .. Batches /\ full \in 0 .. BatchSize
  /\ hi - lo = Len(mem) /\ copies \in [Vids -> 0 .. Replicas] /\ sizes \in [Postings -> Nat]

(* The build is never refused a part of the selections, and the selections *)
(* of a file always begin with those of its first posting.                 *)
NeverFails == step # "failed"

(* A row belongs to the vector it names, whichever batch wrote it and      *)
(* wherever it was kept since: the distance in it is that vector's.        *)
RowsRight ==
  \A k \in 1 .. Len(mem) : mem[k].tonode # MaxSize =>
    mem[k].tonode \notin HeadIDs /\ mem[k].distance = Distance(mem[k].tonode, HeadOf(mem[k].node))

(* After the cut the number of replicas counted for a vector is the number *)
(* of postings that will be written with it.                               *)
CopiesMatch ==
  CutDone => \A v \in Vids : copies[v] = Cardinality({p \in Postings : v \in Range(MembersOf(p))})

(* A cut posting keeps the nearest of its vectors.                         *)
NearestKept ==
  CutDone => \A p \in Postings, k \in 1 .. Len(mem) :
    mem[k].node = p /\ mem[k].tonode \notin Range(MembersOf(p)) =>
      sizes[p] = Limit /\ \A v \in Range(MembersOf(p)) : Distance(v, HeadOf(p)) <= mem[k].distance

(* Once loaded, a search that asks for a posting gets its own vectors, from *)
(* whichever file, each where it lies, and a vector is in as many postings *)
(* as were counted for it.                                                 *)
ReadsOwn ==
  step = "done" =>
    /\ Len(infos) = Heads
    /\ \A p \in Postings : EleCount(p) = sizes[p]
    /\ \A p \in Postings : \A k \in 1 .. sizes[p] :
         /\ Parsed(p)[k][1] \in Vids \ HeadIDs
         /\ Parsed(p)[k][2] = Place[Parsed(p)[k][1]]
    /\ \A v \in Vids : copies[v] = Cardinality({p \in Postings : \E k \in 1 .. sizes[p] : Parsed(p)[k][1] = v})
=============================================================================
