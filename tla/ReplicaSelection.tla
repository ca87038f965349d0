-------------------------- MODULE ReplicaSelection --------------------------
(***************************************************************************)
(* The first part of both BuildIndex functions: every vector that is not a *)
(* head is given up to Replicas heads (VectorIndex::ApproximateRNG), batch *)
(* by batch, the selections of the batches that are not worked on being    *)
(* kept in a temporary file (Selection::SaveBatch, LoadBatch); they are    *)
(* then sorted by posting, and postings beyond the limit are cut.          *)
(***************************************************************************)
EXTENDS Integers, Sequences, SequencesExt, FiniteSets, FiniteSetsExt

CONSTANTS
  Count,       \* fullCount
  HeadVector,  \* the head identifier file: the vector each posting's head is
  Place,       \* where a vector lies; the distance of two is that of their places
  Replicas,    \* m_replicaCount
  Batches,     \* m_batches
  Limit        \* postingSizeLimit

Ceil(n, d) == (n + d - 1) \div d
MinOf(a, b) == IF a < b THEN a ELSE b

Heads == Len(HeadVector)
Postings == 0 .. Heads - 1
Vids == 0 .. Count - 1
BatchSize == Ceil(Count, Batches)

(* The last batch must not begin after the last vector: LoadBatch would be *)
(* asked for a negative number of rows.                                    *)
ReplicaSelectionAssumption ==
  /\ {Count, Replicas, Batches, Limit} \subseteq Nat \ {0}
  /\ HeadVector \in Seq(Vids) /\ Place \in [Vids -> Int]
  /\ (Batches - 1) * BatchSize <= Count

VARIABLES
  step,    \* what BuildIndex does next
  batch,   \* the batch worked on
  full,    \* nextFullID of ApproximateRNG
  file,    \* m_tmpfile
  mem,     \* m_selections
  lo,      \* m_start
  hi,      \* m_end
  copies,  \* replicaCount
  sizes    \* postingListSize

rows == <<file, mem, lo, hi>>

HeadIDs == Range(HeadVector)
Distance(a, b) == IF Place[a] < Place[b] THEN Place[b] - Place[a] ELSE Place[a] - Place[b]
HeadOf(p) == HeadVector[p + 1]
MaxSize == Count + Heads
NoEdge == [node |-> MaxSize, distance |-> MaxSize, tonode |-> MaxSize]
EdgeLess(a, b) ==
  \/ a.node < b.node
  \/ a.node = b.node /\ (a.distance < b.distance \/ (a.distance = b.distance /\ a.tonode < b.tonode))

SelectionInit ==
  /\ step = "prepare" /\ batch = 0 /\ full = 0
  /\ file = <<>> /\ mem = [k \in 1 .. Count * Replicas |-> NoEdge]
  /\ lo = 0 /\ hi = Count * Replicas
  /\ copies = [v \in Vids |-> 0] /\ sizes = [p \in Postings |-> 0]

-----------------------------------------------------------------------------
(* Selection. *)
Saved(m) ==
  [k \in 1 .. (IF hi > Len(file) THEN hi ELSE Len(file)) |-> IF lo < k /\ k <= hi THEN m[k - lo] ELSE file[k]]
SaveBatch(m) == file' = Saved(m) /\ mem' = <<>> /\ lo' = 0 /\ hi' = 0

LoadableFrom(f, a, b) == a <= b /\ b <= Len(f)
LoadBatch(a, b) ==
  IF LoadableFrom(file, a, b)
  THEN mem' = SubSeq(file, a + 1, b) /\ lo' = a /\ hi' = b /\ file' = file
  ELSE UNCHANGED rows

LowerBound(p) == lo + Cardinality({k \in 1 .. Len(mem) : mem[k].node < p})
InMemory(k) == lo <= k /\ k < hi
At(k) == mem[k - lo + 1]

-----------------------------------------------------------------------------
(* ApproximateRNG takes the heads a search found, nearest first, and keeps *)
(* one unless it is nearer to a kept one than to the vector.               *)
Nearest(v, found) ==
  SetToSortSeq(found, LAMBDA p, q :
    \/ Distance(v, HeadOf(p)) < Distance(v, HeadOf(q))
    \/ Distance(v, HeadOf(p)) = Distance(v, HeadOf(q)) /\ p < q)
RngKeeps(v, kept, p) ==
  /\ Len(kept) < Replicas
  /\ \A j \in 1 .. Len(kept) : Distance(HeadOf(p), HeadOf(kept[j])) > Distance(v, HeadOf(p))
Chosen(v, found) ==
  FoldLeft(LAMBDA kept, p : IF RngKeeps(v, kept, p) THEN Append(kept, p) ELSE kept, <<>>, Nearest(v, found))

Start == batch * BatchSize
End == MinOf(Start + BatchSize, Count)
Except == IF Batches > 1 THEN {v - Start : v \in {h \in HeadIDs : Start <= h /\ h < End}} ELSE HeadIDs

RowsOf(id, v, kept) ==
  [k \in 1 .. Len(mem) |->
    LET j == k - id * Replicas
    IN  IF 1 <= j /\ j <= Len(kept)
        THEN [mem[k] EXCEPT !.node = kept[j], !.distance = Distance(v, HeadOf(kept[j]))]
        ELSE mem[k]]

(* Row id of a batch is for vector Start + id of the reader.               *)
VectorOf(id) == Start + id
Approximate ==
  /\ step = "search" /\ full < End - Start
  /\ IF full \in Except
     THEN mem' = mem
     ELSE \E found \in SUBSET Postings : mem' = RowsOf(full, VectorOf(full), Chosen(VectorOf(full), found))
  /\ full' = full + 1
  /\ UNCHANGED <<step, batch, file, lo, hi, copies, sizes>>

(* What both functions do between two steps of their own.                  *)
Prepared ==
  /\ step = "prepare" /\ step' = "batch"
  /\ IF Batches > 1 THEN SaveBatch(mem) ELSE UNCHANGED rows
  /\ UNCHANGED <<batch, full, copies, sizes>>

BatchStarted ==
  /\ step = "batch" /\ batch < Batches
  /\ IF Batches > 1
     THEN /\ LoadBatch(Start * Replicas, End * Replicas)
          /\ step' = IF LoadableFrom(file, Start * Replicas, End * Replicas) THEN "search" ELSE "failed"
     ELSE UNCHANGED rows /\ step' = "search"
  /\ full' = 0
  /\ UNCHANGED <<batch, copies, sizes>>

(* The rows of vector j, up to the first that ApproximateRNG left blank.   *)
Used(j) == {r \in 0 .. Replicas - 1 : \A s \in 0 .. r : At(j * Replicas + s).node # MaxSize}
ReplicasCounted ==
  LET kept == {j \in Start .. End - 1 : j \notin HeadIDs}
      used == {<<j, r>> \in kept \X (0 .. Replicas - 1) : r \in Used(j)}
      filled == [k \in 1 .. Len(mem) |->
                   LET at == lo + k - 1
                       j == at \div Replicas
                   IN  IF <<j, at % Replicas>> \in used THEN [mem[k] EXCEPT !.tonode = j] ELSE mem[k]]
  IN  /\ step = "search" /\ full = End - Start
      /\ copies' = [j \in Vids |-> IF j \in Start .. End - 1 THEN Cardinality({u \in used : u[1] = j}) ELSE copies[j]]
      /\ sizes' = [p \in Postings |-> sizes[p] + Cardinality({u \in used : At(u[1] * Replicas + u[2]).node = p})]
      /\ IF Batches > 1 THEN SaveBatch(filled) ELSE mem' = filled /\ UNCHANGED <<file, lo, hi>>
      /\ batch' = batch + 1 /\ step' = "batch" /\ UNCHANGED full

SelectionsSorted ==
  /\ step = "batch" /\ batch = Batches
  /\ mem' = SortSeq(IF Batches > 1 THEN SubSeq(file, 1, Count * Replicas) ELSE mem, EdgeLess)
  /\ lo' = 0 /\ hi' = Count * Replicas
  /\ step' = "cut"
  /\ UNCHANGED <<batch, full, file, copies, sizes>>

(* One iteration of the parallel loop over the postings.                   *)
DroppedLate(p) == {At(k).tonode : k \in LowerBound(p) + Limit + 1 .. LowerBound(p) + sizes[p] - 1}
Dropped(p) == {At(k).tonode : k \in LowerBound(p) + Limit .. LowerBound(p) + sizes[p] - 1}
PostingCut ==
  /\ step = "cut"
  /\ \E p \in Postings :
       /\ sizes[p] > Limit
       /\ copies' = [v \in Vids |-> IF v \in Dropped(p) THEN copies[v] - 1 ELSE copies[v]]
       /\ sizes' = [sizes EXCEPT ![p] = Limit]
  /\ UNCHANGED <<step, batch, full, file, mem, lo, hi>>

CutDone == step = "cut" /\ \A p \in Postings : sizes[p] <= Limit

(* The vectors of a posting as the functions that write it read them:      *)
(* sizes[p] rows from its lower bound on, which must name the posting.     *)
Matches(p) == \A k \in LowerBound(p) .. LowerBound(p) + sizes[p] - 1 : InMemory(k) /\ At(k).node = p
MembersOf(p) == [k \in 1 .. sizes[p] |-> At(LowerBound(p) + k - 1).tonode]
=============================================================================
