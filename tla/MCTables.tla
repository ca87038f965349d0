------------------------------ MODULE MCTables ------------------------------
(***************************************************************************)
(* Instances of the tables an index is kept in and of the arithmetic on    *)
(* them: the word of a head, rows in blocks, rows added by splits, the     *)
(* heaps of a search and the distance kernels.  In a behaviour one of the  *)
(* parts moves.                                                            *)
(***************************************************************************)
EXTENDS PostingWord, TLC

CONSTANTS None

VARIABLES
  part,  \* the part that moves
  rows, incRows, maxRows, data, incBlocks, file, begin,
  samples, label, size, labelsLock, graph, exited, astray, sp,
  keptWord, keptIndexed, keptLock, keptListed, keptQueued, keptTh, keptMg,
  results, dists, heap, offered, popped,
  cpu, fun, type, set, length, fill, pos, loop, rep, acc, out

Sym == Permutations(Threads)

(* The word of a head that its split can keep.                             *)
W == INSTANCE PostingWord WITH
  SameHead <- TRUE, word <- keptWord, indexed <- keptIndexed, lock <- keptLock,
  listed <- keptListed, queued <- keptQueued, th <- keptTh, mg <- keptMg
ASSUME W!PostingWordAssumption

(* Vectors: a batch brings its rows.                                       *)
D == INSTANCE Dataset WITH
  Values <- {"v", "w"}, Blank <- "blank", Unread <- "unread", BlockRows <- 2,
  MaxRows <- 3, WithData <- TRUE
ASSUME D!DatasetAssumption

(* Labels: a batch adds blank rows, written later.                         *)
B == INSTANCE Dataset WITH
  Values <- {"v"}, Blank <- "blank", Unread <- "unread", BlockRows <- 2,
  MaxRows <- 4, WithData <- FALSE
ASSUME B!DatasetAssumption

(* Four splits add the rows of their heads, one row to a block, where only *)
(* three have room.                                                        *)
L == INSTANCE LabelRows WITH
  Splits <- {"s1", "s2", "s3", "s4"}, Heads <- 2, BlockRows <- 1, Capacity <- 5,
  None <- None, lock <- labelsLock
ASSUME L!LabelRowsAssumption

(* The four best of seven points, and heaps of three.                      *)
H == INSTANCE Heaps WITH
  Points <- {[vid |-> v, dist |-> <<2, 1, 2, 4, 3, 1, 3>>[v]] : v \in 1 .. 6},
  K <- 4, Count <- 3, Length <- 3
ASSUME H!HeapsAssumption

(* Every kernel on vectors of every length around the sizes of its loops,  *)
(* on processors of every generation.                                      *)
Sse == {"SSE"}
Sse2 == Sse \cup {"SSE2"}
Avx == Sse2 \cup {"AVX"}
Avx2 == Avx \cup {"AVX2"}
Avx512 == Avx2 \cup {"AVX512F", "AVX512BW", "AVX512DQ"}
K == INSTANCE DistanceKernel WITH
  Bits <- 4, Lengths <- {0, 1, 3, 4, 5, 7, 9, 15, 17, 31, 35, 63, 67, 101,
  127}, Cpus <- {{}, Sse, Sse2, Avx, Avx2, Avx512}
ASSUME K!KernelAssumption

keptVars == <<keptWord, keptIndexed, keptLock, keptListed, keptQueued, keptTh, keptMg>>
datasetVars == <<rows, incRows, maxRows, data, incBlocks, file, begin>>
labelsVars == <<samples, label, size, labelsLock, graph, exited, astray, sp>>
heapsVars == <<results, dists, heap, offered, popped>>
kernelsVars == <<cpu, fun, type, set, length, fill, pos, loop, rep, acc, out>>
Parts == {"word", "kept", "dataset", "blanks", "labels", "heaps", "kernels"}
allVars == <<part, vars, keptVars, datasetVars, labelsVars, heapsVars, kernelsVars>>

(* The part that moves is chosen at the start; the others keep a first state. *)
FirstState ==
  /\ part \in Parts
  /\ Init /\ W!Init
  /\ IF part = "blanks" THEN B!Init ELSE D!Init
  /\ part \notin {"dataset", "blanks"} => rows = 0
  /\ L!Init
  /\ H!Init
  /\ K!Init
  /\ part # "kernels" => cpu = {} /\ fun = "L2" /\ type = "int8" /\ length = 0 /\ fill = "far"

WordMoves ==
  /\ part = "word" /\ Next
  /\ UNCHANGED <<part, keptVars, datasetVars, labelsVars, heapsVars, kernelsVars>>
KeptMoves ==
  /\ part = "kept" /\ W!Next
  /\ UNCHANGED <<part, vars, datasetVars, labelsVars, heapsVars, kernelsVars>>
DatasetMoves ==
  /\ part = "dataset" /\ D!Next
  /\ UNCHANGED <<part, vars, keptVars, labelsVars, heapsVars, kernelsVars>>
BlanksMoves ==
  /\ part = "blanks" /\ B!Next
  /\ UNCHANGED <<part, vars, keptVars, labelsVars, heapsVars, kernelsVars>>
LabelsMoves ==
  /\ part = "labels" /\ L!Next
  /\ UNCHANGED <<part, vars, keptVars, datasetVars, heapsVars, kernelsVars>>
HeapsMoves ==
  /\ part = "heaps" /\ H!Next
  /\ UNCHANGED <<part, vars, keptVars, datasetVars, labelsVars, kernelsVars>>
KernelsMoves ==
  /\ part = "kernels" /\ K!Next
  /\ UNCHANGED <<part, vars, keptVars, datasetVars, labelsVars, heapsVars>>

OneMoves == WordMoves \/ KeptMoves \/ DatasetMoves \/ BlanksMoves \/ LabelsMoves
  \/ HeapsMoves \/ KernelsMoves

Behaviour == FirstState /\ [][OneMoves]_allVars

(* A growing table keeps every row it counts, in the buffer or in a block, *)
(* and never moves its blocks under a reader.  A head found in the graph   *)
(* has its label, in a block; rows are added in another order than heads,  *)
(* and only a split that adds its row before that of an earlier head may   *)
(* write where no block is; once the splits are done each head has a row.  *)
RowsRight ==
  /\ part = "dataset" => D!TypeOK /\ D!RowsThere /\ D!NeverMoved
  /\ part = "blanks" => B!TypeOK /\ B!RowsThere /\ B!NeverMoved
  /\ part = "labels" =>
       L!TypeOK /\ L!LabelSet /\ L!StrayOvertakes /\ L!RowsBounded /\ L!RowsInTheEnd
  /\ part = "word" => TypeOK
  /\ part = "kept" => W!TypeOK /\ W!MergingOwned

(* The results are the best of the points added and in order, the bound is *)
(* the worst of the best, and the candidate taken is the nearest.  A       *)
(* kernel stays within the vectors, is compiled for the processor it is    *)
(* picked on and computes what the plain definition does.                  *)
KernelsRight ==
  /\ part = "heaps" =>
       H!TypeOK /\ H!KeepsBest /\ H!SortedBest /\ H!WorstOfCount
       /\ H!PopsNearest
  /\ part = "kernels" =>
       K!TypeOK /\ K!InBounds /\ K!Exact /\ K!Summed /\ K!Supported
=============================================================================
