------------------------------ MODULE MCStatic ------------------------------
(***************************************************************************)
(* Instances of the build of an index and of the reads of a static one:    *)
(* the selection of the heads, their trees, the selection of replicas with *)
(* the files or the store they are written to, the layout of a file and    *)
(* the asynchronous reads of a search.  In a behaviour one part moves.     *)
(***************************************************************************)
EXTENDS Integers, Sequences, FiniteSets, TLC

VARIABLES
  part,  \* the part that moves
  step, batch, full, file, mem, lo, hi, copies, sizes, bounds, written, infos,
  opened,
  dynStep, dynBatch, dynFull, dynFile, dynMem, dynLo, dynHi, dynCopies,
  dynSizes, versions, labels, db, recorded, sent, index, saved,
  layoutSizes, bytes, layoutStep, rest, page, offset, order, curr, head, data,
  next, at, layoutInfos,
  spaceCount, space, wave, left, pc, asked, buffers, submitted, done, events,
  total, failed, queued, calls, bad, result, deduper, flying, ready,
  waveSpaceCount, waveSpace, waveWave, waveLeft, wavePc, waveAsked,
  waveBuffers, waveSubmitted, waveDone, waveEvents, waveTotal, waveFailed,
  waveQueued, waveCalls, waveBad, waveResult, waveDeduper, waveFlying,
  waveReady,
  roots, starts, stack, indices, sampleMap, km,
  opts, parent, folded, headPc, try, best, selected

(* Seven vectors on a line, three of them heads, in three batches to two   *)
(* files.                                                                  *)
Line == [v \in 0 .. 6 |-> <<4, 0, 2, 3, 7, 8, 5>>[v + 1]]
B == INSTANCE StaticBuild WITH
  Count <- 7, HeadVector <- <<5, 1, 3>>, Place <- Line, Replicas <- 2, Batches
  <- 3, Limit <- 2, Files <- 2, Delta <- TRUE, Rearrange <- TRUE
ASSUME B!StaticBuildAssumption

(* Six vectors, written to the store by two threads.                       *)
Short == [v \in 0 .. 5 |-> Line[v]]
D == INSTANCE DynamicBuild WITH
  Count <- 6, HeadVector <- <<5, 1, 3>>, Place <- Short, Replicas <- 2,
  Batches <- 1, Limit <- 2, Threads <- {"t1", "t2"}, step <- dynStep, batch <-
  dynBatch, full <- dynFull, file <- dynFile, mem <- dynMem, lo <- dynLo, hi
  <- dynHi, copies <- dynCopies, sizes <- dynSizes
ASSUME D!DynamicBuildAssumption

(* Three postings of up to five vectors, three to a page and a third over.  *)
L == INSTANCE StaticLayout WITH
  Count <- 3, MaxSize <- 5, PageSize <- 4, InfoSize <- 3, PageLimit <- 3,
  Compress <- FALSE, sizes <- layoutSizes, step <- layoutStep, infos <-
  layoutInfos
ASSUME L!StaticLayoutAssumption

(* Two threads, two postings in two files, with a vector in common.        *)
R == INSTANCE BatchRead WITH
  Threads <- {"t1", "t2"}, Members <- <<<<1, 2>>, <<2, 3>>>>, FileCount <- 2,
  Contexts <- 2, Capacity <- 1, MaxAsked <- 2, Waves <- 1, Searches <- 1,
  Failures <- 0
ASSUME R!BatchReadAssumption

(* A thread searches twice, and another comes after it; a wait may fail.   *)
W == INSTANCE BatchRead WITH
  Threads <- {"t1"}, Members <- <<<<1, 2>>, <<2, 3>>, <<4>>>>, FileCount <- 2,
  Contexts <- 2, Capacity <- 1, MaxAsked <- 2, Waves <- 2, Searches <- 2,
  Failures <- 1, total <- waveTotal, failed <- waveFailed,
  spaceCount <- waveSpaceCount, space <- waveSpace, wave <- waveWave, left <-
  waveLeft, pc <- wavePc, asked <- waveAsked, buffers <- waveBuffers,
  submitted <- waveSubmitted, done <- waveDone, events <- waveEvents, queued
  <- waveQueued, calls <- waveCalls, bad <- waveBad, result <- waveResult,
  deduper <- waveDeduper, flying <- waveFlying, ready <- waveReady
ASSUME W!BatchReadAssumption

(* A tree of three children a node over four rows on a line, two equal.    *)
T == INSTANCE BalancedTree WITH
  Values <- <<0, 2, 2, 3, 7>>, Rows <- <<0, 1, 2, 4>>, TreeNumber <- 1,
  KmeansK <- 3, LeafSize <- 1, Threads <- 2, DynamicK <- FALSE
ASSUME T!BalancedTreeAssumption

(* Two trees over four of the rows.                                        *)
F == INSTANCE BalancedTree WITH
  Values <- <<0, 2, 2, 3, 7>>, Rows <- <<0, 4, 1, 2>>, TreeNumber <- 2,
  KmeansK <- 2, LeafSize <- 2, Threads <- 2, DynamicK <- TRUE
ASSUME F!BalancedTreeAssumption

(* Five vectors, trees of every shape, folded or not, thresholds given and *)
(* left to the adjustment.                                                 *)
Asked == {[ratio |-> <<1, 3>>, count |-> c] : c \in {0, 3, 5}} \cup {[ratio |-> <<1, 20>>, count |-> 0]}
Options ==
  {[ratio |-> a.ratio, headVectorCount |-> a.count, kmeansK |-> 4, selectThreshold |-> select,
    splitThreshold |-> split, splitFactor |-> factor, selectType |-> type] :
     a \in Asked, select \in {0, 4}, split \in {0, 6}, factor \in {0, 2}, type \in {"BKT", "Random"}}
H == INSTANCE HeadSelection WITH
  Count <- 5, Options <- Options, LeafSize <- 1, pc <- headPc
ASSUME H!HeadSelectionAssumption

buildVars == <<step, batch, full, file, mem, lo, hi, copies, sizes, bounds, written, infos,
  opened>>
dynamicVars == <<dynStep, dynBatch, dynFull, dynFile, dynMem, dynLo, dynHi, dynCopies,
  dynSizes, versions, labels, db, recorded, sent, index, saved>>
layoutVars == <<layoutSizes, bytes, layoutStep, rest, page, offset, order, curr, head, data,
  next, at, layoutInfos>>
readVars == <<spaceCount, space, wave, left, pc, asked, buffers, submitted, done, events,
  total, failed, queued, calls, bad, result, deduper, flying, ready>>
wavesVars == <<waveSpaceCount, waveSpace, waveWave, waveLeft, wavePc, waveAsked,
  waveBuffers, waveSubmitted, waveDone, waveEvents, waveTotal, waveFailed,
  waveQueued, waveCalls, waveBad, waveResult, waveDeduper, waveFlying,
  waveReady>>
treeVars == <<roots, starts, stack, indices, sampleMap, km>>
headsVars == <<opts, parent, folded, headPc, try, best, selected>>
Parts == {"build", "dynamic", "layout", "read", "waves", "tree", "forest", "heads"}
allVars == <<part, buildVars, dynamicVars, layoutVars, readVars, wavesVars, treeVars, headsVars>>

(* The part that moves is chosen at the start; the others keep a first state. *)
FirstState ==
  /\ part \in Parts
  /\ B!Init
  /\ D!Init
  /\ L!Init
  /\ part # "layout" => layoutSizes = [i \in 0 .. 2 |-> 0]
  /\ R!Init
  /\ W!Init
  /\ IF part = "forest" THEN F!Init ELSE T!Init
  /\ H!Init
  /\ part # "heads" => opts = CHOOSE o \in Options : TRUE

BuildMoves ==
  /\ part = "build" /\ B!Next
  /\ UNCHANGED <<part, dynamicVars, layoutVars, readVars, wavesVars, treeVars,
    headsVars>>
DynamicMoves ==
  /\ part = "dynamic" /\ D!Next
  /\ UNCHANGED <<part, buildVars, layoutVars, readVars, wavesVars, treeVars, headsVars>>
LayoutMoves ==
  /\ part = "layout" /\ L!Next
  /\ UNCHANGED <<part, buildVars, dynamicVars, readVars, wavesVars, treeVars, headsVars>>
ReadMoves ==
  /\ part = "read" /\ R!Next
  /\ UNCHANGED <<part, buildVars, dynamicVars, layoutVars, wavesVars, treeVars,
    headsVars>>
WavesMoves ==
  /\ part = "waves" /\ W!Next
  /\ UNCHANGED <<part, buildVars, dynamicVars, layoutVars, readVars, treeVars,
    headsVars>>
TreeMoves ==
  /\ part = "tree" /\ T!Next
  /\ UNCHANGED <<part, buildVars, dynamicVars, layoutVars, readVars, wavesVars,
    headsVars>>
ForestMoves ==
  /\ part = "forest" /\ F!Next
  /\ UNCHANGED <<part, buildVars, dynamicVars, layoutVars, readVars, wavesVars,
    headsVars>>
HeadsMoves ==
  /\ part = "heads" /\ H!Next
  /\ UNCHANGED <<part, buildVars, dynamicVars, layoutVars, readVars, wavesVars,
    treeVars>>

OneMoves == BuildMoves \/ DynamicMoves \/ LayoutMoves \/ ReadMoves
  \/ WavesMoves \/ TreeMoves \/ ForestMoves \/ HeadsMoves

Behaviour == FirstState /\ [][OneMoves]_allVars
FairBehaviour ==
  /\ Behaviour
  /\ WF_readVars(part = "read" /\ R!Complete)
  /\ \A t \in {"t1", "t2"} :
       /\ WF_readVars(part = "read" /\ R!Step(t))
       /\ SF_readVars(part = "read" /\ R!GetEvents(t) /\ ready' # ready)
  /\ WF_headsVars(part = "heads" /\ H!Next)

(* The heads are vectors, those of the best thresholds tried, and every    *)
(* vector has a head over it; every row is in a tree once, behind its      *)
(* centre, in groups that tell near from far.  A vector is in the postings *)
(* of its nearest heads, a posting has no more than its limit and keeps    *)
(* the nearest, and is where its record says, on few pages.  A thread      *)
(* reads through its own contexts, has each completion once and for its    *)
(* own search, and leaves nothing under way.                               *)
BuildRight ==
  /\ part = "heads" =>
       H!TypeOK /\ H!HeadsReal /\ H!BestOfAll /\ H!GroupsCover
       /\ H!Divisible
  /\ part = "tree" =>
       T!TypeOK /\ T!EachRowOnce /\ T!Shaped /\ T!CentreBehind
       /\ T!Grouped /\ T!MergedRight /\ T!SampleMapLeads
  /\ part = "forest" => F!EachRowOnce /\ F!Shaped /\ F!CentreBehind
  /\ part = "build" =>
       B!TypeOK /\ B!NeverFails /\ B!RowsRight /\ B!CopiesMatch
       /\ B!NearestKept /\ B!ReadsOwn
  /\ part = "dynamic" =>
       D!TypeOK /\ D!SavedFits /\ D!EachStored /\ D!DrawnOnce
  /\ part = "layout" =>
       L!TypeOK /\ L!NeverRefused /\ L!ReadsBack /\ L!FewPages
  /\ part = "read" =>
       R!TypeOK /\ R!OwnContext /\ R!CalledOnOwn /\ R!EachOnce
       /\ R!NothingLeft
  /\ part = "waves" =>
       W!TypeOK /\ W!OwnContext /\ W!CalledOnOwn /\ W!EachOnce
       /\ W!AtMostOnce /\ W!NothingLeft

(* A search comes to its end, no wait failing (the threads are alike), and *)
(* so does a selection of heads.                                           *)
BothEnd ==
  /\ part = "read" /\ pc["t1"] = "submit" ~> pc["t1"] = "idle"
  /\ part = "heads" => H!SelectEnds
=============================================================================
