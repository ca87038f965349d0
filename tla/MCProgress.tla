----------------------------- MODULE MCProgress -----------------------------
(***************************************************************************)
(* Instances in which every thread keeps running, and what must come to an *)
(* end does.  In a behaviour one of the parts moves.                       *)
(***************************************************************************)
EXTENDS Integers, TLC

CONSTANTS None, f1, w1, h0, n1, n2, n3, n4

VARIABLES
  part,  \* the part that moves
  posting, size, status, cache, index, version, pending, jobs, splitList,
  rwLock, addLock, pc, app, mov, spl,
  searchPosting, searchSize, searchCache, searchStatus, searchIndex, dead,
  listed, updates, moved, gone, s,
  mapping, list, buffer, free, disk, op,
  sub, unused, inFlight, submitted, device, completed, ssd, ioDisk, call,
  queue, added, finished, held, running, lock, waiting, abort, poolPc, owner

(* Three vectors, the third may be deleted; splits without the reassign     *)
(* scan, each of two new heads.                                            *)
U == INSTANCE PostingUpdate WITH
  None <- None, Vectors <- 1 .. 3, Deletable <- {}, InitHeads <- {h0},
  SpareHeads <- {n1, n2, n3, n4}, Feeders <- {f1}, Workers <- {w1}, Tombstone
  <- None, Limit <- 1, ReassignSlack <- 1, ReplicaCount <- 1, MaxVersion <- 2,
  MergeThreshold <- 2, BalancePercent <- 0, FilterAppend <- TRUE,
  EnableOptSplit <- FALSE, DisableReassign <- TRUE, SameHead <- FALSE,
  Identical <- FALSE
ASSUME U!UpdateAssumption

(* A search of three postings beside an update.                            *)
S == INSTANCE PostingSearch WITH
  Heads <- {"h1", "h2", "h3"}, Vectors <- 1 .. 4, Posted <-
  ("h1" :> {1}) @@ ("h2" :> {1, 2}) @@ ("h3" :> {3}), Dist <- (1 :> 1) @@ (2
  :> 0) @@ (3 :> 1) @@ (4 :> 0), TopK <- 2, Threshold <- 1, Disk <- TRUE,
  ExcludeHead <- FALSE, MaxUpdates <- 1, posting <- searchPosting, size <-
  searchSize, cache <- searchCache, status <- searchStatus, index <-
  searchIndex
ASSUME S!SearchAssumption

(* Two threads at one key of the store.                                    *)
B == INSTANCE BlockStore WITH
  None <- None, Keys <- {"k"}, Threads <- {"t1", "t2"}, Records <- {"a"},
  Blocks <- {"b1", "b2", "b3"}, Lists <- {"l", "m"}, PageSize <- 2, BlockLimit
  <- 2, BufferSize <- 1, Inputs <- {<<"a">>}, Locking <- "all", Restarts <-
  FALSE
ASSUME B!StoreAssumption

(* A reader with one sub request for two blocks and then one.              *)
I == INSTANCE BlockIo WITH
  Readers <- {"r"}, Writers <- {}, Depth <- 1, Batch <- 1, Blocks <- {"b1",
  "b2"}, Requests <- {<<<<"b1", "b2">>>>, <<<<"b2">>>>}, Outputs <-
  {<<"b1">>}, NoMemory <- FALSE, TimeLimit <- TRUE, disk <- ioDisk
ASSUME I!IoAssumption

(* Two threads and three jobs, which may throw.                            *)
T == INSTANCE ThreadPool WITH
  None <- None, Workers <- {"w1", "w2"}, Jobs <- {"j1", "j2", "j3"}, MayThrow
  <- TRUE, pc <- poolPc
ASSUME T!PoolAssumption

updatesVars == <<posting, size, status, cache, index, version, pending, jobs, splitList,
  rwLock, addLock, pc, app, mov, spl>>
searchVars == <<searchPosting, searchSize, searchCache, searchStatus, searchIndex, dead,
  listed, updates, moved, gone, s>>
storeVars == <<mapping, list, buffer, free, disk, op>>
ioVars == <<sub, unused, inFlight, submitted, device, completed, ssd, ioDisk, call>>
poolVars == <<queue, added, finished, held, running, lock, waiting, abort, poolPc, owner>>
Parts == {"updates", "search", "store", "io", "pool"}
allVars == <<part, updatesVars, searchVars, storeVars, ioVars, poolVars>>

(* The part that moves is chosen at the start; the others keep a first state. *)
FirstState ==
  /\ part \in Parts
  /\ U!Init
  /\ part # "updates" => pending = {1, 2, 3}
  /\ S!Init
  /\ B!Init
  /\ part # "store" => buffer = B!Queue({"m"})
  /\ I!Init
  /\ T!Init

UpdatesMoves ==
  /\ part = "updates" /\ U!Next
  /\ UNCHANGED <<part, searchVars, storeVars, ioVars, poolVars>>
SearchMoves ==
  /\ part = "search" /\ S!Next
  /\ UNCHANGED <<part, updatesVars, storeVars, ioVars, poolVars>>
StoreMoves ==
  /\ part = "store" /\ B!Next
  /\ UNCHANGED <<part, updatesVars, searchVars, ioVars, poolVars>>
IoMoves ==
  /\ part = "io" /\ I!Next
  /\ UNCHANGED <<part, updatesVars, searchVars, storeVars, poolVars>>
PoolMoves ==
  /\ part = "pool" /\ T!Next
  /\ UNCHANGED <<part, updatesVars, searchVars, storeVars, ioVars>>

OneMoves == UpdatesMoves \/ SearchMoves \/ StoreMoves \/ IoMoves \/ PoolMoves

Behaviour == FirstState /\ [][OneMoves]_allVars
FairBehaviour ==
  /\ Behaviour
  /\ \A t \in {f1, w1} : WF_updatesVars(part = "updates" /\ U!Step(t))
  /\ WF_searchVars(part = "search" /\ S!Search)
  /\ \A t \in {"t1", "t2"} : WF_storeVars(part = "store" /\ B!Step(t))
  /\ WF_ioVars(part = "io" /\ (I!LoopSubmit \/ I!LoopEnds)) /\ WF_ioVars(part = "io" /\ I!Move("r"))
  /\ SF_ioVars(part = "io" /\ I!Callback(<<"r", 1>>))
  /\ \A w \in {"w1", "w2"} : WF_poolVars(part = "pool" /\ T!Work(w))
  /\ WF_poolVars(part = "pool" /\ (T!OwnerNotify \/ T!NotifyAll \/ T!Join))

(* The jobs that appends and splits queue for one another come to an end,  *)
(* and leave no posting marked as splitting.                               *)
SplitsEnd == <>[](U!Quiet /\ \A h \in U!Heads : status[h] # "splitting")

(* A search, an operation of the store, a call of the I/O below it and a   *)
(* job of the pool, also beside one that throws, come to their end; for the *)
(* threads and jobs that are alike one stands.                             *)
CallsEnd ==
  /\ S!SearchEnds /\ I!CallEnds
  /\ ~B!At("t1", "idle") ~> B!At("t1", "idle")
  /\ "j1" \in added ~> "j1" \in finished \/ abort
=============================================================================
