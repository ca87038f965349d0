------------------------------ MODULE MCUpdate ------------------------------
(***************************************************************************)
(* Instances of the updates of postings: two workers on plain splits, the  *)
(* flags of the shipped configurations, and deletions.  In a behaviour one *)
(* of the parts moves.                                                     *)
(***************************************************************************)
EXTENDS PostingUpdate, TLC

CONSTANTS x1, x2, u1, u2, u3

VARIABLES
  part,  \* the part that moves
  optPosting, optSize, optStatus, optCache, optIndex, optVersion, optPending,
  optJobs, optSplitList, optRwLock, optAddLock, optPc, optApp, optMov, optSpl,
  delPosting, delSize, delStatus, delCache, delIndex, delVersion, delPending,
  delJobs, delSplitList, delRwLock, delAddLock, delPc, delApp, delMov, delSpl

Sym == Permutations(Vectors) \cup Permutations(SpareHeads) \cup Permutations(Workers)
         \cup Permutations({u1, u2})

(* Optimised splits, coinciding centroids, identical points.               *)
O == INSTANCE PostingUpdate WITH
  Vectors <- Vectors, Deletable <- {}, InitHeads <- InitHeads, SpareHeads <-
  SpareHeads, Feeders <- Feeders, Workers <- {x1}, Tombstone <- Tombstone,
  Limit <- 1, ReassignSlack <- 1, ReplicaCount <- 1, MaxVersion <- 1,
  MergeThreshold <- 0, BalancePercent <- 40, FilterAppend <- TRUE,
  EnableOptSplit <- TRUE, DisableReassign <- FALSE, SameHead <- TRUE,
  Identical <- TRUE, None <- None, posting <- optPosting, size <- optSize,
  status <- optStatus, cache <- optCache, index <- optIndex, version <-
  optVersion, pending <- optPending, jobs <- optJobs, splitList <-
  optSplitList, rwLock <- optRwLock, addLock <- optAddLock, pc <- optPc, app
  <- optApp, mov <- optMov, spl <- optSpl
ASSUME O!UpdateAssumption

(* A vector may be deleted, appends are not filtered.                    *)
D == INSTANCE PostingUpdate WITH
  Vectors <- {u1, u2, u3}, Deletable <- {u3}, InitHeads <- InitHeads,
  SpareHeads <- SpareHeads, Feeders <- {x2}, Workers <- {x1}, Tombstone <-
  Tombstone, Limit <- 1, ReassignSlack <- 1, ReplicaCount <- 1, MaxVersion <-
  1, MergeThreshold <- 2, BalancePercent <- 0, FilterAppend <- FALSE,
  EnableOptSplit <- FALSE, DisableReassign <- FALSE, SameHead <- FALSE,
  Identical <- FALSE, None <- None, posting <- delPosting, size <- delSize,
  status <- delStatus, cache <- delCache, index <- delIndex, version <-
  delVersion, pending <- delPending, jobs <- delJobs, splitList <-
  delSplitList, rwLock <- delRwLock, addLock <- delAddLock, pc <- delPc, app
  <- delApp, mov <- delMov, spl <- delSpl
ASSUME D!UpdateAssumption

shippedVars == <<optPosting, optSize, optStatus, optCache, optIndex, optVersion, optPending,
  optJobs, optSplitList, optRwLock, optAddLock, optPc, optApp, optMov, optSpl>>
deletesVars == <<delPosting, delSize, delStatus, delCache, delIndex, delVersion, delPending,
  delJobs, delSplitList, delRwLock, delAddLock, delPc, delApp, delMov, delSpl>>
Parts == {"updates", "shipped", "deletes"}
allVars == <<part, vars, shippedVars, deletesVars>>

(* The part that moves is chosen at the start; the others keep a first state. *)
FirstState ==
  /\ part \in Parts
  /\ Init
  /\ part # "updates" => pending = Vectors
  /\ O!Init
  /\ part # "shipped" => optPending = Vectors
  /\ D!Init
  /\ part # "deletes" => delPending = {u1, u2, u3}

UpdatesMoves ==
  /\ part = "updates" /\ Next
  /\ UNCHANGED <<part, shippedVars, deletesVars>>
ShippedMoves ==
  /\ part = "shipped" /\ O!Next
  /\ UNCHANGED <<part, vars, deletesVars>>
DeletesMoves ==
  /\ part = "deletes" /\ D!Next
  /\ UNCHANGED <<part, vars, shippedVars>>

OneMoves == UpdatesMoves \/ ShippedMoves \/ DeletesMoves

Behaviour == FirstState /\ [][OneMoves]_allVars

(* With the flags of the shipped configurations no copy runs ahead of its  *)
(* vector, and a head that a search offers is not deleted.  With deletions  *)
(* the live copy of a vector that is not deleted is never dropped where one *)
(* worker and one replica leave the filter of the cache nothing to mistake. *)
(* From the read of a posting to its end a split works on what is posted.   *)
VariantsRight ==
  /\ part = "updates" => TypeOK /\ SplitSnapshot
  /\ part = "shipped" => O!DeletedNotSearchable /\ O!NoFutureCopy
  /\ part = "deletes" => D!Kept
=============================================================================
