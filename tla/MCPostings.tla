----------------------------- MODULE MCPostings -----------------------------
(***************************************************************************)
(* Instances of the merging of small postings and of a search among        *)
(* updates.  In a behaviour one of the parts moves.                        *)
(***************************************************************************)
EXTENDS PostingMerge, TLC

CONSTANTS h1, h2, h3, v1, v2, v3

VARIABLES
  part,  \* the part that moves
  searchPosting, searchSize, searchCache, searchStatus, searchIndex,
  searchDead, listed, updates, moved, gone, s,
  appPosting, appSize, appStatus, appCache, appIndex, appDead, appMergeList,
  appMergeLock, appLock, appJobs, appTh

OneEach == (h1 :> {v1}) @@ (h2 :> {v2}) @@ (h3 :> {v3})
Sym == Permutations(Workers)

(* Four vectors in three postings, one of them in two, and two updates.      *)
S == INSTANCE PostingSearch WITH
  Heads <- Heads, Vectors <- 1 .. 4, Posted <- (h1 :> {1}) @@ (h2 :> {1, 2})
  @@ (h3 :> {3}), Dist <- (1 :> 1) @@ (2 :> 0) @@ (3 :> 1) @@ (4 :> 0), TopK
  <- 2, Threshold <- 1, Disk <- TRUE, ExcludeHead <- FALSE, MaxUpdates <- 2,
  posting <- searchPosting, size <- searchSize, cache <-
  searchCache, status <- searchStatus, index <- searchIndex, dead <-
  searchDead
ASSUME S!SearchAssumption

(* Two postings, one of which an insert appends to.                          *)
A == INSTANCE PostingMerge WITH
  Heads <- {"h1", "h2"}, Vectors <- {"v1", "v2", "v3"}, Workers <- {"w1"},
  Searchers <- {"s1"}, Deletable <- {}, Appenders <- {"a1"}, Posted <- ("h1"
  :> {"v1"}) @@ ("h2" :> {"v2"}), Threshold <- 2, Limit <- 4, DisableReassign
  <- FALSE, MaxJobs <- 2, None <- None, posting <- appPosting, size <-
  appSize, status <- appStatus, cache <- appCache, index <- appIndex, dead <-
  appDead, mergeList <- appMergeList, mergeLock <- appMergeLock, lock <-
  appLock, jobs <- appJobs, th <- appTh
ASSUME A!MergeAssumption

searchVars == <<searchPosting, searchSize, searchCache, searchStatus, searchIndex,
  searchDead, listed, updates, moved, gone, s>>
appendsVars == <<appPosting, appSize, appStatus, appCache, appIndex, appDead, appMergeList,
  appMergeLock, appLock, appJobs, appTh>>
Parts == {"merges", "search", "appends"}
allVars == <<part, vars, searchVars, appendsVars>>

(* The part that moves is chosen at the start; the others keep a first state. *)
FirstState ==
  /\ part \in Parts
  /\ Init
  /\ S!Init
  /\ A!Init

MergesMoves ==
  /\ part = "merges" /\ Next
  /\ UNCHANGED <<part, searchVars, appendsVars>>
SearchMoves ==
  /\ part = "search" /\ S!Next
  /\ UNCHANGED <<part, vars, appendsVars>>
AppendsMoves ==
  /\ part = "appends" /\ A!Next
  /\ UNCHANGED <<part, vars, searchVars>>

OneMoves == MergesMoves \/ SearchMoves \/ AppendsMoves

Behaviour == FirstState /\ [][OneMoves]_allVars

(* What is stored of a vector that is not deleted is in a posting or cache  *)
(* that is searched, in the hands of a thread or in a job, also when an     *)
(* append meets a merge.                                                   *)
AppendsKept == part = "appends" => A!NothingLost

(* An append beside a merge costs at most the vector it brings: what was    *)
(* posted before stays within reach.  The variables keep their types.      *)
AppendsRight ==
  /\ TypeOK
  /\ part = "appends" => A!TypeOK /\ A!PostedKept

(* A search reports a vector once, none that was deleted before it began,  *)
(* and the best of those that stay in the postings it selected and read in *)
(* time, the nearest posting among them.                                   *)
SearchRight == part = "search" => S!TypeOK /\ S!NoneTwice /\ S!DeletedNotReported /\ S!PostedReported /\ S!NearestSearched
=============================================================================
