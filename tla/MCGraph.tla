------------------------------ MODULE MCGraph ------------------------------
(***************************************************************************)
(* Instances of the head index: searches over the trees and the            *)
(* neighbourhood graph, rows added by threads, the graph built, and the    *)
(* forest of kd-trees.  In a behaviour one of the parts moves.             *)
(***************************************************************************)
EXTENDS Integers, Sequences, FiniteSets, TLC

VARIABLES
  part,  \* the part that moves
  index, deleted, query, space, swap, rebuilds,
  batches, values, graph, roots, todo, job, owner, upRebuilds,
  phase, tree, indices, ranges, leaves, buildGraph, dists, size, left, round,
  indegree, compact,
  rows, linked, kdDeleted, forest, kdJob, queued, saved, kdQuery, kdSpace

(* Six rows, three of them equal: the tree a build with clusters of two and *)
(* leaves of one gives.                                                     *)
N(c, s, e) == [centerid |-> c, childStart |-> s, childEnd |-> e]
Folded == [values |-> <<1, 4, 4, 4, 9, 7>>,
           nodes |-> <<N(6, 1, 4), N(0, -1, -1), N(1, -5, 7), N(4, 4, 5), N(5, -1, -1),
                       N(2, -1, -1), N(3, -1, -1), N(-1, -1, -1)>>,
           starts |-> <<0>>,
           links |-> <<<<1, -1, -1>>, <<0, 5, -4>>, <<1, -1, -1>>, <<1, -1, -1>>,
                       <<5, -1, -1>>, <<4, 1, -1>>>>]
S == INSTANCE GraphSearch WITH
  Targets <- {0, 5}, ResultNum <- 3, MaxCheck <- 100, Bounded <- 20,
  InitialPivots <- 1, OtherPivots <- 1, Bfs <- FALSE, BfsNodes <- 2,
  MaxDeletes <- 2, MaxRebuilds <- 0, Indexes <- {Folded}, NewTrees <- {}
ASSUME S!GraphSearchAssumption

(* The same and a chain of seven, with every limit met.                    *)
Seven == [values |-> <<1, 4, 6, 9, 10, 12, 15>>,
          nodes |-> <<N(7, 1, 3), N(2, 5, 7), N(5, 3, 5), N(3, 7, 8), N(6, -1, -1), N(0, -1, -1),
                      N(1, -1, -1), N(4, -1, -1), N(-1, -1, -1)>>,
          starts |-> <<0>>,
          links |-> <<<<1, -1>>, <<2, 0>>, <<1, 3>>, <<4, 2>>, <<3, 5>>, <<4, 6>>, <<5, -1>>>>]
B == INSTANCE GraphSearch WITH
  Targets <- {3, 11}, ResultNum <- 3, MaxCheck <- 2, Bounded <- 3,
  InitialPivots <- 1, OtherPivots <- 1, Bfs <- FALSE, BfsNodes <- 2,
  MaxDeletes <- 1, MaxRebuilds <- 0, Indexes <- {Seven, Folded}, NewTrees <- {}
ASSUME B!GraphSearchAssumption

(* Five rows in one tree or two, rebuilt during the searches: two graphs   *)
(* that only the trees connect.                                            *)
OneTree == [values |-> <<1, 4, 6, 10, 12>>,
            nodes |-> <<N(5, 1, 3), N(1, 4, 6), N(4, 3, 4), N(3, -1, -1), N(0, -1, -1), N(2, -1, -1),
                        N(-1, -1, -1)>>,
            starts |-> <<0>>,
            links |-> <<<<1>>, <<2>>, <<1>>, <<4>>, <<3>>>>]
TwoTrees == [OneTree EXCEPT
               !.nodes = <<N(5, 1, 3), N(2, 4, 6), N(3, 3, 4), N(4, -1, -1), N(0, -1, -1), N(1, -1, -1),
                           N(-1, -1, -1), N(5, 8, 10), N(0, -1, -1), N(3, 10, 13), N(1, -1, -1),
                           N(2, -1, -1), N(4, -1, -1), N(-1, -1, -1)>>,
               !.starts = <<0, 7>>]
OtherTree == [OneTree EXCEPT
                !.nodes = <<N(5, 1, 3), N(3, 5, 6), N(1, 3, 5), N(0, -1, -1), N(2, -1, -1),
                            N(4, -1, -1), N(-1, -1, -1)>>]
OtherTwo == [TwoTrees EXCEPT
               !.nodes = <<N(5, 1, 3), N(4, -1, -1), N(1, 3, 6), N(0, -1, -1), N(2, -1, -1), N(3, -1, -1),
                           N(-1, -1, -1), N(5, 8, 10), N(3, 12, 13), N(1, 10, 12), N(0, -1, -1),
                           N(2, -1, -1), N(4, -1, -1), N(-1, -1, -1)>>]
R == INSTANCE GraphSearch WITH
  Targets <- {3, 11}, ResultNum <- 2, MaxCheck <- 100, Bounded <- 20,
  InitialPivots <- 1, OtherPivots <- 1, Bfs <- TRUE, BfsNodes <- 2, MaxDeletes
  <- 1, MaxRebuilds <- 1, Indexes <- {OneTree, TwoTrees}, NewTrees <-
  {OtherTree, OtherTwo}
ASSUME R!GraphSearchAssumption

(* Indexes with folded rows, rebuilt: the six, whose equal rows come to     *)
(* stand at another node; and four of which the last was added to the      *)
(* graph alone and is folded by the rebuild, where the link of the others  *)
(* then points.                                                            *)
Turned == [Folded EXCEPT
             !.nodes = <<N(6, 1, 4), N(4, 6, 7), N(0, -1, -1), N(1, -4, 6), N(2, -1, -1),
                         N(3, -1, -1), N(5, -1, -1), N(-1, -1, -1)>>]
Shifted == [Folded EXCEPT
              !.nodes = <<N(6, 1, 4), N(1, -5, 7), N(4, 4, 5), N(0, -1, -1), N(5, -1, -1),
                          N(2, -1, -1), N(3, -1, -1), N(-1, -1, -1)>>]
Grown == [values |-> <<9, 9, 4, 4>>,
          nodes |-> <<N(3, 1, 3), N(0, -3, 4), N(2, -1, -1), N(1, -1, -1), N(-1, -1, -1)>>,
          starts |-> <<0>>,
          links |-> <<<<2, -3>>, <<0, -1>>, <<3, -1>>, <<2, -1>>>>]
Regrown == [Grown EXCEPT
              !.nodes = <<N(4, 1, 3), N(2, -4, 5), N(0, -3, 4), N(1, -1, -1), N(3, -1, -1),
                          N(-1, -1, -1)>>]
Same == [Grown EXCEPT
           !.nodes = <<N(4, 1, 3), N(0, -4, 5), N(2, -3, 4), N(3, -1, -1), N(1, -1, -1), N(-1, -1, -1)>>]
V == INSTANCE GraphSearch WITH
  Targets <- {5}, ResultNum <- 3, MaxCheck <- 100, Bounded <- 20,
  InitialPivots <- 2, OtherPivots <- 1, Bfs <- FALSE, BfsNodes <- 2,
  MaxDeletes <- 1, MaxRebuilds <- 1, Indexes <- {Folded, Grown},
  NewTrees <- {Turned, Shifted, Regrown, Same}
ASSUME V!GraphSearchAssumption

(* Four rows in a chain, one with rows folded under it; two threads add a  *)
(* row each.                                                               *)
Chain == <<<<1, -1, -1>>, <<0, 2, -5>>, <<1, 3, -1>>, <<2, -1, -1>>>>
OneEach == {"a" :> <<x>> @@ "b" :> <<y>> : x \in {2, 7, 25}, y \in {2, 6, 23}}
U == INSTANCE GraphUpdate WITH
  Values <- <<0, 4, 9, 20>>, Graph <- Chain, Roots <- {0}, NeighborhoodSize <-
  3, AddCEF <- 2, Capacity <- 7, Locks <- 3, MaxRebuilds <- 0, AllBatches <-
  OneEach, rebuilds <- upRebuilds
ASSUME U!GraphUpdateAssumption

(* One thread adds three rows; cells enough for every row.                 *)
WideChain == [i \in 1 .. 4 |-> LET g == Chain[i] IN <<g[1], g[2], -1, -1, g[3]>>]
Places == {2, 6, 7, 23, 25}
Three == {"a" :> <<x, y, z>> : x \in Places, y \in Places, z \in {4, 6, 22}}
O == INSTANCE GraphUpdate WITH
  rebuilds <- upRebuilds, Values <- <<0, 4, 9, 20>>, Graph <- WideChain, Roots
  <- {0}, NeighborhoodSize <- 5, AddCEF <- 6, Capacity <- 7, Locks <- 3,
  MaxRebuilds <- 0, AllBatches <- Three
ASSUME O!GraphUpdateAssumption

(* One thread, and the trees are rebuilt meanwhile.                        *)
Rounds == {"a" :> <<2, 7, 25>>, "a" :> <<7, 6, 2>>, "a" :> <<2, 2, 23, 24>>}
T == INSTANCE GraphUpdate WITH
  rebuilds <- upRebuilds, Values <- <<0, 4, 9, 20>>, Graph <- Chain, Roots <-
  {0}, NeighborhoodSize <- 3, AddCEF <- 2, Capacity <- 7, Locks <- 3,
  MaxRebuilds <- 1, AllBatches <- Rounds
ASSUME T!GraphUpdateAssumption

(* Five rows on a line, two of them equal and folded.                      *)
G == INSTANCE GraphBuild WITH
  NeighborhoodSize <- 3, Scale <- 2, Rebuilding <- FALSE, TPTNumber <- 2,
  TPTLeafSize <- 2, RefineIter <- 1, CEF <- 4, SmallGraph <- 0, Values <- <<2,
  5, 5, 9, 0>>, IdMap <- 2 :> 1, LinkNode <- 1 :> 4, Pivots <- {0, 1, 3, 4},
  DeletedSets <- {{}}, graph <- buildGraph
ASSUME G!GraphBuildAssumption

(* A graph rebuilt with degrees balanced, and refined after deletions.     *)
NoMap == [r \in {} |-> 0]
D == INSTANCE GraphBuild WITH
  graph <- buildGraph, NeighborhoodSize <- 2, Scale <- 2, Rebuilding <- TRUE,
  TPTNumber <- 1, TPTLeafSize <- 1, RefineIter <- 1, CEF <- 4, SmallGraph <-
  0, Values <- <<2, 5, 7, 9, 0>>, IdMap <- NoMap, LinkNode <- NoMap, Pivots <-
  {0, 1, 2, 3, 4}, DeletedSets <- {{}, {1, 4}, {0, 1, 2}}
ASSUME D!GraphBuildAssumption

(* Four rows and a fifth added; two are equal, three have the same second  *)
(* co-ordinate.  Co-ordinates are multiples of twelve, so that the mean of *)
(* up to four is whole.                                                    *)
Points == << <<0, 12>>, <<24, 12>>, <<24, 12>>, <<48, 0>>, <<36, 12>> >>
Ring(n) == [r \in 1 .. n |-> <<r % n, (r + n - 2) % n>>]
Rings == [n \in 1 .. 5 |-> Ring(n)]
K == INSTANCE KdForest WITH
  Links <- Rings, Trees <- 2, Samples <- 3, Shuffles <- {<<1, 2, 3, 4, 5>>,
  <<4, 2, 5, 3, 1>>}, AddCount <- 1, ResultNum <- 2, MaxCheck <- 100, NoBetter
  <- 100, InitialPivots <- 1, OtherPivots <- 1, MaxDeletes <- 1, MaxQueries <-
  0, MaxSaves <- 1, Points <- Points, First <- 4, Top <- 1, Targets <- {<<24,
  12>>}, deleted <- kdDeleted, job <- kdJob, query <- kdQuery, space <-
  kdSpace
ASSUME K!KdForestAssumption

(* The same, searched and deleted from.                                    *)
Q == INSTANCE KdForest WITH
  deleted <- kdDeleted, job <- kdJob, query <- kdQuery, space <- kdSpace,
  Links <- Rings, Trees <- 1, Samples <- 3, Shuffles <- {<<4, 2, 5, 3, 1>>},
  AddCount <- 1, ResultNum <- 2, MaxCheck <- 100, NoBetter <- 100,
  InitialPivots <- 1, OtherPivots <- 1, MaxDeletes <- 1, MaxQueries <- 1,
  MaxSaves <- 0, Points <- Points, First <- 4, Top <- 1, Targets <- {<<24,
  12>>, <<40, 5>>}
ASSUME Q!KdForestAssumption

(* Searches that meet their limits.                                        *)
L == INSTANCE KdForest WITH
  deleted <- kdDeleted, job <- kdJob, query <- kdQuery, space <- kdSpace,
  Links <- Rings, Trees <- 1, Samples <- 1, Shuffles <- {<<4, 2, 5, 3, 1>>},
  AddCount <- 1, ResultNum <- 2, MaxCheck <- 2, NoBetter <- 0, InitialPivots
  <- 1, OtherPivots <- 1, MaxDeletes <- 0, MaxQueries <- 1, MaxSaves <- 0,
  Points <- Points, First <- 4, Top <- 2, Targets <- {<<60, 0>>}
ASSUME L!KdForestAssumption

foldedVars == <<index, deleted, query, space, swap, rebuilds>>
linkedVars == <<batches, values, graph, roots, todo, job, owner, upRebuilds>>
builtVars == <<phase, tree, indices, ranges, leaves, buildGraph, dists, size, left, round,
  indegree, compact>>
kdVars == <<rows, linked, kdDeleted, forest, kdJob, queued, saved, kdQuery, kdSpace>>
Parts == {"folded", "limited", "rebuilt", "stale", "linked", "batch", "retreed", "built",
  "degrees", "kd", "kdSearched", "kdLimited"}
allVars == <<part, foldedVars, linkedVars, builtVars, kdVars>>

(* The part that moves is chosen at the start; the others keep a first state. *)
FirstState ==
  /\ part \in Parts
  /\ \/ part \notin {"limited", "rebuilt", "stale"} /\ S!Init
     \/ part = "limited" /\ B!Init
     \/ part = "rebuilt" /\ R!Init
     \/ part = "stale" /\ V!Init
  /\ \/ part \notin {"batch", "retreed"} /\ U!Init
     \/ part = "batch" /\ O!Init
     \/ part = "retreed" /\ T!Init
  /\ part \notin {"linked", "batch", "retreed"} => batches = CHOOSE b \in OneEach : TRUE
  /\ IF part = "degrees" THEN D!Init ELSE G!Init
  /\ \/ part \notin {"kdSearched", "kdLimited"} /\ K!Init
     \/ part = "kdSearched" /\ Q!Init
     \/ part = "kdLimited" /\ L!Init

FoldedMoves ==
  /\ part = "folded" /\ S!Next
  /\ UNCHANGED <<part, linkedVars, builtVars, kdVars>>
LimitedMoves ==
  /\ part = "limited" /\ B!Next
  /\ UNCHANGED <<part, linkedVars, builtVars, kdVars>>
RebuiltMoves ==
  /\ part = "rebuilt" /\ R!Next
  /\ UNCHANGED <<part, linkedVars, builtVars, kdVars>>
StaleMoves ==
  /\ part = "stale" /\ V!Next
  /\ UNCHANGED <<part, linkedVars, builtVars, kdVars>>
LinkedMoves ==
  /\ part = "linked" /\ U!Next
  /\ UNCHANGED <<part, foldedVars, builtVars, kdVars>>
BatchMoves ==
  /\ part = "batch" /\ O!Next
  /\ UNCHANGED <<part, foldedVars, builtVars, kdVars>>
RetreedMoves ==
  /\ part = "retreed" /\ T!Next
  /\ UNCHANGED <<part, foldedVars, builtVars, kdVars>>
BuiltMoves ==
  /\ part = "built" /\ G!Next
  /\ UNCHANGED <<part, foldedVars, linkedVars, kdVars>>
DegreesMoves ==
  /\ part = "degrees" /\ D!Next
  /\ UNCHANGED <<part, foldedVars, linkedVars, kdVars>>
KdMoves ==
  /\ part = "kd" /\ K!Next
  /\ UNCHANGED <<part, foldedVars, linkedVars, builtVars>>
KdSearchedMoves ==
  /\ part = "kdSearched" /\ Q!Next
  /\ UNCHANGED <<part, foldedVars, linkedVars, builtVars>>
KdLimitedMoves ==
  /\ part = "kdLimited" /\ L!Next
  /\ UNCHANGED <<part, foldedVars, linkedVars, builtVars>>

OneMoves == FoldedMoves \/ LimitedMoves \/ RebuiltMoves \/ StaleMoves \/ LinkedMoves
  \/ BatchMoves \/ RetreedMoves \/ BuiltMoves \/ DegreesMoves
  \/ KdMoves \/ KdSearchedMoves \/ KdLimitedMoves

Behaviour == FirstState /\ [][OneMoves]_allVars
FairBehaviour ==
  /\ Behaviour
  /\ \A t \in {"a", "b"} :
       /\ WF_linkedVars(part = "linked" /\ U!Step(t))
       /\ SF_linkedVars(part = "linked" /\ U!LockRow(t))

(* A search over trees and graph reports no deleted row and, until a       *)
(* rebuild leaves stale links to folded rows, each row once and exactly    *)
(* the nearest when no limit is met; it loses none it has seen.            *)
(* Every tree of a forest of kd-trees holds every row once, in a cell      *)
(* around it, and a search finds also the rows the trees do not hold yet.  *)
SearchesRight ==
  /\ part = "folded" => S!NoneTwice /\ S!DeletedNotFound /\ S!Exact
  /\ part = "limited" => B!TypeOK /\ B!NoneTwice /\ B!SeenKept
  /\ part = "rebuilt" =>
       /\ R!NoneTwice /\ R!DeletedNotFound /\ R!ExactAlways /\ R!PivotsRight
       /\ R!ReadsInside \/ ~query.sound
  /\ part = "stale" => V!NoneTwice /\ V!DeletedNotFound /\ V!Exact /\ V!PivotsRight
  /\ part = "kd" => K!TypeOK /\ K!EachRowOnce /\ K!OwnCell
  /\ part = "kdSearched" => Q!DeletedNotFound /\ Q!Exact /\ Q!EqualsGone
  /\ part = "kdLimited" => L!EachRowOnce /\ L!SeenKept

(* The built graph names rows, the nearest first, links of folded rows     *)
(* among them; after a refinement it names the places rows were moved to.  *)
(* A row that is added stays linked both ways and reached, whatever other  *)
(* threads do to the cells of the rows around it.                          *)
LinksRight ==
  /\ part = "built" =>
       G!TypeOK /\ G!RangesMeet /\ G!NearestFirst /\ G!Built
       /\ G!Accurate
  /\ part = "degrees" => D!DegreesRight /\ D!RenumberedRight
  /\ part = "linked" =>
       U!WellFormed /\ U!NoneOverwritten /\ U!LinkStays /\ U!StillReached
  /\ part = "batch" => O!WellFormed /\ O!LinkStays /\ O!AllReached
  /\ part = "retreed" => T!TypeOK /\ T!LinkStays /\ T!StillReached

(* Threads that add rows end: no two wait for each other's row lock.        *)
AddingEnds == part = "linked" => U!EndsWell
=============================================================================
