------------------------------ MODULE KdForest ------------------------------
(***************************************************************************)
(* The kd-tree index: a forest that divides the rows at the mean of one of *)
(* the widest dimensions, and a search that takes its pivots from the      *)
(* cells of the forest and walks the neighbourhood graph from them.  The   *)
(* trees of a forest are built by parallel threads in parts of one array   *)
(* of nodes; a background job builds another forest when enough rows were  *)
(* added and puts it in place while no query holds the trees' lock; a      *)
(* refined copy of the index is written with a forest of the live rows.    *)
(* Positions of the graph's cells are given: Links[n] are the cells of an  *)
(* index of n rows.                                                        *)
(***************************************************************************)
EXTENDS Integers, Sequences, FiniteSets, SequencesExt

CONSTANTS Points,      \* the vectors rows are added with, in order
          Links, First,    \* First rows are in the index when it is built
          Trees, Top, Samples,       \* m_iTreeNumber, m_numTopDimensionKDTSplit, m_iSamples
          Shuffles,    \* the orders std::shuffle leaves positions in
          AddCount,    \* m_addCountForRebuild
          Targets, ResultNum, MaxCheck, NoBetter, InitialPivots, OtherPivots,
          MaxDeletes, MaxQueries, MaxSaves

KdForestAssumption ==
  /\ {First, Trees, Top, ResultNum, InitialPivots, OtherPivots, AddCount} \subseteq Nat \ {0}
  /\ First <= Len(Points) /\ {Samples, MaxCheck, NoBetter} \subseteq Nat

VARIABLES rows, linked,    \* rows of the index, and how many of them are in the graph
          deleted, forest, \* the trees of the index
          job,             \* the forest being built
          queued,          \* a RebuildJob waits in the pool of one thread
          saved,           \* the forest written with a refined index
          query, space
vars == <<rows, linked, deleted, forest, job, queued, saved, query, space>>

Vec(row) == Points[row + 1]
Dims == 1 .. Len(Points[1])
Dist(v, w) == FoldLeft(LAMBDA a, d : a + (v[d] - w[d]) * (v[d] - w[d]), 0, [d \in Dims |-> d])

(***************************************************************************)
(* Building.  A job has the rows it divides in an order of its own for     *)
(* each tree; stack holds the ranges a tree has still to divide, the next  *)
(* first, each with the cell that will name its node.                      *)
(***************************************************************************)
Leaf(row) == -row - 1
Range0(n) == 0 .. n - 1
Blank == [left |-> 0, right |-> 0, dim |-> 1, value |-> 0]
Start(i, n) == (i - 1) * n
Job(purpose, indices) ==
  LET n == Len(indices) IN
  [purpose |-> purpose, size |-> n, indices |-> indices,
   order |-> [i \in 1 .. Trees |-> <<>>],
   stack |-> [i \in 1 .. Trees |-> <<[first |-> 0, last |-> n - 1, parent |-> -1, side |-> "left"]>>],
   used |-> [i \in 1 .. Trees |-> 0],
   nodes |-> [k \in Range0(Trees * n) |-> Blank]]
NoJob == [purpose |-> "none"]
Forest(nodes, n) == [nodes |-> nodes, size |-> n]

Shuffle(i) ==
  /\ job.purpose /= "none" /\ job.order[i] = <<>>
  /\ \E s \in Shuffles :
       job' = [job EXCEPT !.order[i] = [k \in Range0(job.size) |-> job.indices[SelectSeq(s, LAMBDA p : p <= job.size)[k + 1]]]]
  /\ UNCHANGED <<rows, linked, deleted, forest, queued, saved, query, space>>

\* ChooseDivision: the mean and the spread of the first Samples + 1 rows, and
\* any of the Top widest dimensions.
SumOver(order, first, last, F(_)) == FoldLeft(LAMBDA a, k : a + F(Vec(order[first + k - 1])), 0, [k \in 1 .. last - first + 1 |-> k])
SampleEnd(first, last) == IF first + Samples < last THEN first + Samples ELSE last
\* One row too few in the divisor.
MeanOfFewer(order, first, last, d) ==
  LET end == SampleEnd(first, last) IN
  SumOver(order, first, end, LAMBDA v : v[d]) \div (IF end = first THEN 1 ELSE end - first)
Mean(order, first, last, d) ==
  LET end == SampleEnd(first, last) IN SumOver(order, first, end, LAMBDA v : v[d]) \div (end - first + 1)
Variance(order, first, last, d) ==
  LET m == Mean(order, first, last, d) IN
  SumOver(order, first, SampleEnd(first, last), LAMBDA v : (v[d] - m) * (v[d] - m))
TopDims(order, first, last) ==
  LET wide == [d \in Dims |-> Variance(order, first, last, d)]
  IN {d \in Dims : Cardinality({e \in Dims : wide[e] > wide[d] \/ (wide[e] = wide[d] /\ e < d)}) < Top}

\* Subdivide: rows below the value come first; without such a border the
\* range is halved.
Swap(order, i, j) == [order EXCEPT ![i] = order[j], ![j] = order[i]]
RECURSIVE Parted(_, _, _, _, _)
Parted(order, d, value, i, j) ==
  IF i > j THEN <<order, i>>
  ELSE IF Vec(order[i])[d] < value THEN Parted(order, d, value, i + 1, j)
  ELSE Parted(Swap(order, i, j), d, value, i, j - 1)
Subdivide(order, d, value, first, last) ==
  LET p == Parted(order, d, value, first, last)
  IN IF p[2] \in {first, last + 1} THEN <<p[1], (first + last + 1) \div 2>> ELSE p

LeftIsLeaf(border, first) == border - 1 <= first
RightIsLeaf(border, last) == last = border
LeftLeaf(order, first, border) == Leaf(order[first])

\* DivideTree, one range: the node takes the next place of the tree's part,
\* and the left range is divided before the right one.
Divide(i) ==
  /\ job.purpose /= "none" /\ job.order[i] /= <<>> /\ job.stack[i] /= <<>>
  /\ LET item == Head(job.stack[i])
         first == item.first  last == item.last  order == job.order[i]
         id == Start(i, job.size) + job.used[i]
     IN \E d \in TopDims(order, first, last) :
          LET value == Mean(order, first, last, d)
              sub == Subdivide(order, d, value, first, last)
              border == sub[2]
              node == [left |-> IF LeftIsLeaf(border, first) THEN LeftLeaf(sub[1], first, border) ELSE 0,
                       right |-> IF RightIsLeaf(border, last) THEN Leaf(sub[1][last]) ELSE 0,
                       dim |-> d, value |-> value]
              named == IF item.parent < 0 THEN job.nodes
                       ELSE IF item.side = "left" THEN [job.nodes EXCEPT ![item.parent].left = id]
                       ELSE [job.nodes EXCEPT ![item.parent].right = id]
              lefts == IF LeftIsLeaf(border, first) THEN <<>>
                       ELSE <<[first |-> first, last |-> border - 1, parent |-> id, side |-> "left"]>>
              rights == IF RightIsLeaf(border, last) THEN <<>>
                        ELSE <<[first |-> border, last |-> last, parent |-> id, side |-> "right"]>>
          IN job' = [job EXCEPT !.order[i] = sub[1], !.used[i] = @ + 1,
                                !.stack[i] = lefts \o rights \o Tail(@),
                                !.nodes = [named EXCEPT ![id] = node]]
  /\ UNCHANGED <<rows, linked, deleted, forest, queued, saved, query, space>>

Built == job.purpose /= "none" /\ \A i \in 1 .. Trees : job.stack[i] = <<>>
Running == query.phase = "running"

\* KDTree::Rebuild, and BuildIndex's first forest, put the trees in place.
Install ==
  /\ Built /\ job.purpose = "rebuild" /\ ~Running
  /\ forest' = Forest(job.nodes, job.size) /\ job' = NoJob
  /\ UNCHANGED <<rows, linked, deleted, queued, saved, query, space>>

\* RefineIndex: live rows from the end fill the places of deleted ones; the
\* new trees name rows by their new places.
RECURSIVE Compacted(_, _)
Compacted(kept, n) ==
  IF Len(kept) >= n THEN kept
  ELSE IF Len(kept) \notin deleted THEN Compacted(Append(kept, Len(kept)), n)
  ELSE LET end == SelectLastInSeq([k \in 1 .. n |-> k - 1], LAMBDA r : r \notin deleted) IN
       IF end - 1 <= Len(kept) THEN kept
       ELSE Compacted(Append(kept, end - 1), end - 1)
IndexFirst(indices, row) == SelectInSeq(indices, LAMBDA r : r = row) - 1
NewPlace(indices, cell) == IF cell < 0 THEN Leaf(IndexFirst(indices, -cell - 1)) ELSE cell

SaveRefined ==
  /\ Built /\ job.purpose = "refine"
  /\ saved' = [forest |-> Forest([k \in DOMAIN job.nodes |->
                             [job.nodes[k] EXCEPT !.left = NewPlace(job.indices, @), !.right = NewPlace(job.indices, @)]],
                             job.size),
               indices |-> job.indices, count |-> saved.count + 1]
  /\ job' = NoJob
  /\ UNCHANGED <<rows, linked, deleted, forest, queued, query, space>>

(***************************************************************************)
(* Searching the trees: the nearer child down to a leaf, the other one     *)
(* into the queue with a bound on its distance.  Queues give the nearest   *)
(* first.                                                                  *)
(***************************************************************************)
MaxDist == 1000000
Nearest(S) == CHOOSE c \in S : \A e \in S : c[2] < e[2] \/ (c[2] = e[2] /\ c[1] <= e[1])
EmptySpace == [spt |-> {}, ng |-> {}, seen |-> {}, checked |-> 0, treeChecked |-> 0, noBetter |-> 0]
TNode(n) == forest.nodes[n]
BestChild(node, v) == IF v[node.dim] < node.value THEN node.left ELSE node.right
OtherChild(node, v) == IF v[node.dim] < node.value THEN node.right ELSE node.left

\* CheckAndSet: a row is queued when it is met first.  It is never remembered.
FirstSeenAlways(s, row) == TRUE
FirstSeen(s, row) == row \notin s.seen
Checked(s, row, d) == [s EXCEPT !.seen = @ \cup {row}, !.ng = @ \cup {<<row, d>>}, !.checked = @ + 1]

RECURSIVE KDTSearch(_, _, _, _)
KDTSearch(s, n, bound, target) ==
  IF n < 0 THEN
    IF -n - 1 >= rows \/ ~FirstSeen(s, -n - 1) THEN s
    ELSE [Checked(s, -n - 1, Dist(target, Vec(-n - 1))) EXCEPT !.treeChecked = @ + 1]
  ELSE LET node == TNode(n)  diff == target[node.dim] - node.value IN
       KDTSearch([s EXCEPT !.spt = @ \cup {<<OtherChild(node, target), bound + diff * diff>>}],
                 BestChild(node, target), bound, target)

RECURSIVE SearchTrees(_, _, _)
SearchTrees(s, target, limit) ==
  IF s.spt = {} \/ s.checked >= limit THEN s
  ELSE LET cell == Nearest(s.spt) IN
       SearchTrees(KDTSearch([s EXCEPT !.spt = @ \ {cell}], cell[1], cell[2], target), target, limit)

InitSearchTrees(target) ==
  FoldLeft(LAMBDA s, i : KDTSearch(s, Start(i, forest.size), 0, target), EmptySpace, [i \in 1 .. Trees |-> i])
Pivots(target) == SearchTrees(InitSearchTrees(target), target, InitialPivots)

(***************************************************************************)
(* KDT::Index::SearchIndex, one turn of its loop.  With nothing deleted at *)
(* the start, or deleted rows wanted, no row is asked about.               *)
(***************************************************************************)
Counts(q, row) == q.all \/ row \notin deleted
Better(a, b) == a[1] < b[1] \/ (a[1] = b[1] /\ a[2] < b[2])
Best(S, n) == {c \in S : Cardinality({e \in S : Better(e, c)}) < n}
WorstDist(results) == IF Cardinality(results) < ResultNum THEN MaxDist
                      ELSE (CHOOSE c \in results : \A e \in results : e = c \/ Better(e, c))[1]
AddPoint(results, row, d) == Best(results \cup {<<d, row>>}, ResultNum)

Cells(row) == IF row < linked THEN Links[linked][row + 1] ELSE <<>>
Larger(a, b) == IF a < b THEN b ELSE a
Spreading(s, row, target, upper) ==
  FoldLeft(LAMBDA t, n :
             IF ~FirstSeen(t, n) THEN t
             ELSE LET d == Dist(target, Vec(n)) IN
                  [Checked(t, n, d) EXCEPT !.noBetter = IF d <= upper THEN 0 ELSE @],
           [s EXCEPT !.noBetter = @ + 1], Cells(row))

Stops(q, results, g, s) == Counts(q, g[1]) /\ <<g[2], g[1]>> \notin results /\ s.checked > MaxCheck
GivesUp(s, results, g) ==
  s.noBetter > NoBetter /\ s.treeChecked > s.checked \div 10 /\ g[2] > WorstDist(results)
MoreTrees(s, target) ==
  IF s.noBetter > NoBetter /\ s.treeChecked <= s.checked \div 10
  THEN SearchTrees(s, target, OtherPivots + s.checked) ELSE s

Turn(g) ==
  LET s == [space EXCEPT !.ng = @ \ {g}]
      results == IF Counts(query, g[1]) THEN AddPoint(query.results, g[1], g[2]) ELSE query.results
      spread == Spreading(s, g[1], query.target, Larger(WorstDist(results), g[2]))
  IN IF Stops(query, results, g, s)
     THEN query' = [query EXCEPT !.phase = "done", !.results = results] /\ space' = s
     ELSE /\ space' = MoreTrees(spread, query.target)
          /\ query' = [query EXCEPT !.results = results,
                                    !.phase = IF GivesUp(spread, results, g) THEN "done" ELSE @]

Visit ==
  /\ Running
  /\ \E g \in space.ng : (\A h \in space.ng : g[2] <= h[2]) /\ Turn(g)
  /\ UNCHANGED <<rows, linked, deleted, forest, job, queued, saved>>

Finish ==
  /\ Running /\ space.ng = {}
  /\ query' = [query EXCEPT !.phase = "done"]
  /\ UNCHANGED <<rows, linked, deleted, forest, job, queued, saved, space>>

Ready == forest.size > 0
AllRows(searchDeleted) == TRUE
All(searchDeleted) == deleted = {} \/ searchDeleted

\* SearchIndex; DeleteIndex of a vector searches for it in the same way.
Begin(target, searchDeleted, purpose) ==
  /\ Ready /\ ~Running /\ query.phase /= "found" /\ query.no < MaxQueries
  /\ query' = [phase |-> "running", target |-> target, purpose |-> purpose, no |-> query.no + 1,
               all |-> All(searchDeleted), results |-> {}, rows |-> rows, linked |-> linked,
               gone |-> deleted, searchDeleted |-> searchDeleted]
  /\ space' = Pivots(target)
  /\ UNCHANGED <<rows, linked, deleted, forest, job, queued, saved>>

\* RefineIndex holds the lock every deletion shares.
NotRefining == job.purpose /= "refine"
Found(results) == {c[2] : c \in {e \in results : e[1] = 0}}
DeleteFound ==
  /\ query.phase = "done" /\ query.purpose = "delete" /\ NotRefining
  /\ deleted' = deleted \cup Found(query.results)
  /\ query' = [query EXCEPT !.phase = "deleted"]
  /\ UNCHANGED <<rows, linked, forest, job, queued, saved, space>>
DeleteIndex(row) ==
  /\ Ready /\ NotRefining /\ row \notin deleted /\ Cardinality(deleted) < MaxDeletes
  /\ deleted' = deleted \cup {row}
  /\ UNCHANGED <<rows, linked, forest, job, queued, saved, query, space>>

\* AddIndex: the row is appended under the lock and linked without it.
AddBatch ==
  /\ Ready /\ NotRefining /\ linked = rows /\ rows < Len(Points)
  /\ rows' = rows + 1
  /\ queued' = (queued \/ rows + 1 - forest.size >= AddCount)
  /\ UNCHANGED <<linked, deleted, forest, job, saved, query, space>>
RefineNode ==
  /\ linked < rows /\ linked' = rows
  /\ UNCHANGED <<rows, deleted, forest, job, queued, saved, query, space>>
RebuildJob ==
  /\ queued /\ job.purpose = "none"
  /\ job' = Job("rebuild", [k \in 1 .. rows |-> k - 1]) /\ queued' = FALSE
  /\ UNCHANGED <<rows, linked, deleted, forest, saved, query, space>>
RefineIndex ==
  /\ Ready /\ job.purpose = "none" /\ deleted /= {} /\ saved.count < MaxSaves
  /\ Compacted(<<>>, rows) /= <<>>
  /\ job' = Job("refine", Compacted(<<>>, rows))
  /\ UNCHANGED <<rows, linked, deleted, forest, queued, saved, query, space>>

\* BuildIndex: the rows are there and linked, their trees are being built.
Init ==
  /\ rows = First /\ linked = First /\ deleted = {} /\ queued = FALSE
  /\ forest = [nodes |-> <<>>, size |-> 0]
  /\ job = Job("rebuild", [k \in 1 .. First |-> k - 1])
  /\ saved = [forest |-> [nodes |-> <<>>, size |-> 0], indices |-> <<>>, count |-> 0]
  /\ query = [phase |-> "idle", no |-> 0, purpose |-> "search"]
  /\ space = EmptySpace

Next ==
  \/ \E i \in 1 .. Trees : Shuffle(i) \/ Divide(i)
  \/ Install \/ SaveRefined
  \/ \E t \in Targets, searchDeleted \in BOOLEAN : Begin(t, searchDeleted, "search")
  \/ \E t \in Targets : Begin(t, FALSE, "delete")
  \/ Visit \/ Finish \/ DeleteFound
  \/ \E r \in Range0(rows) : DeleteIndex(r)
  \/ AddBatch \/ RefineNode \/ RebuildJob \/ RefineIndex

Spec == Init /\ [][Next]_vars

(***************************************************************************)
(* The properties.                                                         *)
(***************************************************************************)
\* A tree being built keeps to its part of the array of nodes, so that the
\* threads never write each other's; a queue holds rows that were met.
TypeOK ==
  /\ job.purpose /= "none" =>
       /\ \A i \in 1 .. Trees : job.used[i] <= job.size
       /\ DOMAIN job.nodes = Range0(Trees * job.size)
  /\ linked \in {rows - 1, rows} /\ deleted \subseteq Range0(rows)
  /\ {c[1] : c \in space.ng} \subseteq space.seen

RECURSIVE LeavesOf(_, _)
LeavesOf(nodes, n) ==
  IF n < 0 THEN <<-n - 1>> ELSE LeavesOf(nodes, nodes[n].left) \o LeavesOf(nodes, nodes[n].right)

Holds(f, members) ==
  \A i \in 1 .. Trees :
    LET leaves == LeavesOf(f.nodes, Start(i, f.size)) IN
    /\ ToSet(leaves) = members
    /\ Len(leaves) = IF f.size = 1 THEN 2 ELSE f.size

\* Every tree of the index and of a refined copy holds each of its rows in
\* one leaf (a tree of one row has it on both sides); the copy's trees number
\* the rows as the copied vectors are.
EachRowOnce ==
  /\ Ready => Holds(forest, Range0(forest.size))
  /\ saved.count > 0 => Holds(saved.forest, Range0(Len(saved.indices)))

RECURSIVE AtNoDistance(_, _, _)
AtNoDistance(nodes, n, v) ==
  IF n < 0 THEN {-n - 1}
  ELSE AtNoDistance(nodes, BestChild(nodes[n], v), v) \cup
       IF v[nodes[n].dim] = nodes[n].value THEN AtNoDistance(nodes, OtherChild(nodes[n], v), v) ELSE {}

\* The cell of a row is at distance zero from the row's own vector, in every
\* tree: rows whose dimension was halved in the middle of equal values too.
\* In a refined copy the vector is the one copied to the row's place.
OwnCell ==
  /\ Ready => \A i \in 1 .. Trees, r \in Range0(forest.size) :
                r \in AtNoDistance(forest.nodes, Start(i, forest.size), Vec(r))
  /\ saved.count > 0 => \A i \in 1 .. Trees, p \in Range0(saved.forest.size) :
                p \in AtNoDistance(saved.forest.nodes, Start(i, saved.forest.size), Vec(saved.indices[p + 1]))

Undisturbed == linked = rows /\ query.rows = rows /\ query.linked = rows

\* A row deleted before the query began is not reported unless it is wanted.
DeletedNotFound ==
  query.phase /= "idle" /\ ~query.searchDeleted => \A c \in query.results : c[2] \notin query.gone

\* With no limit met, a search on a connected graph answers with exactly the
\* nearest rows, those the trees do not hold yet included, if no row was added
\* or deleted meanwhile.
Exact ==
  query.phase = "done" /\ Undisturbed /\ deleted = query.gone =>
    query.results = Best({<<Dist(query.target, Vec(r)), r>> :
                            r \in Range0(rows) \ (IF query.searchDeleted THEN {} ELSE deleted)}, ResultNum)

\* With limits, giving up loses no row that was met.
SeenKept ==
  query.phase = "done" /\ query.all =>
    \A r \in space.seen : \/ \E c \in query.results : c[2] = r
                          \/ Dist(query.target, Vec(r)) >= WorstDist(query.results)

\* Deleting by vector leaves no row equal to it, if every row was linked when
\* the search began and the answer has room for all of them.  (A row in a new
\* tree that is not linked yet may be the only pivot, and leads nowhere.)
EqualsGone ==
  query.phase = "deleted" /\ query.linked = query.rows =>
    LET equals == {r \in Range0(query.linked) : Vec(r) = query.target} IN
    Cardinality(equals) <= ResultNum => equals \subseteq deleted
=============================================================================
