----------------------------- MODULE GraphSearch -----------------------------
(***************************************************************************)
(* A query against the tree-and-graph index: the trees give the pivots, a  *)
(* best-first walk over the neighbourhood graph improves on them and goes  *)
(* back to the trees when their cells are nearer.  Equal vectors are in    *)
(* the trees and the graph once; the last cell of that row's neighbours    *)
(* names the tree node whose children are the others.  Rows are deleted    *)
(* while a query runs.  A rebuild swaps the trees under a lock that        *)
(* searches share and SearchTree does not take, and leaves in the graph    *)
(* the node numbers of the trees before: what is read through a stale      *)
(* number is another node's, or outside the trees and undefined.  A vector *)
(* is its value on a line.                                                 *)
(***************************************************************************)
EXTENDS Integers, Sequences, FiniteSets, SequencesExt

CONSTANTS Indexes,      \* records: value of each row, nodes and starts of the trees, links
          NewTrees,     \* values, nodes and starts that a rebuild may give
          Targets, ResultNum, MaxCheck,
          Bounded,      \* the length of m_Results
          InitialPivots, OtherPivots,
          Bfs, BfsNodes, \* m_bfs, and MaxBFSNodes
          MaxDeletes, MaxRebuilds

GraphSearchAssumption ==
  /\ {ResultNum, Bounded, InitialPivots, OtherPivots, BfsNodes} \subseteq Nat \ {0}
  /\ Bounded >= ResultNum
  /\ MaxCheck \in Nat /\ Bfs \in BOOLEAN

VARIABLES index,     \* the index's rows, trees and graph
          deleted,   \* m_deletedID
          query,     \* the query in progress or answered
          space,     \* its WorkSpace
          swap,      \* the starts a rebuild has still to swap in, none outside one
          rebuilds
vars == <<index, deleted, query, space, swap, rebuilds>>

MaxDist == 1000000
Rows == 0 .. Len(index.values) - 1
Apart(a, b) == IF a < b THEN b - a ELSE a - b
Dist(target, row) == Apart(target, index.values[row + 1])
TNode(n) == index.nodes[n + 1]
IsLeaf(n) == TNode(n).childStart < 0
Children(n) == [i \in 1 .. TNode(n).childEnd - TNode(n).childStart |-> TNode(n).childStart + i - 1]
Cells(row) == index.links[row + 1]
Link(row) == Last(Cells(row))

\* Queues of pairs <<node, distance>> that give the nearest first, and the
\* answer, which keeps the ResultNum best of <<distance, row, n>>, the nth
\* point added for a row.
Nearest(S) == CHOOSE c \in S : \A d \in S : c[2] < d[2] \/ (c[2] = d[2] /\ c[1] <= d[1])
Top(S) == IF S = {} THEN MaxDist ELSE Nearest(S)[2]
Better(a, b) == a[1] < b[1] \/ (a[1] = b[1] /\ (a[2] < b[2] \/ (a[2] = b[2] /\ a[3] < b[3])))
Best(S, n) == {c \in S : Cardinality({d \in S : Better(d, c)}) < n}
WorstOf(S, n) == IF Cardinality(S) < n THEN MaxDist
                 ELSE (CHOOSE c \in S : \A d \in S : d = c \/ Better(d, c))[1]

\* CheckAndSet: a row is queued when it is met first.  It is never remembered.
FirstSeenAlways(s, row) == TRUE
FirstSeen(s, row) == row \notin s.seen
Queued(s, row, d) == [s EXCEPT !.seen = @ \cup {row}, !.ng = @ \cup {<<row, d>>}]

(***************************************************************************)
(* BKTree::SearchTrees: cells are expanded, the nearest first, until p_    *)
(* limits rows have been checked; a leaf checked already still ends it.    *)
(***************************************************************************)
Expanded(s, n, target) ==
  [s EXCEPT !.spt = @ \cup {<<c, Dist(target, TNode(c).centerid)>> : c \in ToSet(Children(n))}]

CentreQueued(s, cell) ==
  IF FirstSeen(s, TNode(cell[1]).centerid) THEN Queued(s, TNode(cell[1]).centerid, cell[2]) ELSE s
LeafQueued(s, cell) ==
  IF FirstSeen(s, TNode(cell[1]).centerid)
  THEN Queued([s EXCEPT !.checked = @ + 1], TNode(cell[1]).centerid, cell[2]) ELSE s

OneCell(s, target) ==
  LET cell == Nearest(s.spt)
      rest == [s EXCEPT !.spt = @ \ {cell}]
  IN IF IsLeaf(cell[1]) THEN LeafQueued(rest, cell)
     ELSE Expanded(CentreQueued(rest, cell), cell[1], target)

RECURSIVE SearchTrees(_, _, _)
SearchTrees(s, target, limit) ==
  IF s.spt = {} THEN s
  ELSE LET t == OneCell(s, target) IN
       IF IsLeaf(Nearest(s.spt)[1]) /\ t.checked >= limit THEN t ELSE SearchTrees(t, target, limit)

(***************************************************************************)
(* BKTree::InitSearchTrees: a root's children go to the tree queue, or,    *)
(* with m_bfs, two levels of the cells within a tenth of the nearest are   *)
(* expanded at once.                                                       *)
(***************************************************************************)
Spread(s, n, target) ==
  FoldLeft(LAMBDA t, c :
             LET d == Dist(target, TNode(c).centerid) IN
             IF 10 * d <= 11 * Top(t.level) /\ Cardinality(t.level) < BfsNodes
             THEN [t EXCEPT !.level = @ \cup {<<c, d>>}]
             ELSE [t EXCEPT !.spt = @ \cup {<<c, d>>}],
           s, Children(n))

LevelKept(s) == [s EXCEPT !.spt = @ \cup s.level, !.level = {}]

RECURSIVE SecondLevel(_, _, _)
SecondLevel(s, curr, target) ==
  IF curr = {} THEN s
  ELSE LET cell == Nearest(curr) IN
       SecondLevel(IF IsLeaf(cell[1]) THEN [s EXCEPT !.spt = @ \cup {cell}]
                   ELSE Spread(CentreQueued(s, cell), cell[1], target),
                   curr \ {cell}, target)

InitTree(s, start, target) ==
  IF IsLeaf(start) THEN [s EXCEPT !.spt = @ \cup {<<start, Dist(target, TNode(start).centerid)>>}]
  ELSE IF Bfs THEN LET first == Spread(s, start, target)
                   IN LevelKept(SecondLevel([first EXCEPT !.level = {}], first.level, target))
  ELSE Expanded(s, start, target)

EmptySpace == [spt |-> {}, ng |-> {}, level |-> {}, seen |-> {}, bounds |-> {}, checked |-> 0]
InitSearchTrees(target) == FoldLeft(LAMBDA s, n : InitTree(s, n, target), EmptySpace, index.starts)
Pivots(target) == SearchTrees(InitSearchTrees(target), target, InitialPivots)

(***************************************************************************)
(* BKT::Index::Search, one turn of its loop.  Counts is notDeleted of the  *)
(* dispatch: with nothing deleted at the start, or deleted rows wanted,    *)
(* no row is asked about.                                                  *)
(***************************************************************************)
Counts(q, row) == q.all \/ row \notin deleted
Point(q, row, d) == <<d, row, Cardinality({c \in q.results : c[2] = row}) + 1>>
AddPoint(q, row, d) == [q EXCEPT !.results = Best(@ \cup {Point(q, row, d)}, ResultNum)]
WorstDist(q) == WorstOf(q.results, ResultNum)

\* The linked node is one of row's own equals, as it was when the graph was
\* built.  Of a node with clusters below it the read would begin before the trees.
LinkRight(row) ==
  Link(row) < -1 => /\ -2 - Link(row) < Len(index.nodes)
                    /\ TNode(-2 - Link(row)).centerid = row /\ IsLeaf(-2 - Link(row))
LinkReadable(row) ==
  Link(row) < -1 => -2 - Link(row) < Len(index.nodes) /\ IsLeaf(-2 - Link(row))

\* The rows equal to row: itself, then the children of the linked node.
EqualRows(row) ==
  IF Link(row) >= -1 THEN <<row>>
  ELSE LET n == TNode(-2 - Link(row))
           children == SubSeq(index.nodes, 1 - n.childStart, n.childEnd)
       IN <<row>> \o [i \in DOMAIN children |-> children[i].centerid]

\* CheckDup ends the walk at the first row the answer has no room for.
Offered(q, row, d) ==
  FoldLeft(LAMBDA a, r : IF a.full \/ ~Counts(a, r) THEN a
                         ELSE LET b == AddPoint(a, r, d) IN
                              IF q.dups /\ Point(a, r, d) \notin b.results THEN [b EXCEPT !.full = TRUE] ELSE b,
           [q EXCEPT !.full = FALSE], EqualRows(row))

Neighbours(row) == SelectInSeq(Cells(row), LAMBDA c : c < 0)
Linked(row) == IF Neighbours(row) = 0 THEN Cells(row) ELSE SubSeq(Cells(row), 1, Neighbours(row) - 1)

InsertBound(s, c) == Best(s.bounds \cup {c}, Bounded)
Improves(s, d) == d <= WorstOf(s.bounds, Bounded)
Spreading(s, row, target) ==
  FoldLeft(LAMBDA t, n :
             IF ~FirstSeen(t, n) THEN t
             ELSE LET d == Dist(target, n)
                      u == [t EXCEPT !.checked = @ + 1, !.seen = @ \cup {n}]
                  IN IF ~Improves(t, d) THEN u
                     ELSE [u EXCEPT !.bounds = InsertBound(t, <<d, n, 1>>), !.ng = @ \cup {<<n, d>>}],
           s, Linked(row))

MoreTrees(s, target) ==
  IF Top(s.ng) > Top(s.spt) THEN SearchTrees(s, target, OtherPivots + s.checked) ELSE s

GivesUp(q, s, g) ==
  /\ g[2] > WorstDist(q)
  /\ Counts(q, g[1])
  /\ g[2] > WorstOf(s.bounds, Bounded) \/ s.checked > MaxCheck

Undefined == query' = [query EXCEPT !.phase = "undefined"] /\ UNCHANGED space

Turn(g) ==
  LET s == [space EXCEPT !.ng = @ \ {g}] IN
  IF GivesUp(query, s, g) THEN query' = [query EXCEPT !.phase = "done"] /\ space' = s
  ELSE IF g[2] <= WorstDist(query) /\ ~LinkReadable(g[1]) THEN Undefined
  ELSE /\ query' = IF g[2] <= WorstDist(query) THEN Offered(query, g[1], g[2]) ELSE query
       /\ space' = MoreTrees(Spreading(s, g[1], query.target), query.target)

Idle == query.phase \in {"idle", "done", "pivots"}

\* SearchIndex asks for duplicates (CheckDup), RefineSearchIndex does not
\* (NeverDup).  A query that ignores deletions altogether.
AllRows(searchDeleted) == TRUE
All(searchDeleted) == deleted = {} \/ searchDeleted

Begin(target, searchDeleted, dups) ==
  /\ Idle /\ swap = <<>>
  /\ query' = [phase |-> "running", target |-> target, all |-> All(searchDeleted), dups |-> dups,
               results |-> {}, full |-> FALSE,
               gone |-> IF searchDeleted THEN {} ELSE deleted,
               sound |-> \A r \in Rows : LinkRight(r)]
  /\ space' = Pivots(target)
  /\ UNCHANGED <<index, deleted, swap, rebuilds>>

Visit ==
  /\ query.phase = "running"
  /\ \E g \in space.ng : g[2] = Top(space.ng) /\ Turn(g)
  /\ UNCHANGED <<index, deleted, swap, rebuilds>>

Finish ==
  /\ query.phase = "running" /\ space.ng = {}
  /\ query' = [query EXCEPT !.phase = "done"]
  /\ UNCHANGED <<index, deleted, space, swap, rebuilds>>

(***************************************************************************)
(* SearchTree answers with the pivots alone and asks neither for the lock  *)
(* of the trees nor what is deleted.  A cell that the trees in place do    *)
(* not have, or that names no row where its vector is read, is undefined.  *)
(***************************************************************************)
HasVector(n) == n < Len(index.nodes) /\ TNode(n).centerid \in Rows
Readable(n) ==
  n < Len(index.nodes) /\ (~IsLeaf(n) => \A c \in ToSet(Children(n)) : HasVector(c))
StartReadable(n) ==
  /\ Readable(n)
  /\ IF IsLeaf(n) THEN HasVector(n) ELSE Bfs => \A c \in ToSet(Children(n)) : Readable(c)

SearchTree(target) ==
  /\ Idle
  /\ LET readable == \A n \in ToSet(index.starts) : StartReadable(n) IN
     /\ query' = [phase |-> IF readable THEN "trees" ELSE "undefined", target |-> target,
                  all |-> TRUE, dups |-> FALSE, results |-> {}, full |-> FALSE, gone |-> {},
                  sound |-> swap = <<>>]
     /\ space' = IF readable THEN InitSearchTrees(target) ELSE EmptySpace
  /\ UNCHANGED <<index, deleted, swap, rebuilds>>

PivotsFound == space.spt = {} \/ space.checked >= InitialPivots

NextPivot ==
  /\ query.phase = "trees" /\ ~PivotsFound
  /\ IF Readable(Nearest(space.spt)[1])
     THEN space' = OneCell(space, query.target) /\ UNCHANGED query
     ELSE Undefined
  /\ UNCHANGED <<index, deleted, swap, rebuilds>>

AnswerPivots ==
  /\ query.phase = "trees" /\ PivotsFound
  /\ query' = [query EXCEPT !.phase = "pivots",
                            !.results = Best({<<c[2], c[1], 1>> : c \in space.ng}, ResultNum)]
  /\ UNCHANGED <<index, deleted, space, swap, rebuilds>>

DeleteIndex(row) ==
  /\ Cardinality(deleted) < MaxDeletes
  /\ row \notin deleted
  /\ deleted' = deleted \cup {row}
  /\ UNCHANGED <<index, query, space, swap, rebuilds>>

\* BKTree::Rebuild: as many trees of the rows there are now, swapped in under
\* the lock, nodes before starts, the graph left as it is.  A SearchTree in the
\* middle of a cell may hold a node that is freed.
Disturbs ==
  IF query.phase = "trees"
  THEN \E phase \in {"trees", "undefined"} : query' = [query EXCEPT !.sound = FALSE, !.phase = phase]
  ELSE UNCHANGED query

Rebuild(other) ==
  /\ query.phase /= "running" /\ swap = <<>> /\ rebuilds < MaxRebuilds
  /\ other.values = index.values /\ Len(other.starts) = Len(index.starts)
  /\ index' = [index EXCEPT !.nodes = other.nodes]
  /\ swap' = other.starts
  /\ Disturbs
  /\ UNCHANGED <<deleted, space, rebuilds>>

EndRebuild ==
  /\ swap /= <<>>
  /\ index' = [index EXCEPT !.starts = swap]
  /\ swap' = <<>> /\ rebuilds' = rebuilds + 1
  /\ Disturbs
  /\ UNCHANGED <<deleted, space>>

Init ==
  /\ index \in Indexes
  /\ deleted = {} /\ swap = <<>> /\ rebuilds = 0
  /\ query = [phase |-> "idle", target |-> 0, all |-> TRUE, dups |-> FALSE, results |-> {},
              full |-> FALSE, gone |-> {}, sound |-> TRUE]
  /\ space = EmptySpace

Next ==
  \/ \E t \in Targets, searchDeleted, dups \in BOOLEAN : Begin(t, searchDeleted, dups)
  \/ \E t \in Targets : SearchTree(t)
  \/ Visit \/ Finish \/ NextPivot \/ AnswerPivots
  \/ \E r \in Rows : DeleteIndex(r)
  \/ EndRebuild
  \/ \E other \in NewTrees : Rebuild(other)

Spec == Init /\ [][Next]_vars

(***************************************************************************)
(* The properties.                                                         *)
(***************************************************************************)
\* The queue holds rows that were checked, each once, and the answer as many
\* points as were asked for.
TypeOK ==
  /\ deleted \subseteq Rows
  /\ {c[1] : c \in space.ng} \subseteq space.seen /\ space.seen \subseteq Rows
  /\ \A c, d \in space.ng : c[1] = d[1] => c = d
  /\ Cardinality(query.results) <= ResultNum /\ Cardinality(space.bounds) <= Bounded

\* A row is reported once, although equal rows are reached through the row
\* they are folded under and rows are reached through trees and graph; with a
\* stale link it may be twice.
NoneTwice == query.sound => \A c, d \in query.results : c[2] = d[2] => c = d

\* A row deleted before the query began is not reported, stale links or not.
DeletedNotFound == \A c \in query.results : c[2] \notin query.gone

\* While neither limit is met and no link is stale, the answer of a search is
\* exactly the nearest rows: nothing folded, deleted on the way or in another
\* tree is missed.  (The rows deleted meanwhile may be in the answer or not.)
NearestRows ==
  ~(\E c \in query.results : c[2] \in deleted \ query.gone) =>
    LET live == {r \in Rows : IF query.all THEN TRUE ELSE r \notin deleted} IN
    query.results = Best({<<Dist(query.target, r), r, 1>> : r \in live}, ResultNum)
Exact == query.phase = "done" /\ query.sound => NearestRows

\* The graph's links name equals and a search is exact, rebuilt trees or not.
\* The code does not keep this where rows are folded: Rebuild leaves the node
\* numbers of the trees before in the graph (README, Disagreements).
ExactAlways == query.phase = "done" => NearestRows

\* No search reads outside the trees.  The code keeps this of a query that finds
\* its links right and of a SearchTree that meets no swap (README, Disagreements).
ReadsInside == query.phase /= "undefined"

\* The pivots SearchTree answers with are rows with their own distances when no
\* trees are swapped meanwhile.
OwnDistances == \A c \in query.results : c[2] \in Rows /\ c[1] = Dist(query.target, c[2])
PivotsRight == query.phase = "pivots" /\ query.sound => OwnDistances

\* The code does not keep this: SearchTree takes no lock, and a cell may be
\* expanded in other trees (README, Disagreements).  No run checks it.
PivotsAlways == query.phase = "pivots" => OwnDistances

\* With limits, and nothing deleted, giving up loses no row that was met: the
\* answer is the best of all rows checked and of their equals.
SeenKept ==
  query.phase = "done" /\ deleted = {} =>
    query.results = Best({<<Dist(query.target, e), e, 1>> :
                            e \in UNION {ToSet(EqualRows(r)) : r \in space.seen}}, ResultNum)
=============================================================================
