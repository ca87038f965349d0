----------------------------- MODULE GraphBuild -----------------------------
(***************************************************************************)
(* NeighborhoodGraph::BuildGraph: random partition trees give the pairs of *)
(* a first nearest-neighbour graph; every row's cells are then rebuilt     *)
(* from a search of the graph, all rows a number of times and in any       *)
(* order; the second half of the cells may be chosen again by in-degree;   *)
(* the rows with equal rows folded under them get their link.  RefineIndex *)
(* builds the graph of the rows that are not deleted and renumbers it.     *)
(* A vector is its value on a line.                                        *)
(***************************************************************************)
EXTENDS Integers, Sequences, FiniteSets, SequencesExt

CONSTANTS Values,
          IdMap,            \* row -> the row it is folded under
          LinkNode,         \* row with rows folded under it -> its tree node
          Pivots,           \* rows the trees bring into every search
          NeighborhoodSize, Scale, Rebuilding,   \* Scale: m_fNeighborhoodScale
          TPTNumber, TPTLeafSize, RefineIter, CEF,
          SmallGraph,       \* a graph of fewer rows than this has no trees of its own (1000)
          DeletedSets       \* what may be deleted when the index is refined

Count == Len(Values)
Rows == 0 .. Count - 1
Wide == NeighborhoodSize * Scale * (IF Rebuilding THEN 2 ELSE 1)

GraphBuildAssumption ==
  /\ {NeighborhoodSize, Scale, TPTNumber, TPTLeafSize, CEF} \subseteq Nat \ {0}
  /\ RefineIter \in Nat /\ Rebuilding \in BOOLEAN
  /\ DOMAIN IdMap \subseteq Rows /\ Pivots \subseteq Rows \ DOMAIN IdMap
  /\ \A s \in DeletedSets : s \subseteq Rows /\ s /= Rows

VARIABLES phase,
          tree,      \* partition trees done
          indices,   \* the rows as the tree has arranged them, position p at p + 1
          ranges,    \* ranges still to be split, <<first, last>>
          leaves,    \* ranges that were not
          graph, dists, size,   \* row r at r + 1; size is m_iNeighborhoodSize
          left,      \* rows a parallel loop has still to do
          round,     \* refinements done
          indegree,
          compact    \* the graph of the rows that are left, and the rows' old numbers
vars == <<phase, tree, indices, ranges, leaves, graph, dists, size, left, round, indegree, compact>>

MaxDist == 1000000
Apart(a, b) == IF a < b THEN b - a ELSE a - b
Value(r) == Values[r + 1]
Dist(r, s) == Apart(Value(r), Value(s))
Mapped(r) == IF r \in DOMAIN IdMap THEN IdMap[r] ELSE r
Nothing == [i \in 1 .. Wide |-> -1]
Prefix(cells, n) ==
  LET k == SelectInSeq(cells, LAMBDA c : c < 0)
      m == IF k = 0 THEN Len(cells) ELSE k - 1
  IN SubSeq(cells, 1, IF m < n THEN m ELSE n)

(***************************************************************************)
(* PartitionByTptreeCore: the rows below the mean of a random projection   *)
(* are gathered at the front; equal vectors are on the same side.  A range *)
(* that is all on one side is halved.                                      *)
(***************************************************************************)
Swapped(s, i, j) == [s EXCEPT ![i + 1] = s[j + 1], ![j + 1] = s[i + 1]]

RECURSIVE Gather(_, _, _, _)
Gather(order, i, j, low) ==
  IF i > j THEN [order |-> order, split |-> i]
  ELSE IF Value(order[i + 1]) \in low THEN Gather(order, i + 1, j, low)
  ELSE Gather(Swapped(order, i, j), i, j - 1, low)

\* The first row of the second half belongs to both.
HalvesOverlap(first, i) == i
HalvesMeet(first, i) == i - 1

Divide(r, low) ==
  LET g == Gather(indices, r[1], r[2], low)
      split == IF g.split \in {r[1], r[2] + 1} THEN (r[1] + r[2] + 1) \div 2 ELSE g.split
  IN /\ indices' = g.order
     /\ ranges' = <<<<r[1], HalvesMeet(r[1], split)>>, <<split, r[2]>>>> \o Tail(ranges)

PartitionByTptree ==
  /\ phase = "partition" /\ ranges /= <<>>
  /\ LET r == Head(ranges) IN
     IF r[2] - r[1] <= TPTLeafSize
     THEN leaves' = leaves \cup {r} /\ ranges' = Tail(ranges) /\ UNCHANGED indices
     ELSE /\ \E low \in SUBSET {Value(indices[p + 1]) : p \in r[1] .. r[2]} : Divide(r, low)
          /\ UNCHANGED leaves
  /\ UNCHANGED <<phase, tree, graph, dists, size, left, round, indegree, compact>>

Partitioned ==
  /\ phase = "partition" /\ ranges = <<>>
  /\ phase' = "pairs"
  /\ UNCHANGED <<tree, indices, ranges, leaves, graph, dists, size, left, round, indegree, compact>>

(***************************************************************************)
(* Utils::AddNeighbor keeps the nearest, each once; BuildInitKNNGraph adds *)
(* every pair of a leaf to each other, the leaves in any order.            *)
(***************************************************************************)
Before(d, idx, cells, ds, n) == d < ds[n] \/ (d = ds[n] /\ idx < cells[n])

Known(cells, idx) == \E n \in DOMAIN cells : cells[n] = idx

AddNeighbor(g, row, idx, d) ==
  LET cells == g.graph[row + 1]
      ds == g.dists[row + 1]
  IN IF ~Before(d, idx, cells, ds, size) \/ Known(cells, idx) THEN g
     ELSE LET at == CHOOSE n \in 1 .. size : Before(d, idx, cells, ds, n)
                      /\ \A m \in 1 .. n - 1 : ~Before(d, idx, cells, ds, m)
          IN [graph |-> [g.graph EXCEPT ![row + 1] = SubSeq(cells, 1, at - 1) \o <<idx>> \o SubSeq(cells, at, size - 1)],
              dists |-> [g.dists EXCEPT ![row + 1] = SubSeq(ds, 1, at - 1) \o <<d>> \o SubSeq(ds, at, size - 1)]]

AddPair(g, x, y) ==
  LET p == indices[x + 1]
      q == indices[y + 1]
  IN AddNeighbor(AddNeighbor(g, Mapped(p), Mapped(q), Dist(p, q)), Mapped(q), Mapped(p), Dist(p, q))

Pairs(leaf) == FlattenSeq([i \in 1 .. leaf[2] - leaf[1] |->
                 [j \in 1 .. leaf[2] - (leaf[1] + i - 1) |-> <<leaf[1] + i - 1, leaf[1] + i - 1 + j>>]])

AddLeaf ==
  /\ phase = "pairs"
  /\ \E leaf \in leaves :
       LET g == FoldLeft(LAMBDA a, p : AddPair(a, p[1], p[2]), [graph |-> graph, dists |-> dists], Pairs(leaf))
       IN graph' = g.graph /\ dists' = g.dists /\ leaves' = leaves \ {leaf}
  /\ UNCHANGED <<phase, tree, indices, ranges, size, left, round, indegree, compact>>

\* A tree shuffles the rows: it starts from any order, here from the last.
Reversed(s) == [i \in DOMAIN s |-> s[Len(s) + 1 - i]]

\* The rounds but the last work with the wide size.
Narrow(rounds) == IF rounds >= RefineIter - 1 THEN Wide \div Scale ELSE Wide

NextTree ==
  /\ phase = "pairs" /\ leaves = {}
  /\ tree' = tree + 1
  /\ IF tree + 1 < TPTNumber
     THEN phase' = "partition" /\ indices' = Reversed(indices) /\ ranges' = <<<<0, Count - 1>>>> /\ UNCHANGED <<left, size>>
     ELSE phase' = "refine" /\ left' = Rows /\ size' = Narrow(0) /\ UNCHANGED <<indices, ranges>>
  /\ UNCHANGED <<leaves, graph, dists, round, indegree, compact>>

(***************************************************************************)
(* RefineNode without updates of neighbours: what a search of the graph as *)
(* it is finds, thinned by RebuildNeighbors.                               *)
(***************************************************************************)
RECURSIVE Reach(_, _)
Reach(g, S) == LET T == S \cup UNION {ToSet(Prefix(g[r + 1], size)) : r \in S} IN IF T = S THEN S ELSE Reach(g, T)

Closer(row, a, b) == Dist(row, a) < Dist(row, b) \/ (Dist(row, a) = Dist(row, b) /\ a < b)
Results(row, S) ==
  [i \in 1 .. (IF Cardinality(S) < CEF + 1 THEN Cardinality(S) ELSE CEF + 1)
     |-> CHOOSE r \in S : Cardinality({s \in S : Closer(row, s, r)}) = i - 1]

\* The node itself is one of the results.
Others(row, results) == SelectSeq(results, LAMBDA r : r /= row)

RebuildNeighbors(row, results, n) ==
  LET taken == FoldLeft(LAMBDA t, r : IF Len(t) < n /\ \A i \in DOMAIN t : Dist(t[i], r) >= Dist(row, r)
                                      THEN Append(t, r) ELSE t, <<>>, Others(row, results))
  IN [i \in 1 .. n |-> IF i <= Len(taken) THEN taken[i] ELSE -1]

RefineNode(r) ==
  graph' = [graph EXCEPT ![r + 1] =
              RebuildNeighbors(r, Results(r, Reach(graph, Pivots)), size) \o SubSeq(@, size + 1, Wide)]

RefineRow ==
  /\ phase = "refine" /\ left /= {} /\ RefineIter > 0
  /\ \E r \in left : RefineNode(r) /\ left' = left \ {r}
  /\ UNCHANGED <<phase, tree, indices, ranges, leaves, dists, size, round, indegree, compact>>

EndRound ==
  /\ phase = "refine" /\ (left = {} \/ RefineIter = 0)
  /\ round' = round + 1
  /\ size' = Narrow(round + 1)
  /\ IF round + 1 < RefineIter THEN left' = Rows /\ UNCHANGED phase
     ELSE /\ left' = {}
          /\ phase' = IF Count < SmallGraph THEN "built" ELSE IF Rebuilding THEN "count" ELSE "link"
  /\ UNCHANGED <<tree, indices, ranges, leaves, graph, dists, indegree, compact>>

(***************************************************************************)
(* RebuildGraph: half the cells are kept; of the rest, those that lead to  *)
(* rows few others lead to come first, then the nearest.                   *)
(***************************************************************************)
InDegree(n, row) == Cardinality({c \in Rows \X (1 .. n) : graph[c[1] + 1][c[2]] = row})

CountDegrees ==
  /\ phase = "count"
  /\ size' = size \div 2
  /\ indegree' = [r \in Rows |-> InDegree(size \div 2, r)]
  /\ left' = Rows /\ phase' = "rebuild"
  /\ UNCHANGED <<tree, indices, ranges, leaves, graph, dists, round, compact>>

Ith(S, i) == CHOOSE c \in S : Cardinality({d \in S : d <= c}) = i
Half == size \div 2
Rare(cells) == {j \in Half + 1 .. 2 * size : cells[j] >= 0 /\ indegree[cells[j]] < size \div 2}
Reserved(cells) ==
  LET rare == Rare(cells)
      rest == (Half + 1 .. 2 * size) \ rare
      need == size - Half - Cardinality(rare)
  IN rare \cup {Ith(rest, i) : i \in 1 .. (IF need > 0 THEN need ELSE 0)}

Counted(deg, old, new) ==
  LET d == IF old >= 0 THEN [deg EXCEPT ![old] = @ - 1] ELSE deg
  IN IF new >= 0 THEN [d EXCEPT ![new] = @ + 1] ELSE d

RebuildRow ==
  /\ phase = "rebuild"
  /\ \E r \in left :
       LET cells == graph[r + 1]
           kept == Reserved(cells)
           z == [i \in 1 .. Cardinality(kept) |-> Ith(kept, i)]
           Put(a, j) == [cells |-> [a.cells EXCEPT ![j] = a.cells[z[j - Half]]],
                         deg |-> Counted(a.deg, a.cells[j], a.cells[z[j - Half]])]
           done == FoldLeft(Put, [cells |-> cells, deg |-> indegree], [j \in 1 .. size - Half |-> Half + j])
       IN /\ graph' = [graph EXCEPT ![r + 1] = done.cells]
          /\ indegree' = done.deg
          /\ left' = left \ {r}
          /\ phase' = IF left = {r} THEN "link" ELSE phase
  /\ UNCHANGED <<tree, indices, ranges, leaves, dists, size, round, compact>>

LastInUse == size

LinkFolded ==
  /\ phase = "link"
  /\ graph' = [i \in DOMAIN graph |-> IF i - 1 \in DOMAIN LinkNode
                                      THEN [graph[i] EXCEPT ![LastInUse] = -2 - LinkNode[i - 1]] ELSE graph[i]]
  /\ phase' = "built"
  /\ UNCHANGED <<tree, indices, ranges, leaves, dists, size, left, round, indegree, compact>>

\* GraphAccuracyEstimation for one row: how many of its cells are those that a
\* search of all rows but the folded ones gives.
Correct(r) ==
  LET exact == RebuildNeighbors(r, Results(r, Rows \ DOMAIN IdMap), size)
  IN Cardinality({j \in 1 .. size : exact[j] = -1 \/ exact[j] \in ToSet(graph[r + 1])})

(***************************************************************************)
(* RefineIndex: rows from the end take the places of deleted ones; the     *)
(* graph is built from searches of the old one, and its cells renumbered.  *)
(***************************************************************************)
RECURSIVE Compacted(_, _, _, _)
Compacted(old, i, newR, deleted) ==
  IF i >= newR THEN old
  ELSE IF i \notin deleted THEN Compacted(Append(old, i), i + 1, newR, deleted)
  ELSE IF newR - 1 \in deleted THEN Compacted(old, i, newR - 1, deleted)
  ELSE Compacted(Append(old, newR - 1), i + 1, newR - 1, deleted)

Renumbered(old, r) == (CHOOSE i \in DOMAIN old : old[i] = r) - 1

RefineIndex(deleted) ==
  /\ phase = "built" /\ compact = [old |-> <<>>, graph |-> <<>>]
  /\ LET old == Compacted(<<>>, 0, Count, deleted)
         Found(r) == Results(r, Reach(graph, Pivots) \ deleted)
         Row(r) == LET cells == RebuildNeighbors(r, Found(r), size)
                   IN [i \in DOMAIN cells |-> IF cells[i] < 0 THEN -1 ELSE Renumbered(old, cells[i])]
     IN compact' = [old |-> old, graph |-> [i \in DOMAIN old |-> Row(old[i])]]
  /\ UNCHANGED <<phase, tree, indices, ranges, leaves, graph, dists, size, left, round, indegree>>

Init ==
  /\ phase = (IF Count < SmallGraph THEN "refine" ELSE "partition")
  /\ tree = 0 /\ leaves = {} /\ ranges = <<<<0, Count - 1>>>>
  /\ indices = [i \in 1 .. Count |-> i - 1]
  /\ graph = [i \in 1 .. Count |-> Nothing]
  /\ dists = [i \in 1 .. Count |-> [n \in 1 .. Wide |-> MaxDist]]
  /\ size = (IF Count < SmallGraph THEN Narrow(0) ELSE Wide)
  /\ left = (IF Count < SmallGraph THEN Rows ELSE {})
  /\ round = 0 /\ indegree = [r \in Rows |-> 0]
  /\ compact = [old |-> <<>>, graph |-> <<>>]

Next ==
  \/ PartitionByTptree \/ Partitioned \/ AddLeaf \/ NextTree
  \/ RefineRow \/ EndRound \/ CountDegrees \/ RebuildRow \/ LinkFolded
  \/ \E s \in DeletedSets : RefineIndex(s)

Spec == Init /\ [][Next]_vars

(***************************************************************************)
(* The properties.                                                         *)
(***************************************************************************)
\* The order is one of all rows, and a row has as many cells as were made.
TypeOK ==
  /\ ToSet(indices) = Rows /\ Len(indices) = Count
  /\ \A i \in DOMAIN graph : Len(graph[i]) = Wide /\ \A c \in ToSet(graph[i]) : c < Count
  /\ size \in 1 .. Wide

\* The ranges split and unsplit hold every position once: no pair of a leaf is
\* left out and no row is written by two threads.
RangesMeet ==
  phase = "partition" =>
    LET all == leaves \cup ToSet(ranges) IN
    \A p \in 0 .. Count - 1 : Cardinality({r \in all : p \in r[1] .. r[2]}) = 1

\* The first graph: a row's neighbours are different rows, the nearest first,
\* with their distances; a folded row is not one and has none.
NearestFirst ==
  phase = "pairs" =>
    \A r \in Rows :
      LET p == Prefix(graph[r + 1], Wide) IN
      /\ r \in DOMAIN IdMap => p = <<>>
      /\ \A i \in DOMAIN p : p[i] \notin DOMAIN IdMap /\ dists[r + 1][i] = Dist(r, p[i])
      /\ \A i, j \in DOMAIN p : i < j => Closer(r, p[i], p[j])

\* The graph that is built: from every row all others can be reached but the
\* folded ones, which no cell names and one link leads to; no row is its own
\* neighbour.
Built ==
  phase = "built" =>
    /\ \A r \in Rows : Reach(graph, {r}) \ {r} = Rows \ (DOMAIN IdMap \cup {r})
    /\ \A r \in Rows : r \notin ToSet(Prefix(graph[r + 1], size))
    /\ \A r \in DOMAIN LinkNode : graph[r + 1][NeighborhoodSize] = -2 - LinkNode[r]

\* Before the link is written, and with searches that meet every row, the graph
\* is estimated exact, and its rows name nothing else.
Accurate ==
  phase = "link" /\ ~Rebuilding =>
    \A r \in Rows : Correct(r) = size /\ ToSet(Prefix(graph[r + 1], size)) \cap DOMAIN IdMap = {}

\* The in-degrees are those of the cells in use, row after row.
DegreesRight ==
  phase = "link" /\ Rebuilding => \A r \in Rows : indegree[r] = InDegree(size, r)

\* A refined graph names the rows that are left, by their new numbers: each row
\* has the nearest other first.
RenumberedRight ==
  compact.old /= <<>> =>
    \A i \in DOMAIN compact.old :
      LET row == compact.old[i]
          live == ToSet(compact.old) \ {row}
          p == Prefix(compact.graph[i], size)
      IN /\ \A j \in DOMAIN p : p[j] + 1 \in DOMAIN compact.old
         /\ live /= {} => p /= <<>> /\ \A o \in live : Dist(row, compact.old[p[1] + 1]) <= Dist(row, o)
=============================================================================
