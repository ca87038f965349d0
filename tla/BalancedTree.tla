---------------------------- MODULE BalancedTree ----------------------------
(***************************************************************************)
(* BKTree::BuildTrees and the clustering it calls: trees are grown from a  *)
(* stack of ranges of a shared index array.  A range of at most LeafSize   *)
(* rows becomes leaves; a larger one is clustered, the array is permuted   *)
(* so that every cluster lies together with its centre last, and the       *)
(* clusters are pushed.  A range that cannot be clustered is folded under  *)
(* one row, its centre included.  A row is its position, a vector its      *)
(* value on a line; the centres the k-means iterations end with are any.   *)
(***************************************************************************)
EXTENDS Integers, Sequences, FiniteSets, FiniteSetsExt

CONSTANTS Values,       \* Values[v + 1] is the vector of row v
          Rows,         \* the rows to be built from, in order (the argument indices)
          TreeNumber, KmeansK, LeafSize,
          Threads,      \* OpenMP threads of an assignment
          DynamicK

Count == Len(Rows)

BalancedTreeAssumption ==
  /\ Count > 0
  /\ \A i \in 1 .. Count : Rows[i] + 1 \in DOMAIN Values
  /\ \A i, j \in 1 .. Count : Rows[i] = Rows[j] => i = j
  /\ {TreeNumber, KmeansK, LeafSize, Threads} \subseteq Nat \ {0}

VARIABLES roots,       \* m_pTreeRoots, node n at n + 1
          starts,      \* m_pTreeStart
          stack,       \* the ranges still to be grown, the top last
          indices,     \* localindices, position p at p
          sampleMap,   \* m_pSampleCenterMap
          km           \* the clustering of the top range: how far it is, its centres,
                       \* and the labels, counts and nearest rows of the last assignment
vars == <<roots, starts, stack, indices, sampleMap, km>>

Positions == 0 .. Count - 1
Reverse(v) == (CHOOSE i \in 1 .. Count : Rows[i] = v) - 1
Cid(p) == Reverse(indices[p])
Node(c) == [centerid |-> c, childStart |-> -1, childEnd |-> -1]
NoClustering == [step |-> "none"]

Lesser(a, b) == IF a < b THEN a ELSE b
Greater(a, b) == IF a < b THEN b ELSE a
Value(v) == Values[v + 1]
Apart(a, b) == IF a < b THEN b - a ELSE a - b
Permuted(order, first, last) ==
  {[p \in Positions |-> IF p \in first .. last - 1 THEN order[f[p]] ELSE order[p]] :
     f \in {g \in [first .. last - 1 -> first .. last - 1] :
              \A p, q \in first .. last - 1 : g[p] = g[q] => p = q}}

(***************************************************************************)
(* KmeansAssign without centre updates: the range is cut into one part per *)
(* thread; a thread labels its rows and keeps, per cluster, the last of    *)
(* its nearest rows; the parts are then merged in thread order.            *)
(***************************************************************************)
Part(t, first, last) ==
  LET size == ((last - first - 1) \div Threads) + 1 IN
  first + t * size .. Lesser(first + (t + 1) * size, last) - 1

Label(v, centres) ==
  CHOOSE k \in DOMAIN centres :
    \A j \in DOMAIN centres :
      \/ Apart(Value(v), centres[k]) < Apart(Value(v), centres[j])
      \/ Apart(Value(v), centres[k]) = Apart(Value(v), centres[j]) /\ k <= j

LastNearest(S, order, centre) ==
  CHOOSE p \in S : \A q \in S \ {p} :
    \/ Apart(Value(order[p]), centre) < Apart(Value(order[q]), centre)
    \/ Apart(Value(order[p]), centre) = Apart(Value(order[q]), centre) /\ q < p

Merged(S, order, centre) == LastNearest(S, order, centre)

KmeansAssign(order, first, last, centres) ==
  LET Mine(t, k) == {p \in Part(t, first, last) : Label(order[p], centres) = k}
      Bests(k) == {LastNearest(Mine(t, k), order, centres[k]) :
                     t \in {u \in 0 .. Threads - 1 : Mine(u, k) /= {}}}
  IN [label |-> [p \in UNION {Part(t, first, last) : t \in 0 .. Threads - 1}
                   |-> Label(order[p], centres)],
      counts |-> [k \in DOMAIN centres |->
                    MapThenSumSet(LAMBDA t : Cardinality(Mine(t, k)), 0 .. Threads - 1)],
      nearest |-> [k \in DOMAIN centres |->
                     IF Bests(k) = {} THEN -1
                     ELSE order[Merged(Bests(k), order, centres[k])]]]

(***************************************************************************)
(* KmeansArgs::Shuffle: for every cluster, the row at its first position   *)
(* is swapped to the end of the free part of its own cluster until the     *)
(* cluster has no row left to place; then the centre is swapped to the end.*)
(***************************************************************************)
Swapped(f, i, j) == [f EXCEPT ![i] = f[j], ![j] = f[i]]

RECURSIVE Drain(_, _, _)
Drain(s, k, pos) ==
  IF s.left[k] = 0 THEN s
  ELSE LET l == s.label[pos[k]]
           swapid == pos[l] + s.left[l] - 1
       IN Drain([left |-> [s.left EXCEPT ![l] = @ - 1],
                 order |-> Swapped(s.order, pos[k], swapid),
                 label |-> Swapped(s.label, pos[k], swapid)], k, pos)

CentreLast(order, k, pos, counts, nearest) ==
  LET i == Min({p \in Positions : p >= pos[k] /\ order[p] = nearest[k]})
  IN Swapped(order, i, pos[k] + counts[k] - 1)

RECURSIVE ShuffleFrom(_, _, _)
ShuffleFrom(s, k, pos) ==
  IF k \notin DOMAIN km.counts THEN s.order
  ELSE IF km.counts[k] = 0 THEN ShuffleFrom(s, k + 1, pos)
  ELSE LET d == Drain(s, k, pos)
       IN ShuffleFrom([d EXCEPT !.order = CentreLast(d.order, k, pos, km.counts, km.nearest)],
                      k + 1, pos)

Begins(first, counts) ==
  [k \in DOMAIN counts |-> first + MapThenSumSet(LAMBDA j : counts[j], 0 .. k - 1)]

Shuffle(order, first) ==
  ShuffleFrom([left |-> km.counts, order |-> order, label |-> km.label], 0,
              Begins(first, km.counts))

-----------------------------------------------------------------------------
(***************************************************************************)
(* BuildTrees                                                              *)
(***************************************************************************)
Init ==
  /\ roots = <<>> /\ starts = <<>> /\ stack = <<>>
  /\ indices = [p \in Positions |-> Rows[p + 1]]
  /\ sampleMap = <<>>
  /\ km = NoClustering

Item == stack[Len(stack)]
Rest == SubSeq(stack, 1, Len(stack) - 1)
Finished == Len(starts) = TreeNumber /\ stack = <<>>

StartTree ==
  /\ stack = <<>> /\ Len(starts) < TreeNumber
  /\ starts' = Append(starts, Len(roots))
  /\ roots' = Append(roots, Node(Count))
  /\ stack' = <<[index |-> Len(roots), first |-> 0, last |-> Count]>>
  /\ km' = NoClustering
  /\ UNCHANGED <<indices, sampleMap>>

\* A node is closed before its children are there.
ClosedEarly(grown, index, start) ==
  [grown EXCEPT ![index + 1] = [@ EXCEPT !.childStart = start, !.childEnd = start + 1]]
\* The node is closed; when the stack is empty the tree is ended by a node -1.
Closed(grown, index, start) ==
  [grown EXCEPT ![index + 1] = [@ EXCEPT !.childStart = start, !.childEnd = Len(grown)]]
Ended(grown, left) == IF left = <<>> THEN Append(grown, Node(-1)) ELSE grown

Leaves ==
  /\ stack /= <<>> /\ Item.last - Item.first <= LeafSize
  /\ LET grown == roots \o [j \in 1 .. Item.last - Item.first |-> Node(Cid(Item.first + j - 1))]
     IN roots' = Ended(Closed(grown, Item.index, Len(roots)), Rest)
  /\ stack' = Rest
  /\ km' = NoClustering
  /\ UNCHANGED <<starts, indices, sampleMap>>

DK == IF DynamicK
      THEN Greater(Lesser((Item.last - Item.first) \div LeafSize + 1, KmeansK), 2)
      ELSE KmeansK

InSortedOrder(S) == [i \in 1 .. Cardinality(S) |-> CHOOSE v \in S : Cardinality({u \in S : u < v}) = i - 1]

\* One cluster or none: the rows of the range and the row behind it (the node's
\* own centre) are sorted, the first stands for all.
FoldEnd == Lesser(Item.last + 1, Count)

Fold ==
  LET span == Item.first .. FoldEnd - 1
      sorted == InSortedOrder({indices[p] : p \in span})
      centre == Reverse(sorted[1])
      grown == roots \o [j \in 1 .. Len(sorted) - 1 |-> Node(Reverse(sorted[j + 1]))]
      closed == Closed(grown, Item.index, -Len(roots))
      folded == {Reverse(sorted[j]) : j \in 2 .. Len(sorted)}
      keys == DOMAIN sampleMap \cup folded \cup {-1 - centre}
  IN /\ indices' = [p \in Positions |-> IF p \in span THEN sorted[p - Item.first + 1] ELSE indices[p]]
     /\ roots' = Ended([closed EXCEPT ![Item.index + 1] = [@ EXCEPT !.centerid = centre]], Rest)
     /\ sampleMap' = [c \in keys |-> IF c = -1 - centre THEN Item.index
                                     ELSE IF c \in folded THEN centre ELSE sampleMap[c]]
     /\ stack' = Rest
     /\ km' = NoClustering
     /\ UNCHANGED starts

Full == {k \in DOMAIN km.counts : km.counts[k] > 0}

\* The ranges of the clusters of more than a centre, without it; or with it.
Pushed(ks, pos, end) ==
  SelectSeq([j \in 1 .. Len(ks) |-> [index |-> Len(roots) + j - 1,
                                      first |-> pos[ks[j]], last |-> end[ks[j]]]],
            LAMBDA s : s.first < s.last)

Branch ==
  LET ks == InSortedOrder(Full)
      pos == Begins(Item.first, km.counts)
      end == [k \in Full |-> pos[k] + km.counts[k] - 1]
      pushed == Pushed(ks, pos, end)
  IN /\ indices' = Shuffle(indices, Item.first)
     /\ LET grown == roots \o [j \in 1 .. Len(ks) |-> Node(Reverse(indices'[end[ks[j]]]))]
        IN roots' = Ended(Closed(grown, Item.index, Len(roots)), Rest \o pushed)
     /\ stack' = Rest \o pushed
     /\ km' = [step |-> "placed", first |-> Item.first, last |-> Item.last,
               nearest |-> km.nearest,
               label |-> [v \in {indices[p] : p \in DOMAIN km.label} |->
                            km.label[CHOOSE p \in DOMAIN km.label : indices[p] = v]]]
     /\ UNCHANGED <<starts, sampleMap>>

\* The iterations of TryClustering: they leave the range in any order and with
\* any centres (the first shuffle of BuildTrees is one of theirs).
Iterate ==
  /\ stack /= <<>> /\ Item.last - Item.first > LeafSize /\ km.step \in {"none", "placed"}
  /\ indices' \in Permuted(indices, Item.first, Item.last)
  /\ \E centres \in [0 .. DK - 1 -> {Values[i] : i \in DOMAIN Values}] :
       km' = [step |-> "iterated", centres |-> centres]
  /\ UNCHANGED <<roots, starts, stack, sampleMap>>

\* The centres become the rows nearest to them ...
Settle ==
  /\ km.step = "iterated"
  /\ LET once == KmeansAssign(indices, Item.first, Item.last, km.centres)
     IN km' = [step |-> "settled",
               centres |-> [k \in DOMAIN km.centres |->
                              IF once.nearest[k] = -1 THEN km.centres[k] ELSE Value(once.nearest[k])]]
  /\ UNCHANGED <<roots, starts, stack, indices, sampleMap>>

\* ... and the rows are assigned once more.
Assign ==
  /\ km.step = "settled"
  /\ LET a == KmeansAssign(indices, Item.first, Item.last, km.centres)
     IN km' = [step |-> "assigned", centres |-> km.centres,
               label |-> a.label, counts |-> a.counts, nearest |-> a.nearest]
  /\ UNCHANGED <<roots, starts, stack, indices, sampleMap>>

Cluster == km.step = "assigned" /\ IF Cardinality(Full) <= 1 THEN Fold ELSE Branch

\* SaveTrees and LoadTrees: the sample map is not saved.
Reload ==
  /\ Finished
  /\ roots' = IF roots[Len(roots)].centerid /= -1 THEN Append(roots, Node(-1)) ELSE roots
  /\ sampleMap' = <<>>
  /\ km' = NoClustering
  /\ UNCHANGED <<starts, stack, indices>>

Next == StartTree \/ Leaves \/ Iterate \/ Settle \/ Assign \/ Cluster \/ Reload
Spec == Init /\ [][Next]_vars

-----------------------------------------------------------------------------
Children(n) == LET s == roots[n + 1].childStart
                   from == IF s < 0 THEN -s ELSE s
               IN IF roots[n + 1].childEnd = -1 THEN {} ELSE from .. roots[n + 1].childEnd - 1
Tree(i) == starts[i] .. (IF i < Len(starts) THEN starts[i + 1] ELSE Len(roots)) - 1
Ids == 0 .. Count - 1

TypeOK ==
  /\ \A n \in 1 .. Len(roots) : /\ roots[n].centerid \in -1 .. Count
                                /\ roots[n].childStart \in -Len(roots) .. Len(roots) - 1
                                /\ roots[n].childEnd \in -1 .. Len(roots)
  /\ {indices[p] : p \in Positions} = {Rows[i] : i \in 1 .. Count}
  /\ Len(starts) \in 0 .. TreeNumber

\* In the tree being grown every row is either the centre of exactly one node
\* or in exactly one range still to be grown (BuildTrees; the row behind a
\* range is the centre of the node the range belongs to).
EachRowOnce ==
  \A i \in 1 .. Len(starts) : \A c \in Ids :
    LET nodes == {n \in Tree(i) : roots[n + 1].centerid = c}
        ranges == IF i < Len(starts) THEN {}
                  ELSE {s \in 1 .. Len(stack) :
                          \E p \in stack[s].first .. stack[s].last - 1 : Cid(p) = c}
    IN Cardinality(nodes) + Cardinality(ranges) = 1

\* A node is the child of exactly one node of its tree, a node before it; only
\* the root and the closing node have no parent.
Shaped ==
  \A i \in 1 .. Len(starts) : \A n \in Tree(i) :
    IF n = starts[i] \/ roots[n + 1].centerid = -1
    THEN \A m \in Tree(i) : n \notin Children(m)
    ELSE Cardinality({m \in Tree(i) : n \in Children(m) /\ m < n}) = 1

\* A range still to be grown is followed by the centre of its node: what the
\* fold of a range counts on.
CentreBehind ==
  \A s \in 1 .. Len(stack) :
    LET c == roots[stack[s].index + 1].centerid IN
    IF stack[s].last = Count THEN c = Count ELSE Cid(stack[s].last) = c

\* After a clustering every row lies in the part of its own cluster, the parts
\* in the order of the clusters, each with the cluster's centre last (Shuffle).
Grouped ==
  km.step = "placed" =>
    LET inside == km.first .. km.last - 1
        L(p) == km.label[indices[p]]
    IN \A p \in inside :
         /\ p + 1 \in inside => L(p) <= L(p + 1)
         /\ p + 1 \notin inside \/ L(p) /= L(p + 1)
              => indices[p] = km.nearest[L(p)]

\* However the range is cut into threads, the merged result of an assignment is
\* that of one pass over it: every row has a label, the counts are those of the
\* labels, and a cluster's centre is the last of its rows nearest to it.
MergedRight ==
  km.step = "assigned" =>
    LET inside == Item.first .. Item.last - 1 IN
    /\ DOMAIN km.label = inside
    /\ \A k \in DOMAIN km.counts :
         LET mine == {p \in inside : km.label[p] = k} IN
         /\ km.counts[k] = Cardinality(mine)
         /\ mine /= {} => km.nearest[k] = indices[LastNearest(mine, indices, km.centres[k])]

\* The sample map leads from a folded row to the row that stands for it, and
\* from that row to the node whose children the folded rows are (what the graph
\* search uses to report duplicates).  Of one tree: a second one overwrites the
\* entries of the first.
SampleMapLeads ==
  \A c \in DOMAIN sampleMap :
    IF c >= 0
    THEN /\ -1 - sampleMap[c] \in DOMAIN sampleMap
         /\ \E n \in Children(sampleMap[-1 - sampleMap[c]]) : roots[n + 1].centerid = c
    ELSE /\ roots[sampleMap[c] + 1].centerid = -1 - c
         /\ roots[sampleMap[c] + 1].childStart < 0
=============================================================================
