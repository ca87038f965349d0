---------------------------- MODULE HeadSelection ----------------------------
(***************************************************************************)
(* The choice of the head vectors (SelectHeadInternal): the options are    *)
(* adjusted to the number of vectors, and a balanced k-means tree is cut   *)
(* into groups, each giving one head or, if it is large, several.  Two     *)
(* thresholds decide; every select threshold is tried, and for each the    *)
(* split threshold is bisected until the share of heads is near m_ratio.   *)
(* A tree is a parent function: node 0 is the root, which stands for no    *)
(* vector, and node n > 0 is the vector n - 1.  A node whose vectors the   *)
(* clustering could not part is folded: it has one of them for its centre  *)
(* and the others behind it, where the selection does not look.            *)
(***************************************************************************)
EXTENDS Integers, Sequences, FiniteSets, FiniteSetsExt

CONSTANTS Count,           \* the number of vectors
          Options,         \* the option records a selection may start with
          LeafSize         \* m_iBKTLeafSize

\* A ratio is a pair; the number of heads asked for is at most that of the
\* vectors (a larger one makes the random selection repeat vector 0).
HeadSelectionAssumption ==
  /\ Count \in Nat \ {0} /\ LeafSize \in Nat \ {0}
  /\ \A o \in Options :
       /\ o.ratio \in Nat \X (Nat \ {0}) /\ o.ratio[1] <= o.ratio[2]
       /\ o.headVectorCount \in 0 .. Count
       /\ o.kmeansK \in Nat \ {0}
       /\ {o.selectThreshold, o.splitThreshold, o.splitFactor} \subseteq Nat
       /\ o.selectType \in {"Random", "BKT"}

VARIABLES opts,      \* m_options
          parent,    \* the tree, once it is built
          folded,    \* its nodes whose childStart is negative
          pc,
          try,       \* the thresholds under trial and the bounds of the bisection
          best,      \* the best thresholds so far and minDiff
          selected
vars == <<opts, parent, folded, pc, try, best, selected>>

Nodes == 0 .. Count
Lesser(a, b) == IF a < b THEN a ELSE b
Greater(a, b) == IF a < b THEN b ELSE a
Abs(a) == IF a < 0 THEN -a ELSE a

\* The nearest integer to a / b, the larger of two.
Round(a, b) == (2 * a + b) \div (2 * b)
HeadCount(o) == Round(o.ratio[1] * Count, o.ratio[2])

(***************************************************************************)
(* SelectHeadAdjustOptions                                                 *)
(***************************************************************************)
WithRatio(o) ==
  LET asked == IF o.headVectorCount /= 0
               THEN [o EXCEPT !.ratio = <<o.headVectorCount, Count>>] ELSE o
  IN IF HeadCount(asked) = 0 THEN [asked EXCEPT !.ratio = <<1, Count>>] ELSE asked

WithThresholds(o) ==
  LET select == IF o.selectThreshold /= 0 THEN o.selectThreshold
                ELSE Lesser(Count - 1, o.ratio[2] \div o.ratio[1])
      split == IF o.splitThreshold /= 0 THEN o.splitThreshold
               ELSE Lesser(Count - 1, 2 * select)
      factor == IF o.splitFactor /= 0 THEN o.splitFactor
                ELSE Lesser(Count - 1, Round(o.ratio[2], o.ratio[1]))
  IN [o EXCEPT !.kmeansK = Lesser(@, HeadCount(o)), !.selectThreshold = select,
               !.splitThreshold = split, !.splitFactor = factor]

AdjustOptions(o) == WithThresholds(WithRatio(o))

(***************************************************************************)
(* SelectHeadDynamicallyInternal.  Children come after their parent, so    *)
(* the sizes are a function defined from the last node to the first: what  *)
(* a node passes up to its parent.                                         *)
(***************************************************************************)
Below(n) == {c \in Nodes \ {0} : parent[c] = n}
Children(n) == IF n \in folded THEN {} ELSE Below(n)

\* The root's centre is the number of vectors, or, if the root is folded, the
\* first of them.
Centre(n) == IF n > 0 THEN n - 1 ELSE IF 0 \in folded THEN 0 ELSE Count

Visited == {n \in Nodes : n = 0 \/ parent[n] \notin folded}

Passed(size, select) == IF size >= select THEN 0 ELSE size

Size(select) ==
  LET open[n \in Nodes] ==
        Passed(1 + MapThenSumSet(LAMBDA c : open[c], Children(n)), select)
  IN [n \in Nodes |-> 1 + MapThenSumSet(LAMBDA c : open[c], Children(n))]

\* The children that pass something up, the largest first and equal ones in
\* their order.
Ahead(sizes, select, c, d) ==
  LET a == Passed(sizes[c], select)  b == Passed(sizes[d], select)
  IN a > b \/ (a = b /\ c < d)
Largest(sizes, select, n, k) ==
  LET open == {c \in Children(n) : Passed(sizes[c], select) > 0}
  IN {c \in open : Cardinality({d \in open : Ahead(sizes, select, d, c)}) < k}

Closed(sizes, select) == {n \in Visited : sizes[n] >= select}

\* The root taken for a vector like any other node.
HeadsWithRoot(select, split, factor) ==
  LET sizes == Size(select)
      closed == Closed(sizes, select)
      count(n) == (sizes[n] + factor - 1) \div factor
  IN {n - 1 : n \in closed}
     \cup {c - 1 : c \in UNION {Largest(sizes, select, n, count(n)) :
                                  n \in {m \in closed : sizes[m] > split}}}

Heads(select, split, factor) ==
  LET sizes == Size(select)
      closed == Closed(sizes, select)
      count(n) == (sizes[n] + factor - 1) \div factor
  IN {Centre(n) : n \in {m \in closed : Centre(m) < Centre(0)}}
     \cup {Centre(c) : c \in UNION {Largest(sizes, select, n, count(n)) :
                                  n \in {m \in closed : sizes[m] > split}}}

\* The share of heads less m_ratio, times Count and the ratio's denominator.
Diff(heads) == Cardinality(heads) * opts.ratio[2] - Count * opts.ratio[1]
Enough == 100 * Count * opts.ratio[2]      \* minDiff at first

-----------------------------------------------------------------------------
\* A tree of every shape, children in one run of nodes.
Trees == {f \in [1 .. Count -> 0 .. Count - 1] :
            /\ \A n \in 1 .. Count : f[n] < n
            /\ \A n \in 1 .. Count - 1 : f[n] <= f[n + 1]}

\* The nodes of a tree that may be folded: more vectors than a leaf takes, all of
\* them right behind the node.
Foldable(f) ==
  {n \in Nodes : LET below == {c \in 1 .. Count : f[c] = n}
                 IN /\ Cardinality(below) > LeafSize
                    /\ \A c \in below : c \notin {f[d] : d \in 1 .. Count}}

Init ==
  /\ opts \in Options
  /\ parent = [n \in 1 .. Count |-> 0] /\ folded = {}
  /\ pc = "adjust"
  /\ try = [select |-> 0, split |-> 0, l |-> 0, r |-> 0]
  /\ best = [select |-> 0, split |-> 0, diff |-> 0]
  /\ selected = {}

Adjust ==
  /\ pc = "adjust"
  /\ opts' = AdjustOptions(opts)
  /\ pc' = IF Count = 1 THEN "done" ELSE opts.selectType
  /\ selected' = IF Count = 1 THEN {0} ELSE {}
  /\ UNCHANGED <<parent, folded, try, best>>

Random ==
  /\ pc = "Random"
  /\ \E heads \in kSubset(HeadCount(opts), 0 .. Count - 1) : selected' = heads
  /\ pc' = "done"
  /\ UNCHANGED <<opts, parent, folded, try, best>>

BuildTree ==
  /\ pc = "BKT"
  /\ \E f \in Trees : parent' = f /\ folded' \in SUBSET Foldable(f)
  /\ pc' = IF HeadCount(opts) >= Count THEN "all" ELSE "trial"
  /\ try' = [select |-> 2, split |-> opts.splitThreshold,
             l |-> opts.splitFactor, r |-> opts.splitThreshold]
  /\ best' = [select |-> opts.selectThreshold, split |-> opts.splitThreshold, diff |-> Enough]
  /\ UNCHANGED <<opts, selected>>

SelectAll ==
  /\ pc = "all"
  /\ selected' = 0 .. Count - 1
  /\ pc' = "done"
  /\ UNCHANGED <<opts, parent, folded, try, best>>

TooMany(diff) == diff > 0
Improves(diff) == best.diff > Abs(diff)
WideNext(l, r) == l < r
Wide(l, r) == l < r - 1

Bisect ==
  /\ pc = "trial" /\ try.select <= opts.selectThreshold /\ Wide(try.l, try.r)
  /\ LET mid == (try.l + try.r) \div 2
         diff == Diff(Heads(try.select, mid, opts.splitFactor))
     IN /\ try' = IF TooMany(diff) THEN [try EXCEPT !.split = mid, !.l = mid]
                  ELSE [try EXCEPT !.split = mid, !.r = mid]
        /\ best' = IF Improves(diff)
                   THEN [select |-> try.select, split |-> mid, diff |-> Abs(diff)] ELSE best
  /\ UNCHANGED <<opts, parent, folded, pc, selected>>

NextSelect ==
  /\ pc = "trial" /\ try.select <= opts.selectThreshold /\ ~Wide(try.l, try.r)
  /\ try' = [select |-> try.select + 1, split |-> opts.splitThreshold,
             l |-> opts.splitFactor, r |-> opts.splitThreshold]
  /\ UNCHANGED <<opts, parent, folded, pc, best, selected>>

Finish ==
  /\ pc = "trial" /\ try.select > opts.selectThreshold
  /\ LET heads == Heads(best.select, best.split, opts.splitFactor)
     IN /\ selected' = heads
        /\ pc' = IF heads = {} THEN "failed" ELSE "done"
  /\ UNCHANGED <<opts, parent, folded, try, best>>

Next == Adjust \/ Random \/ BuildTree \/ SelectAll \/ Bisect \/ NextSelect \/ Finish
Spec == Init /\ [][Next]_vars
\* The selection is one thread's loop.
FairSpec == Spec /\ WF_vars(Next)

-----------------------------------------------------------------------------
TypeOK ==
  /\ pc \in {"adjust", "Random", "BKT", "all", "trial", "done", "failed"}
  /\ parent \in [1 .. Count -> 0 .. Count - 1] /\ folded \subseteq Nodes
  /\ {try.select, try.split, try.l, try.r, best.select, best.split, best.diff} \subseteq Nat

\* The heads are vectors of the set, never the root that stands for none, and
\* there is one unless the selection says it failed (SelectHeadInternal).
HeadsReal ==
  /\ selected \subseteq 0 .. Count - 1
  /\ pc = "done" => selected /= {}

\* The thresholds the bisection ends with are as good as any it could have
\* tried: no select threshold from 2 on and no split threshold strictly between
\* the split factor and the split threshold brings the share of heads nearer to
\* m_ratio (SelectHeadDynamically; the bisection counts on fewer heads for a
\* larger split threshold).
BestOfAll ==
  pc \in {"done", "failed"} /\ opts.selectType = "BKT" /\ Count > 1 /\ HeadCount(opts) < Count =>
    \A select \in 2 .. opts.selectThreshold, split \in opts.splitFactor + 1 .. opts.splitThreshold - 1 :
      Abs(Diff(selected)) <= Abs(Diff(Heads(select, split, opts.splitFactor)))

\* Between the groups and what the root is left with every node is counted
\* once, whatever the select threshold (the sizes passed up the tree), but for
\* the vectors behind a folded node, which are never counted and never heads.
GroupsCover ==
  pc = "trial" =>
    LET sizes == Size(try.select)
    IN /\ MapThenSumSet(LAMBDA n : sizes[n], Closed(sizes, try.select))
            + Passed(sizes[0], try.select) = Cardinality(Visited)
       /\ \A n \in Nodes \ Visited : n - 1 \notin Heads(try.select, try.split, opts.splitFactor)

\* Every vector is counted, those behind a folded node too.
\* The code does not keep this: README, Disagreements.  No run checks it.
AllCounted == pc = "trial" => Cardinality(Visited) = Count + 1

\* Nothing is divided by zero after the adjustment: the ratio asks for a head
\* and the split factor is positive where a group may be split.
Divisible ==
  pc \notin {"adjust", "done"} => HeadCount(opts) > 0 /\ opts.splitFactor > 0

\* "clustering the data into BKTKmeansK clusters" (BuildTrees; the number the
\* clustering's arrays are allocated for): the number of clusters of the root.
\* The code does not keep this: README, Disagreements.  No run checks it.
ClustersFit ==
  pc = "BKT" /\ Count > LeafSize =>
    Greater(Lesser(Count \div LeafSize + 1, opts.kmeansK), 2) <= opts.kmeansK

\* The selection comes to an end.
SelectEnds == <>(pc \in {"done", "failed"})
=============================================================================
