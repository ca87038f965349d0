------------------------------- MODULE Heaps -------------------------------
(***************************************************************************)
(* The three bounded heaps of a search: QueryResultSet, the answer, which  *)
(* keeps the K best results; DistPriorityQueue, which tells the worst of   *)
(* the best distances and so when to stop; and Heap, the candidates, from  *)
(* which the nearest is taken next and which drops some when it is full.   *)
(* Every point offered goes to all three here.                             *)
(***************************************************************************)
EXTENDS Integers, FiniteSets, SequencesExt

CONSTANTS
  Points,   \* inputs: identifiers with their distance
  K,        \* m_resultNum
  Count,    \* m_count of the DistPriorityQueue
  Length    \* length of the Heap

HeapsAssumption == K \in Nat \ {0} /\ Count \in Nat \ {0} /\ Length \in Nat \ {0}

VARIABLES
  results,  \* QueryResultSet: m_results
  dists,    \* DistPriorityQueue: m_data[1 .. m_length]
  heap,     \* Heap: heap[1 .. count]
  offered,  \* the points added so far
  popped    \* the last point taken, and the points it was taken from

vars == <<results, dists, heap, offered, popped>>

MaxDist == 100
NoResult == [vid |-> -1, dist |-> MaxDist]

(* Results are compared by distance and then by identifier.                *)
Less(p, q) == p.dist < q.dist \/ (p.dist = q.dist /\ p.vid < q.vid)
Nearer(p, q) == p.dist < q.dist

(* What comes first in each heap: the worst result, the greatest distance, *)
(* the nearest candidate.                                                  *)
Before(heapOf, p, q) ==
  CASE heapOf = "results" -> Less(q, p)
    [] heapOf = "dists" -> p > q
    [] heapOf = "heap" -> Nearer(p, q)
Swap(s, i, j) == [s EXCEPT ![i] = s[j], ![j] = s[i]]

(* Sift down from the root while a child comes before it.  The children of *)
(* i are 2i and 2i + 1, in QueryResultSet counted from 0.                  *)
Preferred(h, s, i, n) ==
  IF 2 * i < n /\ Before(h, s[2 * i + 1], s[2 * i]) THEN 2 * i + 1 ELSE 2 * i
RECURSIVE Sink(_, _, _, _)
Sink(h, s, i, n) ==
  LET c == Preferred(h, s, i, n) IN
  IF 2 * i <= n /\ Before(h, s[c], s[i]) THEN Sink(h, Swap(s, i, c), c, n) ELSE s

(* Sift up: parents move down until one comes before the new element.      *)
RECURSIVE Rise(_, _, _)
Rise(h, s, i) ==
  IF i > 1 /\ Before(h, s[i], s[i \div 2]) THEN Rise(h, Swap(s, i, i \div 2), i \div 2) ELSE s

Heapify(s, n) == Sink("results", s, 1, n)

(* AddPoint: the root is the worst result.                                 *)
AddPoint(p) == IF Less(p, results[1]) THEN Heapify([results EXCEPT ![1] = p], K) ELSE results

RECURSIVE SortedShort(_, _)
SortedShort(s, n) == IF n <= 1 THEN s ELSE SortedShort(Heapify(Swap(s, 1, n), n), n - 1)
RECURSIVE Sorted(_, _)
Sorted(s, n) == IF n = 0 THEN s ELSE Sorted(Heapify(Swap(s, 1, n), n - 1), n - 1)
SortResult == Sorted(results, K)

(* DistPriorityQueue::insert: a heap of the greatest distance that starts  *)
(* with one MaxDist in it.                                                 *)
InsertDist(d) ==
  IF d > dists[1] THEN dists
  ELSE IF Len(dists) = Count THEN Sink("dists", [dists EXCEPT ![1] = d], 1, Count)
  ELSE Rise("dists", Append(dists, d), Len(dists) + 1)

(* Heap::insert: into a full heap in the place of the last of the elements *)
(* of the lowest level that no other one of them exceeds.                  *)
Levels(n) == {2^k : k \in 0 .. n}
LastLevel == CHOOSE l \in Levels(Length) : l <= Length /\ 2 * l > Length
Dropped == CHOOSE i \in LastLevel .. Length :
             /\ \A j \in LastLevel .. Length : ~Nearer(heap[i], heap[j])
             /\ \A j \in LastLevel .. i - 1 : Nearer(heap[j], heap[i])
InsertHeap(p) ==
  IF Len(heap) < Length THEN Rise("heap", Append(heap, p), Len(heap) + 1)
  ELSE IF Nearer(heap[Dropped], p) THEN heap
  ELSE Rise("heap", [heap EXCEPT ![Dropped] = p], Dropped)

Init ==
  /\ results = [i \in 1 .. K |-> NoResult]
  /\ dists = <<MaxDist>>
  /\ heap = <<>>
  /\ offered = {}
  /\ popped = [point |-> NoResult, from |-> {NoResult}]

Add(p) ==
  /\ p \notin offered
  /\ results' = AddPoint(p)
  /\ dists' = InsertDist(p.dist)
  /\ heap' = InsertHeap(p)
  /\ offered' = offered \cup {p}
  /\ popped' = popped

(* Heap::pop.                                                              *)
Pop ==
  /\ heap # <<>>
  /\ LET n == Len(heap) IN
       /\ popped' = [point |-> heap[1], from |-> Range(heap)]
       /\ heap' = SubSeq(Sink("heap", Swap(heap, 1, n), 1, n - 1), 1, n - 1)
  /\ UNCHANGED <<results, dists, offered>>

Next == (\E p \in Points : Add(p)) \/ Pop
Spec == Init /\ [][Next]_vars

-----------------------------------------------------------------------------
TypeOK ==
  /\ results \in [1 .. K -> Points \cup {NoResult}]
  /\ Len(dists) \in 1 .. Count /\ Len(heap) \in 0 .. Length
  /\ Range(heap) \subseteq offered

Rank(p) == Cardinality({q \in offered : Less(q, p)})
Best == {p \in offered : Rank(p) < K}

(* The answer is the K best of the points added, in the order of SortResult *)
(* from the best to the worst, with empty results at the end.              *)
KeepsBest == {results[i] : i \in 1 .. K} \ {NoResult} = Best
SortedBest ==
  \A i \in 1 .. K : SortResult[i] = IF i <= Cardinality(Best) THEN CHOOSE p \in Best : Rank(p) = i - 1 ELSE NoResult

(* worst() is the Count-th distance, and no bound before there are Count.  *)
WorstOfCount ==
  dists[1] = IF Cardinality(offered) < Count THEN MaxDist
             ELSE CHOOSE d \in {p.dist : p \in offered} :
                    /\ Cardinality({p \in offered : p.dist < d}) < Count
                    /\ Cardinality({p \in offered : p.dist <= d}) >= Count

(* The candidate taken is the nearest of those in the heap.                *)
PopsNearest == \A p \in popped.from : ~Nearer(p, popped.point)

=============================================================================
