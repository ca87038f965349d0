----------------------------- MODULE GraphUpdate -----------------------------
(***************************************************************************)
(* Rows added to the head index while others are: a batch of rows is       *)
(* appended under the add lock and has no neighbours; every row is then    *)
(* linked without that lock: a search of the graph as it is at each step,  *)
(* its own cells written without a lock, and itself inserted into the      *)
(* cells of every row found, under that row's lock.  Row locks are hashed. *)
(* A vector is its value on a line.                                        *)
(***************************************************************************)
EXTENDS Integers, Sequences, FiniteSets, SequencesExt

CONSTANTS Values, Graph,    \* of the rows there are: values, and cells
          Roots,            \* the rows the trees hold
          AllBatches,       \* the values each thread adds, in one batch: any of these
          NeighborhoodSize, AddCEF,
          Capacity,         \* rows the arrays can hold
          Locks,            \* FineGrainedLock: rows share row % Locks
          MaxRebuilds


GraphUpdateAssumption ==
  /\ Len(Values) = Len(Graph) /\ Roots \subseteq 0 .. Len(Values) - 1
  /\ \A i \in DOMAIN Graph : Len(Graph[i]) = NeighborhoodSize
  /\ \A b, c \in AllBatches : DOMAIN b = DOMAIN c
  /\ {NeighborhoodSize, AddCEF, Locks} \subseteq Nat \ {0}

VARIABLES batches,          \* thread -> the values it adds
          values, graph,    \* m_pSamples and m_pGraph, row r at r + 1
          roots,            \* the rows of m_pTrees
          todo,             \* thread -> rows it still has to link; <<>> before and after
          job,              \* thread -> what it does for the first of them
          owner,            \* row lock -> the thread that holds it, or "none"
          rebuilds
vars == <<batches, values, graph, roots, todo, job, owner, rebuilds>>

Threads == DOMAIN batches
Rows == 0 .. Len(values) - 1
Apart(a, b) == IF a < b THEN b - a ELSE a - b
Dist(r, s) == Apart(values[r + 1], values[s + 1])
Cells(r) == graph[r + 1]
Lock(r) == r % Locks
Empty == [i \in 1 .. NeighborhoodSize |-> -1]

\* The rows a reader of the cells goes on to: up to the first that is negative.
Prefix(cells) ==
  LET n == SelectInSeq(cells, LAMBDA c : c < 0) IN IF n = 0 THEN cells ELSE SubSeq(cells, 1, n - 1)

Nearer(row, a, b) == Dist(row, a) < Dist(row, b) \/ (Dist(row, a) = Dist(row, b) /\ a < b)
Rank(row, S, r) == Cardinality({s \in S : Nearer(row, s, r)})
Results(row, S) ==
  [i \in 1 .. (IF Cardinality(S) < AddCEF + 1 THEN Cardinality(S) ELSE AddCEF + 1)
     |-> CHOOSE r \in S : Rank(row, S, r) = i - 1]

(***************************************************************************)
(* RelativeNeighborhoodGraph::RebuildNeighbors: a result is taken unless a *)
(* row taken before is nearer to it than the node is.                      *)
(***************************************************************************)
Taken(row, taken, r) ==
  /\ Len(taken) < NeighborhoodSize /\ r /= row
  /\ \A i \in DOMAIN taken : Dist(taken[i], r) >= Dist(row, r)

RebuildNeighbors(row, results) ==
  LET taken == FoldLeft(LAMBDA t, r : IF Taken(row, t, r) THEN Append(t, r) ELSE t, <<>>, results)
  IN [i \in 1 .. NeighborhoodSize |-> IF i <= Len(taken) THEN taken[i] ELSE -1]

(***************************************************************************)
(* InsertNeighbors: the cells stay ordered by distance.  The new row goes  *)
(* before the first farther one and the others move along until one is     *)
(* nearer to the new row than to the node; it is dropped.  The new row is  *)
(* not inserted behind a row that is nearer to it than the node.           *)
(***************************************************************************)
Room(cells) == IF cells[NeighborhoodSize] < -1 THEN NeighborhoodSize - 1 ELSE NeighborhoodSize

\* The first row moved along is moved to every cell behind.
ShiftRepeats(cells, k, tmp, node, new) ==
  [j \in DOMAIN cells |-> IF j \in k .. Room(cells) THEN tmp ELSE cells[j]]

RECURSIVE Shift(_, _, _, _, _)
Shift(cells, k, tmp, node, new) ==
  IF k > Room(cells) \/ Dist(tmp, node) > Dist(tmp, new) THEN cells
  ELSE IF cells[k] < 0 THEN [cells EXCEPT ![k] = tmp]
  ELSE Shift([cells EXCEPT ![k] = tmp], k + 1, cells[k], node, new)

Moved(cells, k, tmp, node, new) == Shift(cells, k, tmp, node, new)

RECURSIVE InsertFrom(_, _, _, _)
InsertFrom(cells, k, node, new) ==
  IF k > Room(cells) THEN cells
  ELSE IF cells[k] < 0 THEN [cells EXCEPT ![k] = new]
  ELSE IF Nearer(node, new, cells[k])
       THEN Moved([cells EXCEPT ![k] = new], k + 1, cells[k], node, new)
  ELSE IF Dist(cells[k], new) < Dist(node, new) THEN cells
  ELSE InsertFrom(cells, k + 1, node, new)

InsertNeighbors(cells, node, new) == InsertFrom(cells, 1, node, new)

(***************************************************************************)
(* The operations.                                                         *)
(***************************************************************************)
NoJob == [step |-> "none"]
Search == [step |-> "search", seen |-> roots, queue |-> roots]

Fits(n, m) == n + m <= Capacity
GraphGrown(n) == [i \in 1 .. n |-> Empty]

\* AddIndex up to the release of m_dataAddLock; AddIndexId.  The arrays grow
\* together or are set back.
AddIndexId(t) ==
  /\ todo[t] = <<>> /\ job[t] = NoJob
  /\ LET n == Len(values)
         m == Len(batches[t])
     IN IF Fits(n, m)
        THEN /\ values' = values \o batches[t]
             /\ graph' = graph \o GraphGrown(m)
             /\ todo' = [todo EXCEPT ![t] = [i \in 1 .. m |-> n + i - 1]]
             /\ job' = [job EXCEPT ![t] = [step |-> "next"]]
        ELSE /\ job' = [job EXCEPT ![t] = [step |-> "ended"]]
             /\ UNCHANGED <<batches, values, graph, todo>>
  /\ UNCHANGED <<batches, roots, owner, rebuilds>>

\* RefineNode for the next row of [begin, end): AddIndexIdx, and AddIndex.
BeginRefine(t) ==
  /\ job[t].step = "next"
  /\ job' = [job EXCEPT ![t] = IF todo[t] = <<>> THEN [step |-> "ended"] ELSE Search]
  /\ UNCHANGED <<batches, values, graph, roots, todo, owner, rebuilds>>

\* RefineSearchIndex: one turn of the search, as Search of the index does it.
Visit(t) ==
  /\ job[t].step = "search" /\ job[t].queue /= {}
  /\ LET r == CHOOSE q \in job[t].queue : Rank(Head(todo[t]), job[t].queue, q) = 0
         new == {c \in ToSet(Prefix(Cells(r))) : c \notin job[t].seen}
     IN job' = [job EXCEPT ![t].seen = @ \cup new, ![t].queue = (@ \ {r}) \cup new]
  /\ UNCHANGED <<batches, values, graph, roots, todo, owner, rebuilds>>

\* The results are in: the row's cells are filled, which takes a while.
BeginRebuild(t) ==
  /\ job[t].step = "search" /\ job[t].queue = {}
  /\ LET found == Results(Head(todo[t]), job[t].seen)
     IN job' = [job EXCEPT ![t] = [step |-> "rebuild", results |-> found,
                                   old |-> Cells(Head(todo[t]))]]
  /\ UNCHANGED <<batches, values, graph, roots, todo, owner, rebuilds>>

EndRebuild(t) ==
  /\ job[t].step = "rebuild"
  /\ LET row == Head(todo[t]) IN
     /\ graph' = [graph EXCEPT ![row + 1] = RebuildNeighbors(row, job[t].results)]
     /\ job' = [job EXCEPT ![t] = [step |-> "insert",
                                   left |-> SelectSeq(job[t].results, LAMBDA r : r /= row)]]
  /\ UNCHANGED <<batches, values, roots, todo, owner, rebuilds>>

Free(r) == owner[Lock(r)] = "none"
StillHeld(r, t) == t
Unlocked(r, t) == "none"

LockRow(t) ==
  /\ job[t].step = "insert" /\ job[t].left /= <<>>
  /\ Free(Head(job[t].left))
  /\ owner' = [owner EXCEPT ![Lock(Head(job[t].left))] = t]
  /\ job' = [job EXCEPT ![t] = [step |-> "locked", left |-> job[t].left,
                                cells |-> Cells(Head(job[t].left))]]
  /\ UNCHANGED <<batches, values, graph, roots, todo, rebuilds>>

InsertRow(t) ==
  /\ job[t].step = "locked"
  /\ LET r == Head(job[t].left) IN
     /\ graph' = [graph EXCEPT ![r + 1] = InsertNeighbors(job[t].cells, r, Head(todo[t]))]
     /\ owner' = [owner EXCEPT ![Lock(r)] = Unlocked(r, t)]
  /\ job' = [job EXCEPT ![t] = [step |-> "insert", left |-> Tail(job[t].left)]]
  /\ UNCHANGED <<batches, values, roots, todo, rebuilds>>

EndRefine(t) ==
  /\ job[t].step = "insert" /\ job[t].left = <<>>
  /\ todo' = [todo EXCEPT ![t] = Tail(@)]
  /\ job' = [job EXCEPT ![t] = [step |-> "next"]]
  /\ UNCHANGED <<batches, values, graph, roots, owner, rebuilds>>

\* RebuildJob of AddIndex: trees of all the rows there are.  It waits for the
\* searches, which share the trees' lock.
RebuildTrees ==
  /\ rebuilds < MaxRebuilds
  /\ \A t \in Threads : job[t].step /= "search"
  /\ roots' = Rows
  /\ rebuilds' = rebuilds + 1
  /\ UNCHANGED <<batches, values, graph, todo, job, owner>>

Init ==
  /\ batches \in AllBatches
  /\ values = Values /\ graph = Graph /\ roots = Roots /\ rebuilds = 0
  /\ todo = [t \in Threads |-> <<>>] /\ job = [t \in Threads |-> NoJob]
  /\ owner = [l \in 0 .. Locks - 1 |-> "none"]

Step(t) ==
  \/ AddIndexId(t) \/ BeginRefine(t) \/ Visit(t) \/ BeginRebuild(t) \/ EndRebuild(t)
  \/ LockRow(t) \/ InsertRow(t) \/ EndRefine(t)

Next == (\E t \in Threads : Step(t)) \/ RebuildTrees

\* A thread of the pool keeps running, and a row lock is given to a waiting
\* thread in the end.
AllThreads == UNION {DOMAIN b : b \in AllBatches}
Spec == Init /\ [][Next]_vars
FairSpec == Spec /\ \A t \in AllThreads : WF_vars(Step(t)) /\ SF_vars(LockRow(t))

(***************************************************************************)
(* The properties.                                                         *)
(***************************************************************************)
Ended == \A t \in Threads : job[t].step = "ended"

\* The arrays have the same rows, a lock is held by the thread that writes
\* under it.
TypeOK ==
  /\ Len(values) = Len(graph) /\ Len(values) <= Capacity /\ roots \subseteq Rows
  /\ \A l \in DOMAIN owner : owner[l] /= "none" => job[owner[l]].step = "locked"

\* A row's cells name other rows, each once, and then nothing.
WellFormed ==
  \A r \in Rows :
    LET p == Prefix(Cells(r)) IN
    /\ \A i \in DOMAIN p : p[i] \in Rows \ {r}
    /\ \A i, j \in DOMAIN p : p[i] = p[j] => i = j
    /\ \A i \in Len(p) + 1 .. NeighborhoodSize : Cells(r)[i] < 0

\* A row's cells are what they were when a writer began with them: no insertion
\* is overwritten by another thread's, nor by the first filling of the row.
NoneOverwritten ==
  \A t \in Threads :
    /\ job[t].step = "locked" => Cells(Head(job[t].left)) = job[t].cells
    /\ job[t].step = "rebuild" => Cells(Head(todo[t])) = job[t].old

\* The cell that leads to the rows equal to a row stays.
LinkStays ==
  \A i \in DOMAIN Graph : Last(Graph[i]) < -1 => Last(graph[i]) = Last(Graph[i])

RECURSIVE Reach(_)
Reach(S) == LET T == S \cup UNION {ToSet(Prefix(Cells(r))) : r \in S} IN IF T = S THEN S ELSE Reach(T)

\* When the threads are done every row can be reached from the trees.
AllReached == Ended => Reach(roots) = Rows

\* Rows that could be reached before the threads began still can be.
StillReached == Ended => 0 .. Len(Values) - 1 \subseteq Reach(roots)

\* Every batch is dealt with, no thread waits for another for ever.
EndsWell == <>Ended
=============================================================================
