---------------------------- MODULE UpdateDays -----------------------------
(***************************************************************************)
(* The steady-state experiment.  The UsefulTool and the truth generator    *)
(* write its files: for each day the rows to delete and to insert, the     *)
(* rows then in the index and those in reserve, and the true neighbours of *)
(* the queries among the former, converted from places in the data set of  *)
(* the day to rows.  SteadyStateSPFresh deletes the rows of the day by one *)
(* thread while others insert the new ones, both through a table that maps *)
(* a row to its identifier in the index; when both are done the recall of  *)
(* the index is measured against the truth of the day.  A vector is its    *)
(* value on a line, and the index is exact here: what a search may miss is *)
(* the matter of other modules.                                            *)
(***************************************************************************)
EXTENDS Integers, Sequences, FiniteSets, FiniteSetsExt, SequencesExt

CONSTANTS Value,             \* row -> its value
          QueryValue,        \* query -> its value
          BaseNum, ReserveNum, UpdateSize, Days,
          ResultNum,         \* neighbours asked for, K
          StressTest,        \* every day deletes rows and inserts them again
          Inserters,
          InternalResultNum,  \* results of a search
          InPlace,            \* m_inPlace as configured
          ToFile              \* results are written, and the tool works out the recall

Rows == 0 .. BaseNum + ReserveNum - 1
Queries == DOMAIN QueryValue

UpdateDaysAssumption ==
  /\ {BaseNum, UpdateSize, ResultNum} \subseteq Nat \ {0} /\ ReserveNum \in Nat /\ Days \in Nat
  /\ UpdateSize <= BaseNum /\ (~StressTest => UpdateSize <= ReserveNum)
  /\ ResultNum <= BaseNum /\ Rows \subseteq DOMAIN Value
  /\ InternalResultNum >= ResultNum /\ {InPlace, ToFile} \subseteq BOOLEAN

VARIABLES traces,    \* day -> rows to delete and to insert, in order
          current,   \* day -> rows in the index when it is over, sorted
          reserve,
          truths     \* day -> query -> what the truth file has
files == <<traces, current, reserve, truths>>

Apart(a, b) == IF a < b THEN b - a ELSE a - b
Sorted(S) == [i \in 1 .. Cardinality(S) |-> CHOOSE x \in S : Cardinality({y \in S : y < x}) = i - 1]
Day == Len(traces)

\* InitializeList: the lists the day before left, or the first rows and the rest.
BeforeCurrent == IF Day = 0 THEN Sorted(0 .. BaseNum - 1) ELSE current[Day]
BeforeReserve == IF Day = 0 THEN Sorted(BaseNum .. BaseNum + ReserveNum - 1) ELSE reserve[Day]

Reserved(res, del, add) == Sorted((res \ add) \cup del)

SaveUpdateTrace(del, add) == traces' = Append(traces, [delete |-> del, insert |-> add])
SaveUpdateMapping(cur, res) == current' = Append(current, cur) /\ reserve' = Append(reserve, res)

\* Of the shuffled lists the last rows are taken: any rows.
GenerateTrace ==
  /\ ~StressTest /\ Day < Days
  /\ LET cur == ToSet(BeforeCurrent)
         res == ToSet(BeforeReserve)
     IN \E del \in kSubset(UpdateSize, cur), add \in kSubset(UpdateSize, res) :
          /\ SaveUpdateTrace(Sorted(del), Sorted(add))
          /\ SaveUpdateMapping(Sorted((cur \ del) \cup add), Reserved(res, del, add))
  /\ UNCHANGED truths

\* All days use the rows the index began with.
GenerateStressTest ==
  /\ StressTest /\ Day < Days
  /\ \E again \in kSubset(UpdateSize, 0 .. BaseNum - 1) : SaveUpdateTrace(<<>>, Sorted(again))
  /\ SaveUpdateMapping(Sorted(0 .. BaseNum - 1), BeforeReserve)
  /\ UNCHANGED truths

\* GenerateTruth on the data set of the day, whose place i is the day's i-th row.
Nearest(q, list) ==
  LET Far(i) == Apart(QueryValue[q], Value[list[i]])
      Before(i, j) == Far(i) < Far(j) \/ (Far(i) = Far(j) /\ i < j)
  IN [k \in 1 .. ResultNum |->
        CHOOSE i \in DOMAIN list : Cardinality({j \in DOMAIN list : Before(j, i)}) = k - 1]

ConvertTruth(list, places) == [k \in DOMAIN places |-> list[places[k]]]

GenerateTruth ==
  /\ Len(truths) < Day /\ Day = Days
  /\ LET list == current[Len(truths) + 1] IN
     truths' = Append(truths, [q \in Queries |-> ConvertTruth(list, Nearest(q, list))])
  /\ UNCHANGED <<traces, current, reserve>>

TraceInit == traces = <<>> /\ current = <<>> /\ reserve = <<>> /\ truths = <<>>
TraceNext == GenerateTrace \/ GenerateStressTest \/ GenerateTruth

VARIABLES pc, day,
          mapping,      \* row -> identifier
          vec, live,    \* identifier -> row at id + 1; identifiers not deleted
          found,        \* identifiers a search finds
          sent, ins, at,        \* the insertion: next place, threads, places drawn
          deletes, del,         \* the deletion: next place, its thread
          inPlace,
          outputs,      \* day -> query -> the results written
          recall        \* day -> query -> true neighbours found
vars == <<files, pc, day, mapping, vec, live, found, sent, ins, at, deletes, del, inPlace, outputs, recall>>

Trace == traces[day]
Inserted == \A i \in Inserters : ins[i] = "out"

(***************************************************************************)
(* A thread of InsertVectorsBySet.                                         *)
(***************************************************************************)
Draw(i) ==
  /\ ins[i] = "draw"
  /\ sent' = sent + 1
  /\ IF sent < UpdateSize
     THEN at' = [at EXCEPT ![i] = sent + 1] /\ ins' = [ins EXCEPT ![i] = IF StressTest THEN "delete" ELSE "add"]
     ELSE ins' = [ins EXCEPT ![i] = "out"] /\ UNCHANGED at
  /\ UNCHANGED <<files, pc, day, mapping, vec, live, found, deletes, del, inPlace, outputs, recall>>

RowOf(i) == Trace.insert[at[i]]

DeleteFirst(i) ==
  /\ ins[i] = "delete"
  /\ live' = live \ {mapping[RowOf(i)]}
  /\ ins' = [ins EXCEPT ![i] = "add"]
  /\ UNCHANGED <<files, pc, day, mapping, vec, found, sent, at, deletes, del, inPlace, outputs, recall>>

Map(i) == mapping' = [mapping EXCEPT ![RowOf(i)] = Len(vec)]

AddIndexSPFresh(i) ==
  /\ ins[i] = "add"
  /\ vec' = Append(vec, RowOf(i)) /\ live' = live \cup {Len(vec)}
  /\ Map(i)
  /\ ins' = [ins EXCEPT ![i] = "append"]
  /\ UNCHANGED <<files, pc, day, found, sent, at, deletes, del, inPlace, outputs, recall>>

AppendVector(i) ==
  /\ ins[i] = "append"
  /\ \E v \in live \ found : vec[v + 1] = RowOf(i) /\ found' = found \cup {v}
  /\ ins' = [ins EXCEPT ![i] = "draw"]
  /\ UNCHANGED <<files, pc, day, mapping, vec, live, sent, at, deletes, del, inPlace, outputs, recall>>

(***************************************************************************)
(* The thread of DeleteVectorsBySet.                                       *)
(***************************************************************************)
DeleteNext ==
  /\ del = "draw"
  /\ deletes' = deletes + 1
  /\ IF deletes < UpdateSize
     THEN live' = live \ {mapping[Trace.delete[deletes + 1]]} /\ UNCHANGED del
     ELSE del' = "out" /\ UNCHANGED live
  /\ UNCHANGED <<files, pc, day, mapping, vec, found, sent, ins, at, inPlace, outputs, recall>>

(***************************************************************************)
(* SearchDiskIndex, exact, and CalculateRecallSPFresh, which compares      *)
(* distances and uses each result once.                                    *)
(***************************************************************************)
Far(q, r) == Apart(QueryValue[q], Value[r])
NoResult == [id |-> -1, dist |-> 1000]
Results(q) ==
  LET ids == live \cap found
      Before(v, w) == Far(q, vec[v + 1]) < Far(q, vec[w + 1]) \/ (Far(q, vec[v + 1]) = Far(q, vec[w + 1]) /\ v < w)
      Ith(k) == CHOOSE v \in ids : Cardinality({w \in ids : Before(w, v)}) = k - 1
  IN [k \in 1 .. InternalResultNum |->
        IF k <= Cardinality(ids) THEN [id |-> Ith(k), dist |-> Far(q, vec[Ith(k) + 1])] ELSE NoResult]

\* LoadTruthDefault keeps a set of each query's row of the file.
LoadTruth(d, q) == ToSet(truths[d][q])

Used(visited, j) == visited \cup {j}

CalculateRecall(q, results, truth) ==
  LET Match(visited, id) == {j \in 1 .. ResultNum : j \notin visited /\ results[j].id >= 0 /\ results[j].dist = Far(q, id)}
      Step(acc, id) == LET js == Match(acc.visited, id) IN
                       IF js = {} THEN acc
                       ELSE [count |-> acc.count + 1, visited |-> Used(acc.visited, Min(js))]
  IN FoldLeft(Step, [count |-> 0, visited |-> {}], Sorted(truth)).count

OutputResult(d) == outputs' = Append(outputs, [q \in Queries |-> SubSeq(Results(q), 1, ResultNum)])

(***************************************************************************)
(* The days.                                                               *)
(***************************************************************************)
StartDay ==
  /\ pc = "day" /\ day <= Days /\ Len(truths) = Days
  /\ sent' = 0 /\ ins' = [i \in Inserters |-> "draw"]
  /\ deletes' = 0 /\ del' = IF StressTest THEN "out" ELSE "draw"
  /\ pc' = "wait"
  /\ UNCHANGED <<files, day, mapping, vec, live, found, at, inPlace, outputs, recall>>

\* The day is over when the insertion is.
OverEarly == Inserted
Over == Inserted /\ del = "out"

DayOver ==
  /\ pc = "wait" /\ Over
  /\ inPlace' = TRUE
  /\ pc' = "search"
  /\ UNCHANGED <<files, day, mapping, vec, live, found, sent, ins, at, deletes, del, outputs, recall>>

OpenMerge == inPlace' = FALSE

StableSearch ==
  /\ pc = "search"
  /\ IF ToFile THEN OutputResult(day) /\ UNCHANGED recall
     ELSE /\ recall' = Append(recall, [q \in Queries |-> CalculateRecall(q, Results(q), LoadTruth(day, q))])
          /\ UNCHANGED outputs
  /\ OpenMerge
  /\ day' = day + 1 /\ pc' = "day"
  /\ UNCHANGED <<files, mapping, vec, live, found, sent, ins, at, deletes, del>>

\* The tool reads the results of a day and the truth, and counts as the driver does.
CallRecall ==
  /\ ToFile /\ Len(recall) < Len(outputs)
  /\ LET d == Len(recall) + 1 IN
     recall' = Append(recall, [q \in Queries |-> CalculateRecall(q, outputs[d][q], LoadTruth(d, q))])
  /\ UNCHANGED <<files, pc, day, mapping, vec, live, found, sent, ins, at, deletes, del, inPlace, outputs>>

Init ==
  /\ TraceInit
  /\ pc = "day" /\ day = 1
  /\ mapping = [r \in Rows |-> r]
  /\ vec = [i \in 1 .. BaseNum |-> i - 1] /\ live = 0 .. BaseNum - 1 /\ found = 0 .. BaseNum - 1
  /\ sent = 0 /\ ins = [i \in Inserters |-> "out"] /\ at = [i \in Inserters |-> 1]
  /\ deletes = 0 /\ del = "out"
  /\ inPlace = InPlace /\ outputs = <<>> /\ recall = <<>>

InsertVectorsBySet(i) == Draw(i) \/ DeleteFirst(i) \/ AddIndexSPFresh(i) \/ AppendVector(i)

Next ==
  \/ TraceNext /\ UNCHANGED <<pc, day, mapping, vec, live, found, sent, ins, at, deletes, del, inPlace, outputs, recall>>
  \/ StartDay \/ DayOver \/ StableSearch \/ CallRecall \/ DeleteNext
  \/ \E i \in Inserters : InsertVectorsBySet(i)

Spec == Init /\ [][Next]_vars

(***************************************************************************)
(* The properties.                                                         *)
(***************************************************************************)
\* An identifier names one row, and the table leads from a row to itself or to
\* an identifier that names it.
TypeOK ==
  /\ \A i \in DOMAIN vec : vec[i] \in Rows
  /\ live \subseteq 0 .. Len(vec) - 1 /\ found \subseteq 0 .. Len(vec) - 1
  /\ \A r \in Rows : mapping[r] = r \/ (mapping[r] < Len(vec) /\ vec[mapping[r] + 1] = r)

\* The lists of the trace tool never share a row and never lose one.
ListsApart ==
  \A d \in DOMAIN current :
    /\ ToSet(current[d]) \cap ToSet(reserve[d]) = {}
    /\ ToSet(current[d]) \cup ToSet(reserve[d]) = Rows
    /\ Len(current[d]) = BaseNum /\ Len(reserve[d]) = ReserveNum

\* When a day is over the index holds the rows the trace tool says, each once,
\* under the identifier the table has: the next day's deletions hit them.
IndexIsList ==
  pc = "search" =>
    /\ {vec[v + 1] : v \in live} = ToSet(current[day])
    /\ \A v, w \in live : vec[v + 1] = vec[w + 1] => v = w
    /\ \A v \in live : mapping[vec[v + 1]] = v

\* The recall of an index that finds everything is full: the truth of the day is
\* about the rows that are in the index, and equal distances count once each.
RecallExact == \A d \in DOMAIN recall : \A q \in Queries : recall[d][q] = Cardinality(LoadTruth(d, q))

\* A true neighbour that is not found is missed, and none counts for two.
RecallHonest ==
  pc = "search" =>
    \A q \in Queries : \A k \in 0 .. ResultNum - 1 :
      LET results == [j \in 1 .. ResultNum |-> IF j <= k THEN Results(q)[j] ELSE NoResult]
      IN CalculateRecall(q, results, LoadTruth(day, q)) <= k

\* Merging is as configured when a day begins.
MergingAsSet == pc = "day" => inPlace = InPlace
=============================================================================
