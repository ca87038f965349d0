------------------------------ MODULE BatchRead ------------------------------
(***************************************************************************)
(* ExtraStaticSearcher::SearchIndex and BatchReadFileAsync: each search    *)
(* thread reads the postings it was given with one batch of asynchronous   *)
(* reads per index file, on the kernel context its work space numbers, and *)
(* processes a posting in the callback of its read.  Search threads come   *)
(* in waves: all are joined before new ones start.                         *)
(***************************************************************************)
EXTENDS Integers, Sequences, SequencesExt, FiniteSets, FiniteSetsExt

CONSTANTS
  Threads,
  Members,    \* the vectors of each posting, by its number
  FileCount,  \* m_indexFiles.size()
  Contexts,   \* contexts of a file: m_iSSDNumberOfThreads
  Capacity,   \* reads a context holds: maxIOSize
  MaxAsked,   \* bound: postings of a search
  Waves,      \* bound: waves of search threads
  Searches,   \* bound: searches of a thread
  Failures    \* bound: calls of io_getevents that return -1
Postings == 0 .. Len(Members) - 1
Files == 0 .. FileCount - 1
BatchReadAssumption ==
  /\ {FileCount, Contexts, Capacity, MaxAsked, Waves, Searches} \subseteq Nat \ {0}
  /\ Cardinality(Threads) <= Contexts /\ Failures \in Nat

VARIABLES
  spaceCount,  \* g_spaceCount
  space,       \* m_spaceID of the thread's work space, None without one
  wave,        \* waves of threads begun
  left,        \* searches a thread still makes
  pc,          \* idle, submit, call, get, last, gone, or undefined
  asked,       \* m_postingIDs
  buffers,     \* m_pageBuffers: the posting last read into each
  submitted,   \* per file
  done,        \* per file
  events,      \* the array of completions, as far as it was ever written
  total,       \* totalDone
  failed,      \* calls of io_getevents that returned -1
  queued,      \* totalQueued
  calls,       \* how often each request's callback was called
  bad,         \* a callback found another posting's pages
  result,      \* the vectors added to the query's results
  deduper,     \* m_deduper
  flying,      \* by file and context: the reads the kernel has not finished
  ready        \* by file and context: completions not yet taken
vars == <<spaceCount, space, wave, left, pc, asked, buffers, submitted, done, events, total, failed,
          queued, calls, bad, result, deduper, flying, ready>>

None == -1

Channels == Files \X (0 .. Contexts - 1)
Empty == [p \in 1 .. MaxAsked |-> None]
Zero == [f \in Files |-> 0]

Init ==
  /\ spaceCount = 0 /\ space = [t \in Threads |-> None] /\ wave = 1
  /\ left = [t \in Threads |-> Searches] /\ pc = [t \in Threads |-> "idle"]
  /\ asked = [t \in Threads |-> <<>>] /\ buffers = [t \in Threads |-> Empty]
  /\ submitted = [t \in Threads |-> Zero] /\ done = [t \in Threads |-> Zero]
  /\ events = [t \in Threads |-> <<>>] /\ total = [t \in Threads |-> 0]
  /\ failed = [t \in Threads |-> 0] /\ queued = [t \in Threads |-> 0]
  /\ calls = [t \in Threads |-> <<>>] /\ bad = FALSE
  /\ result = [t \in Threads |-> <<>>] /\ deduper = [t \in Threads |-> {}]
  /\ flying = [c \in Channels |-> {}] /\ ready = [c \in Channels |-> {}]

ListPerFile == (Len(Members) + FileCount - 1) \div FileCount
FileId(p) == p \div ListPerFile
Batch(t, f) == SelectSeq([k \in 1 .. Len(asked[t]) |-> k], LAMBDA k : FileId(asked[t][k]) = f)


(* The first search of a thread makes its work space.                      *)
TakenSpace(t) == IF space[t] = None THEN spaceCount ELSE space[t]
Begin(t) ==
  /\ pc[t] = "idle" /\ left[t] > 0
  /\ space' = [space EXCEPT ![t] = TakenSpace(t)]
  /\ spaceCount' = IF space[t] = None THEN spaceCount + 1 ELSE spaceCount
  /\ \E ps \in SUBSET Postings :
       Cardinality(ps) \in 1 .. MaxAsked /\ asked' = [asked EXCEPT ![t] = SetToSeq(ps)]
  /\ calls' = [calls EXCEPT ![t] = [k \in 1 .. Len(asked'[t]) |-> 0]]
  /\ submitted' = [submitted EXCEPT ![t] = Zero] /\ done' = [done EXCEPT ![t] = Zero]
  /\ events' = [events EXCEPT ![t] = <<>>] /\ total' = [total EXCEPT ![t] = 0]
  /\ queued' = [queued EXCEPT ![t] = 0]
  /\ result' = [result EXCEPT ![t] = <<>>] /\ deduper' = [deduper EXCEPT ![t] = {}]
  /\ left' = [left EXCEPT ![t] = @ - 1]
  /\ pc' = [pc EXCEPT ![t] = "submit"]
  /\ UNCHANGED <<wave, buffers, failed, bad, flying, ready>>

Channel(t, f) == <<f, space[t]>>
(* io_submit takes what the context still holds, from where the last stopped. *)
Taken(t, f) ==
  LET room == Capacity - Cardinality(flying[Channel(t, f)]) - Cardinality(ready[Channel(t, f)])
      rest == Len(Batch(t, f)) - submitted[t][f]
  IN  IF room < rest THEN room ELSE rest
Sent(t, f) == {<<t, Batch(t, f)[k]>> : k \in submitted[t][f] + 1 .. submitted[t][f] + Taken(t, f)}

Submit(t) ==
  /\ pc[t] = "submit"
  /\ submitted' = [submitted EXCEPT ![t] = [f \in Files |-> @[f] + Taken(t, f)]]
  /\ flying' = [c \in Channels |-> IF c[2] = space[t] THEN flying[c] \cup Sent(t, c[1]) ELSE flying[c]]
  /\ pc' = [pc EXCEPT ![t] = "call"]
  /\ UNCHANGED <<spaceCount, space, wave, left, asked, buffers, done, events, total, failed, queued, calls, bad, result, deduper, ready>>

(* The kernel reads the pages of a request, in any order.                  *)
Complete ==
  /\ \E c \in Channels : \E r \in flying[c] :
       /\ flying' = [flying EXCEPT ![c] = @ \ {r}]
       /\ ready' = [ready EXCEPT ![c] = @ \cup {r}]
       /\ buffers' = [buffers EXCEPT ![r[1]][r[2]] = asked[r[1]][r[2]]]
  /\ UNCHANGED <<spaceCount, space, wave, left, pc, asked, submitted, done, events, total, failed, queued, calls, bad, result, deduper>>

(* The callback of request r: its posting's vectors, those not seen yet.   *)
ProcessPosting(seen, list) == SelectSeq(list, LAMBDA v : v \notin seen)
Listed(t, r) == IF buffers[t][r] = None THEN <<>> ELSE Members[buffers[t][r] + 1]
Processed(t, new) ==
  FoldLeft(LAMBDA acc, r : [found |-> acc.found \o ProcessPosting(acc.seen, Listed(t, r)),
                            seen |-> acc.seen \cup Range(Listed(t, r))],
           [found |-> result[t], seen |-> deduper[t]], new)
FromFirst(t) == events[t]
FromQueued(t) == SubSeq(events[t], queued[t] + 1, total[t])
Calls(t) ==
  LET new == FromQueued(t)
      after == Processed(t, [k \in 1 .. Len(new) |-> new[k][2]])
  IN  /\ calls' = [calls EXCEPT ![t] = [k \in 1 .. Len(@) |-> @[k] + Cardinality({j \in 1 .. Len(new) : new[j][2] = k})]]
      /\ bad' = (bad \/ \E j \in 1 .. Len(new) : buffers[t][new[j][2]] # asked[t][new[j][2]])
      /\ result' = [result EXCEPT ![t] = after.found] /\ deduper' = [deduper EXCEPT ![t] = after.seen]
      /\ queued' = [queued EXCEPT ![t] = total[t]]

CallBack(t) ==
  /\ pc[t] = "call" /\ Calls(t)
  /\ pc' = [pc EXCEPT ![t] = "get"]
  /\ UNCHANGED <<spaceCount, space, wave, left, asked, buffers, submitted, done, events, total, failed, flying, ready>>

(* io_getevents on each file in turn: as many completions as reads are out, *)
(* or those there are when the time is over; they follow the last ones in  *)
(* the array.  A call that fails, as one does that a signal interrupts,    *)
(* returns -1, which is added to both counts like a number of completions; *)
(* where none was taken before, what follows is written before the array.  *)
Offered(t, f) == IF done[t][f] < submitted[t][f] THEN ready[Channel(t, f)] ELSE {}
Added(acc, new) ==
  [acc EXCEPT !.slots = SubSeq(acc.slots, 1, acc.total) \o new
                        \o SubSeq(acc.slots, acc.total + Len(new) + 1, Len(acc.slots)),
              !.total = @ + Len(new)]
Short(acc) == IF acc.total = 0 THEN [acc EXCEPT !.before = TRUE] ELSE [acc EXCEPT !.total = @ - 1]

MayFail(S) == Cardinality(S) + MapThenSumSet(LAMBDA u : failed[u], Threads) <= Failures

GetEvents(t) ==
  /\ pc[t] = "get"
  /\ \E failing \in {S \in SUBSET {f \in Files : done[t][f] < submitted[t][f]} : MayFail(S)} :
     \E taken \in SUBSET UNION {Offered(t, f) : f \in Files \ failing} :
       LET got(f) == taken \cap Offered(t, f)
           each(acc, f) == IF f \in failing THEN Short(acc) ELSE Added(acc, SetToSeq(got(f)))
           after == FoldLeft(each, [slots |-> events[t], total |-> total[t], before |-> FALSE],
                             [i \in 1 .. FileCount |-> i - 1])
       IN  /\ \A f \in Files : Cardinality(got(f)) <= submitted[t][f] - done[t][f]
           /\ events' = [events EXCEPT ![t] = after.slots]
           /\ total' = [total EXCEPT ![t] = after.total]
           /\ failed' = [failed EXCEPT ![t] = @ + Cardinality(failing)]
           /\ done' = [done EXCEPT ![t] = [f \in Files |->
                          IF f \in failing THEN @[f] - 1 ELSE @[f] + Cardinality(got(f))]]
           /\ ready' = [c \in Channels |-> IF c[2] = space[t] THEN ready[c] \ taken ELSE ready[c]]
           /\ pc' = [pc EXCEPT ![t] =
                       IF after.before THEN "undefined"
                       ELSE IF after.total = Len(asked[t]) THEN "last" ELSE "submit"]
  /\ UNCHANGED <<spaceCount, space, wave, left, asked, buffers, submitted, queued, calls, bad, result, deduper, flying>>

(* The callbacks of the last completions, and the search returns.          *)
Return(t) ==
  /\ pc[t] = "last" /\ Calls(t)
  /\ pc' = [pc EXCEPT ![t] = "idle"]
  /\ UNCHANGED <<spaceCount, space, wave, left, asked, buffers, submitted, done, events, total, failed, flying, ready>>

(* The end of a thread destroys its work space.                            *)
Exit(t) ==
  /\ pc[t] = "idle" /\ left[t] = 0
  /\ spaceCount' = IF space[t] # None THEN spaceCount - 1 ELSE spaceCount
  /\ space' = [space EXCEPT ![t] = None]
  /\ pc' = [pc EXCEPT ![t] = "gone"]
  /\ UNCHANGED <<wave, left, asked, buffers, submitted, done, events, total, failed, queued, calls, bad, result, deduper, flying, ready>>

NewWave ==
  /\ wave < Waves /\ \A t \in Threads : pc[t] = "gone"
  /\ wave' = wave + 1
  /\ pc' = [t \in Threads |-> "idle"] /\ left' = [t \in Threads |-> Searches]
  /\ buffers' = [t \in Threads |-> Empty]
  /\ UNCHANGED <<spaceCount, space, asked, submitted, done, events, total, failed, queued, calls, bad, result, deduper, flying, ready>>

Step(t) == Submit(t) \/ CallBack(t) \/ GetEvents(t) \/ Return(t)
Next ==
  (\E t \in Threads : Begin(t) \/ Step(t) \/ Exit(t)) \/ Complete \/ NewWave
Spec == Init /\ [][Next]_vars
(* The kernel finishes every read, and a thread in a batch goes on; what is *)
(* ready is taken some time, for the wait only ends early when time is over. *)
FairSpec ==
  /\ Spec
  /\ WF_vars(Complete)
  /\ \A t \in Threads : WF_vars(Step(t)) /\ SF_vars(GetEvents(t) /\ ready' # ready)

-----------------------------------------------------------------------------
TypeOK ==
  /\ spaceCount \in Nat /\ wave \in 1 .. Waves
  /\ \A t \in Threads :
       /\ space[t] \in {None} \cup (0 .. Contexts - 1)
       /\ pc[t] \in {"idle", "submit", "call", "get", "last", "gone", "undefined"}
       /\ failed[t] \in 0 .. Failures /\ total[t] \in 0 .. Len(asked[t])
       /\ \A f \in Files : done[t][f] <= submitted[t][f] /\ submitted[t][f] <= Len(Batch(t, f))

(* No two threads read on one context, so neither takes the completions    *)
(* the other waits for.                                                    *)
OwnContext ==
  \A t \in Threads :
    /\ \A u \in Threads \ {t} : space[t] # None => space[t] # space[u]
    /\ \A k \in 1 .. Len(events[t]) : events[t][k][1] = t

(* A callback works on the pages its own request read, not on those of an  *)
(* earlier search.                                                         *)
CalledOnOwn == ~bad

(* A search ends having processed every posting it was given exactly once, *)
(* with every vector in them once among its results.                       *)
EachOnce ==
  \A t \in Threads : pc[t] = "idle" /\ asked[t] # <<>> =>
    /\ \A k \in 1 .. Len(asked[t]) : calls[t][k] = 1
    /\ Range(result[t]) = UNION {Range(Members[p + 1]) : p \in Range(asked[t])}
    /\ Cardinality(Range(result[t])) = Len(result[t])

(* Nothing of a search is left in the kernel when it ends: a read that came *)
(* later would write into the buffers of the next.                         *)
NothingLeft ==
  \A c \in Channels, t \in Threads : pc[t] \in {"idle", "last", "gone"} =>
    \A r \in flying[c] \cup ready[c] : r[1] # t

(* No read is called back twice, a failing wait or not (the counts that go *)
(* back by one leave a completion in the array behind its end).            *)
AtMostOnce == \A t \in Threads : \A k \in 1 .. Len(calls[t]) : calls[t][k] <= 1

(* Every search ends whose waits do not fail.                              *)
SearchEnds == \A t \in Threads : pc[t] = "submit" ~> pc[t] = "idle" \/ failed[t] > 0

(* Every search ends.                                                      *)
(* The code does not keep this: README, Disagreements.  No run checks it.  *)
SearchAlwaysEnds == \A t \in Threads : pc[t] = "submit" ~> pc[t] = "idle"
=============================================================================
