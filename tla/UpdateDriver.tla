---------------------------- MODULE UpdateDriver ----------------------------
(***************************************************************************)
(* ConcurrentUpdate, the loop of the shipped driver: a batch of base       *)
(* vectors is inserted by threads that draw the rows from one counter,     *)
(* while the driver waits with a timeout, pauses the threads to search and *)
(* resumes them, polls the background jobs and goes on to the next batch.  *)
(* A search is itself a group of threads that draw queries.  The jobs are  *)
(* in two pools, whose numbers the poll reads one after the other.         *)
(***************************************************************************)
EXTENDS Integers, Sequences, FiniteSets

CONSTANTS Inserters, Searchers,
          Splits,            \* last base row of each batch: m_baseVectorSplitPath
          StartNum, Step, TerminateNum,
          InitialSamples,    \* rows the index holds when the driver starts
          Streaming,         \* m_streamingUpdate
          SearchDuringUpdate,
          FinalCount,        \* m_searchWaitMilliTime / m_smallestTimeUnit
          QueryLimit,
          MaxJobs            \* bound: jobs that are ever added

Split(n) == Splits[n + 1]
Rows == 0 .. Split(Len(Splits) - 1)
Queries == 0 .. Len(Splits)

\* A start before what the index holds would insert rows again.
UpdateDriverAssumption ==
  /\ Step \in Nat \ {0} /\ StartNum \in 0 .. Len(Splits) - 1
  /\ InitialSamples \in 1 .. Split(StartNum) + 1
  /\ \A a, b \in 0 .. Len(Splits) - 1 : a < b => Split(a) < Split(b)
  /\ {Streaming, SearchDuringUpdate} \subseteq BOOLEAN

VARIABLES pc, m,
          cur, insertCount,   \* first row of the batch and how many
          timeouts, notSearch,
          after,              \* where the driver goes on after a search
          pauseFlag, mtx,     \* mtx: who holds it
          sent, ins, row,     \* the threads of the batch
          begun,              \* inserts a thread has begun since the pause
          samples, inserted,  \* rows with a version; row -> times inserted
          jobs,               \* background jobs: their pool and how far they are
          polled,             \* numbers the poll has read and found to be 0
          asked, srch, query, \* the threads of a search
          results             \* query -> what it saw
main == <<pc, m, cur, insertCount, timeouts, notSearch, after>>
inserting == <<sent, ins, row, samples, inserted>>
searching == <<asked, srch, query, results>>
vars == <<main, pauseFlag, mtx, inserting, begun, jobs, polled, searching>>

Nobody == "nobody"
Gone == \A i \in Inserters : ins[i] = "out"

(***************************************************************************)
(* The background jobs: splits and merges in one pool, reassigns in the    *)
(* other.  A worker has a job out of the queue before it counts it as      *)
(* running; a running job may add another, to either pool.                 *)
(***************************************************************************)
Pools == {"split", "reassign"}
Slots == 1 .. MaxJobs
Fresh == {k \in Slots : jobs[k].at = "none"}
Added(j) ==
  {j} \cup {[j EXCEPT ![k] = [pool |-> p, at |-> "queued"]] :
           p \in Pools, k \in {k \in Fresh : \A l \in Fresh : k <= l}}

(***************************************************************************)
(* A thread of ConcurrentInsertVectors.                                    *)
(***************************************************************************)
\* The threads never look at the flag.
Passes(i) == ~pauseFlag

Check(i) ==
  /\ ins[i] = "check"
  /\ ins' = [ins EXCEPT ![i] = IF Passes(i) THEN "draw" ELSE "lock"]
  /\ UNCHANGED <<main, pauseFlag, mtx, sent, row, samples, inserted, begun, jobs, polled, searching>>

Lock(i) ==
  /\ ins[i] = "lock" /\ mtx = Nobody
  /\ mtx' = i
  /\ ins' = [ins EXCEPT ![i] = "test"]
  /\ UNCHANGED <<main, pauseFlag, sent, row, samples, inserted, begun, jobs, polled, searching>>

\* cv.wait: the flag is read under the lock, then the thread sleeps and the lock
\* is free, in one step.
Test(i) ==
  /\ ins[i] = "test"
  /\ ins' = [ins EXCEPT ![i] = IF pauseFlag THEN "tested" ELSE "check"]
  /\ mtx' = IF pauseFlag THEN mtx ELSE Nobody
  /\ UNCHANGED <<main, pauseFlag, sent, row, samples, inserted, begun, jobs, polled, searching>>

Sleep(i) ==
  /\ ins[i] = "tested"
  /\ ins' = [ins EXCEPT ![i] = "asleep"] /\ mtx' = Nobody
  /\ UNCHANGED <<main, pauseFlag, sent, row, samples, inserted, begun, jobs, polled, searching>>

Draw(i) ==
  /\ ins[i] = "draw"
  /\ sent' = sent + 1
  /\ IF sent < insertCount
     THEN /\ row' = [row EXCEPT ![i] = cur + sent]
          /\ ins' = [ins EXCEPT ![i] = "add"]
          /\ begun' = [begun EXCEPT ![i] = @ + 1]
     ELSE ins' = [ins EXCEPT ![i] = "out"] /\ UNCHANGED <<row, begun>>
  /\ UNCHANGED <<main, pauseFlag, mtx, samples, inserted, jobs, polled, searching>>

\* AddIndex takes the next identifier, whatever the row.
TakeId(i) ==
  /\ ins[i] = "add"
  /\ samples' = samples + 1
  /\ ins' = [ins EXCEPT ![i] = "append"]
  /\ UNCHANGED <<main, pauseFlag, mtx, sent, row, inserted, begun, jobs, polled, searching>>

\* Then it writes the posting and may leave a job behind.
AppendRow(i) ==
  /\ ins[i] = "append"
  /\ inserted' = [inserted EXCEPT ![row[i]] = @ + 1]
  /\ jobs' \in Added(jobs)
  /\ ins' = [ins EXCEPT ![i] = "check"]
  /\ UNCHANGED <<main, pauseFlag, mtx, sent, row, samples, begun, polled, searching>>

JobStep(k) ==
  /\ \/ jobs[k].at = "queued" /\ jobs' = [jobs EXCEPT ![k].at = "taken"]
     \/ jobs[k].at = "taken" /\ jobs' = [jobs EXCEPT ![k].at = "running"]
     \/ jobs[k].at = "running" /\ jobs' \in Added(jobs) \ {jobs}
     \/ jobs[k].at = "running" /\ jobs' = [jobs EXCEPT ![k].at = "over"]
  /\ UNCHANGED <<main, pauseFlag, mtx, inserting, begun, polled, searching>>
JobMoves == \E k \in Slots : JobStep(k)

(***************************************************************************)
(* A thread of SearchSequential.                                           *)
(***************************************************************************)
NumQueries == IF m + 1 < QueryLimit THEN m + 1 ELSE QueryLimit

Ask(s) ==
  /\ pc = "search" /\ srch[s] = "ask"
  /\ asked' = asked + 1
  /\ query' = [query EXCEPT ![s] = asked]
  /\ srch' = [srch EXCEPT ![s] = IF asked < NumQueries THEN "disk" ELSE "out"]
  /\ UNCHANGED <<main, pauseFlag, mtx, inserting, begun, jobs, polled, results>>

SearchDiskIndex(s) ==
  /\ srch[s] = "disk"
  /\ results' = [results EXCEPT ![query[s]] = {r \in Rows : inserted[r] > 0}]
  /\ srch' = [srch EXCEPT ![s] = "ask"]
  /\ UNCHANGED <<main, pauseFlag, mtx, inserting, begun, jobs, polled, asked, query>>

(***************************************************************************)
(* The driver.                                                             *)
(***************************************************************************)
Goto(label) == pc' = label
Unseen == {}

FirstRow == IF m = StartNum THEN samples ELSE Split(m - Step) + 1

StartBatch ==
  /\ pc = "batch" /\ m < Len(Splits)
  /\ cur' = FirstRow /\ insertCount' = Split(m) + 1 - FirstRow
  /\ sent' = 0 /\ ins' = [i \in Inserters |-> "check"]
  /\ notSearch' = ~Streaming /\ timeouts' = 0
  /\ Goto("wait")
  /\ UNCHANGED <<m, after, pauseFlag, mtx, row, begun, samples, inserted, jobs, polled, searching>>

LastBatchDone ==
  /\ pc = "batch" /\ m >= Len(Splits)
  /\ Goto("saved")
  /\ UNCHANGED <<m, cur, insertCount, timeouts, notSearch, after, pauseFlag, mtx, inserting, begun, jobs, polled, searching>>

\* wait_for returns ready, or times out at any moment before: with streaming the
\* driver only waits again.
Ready ==
  /\ pc = "wait" /\ Gone
  /\ Goto(IF notSearch THEN "pause" ELSE "poll")
  /\ after' = "poll"
  /\ UNCHANGED <<m, cur, insertCount, timeouts, notSearch, pauseFlag, mtx, inserting, begun, jobs, polled, searching>>

TimedOut ==
  /\ pc = "wait" /\ ~Streaming /\ ~Gone
  /\ timeouts' = timeouts + 1
  /\ Goto(IF SearchDuringUpdate THEN "pause" ELSE "timed")
  /\ notSearch' = (notSearch /\ ~SearchDuringUpdate)
  /\ after' = "timed"
  /\ UNCHANGED <<m, cur, insertCount, pauseFlag, mtx, inserting, begun, jobs, polled, searching>>

\* The driver may leave the loop with inserts still to come.
Timed ==
  /\ pc = "timed"
  /\ Goto(IF timeouts < FinalCount THEN "wait" ELSE IF notSearch THEN "pause" ELSE "poll")
  /\ after' = "poll"
  /\ UNCHANGED <<m, cur, insertCount, timeouts, notSearch, pauseFlag, mtx, inserting, begun, jobs, polled, searching>>

StableSearch ==
  /\ asked' = 0 /\ srch' = [s \in Searchers |-> "ask"]
  /\ results' = [q \in Queries |-> Unseen]
  /\ UNCHANGED query

PauseThreads ==
  /\ pc = "pause"
  /\ pauseFlag' = TRUE /\ begun' = [i \in Inserters |-> 0]
  /\ Goto("search")
  /\ StableSearch
  /\ UNCHANGED <<m, cur, insertCount, timeouts, notSearch, after, mtx, inserting, jobs, polled>>

Searched ==
  /\ pc = "search" /\ \A s \in Searchers : srch[s] = "out"
  /\ Goto(IF pauseFlag THEN "resume" ELSE "saved")
  /\ UNCHANGED <<m, cur, insertCount, timeouts, notSearch, after, pauseFlag, mtx, inserting, begun, jobs, polled, searching>>

\* The flag is cleared without the lock.
MayClearAlways == TRUE
MayClear == mtx = Nobody

ResumeThreads ==
  /\ pc = "resume" /\ MayClear
  /\ pauseFlag' = FALSE /\ Goto("notify")
  /\ UNCHANGED <<m, cur, insertCount, timeouts, notSearch, after, mtx, inserting, begun, jobs, polled, searching>>

NotifyAll ==
  /\ pc = "notify"
  /\ ins' = [i \in Inserters |-> IF ins[i] = "asleep" THEN "lock" ELSE ins[i]]
  /\ Goto(after)
  /\ UNCHANGED <<m, cur, insertCount, timeouts, notSearch, after, pauseFlag, mtx, sent, row, samples, inserted, begun, jobs, polled, searching>>

\* allClear() of the one pool and then of the other: currentJobs, then the length
\* of the queue.
Reading(n) == <<[pool |-> "split", at |-> "running"], [pool |-> "split", at |-> "queued"],
                [pool |-> "reassign", at |-> "running"], [pool |-> "reassign", at |-> "queued"]>>[n + 1]
Poll ==
  /\ pc \in {"poll", "drain"} /\ polled < 4
  /\ polled' = IF \A k \in Slots : jobs[k] # Reading(polled) THEN polled + 1 ELSE 0
  /\ UNCHANGED <<main, pauseFlag, mtx, inserting, begun, jobs, searching>>

Clear == polled = 4

AllFinished ==
  /\ pc = "poll" /\ Clear
  /\ Goto(IF Streaming /\ ~notSearch THEN "pause" ELSE "count")
  /\ after' = "count" /\ polled' = 0
  /\ UNCHANGED <<m, cur, insertCount, timeouts, notSearch, pauseFlag, mtx, inserting, begun, jobs, searching>>

\* The driver does not wait for the threads of the batch.
MayLeaveAlways == TRUE
\* The destructor of the future waits for the threads.
MayLeave == Gone

EndBatch ==
  /\ pc = "count" /\ m /= TerminateNum /\ MayLeave
  /\ m' = m + Step /\ Goto("batch")
  /\ UNCHANGED <<cur, insertCount, timeouts, notSearch, after, pauseFlag, mtx, inserting, begun, jobs, polled, searching>>

Terminate ==
  /\ pc = "count" /\ m = TerminateNum /\ MayLeave
  /\ Goto("drain")
  /\ UNCHANGED <<m, cur, insertCount, timeouts, notSearch, after, pauseFlag, mtx, inserting, begun, jobs, polled, searching>>

LastSearch ==
  /\ pc = "drain" /\ Clear
  /\ Goto("search") /\ polled' = 0
  /\ StableSearch
  /\ UNCHANGED <<m, cur, insertCount, timeouts, notSearch, after, pauseFlag, mtx, inserting, begun, jobs>>

Init ==
  /\ pc = "batch" /\ m = StartNum /\ after = "poll"
  /\ cur = 0 /\ insertCount = 0 /\ timeouts = 0 /\ notSearch = TRUE
  /\ pauseFlag = FALSE /\ mtx = Nobody
  /\ sent = 0 /\ ins = [i \in Inserters |-> "out"] /\ row = [i \in Inserters |-> 0]
  /\ begun = [i \in Inserters |-> 0]
  /\ samples = InitialSamples
  /\ inserted = [r \in Rows |-> IF r < InitialSamples THEN 1 ELSE 0]
  /\ jobs = [k \in Slots |-> [pool |-> "split", at |-> "none"]] /\ polled = 0
  /\ asked = 0 /\ srch = [s \in Searchers |-> "out"] /\ query = [s \in Searchers |-> 0]
  /\ results = [q \in Queries |-> Unseen]

Insert(i) == Check(i) \/ Lock(i) \/ Test(i) \/ Sleep(i) \/ Draw(i) \/ TakeId(i) \/ AppendRow(i)
SearchSequential(s) == Ask(s) \/ SearchDiskIndex(s)
Drive ==
  \/ StartBatch \/ LastBatchDone \/ Ready \/ TimedOut \/ Timed \/ PauseThreads \/ Searched
  \/ ResumeThreads \/ NotifyAll \/ Poll \/ AllFinished \/ EndBatch \/ Terminate \/ LastSearch

Next ==
  \/ Drive
  \/ \E i \in Inserters : Insert(i)
  \/ \E s \in Searchers : SearchSequential(s)
  \/ JobMoves

Spec == Init /\ [][Next]_vars

\* Every thread is scheduled; a thread that wants the mutex gets it in the end.
FairSpec ==
  /\ Spec
  /\ SF_vars(Drive) /\ WF_vars(JobMoves)
  /\ \A i \in Inserters : SF_vars(Insert(i))
  /\ \A s \in Searchers : WF_vars(SearchSequential(s))

(***************************************************************************)
(* The properties.                                                         *)
(***************************************************************************)
\* Every variable has its type, and the mutex is held by a thread that tests.
TypeOK ==
  /\ pc \in {"batch", "wait", "timed", "pause", "search", "resume", "notify", "poll", "count", "drain", "saved"}
  /\ ins \in [Inserters -> {"check", "lock", "test", "tested", "asleep", "draw", "add", "append", "out"}]
  /\ mtx \in {Nobody} \cup {i \in Inserters : ins[i] \in {"test", "tested"}}
  /\ jobs \in [Slots -> [pool : Pools, at : {"none", "queued", "taken", "running", "over"}]]
  /\ polled \in 0 .. 4 /\ (polled > 0 => pc \in {"poll", "drain"})
  /\ inserted \in [Rows -> Nat] /\ samples <= Cardinality(Rows)

\* When a batch begins, every row of the earlier ones has been inserted, and
\* once, however the waits of the driver timed out.
BatchComplete ==
  pc = "batch" /\ m > StartNum => \A r \in 0 .. Split(m - Step) : inserted[r] = 1

\* While a search runs with the threads paused, a thread that was past the flag
\* begins one insert more, and no second.
PauseHolds == pc = "search" /\ pauseFlag => \A i \in Inserters : begun[i] <= 1

\* The search at the end, and with streaming the one after each batch, sees all
\* rows of the batch.  It may see them while a job is under way: the poll misses
\* a job that a worker has taken and not counted, or that another job adds to a
\* pool that was already read.
SearchComplete ==
  pc = "search" /\ (~pauseFlag \/ (Streaming /\ after = "count")) =>
    \A q \in Queries : results[q] = Unseen \/ results[q] = 0 .. Split(m)

\* "All background threads finish in" (UBIS.h:1689) is logged when the poll ends.
\* The code does not keep this: README, Disagreements.  No run checks it.
ClearMeansIdle == polled = 4 => \A k \in Slots : jobs[k].at \in {"none", "over"}

\* The driver comes to its end: no thread sleeps through the end of a pause.
Ends == <>(pc = "saved")
=============================================================================
