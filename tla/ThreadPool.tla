---------------------------- MODULE ThreadPool ----------------------------
(***************************************************************************)
(* Helper::ThreadPool: a queue of jobs, workers that sleep on a condition  *)
(* variable while it is empty, and the count of running jobs that          *)
(* allClear() and with it the driver's AllFinished() read.                 *)
(*                                                                         *)
(* The owner adds jobs, polls allClear and destroys the pool.  A running   *)
(* job may add jobs, as splits and appends do, and may throw.  The abort   *)
(* flag, the count and, in allClear, the length of the queue are read and  *)
(* written without the lock.                                               *)
(***************************************************************************)
EXTENDS Integers, FiniteSets, Sequences, Functions, FiniteSetTheorems, TLAPS

CONSTANTS
  Workers,   \* m_threads
  Jobs,      \* bound: the jobs that can be added
  None,      \* no job, no worker
  MayThrow   \* input: may exec() throw a std::exception

ASSUME PoolAssumption ==
  /\ IsFiniteSet(Workers)
  /\ None \notin Workers \cup Jobs
  /\ MayThrow \in BOOLEAN

VARIABLES
  queue,     \* m_jobs
  added,     \* the jobs that were ever added
  finished,  \* the jobs whose exec() is over
  held,      \* the job a worker took from the queue
  running,   \* currentJobs
  lock,      \* m_lock: the worker that holds it
  waiting,   \* workers that wait on m_cond
  abort,     \* m_abort
  pc,        \* a worker's next step
  owner      \* the owner's next step

vars == <<queue, added, finished, held, running, lock, waiting, abort, pc, owner>>
sets == <<added, finished>>

Init ==
  /\ queue = << >>
  /\ added = {} /\ finished = {}
  /\ held = [w \in Workers |-> None]
  /\ running = 0
  /\ lock = None
  /\ waiting = {}
  /\ abort = FALSE
  /\ pc = [w \in Workers |-> "get"]
  /\ owner = "work"

Goto(w, l) == pc' = [pc EXCEPT ![w] = l]
From(w, l) == pc[w] = l

-----------------------------------------------------------------------------
(* add(): push under the lock; then, without it, notify one worker.        *)
Push(j) ==
  /\ lock = None
  /\ j \in Jobs \ added
  /\ queue' = Append(queue, j)
  /\ added' = added \cup {j}

NotifyOne ==
  IF waiting = {} THEN UNCHANGED waiting
                  ELSE \E u \in waiting : waiting' = waiting \ {u}

-----------------------------------------------------------------------------
(* get() *)

(* Bug: the wait is guarded by an if: a worker that wakes does not look    *)
(* at the queue again.                                                     *)
TestOnce(w) ==
  /\ From(w, "get") \/ (From(w, "asleep") /\ w \notin waiting)
  /\ lock = None
  /\ lock' = w
  /\ Goto(w, IF From(w, "get") /\ queue = << >> /\ ~abort THEN "sleep" ELSE "take")
  /\ UNCHANGED <<queue, sets, held, running, waiting, abort, owner>>

(* The test of the while loop, with the lock just acquired, by the first   *)
(* call or after a wait.                                                   *)
GetTest(w) ==
  /\ From(w, "get") \/ (From(w, "asleep") /\ w \notin waiting)
  /\ lock = None
  /\ lock' = w
  /\ Goto(w, IF queue = << >> /\ ~abort THEN "sleep" ELSE "take")
  /\ UNCHANGED <<queue, sets, held, running, waiting, abort, owner>>

GetSleep(w) ==
  /\ From(w, "sleep")
  /\ lock' = None
  /\ waiting' = waiting \cup {w}
  /\ Goto(w, "asleep")
  /\ UNCHANGED <<queue, sets, held, running, abort, owner>>

(* A wait may end without a notification.                                  *)
Spurious(w) ==
  /\ w \in waiting
  /\ waiting' = waiting \ {w}
  /\ UNCHANGED <<queue, sets, held, running, lock, abort, pc, owner>>

(* Bug: the front of the queue is used and stays.                          *)
TakeLeaves(w) ==
  /\ From(w, "take")
  /\ held' = IF abort THEN held ELSE [held EXCEPT ![w] = Head(queue)]
  /\ Goto(w, "return")
  /\ UNCHANGED <<queue, sets, running, lock, waiting, abort, owner>>

GetTake(w) ==
  /\ From(w, "take")
  /\ \/ /\ ~abort
        /\ held' = [held EXCEPT ![w] = Head(queue)]
        /\ queue' = Tail(queue)
     \/ /\ abort
        /\ UNCHANGED <<held, queue>>
  /\ Goto(w, "return")
  /\ UNCHANGED <<sets, running, lock, waiting, abort, owner>>

(* The flag is read once more: a worker that sees it now leaves with the   *)
(* job it took.                                                            *)
GetReturn(w) ==
  /\ From(w, "return")
  /\ lock' = None
  /\ Goto(w, IF abort THEN "exit" ELSE "count")
  /\ UNCHANGED <<queue, sets, held, running, waiting, abort, owner>>

-----------------------------------------------------------------------------
(* The loop of a worker *)

(* Bug: the job is not counted.                                            *)
NotCounted(w) ==
  /\ From(w, "count")
  /\ Goto(w, "exec")
  /\ UNCHANGED <<queue, sets, held, running, lock, waiting, abort, owner>>

Count(w) ==
  /\ From(w, "count")
  /\ running' = running + 1
  /\ Goto(w, "exec")
  /\ UNCHANGED <<queue, sets, held, lock, waiting, abort, owner>>

ExecAdd(w) ==
  /\ From(w, "exec")
  /\ \E j \in Jobs : Push(j)
  /\ Goto(w, "notify")
  /\ UNCHANGED <<finished, held, running, lock, waiting, abort, owner>>

ExecNotify(w) ==
  /\ From(w, "notify")
  /\ NotifyOne
  /\ Goto(w, "exec")
  /\ UNCHANGED <<queue, sets, held, running, lock, abort, owner>>

ExecEnd(w) ==
  /\ From(w, "exec")
  /\ finished' = finished \cup {held[w]}
  /\ Goto(w, "uncount")
  /\ UNCHANGED <<queue, added, held, running, lock, waiting, abort, owner>>

(* The handler of the exception comes after currentJobs--.                 *)
ExecThrow(w) ==
  /\ MayThrow
  /\ From(w, "exec")
  /\ finished' = finished \cup {held[w]}
  /\ held' = [held EXCEPT ![w] = None]
  /\ Goto(w, "get")
  /\ UNCHANGED <<queue, added, running, lock, waiting, abort, owner>>

Uncount(w) ==
  /\ From(w, "uncount")
  /\ running' = running - 1
  /\ held' = [held EXCEPT ![w] = None]
  /\ Goto(w, "get")
  /\ UNCHANGED <<queue, sets, lock, waiting, abort, owner>>

-----------------------------------------------------------------------------
(* The owner *)

OwnerAdd ==
  /\ owner = "work"
  /\ \E j \in Jobs : Push(j)
  /\ owner' = "notify"
  /\ UNCHANGED <<finished, held, running, lock, waiting, abort, pc>>

OwnerNotify ==
  /\ owner = "notify"
  /\ NotifyOne
  /\ owner' = "work"
  /\ UNCHANGED <<queue, sets, held, running, lock, abort, pc>>

(* allClear(): no running job, then no job in the queue, whose length is   *)
(* read without the lock, before or after a push or pop under way.         *)
PollRunning ==
  /\ owner = "work"
  /\ running = 0
  /\ owner' = "poll"
  /\ UNCHANGED <<queue, sets, held, running, lock, waiting, abort, pc>>

PollQueue ==
  /\ owner = "poll"
  /\ owner' = IF queue = << >> THEN "clear" ELSE "work"
  /\ UNCHANGED <<queue, sets, held, running, lock, waiting, abort, pc>>

(* After the poll the driver goes on to the next batch.                    *)
NextBatch ==
  /\ owner = "clear"
  /\ owner' = "work"
  /\ UNCHANGED <<queue, sets, held, running, lock, waiting, abort, pc>>

(* ~ThreadPool(): set the flag, notify all, join.                          *)
SetAbort ==
  /\ owner \in {"work", "clear"}
  /\ abort' = TRUE
  /\ owner' = "notifyall"
  /\ UNCHANGED <<queue, sets, held, running, lock, waiting, pc>>

NotifyAll ==
  /\ owner = "notifyall"
  /\ waiting' = {}
  /\ owner' = "join"
  /\ UNCHANGED <<queue, sets, held, running, lock, abort, pc>>

Join ==
  /\ owner = "join"
  /\ \A w \in Workers : pc[w] = "exit"
  /\ owner' = "gone"
  /\ UNCHANGED <<queue, sets, held, running, lock, waiting, abort, pc>>

-----------------------------------------------------------------------------
Work(w) ==
  \/ GetTest(w) \/ GetSleep(w) \/ GetTake(w) \/ GetReturn(w)
  \/ Count(w) \/ ExecAdd(w) \/ ExecNotify(w) \/ ExecEnd(w) \/ ExecThrow(w) \/ Uncount(w)

Owner ==
  \/ OwnerAdd \/ OwnerNotify \/ PollRunning \/ PollQueue \/ NextBatch
  \/ SetAbort \/ NotifyAll \/ Join

Next == Owner \/ \E w \in Workers : Work(w) \/ Spurious(w)

Spec == Init /\ [][Next]_vars

(* The threads keep running, and add() and the destructor return to their  *)
(* caller.  The owner need not add, poll or destroy anything.              *)
FairSpec ==
  /\ Spec
  /\ \A w \in Workers : WF_vars(Work(w))
  /\ WF_vars(OwnerNotify \/ NotifyAll \/ Join)

-----------------------------------------------------------------------------
Locked  == {"sleep", "take", "return"}
Counted == {"exec", "notify", "uncount"}
PC      == Locked \cup Counted \cup {"get", "asleep", "count", "exit"}

InQueue   == Range(queue)
CountedBy == {w \in Workers : pc[w] \in Counted}

(* Every variable keeps its type. *)
TypeOK ==
  /\ queue \in Seq(Jobs)
  /\ added \in SUBSET Jobs /\ finished \in SUBSET Jobs
  /\ held \in [Workers -> Jobs \cup {None}]
  /\ running \in Nat
  /\ lock \in Workers \cup {None}
  /\ waiting \in SUBSET Workers
  /\ abort \in BOOLEAN
  /\ pc \in [Workers -> PC]
  /\ owner \in {"work", "notify", "poll", "clear", "notifyall", "join", "gone"}

(* get() never takes the front of an empty queue, although a worker may    *)
(* wake with nothing to do and another may have taken the job.             *)
TakesAJob == \A w \in Workers : pc[w] = "take" /\ ~abort => queue # << >>

(* A job that was added is in the queue, in the hands of one worker or     *)
(* finished: it is never lost and never executed twice.                    *)
Accounted ==
  /\ added = InQueue \cup finished \cup ({held[w] : w \in Workers} \ {None})
  /\ IsInjective(queue)
  /\ InQueue \cap finished = {}
  /\ \A w \in Workers : held[w] # None => held[w] \notin InQueue
  /\ \A w \in Workers : held[w] # None /\ pc[w] # "uncount" => held[w] \notin finished
  /\ \A w, u \in Workers : held[w] = held[u] => w = u \/ held[w] = None

(* The count is the number of jobs being executed, unless one threw: it    *)
(* never misses one.                                                       *)
CountsRunning ==
  IF MayThrow THEN running >= Cardinality(CountedBy) ELSE running = Cardinality(CountedBy)

(* The poll does not fail for ever: unless a job throws or the jobs add    *)
(* jobs without end, the count comes back to zero and the queue drains.    *)
PollEnds == <>[](running = 0 /\ (queue = << >> \/ abort))

(* When the poll says so, all jobs that were added are finished.           *)
(* The code does not keep this: README, Disagreements.  No run checks it.  *)
ClearMeansDone == owner = "clear" => finished = added

-----------------------------------------------------------------------------
(* Safety of the pool for every number of workers and jobs.                *)

(* The mutex is held exactly in the critical section of get(). *)
Locking == \A w \in Workers : pc[w] \in Locked <=> lock = w

(* A worker holds a job from the pop to the end of its turn; one that      *)
(* leaves get() without a job does so because of the abort flag.           *)
Holding == \A w \in Workers :
  /\ pc[w] \in {"get", "sleep", "asleep", "take"} => held[w] = None
  /\ pc[w] \in Counted \cup {"count"} => held[w] # None
  /\ pc[w] = "uncount" => held[w] \in finished
  /\ pc[w] = "return" /\ held[w] = None => abort

Safe == TypeOK /\ Locking /\ Holding /\ TakesAJob /\ Accounted /\ CountsRunning

-----------------------------------------------------------------------------
(* What add() and get() do to the queue. *)
LEMMA PushQueue ==
  ASSUME NEW S, NEW q \in Seq(S), NEW j \in S
  PROVE  /\ Append(q, j) \in Seq(S)
         /\ Append(q, j) # << >>
         /\ Range(Append(q, j)) = Range(q) \cup {j}
         /\ IsInjective(q) /\ j \notin Range(q) => IsInjective(Append(q, j))
<1> DEFINE r == Append(q, j)
<1>1. /\ r \in Seq(S) /\ Len(r) = Len(q) + 1 /\ Len(q) \in Nat
      /\ DOMAIN r = 1..(Len(q) + 1) /\ DOMAIN q = 1..Len(q)
      /\ \A i \in 1..Len(q) : r[i] = q[i]
      /\ r[Len(q) + 1] = j
  OBVIOUS
<1>2. r # << >>
  BY <1>1
<1>3. Range(r) = Range(q) \cup {j}
  BY <1>1 DEF Range
<1>4. IsInjective(q) /\ j \notin Range(q) => IsInjective(r)
  BY <1>1 DEF IsInjective, Range
<1>5. QED BY <1>1, <1>2, <1>3, <1>4

LEMMA PopQueue ==
  ASSUME NEW S, NEW q \in Seq(S), q # << >>, IsInjective(q)
  PROVE  /\ Tail(q) \in Seq(S) /\ Head(q) \in S
         /\ IsInjective(Tail(q))
         /\ Head(q) \notin Range(Tail(q))
         /\ Range(q) = Range(Tail(q)) \cup {Head(q)}
<1> DEFINE r == Tail(q)
<1>1. /\ r \in Seq(S) /\ Head(q) \in S /\ Head(q) = q[1]
      /\ Len(q) \in Nat \ {0}
      /\ DOMAIN q = 1..Len(q) /\ DOMAIN r = 1..(Len(q) - 1)
      /\ \A i \in 1..(Len(q) - 1) : r[i] = q[i + 1]
  OBVIOUS
<1>2. IsInjective(r)
  BY <1>1 DEF IsInjective
<1>3. Head(q) \notin Range(r)
  BY <1>1 DEF IsInjective, Range
<1>4. Range(q) = Range(r) \cup {Head(q)}
  <2>1. \A i \in 1..Len(q) : i = 1 \/ (i - 1 \in 1..(Len(q) - 1) /\ q[i] = r[i - 1])
    BY <1>1
  <2>2. \A x \in Range(q) : x \in Range(r) \cup {Head(q)}
    <3> SUFFICES ASSUME NEW i \in 1..Len(q) PROVE q[i] \in Range(r) \cup {Head(q)}
      BY <1>1 DEF Range
    <3>1. CASE i = 1
      BY <1>1, <3>1
    <3>2. CASE i - 1 \in 1..(Len(q) - 1) /\ q[i] = r[i - 1]
      BY <1>1, <3>2 DEF Range
    <3>3. QED BY <2>1, <3>1, <3>2
  <2>3. \A x \in Range(r) \cup {Head(q)} : x \in Range(q)
    BY <1>1 DEF Range
  <2>4. QED BY <2>2, <2>3
<1>5. QED BY <1>1, <1>2, <1>3, <1>4

(* The workers that execute a job can be counted. *)
LEMMA CountedFinite ==
  ASSUME NEW S \in SUBSET Workers
  PROVE  IsFiniteSet(S) /\ Cardinality(S) \in Nat
BY PoolAssumption, FS_Subset, FS_CardinalityType

-----------------------------------------------------------------------------
LEMMA InitSafe == Init => Safe
<1> SUFFICES ASSUME Init PROVE Safe
  OBVIOUS
<1>0. queue \in Seq(Jobs) /\ pc \in [Workers -> PC]
  BY DEF Init, PC
<1>1. TypeOK /\ Locking /\ Holding /\ TakesAJob
  <2>1. TypeOK
    BY <1>0 DEF Init, TypeOK
  <2>2. Locking /\ Holding /\ TakesAJob
    BY PoolAssumption DEF Init, Locking, Holding, TakesAJob, Locked, Counted
  <2>3. QED BY <2>1, <2>2
<1>2. InQueue = {} /\ IsInjective(queue)
  BY DEF Init, InQueue, Range, IsInjective
<1>3. Accounted
  BY <1>2 DEF Init, Accounted
<1>4. CountedBy = {}
  BY DEF Init, CountedBy, Counted
<1>5. CountsRunning
  BY <1>4, FS_EmptySet DEF Init, CountsRunning
<1>6. QED BY <1>1, <1>3, <1>5 DEF Safe
-----------------------------------------------------------------------------
(* Steps that leave the jobs alone. *)
LEMMA SameJobs ==
  ASSUME Accounted, UNCHANGED <<queue, added, finished, held>>,
         \A w \in Workers : held[w] # None /\ pc'[w] # "uncount" => held[w] \notin finished
  PROVE  Accounted'
BY DEF Accounted, InQueue

(* Steps that neither start nor end an execution. *)
LEMMA SameCount ==
  ASSUME CountsRunning, running' = running,
         \A w \in Workers : pc'[w] \in Counted <=> pc[w] \in Counted
  PROVE  CountsRunning'
<1>1. CountedBy' = CountedBy
  BY DEF CountedBy
<1>2. QED BY <1>1 DEF CountsRunning

(* A job that is added is new. *)
LEMMA PushSafe ==
  ASSUME Safe, NEW j \in Jobs, Push(j), UNCHANGED <<finished, held>>,
         \A w \in Workers : held[w] # None /\ pc'[w] # "uncount" => held[w] \notin finished
  PROVE  /\ queue' \in Seq(Jobs) /\ added' \in SUBSET Jobs
         /\ queue' # << >>
         /\ Accounted'
<1>1. j \notin InQueue \cup finished /\ \A w \in Workers : held[w] # j
  BY PoolAssumption DEF Safe, Accounted, Push
<1>2. /\ queue' \in Seq(Jobs) /\ queue' # << >>
      /\ InQueue' = InQueue \cup {j}
      /\ IsInjective(queue')
  BY <1>1, PushQueue DEF Safe, TypeOK, Accounted, Push, InQueue
<1>3. added' \in SUBSET Jobs
  BY DEF Safe, TypeOK, Push
<1>4. Accounted'
  BY <1>1, <1>2 DEF Safe, Accounted, Push
<1>5. QED BY <1>2, <1>3, <1>4

-----------------------------------------------------------------------------
(* The steps of get(). *)

LEMMA GetTestSafe ==
  ASSUME Safe, NEW w \in Workers, GetTest(w)
  PROVE  Safe'
<1>1. TypeOK'
  BY PoolAssumption DEF Safe, GetTest, TypeOK, Locked, Counted, PC, Goto, From, sets
<1>2. Locking' /\ Holding' /\ TakesAJob'
  BY PoolAssumption DEF Safe, GetTest, TypeOK, Locking, Holding, TakesAJob, Locked, Counted, PC, Goto, From, sets
<1>3. Accounted'
  BY SameJobs DEF Safe, GetTest, TypeOK, Accounted, Goto, From, sets
<1>4. CountsRunning'
  BY SameCount DEF Safe, GetTest, TypeOK, Locked, Counted, Goto, From
<1>5. QED BY <1>1, <1>2, <1>3, <1>4 DEF Safe

LEMMA GetSleepSafe ==
  ASSUME Safe, NEW w \in Workers, GetSleep(w)
  PROVE  Safe'
<1>1. TypeOK'
  BY PoolAssumption DEF Safe, GetSleep, TypeOK, Locked, Counted, PC, Goto, From, sets
<1>2. Locking' /\ Holding' /\ TakesAJob'
  BY PoolAssumption DEF Safe, GetSleep, TypeOK, Locking, Holding, TakesAJob, Locked, Counted, PC, Goto, From, sets
<1>3. Accounted'
  BY SameJobs DEF Safe, GetSleep, TypeOK, Accounted, Goto, From, sets
<1>4. CountsRunning'
  BY SameCount DEF Safe, GetSleep, TypeOK, Locked, Counted, Goto, From
<1>5. QED BY <1>1, <1>2, <1>3, <1>4 DEF Safe

LEMMA SpuriousSafe ==
  ASSUME Safe, NEW w \in Workers, Spurious(w)
  PROVE  Safe'
<1>1. TypeOK'
  BY PoolAssumption DEF Safe, Spurious, TypeOK, Locked, Counted, PC, Goto, From, sets
<1>2. Locking' /\ Holding' /\ TakesAJob'
  BY PoolAssumption DEF Safe, Spurious, TypeOK, Locking, Holding, TakesAJob, Locked, Counted, PC, Goto, From, sets
<1>3. Accounted'
  BY SameJobs DEF Safe, Spurious, TypeOK, Accounted, Goto, From, sets
<1>4. CountsRunning'
  BY SameCount DEF Safe, Spurious, TypeOK, Locked, Counted, Goto, From
<1>5. QED BY <1>1, <1>2, <1>3, <1>4 DEF Safe

LEMMA GetReturnSafe ==
  ASSUME Safe, NEW w \in Workers, GetReturn(w)
  PROVE  Safe'
<1>1. TypeOK'
  BY PoolAssumption DEF Safe, GetReturn, TypeOK, Locked, Counted, PC, Goto, From, sets
<1>2. Locking' /\ Holding' /\ TakesAJob'
  BY PoolAssumption DEF Safe, GetReturn, TypeOK, Locking, Holding, TakesAJob, Locked, Counted, PC, Goto, From, sets
<1>3. Accounted'
  BY SameJobs DEF Safe, GetReturn, TypeOK, Accounted, Goto, From, sets
<1>4. CountsRunning'
  BY SameCount DEF Safe, GetReturn, TypeOK, Locked, Counted, Goto, From
<1>5. QED BY <1>1, <1>2, <1>3, <1>4 DEF Safe

LEMMA GetTakeSafe ==
  ASSUME Safe, NEW w \in Workers, GetTake(w)
  PROVE  Safe'
<1>1. CASE abort
  <2>1. TypeOK'
    BY <1>1 DEF Safe, GetTake, TypeOK, Locked, Counted, PC, Goto, From, sets
  <2>2. Locking' /\ Holding' /\ TakesAJob'
    BY <1>1 DEF Safe, GetTake, TypeOK, Locking, Holding, TakesAJob, Locked, Counted, PC, Goto, From, sets
  <2>3. Accounted'
    BY <1>1, SameJobs DEF Safe, GetTake, TypeOK, Accounted, Goto, From, sets
  <2>4. CountsRunning'
    BY <1>1, SameCount DEF Safe, GetTake, TypeOK, Counted, Goto, From
  <2>5. QED BY <2>1, <2>2, <2>3, <2>4 DEF Safe
<1>2. CASE ~abort
  <2>1. /\ queue \in Seq(Jobs) /\ queue # << >> /\ IsInjective(queue)
        /\ held[w] = None /\ lock = w /\ pc[w] = "take"
    BY <1>2 DEF Safe, GetTake, TypeOK, TakesAJob, Holding, Locking, Locked, Accounted, From
  <2>2. /\ queue' = Tail(queue) /\ held' = [held EXCEPT ![w] = Head(queue)]
        /\ pc' = [pc EXCEPT ![w] = "return"]
        /\ UNCHANGED <<added, finished, running, lock, waiting, abort, owner>>
    BY <1>2 DEF GetTake, Goto, sets
  <2>3. /\ queue' \in Seq(Jobs) /\ Head(queue) \in Jobs /\ Head(queue) # None
        /\ IsInjective(queue') /\ Head(queue) \notin InQueue'
        /\ InQueue = InQueue' \cup {Head(queue)}
    BY <2>1, <2>2, PopQueue, PoolAssumption DEF InQueue
  <2>4. TypeOK'
    BY <2>2, <2>3 DEF Safe, TypeOK, PC, Locked, Counted
  <2>5. Locking' /\ Holding' /\ TakesAJob'
    BY <2>1, <2>2, <2>3, PoolAssumption DEF Safe, TypeOK, Locking, Holding, TakesAJob, Locked, Counted
  <2>6. Accounted'
    <3>1. \A u \in Workers : held'[u] = IF u = w THEN Head(queue) ELSE held[u]
      BY <2>2 DEF Safe, TypeOK
    <3>2. {held'[u] : u \in Workers} \ {None} = ({held[u] : u \in Workers} \ {None}) \cup {Head(queue)}
      BY <2>1, <2>3, <3>1
    <3>3. \A u \in Workers : u # w => pc'[u] = pc[u]
      BY <2>2 DEF Safe, TypeOK
    <3>4. added' = InQueue' \cup finished' \cup ({held'[u] : u \in Workers} \ {None})
      BY <2>2, <2>3, <3>2 DEF Safe, Accounted
    <3>5. InQueue' \cap finished' = {} /\ Head(queue) \notin finished
      BY <2>2, <2>3 DEF Safe, Accounted
    <3>6. /\ \A u \in Workers : held'[u] # None => held'[u] \notin InQueue'
          /\ \A u \in Workers : held'[u] # None /\ pc'[u] # "uncount" => held'[u] \notin finished'
      BY <2>2, <2>3, <3>1, <3>3, <3>5 DEF Safe, Accounted
    <3>7. \A u, v \in Workers : held'[u] = held'[v] => u = v \/ held'[u] = None
      BY <2>3, <3>1 DEF Safe, Accounted
    <3>8. QED BY <2>3, <3>4, <3>5, <3>6, <3>7 DEF Accounted
  <2>7. CountsRunning'
    BY <2>1, <2>2, SameCount DEF Safe, TypeOK, Counted
  <2>8. QED BY <2>4, <2>5, <2>6, <2>7 DEF Safe
<1>3. QED BY <1>1, <1>2

-----------------------------------------------------------------------------
(* The loop of a worker. *)

LEMMA CountSafe ==
  ASSUME Safe, NEW w \in Workers, Count(w)
  PROVE  Safe'
<1>1. TypeOK'
  BY DEF Safe, Count, TypeOK, Locked, Counted, PC, Goto, From, sets
<1>2. Locking' /\ Holding' /\ TakesAJob'
  BY DEF Safe, Count, TypeOK, Locking, Holding, TakesAJob, Locked, Counted, PC, Goto, From, sets
<1>3. Accounted'
  BY SameJobs DEF Safe, Count, TypeOK, Accounted, Goto, From, sets
<1>4. CountsRunning'
  <2>1. CountedBy' = CountedBy \cup {w} /\ w \notin CountedBy
    BY DEF Safe, Count, TypeOK, CountedBy, Counted, Goto, From
  <2>2. IsFiniteSet(CountedBy) /\ Cardinality(CountedBy) \in Nat
    BY CountedFinite DEF CountedBy
  <2>3. Cardinality(CountedBy') = Cardinality(CountedBy) + 1
    BY <2>1, <2>2, FS_AddElement
  <2>4. QED BY <2>2, <2>3 DEF Safe, Count, TypeOK, CountsRunning
<1>5. QED BY <1>1, <1>2, <1>3, <1>4 DEF Safe

LEMMA ExecAddSafe ==
  ASSUME Safe, NEW w \in Workers, ExecAdd(w)
  PROVE  Safe'
<1>1. PICK j \in Jobs : Push(j)
  BY DEF ExecAdd
<1>2. \A u \in Workers : held[u] # None /\ pc'[u] # "uncount" => held[u] \notin finished
  BY DEF Safe, ExecAdd, TypeOK, Accounted, Counted, Goto, From
<1>3. queue' \in Seq(Jobs) /\ added' \in SUBSET Jobs /\ queue' # << >> /\ Accounted'
  BY <1>1, <1>2, PushSafe DEF ExecAdd
<1>4. TypeOK'
  BY <1>3 DEF Safe, ExecAdd, TypeOK, Counted, Locked, PC, Goto, From
<1>5. Locking' /\ Holding' /\ TakesAJob'
  BY <1>3 DEF Safe, ExecAdd, TypeOK, Locking, Holding, TakesAJob, Locked, Counted, Goto, From
<1>6. CountsRunning'
  BY SameCount DEF Safe, ExecAdd, TypeOK, Counted, Goto, From
<1>7. QED BY <1>3, <1>4, <1>5, <1>6 DEF Safe

LEMMA ExecNotifySafe ==
  ASSUME Safe, NEW w \in Workers, ExecNotify(w)
  PROVE  Safe'
<1>1. TypeOK'
  BY PoolAssumption DEF Safe, ExecNotify, NotifyOne, TypeOK, Locked, Counted, PC, Goto, From, sets
<1>2. Locking' /\ Holding' /\ TakesAJob'
  BY PoolAssumption DEF Safe, ExecNotify, NotifyOne, TypeOK, Locking, Holding, TakesAJob, Locked, Counted, PC, Goto, From, sets
<1>3. Accounted'
  BY SameJobs DEF Safe, ExecNotify, NotifyOne, TypeOK, Accounted, Goto, From, sets
<1>4. CountsRunning'
  BY SameCount DEF Safe, ExecNotify, NotifyOne, TypeOK, Locked, Counted, Goto, From
<1>5. QED BY <1>1, <1>2, <1>3, <1>4 DEF Safe

LEMMA ExecEndSafe ==
  ASSUME Safe, NEW w \in Workers, ExecEnd(w)
  PROVE  Safe'
<1>1. held[w] \in Jobs /\ held[w] # None /\ pc[w] = "exec"
  BY DEF Safe, ExecEnd, TypeOK, Holding, Counted, From
<1>2. TypeOK'
  BY <1>1 DEF Safe, ExecEnd, TypeOK, Locked, Counted, PC, Goto
<1>3. Locking' /\ Holding' /\ TakesAJob'
  BY DEF Safe, ExecEnd, TypeOK, Locking, Holding, TakesAJob, Locked, Counted, Goto, From
<1>4. Accounted'
  <2>1. \A u \in Workers : u # w => pc'[u] = pc[u] /\ held[u] # held[w]
    BY <1>1 DEF Safe, ExecEnd, TypeOK, Accounted, Goto
  <2>2. pc'[w] = "uncount" /\ held' = held /\ InQueue' = InQueue /\ finished' = finished \cup {held[w]}
        /\ added' = added /\ queue' = queue
    BY DEF Safe, ExecEnd, TypeOK, InQueue, Goto
  <2>3. held[w] \notin InQueue /\ held[w] \in {held[u] : u \in Workers} \ {None}
    BY <1>1 DEF Safe, Accounted
  <2>4. QED BY <2>1, <2>2, <2>3 DEF Safe, Accounted
<1>5. CountsRunning'
  BY SameCount DEF Safe, ExecEnd, TypeOK, Counted, Goto, From
<1>6. QED BY <1>2, <1>3, <1>4, <1>5 DEF Safe

(* A worker that lets go of a finished job. *)
LEMMA FinishSafe ==
  ASSUME TypeOK, Accounted, NEW w \in Workers, held[w] # None,
         held' = [held EXCEPT ![w] = None], pc' = [pc EXCEPT ![w] = "get"],
         finished' = finished \cup {held[w]}, UNCHANGED <<queue, added>>
  PROVE  Accounted'
<1>1. \A u \in Workers : u # w => held'[u] = held[u] /\ pc'[u] = pc[u] /\ held[u] # held[w]
  BY DEF TypeOK, Accounted
<1>2. held'[w] = None /\ InQueue' = InQueue
  BY DEF TypeOK, InQueue
<1>3. {held[u] : u \in Workers} \ {None} = ({held'[u] : u \in Workers} \ {None}) \cup {held[w]}
  BY <1>1, <1>2
<1>4. held[w] \notin InQueue
  BY DEF Accounted
<1>5. added' = InQueue' \cup finished' \cup ({held'[u] : u \in Workers} \ {None})
  BY <1>2, <1>3 DEF Accounted
<1>6. QED BY <1>1, <1>2, <1>4, <1>5 DEF Accounted

LEMMA ExecThrowSafe ==
  ASSUME Safe, NEW w \in Workers, ExecThrow(w)
  PROVE  Safe'
<1>1. held[w] \in Jobs /\ held[w] # None /\ pc[w] \in Counted
  BY DEF Safe, ExecThrow, TypeOK, Holding, Counted, From
<1>2. /\ held' = [held EXCEPT ![w] = None] /\ pc' = [pc EXCEPT ![w] = "get"]
      /\ finished' = finished \cup {held[w]}
  BY <1>1 DEF Safe, ExecThrow, TypeOK, Accounted, Goto, From
<1>3. /\ CountedBy' = CountedBy \ {w} /\ w \in CountedBy
      /\ IsFiniteSet(CountedBy) /\ Cardinality(CountedBy) \in Nat
      /\ Cardinality(CountedBy') = Cardinality(CountedBy) - 1
  <2>1. CountedBy' = CountedBy \ {w} /\ w \in CountedBy
    BY <1>1, <1>2 DEF Safe, TypeOK, CountedBy, Counted
  <2>2. IsFiniteSet(CountedBy) /\ Cardinality(CountedBy) \in Nat
    BY CountedFinite DEF CountedBy
  <2>3. QED BY <2>1, <2>2, FS_RemoveElement
<1>4. MayThrow /\ running' = running /\ CountsRunning' /\ running' \in Nat
  BY <1>3 DEF Safe, ExecThrow, TypeOK, CountsRunning
<1>5. TypeOK'
  BY <1>1, <1>2, <1>4 DEF Safe, ExecThrow, TypeOK, Locked, Counted, PC, sets
<1>6. Locking' /\ Holding' /\ TakesAJob'
  BY <1>1, <1>2 DEF Safe, ExecThrow, TypeOK, Locking, Holding, TakesAJob, Locked, Counted, sets
<1>7. Accounted'
  BY <1>1, <1>2, FinishSafe DEF Safe, ExecThrow, sets
<1>8. QED BY <1>4, <1>5, <1>6, <1>7 DEF Safe

LEMMA UncountSafe ==
  ASSUME Safe, NEW w \in Workers, Uncount(w)
  PROVE  Safe'
<1>1. held[w] \in Jobs /\ held[w] # None /\ pc[w] \in Counted
  BY DEF Safe, Uncount, TypeOK, Holding, Counted, From
<1>2. /\ held' = [held EXCEPT ![w] = None] /\ pc' = [pc EXCEPT ![w] = "get"]
      /\ finished' = finished \cup {held[w]}
  BY <1>1 DEF Safe, Uncount, TypeOK, Accounted, Goto, From, Holding, sets
<1>3. /\ CountedBy' = CountedBy \ {w} /\ w \in CountedBy
      /\ IsFiniteSet(CountedBy) /\ Cardinality(CountedBy) \in Nat
      /\ Cardinality(CountedBy') = Cardinality(CountedBy) - 1
  <2>1. CountedBy' = CountedBy \ {w} /\ w \in CountedBy
    BY <1>1, <1>2 DEF Safe, TypeOK, CountedBy, Counted
  <2>2. IsFiniteSet(CountedBy) /\ Cardinality(CountedBy) \in Nat
    BY CountedFinite DEF CountedBy
  <2>3. QED BY <2>1, <2>2, FS_RemoveElement
<1>4. running' = running - 1 /\ CountsRunning' /\ running' \in Nat
  <2>1. running >= Cardinality(CountedBy) /\ Cardinality(CountedBy) >= 1
    BY <1>3, FS_EmptySet DEF Safe, CountsRunning, TypeOK
  <2>2. QED BY <1>3, <2>1 DEF Safe, Uncount, TypeOK, CountsRunning
<1>5. TypeOK'
  BY <1>1, <1>2, <1>4 DEF Safe, Uncount, TypeOK, Locked, Counted, PC, sets
<1>6. Locking' /\ Holding' /\ TakesAJob'
  BY <1>1, <1>2 DEF Safe, Uncount, TypeOK, Locking, Holding, TakesAJob, Locked, Counted, sets
<1>7. Accounted'
  BY <1>1, <1>2, FinishSafe DEF Safe, Uncount, sets
<1>8. QED BY <1>4, <1>5, <1>6, <1>7 DEF Safe

-----------------------------------------------------------------------------
(* The owner. *)

LEMMA OwnerAddSafe ==
  ASSUME Safe, OwnerAdd
  PROVE  Safe'
<1>1. PICK j \in Jobs : Push(j)
  BY DEF OwnerAdd
<1>2. \A u \in Workers : held[u] # None /\ pc'[u] # "uncount" => held[u] \notin finished
  BY DEF Safe, OwnerAdd, TypeOK, Accounted, Counted
<1>3. queue' \in Seq(Jobs) /\ added' \in SUBSET Jobs /\ queue' # << >> /\ Accounted'
  BY <1>1, <1>2, PushSafe DEF OwnerAdd
<1>4. TypeOK'
  BY <1>3 DEF Safe, OwnerAdd, TypeOK, Counted, Locked, PC
<1>5. Locking' /\ Holding' /\ TakesAJob'
  BY <1>3 DEF Safe, OwnerAdd, TypeOK, Locking, Holding, TakesAJob, Locked, Counted
<1>6. CountsRunning'
  BY SameCount DEF Safe, OwnerAdd, TypeOK, Counted
<1>7. QED BY <1>3, <1>4, <1>5, <1>6 DEF Safe

LEMMA OwnerNotifySafe ==
  ASSUME Safe, OwnerNotify
  PROVE  Safe'
<1>1. TypeOK'
  BY PoolAssumption DEF Safe, OwnerNotify, NotifyOne, TypeOK, Locked, Counted, PC, Goto, From, sets
<1>2. Locking' /\ Holding' /\ TakesAJob'
  BY PoolAssumption DEF Safe, OwnerNotify, NotifyOne, TypeOK, Locking, Holding, TakesAJob, Locked, Counted, PC, Goto, From, sets
<1>3. Accounted'
  BY SameJobs DEF Safe, OwnerNotify, NotifyOne, TypeOK, Accounted, Goto, From, sets
<1>4. CountsRunning'
  BY SameCount DEF Safe, OwnerNotify, NotifyOne, TypeOK, Locked, Counted, Goto, From
<1>5. QED BY <1>1, <1>2, <1>3, <1>4 DEF Safe

LEMMA PollRunningSafe ==
  ASSUME Safe, PollRunning
  PROVE  Safe'
<1>1. TypeOK'
  BY PoolAssumption DEF Safe, PollRunning, TypeOK, Locked, Counted, PC, Goto, From, sets
<1>2. Locking' /\ Holding' /\ TakesAJob'
  BY PoolAssumption DEF Safe, PollRunning, TypeOK, Locking, Holding, TakesAJob, Locked, Counted, PC, Goto, From, sets
<1>3. Accounted'
  BY SameJobs DEF Safe, PollRunning, TypeOK, Accounted, Goto, From, sets
<1>4. CountsRunning'
  BY SameCount DEF Safe, PollRunning, TypeOK, Locked, Counted, Goto, From
<1>5. QED BY <1>1, <1>2, <1>3, <1>4 DEF Safe

LEMMA PollQueueSafe ==
  ASSUME Safe, PollQueue
  PROVE  Safe'
<1>1. TypeOK'
  BY PoolAssumption DEF Safe, PollQueue, TypeOK, Locked, Counted, PC, Goto, From, sets
<1>2. Locking' /\ Holding' /\ TakesAJob'
  BY PoolAssumption DEF Safe, PollQueue, TypeOK, Locking, Holding, TakesAJob, Locked, Counted, PC, Goto, From, sets
<1>3. Accounted'
  BY SameJobs DEF Safe, PollQueue, TypeOK, Accounted, Goto, From, sets
<1>4. CountsRunning'
  BY SameCount DEF Safe, PollQueue, TypeOK, Locked, Counted, Goto, From
<1>5. QED BY <1>1, <1>2, <1>3, <1>4 DEF Safe

LEMMA NextBatchSafe ==
  ASSUME Safe, NextBatch
  PROVE  Safe'
<1>1. TypeOK'
  BY PoolAssumption DEF Safe, NextBatch, TypeOK, Locked, Counted, PC, Goto, From, sets
<1>2. Locking' /\ Holding' /\ TakesAJob'
  BY PoolAssumption DEF Safe, NextBatch, TypeOK, Locking, Holding, TakesAJob, Locked, Counted, PC, Goto, From, sets
<1>3. Accounted'
  BY SameJobs DEF Safe, NextBatch, TypeOK, Accounted, Goto, From, sets
<1>4. CountsRunning'
  BY SameCount DEF Safe, NextBatch, TypeOK, Locked, Counted, Goto, From
<1>5. QED BY <1>1, <1>2, <1>3, <1>4 DEF Safe

LEMMA SetAbortSafe ==
  ASSUME Safe, SetAbort
  PROVE  Safe'
<1>1. TypeOK'
  BY PoolAssumption DEF Safe, SetAbort, TypeOK, Locked, Counted, PC, Goto, From, sets
<1>2. Locking' /\ Holding' /\ TakesAJob'
  BY PoolAssumption DEF Safe, SetAbort, TypeOK, Locking, Holding, TakesAJob, Locked, Counted, PC, Goto, From, sets
<1>3. Accounted'
  BY SameJobs DEF Safe, SetAbort, TypeOK, Accounted, Goto, From, sets
<1>4. CountsRunning'
  BY SameCount DEF Safe, SetAbort, TypeOK, Locked, Counted, Goto, From
<1>5. QED BY <1>1, <1>2, <1>3, <1>4 DEF Safe

LEMMA NotifyAllSafe ==
  ASSUME Safe, NotifyAll
  PROVE  Safe'
<1>1. TypeOK'
  BY PoolAssumption DEF Safe, NotifyAll, TypeOK, Locked, Counted, PC, Goto, From, sets
<1>2. Locking' /\ Holding' /\ TakesAJob'
  BY PoolAssumption DEF Safe, NotifyAll, TypeOK, Locking, Holding, TakesAJob, Locked, Counted, PC, Goto, From, sets
<1>3. Accounted'
  BY SameJobs DEF Safe, NotifyAll, TypeOK, Accounted, Goto, From, sets
<1>4. CountsRunning'
  BY SameCount DEF Safe, NotifyAll, TypeOK, Locked, Counted, Goto, From
<1>5. QED BY <1>1, <1>2, <1>3, <1>4 DEF Safe

LEMMA JoinSafe ==
  ASSUME Safe, Join
  PROVE  Safe'
<1>1. TypeOK'
  BY PoolAssumption DEF Safe, Join, TypeOK, Locked, Counted, PC, Goto, From, sets
<1>2. Locking' /\ Holding' /\ TakesAJob'
  BY PoolAssumption DEF Safe, Join, TypeOK, Locking, Holding, TakesAJob, Locked, Counted, PC, Goto, From, sets
<1>3. Accounted'
  BY SameJobs DEF Safe, Join, TypeOK, Accounted, Goto, From, sets
<1>4. CountsRunning'
  BY SameCount DEF Safe, Join, TypeOK, Locked, Counted, Goto, From
<1>5. QED BY <1>1, <1>2, <1>3, <1>4 DEF Safe

-----------------------------------------------------------------------------
(* The inductive invariant. *)
THEOREM PoolSafe == Spec => []Safe
<1>1. Init => Safe
  BY InitSafe
<1>2. Safe /\ [Next]_vars => Safe'
  <2> SUFFICES ASSUME Safe, [Next]_vars PROVE Safe'
    OBVIOUS
  <2>1. CASE Owner
    BY <2>1, OwnerAddSafe, OwnerNotifySafe, PollRunningSafe, PollQueueSafe, NextBatchSafe,
       SetAbortSafe, NotifyAllSafe, JoinSafe DEF Owner
  <2>2. ASSUME NEW w \in Workers, Work(w) PROVE Safe'
    BY <2>2, GetTestSafe, GetSleepSafe, GetTakeSafe, GetReturnSafe, CountSafe, ExecAddSafe,
       ExecNotifySafe, ExecEndSafe, ExecThrowSafe, UncountSafe DEF Work
  <2>3. ASSUME NEW w \in Workers, Spurious(w) PROVE Safe'
    BY <2>3, SpuriousSafe
  <2>4. CASE UNCHANGED vars
    BY <2>4 DEF vars, Safe, TypeOK, Locking, Holding, TakesAJob, Accounted, CountsRunning,
                InQueue, CountedBy
  <2>5. QED BY <2>1, <2>2, <2>3, <2>4 DEF Next
<1>3. QED BY <1>1, <1>2, PTL DEF Spec

(* Every variable keeps its type. *)
THEOREM PoolTyped == Spec => []TypeOK
BY PoolSafe, PTL DEF Safe

(* No worker takes the front of an empty queue: a job another worker took  *)
(* first and a wake-up for nothing are noticed.                            *)
THEOREM NeverTakesFromEmpty == Spec => []TakesAJob
BY PoolSafe, PTL DEF Safe

(* A job is never lost and never executed twice: until it is finished it   *)
(* is in the queue or in the hands of exactly one worker.                  *)
THEOREM JobsAccounted == Spec => []Accounted
BY PoolSafe, PTL DEF Safe

(* The counter that allClear() reads never misses a job being executed.    *)
THEOREM RunningCounted == Spec => []CountsRunning
BY PoolSafe, PTL DEF Safe
=============================================================================
