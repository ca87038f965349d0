--------------------------- MODULE PostingUpdate ---------------------------
(***************************************************************************)
(* The update path of ExtraDynamicSearcher: foreground threads insert and  *)
(* delete vectors, the threads of m_splitThreadPool run the append, split  *)
(* and reassign jobs.  A posting is a list of vectors kept in the          *)
(* key-value store under the identifier of its head (centroid); the head   *)
(* index (BKT) says which heads a search can find.                         *)
(*                                                                         *)
(* Every shared access the code makes outside a common critical section is *)
(* a step of its own, so the splitter, which holds no lock of the posting  *)
(* it splits, interleaves with the appenders, which do.                    *)
(*                                                                         *)
(* A vector's bytes and all distances are abstracted: which heads are      *)
(* selected, how a posting is clustered and whether a centroid coincides   *)
(* with the old head are chosen freely.  A copy of a vector is the pair of *)
(* its identifier and the version stored with it; a posting is a set of    *)
(* copies, its length record is kept separately as the code does.          *)
(***************************************************************************)
EXTENDS Integers, FiniteSets, Sequences

CONSTANTS
  Vectors,          \* vector identifiers (VID)
  Deletable,        \* bound: the vectors the caller may delete
  InitHeads,        \* heads of the index the updates start from
  SpareHeads,       \* bound: identifiers for the heads the splits create
  Feeders,          \* threads calling AddIndex
  Workers,          \* threads of m_splitThreadPool
  None,             \* no thread, no head
  Tombstone,        \* the version 0xfe of a deleted vector
  Limit,            \* m_postingSizeLimit
  ReassignSlack,    \* reassignThreshold of the appends a reassign makes (3 in the code)
  ReplicaCount,     \* m_replicaCount
  MaxVersion,       \* bound: a vector is reassigned at most this often
  MergeThreshold,   \* m_mergeThreshold
  BalancePercent,   \* m_balanceFactor, in percent
  FilterAppend,     \* m_filterAppend
  EnableOptSplit,   \* m_enableOptSplit
  DisableReassign,  \* m_disableReassign
  SameHead,         \* input: may a centroid coincide with the head being split
  Identical         \* input: may all vectors of a posting be the same point

Threads  == Feeders \cup Workers
Heads    == InitHeads \cup SpareHeads
Versions == 0..127   \* m_versionMap keeps 7 bits
Copies   == Vectors \X Versions

ASSUME UpdateAssumption ==
  /\ IsFiniteSet(Vectors)
  /\ InitHeads \cap SpareHeads = {}
  /\ Deletable \subseteq Vectors
  /\ None \notin Threads \cup Heads \cup Copies
  /\ Feeders \cap Workers = {}
  /\ Limit \in Nat \ {0}
  /\ ReassignSlack \in Nat \ {0}
  /\ ReplicaCount \in Nat \ {0}
  /\ MaxVersion \in 0..127
  /\ MergeThreshold \in Nat
  /\ BalancePercent \in 0..100
  /\ Tombstone \notin Nat
  /\ {FilterAppend, EnableOptSplit, DisableReassign, SameHead, Identical} \subseteq BOOLEAN

Status   == {"normal", "splitting", "deleted"}
Presence == {"absent", "adding", "live", "deleted"}

(* A job of the pool: exec() of the three *AsyncJob classes.  A reassign   *)
(* job carries one copy and the head it was found in.                      *)
Job == [kind : {"append", "split", "reassign"}, head : Heads, copies : SUBSET Copies]

(* Where a thread is: the step of the routine it executes next.            *)
PC == {"idle", "insert",                                     \* job dispatch, AddIndex
       "reassign", "bump", "inc", "spread",                  \* ConcurrentReassignSingleVector
       "append", "miss", "branch", "look", "cache",          \* ConcurrentAppend
       "get", "put", "count", "grow", "enqueue",
       "split", "gclock", "gcsize", "gcput", "gcerase",      \* ConcurrentSplit
       "gcflush", "gcnormal",
       "optout", "optnormal", "optcollect", "optput", "optsize",
       "part", "publish", "partsize",
       "scan", "collect1", "flush1", "lock", "unindex", "shrink", "retire",
       "collect2", "flush2", "erase"}

(* Locals of a thread: of ConcurrentAppend and where it returns to, of     *)
(* AddIndex and ConcurrentReassignSingleVector, of ConcurrentSplit and its *)
(* caller.                                                                 *)
AppendFrame == [at : Heads \cup {None}, batch : SUBSET Copies, slack : {0, ReassignSlack},
                old : SUBSET Copies, back : {"idle", "insert", "spread", "flush1", "flush2"}]
MoveFrame   == [copy : Copies \cup {None}, prev : Heads \cup {None}, targets : SUBSET Heads]
SplitFrame  == [of : Heads \cup {None}, parts : [1..2 -> SUBSET Copies], k : 1..2,
                into : [1..2 -> Heads \cup {None}], todo : SUBSET Copies,
                flush : [1..2 -> SUBSET Copies], caller : {"idle", "spread"}]

VARIABLES
  posting,     \* db: the copies stored under each head
  size,        \* m_postingSizes: the recorded length
  status,      \* the status bits of m_postingVersionMap
  cache,       \* m_vectorCache: copies set aside while a posting is split
  index,       \* presence of the head in the BKT head index
  version,     \* m_versionMap
  pending,     \* vectors not yet inserted
  jobs,        \* queue of m_splitThreadPool
  splitList,   \* m_splitList
  rwLock,      \* m_rwLocks: holder of each posting's lock
  addLock,     \* m_dataAddLock
  pc, app, mov, spl   \* the threads: next step and locals

store  == <<posting, size>>
marks  == <<status, cache, index>>
pool   == <<jobs, splitList>>
locks  == <<rwLock, addLock>>
labels == <<version, pending>>
locals == <<app, mov, spl>>
vars   == <<posting, size, status, cache, index, version, pending, jobs, splitList,
            rwLock, addLock, pc, app, mov, spl>>

-----------------------------------------------------------------------------
(* Helpers *)

Vid(c) == c[1]
Ver(c) == c[2]

(* m_versionMap says the copy is the live one.                             *)
Current(c) == version[Vid(c)] = Ver(c)
CurrentOf(S) == {c \in S : Current(c)}

(* Drop the copies whose vector already occurs in S, whatever version      *)
(* the copy in S has.                                                      *)
WithoutVectorsOf(S, new) == {c \in new : \A d \in S : Vid(d) # Vid(c)}

Searchable == {h \in Heads : index[h] = "live"}

(* RNGSelection: up to ReplicaCount heads found by the head index.         *)
Selections == {S \in SUBSET Searchable : S # {} /\ Cardinality(S) <= ReplicaCount}

Goto(t, l) == pc' = [pc EXCEPT ![t] = l]
From(t, l) == pc[t] = l

Enqueued(kind, h, S) == Append(jobs, [kind |-> kind, head |-> h, copies |-> S])

NoAppend == [at |-> None, batch |-> {}, slack |-> 0, old |-> {}, back |-> "idle"]
NoMove   == [copy |-> None, prev |-> None, targets |-> {}]
NoSplit  == [of |-> None, parts |-> [k \in 1..2 |-> {}], k |-> 1,
             into |-> [k \in 1..2 |-> None], todo |-> {}, flush |-> [k \in 1..2 |-> {}],
             caller |-> "idle"]

(* ConcurrentAppend(h, S, slack) is called from back, and returns there.   *)
CallAppend(t, h, S, slack, back) ==
  /\ app' = [app EXCEPT ![t] = [at |-> h, batch |-> S, slack |-> slack, old |-> {}, back |-> back]]
  /\ Goto(t, "append")

ReturnAppend(t) ==
  /\ app' = [app EXCEPT ![t] = NoAppend]
  /\ Goto(t, app[t].back)

(* ConcurrentSplit(h) is called by a job or at the end of a reassign's     *)
(* append, and returns.                                                    *)
CallSplit(t, h, caller) ==
  /\ app' = [app EXCEPT ![t] = NoAppend]
  /\ spl' = [spl EXCEPT ![t] = [NoSplit EXCEPT !.of = h, !.caller = caller]]
  /\ Goto(t, "split")

ReturnSplit(t) ==
  /\ spl' = [spl EXCEPT ![t] = NoSplit]
  /\ Goto(t, spl[t].caller)

(* AddIndex and ConcurrentReassignSingleVector return.                     *)
Finish(t) ==
  /\ mov' = [mov EXCEPT ![t] = NoMove]
  /\ Goto(t, "idle")

Init ==
  /\ pending \in SUBSET Vectors
  /\ \E home \in [Vectors \ pending -> InitHeads] :
       /\ posting = [h \in Heads |-> {<<v, 0>> : v \in {w \in Vectors \ pending : home[w] = h}}]
       /\ \A h \in Heads : Cardinality(posting[h]) <= Limit
  /\ size = [h \in Heads |-> IF h \in InitHeads THEN Cardinality(posting[h]) ELSE -1]
  /\ status = [h \in Heads |-> IF h \in InitHeads THEN "normal" ELSE "deleted"]
  /\ cache = [h \in Heads |-> {}]
  /\ index = [h \in Heads |-> IF h \in InitHeads THEN "live" ELSE "absent"]
  /\ version = [v \in Vectors |-> 0]
  /\ jobs = << >>
  /\ splitList = {}
  /\ rwLock = [h \in Heads |-> None]
  /\ addLock = None
  /\ pc = [t \in Threads |-> "idle"]
  /\ app = [t \in Threads |-> NoAppend]
  /\ mov = [t \in Threads |-> NoMove]
  /\ spl = [t \in Threads |-> NoSplit]

-----------------------------------------------------------------------------
(* Foreground operations *)

(* SPANN::Index::AddIndex gives the vector its identifier; AddIndex        *)
(* selects its heads and reads its version.                                *)
AddIndex(t) ==
  /\ t \in Feeders
  /\ From(t, "idle")
  /\ \E v \in pending, S \in Selections :
       /\ pending' = pending \ {v}
       /\ mov' = [mov EXCEPT ![t].copy = <<v, version[v]>>, ![t].targets = S]
  /\ Goto(t, "insert")
  /\ UNCHANGED <<store, marks, pool, locks, version, app, spl>>

(* The loop of AddIndex over the selected heads.                           *)
InsertNext(t) ==
  /\ From(t, "insert")
  /\ \/ \E h \in mov[t].targets :
          /\ mov' = [mov EXCEPT ![t].targets = @ \ {h}]
          /\ CallAppend(t, h, {mov[t].copy}, 0, "insert")
     \/ /\ mov[t].targets = {}
        /\ Finish(t)
        /\ UNCHANGED app
  /\ UNCHANGED <<store, marks, pool, locks, labels, spl>>

(* SPANN::Index::DeleteIndex: one exchange of the version label.           *)
DeleteIndex(v) ==
  /\ v \in Deletable \ pending
  /\ version[v] # Tombstone
  /\ version' = [version EXCEPT ![v] = Tombstone]
  /\ UNCHANGED <<store, marks, pool, locks, pending, pc, locals>>

-----------------------------------------------------------------------------
(* The pool: a worker takes the job at the front of the queue and starts   *)
(* the routine its exec() calls.                                           *)
TakeJob(t) ==
  /\ t \in Workers
  /\ From(t, "idle")
  /\ jobs # << >>
  /\ LET j == Head(jobs) IN
       \/ /\ j.kind = "append"
          /\ CallAppend(t, j.head, j.copies, 0, "idle")
          /\ UNCHANGED <<mov, spl>>
       \/ /\ j.kind = "split"
          /\ CallSplit(t, j.head, "idle")
          /\ UNCHANGED mov
       \/ /\ j.kind = "reassign"
          /\ \E c \in j.copies : mov' = [mov EXCEPT ![t].copy = c, ![t].prev = j.head]
          /\ Goto(t, "reassign")
          /\ UNCHANGED <<app, spl>>
  /\ jobs' = Tail(jobs)
  /\ UNCHANGED <<store, marks, splitList, locks, labels>>

-----------------------------------------------------------------------------
(* ConcurrentReassignSingleVector *)

(* The copy must be the live one before and after RNGSelection, which says *)
(* no when the search meets the head the copy came from, as it may while   *)
(* that head is in the index.                                              *)
ReassignSelect(t) ==
  /\ From(t, "reassign")
  /\ LET c == mov[t].copy IN
     \/ /\ ~Current(c) \/ mov[t].prev \in Searchable
        /\ Finish(t)
     \/ /\ Current(c)
        /\ \E S \in Selections :
             /\ mov[t].prev \notin S
             /\ mov' = [mov EXCEPT ![t].targets = S]
        /\ Goto(t, "bump")
  /\ UNCHANGED <<store, marks, pool, locks, labels, app, spl>>

(* IncVersion: the vector must not be deleted; then the label, whatever it *)
(* is by now, is replaced by its successor.  A deletion in between leaves  *)
(* the label 0xfe, whose successor in 7 bits is 0x7f.  MaxVersion bounds   *)
(* the other increments, so labels do not wrap.                            *)
Successor(x) == IF x = Tombstone THEN 127 ELSE x + 1

ReassignCheck(t) ==
  /\ From(t, "bump")
  /\ Goto(t, IF version[Vid(mov[t].copy)] = Tombstone THEN "spread" ELSE "inc")
  /\ UNCHANGED <<store, marks, pool, locks, labels, locals>>

(* Bug: the new copy is labelled, the version label is not.                *)
BumpUnrecorded(t) ==
  /\ From(t, "inc")
  /\ LET v == Vid(mov[t].copy) IN
       /\ version[v] # Tombstone /\ version[v] < MaxVersion
       /\ mov' = [mov EXCEPT ![t].copy = <<v, version[v] + 1>>]
  /\ Goto(t, "spread")
  /\ UNCHANGED <<store, marks, pool, locks, labels, app, spl>>

ReassignBump(t) ==
  /\ From(t, "inc")
  /\ LET v == Vid(mov[t].copy) IN
       /\ version[v] # Tombstone => version[v] < MaxVersion
       /\ version' = [version EXCEPT ![v] = Successor(@)]
       /\ mov' = [mov EXCEPT ![t].copy = <<v, Successor(version[v])>>]
  /\ Goto(t, "spread")
  /\ UNCHANGED <<store, marks, pool, locks, pending, app, spl>>

(* The new copy goes to each selected head while it is the live one.       *)
ReassignSpread(t) ==
  /\ From(t, "spread")
  /\ \/ /\ Current(mov[t].copy)
        /\ \E h \in mov[t].targets :
             /\ mov' = [mov EXCEPT ![t].targets = @ \ {h}]
             /\ CallAppend(t, h, {mov[t].copy}, ReassignSlack, "spread")
     \/ /\ mov[t].targets = {} \/ ~Current(mov[t].copy)
        /\ Finish(t)
        /\ UNCHANGED app
  /\ UNCHANGED <<store, marks, pool, locks, labels, spl>>

-----------------------------------------------------------------------------
(* ConcurrentAppend *)

(* The status is read without the lock of the posting and twice under it:  *)
(* is the head deleted (then the lock is released), and is it splitting.   *)
(* The splitter may change it between the two.                             *)
AppendEnter(t) ==
  /\ From(t, "append")
  /\ LET h == app[t].at IN
     \/ /\ status[h] = "deleted"
        /\ Goto(t, "miss")
        /\ UNCHANGED rwLock
     \/ /\ status[h] # "deleted"
        /\ rwLock[h] = None
        /\ rwLock' = [rwLock EXCEPT ![h] = t]
        /\ Goto(t, "branch")
  /\ UNCHANGED <<store, marks, pool, addLock, labels, locals>>

(* Bugs: the copies sent to a head that is gone are dropped; or sent there *)
(* again.                                                                  *)
MissDrops(t) ==
  /\ From(t, "miss")
  /\ ReturnAppend(t)
  /\ UNCHANGED <<store, marks, pool, locks, labels, mov, spl>>

MissRetries(t) ==
  /\ From(t, "miss")
  /\ jobs' = Enqueued("append", app[t].at, app[t].batch)
  /\ ReturnAppend(t)
  /\ UNCHANGED <<store, marks, splitList, locks, labels, mov, spl>>

(* The head is gone: a reassign job for every copy that is still live,     *)
(* then return Undefined, at which a reassign stops spreading its copy.    *)
AppendMiss(t) ==
  /\ From(t, "miss")
  /\ \/ \E c \in app[t].batch :
          /\ jobs' = IF Current(c) THEN Enqueued("reassign", app[t].at, {c}) ELSE jobs
          /\ app' = [app EXCEPT ![t].batch = @ \ {c}]
          /\ UNCHANGED <<pc, mov>>
     \/ /\ app[t].batch = {}
        /\ app[t].back # "spread"
        /\ ReturnAppend(t)
        /\ UNCHANGED <<jobs, mov>>
     \/ /\ app[t].batch = {}
        /\ app[t].back = "spread"
        /\ app' = [app EXCEPT ![t] = NoAppend]
        /\ Finish(t)
        /\ UNCHANGED jobs
  /\ UNCHANGED <<store, marks, splitList, locks, labels, spl>>

(* Bug: an append does not look whether the posting is being split.        *)
BranchUnaware(t) ==
  /\ From(t, "branch")
  /\ Goto(t, "get")
  /\ UNCHANGED <<store, marks, pool, locks, labels, locals>>

AppendBranch(t) ==
  /\ From(t, "branch")
  /\ Goto(t, IF status[app[t].at] = "splitting" THEN "look" ELSE "get")
  /\ UNCHANGED <<store, marks, pool, locks, labels, locals>>

(* Splitting: the copies whose vector was not in the cache are added to    *)
(* it, and the lock is released.  The splitter, which takes the cache      *)
(* without the lock, may come between the two steps.                       *)
AppendLook(t) ==
  /\ From(t, "look")
  /\ app' = [app EXCEPT ![t].old = cache[app[t].at]]
  /\ Goto(t, "cache")
  /\ UNCHANGED <<store, marks, pool, locks, labels, mov, spl>>

AppendCache(t) ==
  /\ From(t, "cache")
  /\ LET h == app[t].at IN
       /\ cache' = [cache EXCEPT ![h] = @ \cup WithoutVectorsOf(app[t].old, app[t].batch)]
       /\ rwLock' = [rwLock EXCEPT ![h] = None]
  /\ ReturnAppend(t)
  /\ UNCHANGED <<store, status, index, pool, addLock, labels, mov, spl>>

AppendGet(t) ==
  /\ From(t, "get")
  /\ app' = [app EXCEPT ![t].old = posting[app[t].at]]
  /\ Goto(t, "put")
  /\ UNCHANGED <<store, marks, pool, locks, labels, mov, spl>>

(* The old content and the new copies are written back, then counted; with *)
(* FilterAppend a vector that already occurs in the posting is left out.   *)
AppendPut(t) ==
  /\ From(t, "put")
  /\ LET new == IF FilterAppend THEN WithoutVectorsOf(app[t].old, app[t].batch)
                                ELSE app[t].batch
     IN /\ posting' = [posting EXCEPT ![app[t].at] = app[t].old \cup new]
        /\ app' = [app EXCEPT ![t].batch = new]
  /\ Goto(t, "count")
  /\ UNCHANGED <<size, marks, pool, locks, labels, mov, spl>>

AppendCount(t) ==
  /\ From(t, "count")
  /\ size' = [size EXCEPT ![app[t].at] = @ + Cardinality(app[t].batch)]
  /\ Goto(t, "grow")
  /\ UNCHANGED <<posting, marks, pool, locks, labels, locals>>

(* An oversized posting is marked as splitting before the lock is          *)
(* released.                                                               *)
AppendGrow(t) ==
  /\ From(t, "grow")
  /\ LET h    == app[t].at
         over == size[h] > Limit + app[t].slack
     IN /\ rwLock' = [rwLock EXCEPT ![h] = None]
        /\ \/ /\ ~over
              /\ ReturnAppend(t)
              /\ UNCHANGED <<status, spl>>
           \/ /\ over /\ app[t].slack = 0
              /\ status' = [status EXCEPT ![h] = "splitting"]
              /\ Goto(t, "enqueue")
              /\ UNCHANGED <<app, spl>>
           \/ /\ over /\ app[t].slack # 0
              /\ status' = [status EXCEPT ![h] = "splitting"]
              /\ CallSplit(t, h, "spread")
  /\ UNCHANGED <<store, cache, index, pool, addLock, labels, mov>>

(* ConcurrentSplitAsync: a head already in m_splitList gets no new job.    *)
SplitAsync(h) ==
  IF h \in splitList
  THEN UNCHANGED pool
  ELSE /\ splitList' = splitList \cup {h}
       /\ jobs' = Enqueued("split", h, {})

AppendEnqueue(t) ==
  /\ From(t, "enqueue")
  /\ SplitAsync(app[t].at)
  /\ ReturnAppend(t)
  /\ UNCHANGED <<store, marks, locks, labels, mov, spl>>

-----------------------------------------------------------------------------
(* ConcurrentSplit, with m_enableFinedLock set as all configurations do.   *)
(* It never holds the lock of the posting it splits: a block that reads    *)
(* "if (m_enableFinedLock) { unique_lock }" waits for the lock and gives   *)
(* it back at once.                                                        *)
SplitLock(t, from, to) ==
  /\ From(t, from)
  /\ rwLock[spl[t].of] = None
  /\ Goto(t, to)
  /\ UNCHANGED <<store, marks, pool, locks, labels, locals>>

(* Read the posting and keep the live copies.  Fewer than Limit of them    *)
(* is garbage collection, else 2-means clustering: all the same point, a   *)
(* small cluster beside the old head, or two parts.                        *)
Bipartitions(S) == {p \in [1..2 -> SUBSET S \ {{}}] : p[1] \cup p[2] = S /\ p[1] \cap p[2] = {}}

(* The part whose vectors the optimised split sends away.                  *)
Small(p) == IF Cardinality(p[1]) < Cardinality(p[2]) THEN 1 ELSE 2
Uneven(p) ==
  LET least == Cardinality(p[Small(p)]) IN
    \/ least < MergeThreshold
    \/ least * 100 <= BalancePercent * Cardinality(p[1] \cup p[2])

SplitRead(t) ==
  /\ From(t, "split")
  /\ LET h    == spl[t].of
         live == CurrentOf(posting[h])
     IN
     \/ /\ Cardinality(live) < Limit
        /\ spl' = [spl EXCEPT ![t].todo = live]
        /\ Goto(t, "gclock")
     \/ /\ Cardinality(live) >= Limit
        /\ Identical \/ Cardinality(live) = 1
        /\ \E c \in live : spl' = [spl EXCEPT ![t].todo = {c}]
        /\ Goto(t, "gclock")
     \/ /\ Cardinality(live) >= Limit
        /\ \E p \in Bipartitions(live), same \in IF SameHead THEN 0..2 ELSE {0} :
             LET optimised == EnableOptSplit /\ same # 0 /\ Uneven(p) IN
             /\ spl' = [spl EXCEPT ![t] =
                          [@ EXCEPT !.parts = p,
                                    !.todo = IF optimised THEN p[Small(p)] ELSE {},
                                    !.into = [k \in 1..2 |-> IF k = same THEN h ELSE None]]]
             /\ Goto(t, IF optimised THEN "optout" ELSE "part")
  /\ UNCHANGED <<store, marks, pool, locks, labels, app, mov>>

(* Garbage collection, or a posting of identical points cut to one copy:   *)
(* record the length, write the kept copies back, leave m_splitList, send  *)
(* the cache to an append job and mark the posting normal, in this order.  *)
SplitGcSize(t) ==
  /\ From(t, "gcsize")
  /\ size' = [size EXCEPT ![spl[t].of] = Cardinality(spl[t].todo)]
  /\ Goto(t, "gcput")
  /\ UNCHANGED <<posting, marks, pool, locks, labels, locals>>

SplitGcPut(t) ==
  /\ From(t, "gcput")
  /\ posting' = [posting EXCEPT ![spl[t].of] = spl[t].todo]
  /\ Goto(t, "gcerase")
  /\ UNCHANGED <<size, marks, pool, locks, labels, locals>>

SplitGcErase(t) ==
  /\ From(t, "gcerase")
  /\ splitList' = splitList \ {spl[t].of}
  /\ Goto(t, "gcflush")
  /\ UNCHANGED <<store, marks, jobs, locks, labels, locals>>

SplitGcFlush(t) ==
  /\ From(t, "gcflush")
  /\ LET h == spl[t].of IN
       /\ jobs' = IF cache[h] = {} THEN jobs ELSE Enqueued("append", h, cache[h])
       /\ cache' = [cache EXCEPT ![h] = {}]
  /\ Goto(t, "gcnormal")
  /\ UNCHANGED <<store, status, index, splitList, locks, labels, locals>>

(* Bug: the mark stays.                                                    *)
GcKeepsMark(t) ==
  /\ From(t, "gcnormal")
  /\ ReturnSplit(t)
  /\ UNCHANGED <<store, marks, pool, locks, labels, app, mov>>

SplitGcNormal(t) ==
  /\ From(t, "gcnormal")
  /\ status' = [status EXCEPT ![spl[t].of] = "normal"]
  /\ ReturnSplit(t)
  /\ UNCHANGED <<store, cache, index, pool, locks, labels, app, mov>>

(* The optimised split: the small part goes to reassign jobs, the head     *)
(* keeps the other part.  The posting is marked normal before it is        *)
(* written, and stays in m_splitList.                                      *)
SplitOptOut(t) ==
  /\ From(t, "optout")
  /\ \/ \E c \in spl[t].todo :
          /\ jobs' = Enqueued("reassign", spl[t].of, {c})
          /\ spl' = [spl EXCEPT ![t].todo = @ \ {c}]
          /\ UNCHANGED pc
     \/ /\ spl[t].todo = {}
        /\ Goto(t, "optnormal")
        /\ UNCHANGED <<jobs, spl>>
  /\ UNCHANGED <<store, marks, splitList, locks, labels, app, mov>>

SplitOptNormal(t) ==
  /\ From(t, "optnormal")
  /\ status' = [status EXCEPT ![spl[t].of] = "normal"]
  /\ Goto(t, "optcollect")
  /\ UNCHANGED <<store, cache, index, pool, locks, labels, locals>>

SplitOptCollect(t) ==
  /\ From(t, "optcollect")
  /\ spl' = [spl EXCEPT ![t].todo = spl[t].parts[3 - Small(spl[t].parts)] \cup cache[spl[t].of]]
  /\ cache' = [cache EXCEPT ![spl[t].of] = {}]
  /\ Goto(t, "optput")
  /\ UNCHANGED <<store, status, index, pool, locks, labels, app, mov>>

SplitOptPut(t) ==
  /\ From(t, "optput")
  /\ posting' = [posting EXCEPT ![spl[t].of] = spl[t].todo]
  /\ Goto(t, "optsize")
  /\ UNCHANGED <<size, marks, pool, locks, labels, locals>>

SplitOptSize(t) ==
  /\ From(t, "optsize")
  /\ size' = [size EXCEPT ![spl[t].of] = Cardinality(spl[t].todo)]
  /\ IF Cardinality(spl[t].todo) > Limit THEN SplitAsync(spl[t].of) ELSE UNCHANGED pool
  /\ ReturnSplit(t)
  /\ UNCHANGED <<posting, marks, locks, labels, app, mov>>

(* Part k goes to the old head when the centroids coincide, else to a new  *)
(* head that AddIndexId creates and whose posting is stored under its lock *)
(* and m_dataAddLock; a search finds it after AddIndexIdx only.            *)
SplitPart(t) ==
  /\ From(t, "part")
  /\ LET k == spl[t].k IN
     \/ /\ spl[t].into[k] # None
        /\ posting' = [posting EXCEPT ![spl[t].of] = spl[t].parts[k]]
        /\ Goto(t, "partsize")
        /\ UNCHANGED <<status, index, locks, spl>>
     \/ /\ spl[t].into[k] = None
        /\ addLock = None
        /\ \E n \in Heads :
             /\ index[n] = "absent" /\ rwLock[n] = None
             /\ index' = [index EXCEPT ![n] = "adding"]
             /\ status' = [status EXCEPT ![n] = "normal"]
             /\ posting' = [posting EXCEPT ![n] = spl[t].parts[k]]
             /\ rwLock' = [rwLock EXCEPT ![n] = t]
             /\ spl' = [spl EXCEPT ![t].into[k] = n]
        /\ addLock' = t
        /\ Goto(t, "publish")
  /\ UNCHANGED <<size, cache, pool, labels, app, mov>>

SplitPublish(t) ==
  /\ From(t, "publish")
  /\ LET n == spl[t].into[spl[t].k] IN
       /\ index' = [index EXCEPT ![n] = "live"]
       /\ rwLock' = [rwLock EXCEPT ![n] = None]
  /\ addLock' = None
  /\ Goto(t, "partsize")
  /\ UNCHANGED <<store, status, cache, pool, labels, locals>>

FirstPartOnly(t) ==
  /\ From(t, "partsize")
  /\ Goto(t, "scan")
  /\ UNCHANGED <<store, marks, pool, locks, labels, locals>>

(* The length is recorded after the head is published and unlocked.        *)
SplitPartSize(t) ==
  /\ From(t, "partsize")
  /\ LET k == spl[t].k IN
       /\ size' = [size EXCEPT ![spl[t].into[k]] = Cardinality(spl[t].parts[k])]
       /\ \/ /\ k = 1
             /\ spl' = [spl EXCEPT ![t].k = 2]
             /\ Goto(t, "part")
          \/ /\ k = 2
             /\ spl' = [spl EXCEPT ![t].todo = IF DisableReassign THEN {}
                                               ELSE spl[t].parts[1] \cup spl[t].parts[2]]
             /\ Goto(t, "scan")
  /\ UNCHANGED <<posting, marks, pool, locks, labels, app, mov>>

(* ConcurrentCollectReAssign with ReassignK = 0: a reassign job for the    *)
(* live copies whose nearest head may have changed.                        *)
SplitScan(t) ==
  /\ From(t, "scan")
  /\ \/ \E c \in spl[t].todo, k \in 1..2 :
          /\ c \in spl[t].parts[k] /\ Current(c)
          /\ jobs' = Enqueued("reassign", spl[t].into[k], {c})
          /\ spl' = [spl EXCEPT ![t].todo = @ \ {c}]
          /\ UNCHANGED pc
     \/ /\ spl' = [spl EXCEPT ![t].todo = {}]
        /\ Goto(t, "collect1")
        /\ UNCHANGED jobs
  /\ UNCHANGED <<store, marks, splitList, locks, labels, app, mov>>

(* collect: take the cache.                                                *)
SplitCollect(t, from, to) ==
  /\ From(t, from)
  /\ spl' = [spl EXCEPT ![t].todo = cache[spl[t].of]]
  /\ cache' = [cache EXCEPT ![spl[t].of] = {}]
  /\ Goto(t, to)
  /\ UNCHANGED <<store, status, index, pool, locks, labels, app, mov>>

(* ProcessSplitCacheVectors: what is no longer live is dropped, the rest   *)
(* goes to the nearer of the new heads, one append each.                   *)
SplitFlush(t, here, next) ==
  /\ From(t, here)
  /\ \/ /\ spl[t].todo # {}
        /\ \E near \in SUBSET CurrentOf(spl[t].todo) :
             spl' = [spl EXCEPT ![t].todo = {},
                       ![t].flush = [k \in 1..2 |-> IF k = 1 THEN near
                                                   ELSE CurrentOf(spl[t].todo) \ near]]
        /\ UNCHANGED <<pc, app>>
     \/ \E k \in 1..2 :
          /\ spl[t].todo = {} /\ spl[t].flush[k] # {}
          /\ k = 2 => spl[t].flush[1] = {}
          /\ spl' = [spl EXCEPT ![t].flush[k] = {}]
          /\ CallAppend(t, spl[t].into[k], spl[t].flush[k], 0, here)
     \/ /\ spl[t].todo = {} /\ \A k \in 1..2 : spl[t].flush[k] = {}
        /\ Goto(t, next)
        /\ UNCHANGED <<spl, app>>
  /\ UNCHANGED <<store, marks, pool, locks, labels, mov>>

(* Bug: the old head is retired and stays in the index.                    *)
StaysIndexed(t) ==
  /\ From(t, "unindex")
  /\ Goto(t, "shrink")
  /\ UNCHANGED <<store, marks, pool, locks, labels, locals>>

(* The old head leaves the index, its length is cleared and it is marked   *)
(* as deleted; when it keeps a part it is marked normal.                   *)
SplitUnindex(t) ==
  /\ From(t, "unindex")
  /\ LET h == spl[t].of IN
     \/ /\ \A k \in 1..2 : spl[t].into[k] # h
        /\ index' = [index EXCEPT ![h] = "deleted"]
        /\ Goto(t, "shrink")
        /\ UNCHANGED status
     \/ /\ \E k \in 1..2 : spl[t].into[k] = h
        /\ status' = [status EXCEPT ![h] = "normal"]
        /\ Goto(t, "collect2")
        /\ UNCHANGED index
  /\ UNCHANGED <<store, cache, pool, locks, labels, locals>>

SplitShrink(t) ==
  /\ From(t, "shrink")
  /\ size' = [size EXCEPT ![spl[t].of] = 0]
  /\ Goto(t, "retire")
  /\ UNCHANGED <<posting, marks, pool, locks, labels, locals>>

SplitRetire(t) ==
  /\ From(t, "retire")
  /\ status' = [status EXCEPT ![spl[t].of] = "deleted"]
  /\ Goto(t, "collect2")
  /\ UNCHANGED <<store, cache, index, pool, locks, labels, locals>>

SplitErase(t) ==
  /\ From(t, "erase")
  /\ splitList' = splitList \ {spl[t].of}
  /\ ReturnSplit(t)
  /\ UNCHANGED <<store, marks, jobs, locks, labels, app, mov>>

-----------------------------------------------------------------------------
Reassign(t) == ReassignSelect(t) \/ ReassignCheck(t) \/ ReassignBump(t) \/ ReassignSpread(t)

ConcurrentAppend(t) ==
  \/ AppendEnter(t) \/ AppendMiss(t) \/ AppendBranch(t) \/ AppendLook(t) \/ AppendCache(t)
  \/ AppendGet(t) \/ AppendPut(t) \/ AppendCount(t) \/ AppendGrow(t) \/ AppendEnqueue(t)

ConcurrentSplit(t) ==
  \/ SplitRead(t)
  \/ SplitLock(t, "gclock", "gcsize")
  \/ SplitGcSize(t) \/ SplitGcPut(t) \/ SplitGcErase(t) \/ SplitGcFlush(t) \/ SplitGcNormal(t)
  \/ SplitOptOut(t) \/ SplitOptNormal(t) \/ SplitOptCollect(t) \/ SplitOptPut(t) \/ SplitOptSize(t)
  \/ SplitPart(t) \/ SplitPublish(t) \/ SplitPartSize(t)
  \/ SplitScan(t)
  \/ SplitCollect(t, "collect1", "flush1") \/ SplitFlush(t, "flush1", "lock")
  \/ SplitLock(t, "lock", "unindex")
  \/ SplitUnindex(t) \/ SplitShrink(t) \/ SplitRetire(t)
  \/ SplitCollect(t, "collect2", "flush2") \/ SplitFlush(t, "flush2", "erase")
  \/ SplitErase(t)

(* What a thread does next in the routine it is in, or the job it takes.   *)
Step(t) == InsertNext(t) \/ TakeJob(t) \/ Reassign(t) \/ ConcurrentAppend(t) \/ ConcurrentSplit(t)

Next ==
  \/ \E t \in Threads : AddIndex(t) \/ Step(t)
  \/ \E v \in Vectors : DeleteIndex(v)

Spec == Init /\ [][Next]_vars

(* Every thread keeps running: an insert ends, a worker takes jobs while   *)
(* there are any, a lock that is released is acquired.  The callers need   *)
(* not insert or delete anything.                                          *)
FairSpec == Spec /\ \A t \in Threads : WF_vars(Step(t))

-----------------------------------------------------------------------------
(* Every variable keeps its type. *)
TypeOK ==
  /\ posting \in [Heads -> SUBSET Copies]
  /\ size \in [Heads -> Int]
  /\ status \in [Heads -> Status]
  /\ cache \in [Heads -> SUBSET Copies]
  /\ index \in [Heads -> Presence]
  /\ version \in [Vectors -> Versions \cup {Tombstone}]
  /\ pending \in SUBSET Vectors
  /\ jobs \in Seq(Job)
  /\ splitList \in SUBSET Heads
  /\ rwLock \in [Heads -> Threads \cup {None}]
  /\ addLock \in Threads \cup {None}
  /\ pc \in [Threads -> PC]
  /\ app \in [Threads -> AppendFrame]
  /\ mov \in [Threads -> MoveFrame]
  /\ spl \in [Threads -> SplitFrame]

(* Where copies can be. *)
Live(v) == <<v, version[v]>>
Held(t) == app[t].batch \cup app[t].old \cup spl[t].todo
             \cup (UNION {spl[t].flush[k] \cup spl[t].parts[k] : k \in 1..2})
             \cup ({mov[t].copy} \ {None})
Queued  == UNION {jobs[i].copies : i \in DOMAIN jobs}
Stored  == UNION {posting[h] : h \in Heads}
Cached  == UNION {cache[h] : h \in Heads}
InUse   == Queued \cup (UNION {Held(t) : t \in Threads}) \cup Stored \cup Cached

Quiet   == jobs = << >> /\ \A t \in Threads : pc[t] = "idle"

(* The split has taken its mark off the head and hands out what is left.   *)
Ending(t) == pc[t] \in {"collect2", "flush2", "erase"} \/ app[t].back = "flush2"

(* No two threads divide the same head, although ConcurrentSplit takes no  *)
(* lock and is reached from a split job and, past m_splitList, from the    *)
(* append of a reassign.                                                   *)
SplitExclusive ==
  \A t, u \in Threads :
    /\ t # u /\ spl[t].of # None
    /\ ~Ending(t) /\ ~Ending(u)
    => spl[t].of # spl[u].of

(* A head that is not retired and is marked as splitting, so that its      *)
(* appends go to the cache, has a thread that splits it, a job that will,  *)
(* or a thread about to queue one: the mark is never left behind.          *)
MarkOwned ==
  \A h \in Heads : status[h] = "splitting" /\ index[h] # "deleted" =>
    \/ \E t \in Threads : spl[t].of = h \/ (pc[t] = "enqueue" /\ app[t].at = h)
    \/ \E i \in DOMAIN jobs : jobs[i].kind = "split" /\ jobs[i].head = h

(* The posting an append writes back is the one it read plus the new       *)
(* copies: no splitter wrote it in between, so the append undoes nothing.  *)
AppendFresh ==
  \A t \in Threads : pc[t] = "put" => app[t].old = posting[app[t].at]

(* From the read of a posting to the retirement of its head, its live      *)
(* copies are those the splitter read: an append that slipped in would     *)
(* vanish with the head.                                                   *)
Splitting == {"part", "publish", "partsize", "scan", "collect1", "flush1", "lock", "unindex"}
SplitSnapshot ==
  \A t \in Threads :
    LET both == spl[t].parts[1] \cup spl[t].parts[2] IN
    pc[t] \in Splitting /\ spl[t].of \notin {spl[t].into[1], spl[t].into[2]}
      => CurrentOf(posting[spl[t].of]) \subseteq both /\ both \subseteq posting[spl[t].of]

(* A vector that a search can find stays findable through splits, garbage  *)
(* collection and appends of others, until it is deleted or reassigned.    *)
Posted(v) == \E h \in Searchable : Live(v) \in posting[h]
PostedStays ==
  [][\A v \in Vectors : Posted(v) => Posted(v)' \/ version'[v] # version[v]]_vars

(* The live copy of a vector is never dropped: it is in a job, in a        *)
(* thread's hands, in a cache or in a posting.  It does not hold with      *)
(* several workers or replicas: the filters of an append compare           *)
(* identifiers and not versions (README, Disagreements).                   *)
Kept ==
  \A v \in Vectors \ pending : version[v] # Tombstone => Live(v) \in InUse

(* No copy has a version its vector has not reached, so an old copy never  *)
(* passes for the live one.                                                *)
NoFutureCopy ==
  \A c \in InUse : version[Vid(c)] = Tombstone \/ Ver(c) <= version[Vid(c)]

(* A head that a search offers is not deleted: an append or a reassign     *)
(* sent there is not turned away for ever.                                 *)
DeletedNotSearchable ==
  \A h \in Heads : index[h] = "live" => status[h] # "deleted"

(* An append writes to no posting that is marked as deleted: it looks      *)
(* again once it holds the lock.                                           *)
NeverIntoRetired ==
  \A t \in Threads : pc[t] = "put" => status[app[t].at] # "deleted"

(* When no work is left, the cache of a retired head is empty: the second  *)
(* collect left nothing behind.                                            *)
(* The code does not keep this: README, Disagreements.  No run checks it.  *)
CacheDrained ==
  Quiet => \A h \in Heads : index[h] = "deleted" => cache[h] = {}
=============================================================================
