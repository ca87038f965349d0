---------------------------- MODULE PostingMerge ----------------------------
(***************************************************************************)
(* Merging of small postings, ExtraDynamicSearcher.  A search that sees a  *)
(* small posting queues a merge of its head.  One merge at a time puts the *)
(* posting together with that of a neighbour, retires the head of the      *)
(* smaller one and hands what was cached for both to appends.  A merge     *)
(* that finds another one running queues the older variant, MergePostings, *)
(* which takes the locks of both heads and leaves the status alone.        *)
(*                                                                         *)
(* A posting is the set of the vectors in it; outdated copies are filtered *)
(* like deleted vectors and not told apart from them.  Splits are in       *)
(* PostingUpdate; here sizes stay below their limit.  So are the reassigns *)
(* that a merge queues for the vectors of the head it retires: here a job  *)
(* only carries the flag that asks for them.                               *)
(***************************************************************************)
EXTENDS Integers, FiniteSets, Bags

CONSTANTS
  Heads,
  Vectors,
  Workers,    \* threads of m_splitThreadPool
  Searchers,
  Appenders,  \* threads that insert
  Posted,     \* input: the vectors posted at first, by head
  Threshold,  \* m_mergeThreshold
  Limit,      \* m_postingSizeLimit
  Deletable,  \* bound: vectors that may be deleted
  DisableReassign, \* m_disableReassign
  MaxJobs,    \* bound: jobs in the pool
  None

ASSUME MergeAssumption ==
  /\ Posted \in [Heads -> SUBSET Vectors]
  /\ Threshold \in Nat /\ Limit \in Nat /\ MaxJobs \in Nat
  /\ IsFiniteSet(Vectors)
  /\ None \notin Heads \cup Workers \cup Searchers \cup Appenders

VARIABLES
  posting,    \* db
  size,       \* m_postingSizes
  status,     \* m_postingVersionMap: status
  cache,      \* m_postingVersionMap: m_vectorCache
  index,      \* the heads in the head index
  dead,       \* m_versionMap: the deleted vectors
  mergeList,  \* m_mergeList
  mergeLock,  \* m_mergeLock: its holder
  lock,       \* m_rwLocks: the holder for each head
  jobs,       \* the queue of the pool, as a bag
  th          \* the threads: next step and locals

store == <<posting, size, cache>>
heads == <<status, index>>
vars == <<store, heads, dead, mergeList, mergeLock, lock, jobs, th>>

Threads == Workers \cup Searchers \cup Appenders
Idle == [pc |-> "idle", h |-> None, n |-> None, cur |-> {}, next |-> {}, vs |-> {}, kind |-> "none", re |-> FALSE]

MergeJob(k, h, re) == [kind |-> k, h |-> h, vs |-> {}, re |-> re]
AppendJob(h, vs) == [kind |-> "append", h |-> h, vs |-> vs, re |-> FALSE]
Jobs == [kind : {"merge", "old", "append"}, h : Heads, vs : SUBSET Vectors, re : BOOLEAN]

Init ==
  /\ posting = Posted
  /\ size = [h \in Heads |-> Cardinality(Posted[h])]
  /\ status = [h \in Heads |-> "normal"]
  /\ cache = [h \in Heads |-> {}]
  /\ index = Heads
  /\ dead = {}
  /\ mergeList = {}
  /\ mergeLock = None
  /\ lock = [h \in Heads |-> None]
  /\ jobs = EmptyBag
  /\ th = [t \in Threads |-> Idle]

At(t, l) == th[t].pc = l
To(t, l) == th' = [th EXCEPT ![t].pc = l]
Holds(t, h) == lock[h] = t
Acquire(t, h) == lock[h] = None /\ lock' = [lock EXCEPT ![h] = t]
Release(h) == lock' = [lock EXCEPT ![h] = None]
Live(vs) == vs \ dead
Stored == (UNION {Posted[h] : h \in Heads}) \cup (UNION {posting[h] \cup cache[h] : h \in Heads})

-----------------------------------------------------------------------------
(* SearchIndex: few live vectors were in what it read.  It counts those of *)
(* a posting of its filtered list and names the head of that place in the  *)
(* unfiltered one, and a posting that was not read in time counts none, so *)
(* it may be any head; one retired since the selection as well.            *)
(* ConcurrentMergeAsync looks the head up in m_mergeList and inserts it in *)
(* two steps.                                                              *)
SearchSmall(t, h) ==
  /\ At(t, "idle")
  /\ h \notin mergeList /\ BagCardinality(jobs) < MaxJobs
  /\ th' = [th EXCEPT ![t] = [Idle EXCEPT !.pc = "list", !.h = h]]
  /\ UNCHANGED <<store, heads, dead, mergeList, mergeLock, lock, jobs>>

ListMerge(t) ==
  /\ At(t, "list")
  /\ mergeList' = mergeList \cup {th[t].h}
  /\ To(t, "queue")
  /\ UNCHANGED <<store, heads, dead, mergeLock, lock, jobs>>

QueueMerge(t) ==
  /\ At(t, "queue")
  /\ jobs' = jobs (+) SetToBag({MergeJob("merge", th[t].h, ~DisableReassign)})
  /\ th' = [th EXCEPT ![t] = Idle]
  /\ UNCHANGED <<store, heads, dead, mergeList, mergeLock, lock>>

(* DeleteIndex of a vector. *)
DeleteVector(v) ==
  /\ v \in Deletable \ dead
  /\ dead' = dead \cup {v}
  /\ UNCHANGED <<store, heads, mergeList, mergeLock, lock, jobs, th>>

-----------------------------------------------------------------------------
(* A worker takes a job. *)
Take(t, j) ==
  /\ At(t, "idle")
  /\ BagIn(j, jobs)
  /\ jobs' = jobs (-) SetToBag({j})
  /\ th' = [th EXCEPT ![t] = [Idle EXCEPT !.pc = IF j.kind = "append" THEN "test" ELSE "try",
                                        !.kind = j.kind, !.h = j.h, !.vs = j.vs, !.re = j.re]]
  /\ UNCHANGED <<store, heads, dead, mergeList, mergeLock, lock>>

(* While another merge runs the job goes back to the queue, as a           *)
(* MergeAsyncJob whatever it was, and its flag is given as its opposite:   *)
(* the constructor takes disableReassign.                                  *)
TryAgain(t) ==
  /\ At(t, "try")
  /\ mergeLock # None
  /\ jobs' = jobs (+) SetToBag({MergeJob("old", th[t].h, ~th[t].re)})
  /\ th' = [th EXCEPT ![t] = Idle]
  /\ UNCHANGED <<store, heads, dead, mergeList, mergeLock, lock>>

TryLock(t) ==
  /\ At(t, "try")
  /\ mergeLock = None
  /\ mergeLock' = t
  /\ To(t, IF th[t].kind = "old" THEN "oldlock" ELSE "contain")
  /\ UNCHANGED <<store, heads, dead, mergeList, lock, jobs>>

(* The head is gone: unlock, then mark it. *)
HeadGone(t) ==
  /\ At(t, "contain")
  /\ th[t].h \notin index
  /\ mergeLock' = None
  /\ To(t, "markgone")
  /\ UNCHANGED <<store, heads, dead, mergeList, lock, jobs>>

MarkGone(t) ==
  /\ At(t, "markgone")
  /\ status' = [status EXCEPT ![th[t].h] = "deleted"]
  /\ th' = [th EXCEPT ![t] = Idle]
  /\ UNCHANGED <<store, index, dead, mergeList, mergeLock, lock, jobs>>

Mark(t) ==
  /\ At(t, "contain")
  /\ th[t].h \in index
  /\ status' = [status EXCEPT ![th[t].h] = "merging"]
  /\ To(t, "get")
  /\ UNCHANGED <<store, index, dead, mergeList, mergeLock, lock, jobs>>

(* The posting without its deleted vectors. *)
GetHead(t) ==
  /\ At(t, "get")
  /\ th' = [th EXCEPT ![t].cur = Live(posting[th[t].h]),
                      ![t].pc = IF Cardinality(Live(posting[th[t].h])) > Threshold THEN "enough" ELSE "choose"]
  /\ UNCHANGED <<store, heads, dead, mergeList, mergeLock, lock, jobs>>

(* It is large enough: it is written back as it is, in a critical section. *)
Enough(t) ==
  LET h == th[t].h IN
  /\ At(t, "enough")
  /\ lock[h] = None
  /\ size' = [size EXCEPT ![h] = Cardinality(th[t].cur)]
  /\ posting' = [posting EXCEPT ![h] = th[t].cur]
  /\ mergeList' = mergeList \ {h}
  /\ status' = [status EXCEPT ![h] = "normal"]
  /\ mergeLock' = None
  /\ th' = [th EXCEPT ![t] = Idle]
  /\ UNCHANGED <<cache, index, dead, lock, jobs>>

(* A neighbour that fits, is not listed for a merge and is in the index.   *)
Fits(t, n) ==
  /\ n \in index /\ n # th[t].h /\ n \notin mergeList
  /\ Cardinality(th[t].cur) + size[n] < Limit

Choose(t, n) ==
  /\ At(t, "choose")
  /\ Fits(t, n)
  /\ status' = [status EXCEPT ![n] = "merging"]
  /\ th' = [th EXCEPT ![t].n = n, ![t].pc = "getnext"]
  /\ UNCHANGED <<store, index, dead, mergeList, mergeLock, lock, jobs>>

ChooseNone(t) ==
  /\ At(t, "choose")
  /\ \A n \in Heads : ~Fits(t, n)
  /\ To(t, "alone")
  /\ UNCHANGED <<store, heads, dead, mergeList, mergeLock, lock, jobs>>

GetNext(t) ==
  /\ At(t, "getnext")
  /\ th' = [th EXCEPT ![t].next = Live(posting[th[t].n]), ![t].pc = "retire"]
  /\ UNCHANGED <<store, heads, dead, mergeList, mergeLock, lock, jobs>>

(* The larger posting's head stays.                                        *)
Stays(t) == IF Cardinality(th[t].cur) > Cardinality(th[t].next) THEN th[t].h ELSE th[t].n
Goes(t)  == IF Cardinality(th[t].cur) > Cardinality(th[t].next) THEN th[t].n ELSE th[t].h

(* Bug: the lock of the head that stays is not taken.                      *)
RetireUnlocked(t) ==
  /\ At(t, "retire")
  /\ index' = index \ {Goes(t)}
  /\ To(t, "marknext")
  /\ UNCHANGED <<store, status, dead, mergeList, mergeLock, lock, jobs>>

Retire(t) ==
  /\ At(t, "retire")
  /\ Acquire(t, Stays(t))
  /\ index' = index \ {Goes(t)}
  /\ To(t, "marknext")
  /\ UNCHANGED <<store, status, dead, mergeList, mergeLock, jobs>>

MarkRetired(t) ==
  /\ At(t, "marknext")
  /\ status' = [status EXCEPT ![Goes(t)] = "deleted"]
  /\ To(t, "put")
  /\ UNCHANGED <<store, index, dead, mergeList, mergeLock, lock, jobs>>

(* Bug: what the retired head had is not written. *)
PutCurrent(t) ==
  /\ At(t, "put")
  /\ posting' = [posting EXCEPT ![Stays(t)] = IF Stays(t) = th[t].h THEN th[t].cur ELSE th[t].next]
  /\ size' = [size EXCEPT ![Goes(t)] = 0, ![Stays(t)] = Cardinality(th[t].cur \cup th[t].next)]
  /\ To(t, "normal")
  /\ UNCHANGED <<cache, heads, dead, mergeList, mergeLock, lock, jobs>>

(* The merged posting of the head that stays; the other posting is left in *)
(* the store.                                                              *)
PutMerged(t) ==
  /\ At(t, "put")
  /\ posting' = [posting EXCEPT ![Stays(t)] = th[t].cur \cup th[t].next]
  /\ size' = [size EXCEPT ![Goes(t)] = 0, ![Stays(t)] = Cardinality(th[t].cur \cup th[t].next)]
  /\ To(t, "normal")
  /\ UNCHANGED <<cache, heads, dead, mergeList, mergeLock, lock, jobs>>

Normal(t) ==
  /\ At(t, "normal")
  /\ status' = [status EXCEPT ![Stays(t)] = "normal"]
  /\ Release(Stays(t))
  /\ To(t, "unlock")
  /\ UNCHANGED <<store, index, dead, mergeList, mergeLock, jobs>>

Unlock(t) ==
  /\ At(t, "unlock")
  /\ mergeLock' = None
  /\ To(t, "collectgone")
  /\ UNCHANGED <<store, heads, dead, mergeList, lock, jobs>>

(* collect and ProcessMergeCacheVectors: the cached vectors that are live  *)
(* go to an append to the head that stays.                                 *)
Collect(from, to) ==
  /\ cache' = [cache EXCEPT ![from] = {}]
  /\ jobs' = IF Live(cache[from]) = {} THEN jobs ELSE jobs (+) SetToBag({AppendJob(to, Live(cache[from]))})

CollectGone(t) ==
  /\ At(t, "collectgone")
  /\ Collect(Goes(t), Stays(t))
  /\ To(t, "collect")
  /\ UNCHANGED <<posting, size, heads, dead, mergeList, mergeLock, lock>>

CollectStays(t) ==
  /\ At(t, "collect")
  /\ Collect(Stays(t), Stays(t))
  /\ To(t, "erase")
  /\ UNCHANGED <<posting, size, heads, dead, mergeList, mergeLock, lock>>

(* Bug: the merged head stays listed. *)
EraseNot(t) ==
  /\ At(t, "erase")
  /\ th' = [th EXCEPT ![t] = Idle]
  /\ UNCHANGED <<store, heads, dead, mergeList, mergeLock, lock, jobs>>

Erase(t) ==
  /\ At(t, "erase")
  /\ mergeList' = mergeList \ {th[t].h}
  /\ th' = [th EXCEPT ![t] = Idle]
  /\ UNCHANGED <<store, heads, dead, mergeLock, lock, jobs>>

(* No neighbour fits: the posting is written back, and the cache collected *)
(* before and after the mark is cleared.                                   *)
AlonePut(t) ==
  /\ At(t, "alone")
  /\ Acquire(t, th[t].h)
  /\ size' = [size EXCEPT ![th[t].h] = Cardinality(th[t].cur)]
  /\ posting' = [posting EXCEPT ![th[t].h] = th[t].cur]
  /\ To(t, "alonecollect")
  /\ UNCHANGED <<cache, heads, dead, mergeList, mergeLock, jobs>>

AloneCollect(t) ==
  /\ At(t, "alonecollect")
  /\ Collect(th[t].h, th[t].h)
  /\ To(t, "alonenormal")
  /\ UNCHANGED <<posting, size, heads, dead, mergeList, mergeLock, lock>>

AloneNormal(t) ==
  /\ At(t, "alonenormal")
  /\ status' = [status EXCEPT ![th[t].h] = "normal"]
  /\ To(t, "alonerest")
  /\ UNCHANGED <<store, index, dead, mergeList, mergeLock, lock, jobs>>

AloneRest(t) ==
  /\ At(t, "alonerest")
  /\ Collect(th[t].h, th[t].h)
  /\ To(t, "aloneend")
  /\ UNCHANGED <<posting, size, heads, dead, mergeList, mergeLock, lock>>

AloneEnd(t) ==
  /\ At(t, "aloneend")
  /\ mergeList' = mergeList \ {th[t].h}
  /\ mergeLock' = None
  /\ Release(th[t].h)
  /\ th' = [th EXCEPT ![t] = Idle]
  /\ UNCHANGED <<store, heads, dead, jobs>>

-----------------------------------------------------------------------------
(* MergePostings, with the lock of the head and then of the neighbour.     *)
OldLock(t) ==
  /\ At(t, "oldlock")
  /\ Acquire(t, th[t].h)
  /\ To(t, "old")
  /\ UNCHANGED <<store, heads, dead, mergeList, mergeLock, jobs>>

OldGone(t) ==
  /\ At(t, "old")
  /\ th[t].h \notin index
  /\ mergeLock' = None
  /\ Release(th[t].h)
  /\ th' = [th EXCEPT ![t] = Idle]
  /\ UNCHANGED <<store, heads, dead, mergeList, jobs>>

(* It is large enough, or no neighbour fits. *)
OldAlone(t) ==
  LET h == th[t].h
      live == Live(posting[h]) IN
  /\ At(t, "old")
  /\ h \in index
  /\ \/ Cardinality(live) > Threshold
     \/ \A n \in index \ {h} : n \in mergeList \/ Cardinality(live) + size[n] >= Limit
  /\ posting' = [posting EXCEPT ![h] = live]
  /\ size' = [size EXCEPT ![h] = Cardinality(live)]
  /\ mergeList' = mergeList \ {h}
  /\ mergeLock' = None
  /\ Release(h)
  /\ th' = [th EXCEPT ![t] = Idle]
  /\ UNCHANGED <<cache, heads, dead, jobs>>

OldChoose(t, n) ==
  LET h == th[t].h IN
  /\ At(t, "old")
  /\ h \in index /\ Cardinality(Live(posting[h])) <= Threshold
  /\ n \in index \ {h} /\ n \notin mergeList
  /\ Cardinality(Live(posting[h])) + size[n] < Limit
  /\ Acquire(t, n)
  /\ th' = [th EXCEPT ![t].n = n, ![t].cur = Live(posting[h]), ![t].next = Live(posting[n]), ![t].pc = "oldmerge"]
  /\ UNCHANGED <<store, heads, dead, mergeList, mergeLock, jobs>>

OldMerge(t) ==
  /\ At(t, "oldmerge")
  /\ index' = index \ {Goes(t)}
  /\ posting' = [posting EXCEPT ![Stays(t)] = th[t].cur \cup th[t].next]
  /\ size' = [size EXCEPT ![Goes(t)] = 0, ![Stays(t)] = Cardinality(th[t].cur \cup th[t].next)]
  /\ lock' = [lock EXCEPT ![th[t].h] = None, ![th[t].n] = None]
  /\ mergeLock' = None
  /\ To(t, "erase")
  /\ UNCHANGED <<cache, status, dead, mergeList, jobs>>

-----------------------------------------------------------------------------
(* ConcurrentAppend as a merge sees it: a test without the lock, under the *)
(* lock of the head two reads of the status, then the cache or a read and  *)
(* a write of the posting.  No head splits here: the read of the other     *)
(* mark between the two says no.                                           *)
Append(t, h, v) ==
  /\ At(t, "idle")
  /\ h \in index
  /\ v \notin dead \cup Stored /\ \A u \in Threads : v \notin th[u].vs \cup th[u].cur
  /\ th' = [th EXCEPT ![t] = [Idle EXCEPT !.pc = "test", !.h = h, !.vs = {v}]]
  /\ UNCHANGED <<store, heads, dead, mergeList, mergeLock, lock, jobs>>

AppendTest(t) ==
  /\ At(t, "test")
  /\ To(t, IF status[th[t].h] = "deleted" THEN "reroute" ELSE "lock")
  /\ UNCHANGED <<store, heads, dead, mergeList, mergeLock, lock, jobs>>

(* The head is gone: the vectors are routed again.                         *)
Reroute(t) ==
  /\ At(t, "reroute")
  /\ \E h \in index : th' = [th EXCEPT ![t].h = h, ![t].pc = "test"]
  /\ UNCHANGED <<store, heads, dead, mergeList, mergeLock, lock, jobs>>

AppendLock(t) ==
  /\ At(t, "lock")
  /\ Acquire(t, th[t].h)
  /\ To(t, "again")
  /\ UNCHANGED <<store, heads, dead, mergeList, mergeLock, jobs>>

(* goto checkDeleted, out of the scope of the lock.                        *)
AppendGone(t) ==
  /\ At(t, "again")
  /\ status[th[t].h] = "deleted"
  /\ Release(th[t].h)
  /\ To(t, "test")
  /\ UNCHANGED <<store, heads, dead, mergeList, mergeLock, jobs>>

AppendAgain(t) ==
  /\ At(t, "again")
  /\ status[th[t].h] # "deleted"
  /\ To(t, "merging")
  /\ UNCHANGED <<store, heads, dead, mergeList, mergeLock, lock, jobs>>

AppendMerging(t) ==
  /\ At(t, "merging")
  /\ To(t, IF status[th[t].h] = "merging" THEN "cache" ELSE "read")
  /\ UNCHANGED <<store, heads, dead, mergeList, mergeLock, lock, jobs>>

AddToCache(t) ==
  /\ At(t, "cache")
  /\ cache' = [cache EXCEPT ![th[t].h] = @ \cup th[t].vs]
  /\ Release(th[t].h)
  /\ th' = [th EXCEPT ![t] = Idle]
  /\ UNCHANGED <<posting, size, heads, dead, mergeList, mergeLock, jobs>>

AppendGet(t) ==
  /\ At(t, "read")
  /\ th' = [th EXCEPT ![t].cur = posting[th[t].h], ![t].pc = "write"]
  /\ UNCHANGED <<store, heads, dead, mergeList, mergeLock, lock, jobs>>

AppendPut(t) ==
  LET h == th[t].h IN
  /\ At(t, "write")
  /\ posting' = [posting EXCEPT ![h] = th[t].cur \cup th[t].vs]
  /\ size' = [size EXCEPT ![h] = @ + Cardinality(th[t].vs)]
  /\ Release(h)
  /\ th' = [th EXCEPT ![t] = Idle]
  /\ UNCHANGED <<cache, heads, dead, mergeList, mergeLock, jobs>>

-----------------------------------------------------------------------------
Appending(t) ==
  \/ AppendTest(t) \/ Reroute(t) \/ AppendLock(t) \/ AppendGone(t) \/ AppendAgain(t) \/ AppendMerging(t)
  \/ AddToCache(t) \/ AppendGet(t) \/ AppendPut(t)

Merging(t) ==
  \/ TryLock(t) \/ TryAgain(t) \/ HeadGone(t) \/ MarkGone(t) \/ Mark(t) \/ GetHead(t) \/ Enough(t)
  \/ (\E n \in Heads : Choose(t, n) \/ OldChoose(t, n)) \/ ChooseNone(t)
  \/ GetNext(t) \/ Retire(t) \/ MarkRetired(t) \/ PutMerged(t) \/ Normal(t) \/ Unlock(t)
  \/ CollectGone(t) \/ CollectStays(t) \/ Erase(t)
  \/ AlonePut(t) \/ AloneCollect(t) \/ AloneNormal(t) \/ AloneRest(t) \/ AloneEnd(t)
  \/ OldLock(t) \/ OldGone(t) \/ OldAlone(t) \/ OldMerge(t)

Next ==
  \/ \E t \in Searchers : ListMerge(t) \/ QueueMerge(t) \/ \E h \in Heads : SearchSmall(t, h)
  \/ \E t \in Workers : Merging(t) \/ Appending(t) \/ \E j \in BagToSet(jobs) : Take(t, j)
  \/ \E t \in Appenders : Appending(t) \/ \E h \in Heads, v \in Vectors : Append(t, h, v)
  \/ \E v \in Vectors : DeleteVector(v)

Spec == Init /\ [][Next]_vars

(* A thread that runs a job or an append goes on, and one that waits for a *)
(* posting's lock gets it in time.  Workers need not take the next job.    *)
Locking(t) == AppendLock(t) \/ Enough(t) \/ Retire(t) \/ AlonePut(t) \/ OldLock(t)
FairSpec ==
  Spec /\ \A t \in Threads : WF_vars(Merging(t) \/ Appending(t)) /\ SF_vars(Locking(t))

-----------------------------------------------------------------------------
(* Every variable keeps its type. *)
TypeOK ==
  /\ posting \in [Heads -> SUBSET Vectors] /\ cache \in [Heads -> SUBSET Vectors]
  /\ size \in [Heads -> Nat]
  /\ status \in [Heads -> {"normal", "merging", "deleted"}]
  /\ index \subseteq Heads /\ mergeList \subseteq Heads /\ dead \subseteq Vectors
  /\ mergeLock \in Workers \cup {None} /\ lock \in [Heads -> Threads \cup {None}]
  /\ IsABag(jobs) /\ BagToSet(jobs) \subseteq Jobs

(* A merge between the retirement of a head and the write of the merged    *)
(* posting, or of an append, holds vectors.                                *)
InHand(t) == th[t].vs \cup (IF th[t].pc \in {"marknext", "put", "oldmerge"} THEN th[t].cur \cup th[t].next ELSE {})

(* A vector that was posted or cached and is not deleted stays within      *)
(* reach of a search: in the posting or the cache of a head in the index,  *)
(* in the hands of a thread, or in a queued append.                        *)
Reached ==
  (UNION {posting[h] \cup cache[h] : h \in index})
    \cup (UNION {InHand(t) : t \in Threads}) \cup (UNION {j.vs : j \in BagToSet(jobs)})
Collected == UNION {cache[Goes(t)] : t \in {u \in Threads : th[u].n # None}}
NothingLost == Stored \ dead \subseteq Reached \cup Collected

(* An append beside a merge may lose what it brings (README, Findings),    *)
(* never what others had posted: its read and write of a posting and the   *)
(* write of a merge exclude each other.                                    *)
PostedKept == (UNION {Posted[h] : h \in Heads}) \ dead \subseteq Reached \cup Collected

(* The list keeps a second job of a head out, and a neighbour of a merge;  *)
(* it must not outlive the job: a head in the index that is listed has a   *)
(* job, queued or running.                                                 *)
ListedHasJob ==
  \A h \in mergeList \cap index :
    \/ \E j \in BagToSet(jobs) : j.kind # "append" /\ j.h = h
    \/ \E t \in Threads : th[t].h = h /\ ~At(t, "idle")

(* What the options say of reassigning after a merge holds for every       *)
(* merge, also one that had to wait for another.                           *)
(* The code does not keep this: README, Disagreements.  No run checks it.  *)
ReassignAsSet ==
  \A j \in BagToSet(jobs) : j.kind # "append" => j.re = ~DisableReassign

=============================================================================
