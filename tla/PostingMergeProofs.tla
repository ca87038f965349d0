------------------------- MODULE PostingMergeProofs -------------------------
(***************************************************************************)
(* Safety of merges for every set of heads, vectors and threads: that a    *)
(* head stays listed no longer than it has a job, and that merges alone,   *)
(* without the lock of a posting, lose no vector.                          *)
(***************************************************************************)
EXTENDS PostingMerge, FiniteSetTheorems, TLAPS

(* A merge holds the merge lock, then hands out the caches. *)
LockedPCs == {"contain", "get", "enough", "choose", "getnext", "retire", "marknext", "put", "normal",
              "unlock", "alone", "alonecollect", "alonenormal", "alonerest", "aloneend", "oldlock", "old", "oldmerge"}
TailPCs   == {"collectgone", "collect", "erase"}
MergePCs  == {"list", "queue", "try"} \cup LockedPCs \cup TailPCs
AppendPCs == {"test", "reroute", "lock", "again", "merging", "cache", "read", "write"}
PC        == {"idle", "markgone"} \cup MergePCs \cup AppendPCs

Frame == [pc : PC, h : Heads \cup {None}, n : Heads \cup {None}, cur : SUBSET Vectors, next : SUBSET Vectors,
          vs : SUBSET Vectors, kind : {"none", "merge", "old", "append"}, re : BOOLEAN]

(* The steps at which a thread has a neighbour. *)
PairPCs == {"getnext", "retire", "marknext", "put", "normal", "unlock", "collectgone", "collect", "oldmerge"}

Framed(t) ==
  /\ ~At(t, "idle") => th[t].h # None
  /\ th[t].pc \in PairPCs => th[t].n # None

Typed == TypeOK /\ th \in [Threads -> Frame] /\ \A t \in Threads : Framed(t)

(* A head that is listed and in the index has a job, or a merge on its way *)
(* to the queue or in one of the steps before it strikes the head off; a   *)
(* merge that only marks the head has found it gone.                       *)
Covered ==
  \A h \in mergeList \cap index :
    \/ \E j \in BagToSet(jobs) : j.kind # "append" /\ j.h = h
    \/ \E t \in Threads : th[t].h = h /\ th[t].pc \in MergePCs
GoneFromIndex == \A t \in Threads : At(t, "markgone") => th[t].h \notin index

MergeSafe == Typed /\ Covered /\ GoneFromIndex

-----------------------------------------------------------------------------
(* The queue with a job more, and with a job less. *)
LEMMA BagMore ==
  ASSUME NEW q, IsABag(q), NEW x
  PROVE  IsABag(q (+) SetToBag({x})) /\ BagToSet(q (+) SetToBag({x})) = BagToSet(q) \cup {x}
BY DEF IsABag, BagToSet, SetToBag, (+)

LEMMA BagLess ==
  ASSUME NEW q, IsABag(q), NEW x
  PROVE  /\ IsABag(q (-) SetToBag({x}))
         /\ BagToSet(q (-) SetToBag({x})) \subseteq BagToSet(q)
         /\ BagToSet(q) \subseteq BagToSet(q (-) SetToBag({x})) \cup {x}
BY DEF IsABag, BagToSet, SetToBag, (-)

LEMMA LengthIsNumber == ASSUME NEW S \in SUBSET Vectors PROVE Cardinality(S) \in Nat
BY FS_Subset, FS_CardinalityType, MergeAssumption

-----------------------------------------------------------------------------
LEMMA InitTyped == Init => Typed
<1> SUFFICES ASSUME Init PROVE Typed
  OBVIOUS
<1>1. Idle \in Frame
  BY DEF Idle, Frame, PC
<1>2. th \in [Threads -> Frame] /\ \A t \in Threads : Framed(t)
  BY <1>1 DEF Init, Framed, At, Idle, PairPCs
<1>3. \A h \in Heads : Cardinality(Posted[h]) \in Nat
  BY LengthIsNumber, MergeAssumption
<1>4. TypeOK
  BY <1>3, MergeAssumption DEF Init, TypeOK, IsABag, BagToSet, EmptyBag, SetToBag
<1>5. QED BY <1>2, <1>4 DEF Typed

(* What an assignment to one thread leaves typed. *)
LEMMA FrameUpdates ==
  ASSUME Typed, NEW t \in Threads
  PROVE  /\ \A l \in PC : To(t, l) => th' \in [Threads -> Frame]
         /\ th' = [th EXCEPT ![t] = Idle] => th' \in [Threads -> Frame] /\ \A u \in Threads : Framed(u)'
         /\ \A f \in Frame : [th EXCEPT ![t] = f] \in [Threads -> Frame]
         /\ th[t] \in Frame
<1>0. th \in [Threads -> Frame] /\ th[t] \in Frame
  BY DEF Typed
<1>1. Idle \in Frame
  BY DEF Idle, Frame, PC
<1>2. \A l \in PC : [th[t] EXCEPT !.pc = l] \in Frame
  BY <1>0 DEF Frame
<1>3. ASSUME th' = [th EXCEPT ![t] = Idle] PROVE \A u \in Threads : Framed(u)'
  BY <1>0, <1>3 DEF Typed, Framed, At, Idle, PairPCs
<1>4. QED BY <1>0, <1>1, <1>2, <1>3 DEF To

(* A step that goes on with the next one and keeps the locals is typed if  *)
(* what it writes is.                                                      *)
LEMMA ToTyped ==
  ASSUME Typed, NEW t \in Threads, NEW l \in PC, To(t, l),
         ~At(t, "idle"), l \in PairPCs => th[t].n # None, TypeOK'
  PROVE  Typed'
<1>1. th' \in [Threads -> Frame]
  BY FrameUpdates
<1>2. ASSUME NEW u \in Threads PROVE Framed(u)'
  <2>1. CASE u = t
    BY <2>1 DEF Typed, Framed, To, At, Frame
  <2>2. CASE u # t
    BY <2>2 DEF Typed, Framed, To, At, Frame
  <2>3. QED BY <2>1, <2>2
<1>3. QED BY <1>1, <1>2 DEF Typed

LEMMA IdleTyped ==
  ASSUME Typed, NEW t \in Threads, th' = [th EXCEPT ![t] = Idle], TypeOK'
  PROVE  Typed'
BY FrameUpdates DEF Typed

LEMMA FrameTyped ==
  ASSUME Typed, NEW t \in Threads, NEW f \in Frame, th' = [th EXCEPT ![t] = f], TypeOK',
         f.h # None, f.pc \in PairPCs => f.n # None
  PROVE  Typed'
<1>1. th' \in [Threads -> Frame]
  BY FrameUpdates
<1>2. \A u \in Threads : Framed(u)'
  BY DEF Typed, Framed, At
<1>3. QED BY <1>1, <1>2 DEF Typed

(* A job more and a job less in the queue. *)
LEMMA JobMore ==
  ASSUME TypeOK, NEW j \in Jobs, jobs' = jobs (+) SetToBag({j})
  PROVE  IsABag(jobs)' /\ BagToSet(jobs)' = BagToSet(jobs) \cup {j} /\ BagToSet(jobs)' \subseteq Jobs
<1>1. IsABag(jobs)
  BY DEF TypeOK
<1>2. IsABag(jobs)' /\ BagToSet(jobs)' = BagToSet(jobs) \cup {j}
  BY <1>1, BagMore
<1>3. QED BY <1>2 DEF TypeOK

LEMMA JobLess ==
  ASSUME TypeOK, NEW j \in Jobs, jobs' = jobs (-) SetToBag({j})
  PROVE  /\ IsABag(jobs)' /\ BagToSet(jobs)' \subseteq BagToSet(jobs)
         /\ BagToSet(jobs) \subseteq BagToSet(jobs)' \cup {j} /\ BagToSet(jobs)' \subseteq Jobs
<1>1. IsABag(jobs)
  BY DEF TypeOK
<1>2. /\ IsABag(jobs)' /\ BagToSet(jobs)' \subseteq BagToSet(jobs)
      /\ BagToSet(jobs) \subseteq BagToSet(jobs)' \cup {j}
  BY <1>1, BagLess
<1>3. QED BY <1>2 DEF TypeOK

LEMMA SearcherTyped ==
  ASSUME Typed, NEW t \in Searchers,
         ListMerge(t) \/ QueueMerge(t) \/ \E h \in Heads : SearchSmall(t, h)
  PROVE  Typed'
<1>0. t \in Threads /\ th[t] \in Frame /\ TypeOK
  BY FrameUpdates DEF Threads, Typed
<1>1. CASE ListMerge(t)
  <2>1. th[t].h \in Heads
    BY <1>0, <1>1 DEF ListMerge, Typed, Framed, At, Frame
  <2>2. TypeOK'
    BY <1>0, <1>1, <2>1 DEF TypeOK, ListMerge, store, heads
  <2>3. QED BY <1>0, <1>1, <2>2, ToTyped DEF ListMerge, At, PC, MergePCs, PairPCs
<1>2. CASE QueueMerge(t)
  <2>1. MergeJob("merge", th[t].h, ~DisableReassign) \in Jobs
    BY <1>0, <1>2 DEF QueueMerge, Typed, Framed, At, Frame, MergeJob, Jobs
  <2>2. TypeOK'
    BY <1>0, <1>2, <2>1, JobMore DEF TypeOK, QueueMerge, store, heads
  <2>3. QED BY <1>0, <1>2, <2>2, IdleTyped DEF QueueMerge
<1>3. ASSUME NEW h \in Heads, SearchSmall(t, h) PROVE Typed'
  <2>1. PICK f \in Frame : f = [Idle EXCEPT !.pc = "list", !.h = h]
    <3>1. [Idle EXCEPT !.pc = "list", !.h = h] \in Frame
      BY DEF Idle, Frame, PC, MergePCs
    <3>2. QED BY <3>1
  <2>2. TypeOK'
    BY <1>0, <1>3 DEF TypeOK, SearchSmall, store, heads
  <2>3. f.h = h /\ f.pc = "list" /\ th' = [th EXCEPT ![t] = f]
    BY <1>3, <2>1 DEF SearchSmall, Idle
  <2>4. QED
    BY <1>0, <2>2, <2>3, FrameTyped, MergeAssumption DEF PairPCs
<1>4. QED BY <1>1, <1>2, <1>3

LEMMA TakeTyped ==
  ASSUME Typed, NEW t \in Workers, NEW j \in BagToSet(jobs), Take(t, j)
  PROVE  Typed'
<1>0. t \in Threads /\ TypeOK /\ j \in Jobs
  BY DEF Threads, Typed, TypeOK
<1>1. PICK f \in Frame :
        f = [Idle EXCEPT !.pc = IF j.kind = "append" THEN "test" ELSE "try",
                         !.kind = j.kind, !.h = j.h, !.vs = j.vs, !.re = j.re]
  <2>1. [Idle EXCEPT !.pc = IF j.kind = "append" THEN "test" ELSE "try",
                     !.kind = j.kind, !.h = j.h, !.vs = j.vs, !.re = j.re] \in Frame
    BY <1>0 DEF Idle, Frame, PC, MergePCs, AppendPCs, Jobs
  <2>2. QED BY <2>1
<1>2. TypeOK'
  BY <1>0, JobLess DEF TypeOK, Take, store, heads
<1>3. f.h = j.h /\ f.pc \in {"test", "try"} /\ th' = [th EXCEPT ![t] = f]
  BY <1>1 DEF Take, Idle
<1>4. j.h \in Heads
  BY <1>0 DEF Jobs
<1>5. QED
  BY <1>0, <1>2, <1>3, <1>4, FrameTyped, MergeAssumption DEF PairPCs

(* The locals of a thread at work. *)
LEMMA Locals ==
  ASSUME Typed, NEW t \in Threads, ~At(t, "idle")
  PROVE  /\ th[t] \in Frame /\ th[t].h \in Heads
         /\ th[t].pc \in PairPCs => th[t].n \in Heads /\ Stays(t) \in Heads /\ Goes(t) \in Heads
         /\ th[t].cur \in SUBSET Vectors /\ th[t].next \in SUBSET Vectors /\ th[t].vs \in SUBSET Vectors
         /\ th[t].kind \in {"none", "merge", "old", "append"} /\ th[t].re \in BOOLEAN
<1>1. th[t] \in Frame
  BY DEF Typed
<1>2. th[t].h \in Heads /\ (th[t].pc \in PairPCs => th[t].n \in Heads)
  BY <1>1 DEF Typed, Framed, Frame
<1>3. QED BY <1>1, <1>2 DEF Frame, Stays, Goes

(* The steps under the merge lock that only go on. *)
LEMMA MarksTyped ==
  ASSUME Typed, NEW t \in Workers,
         \/ TryLock(t) \/ HeadGone(t) \/ MarkGone(t) \/ Mark(t) \/ ChooseNone(t) \/ Retire(t)
         \/ MarkRetired(t) \/ Normal(t) \/ Unlock(t) \/ AloneNormal(t) \/ OldLock(t)
  PROVE  Typed'
<1>0. t \in Threads /\ TypeOK
  BY DEF Threads, Typed
<1>1. CASE TryLock(t)
  <2>1. TypeOK'
    BY <1>0, <1>1 DEF TypeOK, TryLock, store, heads
  <2>2. QED BY <1>0, <1>1, <2>1, ToTyped DEF TryLock, At, PC, MergePCs, LockedPCs, PairPCs
<1>2. CASE HeadGone(t)
  <2>1. TypeOK'
    BY <1>0, <1>2 DEF TypeOK, HeadGone, store, heads
  <2>2. QED BY <1>0, <1>2, <2>1, ToTyped DEF HeadGone, At, PC, PairPCs
<1>3. CASE MarkGone(t)
  <2>1. TypeOK'
    BY <1>0, <1>3 DEF TypeOK, MarkGone, store
  <2>2. QED BY <1>0, <1>3, <2>1, IdleTyped DEF MarkGone
<1>4. CASE Mark(t)
  <2>1. TypeOK'
    BY <1>0, <1>4 DEF TypeOK, Mark, store
  <2>2. QED BY <1>0, <1>4, <2>1, ToTyped DEF Mark, At, PC, MergePCs, LockedPCs, PairPCs
<1>5. CASE ChooseNone(t)
  <2>1. TypeOK'
    BY <1>0, <1>5 DEF TypeOK, ChooseNone, store, heads
  <2>2. QED BY <1>0, <1>5, <2>1, ToTyped DEF ChooseNone, At, PC, MergePCs, LockedPCs, PairPCs
<1>6. CASE Retire(t)
  <2>1. TypeOK'
    BY <1>0, <1>6 DEF TypeOK, Retire, Acquire, store
  <2>2. th[t].n # None
    BY <1>0, <1>6 DEF Typed, Framed, Retire, At, PairPCs
  <2>3. QED BY <1>0, <1>6, <2>1, <2>2, ToTyped DEF Retire, At, PC, MergePCs, LockedPCs
<1>7. CASE MarkRetired(t)
  <2>1. TypeOK'
    BY <1>0, <1>7 DEF TypeOK, MarkRetired, store
  <2>2. th[t].n # None
    BY <1>0, <1>7 DEF Typed, Framed, MarkRetired, At, PairPCs
  <2>3. QED BY <1>0, <1>7, <2>1, <2>2, ToTyped DEF MarkRetired, At, PC, MergePCs, LockedPCs
<1>8. CASE Normal(t)
  <2>1. TypeOK'
    BY <1>0, <1>8 DEF TypeOK, Normal, Release, store
  <2>2. th[t].n # None
    BY <1>0, <1>8 DEF Typed, Framed, Normal, At, PairPCs
  <2>3. QED BY <1>0, <1>8, <2>1, <2>2, ToTyped DEF Normal, At, PC, MergePCs, LockedPCs
<1>9. CASE Unlock(t)
  <2>1. TypeOK'
    BY <1>0, <1>9 DEF TypeOK, Unlock, store, heads
  <2>2. th[t].n # None
    BY <1>0, <1>9 DEF Typed, Framed, Unlock, At, PairPCs
  <2>3. QED BY <1>0, <1>9, <2>1, <2>2, ToTyped DEF Unlock, At, PC, MergePCs, TailPCs
<1>10. CASE AloneNormal(t)
  <2>1. TypeOK'
    BY <1>0, <1>10 DEF TypeOK, AloneNormal, store
  <2>2. QED BY <1>0, <1>10, <2>1, ToTyped DEF AloneNormal, At, PC, MergePCs, LockedPCs, PairPCs
<1>11. CASE OldLock(t)
  <2>1. TypeOK'
    BY <1>0, <1>11 DEF TypeOK, OldLock, Acquire, store, heads
  <2>2. QED BY <1>0, <1>11, <2>1, ToTyped DEF OldLock, At, PC, MergePCs, LockedPCs, PairPCs
<1>12. QED BY <1>1, <1>2, <1>3, <1>4, <1>5, <1>6, <1>7, <1>8, <1>9, <1>10, <1>11

(* Those that read a posting or choose a neighbour. *)
LEMMA ReadsTyped ==
  ASSUME Typed, NEW t \in Workers,
         GetHead(t) \/ GetNext(t) \/ \E n \in Heads : Choose(t, n) \/ OldChoose(t, n)
  PROVE  Typed'
<1>0. t \in Threads /\ TypeOK
  BY DEF Threads, Typed
<1>1. CASE GetHead(t)
  <2>0. th[t] \in Frame /\ th[t].h \in Heads
    BY <1>0, <1>1, Locals DEF GetHead, At
  <2>1. Live(posting[th[t].h]) \in SUBSET Vectors
    BY <1>0, <2>0 DEF TypeOK, Live
  <2>2. PICK l \in {"enough", "choose"} :
          th' = [th EXCEPT ![t] = [th[t] EXCEPT !.cur = Live(posting[th[t].h]), !.pc = l]]
    BY <1>0, <1>1, <2>0 DEF GetHead, Frame, Typed
  <2>3. PICK f \in Frame : f = [th[t] EXCEPT !.cur = Live(posting[th[t].h]), !.pc = l]
    <3>1. [th[t] EXCEPT !.cur = Live(posting[th[t].h]), !.pc = l] \in Frame
      BY <2>0, <2>1 DEF Frame, PC, MergePCs, LockedPCs
    <3>2. QED BY <3>1
  <2>4. f.h = th[t].h /\ f.pc = l
    BY <2>0, <2>3 DEF Frame
  <2>5. TypeOK'
    BY <1>0, <1>1 DEF TypeOK, GetHead, store, heads
  <2>6. QED
    BY <1>0, <2>0, <2>2, <2>3, <2>4, <2>5, FrameTyped, MergeAssumption DEF PairPCs
<1>2. CASE GetNext(t)
  <2>0. th[t] \in Frame /\ th[t].h \in Heads /\ th[t].n \in Heads
    BY <1>0, <1>2, Locals DEF GetNext, At, PairPCs
  <2>1. Live(posting[th[t].n]) \in SUBSET Vectors
    BY <1>0, <2>0 DEF TypeOK, Live
  <2>3. PICK f \in Frame : f = [th[t] EXCEPT !.next = Live(posting[th[t].n]), !.pc = "retire"]
    <3>1. [th[t] EXCEPT !.next = Live(posting[th[t].n]), !.pc = "retire"] \in Frame
      BY <2>0, <2>1 DEF Frame, PC, MergePCs, LockedPCs
    <3>2. QED BY <3>1
  <2>4. f.h = th[t].h /\ f.n = th[t].n /\ th' = [th EXCEPT ![t] = f]
    BY <1>0, <1>2, <2>0, <2>3 DEF Frame, GetNext, Typed
  <2>5. TypeOK'
    BY <1>0, <1>2 DEF TypeOK, GetNext, store, heads
  <2>6. QED
    BY <1>0, <2>0, <2>4, <2>5, FrameTyped, MergeAssumption
<1>3. ASSUME NEW n \in Heads, Choose(t, n) PROVE Typed'
  <2>0. th[t] \in Frame /\ th[t].h \in Heads
    BY <1>0, <1>3, Locals DEF Choose, At
  <2>3. PICK f \in Frame : f = [th[t] EXCEPT !.n = n, !.pc = "getnext"]
    <3>1. [th[t] EXCEPT !.n = n, !.pc = "getnext"] \in Frame
      BY <2>0 DEF Frame, PC, MergePCs, LockedPCs
    <3>2. QED BY <3>1
  <2>4. f.h = th[t].h /\ f.n = n /\ th' = [th EXCEPT ![t] = f]
    BY <1>0, <1>3, <2>0, <2>3 DEF Frame, Choose, Typed
  <2>5. TypeOK'
    BY <1>0, <1>3 DEF TypeOK, Choose, store
  <2>6. QED
    BY <1>0, <2>0, <2>4, <2>5, FrameTyped, MergeAssumption
<1>4. ASSUME NEW n \in Heads, OldChoose(t, n) PROVE Typed'
  <2>0. th[t] \in Frame /\ th[t].h \in Heads
    BY <1>0, <1>4, Locals DEF OldChoose, At
  <2>1. Live(posting[th[t].h]) \in SUBSET Vectors /\ Live(posting[n]) \in SUBSET Vectors
    BY <1>0, <2>0 DEF TypeOK, Live
  <2>3. PICK f \in Frame : f = [th[t] EXCEPT !.n = n, !.cur = Live(posting[th[t].h]),
                                             !.next = Live(posting[n]), !.pc = "oldmerge"]
    <3>1. [th[t] EXCEPT !.n = n, !.cur = Live(posting[th[t].h]),
                        !.next = Live(posting[n]), !.pc = "oldmerge"] \in Frame
      BY <2>0, <2>1 DEF Frame, PC, MergePCs, LockedPCs
    <3>2. QED BY <3>1
  <2>4. f.h = th[t].h /\ f.n = n /\ th' = [th EXCEPT ![t] = f]
    BY <1>0, <1>4, <2>0, <2>3 DEF Frame, OldChoose, Typed
  <2>5. TypeOK'
    BY <1>0, <1>4 DEF TypeOK, OldChoose, Acquire, store, heads
  <2>6. QED
    BY <1>0, <2>0, <2>4, <2>5, FrameTyped, MergeAssumption
<1>5. QED BY <1>1, <1>2, <1>3, <1>4

(* Those that write postings, lists and queues. *)
LEMMA CollectTyped ==
  ASSUME Typed, NEW from \in Heads, NEW to \in Heads, Collect(from, to),
         UNCHANGED <<posting, size, mergeList, mergeLock, lock, dead, index>>,
         status' \in [Heads -> {"normal", "merging", "deleted"}]
  PROVE  TypeOK'
<1>0. TypeOK
  BY DEF Typed
<1>1. cache' \in [Heads -> SUBSET Vectors] /\ Live(cache[from]) \in SUBSET Vectors
  BY <1>0 DEF TypeOK, Collect, Live
<1>2. AppendJob(to, Live(cache[from])) \in Jobs
  BY <1>1 DEF AppendJob, Jobs
<1>3. IsABag(jobs)' /\ BagToSet(jobs)' \subseteq Jobs
  <2>1. CASE Live(cache[from]) = {}
    BY <1>0, <2>1 DEF TypeOK, Collect
  <2>2. CASE Live(cache[from]) # {}
    BY <1>0, <1>2, <2>2, JobMore DEF Collect
  <2>3. QED BY <2>1, <2>2
<1>4. QED BY <1>0, <1>1, <1>3 DEF TypeOK

LEMMA WritesTyped ==
  ASSUME Typed, NEW t \in Workers,
         \/ TryAgain(t) \/ Enough(t) \/ PutMerged(t) \/ CollectGone(t) \/ CollectStays(t) \/ Erase(t)
         \/ AlonePut(t) \/ AloneCollect(t) \/ AloneRest(t) \/ AloneEnd(t) \/ OldGone(t) \/ OldAlone(t)
         \/ OldMerge(t)
  PROVE  Typed'
<1>0. t \in Threads /\ TypeOK
  BY DEF Threads, Typed
<1>l. ~At(t, "idle")
  BY DEF TryAgain, Enough, PutMerged, CollectGone, CollectStays, Erase, AlonePut, AloneCollect, AloneRest, AloneEnd,
         OldGone, OldAlone, OldMerge, At
<1>h. /\ th[t] \in Frame /\ th[t].h \in Heads
      /\ th[t].cur \in SUBSET Vectors /\ th[t].next \in SUBSET Vectors
      /\ th[t].pc \in PairPCs => Stays(t) \in Heads /\ Goes(t) \in Heads /\ th[t].n # None
  BY <1>0, <1>l, Locals DEF Typed, Framed
<1>n. Cardinality(th[t].cur) \in Nat /\ Cardinality(th[t].cur \cup th[t].next) \in Nat
  BY <1>h, LengthIsNumber
<1>1. CASE TryAgain(t)
  <2>1. MergeJob("old", th[t].h, ~th[t].re) \in Jobs
    BY <1>h DEF MergeJob, Jobs, Frame
  <2>2. TypeOK'
    BY <1>0, <1>1, <2>1, JobMore DEF TypeOK, TryAgain, store, heads
  <2>3. QED BY <1>0, <1>1, <2>2, IdleTyped DEF TryAgain
<1>2. CASE Enough(t)
  <2>1. TypeOK'
    BY <1>0, <1>2, <1>h, <1>n DEF TypeOK, Enough
  <2>2. QED BY <1>0, <1>2, <2>1, IdleTyped DEF Enough
<1>3. CASE PutMerged(t)
  <2>0. th[t].pc \in PairPCs
    BY <1>3 DEF PutMerged, At, PairPCs
  <2>1. TypeOK'
    BY <1>0, <1>3, <1>h, <1>n, <2>0 DEF TypeOK, PutMerged, heads
  <2>2. QED BY <1>0, <1>3, <1>h, <1>l, <2>0, <2>1, ToTyped DEF PutMerged, PC, MergePCs, LockedPCs
<1>4. CASE CollectGone(t)
  <2>0. th[t].pc \in PairPCs
    BY <1>4 DEF CollectGone, At, PairPCs
  <2>1. TypeOK'
    BY <1>0, <1>4, <1>h, <2>0, CollectTyped DEF TypeOK, CollectGone, heads
  <2>2. QED BY <1>0, <1>4, <1>h, <1>l, <2>0, <2>1, ToTyped DEF CollectGone, PC, MergePCs, TailPCs
<1>5. CASE CollectStays(t)
  <2>0. th[t].pc \in PairPCs
    BY <1>5 DEF CollectStays, At, PairPCs
  <2>1. TypeOK'
    BY <1>0, <1>5, <1>h, <2>0, CollectTyped DEF TypeOK, CollectStays, heads
  <2>2. QED BY <1>0, <1>5, <1>h, <1>l, <2>0, <2>1, ToTyped DEF CollectStays, PC, MergePCs, TailPCs
<1>6. CASE Erase(t)
  <2>1. TypeOK'
    BY <1>0, <1>6 DEF TypeOK, Erase, store, heads
  <2>2. QED BY <1>0, <1>6, <2>1, IdleTyped DEF Erase
<1>7. CASE AlonePut(t)
  <2>1. TypeOK'
    BY <1>0, <1>7, <1>h, <1>n DEF TypeOK, AlonePut, Acquire, heads
  <2>2. QED BY <1>0, <1>7, <1>l, <2>1, ToTyped DEF AlonePut, PC, MergePCs, LockedPCs, PairPCs
<1>8. CASE AloneCollect(t) \/ AloneRest(t)
  <2>1. TypeOK'
    BY <1>0, <1>8, <1>h, CollectTyped DEF TypeOK, AloneCollect, AloneRest, heads
  <2>2. PICK l \in {"alonenormal", "aloneend"} : To(t, l)
    BY <1>8 DEF AloneCollect, AloneRest
  <2>3. QED BY <1>0, <1>8, <1>l, <2>1, <2>2, ToTyped DEF PC, MergePCs, LockedPCs, PairPCs
<1>9. CASE AloneEnd(t)
  <2>1. TypeOK'
    BY <1>0, <1>9 DEF TypeOK, AloneEnd, Release, store, heads
  <2>2. QED BY <1>0, <1>9, <2>1, IdleTyped DEF AloneEnd
<1>10. CASE OldGone(t)
  <2>1. TypeOK'
    BY <1>0, <1>10 DEF TypeOK, OldGone, Release, store, heads
  <2>2. QED BY <1>0, <1>10, <2>1, IdleTyped DEF OldGone
<1>11. CASE OldAlone(t)
  <2>0. Live(posting[th[t].h]) \in SUBSET Vectors
    BY <1>0, <1>h DEF TypeOK, Live
  <2>1. Cardinality(Live(posting[th[t].h])) \in Nat
    BY <2>0, LengthIsNumber
  <2>2. TypeOK'
    BY <1>0, <1>11, <2>0, <2>1 DEF TypeOK, OldAlone, Release, heads
  <2>3. QED BY <1>0, <1>11, <2>2, IdleTyped DEF OldAlone
<1>12. CASE OldMerge(t)
  <2>0. th[t].pc \in PairPCs
    BY <1>12 DEF OldMerge, At, PairPCs
  <2>1. TypeOK'
    BY <1>0, <1>12, <1>h, <1>n, <2>0 DEF TypeOK, OldMerge
  <2>2. QED BY <1>0, <1>12, <1>h, <1>l, <2>0, <2>1, ToTyped DEF OldMerge, PC, MergePCs, TailPCs
<1>13. QED BY <1>1, <1>2, <1>3, <1>4, <1>5, <1>6, <1>7, <1>8, <1>9, <1>10, <1>11, <1>12

LEMMA AppendTyped ==
  ASSUME Typed, NEW t \in Threads, Appending(t) \/ \E h \in Heads, v \in Vectors : Append(t, h, v)
  PROVE  Typed'
<1>0. TypeOK
  BY DEF Typed
<1>h. ~At(t, "idle") => /\ th[t] \in Frame /\ th[t].h \in Heads
                        /\ th[t].cur \in SUBSET Vectors /\ th[t].vs \in SUBSET Vectors
  BY Locals
<1>1. CASE AppendTest(t) \/ AppendLock(t) \/ AppendGone(t) \/ AppendAgain(t) \/ AppendMerging(t)
  <2>1. PICK l \in AppendPCs : To(t, l)
    BY <1>1 DEF AppendTest, AppendLock, AppendGone, AppendAgain, AppendMerging, AppendPCs
  <2>2. TypeOK' /\ ~At(t, "idle")
    <3>1. CASE AppendTest(t)
      BY <1>0, <3>1 DEF TypeOK, AppendTest, At, store, heads
    <3>2. CASE AppendLock(t)
      BY <1>0, <3>2 DEF TypeOK, AppendLock, Acquire, At, store, heads
    <3>3. CASE AppendGone(t)
      BY <1>0, <3>3 DEF TypeOK, AppendGone, Release, At, store, heads
    <3>4. CASE AppendAgain(t)
      BY <1>0, <3>4 DEF TypeOK, AppendAgain, At, store, heads
    <3>5. CASE AppendMerging(t)
      BY <1>0, <3>5 DEF TypeOK, AppendMerging, At, store, heads
    <3>6. QED BY <1>1, <3>1, <3>2, <3>3, <3>4, <3>5
  <2>3. QED BY <2>1, <2>2, ToTyped DEF PC, AppendPCs, PairPCs
<1>2. CASE Reroute(t)
  <2>1. PICK h \in index : th' = [th EXCEPT ![t].h = h, ![t].pc = "test"]
    BY <1>2 DEF Reroute
  <2>2. h \in Heads /\ th[t] \in Frame /\ th \in [Threads -> Frame]
    BY <1>0, <1>2, <1>h DEF TypeOK, Reroute, At, Typed
  <2>3. PICK f \in Frame : f = [th[t] EXCEPT !.h = h, !.pc = "test"]
    <3>1. [th[t] EXCEPT !.h = h, !.pc = "test"] \in Frame
      BY <2>2 DEF Frame, PC, AppendPCs
    <3>2. QED BY <3>1
  <2>4. f.h = h /\ f.pc = "test" /\ th' = [th EXCEPT ![t] = f]
    BY <2>1, <2>2, <2>3 DEF Frame
  <2>5. TypeOK'
    BY <1>0, <1>2 DEF TypeOK, Reroute, store, heads
  <2>6. QED BY <2>2, <2>4, <2>5, FrameTyped, MergeAssumption DEF PairPCs
<1>3. CASE AddToCache(t)
  <2>1. TypeOK'
    BY <1>0, <1>3, <1>h DEF TypeOK, AddToCache, Release, At, heads
  <2>2. QED BY <1>3, <2>1, IdleTyped DEF AddToCache
<1>4. CASE AppendGet(t)
  <2>2. th[t].h \in Heads /\ th[t] \in Frame /\ th \in [Threads -> Frame]
    BY <1>4, <1>h DEF AppendGet, At, Typed
  <2>3. PICK f \in Frame : f = [th[t] EXCEPT !.cur = posting[th[t].h], !.pc = "write"]
    <3>1. [th[t] EXCEPT !.cur = posting[th[t].h], !.pc = "write"] \in Frame
      BY <1>0, <2>2 DEF Frame, PC, AppendPCs, TypeOK
    <3>2. QED BY <3>1
  <2>4. f.h = th[t].h /\ f.pc = "write" /\ th' = [th EXCEPT ![t] = f]
    BY <1>4, <2>2, <2>3 DEF Frame, AppendGet
  <2>5. TypeOK'
    BY <1>0, <1>4 DEF TypeOK, AppendGet, store, heads
  <2>6. QED BY <2>2, <2>4, <2>5, FrameTyped, MergeAssumption DEF PairPCs
<1>5. CASE AppendPut(t)
  <2>0. ~At(t, "idle")
    BY <1>5 DEF AppendPut, At
  <2>1. Cardinality(th[t].vs) \in Nat
    BY <1>h, <2>0, LengthIsNumber
  <2>2. TypeOK'
    BY <1>0, <1>5, <1>h, <2>0, <2>1 DEF TypeOK, AppendPut, Release, heads
  <2>3. QED BY <1>5, <2>2, IdleTyped DEF AppendPut
<1>6. ASSUME NEW h \in Heads, NEW v \in Vectors, Append(t, h, v) PROVE Typed'
  <2>1. PICK f \in Frame : f = [Idle EXCEPT !.pc = "test", !.h = h, !.vs = {v}]
    <3>1. [Idle EXCEPT !.pc = "test", !.h = h, !.vs = {v}] \in Frame
      BY DEF Idle, Frame, PC, AppendPCs
    <3>2. QED BY <3>1
  <2>2. f.h = h /\ f.pc = "test" /\ th' = [th EXCEPT ![t] = f]
    BY <1>6, <2>1 DEF Append, Idle
  <2>3. TypeOK'
    BY <1>0, <1>6 DEF TypeOK, Append, store, heads
  <2>4. QED BY <2>2, <2>3, FrameTyped, MergeAssumption DEF PairPCs
<1>7. QED BY <1>1, <1>2, <1>3, <1>4, <1>5, <1>6 DEF Appending

LEMMA NextTyped == Typed /\ [Next]_vars => Typed'
<1> SUFFICES ASSUME Typed, [Next]_vars PROVE Typed'
  OBVIOUS
<1>1. ASSUME NEW t \in Searchers, ListMerge(t) \/ QueueMerge(t) \/ \E h \in Heads : SearchSmall(t, h)
      PROVE  Typed'
  BY <1>1, SearcherTyped
<1>2. ASSUME NEW t \in Workers, Merging(t) PROVE Typed'
  BY <1>2, MarksTyped, ReadsTyped, WritesTyped DEF Merging
<1>3. ASSUME NEW t \in Workers, NEW j \in BagToSet(jobs), Take(t, j) PROVE Typed'
  BY <1>3, TakeTyped
<1>4. ASSUME NEW t \in Threads, Appending(t) \/ \E h \in Heads, v \in Vectors : Append(t, h, v)
      PROVE  Typed'
  BY <1>4, AppendTyped
<1>5. ASSUME NEW v \in Vectors, DeleteVector(v) PROVE Typed'
  BY <1>5 DEF DeleteVector, Typed, TypeOK, Framed, At, store, heads
<1>6. CASE UNCHANGED vars
  BY <1>6 DEF vars, Typed, TypeOK, Framed, At, store, heads
<1>7. QED BY <1>1, <1>2, <1>3, <1>4, <1>5, <1>6 DEF Next, Threads

-----------------------------------------------------------------------------
(* A step of one thread that keeps the queue, takes no head up in the list *)
(* and ends with its own head struck off, gone or still in its hands.      *)
LEMMA StillCovered ==
  ASSUME MergeSafe, NEW t \in Threads,
         \A u \in Threads \ {t} : th'[u] = th[u],
         index' \subseteq index, BagToSet(jobs) \subseteq BagToSet(jobs)',
         mergeList' \subseteq mergeList \cup {th'[t].h},
         \A h \in mergeList' \cap index' :
           h = th[t].h /\ th[t].pc \in MergePCs => th'[t].h = h /\ th'[t].pc \in MergePCs,
         mergeList' \subseteq mergeList \/ th'[t].pc \in MergePCs,
         At(t, "markgone")' => th'[t].h \notin index'
  PROVE  Covered' /\ GoneFromIndex'
<1>1. ASSUME NEW h \in mergeList' \cap index'
      PROVE  \/ \E j \in BagToSet(jobs)' : j.kind # "append" /\ j.h = h
             \/ \E u \in Threads : th'[u].h = h /\ th'[u].pc \in MergePCs
  <2>1. CASE h \notin mergeList
    BY <2>1
  <2>2. CASE h \in mergeList
    <3>1. CASE \E j \in BagToSet(jobs) : j.kind # "append" /\ j.h = h
      BY <3>1
    <3>2. CASE \E u \in Threads : th[u].h = h /\ th[u].pc \in MergePCs
      BY <3>2
    <3>3. QED BY <2>2, <3>1, <3>2 DEF MergeSafe, Covered
  <2>3. QED BY <2>1, <2>2
<1>2. Covered'
  BY <1>1 DEF Covered
<1>3. GoneFromIndex'
  BY DEF MergeSafe, GoneFromIndex, At
<1>4. QED BY <1>2, <1>3

LEMMA MergingCovered ==
  ASSUME MergeSafe, NEW t \in Workers, Merging(t)
  PROVE  Covered' /\ GoneFromIndex'
<1>0. t \in Threads /\ TypeOK /\ th \in [Threads -> Frame] /\ th[t] \in Frame
  BY DEF Threads, MergeSafe, Typed
<1>1. CASE \/ TryLock(t) \/ HeadGone(t) \/ Mark(t) \/ GetHead(t) \/ ChooseNone(t) \/ GetNext(t)
           \/ Retire(t) \/ MarkRetired(t) \/ PutMerged(t) \/ Normal(t) \/ Unlock(t)
           \/ AlonePut(t) \/ AloneNormal(t) \/ OldLock(t) \/ OldMerge(t)
           \/ \E n \in Heads : Choose(t, n) \/ OldChoose(t, n)
  <2>1. /\ \A u \in Threads \ {t} : th'[u] = th[u]
        /\ index' \subseteq index /\ jobs' = jobs /\ mergeList' = mergeList
        /\ th'[t].h = th[t].h
        /\ th[t].pc \in MergePCs
        /\ th'[t].pc \in MergePCs \/ (At(t, "markgone")' /\ th[t].h \notin index')
    <3>1. CASE TryLock(t)
      BY <1>0, <3>1 DEF TryLock, To, At, Frame, MergePCs, LockedPCs, store, heads
    <3>2. CASE HeadGone(t)
      BY <1>0, <3>2 DEF HeadGone, To, At, Frame, MergePCs, LockedPCs, store, heads
    <3>3. CASE Mark(t)
      BY <1>0, <3>3 DEF Mark, To, At, Frame, MergePCs, LockedPCs, store
    <3>4. CASE GetHead(t)
      BY <1>0, <3>4 DEF GetHead, At, Frame, MergePCs, LockedPCs, store, heads
    <3>5. CASE ChooseNone(t)
      BY <1>0, <3>5 DEF ChooseNone, To, At, Frame, MergePCs, LockedPCs, store, heads
    <3>6. CASE GetNext(t)
      BY <1>0, <3>6 DEF GetNext, At, Frame, MergePCs, LockedPCs, store, heads
    <3>7. CASE Retire(t)
      BY <1>0, <3>7 DEF Retire, To, At, Frame, MergePCs, LockedPCs, store
    <3>8. CASE MarkRetired(t)
      BY <1>0, <3>8 DEF MarkRetired, To, At, Frame, MergePCs, LockedPCs, store
    <3>9. CASE PutMerged(t)
      BY <1>0, <3>9 DEF PutMerged, To, At, Frame, MergePCs, LockedPCs, heads
    <3>10. CASE Normal(t)
      BY <1>0, <3>10 DEF Normal, To, At, Frame, MergePCs, LockedPCs, store
    <3>11. CASE Unlock(t)
      BY <1>0, <3>11 DEF Unlock, To, At, Frame, MergePCs, LockedPCs, TailPCs, store, heads
    <3>12. CASE AlonePut(t)
      BY <1>0, <3>12 DEF AlonePut, To, At, Frame, MergePCs, LockedPCs, heads
    <3>13. CASE AloneNormal(t)
      BY <1>0, <3>13 DEF AloneNormal, To, At, Frame, MergePCs, LockedPCs, store
    <3>14. CASE OldLock(t)
      BY <1>0, <3>14 DEF OldLock, To, At, Frame, MergePCs, LockedPCs, store, heads
    <3>15. CASE OldMerge(t)
      BY <1>0, <3>15 DEF OldMerge, To, At, Frame, MergePCs, LockedPCs, TailPCs
    <3>16. ASSUME NEW n \in Heads, Choose(t, n)
           PROVE  /\ \A u \in Threads \ {t} : th'[u] = th[u]
                  /\ index' \subseteq index /\ jobs' = jobs /\ mergeList' = mergeList
                  /\ th'[t].h = th[t].h
                  /\ th[t].pc \in MergePCs /\ th'[t].pc \in MergePCs
      BY <1>0, <3>16 DEF Choose, At, Frame, MergePCs, LockedPCs, store
    <3>17. ASSUME NEW n \in Heads, OldChoose(t, n)
           PROVE  /\ \A u \in Threads \ {t} : th'[u] = th[u]
                  /\ index' \subseteq index /\ jobs' = jobs /\ mergeList' = mergeList
                  /\ th'[t].h = th[t].h
                  /\ th[t].pc \in MergePCs /\ th'[t].pc \in MergePCs
      BY <1>0, <3>17 DEF OldChoose, At, Frame, MergePCs, LockedPCs, store, heads
    <3>18. QED
      BY <1>1, <3>1, <3>2, <3>3, <3>4, <3>5, <3>6, <3>7, <3>8, <3>9, <3>10, <3>11, <3>12, <3>13,
         <3>14, <3>15, <3>16, <3>17
  <2>2. At(t, "markgone")' => th'[t].pc \notin MergePCs
    BY DEF At, MergePCs, LockedPCs, TailPCs
  <2>3. QED BY <1>0, <2>1, <2>2, StillCovered
<1>2. CASE CollectGone(t) \/ CollectStays(t) \/ AloneCollect(t) \/ AloneRest(t)
  <2>1. /\ \A u \in Threads \ {t} : th'[u] = th[u]
        /\ index' = index /\ mergeList' = mergeList
        /\ th'[t].h = th[t].h /\ th'[t].pc \in MergePCs /\ ~At(t, "markgone")'
    BY <1>0, <1>2 DEF CollectGone, CollectStays, AloneCollect, AloneRest, To, At, Frame, MergePCs, LockedPCs, TailPCs, heads
  <2>2. PICK from, to : Collect(from, to)
    BY <1>2 DEF CollectGone, CollectStays, AloneCollect, AloneRest
  <2>3. BagToSet(jobs) \subseteq BagToSet(jobs)'
    <3>1. IsABag(jobs)
      BY <1>0 DEF TypeOK
    <3>2. QED BY <2>2, <3>1, BagMore DEF Collect
  <2>4. QED BY <1>0, <2>1, <2>3, StillCovered
<1>3. CASE TryAgain(t)
  <2>1. MergeJob("old", th[t].h, ~th[t].re) \in BagToSet(jobs)' /\ BagToSet(jobs) \subseteq BagToSet(jobs)'
    <3>1. IsABag(jobs)
      BY <1>0 DEF TypeOK
    <3>2. QED BY <1>3, <3>1, BagMore DEF TryAgain
  <2>2. /\ \A u \in Threads \ {t} : th'[u] = th[u]
        /\ index' = index /\ mergeList' = mergeList /\ th'[t].pc = "idle"
    BY <1>0, <1>3 DEF TryAgain, Idle, heads
  <2>3. \E j \in BagToSet(jobs)' : j.kind # "append" /\ j.h = th[t].h
    BY <2>1 DEF MergeJob
  <2>4. Covered'
    BY <2>1, <2>2, <2>3 DEF MergeSafe, Covered
  <2>5. GoneFromIndex'
    BY <2>2 DEF MergeSafe, GoneFromIndex, At
  <2>6. QED BY <2>4, <2>5
<1>4. CASE MarkGone(t) \/ Enough(t) \/ Erase(t) \/ AloneEnd(t) \/ OldGone(t) \/ OldAlone(t)
  <2>1. /\ \A u \in Threads \ {t} : th'[u] = th[u]
        /\ index' = index /\ jobs' = jobs /\ mergeList' \subseteq mergeList
        /\ th'[t].pc = "idle"
        /\ th[t].h \notin mergeList' \cap index' \/ th[t].pc \notin MergePCs
    BY <1>0, <1>4 DEF MarkGone, Enough, Erase, AloneEnd, OldGone, OldAlone, Idle, At, MergePCs, LockedPCs,
                      TailPCs, heads
  <2>2. ~At(t, "markgone")'
    BY <2>1 DEF At
  <2>3. QED BY <1>0, <2>1, <2>2, StillCovered
<1>5. QED BY <1>1, <1>2, <1>3, <1>4 DEF Merging

LEMMA NextCovered == MergeSafe /\ [Next]_vars => Covered' /\ GoneFromIndex'
<1> SUFFICES ASSUME MergeSafe, [Next]_vars PROVE Covered' /\ GoneFromIndex'
  OBVIOUS
<1>0. TypeOK /\ th \in [Threads -> Frame] /\ IsABag(jobs)
  BY DEF MergeSafe, Typed, TypeOK
<1>1. ASSUME NEW t \in Searchers, ListMerge(t) PROVE Covered' /\ GoneFromIndex'
  <2>1. /\ \A u \in Threads \ {t} : th'[u] = th[u]
        /\ index' = index /\ jobs' = jobs /\ mergeList' = mergeList \cup {th[t].h}
        /\ th'[t].h = th[t].h /\ th'[t].pc \in MergePCs /\ ~At(t, "markgone")'
    BY <1>0, <1>1 DEF ListMerge, To, At, Threads, Frame, MergePCs, heads
  <2>2. QED BY <2>1, StillCovered DEF Threads
<1>2. ASSUME NEW t \in Searchers, QueueMerge(t) PROVE Covered' /\ GoneFromIndex'
  <2>1. /\ MergeJob("merge", th[t].h, ~DisableReassign) \in BagToSet(jobs)'
        /\ BagToSet(jobs) \subseteq BagToSet(jobs)'
    <3>1. PICK j : j = MergeJob("merge", th[t].h, ~DisableReassign) /\ jobs' = jobs (+) SetToBag({j})
      BY <1>2 DEF QueueMerge
    <3>2. BagToSet(jobs)' = BagToSet(jobs) \cup {j}
      BY <1>0, <3>1, BagMore
    <3>3. j \in BagToSet(jobs)' /\ BagToSet(jobs) \subseteq BagToSet(jobs)'
      BY <3>2
    <3>4. QED BY <3>1, <3>3, Zenon
  <2>2. /\ \A u \in Threads \ {t} : th'[u] = th[u]
        /\ index' = index /\ mergeList' = mergeList /\ th'[t].pc = "idle"
    BY <1>0, <1>2 DEF QueueMerge, Threads, Idle, heads
  <2>3. \E j \in BagToSet(jobs)' : j.kind # "append" /\ j.h = th[t].h
    BY <2>1 DEF MergeJob
  <2>4. Covered'
    BY <2>1, <2>2, <2>3 DEF MergeSafe, Covered
  <2>5. GoneFromIndex'
    BY <2>2 DEF MergeSafe, GoneFromIndex, At, Threads
  <2>6. QED BY <2>4, <2>5
<1>3. ASSUME NEW t \in Searchers, NEW h \in Heads, SearchSmall(t, h) PROVE Covered' /\ GoneFromIndex'
  <2>1. /\ \A u \in Threads \ {t} : th'[u] = th[u]
        /\ index' = index /\ jobs' = jobs /\ mergeList' = mergeList
        /\ th[t].pc \notin MergePCs /\ ~At(t, "markgone")'
    BY <1>0, <1>3 DEF SearchSmall, At, Threads, Idle, MergePCs, LockedPCs, TailPCs, heads
  <2>2. QED BY <2>1, StillCovered DEF Threads
<1>4. ASSUME NEW t \in Workers, Merging(t) PROVE Covered' /\ GoneFromIndex'
  BY <1>4, MergingCovered
<1>5. ASSUME NEW t \in Workers, NEW j \in BagToSet(jobs), Take(t, j) PROVE Covered' /\ GoneFromIndex'
  <2>1. BagToSet(jobs) \subseteq BagToSet(jobs)' \cup {j}
    BY <1>0, <1>5, BagLess DEF Take
  <2>2. /\ \A u \in Threads \ {t} : th'[u] = th[u]
        /\ index' = index /\ mergeList' = mergeList
        /\ th[t].pc = "idle" /\ ~At(t, "markgone")'
        /\ j.kind # "append" => th'[t].h = j.h /\ th'[t].pc \in MergePCs
    BY <1>0, <1>5 DEF Take, At, Threads, Idle, MergePCs, heads
  <2>3. Covered'
    <3>1. ASSUME NEW h \in mergeList' \cap index'
          PROVE  \/ \E i \in BagToSet(jobs)' : i.kind # "append" /\ i.h = h
                 \/ \E u \in Threads : th'[u].h = h /\ th'[u].pc \in MergePCs
      <4>1. CASE \E i \in BagToSet(jobs) : i.kind # "append" /\ i.h = h
        BY <2>1, <2>2, <4>1 DEF Threads
      <4>2. CASE \E u \in Threads : th[u].h = h /\ th[u].pc \in MergePCs
        <5>1. PICK u \in Threads : th[u].h = h /\ th[u].pc \in MergePCs
          BY <4>2
        <5>2. u # t
          BY <2>2, <5>1 DEF MergePCs, LockedPCs, TailPCs
        <5>3. QED BY <2>2, <5>1, <5>2
      <4>3. QED BY <2>2, <4>1, <4>2 DEF MergeSafe, Covered
    <3>2. QED BY <3>1 DEF Covered
  <2>4. GoneFromIndex'
    BY <2>2 DEF MergeSafe, GoneFromIndex, At, Threads
  <2>5. QED BY <2>3, <2>4
<1>6. ASSUME NEW t \in Threads, Appending(t) \/ \E h \in Heads, v \in Vectors : Append(t, h, v)
      PROVE  Covered' /\ GoneFromIndex'
  <2>1. /\ \A u \in Threads \ {t} : th'[u] = th[u]
        /\ index' = index /\ jobs' = jobs /\ mergeList' = mergeList
        /\ th[t].pc \notin MergePCs /\ ~At(t, "markgone")'
    <3>1. CASE AppendTest(t) \/ AppendLock(t) \/ AppendGone(t) \/ AppendAgain(t) \/ AppendMerging(t)
      <4>1. PICK l \in AppendPCs : To(t, l)
        BY <3>1 DEF AppendTest, AppendLock, AppendGone, AppendAgain, AppendMerging, AppendPCs
      <4>2. index' = index /\ jobs' = jobs /\ mergeList' = mergeList /\ th[t].pc \in AppendPCs
        BY <3>1 DEF AppendTest, AppendLock, AppendGone, AppendAgain, AppendMerging, At, AppendPCs, heads
      <4>3. QED BY <1>0, <4>1, <4>2 DEF To, At, Frame, AppendPCs, MergePCs, LockedPCs, TailPCs
    <3>2. CASE Reroute(t)
      <4>1. PICK h \in index : th' = [th EXCEPT ![t].h = h, ![t].pc = "test"]
        BY <3>2 DEF Reroute
      <4>2. QED
        BY <1>0, <3>2, <4>1 DEF Reroute, At, Frame, MergePCs, LockedPCs, TailPCs, heads
    <3>3. CASE AddToCache(t) \/ AppendPut(t)
      BY <1>0, <3>3 DEF AddToCache, AppendPut, At, Idle, MergePCs, LockedPCs, TailPCs, heads
    <3>4. CASE AppendGet(t)
      BY <1>0, <3>4 DEF AppendGet, At, Frame, MergePCs, LockedPCs, TailPCs, heads
    <3>5. ASSUME NEW h \in Heads, NEW v \in Vectors, Append(t, h, v)
          PROVE  /\ \A u \in Threads \ {t} : th'[u] = th[u]
                 /\ index' = index /\ jobs' = jobs /\ mergeList' = mergeList
                 /\ th[t].pc \notin MergePCs /\ ~At(t, "markgone")'
      BY <1>0, <3>5 DEF Append, At, Idle, MergePCs, LockedPCs, TailPCs, heads
    <3>6. QED BY <1>6, <3>1, <3>2, <3>3, <3>4, <3>5 DEF Appending
  <2>2. QED BY <2>1, StillCovered
<1>7. ASSUME NEW v \in Vectors, DeleteVector(v) PROVE Covered' /\ GoneFromIndex'
  BY <1>7 DEF DeleteVector, MergeSafe, Covered, GoneFromIndex, At, heads
<1>8. CASE UNCHANGED vars
  BY <1>8 DEF vars, MergeSafe, Covered, GoneFromIndex, At, heads
<1>9. QED BY <1>1, <1>2, <1>3, <1>4, <1>5, <1>6, <1>7, <1>8 DEF Next, Threads

-----------------------------------------------------------------------------
(* When nothing is inserted no append runs, and merges are alone with the  *)
(* postings: one of them holds the merge lock from the moment it looks the *)
(* head up until the merged posting is written, and has in its hands what  *)
(* is live in the postings it has read.                                    *)
All == UNION {Posted[h] : h \in Heads}

NoAppends ==
  /\ \A j \in BagToSet(jobs) : j.kind # "append" /\ j.vs = {}
  /\ cache = [h \in Heads |-> {}]
  /\ posting \in [Heads -> SUBSET All]
  /\ \A t \in Threads : /\ th[t].pc \notin AppendPCs /\ th[t].vs = {}
                        /\ th[t].cur \subseteq All /\ th[t].next \subseteq All
OneMerge == \A t \in Threads : th[t].pc \in LockedPCs => mergeLock = t
Hands(t) ==
  /\ th[t].pc \in {"get", "enough", "choose", "getnext", "retire", "alone", "oldmerge"} => th[t].h \in index
  /\ th[t].pc \in {"getnext", "retire", "oldmerge"} => th[t].n \in index /\ th[t].n # th[t].h
  /\ th[t].pc \in {"enough", "choose", "getnext", "retire", "alone", "oldmerge"}
       => Live(posting[th[t].h]) \subseteq th[t].cur
  /\ th[t].pc \in {"retire", "oldmerge"} => Live(posting[th[t].n]) \subseteq th[t].next
  /\ th[t].pc \in {"marknext", "put"} =>
       Stays(t) \in index /\ Live(posting[Stays(t)]) \subseteq th[t].cur \cup th[t].next
InPosting(v) == \E h \in index : v \in posting[h]
Found == \A v \in All \ dead : InPosting(v) \/ \E t \in Threads : v \in InHand(t)

MergeKeeps == Typed /\ NoAppends /\ OneMerge /\ (\A t \in Threads : Hands(t)) /\ Found

(* A step of the merge that holds the lock disturbs no other thread, and   *)
(* one that leaves the postings alone disturbs nothing.                    *)
LEMMA OthersStand ==
  ASSUME MergeKeeps, NEW t \in Threads, \A u \in Threads \ {t} : th'[u] = th[u], dead \subseteq dead',
         (posting' = posting /\ index' = index) \/ th[t].pc \in LockedPCs
  PROVE  \A u \in Threads \ {t} : Hands(u)' /\ InHand(u)' = InHand(u)
<1> SUFFICES ASSUME NEW u \in Threads \ {t} PROVE Hands(u)' /\ InHand(u)' = InHand(u)
  OBVIOUS
<1>1. th'[u] = th[u] /\ Hands(u)
  BY DEF MergeKeeps
<1>2. InHand(u)' = InHand(u)
  BY <1>1 DEF InHand
<1>3. CASE posting' = posting /\ index' = index
  BY <1>1, <1>2, <1>3 DEF Hands, Live, Stays
<1>4. CASE th[t].pc \in LockedPCs
  <2>1. th[u].pc \notin LockedPCs
    BY <1>4 DEF MergeKeeps, OneMerge
  <2>2. QED BY <1>1, <1>2, <2>1 DEF Hands, LockedPCs
<1>5. QED BY <1>3, <1>4

(* What a thread may do with its own locals. *)
Own(t) ==
  /\ th[t].pc \notin AppendPCs /\ th[t].vs = {} /\ th[t].cur \subseteq All /\ th[t].next \subseteq All
  /\ Hands(t)

LEMMA KeepsStep ==
  ASSUME MergeKeeps, Typed', NEW t \in Threads, \A u \in Threads \ {t} : th'[u] = th[u],
         dead' = dead, cache' = cache, \A j \in BagToSet(jobs)' : j.kind # "append" /\ j.vs = {},
         posting' \in [Heads -> SUBSET All],
         (posting' = posting /\ index' = index) \/ th[t].pc \in LockedPCs,
         Own(t)', th'[t].pc \in LockedPCs => mergeLock' = t,
         mergeLock' = mergeLock \/ mergeLock = None \/ th[t].pc \in LockedPCs,
         \A v \in All \ dead : InPosting(v) \/ v \in InHand(t) => InPosting(v)' \/ v \in InHand(t)'
  PROVE  MergeKeeps'
<1>1. \A u \in Threads \ {t} : Hands(u)' /\ InHand(u)' = InHand(u)
  BY OthersStand
<1>2. NoAppends'
  BY DEF MergeKeeps, NoAppends, Own
<1>3. OneMerge'
  <2>1. ASSUME NEW u \in Threads \ {t}, th'[u].pc \in LockedPCs PROVE mergeLock' = u
    <3>1. mergeLock = u /\ u # None
      BY <2>1, MergeAssumption DEF MergeKeeps, OneMerge, Threads
    <3>2. th[t].pc \notin LockedPCs
      BY <3>1 DEF MergeKeeps, OneMerge
    <3>3. QED BY <3>1, <3>2
  <2>2. QED BY <2>1 DEF OneMerge
<1>4. \A u \in Threads : Hands(u)'
  BY <1>1 DEF Own
<1>5. Found'
  <2>1. ASSUME NEW v \in All \ dead
        PROVE  InPosting(v)' \/ \E u \in Threads : v \in InHand(u)'
    <3>1. CASE InPosting(v) \/ v \in InHand(t)
      BY <2>1, <3>1
    <3>2. ASSUME NEW u \in Threads \ {t}, v \in InHand(u)
          PROVE  v \in InHand(u)'
      BY <1>1, <3>2
    <3>3. InPosting(v) \/ \E u \in Threads : v \in InHand(u)
      BY <2>1 DEF MergeKeeps, Found
    <3>4. QED BY <3>1, <3>2, <3>3
  <2>2. QED BY <2>1 DEF Found
<1>6. QED BY <1>2, <1>3, <1>4, <1>5 DEF MergeKeeps

LEMMA InitKeeps == Init => MergeKeeps
<1> SUFFICES ASSUME Init PROVE MergeKeeps
  OBVIOUS
<1>1. NoAppends
  BY MergeAssumption DEF Init, NoAppends, All, Idle, AppendPCs, EmptyBag, SetToBag, BagToSet
<1>2. OneMerge /\ \A t \in Threads : Hands(t)
  BY DEF Init, OneMerge, Hands, Idle, LockedPCs
<1>3. Found
  BY DEF Init, Found, InPosting, All
<1>4. QED BY <1>1, <1>2, <1>3, InitTyped DEF MergeKeeps

(* A thread that finishes, and one that only goes on.                      *)
LEMMA IdleOwn ==
  ASSUME NEW t \in Threads, th \in [Threads -> Frame], th' = [th EXCEPT ![t] = Idle]
  PROVE  Own(t)' /\ th'[t].pc \notin LockedPCs /\ \A u \in Threads \ {t} : th'[u] = th[u]
<1>1. th'[t] = Idle /\ \A u \in Threads \ {t} : th'[u] = th[u]
  OBVIOUS
<1>2. QED BY <1>1 DEF Own, Hands, Idle, AppendPCs, LockedPCs

LEMMA SearcherKeeps ==
  ASSUME MergeKeeps, NEW t \in Searchers,
         ListMerge(t) \/ QueueMerge(t) \/ \E h \in Heads : SearchSmall(t, h)
  PROVE  MergeKeeps'
<1>0. /\ t \in Threads /\ th \in [Threads -> Frame] /\ th[t] \in Frame /\ Typed /\ Typed' /\ NoAppends
      /\ posting \in [Heads -> SUBSET All]
  BY SearcherTyped DEF Threads, MergeKeeps, Typed, NoAppends
<1>1. CASE ListMerge(t)
  <2>1. /\ Own(t)' /\ th'[t].pc \notin LockedPCs /\ \A u \in Threads \ {t} : th'[u] = th[u]
        /\ th[t].pc = "list" /\ th'[t].pc = "queue" /\ InHand(t)' = InHand(t)
    BY <1>0, <1>1 DEF ListMerge, To, At, Frame, Own, Hands, NoAppends, AppendPCs, LockedPCs, InHand
  <2>2. QED BY <1>0, <1>1, <2>1, KeepsStep DEF ListMerge, store, heads, NoAppends, InPosting
<1>2. CASE QueueMerge(t)
  <2>1. \A j \in BagToSet(jobs)' : j.kind # "append" /\ j.vs = {}
    <3>1. PICK j : j = MergeJob("merge", th[t].h, ~DisableReassign) /\ jobs' = jobs (+) SetToBag({j})
      BY <1>2 DEF QueueMerge
    <3>2. IsABag(jobs) /\ j.kind = "merge" /\ j.vs = {}
      BY <1>0, <3>1 DEF MergeJob, Typed, TypeOK
    <3>3. BagToSet(jobs)' = BagToSet(jobs) \cup {j}
      BY <3>1, <3>2, BagMore
    <3>4. QED BY <1>0, <3>2, <3>3 DEF NoAppends
  <2>2. Own(t)' /\ th'[t].pc \notin LockedPCs /\ \A u \in Threads \ {t} : th'[u] = th[u]
    BY <1>0, <1>2, IdleOwn DEF QueueMerge
  <2>3. InHand(t) = {}
    BY <1>0, <1>2 DEF QueueMerge, At, InHand, NoAppends
  <2>4. QED BY <1>0, <1>2, <2>1, <2>2, <2>3, KeepsStep DEF QueueMerge, store, heads, InPosting
<1>3. ASSUME NEW h \in Heads, SearchSmall(t, h) PROVE MergeKeeps'
  <2>1. th'[t] = [Idle EXCEPT !.pc = "list", !.h = h] /\ \A u \in Threads \ {t} : th'[u] = th[u]
    BY <1>0, <1>3 DEF SearchSmall
  <2>2. Own(t)' /\ th'[t].pc \notin LockedPCs
    BY <2>1 DEF Own, Hands, Idle, AppendPCs, LockedPCs
  <2>3. InHand(t) = {}
    BY <1>0, <1>3 DEF SearchSmall, At, InHand, NoAppends
  <2>4. QED BY <1>0, <1>3, <2>1, <2>2, <2>3, KeepsStep DEF SearchSmall, store, heads, NoAppends, InPosting
<1>4. QED BY <1>1, <1>2, <1>3

LEMMA TakeKeeps ==
  ASSUME MergeKeeps, NEW t \in Workers, NEW j \in BagToSet(jobs), Take(t, j)
  PROVE  MergeKeeps'
<1>0. /\ t \in Threads /\ th \in [Threads -> Frame] /\ Typed /\ Typed' /\ NoAppends /\ IsABag(jobs)
      /\ posting \in [Heads -> SUBSET All] /\ j \in Jobs
  BY TakeTyped DEF Threads, MergeKeeps, Typed, TypeOK, NoAppends
<1>1. /\ th'[t] = [Idle EXCEPT !.pc = IF j.kind = "append" THEN "test" ELSE "try",
                               !.kind = j.kind, !.h = j.h, !.vs = j.vs, !.re = j.re]
      /\ \A u \in Threads \ {t} : th'[u] = th[u]
  BY <1>0 DEF Take
<1>2. BagToSet(jobs)' \subseteq BagToSet(jobs)
  BY <1>0, BagLess DEF Take
<1>3. th'[t].pc = "try" /\ th'[t].vs = {} /\ th'[t].cur = {} /\ th'[t].next = {}
  <2>1. j.kind # "append" /\ j.vs = {}
    BY <1>0 DEF NoAppends
  <2>2. QED BY <1>1, <2>1 DEF Idle
<1>4. Own(t)' /\ th'[t].pc \notin LockedPCs
  BY <1>3 DEF Own, Hands, AppendPCs, LockedPCs
<1>5. InHand(t) = {}
  BY <1>0 DEF Take, At, InHand, NoAppends
<1>6. QED BY <1>0, <1>1, <1>2, <1>4, <1>5, KeepsStep DEF Take, store, heads, NoAppends, InPosting

(* Steps that change neither the postings nor the index.                   *)
LEMMA LocalKeeps ==
  ASSUME MergeKeeps, NEW t \in Workers, Typed',
         \/ TryLock(t) \/ TryAgain(t) \/ HeadGone(t) \/ MarkGone(t) \/ Mark(t) \/ GetHead(t) \/ ChooseNone(t)
         \/ GetNext(t) \/ MarkRetired(t) \/ Normal(t) \/ Unlock(t) \/ CollectGone(t) \/ CollectStays(t)
         \/ Erase(t) \/ AloneCollect(t) \/ AloneNormal(t) \/ AloneRest(t) \/ AloneEnd(t) \/ OldLock(t)
         \/ OldGone(t)
         \/ \E n \in Heads : Choose(t, n) \/ OldChoose(t, n)
  PROVE  MergeKeeps'
<1>0. /\ t \in Threads /\ th \in [Threads -> Frame] /\ th[t] \in Frame /\ Typed /\ TypeOK /\ NoAppends
      /\ posting \in [Heads -> SUBSET All] /\ Hands(t)
      /\ th[t].vs = {} /\ th[t].cur \subseteq All /\ th[t].next \subseteq All
      /\ th[t].pc \in LockedPCs => mergeLock = t
  BY DEF Threads, MergeKeeps, Typed, NoAppends, OneMerge
<1>h. ~At(t, "idle") => th[t].h \in Heads /\ Live(posting[th[t].h]) \subseteq All
  BY <1>0, Locals DEF Live
<1>1. CASE TryLock(t)
  <2>1. /\ Own(t)' /\ InHand(t)' = InHand(t) /\ mergeLock' = t /\ \A u \in Threads \ {t} : th'[u] = th[u]
    BY <1>0, <1>1 DEF TryLock, To, At, Frame, Own, Hands, AppendPCs, InHand
  <2>2. QED BY <1>0, <1>1, <2>1, KeepsStep DEF TryLock, store, heads, NoAppends, InPosting
<1>2. CASE TryAgain(t)
  <2>1. \A j \in BagToSet(jobs)' : j.kind # "append" /\ j.vs = {}
    <3>1. PICK j : j = MergeJob("old", th[t].h, ~th[t].re) /\ jobs' = jobs (+) SetToBag({j})
      BY <1>2 DEF TryAgain
    <3>2. IsABag(jobs) /\ j.kind = "old" /\ j.vs = {}
      BY <1>0, <3>1 DEF MergeJob, TypeOK
    <3>3. BagToSet(jobs)' = BagToSet(jobs) \cup {j}
      BY <3>1, <3>2, BagMore
    <3>4. QED BY <1>0, <3>2, <3>3 DEF NoAppends
  <2>2. Own(t)' /\ th'[t].pc \notin LockedPCs /\ \A u \in Threads \ {t} : th'[u] = th[u]
    BY <1>0, <1>2, IdleOwn DEF TryAgain
  <2>3. InHand(t) = {}
    BY <1>0, <1>2 DEF TryAgain, At, InHand
  <2>4. QED BY <1>0, <1>2, <2>1, <2>2, <2>3, KeepsStep DEF TryAgain, store, heads, InPosting
<1>3. CASE HeadGone(t)
  <2>1. /\ Own(t)' /\ th'[t].pc \notin LockedPCs /\ \A u \in Threads \ {t} : th'[u] = th[u]
        /\ InHand(t) = {} /\ th[t].pc \in LockedPCs
    BY <1>0, <1>3 DEF HeadGone, To, At, Frame, Own, Hands, AppendPCs, LockedPCs, InHand
  <2>2. QED BY <1>0, <1>3, <2>1, KeepsStep DEF HeadGone, store, heads, NoAppends, InPosting
<1>4. CASE MarkGone(t) \/ Erase(t)
  <2>1. Own(t)' /\ th'[t].pc \notin LockedPCs /\ \A u \in Threads \ {t} : th'[u] = th[u]
    BY <1>0, <1>4, IdleOwn DEF MarkGone, Erase
  <2>2. InHand(t) = {}
    BY <1>0, <1>4 DEF MarkGone, Erase, At, InHand
  <2>3. QED BY <1>0, <1>4, <2>1, <2>2, KeepsStep DEF MarkGone, Erase, store, heads, NoAppends, InPosting
<1>5. CASE AloneEnd(t) \/ OldGone(t)
  <2>1. Own(t)' /\ th'[t].pc \notin LockedPCs /\ \A u \in Threads \ {t} : th'[u] = th[u]
    BY <1>0, <1>5, IdleOwn DEF AloneEnd, OldGone
  <2>2. InHand(t) = {} /\ th[t].pc \in LockedPCs
    BY <1>0, <1>5 DEF AloneEnd, OldGone, At, InHand, LockedPCs
  <2>3. QED BY <1>0, <1>5, <2>1, <2>2, KeepsStep DEF AloneEnd, OldGone, store, heads, NoAppends, InPosting
<1>6. CASE Mark(t) \/ ChooseNone(t) \/ AloneNormal(t) \/ OldLock(t)
  <2>1. PICK l \in {"get", "alone", "alonerest", "old"} : To(t, l)
    BY <1>6 DEF Mark, ChooseNone, AloneNormal, OldLock
  <2>2. /\ th'[t].h = th[t].h /\ th'[t].cur = th[t].cur /\ th'[t].next = th[t].next /\ th'[t].vs = {}
        /\ th'[t].pc = l /\ \A u \in Threads \ {t} : th'[u] = th[u]
    BY <1>0, <2>1 DEF To, Frame
  <2>3. /\ th[t].pc \in LockedPCs /\ InHand(t) = {} /\ mergeLock' = mergeLock
        /\ posting' = posting /\ index' = index /\ dead' = dead /\ cache' = cache /\ jobs' = jobs
    BY <1>0, <1>6 DEF Mark, ChooseNone, AloneNormal, OldLock, At, LockedPCs, InHand, store, heads
  <2>4. /\ l = "get" => th[t].h \in index
        /\ l = "alone" => th[t].pc = "choose"
    BY <1>0, <1>6, <2>2 DEF Mark, ChooseNone, AloneNormal, OldLock, At, To, Frame
  <2>5. Own(t)'
    BY <1>0, <2>2, <2>3, <2>4 DEF Own, Hands, AppendPCs, Live
  <2>6. QED
    BY <1>0, <2>2, <2>3, <2>5, KeepsStep DEF NoAppends, InPosting
<1>7. CASE MarkRetired(t)
  <2>1. /\ Own(t)' /\ th[t].pc \in LockedPCs /\ \A u \in Threads \ {t} : th'[u] = th[u]
        /\ InHand(t)' = InHand(t) /\ mergeLock' = mergeLock
    <3>1. /\ th'[t].h = th[t].h /\ th'[t].n = th[t].n /\ th'[t].cur = th[t].cur /\ th'[t].next = th[t].next
          /\ th'[t].vs = th[t].vs /\ th[t].pc = "marknext" /\ th'[t].pc = "put"
          /\ \A u \in Threads \ {t} : th'[u] = th[u]
      BY <1>0, <1>7 DEF MarkRetired, To, At, Frame
    <3>2. Hands(t)'
      BY <1>0, <1>7, <3>1 DEF Hands, MarkRetired, Stays, Live, store
    <3>3. QED BY <1>0, <1>7, <3>1, <3>2 DEF MarkRetired, Own, AppendPCs, LockedPCs, InHand
  <2>2. QED BY <1>0, <1>7, <2>1, KeepsStep DEF MarkRetired, store, NoAppends, InPosting
<1>8. CASE Normal(t) \/ Unlock(t)
  <2>1. /\ Own(t)' /\ th[t].pc \in LockedPCs /\ \A u \in Threads \ {t} : th'[u] = th[u]
        /\ InHand(t) = {}
        /\ mergeLock' = mergeLock \/ th'[t].pc \notin LockedPCs
    BY <1>0, <1>8 DEF Normal, Unlock, To, At, Frame, Own, Hands, AppendPCs, LockedPCs, InHand
  <2>2. QED BY <1>0, <1>8, <2>1, KeepsStep DEF Normal, Unlock, store, heads, NoAppends, InPosting
<1>9. CASE CollectGone(t) \/ CollectStays(t) \/ AloneCollect(t) \/ AloneRest(t)
  <2>1. PICK from \in Heads, to \in Heads : Collect(from, to)
    <3>1. ~At(t, "idle") /\ (AloneCollect(t) \/ AloneRest(t) \/ th[t].pc \in PairPCs)
      BY <1>9 DEF CollectGone, CollectStays, AloneCollect, AloneRest, At, PairPCs
    <3>2. QED BY <1>0, <1>9, <3>1, Locals DEF CollectGone, CollectStays, AloneCollect, AloneRest
  <2>2. cache' = cache /\ jobs' = jobs
    BY <1>0, <2>1 DEF NoAppends, Collect, Live
  <2>3. PICK l \in {"collect", "erase", "alonenormal", "aloneend"} :
          To(t, l) /\ (l \in LockedPCs => th[t].pc \in LockedPCs)
    BY <1>9 DEF CollectGone, CollectStays, AloneCollect, AloneRest, At, LockedPCs
  <2>4. /\ Own(t)' /\ InHand(t) = {} /\ \A u \in Threads \ {t} : th'[u] = th[u]
        /\ th'[t].pc \in LockedPCs => th[t].pc \in LockedPCs
    BY <1>0, <1>9, <2>3 DEF CollectGone, CollectStays, AloneCollect, AloneRest, To, At, Frame, Own, Hands, AppendPCs,
                            LockedPCs, InHand
  <2>5. QED
    BY <1>0, <1>9, <2>2, <2>4, KeepsStep
       DEF CollectGone, CollectStays, AloneCollect, AloneRest, heads, NoAppends, InPosting
<1>10. CASE GetHead(t)
  <2>1. /\ th'[t].cur = Live(posting[th[t].h]) /\ th'[t].next = th[t].next /\ th'[t].vs = {}
        /\ th'[t].h = th[t].h /\ th'[t].pc \in {"enough", "choose"} /\ th[t].pc = "get"
        /\ \A u \in Threads \ {t} : th'[u] = th[u]
    BY <1>0, <1>10 DEF GetHead, At, Frame
  <2>2. Own(t)' /\ InHand(t) = {} /\ th[t].pc \in LockedPCs
    BY <1>0, <1>h, <1>10, <2>1 DEF GetHead, Own, Hands, AppendPCs, LockedPCs, InHand, At, store, heads, Live
  <2>3. QED BY <1>0, <1>10, <2>1, <2>2, KeepsStep DEF GetHead, store, heads, NoAppends, InPosting
<1>11. CASE GetNext(t)
  <2>0. th[t].n \in Heads /\ Live(posting[th[t].n]) \subseteq All
    BY <1>0, <1>11, Locals DEF GetNext, At, PairPCs, Live
  <2>1. /\ th'[t].next = Live(posting[th[t].n]) /\ th'[t].cur = th[t].cur /\ th'[t].vs = {}
        /\ th'[t].h = th[t].h /\ th'[t].n = th[t].n /\ th'[t].pc = "retire" /\ th[t].pc = "getnext"
        /\ \A u \in Threads \ {t} : th'[u] = th[u]
    BY <1>0, <1>11 DEF GetNext, At, Frame
  <2>2. Own(t)' /\ InHand(t) = {} /\ th[t].pc \in LockedPCs
    BY <1>0, <1>11, <2>0, <2>1 DEF GetNext, Own, Hands, AppendPCs, LockedPCs, InHand, store, heads, Live
  <2>3. QED BY <1>0, <1>11, <2>1, <2>2, KeepsStep DEF GetNext, store, heads, NoAppends, InPosting
<1>12. ASSUME NEW n \in Heads, Choose(t, n) PROVE MergeKeeps'
  <2>1. /\ th'[t].next = th[t].next /\ th'[t].cur = th[t].cur /\ th'[t].vs = {}
        /\ th'[t].h = th[t].h /\ th'[t].n = n /\ th'[t].pc = "getnext" /\ th[t].pc = "choose"
        /\ \A u \in Threads \ {t} : th'[u] = th[u]
    BY <1>0, <1>12 DEF Choose, At, Frame
  <2>2. Own(t)' /\ InHand(t) = {} /\ th[t].pc \in LockedPCs
    <3>1. /\ n \in index /\ n # th[t].h /\ th[t].h \in index /\ Live(posting[th[t].h]) \subseteq th[t].cur
          /\ posting' = posting /\ index' = index /\ dead' = dead
      BY <1>0, <1>12, <2>1 DEF Choose, Fits, Hands, store
    <3>2. Hands(t)'
      BY <2>1, <3>1 DEF Hands, Live
    <3>3. QED BY <1>0, <2>1, <3>2 DEF Own, AppendPCs, LockedPCs, InHand
  <2>3. QED BY <1>0, <1>12, <2>1, <2>2, KeepsStep DEF Choose, store, NoAppends, InPosting
<1>13. ASSUME NEW n \in Heads, OldChoose(t, n) PROVE MergeKeeps'
  <2>0. Live(posting[n]) \subseteq All
    BY <1>0 DEF Live
  <2>1. /\ th'[t].next = Live(posting[n]) /\ th'[t].cur = Live(posting[th[t].h]) /\ th'[t].vs = {}
        /\ th'[t].h = th[t].h /\ th'[t].n = n /\ th'[t].pc = "oldmerge" /\ th[t].pc = "old"
        /\ \A u \in Threads \ {t} : th'[u] = th[u]
    BY <1>0, <1>13 DEF OldChoose, At, Frame
  <2>2. Own(t)' /\ InHand(t) = {} /\ th[t].pc \in LockedPCs
    <3>1. /\ n \in index /\ n # th[t].h /\ th[t].h \in index
          /\ posting' = posting /\ index' = index /\ dead' = dead
      BY <1>13 DEF OldChoose, store, heads
    <3>2. Hands(t)'
      BY <2>1, <3>1 DEF Hands, Live
    <3>3. Live(posting[th[t].h]) \subseteq All
      BY <1>h, <2>1 DEF At
    <3>4. QED BY <1>0, <2>0, <2>1, <3>2, <3>3 DEF Own, AppendPCs, LockedPCs, InHand
  <2>3. QED BY <1>0, <1>13, <2>1, <2>2, KeepsStep DEF OldChoose, store, heads, NoAppends, InPosting
<1>14. QED
  BY <1>1, <1>2, <1>3, <1>4, <1>5, <1>6, <1>7, <1>8, <1>9, <1>10, <1>11, <1>12, <1>13

(* Steps that write a posting or retire a head.                            *)
LEMMA WriteKeeps ==
  ASSUME MergeKeeps, NEW t \in Workers, Typed',
         Enough(t) \/ Retire(t) \/ PutMerged(t) \/ AlonePut(t) \/ OldAlone(t) \/ OldMerge(t)
  PROVE  MergeKeeps'
<1>0. /\ t \in Threads /\ th \in [Threads -> Frame] /\ th[t] \in Frame /\ Typed /\ TypeOK /\ NoAppends
      /\ posting \in [Heads -> SUBSET All] /\ Hands(t)
      /\ th[t].vs = {} /\ th[t].cur \subseteq All /\ th[t].next \subseteq All
  BY DEF Threads, MergeKeeps, Typed, NoAppends
<1>h. th[t].h \in Heads /\ th[t].pc \in LockedPCs /\ th[t].pc \notin {"idle", "normal"}
      /\ (th[t].pc \in PairPCs => th[t].n \in Heads)
  <2>1. th[t].pc \in LockedPCs /\ th[t].pc \notin {"idle", "normal"}
    BY <1>0 DEF Enough, Retire, PutMerged, AlonePut, OldAlone, OldMerge, At, LockedPCs
  <2>2. QED BY <1>0, <2>1, Locals DEF At
<1>l. mergeLock = t
  BY <1>0, <1>h DEF MergeKeeps, OneMerge
<1>1. CASE Enough(t) \/ AlonePut(t)
  <2>1. /\ posting' = [posting EXCEPT ![th[t].h] = th[t].cur] /\ index' = index /\ dead' = dead
        /\ cache' = cache /\ jobs' = jobs /\ th[t].pc \in {"enough", "alone"}
    BY <1>1 DEF Enough, AlonePut, At, heads
  <2>2. Own(t)' /\ \A u \in Threads \ {t} : th'[u] = th[u]
    <3>1. CASE Enough(t)
      BY <1>0, <3>1, IdleOwn DEF Enough
    <3>2. CASE AlonePut(t)
      BY <1>0, <3>2 DEF AlonePut, To, Frame, Own, Hands, AppendPCs
    <3>3. QED BY <1>1, <3>1, <3>2
  <2>3. (mergeLock' = None /\ th'[t].pc = "idle") \/ mergeLock' = t
    BY <1>0, <1>1, <1>l DEF Enough, AlonePut, Idle
  <2>4. \A v \in All \ dead : InPosting(v) \/ v \in InHand(t) => InPosting(v)'
    <3>1. InHand(t) = {} /\ Live(posting[th[t].h]) \subseteq th[t].cur
      BY <1>0, <2>1 DEF InHand, Hands
    <3>2. QED BY <1>0, <2>1, <3>1 DEF InPosting, Live
  <2>5. posting' \in [Heads -> SUBSET All]
    BY <1>0, <2>1
  <2>6. QED BY <1>0, <1>h, <2>1, <2>2, <2>3, <2>4, <2>5, KeepsStep DEF NoAppends, LockedPCs
<1>2. CASE OldAlone(t)
  <2>1. /\ posting' = [posting EXCEPT ![th[t].h] = Live(posting[th[t].h])] /\ index' = index /\ dead' = dead
        /\ cache' = cache /\ jobs' = jobs /\ th[t].pc = "old" /\ mergeLock' = None
        /\ th' = [th EXCEPT ![t] = Idle]
    BY <1>2 DEF OldAlone, At, heads
  <2>2. Own(t)' /\ th'[t].pc \notin LockedPCs /\ \A u \in Threads \ {t} : th'[u] = th[u]
    BY <1>0, <2>1, IdleOwn
  <2>3. Live(posting[th[t].h]) \subseteq All
    BY <1>0, <1>h DEF Live
  <2>4. \A v \in All \ dead : InPosting(v) \/ v \in InHand(t) => InPosting(v)'
    BY <1>0, <2>1 DEF InPosting, Live, InHand
  <2>5. posting' \in [Heads -> SUBSET All]
    BY <1>0, <2>1, <2>3
  <2>6. QED BY <1>0, <1>h, <2>1, <2>2, <2>4, <2>5, KeepsStep DEF NoAppends
<1>3. CASE Retire(t)
  <2>1. /\ posting' = posting /\ index' = index \ {Goes(t)} /\ dead' = dead
        /\ cache' = cache /\ jobs' = jobs /\ th[t].pc = "retire" /\ mergeLock' = t
        /\ To(t, "marknext")
    BY <1>3, <1>l DEF Retire, At, store
  <2>2. /\ th'[t].h = th[t].h /\ th'[t].n = th[t].n /\ th'[t].cur = th[t].cur /\ th'[t].next = th[t].next
        /\ th'[t].vs = {} /\ th'[t].pc = "marknext" /\ \A u \in Threads \ {t} : th'[u] = th[u]
    BY <1>0, <2>1 DEF To, Frame
  <2>3. /\ th[t].h \in index /\ th[t].n \in index /\ th[t].n # th[t].h
        /\ Live(posting[th[t].h]) \subseteq th[t].cur /\ Live(posting[th[t].n]) \subseteq th[t].next
    BY <1>0, <2>1 DEF Hands
  <2>4. /\ Stays(t) # Goes(t) /\ {Stays(t), Goes(t)} = {th[t].h, th[t].n}
    BY <2>3 DEF Stays, Goes
  <2>5. Stays(t)' = Stays(t) /\ Live(posting[Stays(t)])' = Live(posting[Stays(t)])
    <3>1. Stays(t)' = Stays(t)
      BY <2>2 DEF Stays
    <3>2. QED BY <2>1, <3>1 DEF Live
  <2>6. /\ Live(posting[Stays(t)]) \subseteq th[t].cur \cup th[t].next
        /\ Live(posting[Goes(t)]) \subseteq th[t].cur \cup th[t].next
    BY <2>3 DEF Stays, Goes
  <2>7. Own(t)'
    <3>1. (Stays(t) \in index)'
      BY <2>1, <2>3, <2>4, <2>5
    <3>2. Hands(t)'
      BY <2>2, <2>5, <2>6, <3>1 DEF Hands
    <3>3. QED BY <1>0, <2>2, <3>2 DEF Own, AppendPCs
  <2>8. \A v \in All \ dead : InPosting(v) \/ v \in InHand(t) => InPosting(v)' \/ v \in InHand(t)'
    <3>1. InHand(t) = {} /\ InHand(t)' = th[t].cur \cup th[t].next
      BY <1>0, <2>1, <2>2 DEF InHand
    <3>2. QED BY <2>1, <2>6, <3>1 DEF InPosting, Live
  <2>9. QED BY <1>0, <1>h, <2>1, <2>2, <2>7, <2>8, KeepsStep DEF NoAppends
<1>4. CASE PutMerged(t) \/ OldMerge(t)
  <2>1. /\ posting' = [posting EXCEPT ![Stays(t)] = th[t].cur \cup th[t].next] /\ dead' = dead
        /\ cache' = cache /\ jobs' = jobs /\ th[t].pc \in {"put", "oldmerge"}
        /\ index' = IF th[t].pc = "put" THEN index ELSE index \ {Goes(t)}
        /\ (To(t, "normal") /\ mergeLock' = t) \/ (To(t, "erase") /\ mergeLock' = None)
    BY <1>4, <1>l DEF PutMerged, OldMerge, At, heads
  <2>2. /\ th'[t].cur = th[t].cur /\ th'[t].next = th[t].next
        /\ th'[t].vs = {} /\ \A u \in Threads \ {t} : th'[u] = th[u]
        /\ (th'[t].pc = "normal" /\ mergeLock' = t) \/ th'[t].pc = "erase"
    BY <1>0, <2>1 DEF To, Frame
  <2>3. Own(t)'
    BY <1>0, <2>2 DEF Own, Hands, AppendPCs
  <2>4. /\ Stays(t) \in index' /\ Stays(t) \in Heads /\ InHand(t) = th[t].cur \cup th[t].next
        /\ \A x \in index \ {Stays(t)} : x \in index' \/ Live(posting[x]) \subseteq th[t].cur \cup th[t].next
        /\ Live(posting[Stays(t)]) \subseteq th[t].cur \cup th[t].next
    <3>1. InHand(t) = th[t].cur \cup th[t].next
      BY <1>0, <2>1 DEF InHand
    <3>2. CASE th[t].pc = "put"
      BY <1>0, <2>1, <3>1, <3>2 DEF Hands, TypeOK
    <3>3. CASE th[t].pc = "oldmerge"
      <4>1. /\ th[t].h \in index /\ th[t].n \in index /\ th[t].n # th[t].h
            /\ Live(posting[th[t].h]) \subseteq th[t].cur /\ Live(posting[th[t].n]) \subseteq th[t].next
        BY <1>0, <3>3 DEF Hands
      <4>2. /\ Stays(t) # Goes(t) /\ {Stays(t), Goes(t)} = {th[t].h, th[t].n}
            /\ Live(posting[Stays(t)]) \subseteq th[t].cur \cup th[t].next
            /\ Live(posting[Goes(t)]) \subseteq th[t].cur \cup th[t].next
        BY <4>1 DEF Stays, Goes
      <4>3. QED BY <1>0, <2>1, <3>1, <3>3, <4>1, <4>2 DEF TypeOK
    <3>4. QED BY <2>1, <3>2, <3>3
  <2>5. \A v \in All \ dead : InPosting(v) \/ v \in InHand(t) => InPosting(v)'
    <3>1. \A x \in Heads : posting'[x] = IF x = Stays(t) THEN th[t].cur \cup th[t].next ELSE posting[x]
      BY <1>0, <2>1
    <3>2. index \subseteq Heads
      BY <1>0 DEF TypeOK
    <3>3. QED BY <2>4, <3>1, <3>2 DEF InPosting, Live
  <2>6. posting' \in [Heads -> SUBSET All]
    BY <1>0, <2>1
  <2>7. QED BY <1>0, <1>h, <2>1, <2>2, <2>3, <2>5, <2>6, KeepsStep DEF NoAppends, LockedPCs
<1>5. QED BY <1>1, <1>2, <1>3, <1>4

LEMMA NextKeeps == ASSUME Appenders = {} PROVE MergeKeeps /\ [Next]_vars => MergeKeeps'
<1> SUFFICES ASSUME MergeKeeps, [Next]_vars PROVE MergeKeeps'
  OBVIOUS
<1>0. Typed'
  BY NextTyped DEF MergeKeeps
<1>1. ASSUME NEW t \in Searchers, ListMerge(t) \/ QueueMerge(t) \/ \E h \in Heads : SearchSmall(t, h)
      PROVE  MergeKeeps'
  BY <1>1, SearcherKeeps
<1>2. ASSUME NEW t \in Workers, Merging(t) PROVE MergeKeeps'
  BY <1>0, <1>2, LocalKeeps, WriteKeeps DEF Merging
<1>3. ASSUME NEW t \in Workers, NEW j \in BagToSet(jobs), Take(t, j) PROVE MergeKeeps'
  BY <1>3, TakeKeeps
<1>4. ASSUME NEW t \in Threads, Appending(t) PROVE FALSE
  <2>1. th[t].pc \notin AppendPCs
    BY DEF MergeKeeps, NoAppends
  <2>2. QED
    BY <1>4, <2>1 DEF Appending, AppendTest, Reroute, AppendLock, AppendGone, AppendAgain, AppendMerging,
                            AddToCache, AppendGet, AppendPut, At, AppendPCs
<1>5. ASSUME NEW v \in Vectors, DeleteVector(v) PROVE MergeKeeps'
  <2>1. dead \subseteq dead' /\ th' = th /\ posting' = posting /\ cache' = cache /\ index' = index
        /\ jobs' = jobs /\ mergeLock' = mergeLock
    BY <1>5 DEF DeleteVector, store, heads
  <2>2. NoAppends' /\ OneMerge'
    BY <2>1 DEF MergeKeeps, NoAppends, OneMerge
  <2>3. \A t \in Threads : Hands(t)'
    BY <2>1 DEF MergeKeeps, Hands, Stays, Live
  <2>4. Found'
    BY <2>1 DEF MergeKeeps, Found, InPosting, InHand
  <2>5. QED BY <1>0, <2>2, <2>3, <2>4 DEF MergeKeeps
<1>6. CASE UNCHANGED vars
  <2>1. dead = dead' /\ th' = th /\ posting' = posting /\ cache' = cache /\ index' = index
        /\ jobs' = jobs /\ mergeLock' = mergeLock
    BY <1>6 DEF vars, store, heads
  <2>2. NoAppends' /\ OneMerge'
    BY <2>1 DEF MergeKeeps, NoAppends, OneMerge
  <2>3. \A t \in Threads : Hands(t)'
    BY <2>1 DEF MergeKeeps, Hands, Stays, Live
  <2>4. Found'
    BY <2>1 DEF MergeKeeps, Found, InPosting, InHand
  <2>5. QED BY <1>0, <2>2, <2>3, <2>4 DEF MergeKeeps
<1>7. QED BY <1>1, <1>2, <1>3, <1>4, <1>5, <1>6 DEF Next, Threads

LEMMA KeepsFound == MergeKeeps => NothingLost
<1> SUFFICES ASSUME MergeKeeps, NEW v \in Stored \ dead PROVE v \in Reached
  BY DEF NothingLost
<1>1. v \in All /\ v \notin dead
  BY DEF MergeKeeps, NoAppends, Stored, All
<1>2. InPosting(v) \/ \E t \in Threads : v \in InHand(t)
  BY <1>1 DEF MergeKeeps, Found
<1>3. QED BY <1>2 DEF InPosting, Reached

-----------------------------------------------------------------------------
(* Every variable keeps its type, the vectors being finitely many.         *)
THEOREM MergeTyped == Spec => []TypeOK
<1>1. Init => Typed
  BY InitTyped
<1>2. Typed /\ [Next]_vars => Typed'
  BY NextTyped
<1>3. Typed => TypeOK
  BY DEF Typed
<1>4. QED BY <1>1, <1>2, <1>3, PTL DEF Spec

(* The list of merges never outlives their jobs: a merge that is turned    *)
(* away by another comes back as a job, and one that finds its head gone   *)
(* leaves the head listed only when no search will look for it.            *)
THEOREM ListedHaveJobs == Spec => []ListedHasJob
<1>1. Init => MergeSafe
  BY InitTyped DEF Init, MergeSafe, Covered, GoneFromIndex, At, Idle
<1>2. MergeSafe /\ [Next]_vars => MergeSafe'
  BY NextTyped, NextCovered DEF MergeSafe
<1>3. MergeSafe => ListedHasJob
  BY DEF MergeSafe, Covered, ListedHasJob, At, MergePCs, LockedPCs, TailPCs
<1>4. QED BY <1>1, <1>2, <1>3, PTL DEF Spec

(* Merges, searches and deletions alone lose nothing, although a merge     *)
(* holds no lock while it reads the postings and retires a head: only one  *)
(* merge runs at a time.  With appends this is not so.                     *)
THEOREM MergesLoseNothing == ASSUME Appenders = {} PROVE Spec => []NothingLost
<1>1. Init => MergeKeeps
  BY InitKeeps
<1>2. MergeKeeps /\ [Next]_vars => MergeKeeps'
  BY NextKeeps
<1>3. MergeKeeps => NothingLost
  BY KeepsFound
<1>4. QED BY <1>1, <1>2, <1>3, PTL DEF Spec

=============================================================================
