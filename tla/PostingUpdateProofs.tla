------------------------ MODULE PostingUpdateProofs ------------------------
(***************************************************************************)
(* Safety of the update path for every set of vectors, heads and threads   *)
(* and every setting of the options.                                       *)
(***************************************************************************)
EXTENDS PostingUpdate, FiniteSetTheorems, TLAPS

(* TypeOK with the copies taken from S and the heads that threads and jobs *)
(* refer to taken from K.                                                  *)
AppendFrameIn(S, K) ==
  [at : K \cup {None}, batch : SUBSET S, slack : {0, ReassignSlack},
   old : SUBSET S, back : {"idle", "insert", "spread", "flush1", "flush2"}]
MoveFrameIn(S, K) == [copy : S \cup {None}, prev : K \cup {None}, targets : SUBSET K]
SplitFrameIn(S, K) ==
  [of : K \cup {None}, parts : [1..2 -> SUBSET S], k : 1..2,
   into : [1..2 -> Heads \cup {None}], todo : SUBSET S,
   flush : [1..2 -> SUBSET S], caller : {"idle", "spread"}]
JobIn(S, K) == [kind : {"append", "split", "reassign"}, head : K, copies : SUBSET S]

Typed(S, K) ==
  /\ posting \in [Heads -> SUBSET S]
  /\ size \in [Heads -> Int]
  /\ status \in [Heads -> Status]
  /\ cache \in [Heads -> SUBSET S]
  /\ index \in [Heads -> Presence]
  /\ version \in [Vectors -> Versions \cup {Tombstone}]
  /\ pending \in SUBSET Vectors
  /\ jobs \in Seq(JobIn(S, K))
  /\ splitList \in SUBSET Heads
  /\ rwLock \in [Heads -> Threads \cup {None}]
  /\ addLock \in Threads \cup {None}
  /\ pc \in [Threads -> PC]
  /\ app \in [Threads -> AppendFrameIn(S, K)]
  /\ mov \in [Threads -> MoveFrameIn(S, K)]
  /\ spl \in [Threads -> SplitFrameIn(S, K)]

(* Which locals are in use at which step. *)
AppendPCs == {"append", "miss", "branch", "look", "cache", "get", "put", "count", "grow", "enqueue"}
MovePCs   == {"insert", "reassign", "bump", "inc", "spread"}
SplitPCs  == {"split", "gclock", "gcsize", "gcput", "gcerase", "gcflush", "gcnormal",
              "optout", "optnormal", "optcollect", "optput", "optsize",
              "part", "publish", "partsize", "scan", "collect1", "flush1",
              "lock", "unindex", "shrink", "retire", "collect2", "flush2", "erase"}
Placed    == {"scan", "collect1", "flush1", "lock", "unindex", "shrink", "retire",
              "collect2", "flush2", "erase"}

InSplit(t) == pc[t] \in SplitPCs \/ app[t].back \in {"flush1", "flush2"}
Moving(t)  == pc[t] \in MovePCs \/ app[t].back \in {"insert", "spread"}
                \/ spl[t].caller = "spread"

Frame(t) ==
  /\ pc[t] \in AppendPCs => app[t].at # None
  /\ pc[t] \notin AppendPCs => app[t] = NoAppend
  /\ InSplit(t) <=> spl[t].of # None
  /\ ~InSplit(t) => spl[t] = NoSplit
  /\ Moving(t) => mov[t].copy # None
  /\ app[t].back \in {"insert", "spread"} => spl[t] = NoSplit
  /\ app[t].slack # 0 => app[t].back = "spread"
  /\ pc[t] = "split" => spl[t].k = 1
  /\ pc[t] \in {"publish", "partsize"} => spl[t].into[spl[t].k] # None
  /\ pc[t] \in {"part", "publish", "partsize"} /\ spl[t].k = 2 => spl[t].into[1] # None
  /\ pc[t] \in Placed \/ app[t].back \in {"flush1", "flush2"}
       => spl[t].into[1] # None /\ spl[t].into[2] # None

Frames == \A t \in Threads : Frame(t)

PendingVersion == \A v \in pending : version[v] # Tombstone

-----------------------------------------------------------------------------
(* The length of a posting is a number. *)
LEMMA CopiesFinite == ASSUME NEW S \in SUBSET Copies PROVE IsFiniteSet(S) /\ Cardinality(S) \in Nat
<1>1. IsFiniteSet(Versions)
  <2>1. 0 \in Int /\ 127 \in Int
    OBVIOUS
  <2>2. QED BY <2>1, FS_Interval DEF Versions
<1>2. IsFiniteSet(Copies)
  BY <1>1, FS_Product, UpdateAssumption DEF Copies
<1>3. QED BY <1>2, FS_Subset, FS_CardinalityType

(* The index as it is before the first update. *)
LEMMA InitTyped ==
  ASSUME NEW S \in SUBSET Copies, NEW K, \A v \in Vectors : <<v, 0>> \in S, Init
  PROVE  Typed(S, K) /\ Frames /\ PendingVersion
<1>1. pending \in SUBSET Vectors
  BY DEF Init
<1>2. posting \in [Heads -> SUBSET S]
  BY DEF Init
<1>3. size \in [Heads -> Int]
  <2>1. \A h \in Heads : Cardinality(posting[h]) \in Int
    BY <1>2, CopiesFinite
  <2>2. QED BY <2>1 DEF Init
<1>4. app \in [Threads -> AppendFrameIn(S, K)] /\ mov \in [Threads -> MoveFrameIn(S, K)]
      /\ spl \in [Threads -> SplitFrameIn(S, K)]
  BY DEF Init, NoAppend, NoMove, NoSplit, AppendFrameIn, MoveFrameIn, SplitFrameIn
<1>5. version \in [Vectors -> Versions \cup {Tombstone}]
  <2>1. 0 \in Versions
    BY UpdateAssumption DEF Versions
  <2>2. QED BY <2>1 DEF Init
<1>6. Typed(S, K)
  BY <1>1, <1>2, <1>3, <1>4, <1>5 DEF Init, Typed, Status, Presence, PC
<1>7. Frames
  BY DEF Init, Frames, Frame, InSplit, Moving, NoAppend, NoSplit, AppendPCs, SplitPCs, MovePCs,
     Placed
<1>8. PendingVersion
  BY <1>1, UpdateAssumption DEF Init, PendingVersion
<1>9. QED BY <1>6, <1>7, <1>8

-----------------------------------------------------------------------------
(* The heads a splitter has placed a part in, the one it is adding apart,  *)
(* are in K.                                                               *)
IntoIn(K) == \A t \in Threads, k \in 1..2 :
               spl[t].into[k] \in K \cup {None} \/ (pc[t] = "publish" /\ k = spl[t].k)

(* Calls and returns keep the frames typed. *)
FrameRules(S, K, t) ==
  /\ \A h \in K, batch \in SUBSET S, slack \in {0, ReassignSlack},
       back \in {"idle", "insert", "spread", "flush1", "flush2"} :
       CallAppend(t, h, batch, slack, back)
         => app' \in [Threads -> AppendFrameIn(S, K)] /\ pc' \in [Threads -> PC]
  /\ ReturnAppend(t) => app' \in [Threads -> AppendFrameIn(S, K)] /\ pc' \in [Threads -> PC]
  /\ app' = [app EXCEPT ![t] = NoAppend] => app' \in [Threads -> AppendFrameIn(S, K)]
  /\ \A h \in K, caller \in {"idle", "spread"} :
       CallSplit(t, h, caller) => /\ app' \in [Threads -> AppendFrameIn(S, K)]
                                  /\ spl' \in [Threads -> SplitFrameIn(S, K)]
                                  /\ pc' \in [Threads -> PC]
  /\ ReturnSplit(t) => spl' \in [Threads -> SplitFrameIn(S, K)] /\ pc' \in [Threads -> PC]
  /\ Finish(t) => mov' \in [Threads -> MoveFrameIn(S, K)] /\ pc' \in [Threads -> PC]

LEMMA FrameUpdates ==
  ASSUME NEW S, NEW K, NEW t \in Threads,
         app \in [Threads -> AppendFrameIn(S, K)], mov \in [Threads -> MoveFrameIn(S, K)],
         spl \in [Threads -> SplitFrameIn(S, K)], pc \in [Threads -> PC]
  PROVE  FrameRules(S, K, t)
<1>1. NoAppend \in AppendFrameIn(S, K) /\ NoMove \in MoveFrameIn(S, K) /\ NoSplit \in SplitFrameIn(S, K)
  BY DEF NoAppend, NoMove, NoSplit, AppendFrameIn, MoveFrameIn, SplitFrameIn
<1>2. app[t].back \in PC /\ spl[t].caller \in PC
  BY DEF AppendFrameIn, SplitFrameIn, PC
<1>3. ASSUME NEW h \in K, NEW batch \in SUBSET S, NEW slack \in {0, ReassignSlack},
             NEW back \in {"idle", "insert", "spread", "flush1", "flush2"},
             CallAppend(t, h, batch, slack, back)
      PROVE  app' \in [Threads -> AppendFrameIn(S, K)] /\ pc' \in [Threads -> PC]
  BY <1>3 DEF CallAppend, Goto, AppendFrameIn, PC
<1>4. ASSUME ReturnAppend(t)
      PROVE  app' \in [Threads -> AppendFrameIn(S, K)] /\ pc' \in [Threads -> PC]
  BY <1>1, <1>2, <1>4 DEF ReturnAppend, Goto
<1>5. ASSUME NEW h \in K, NEW caller \in {"idle", "spread"}, CallSplit(t, h, caller)
      PROVE  /\ app' \in [Threads -> AppendFrameIn(S, K)]
             /\ spl' \in [Threads -> SplitFrameIn(S, K)]
             /\ pc' \in [Threads -> PC]
  <2>1. [NoSplit EXCEPT !.of = h, !.caller = caller] \in SplitFrameIn(S, K)
    BY <1>1 DEF SplitFrameIn
  <2>2. QED
    BY <1>1, <1>5, <2>1 DEF CallSplit, Goto, PC
<1>6. ASSUME ReturnSplit(t)
      PROVE  spl' \in [Threads -> SplitFrameIn(S, K)] /\ pc' \in [Threads -> PC]
  BY <1>1, <1>2, <1>6 DEF ReturnSplit, Goto
<1>7. ASSUME Finish(t)
      PROVE  mov' \in [Threads -> MoveFrameIn(S, K)] /\ pc' \in [Threads -> PC]
  BY <1>1, <1>7 DEF Finish, Goto, PC
<1>8. QED BY <1>1, <1>3, <1>4, <1>5, <1>6, <1>7 DEF FrameRules

(* So do the assignments to one local. *)
LEMMA SplitFields ==
  ASSUME NEW S, NEW K, NEW t \in Threads, NEW f \in [Threads -> SplitFrameIn(S, K)]
  PROVE  /\ f[t].k \in 1..2 /\ \A k \in 1..2 : f[t].parts[k] \in SUBSET S /\ f[t].flush[k] \in SUBSET S
         /\ \A Z \in SUBSET S : [f EXCEPT ![t].todo = Z] \in [Threads -> SplitFrameIn(S, K)]
         /\ \A p \in [1..2 -> SUBSET S] : [f EXCEPT ![t].parts = p] \in [Threads -> SplitFrameIn(S, K)]
         /\ \A p \in [1..2 -> SUBSET S] : [f EXCEPT ![t].flush = p] \in [Threads -> SplitFrameIn(S, K)]
         /\ \A i \in [1..2 -> Heads \cup {None}] : [f EXCEPT ![t].into = i] \in [Threads -> SplitFrameIn(S, K)]
         /\ \A k \in 1..2 : [f EXCEPT ![t].k = k] \in [Threads -> SplitFrameIn(S, K)]
         /\ \A k \in 1..2, n \in Heads : [f EXCEPT ![t].into[k] = n] \in [Threads -> SplitFrameIn(S, K)]
         /\ \A k \in 1..2 : [f EXCEPT ![t].flush[k] = {}] \in [Threads -> SplitFrameIn(S, K)]
<1>0. f[t] \in SplitFrameIn(S, K)
  OBVIOUS
<1>1. f[t].k \in 1..2 /\ \A k \in 1..2 : f[t].parts[k] \in SUBSET S /\ f[t].flush[k] \in SUBSET S
  BY <1>0 DEF SplitFrameIn
<1>2. \A g \in SplitFrameIn(S, K) : [f EXCEPT ![t] = g] \in [Threads -> SplitFrameIn(S, K)]
  OBVIOUS
<1>3. \A Z \in SUBSET S : [f[t] EXCEPT !.todo = Z] \in SplitFrameIn(S, K)
  BY <1>0 DEF SplitFrameIn
<1>4. \A p \in [1..2 -> SUBSET S] : [f[t] EXCEPT !.parts = p] \in SplitFrameIn(S, K)
                                    /\ [f[t] EXCEPT !.flush = p] \in SplitFrameIn(S, K)
  BY <1>0 DEF SplitFrameIn
<1>5. \A i \in [1..2 -> Heads \cup {None}] : [f[t] EXCEPT !.into = i] \in SplitFrameIn(S, K)
  BY <1>0 DEF SplitFrameIn
<1>6. \A k \in 1..2 : [f[t] EXCEPT !.k = k] \in SplitFrameIn(S, K)
  BY <1>0 DEF SplitFrameIn
<1>7. ASSUME NEW k \in 1..2, NEW n \in Heads
      PROVE  [f[t] EXCEPT !.into[k] = n] \in SplitFrameIn(S, K)
  <2>1. [f[t].into EXCEPT ![k] = n] \in [1..2 -> Heads \cup {None}]
    BY <1>0 DEF SplitFrameIn
  <2>2. QED BY <2>1, <1>5
<1>8. ASSUME NEW k \in 1..2
      PROVE  [f[t] EXCEPT !.flush[k] = {}] \in SplitFrameIn(S, K)
  <2>1. [f[t].flush EXCEPT ![k] = {}] \in [1..2 -> SUBSET S]
    BY <1>0 DEF SplitFrameIn
  <2>2. QED BY <2>1, <1>4
<1>9. QED BY <1>1, <1>2, <1>3, <1>4, <1>5, <1>6, <1>7, <1>8

(* Every step but the increment of a version only moves copies and heads   *)
(* around: the new values are made of the old ones.                        *)
LEMMA TypedStep ==
  ASSUME NEW S \in SUBSET Copies, NEW K \in SUBSET Heads,
         Typed(S, K), Frames, IntoIn(K), Searchable \subseteq K,
         \A v \in pending : <<v, version[v]>> \in S,
         NEW t \in Threads, AddIndex(t) \/ (Step(t) /\ ~ReassignBump(t))
  PROVE  Typed(S, K)'
<1>a. app \in [Threads -> AppendFrameIn(S, K)]  BY DEF Typed
<1>m. mov \in [Threads -> MoveFrameIn(S, K)]  BY DEF Typed
<1>s. spl \in [Threads -> SplitFrameIn(S, K)]  BY DEF Typed
<1>p. pc \in [Threads -> PC]  BY DEF Typed
<1>j. jobs \in Seq(JobIn(S, K))  BY DEF Typed
<1>c. cache \in [Heads -> SUBSET S]  BY DEF Typed
<1>g. posting \in [Heads -> SUBSET S]  BY DEF Typed
<1>z. size \in [Heads -> Int]  BY DEF Typed
<1>t. status \in [Heads -> Status]  BY DEF Typed
<1>r. rwLock \in [Heads -> Threads \cup {None}]  BY DEF Typed
<1>i. index \in [Heads -> Presence]  BY DEF Typed
<1>b. addLock \in Threads \cup {None}  BY DEF Typed
<1>l. splitList \in SUBSET Heads  BY DEF Typed
<1>f. /\ pc[t] \in SplitPCs => spl[t].of \in K /\ spl[t].of \in Heads
      /\ pc[t] \in Placed => spl[t].into[1] # None /\ spl[t].into[2] # None
  BY <1>s DEF Frames, Frame, InSplit, SplitFrameIn
<1>k. pc[t] # "publish" => \A k \in 1..2 : spl[t].into[k] \in K \cup {None}
  BY DEF IntoIn
<1>u. FrameRules(S, K, t)
  BY <1>a, <1>m, <1>s, <1>p, FrameUpdates
<1>n. \A kind \in {"append", "split", "reassign"}, h \in K, batch \in SUBSET S :
        Enqueued(kind, h, batch) \in Seq(JobIn(S, K))
  BY <1>j DEF Enqueued, JobIn
<1>e. \A h \in K : SplitAsync(h) => jobs' \in Seq(JobIn(S, K)) /\ splitList' \in SUBSET Heads
  BY <1>j, <1>n DEF SplitAsync, pool, Typed
<1>1. CASE AddIndex(t)
  <2>1. mov' \in [Threads -> MoveFrameIn(S, K)]
    <3>1. PICK v \in pending, sel \in Selections :
            mov' = [mov EXCEPT ![t].copy = <<v, version[v]>>, ![t].targets = sel]
      BY <1>1 DEF AddIndex
    <3>2. <<v, version[v]>> \in S /\ sel \in SUBSET K
      BY DEF Selections
    <3>3. QED BY <3>1, <3>2, <1>m DEF MoveFrameIn
  <2>2. pc' \in [Threads -> PC]
    BY <1>1, <1>p DEF AddIndex, Goto, PC
  <2>3. QED
    BY <1>1, <2>1, <2>2 DEF AddIndex, Typed, store, marks, pool, locks
<1>2. CASE InsertNext(t)
  <2>0. mov[t].copy \in S
    BY <1>2, <1>m DEF InsertNext, MoveFrameIn, Frames, Frame, Moving, MovePCs, From
  <2>1. mov' \in [Threads -> MoveFrameIn(S, K)]
    BY <1>2, <1>m DEF InsertNext, MoveFrameIn, Finish, NoMove
  <2>2. pc' \in [Threads -> PC]
    BY <1>2, <1>p DEF InsertNext, Goto, PC, Finish, CallAppend
  <2>3. app' \in [Threads -> AppendFrameIn(S, K)]
    BY <1>2, <2>0, <1>a, <1>m DEF InsertNext, CallAppend, AppendFrameIn, MoveFrameIn
  <2>4. QED
    BY <1>2, <2>1, <2>2, <2>3 DEF Typed, store, marks, pool, locks, labels, InsertNext
<1>3. CASE TakeJob(t)
  <2>0. Head(jobs) \in JobIn(S, K) /\ jobs' \in Seq(JobIn(S, K))
    BY <1>3, <1>j DEF TakeJob
  <2>1. Head(jobs).head \in K /\ Head(jobs).copies \in SUBSET S
    BY <2>0 DEF JobIn
  <2>2. /\ app' \in [Threads -> AppendFrameIn(S, K)] /\ spl' \in [Threads -> SplitFrameIn(S, K)]
        /\ mov' \in [Threads -> MoveFrameIn(S, K)] /\ pc' \in [Threads -> PC]
    <3>1. CASE CallAppend(t, Head(jobs).head, Head(jobs).copies, 0, "idle") /\ UNCHANGED <<mov, spl>>
      BY <3>1, <2>1, <1>u, <1>m, <1>s DEF FrameRules
    <3>2. CASE CallSplit(t, Head(jobs).head, "idle") /\ UNCHANGED mov
      BY <3>2, <2>1, <1>u, <1>m DEF FrameRules
    <3>3. CASE /\ \E c \in Head(jobs).copies :
                    mov' = [mov EXCEPT ![t].copy = c, ![t].prev = Head(jobs).head]
               /\ Goto(t, "reassign") /\ UNCHANGED <<app, spl>>
      <4>1. PICK c \in Head(jobs).copies :
                    mov' = [mov EXCEPT ![t].copy = c, ![t].prev = Head(jobs).head]
        BY <3>3
      <4>2. mov' \in [Threads -> MoveFrameIn(S, K)]
        BY <4>1, <2>1, <1>m DEF MoveFrameIn
      <4>3. QED BY <4>2, <3>3, <1>a, <1>s, <1>p DEF Goto, PC
    <3>4. QED BY <1>3, <3>1, <3>2, <3>3 DEF TakeJob
  <2>3. QED
    BY <1>3, <2>0, <2>2 DEF TakeJob, Typed, store, marks, locks, labels
<1>4. CASE ReassignSelect(t)
  <2>1. mov' \in [Threads -> MoveFrameIn(S, K)]
    <3>1. CASE Finish(t)
      BY <3>1, <1>m DEF Finish, NoMove, MoveFrameIn
    <3>2. CASE \E sel \in Selections : mov' = [mov EXCEPT ![t].targets = sel]
      <4>1. PICK sel \in Selections : mov' = [mov EXCEPT ![t].targets = sel]
        BY <3>2
      <4>2. sel \in SUBSET K
        BY DEF Selections
      <4>3. QED BY <4>1, <4>2, <1>m DEF MoveFrameIn
    <3>3. QED BY <1>4, <3>1, <3>2 DEF ReassignSelect
  <2>2. pc' \in [Threads -> PC]
    BY <1>4, <1>p DEF ReassignSelect, Finish, Goto, PC
  <2>3. QED
    BY <1>4, <2>1, <2>2 DEF ReassignSelect, Typed, store, marks, pool, locks, labels
<1>4a. CASE ReassignCheck(t)
  <2>1. pc' \in [Threads -> PC]
    BY <1>4a, <1>p DEF ReassignCheck, Goto, PC
  <2>2. QED
    BY <1>4a, <2>1 DEF ReassignCheck, Typed, store, marks, pool, locks, labels, locals
<1>5. CASE ReassignSpread(t)
  <2>0. mov[t].copy \in S
    BY <1>5, <1>m DEF ReassignSpread, MoveFrameIn, Frames, Frame, Moving, MovePCs, From
  <2>1. mov' \in [Threads -> MoveFrameIn(S, K)]
    BY <1>5, <1>m DEF ReassignSpread, MoveFrameIn, Finish, NoMove
  <2>2. pc' \in [Threads -> PC]
    BY <1>5, <1>p DEF ReassignSpread, Goto, PC, Finish, CallAppend
  <2>3. app' \in [Threads -> AppendFrameIn(S, K)]
    BY <1>5, <2>0, <1>a, <1>m DEF ReassignSpread, CallAppend, AppendFrameIn, MoveFrameIn
  <2>4. QED
    BY <1>5, <2>1, <2>2, <2>3 DEF Typed, store, marks, pool, locks, labels, ReassignSpread
<1>6. CASE AppendEnter(t)
  <2>1. pc' \in [Threads -> PC] /\ rwLock' \in [Heads -> Threads \cup {None}]
    BY <1>6, <1>p, <1>r DEF AppendEnter, Goto, PC
  <2>2. QED
    BY <1>6, <2>1 DEF AppendEnter, Typed, store, marks, pool, labels, locals
<1>7. CASE AppendMiss(t)
  <2>0. app[t].at \in K
    BY <1>7, <1>a DEF AppendMiss, AppendFrameIn, Frames, Frame, AppendPCs, From
  <2>1. jobs' \in Seq(JobIn(S, K))
    <3>1. ASSUME NEW c \in app[t].batch
          PROVE  Enqueued("reassign", app[t].at, {c}) \in Seq(JobIn(S, K))
      <4>1. [kind |-> "reassign", head |-> app[t].at, copies |-> {c}] \in JobIn(S, K)
        BY <2>0, <1>a DEF JobIn, AppendFrameIn
      <4>2. QED BY <4>1, <1>j DEF Enqueued
    <3>2. QED BY <1>7, <3>1, <1>j DEF AppendMiss
  <2>2. /\ app' \in [Threads -> AppendFrameIn(S, K)] /\ mov' \in [Threads -> MoveFrameIn(S, K)]
        /\ pc' \in [Threads -> PC]
    <3>1. CASE \E c \in app[t].batch : app' = [app EXCEPT ![t].batch = @ \ {c}] /\ UNCHANGED <<pc, mov>>
      BY <3>1, <1>a, <1>m, <1>p DEF AppendFrameIn
    <3>2. CASE ReturnAppend(t) /\ UNCHANGED mov
      BY <3>2, <1>u, <1>m DEF FrameRules
    <3>3. CASE app' = [app EXCEPT ![t] = NoAppend] /\ Finish(t)
      BY <3>3, <1>u DEF FrameRules
    <3>4. QED BY <1>7, <3>1, <3>2, <3>3 DEF AppendMiss
  <2>3. QED
    BY <1>7, <2>1, <2>2 DEF AppendMiss, Typed, store, marks, locks, labels
<1>8. CASE AppendBranch(t)
  BY <1>8, <1>p DEF AppendBranch, Goto, PC, Typed, store, marks, pool, locks, labels, locals
<1>9. CASE AppendLook(t)
  <2>1. app' \in [Threads -> AppendFrameIn(S, K)]
    BY <1>9, <1>a, <1>c DEF AppendLook, AppendFrameIn, From, Frames, Frame, AppendPCs
  <2>2. QED
    BY <1>9, <2>1, <1>p DEF AppendLook, Goto, PC, Typed, store, marks, pool, locks, labels
<1>10. CASE AppendCache(t)
  <2>1. app' \in [Threads -> AppendFrameIn(S, K)] /\ pc' \in [Threads -> PC]
    BY <1>10, <1>a, <1>p DEF AppendCache, ReturnAppend, NoAppend, AppendFrameIn, Goto, PC
  <2>2. cache' \in [Heads -> SUBSET S]
    BY <1>10, <1>a, <1>c DEF AppendCache, WithoutVectorsOf, AppendFrameIn
  <2>3. QED
    BY <1>10, <2>1, <2>2 DEF AppendCache, Typed, store, pool, labels
<1>11. CASE AppendGet(t)
  <2>1. app' \in [Threads -> AppendFrameIn(S, K)]
    BY <1>11, <1>a, <1>g DEF AppendGet, AppendFrameIn, From, Frames, Frame, AppendPCs
  <2>2. QED
    BY <1>11, <2>1, <1>p DEF AppendGet, Goto, PC, Typed, store, marks, pool, locks, labels
<1>12. CASE AppendPut(t)
  <2> DEFINE new == IF FilterAppend THEN WithoutVectorsOf(app[t].old, app[t].batch) ELSE app[t].batch
  <2>1. new \in SUBSET S /\ app[t].old \in SUBSET S
    BY <1>a DEF AppendFrameIn, WithoutVectorsOf
  <2>2. posting' \in [Heads -> SUBSET S]
    BY <1>12, <2>1, <1>g DEF AppendPut
  <2>3. app' = [app EXCEPT ![t].batch = new]
    BY <1>12 DEF AppendPut
  <2> HIDE DEF new
  <2>4. app' \in [Threads -> AppendFrameIn(S, K)]
    BY <2>1, <2>3, <1>a DEF AppendFrameIn
  <2>5. QED
    BY <1>12, <2>2, <2>4, <1>p DEF AppendPut, Goto, PC, Typed, marks, pool, locks, labels
<1>12a. CASE AppendCount(t)
  <2>1. size' \in [Heads -> Int]
    <3>1. app[t].at \in Heads
      BY <1>12a, <1>a DEF AppendCount, AppendFrameIn, Frames, Frame, AppendPCs, From
    <3>2. size[app[t].at] + Cardinality(app[t].batch) \in Int
      <4>1. Cardinality(app[t].batch) \in Nat
        BY <1>a, CopiesFinite DEF AppendFrameIn
      <4>2. QED BY <3>1, <4>1, <1>z
    <3>3. size' = [size EXCEPT ![app[t].at] = @ + Cardinality(app[t].batch)]
      BY <1>12a DEF AppendCount
    <3>4. QED BY <3>2, <3>3, <1>z
  <2>2. QED
    BY <1>12a, <2>1, <1>p DEF AppendCount, Goto, PC, Typed, marks, pool, locks, labels, locals
<1>13. CASE AppendGrow(t)
  <2>0. app[t].at \in K
    BY <1>13, <1>a DEF AppendGrow, AppendFrameIn, Frames, Frame, AppendPCs, From
  <2>1. /\ app' \in [Threads -> AppendFrameIn(S, K)] /\ spl' \in [Threads -> SplitFrameIn(S, K)]
        /\ pc' \in [Threads -> PC]
    <3>1. CASE ReturnAppend(t) /\ UNCHANGED <<status, spl>>
      BY <3>1, <1>u, <1>s DEF FrameRules
    <3>2. CASE Goto(t, "enqueue") /\ UNCHANGED <<app, spl>>
      BY <3>2, <1>a, <1>s, <1>p DEF Goto, PC
    <3>3. CASE CallSplit(t, app[t].at, "spread")
      BY <3>3, <2>0, <1>u DEF FrameRules
    <3>4. QED BY <1>13, <3>1, <3>2, <3>3 DEF AppendGrow
  <2>2. status' \in [Heads -> Status] /\ rwLock' \in [Heads -> Threads \cup {None}]
    BY <1>13, <1>t, <1>r DEF AppendGrow, Status
  <2>3. QED
    BY <1>13, <2>1, <2>2 DEF AppendGrow, Typed, store, pool, labels
<1>14. CASE AppendEnqueue(t)
  <2>0. app[t].at \in K
    BY <1>14, <1>a DEF AppendEnqueue, AppendFrameIn, Frames, Frame, AppendPCs, From
  <2>1. jobs' \in Seq(JobIn(S, K)) /\ splitList' \in SUBSET Heads
    BY <1>14, <2>0, <1>e DEF AppendEnqueue
  <2>2. app' \in [Threads -> AppendFrameIn(S, K)] /\ pc' \in [Threads -> PC]
    BY <1>14, <1>a, <1>p DEF AppendEnqueue, ReturnAppend, NoAppend, AppendFrameIn, Goto, PC
  <2>3. QED
    BY <1>14, <2>1, <2>2 DEF AppendEnqueue, Typed, store, marks, locks, labels
<1>15. CASE SplitRead(t)
  <2> DEFINE live == CurrentOf(posting[spl[t].of])
  <2>0. spl[t].of \in Heads /\ live \in SUBSET S
    <3>1. spl[t].of \in Heads
      BY <1>15, <1>f DEF SplitRead, From, SplitPCs
    <3>2. posting[spl[t].of] \in SUBSET S
      BY <3>1, <1>g
    <3>3. QED BY <3>1, <3>2 DEF CurrentOf
  <2>1. pc' \in [Threads -> PC]
    BY <1>15, <1>p DEF SplitRead, Goto, PC
  <2>2. spl' \in [Threads -> SplitFrameIn(S, K)]
    <3> DEFINE todo(p, same) == IF EnableOptSplit /\ same # 0 /\ Uneven(p) THEN p[Small(p)] ELSE {}
               frame(p, same) ==
                 [spl[t] EXCEPT !.parts = p, !.todo = todo(p, same),
                                !.into = [k \in 1..2 |-> IF k = same THEN spl[t].of ELSE None]]
               Parted == \E p \in Bipartitions(live), same \in IF SameHead THEN 0..2 ELSE {0} :
                           spl' = [spl EXCEPT ![t] = frame(p, same)]
    <3>1. \/ spl' = [spl EXCEPT ![t].todo = live]
          \/ \E c \in live : spl' = [spl EXCEPT ![t].todo = {c}]
          \/ Parted
      BY <1>15 DEF SplitRead
    <3>2. \A Z \in SUBSET S : [spl EXCEPT ![t].todo = Z] \in [Threads -> SplitFrameIn(S, K)]
      BY <1>s, SplitFields
    <3>3. ASSUME NEW p \in Bipartitions(live), NEW same
          PROVE  frame(p, same) \in SplitFrameIn(S, K)
      <4>1. p \in [1..2 -> SUBSET S]
        BY <2>0 DEF Bipartitions
      <4>2. todo(p, same) \in SUBSET S
        BY <4>1 DEF Small
      <4>3. [k \in 1..2 |-> IF k = same THEN spl[t].of ELSE None] \in [1..2 -> Heads \cup {None}]
        BY <2>0
      <4>4. spl[t] \in SplitFrameIn(S, K)
        BY <1>s
      <4> HIDE DEF todo
      <4>5. QED BY <4>1, <4>2, <4>3, <4>4 DEF SplitFrameIn
    <3>4. live \in SUBSET S /\ \A c \in live : {c} \in SUBSET S
      BY <2>0
    <3>5. CASE Parted
      <4> HIDE DEF frame
      <4>1. QED BY <3>3, <3>5, <1>s
    <3> HIDE DEF live, Parted
    <3>6. QED BY <3>1, <3>2, <3>4, <3>5
  <2>3. QED
    BY <1>15, <2>1, <2>2 DEF SplitRead, Typed, store, marks, pool, locks, labels
<1>16. CASE SplitGcPut(t)
  <2>1. spl[t].todo \in SUBSET S
    BY <1>s DEF SplitFrameIn
  <2>2. posting' \in [Heads -> SUBSET S] /\ pc' \in [Threads -> PC]
    BY <1>16, <2>1, <1>g, <1>p DEF SplitGcPut, Goto, PC
  <2>3. QED
    BY <1>16, <2>2 DEF SplitGcPut, Typed, marks, pool, locks, labels, locals
<1>17. CASE SplitGcErase(t)
  <2>1. pc' \in [Threads -> PC]
    BY <1>17, <1>p DEF SplitGcErase, Goto, PC
  <2>2. QED
    BY <1>17, <2>1 DEF SplitGcErase, Typed, store, marks, locks, labels, locals
<1>18. CASE SplitGcFlush(t)
  <2>1. spl[t].of \in K /\ cache[spl[t].of] \in SUBSET S
    BY <1>18, <1>f, <1>c DEF SplitGcFlush, From, SplitPCs
  <2>2. jobs' \in Seq(JobIn(S, K))
    BY <1>18, <2>1, <1>n, <1>j DEF SplitGcFlush
  <2>3. cache' \in [Heads -> SUBSET S] /\ pc' \in [Threads -> PC]
    BY <1>18, <1>c, <1>p DEF SplitGcFlush, Goto, PC
  <2>4. QED
    BY <1>18, <2>2, <2>3 DEF SplitGcFlush, Typed, store, locks, labels, locals
<1>19. CASE SplitGcNormal(t)
  <2>1. status' \in [Heads -> Status]
    BY <1>19, <1>t DEF SplitGcNormal, Status
  <2>2. QED
    BY <1>19, <2>1, <1>u DEF SplitGcNormal, FrameRules, Typed, store, pool, locks, labels
<1>20. CASE SplitOptOut(t)
  <2>1. spl[t].of \in K /\ \A c \in spl[t].todo : {c} \in SUBSET S
    BY <1>20, <1>f, <1>s DEF SplitOptOut, From, SplitPCs, SplitFrameIn
  <2>2. jobs' \in Seq(JobIn(S, K))
    BY <1>20, <2>1, <1>n, <1>j DEF SplitOptOut
  <2>3. spl' \in [Threads -> SplitFrameIn(S, K)] /\ pc' \in [Threads -> PC]
    <3>1. \A Z \in SUBSET S : [spl EXCEPT ![t].todo = Z] \in [Threads -> SplitFrameIn(S, K)]
      BY <1>s, SplitFields
    <3>2. \A c : spl[t].todo \ {c} \in SUBSET S
      BY <1>s DEF SplitFrameIn
    <3>3. spl' = spl \/ \E c : spl' = [spl EXCEPT ![t].todo = spl[t].todo \ {c}]
      BY <1>20 DEF SplitOptOut
    <3>4. pc' \in [Threads -> PC]
      BY <1>20, <1>p DEF SplitOptOut, Goto, PC
    <3>5. QED BY <3>1, <3>2, <3>3, <3>4, <1>s
  <2>4. QED
    BY <1>20, <2>2, <2>3 DEF SplitOptOut, Typed, store, marks, locks, labels
<1>21. CASE SplitOptNormal(t)
  <2>1. status' \in [Heads -> Status] /\ pc' \in [Threads -> PC]
    BY <1>21, <1>t, <1>p DEF SplitOptNormal, Status, Goto, PC
  <2>2. QED
    BY <1>21, <2>1 DEF SplitOptNormal, Typed, store, pool, locks, labels, locals
<1>22. CASE SplitOptCollect(t)
  <2>1. cache[spl[t].of] \in SUBSET S
    BY <1>22, <1>f, <1>c DEF SplitOptCollect, From, SplitPCs
  <2>2. 3 - Small(spl[t].parts) \in 1..2
    BY DEF Small
  <2>3. spl[t].parts[3 - Small(spl[t].parts)] \in SUBSET S
    BY <2>2, <1>s DEF SplitFrameIn
  <2>4. spl' \in [Threads -> SplitFrameIn(S, K)]
    BY <1>22, <2>1, <2>3, <1>s DEF SplitOptCollect, SplitFrameIn
  <2>5. cache' \in [Heads -> SUBSET S] /\ pc' \in [Threads -> PC]
    BY <1>22, <1>c, <1>p DEF SplitOptCollect, Goto, PC
  <2>6. QED
    BY <1>22, <2>4, <2>5 DEF SplitOptCollect, Typed, store, pool, locks, labels
<1>23. CASE SplitOptPut(t)
  <2>1. posting' \in [Heads -> SUBSET S] /\ pc' \in [Threads -> PC]
    BY <1>23, <1>g, <1>s, <1>p DEF SplitOptPut, SplitFrameIn, Goto, PC
  <2>2. QED
    BY <1>23, <2>1 DEF SplitOptPut, Typed, marks, pool, locks, labels, locals
<1>24. CASE SplitOptSize(t)
  <2>1. Cardinality(spl[t].todo) \in Int /\ spl[t].of \in K
    BY <1>24, <1>f, <1>s, CopiesFinite DEF SplitOptSize, From, SplitPCs, SplitFrameIn
  <2>2. size' \in [Heads -> Int]
    BY <1>24, <2>1, <1>z DEF SplitOptSize
  <2>3. jobs' \in Seq(JobIn(S, K)) /\ splitList' \in SUBSET Heads
    BY <1>24, <2>1, <1>e, <1>j, <1>l DEF SplitOptSize, pool
  <2>4. QED
    BY <1>24, <2>2, <2>3, <1>u DEF SplitOptSize, FrameRules, Typed, marks, locks, labels
<1>25. CASE SplitPart(t)
  <2>0. spl[t].k \in 1..2 /\ \A k \in 1..2 : spl[t].parts[k] \in SUBSET S
    BY <1>s DEF SplitFrameIn
  <2>1. posting' \in [Heads -> SUBSET S]
    BY <1>25, <2>0, <1>g DEF SplitPart
  <2>2. status' \in [Heads -> Status] /\ index' \in [Heads -> Presence]
    BY <1>25, <1>t, <1>i DEF SplitPart, Status, Presence
  <2>3. rwLock' \in [Heads -> Threads \cup {None}] /\ addLock' \in Threads \cup {None}
    BY <1>25, <1>r, <1>b DEF SplitPart, locks
  <2>4. spl' \in [Threads -> SplitFrameIn(S, K)]
    <3>1. \A n \in Heads : [spl EXCEPT ![t].into[spl[t].k] = n] \in [Threads -> SplitFrameIn(S, K)]
      BY <1>s, SplitFields
    <3>2. spl' = spl \/ \E n \in Heads : spl' = [spl EXCEPT ![t].into[spl[t].k] = n]
      BY <1>25 DEF SplitPart
    <3>3. QED BY <3>1, <3>2, <1>s
  <2>5. pc' \in [Threads -> PC]
    BY <1>25, <1>p DEF SplitPart, Goto, PC
  <2>6. QED
    BY <1>25, <2>1, <2>2, <2>3, <2>4, <2>5 DEF SplitPart, Typed, pool, labels
<1>26. CASE SplitPublish(t)
  <2>1. /\ index' \in [Heads -> Presence] /\ rwLock' \in [Heads -> Threads \cup {None}]
        /\ addLock' \in Threads \cup {None} /\ pc' \in [Threads -> PC]
    BY <1>26, <1>i, <1>r, <1>p DEF SplitPublish, Presence, Goto, PC
  <2>2. QED
    BY <1>26, <2>1 DEF SplitPublish, Typed, store, pool, labels, locals
<1>27. CASE SplitPartSize(t)
  <2>0. spl[t].k \in 1..2 /\ \A k \in 1..2 : spl[t].parts[k] \in SUBSET S
    BY <1>s DEF SplitFrameIn
  <2>1. Cardinality(spl[t].parts[spl[t].k]) \in Int
    BY <2>0, CopiesFinite
  <2>2. size' \in [Heads -> Int]
    BY <1>27, <2>1, <1>z DEF SplitPartSize
  <2>3. spl' \in [Threads -> SplitFrameIn(S, K)]
    <3>1. \A k \in 1..2 : [spl EXCEPT ![t].k = k] \in [Threads -> SplitFrameIn(S, K)]
      BY <1>s, SplitFields
    <3>2. \A Z \in SUBSET S : [spl EXCEPT ![t].todo = Z] \in [Threads -> SplitFrameIn(S, K)]
      BY <1>s, SplitFields
    <3> DEFINE rest == IF DisableReassign THEN {} ELSE spl[t].parts[1] \cup spl[t].parts[2]
    <3>3. rest \in SUBSET S /\ 2 \in 1..2
      BY <2>0
    <3>4. spl' = [spl EXCEPT ![t].k = 2] \/ spl' = [spl EXCEPT ![t].todo = rest]
      BY <1>27 DEF SplitPartSize
    <3> HIDE DEF rest
    <3>5. QED BY <3>1, <3>2, <3>3, <3>4
  <2>4. pc' \in [Threads -> PC]
    BY <1>27, <1>p DEF SplitPartSize, Goto, PC
  <2>5. QED
    BY <1>27, <2>2, <2>3, <2>4 DEF SplitPartSize, Typed, marks, pool, locks, labels
<1>28. CASE SplitScan(t)
  <2>1. \A k \in 1..2 : spl[t].into[k] \in K
    BY <1>28, <1>f, <1>k DEF SplitScan, From, Placed
  <2>2. \A c \in spl[t].todo : {c} \in SUBSET S
    BY <1>s DEF SplitFrameIn
  <2>3. jobs' \in Seq(JobIn(S, K))
    <3>1. \/ jobs' = jobs
          \/ \E c \in spl[t].todo, k \in 1..2 : jobs' = Enqueued("reassign", spl[t].into[k], {c})
      BY <1>28 DEF SplitScan
    <3>2. QED BY <3>1, <2>1, <2>2, <1>n, <1>j
  <2>4. spl' \in [Threads -> SplitFrameIn(S, K)] /\ pc' \in [Threads -> PC]
    <3>1. \A Z \in SUBSET S : [spl EXCEPT ![t].todo = Z] \in [Threads -> SplitFrameIn(S, K)]
      BY <1>s, SplitFields
    <3>2. {} \in SUBSET S /\ \A c : spl[t].todo \ {c} \in SUBSET S
      BY <1>s DEF SplitFrameIn
    <3>3. \/ spl' = [spl EXCEPT ![t].todo = {}]
          \/ \E c : spl' = [spl EXCEPT ![t].todo = spl[t].todo \ {c}]
      BY <1>28 DEF SplitScan
    <3>4. pc' \in [Threads -> PC]
      BY <1>28, <1>p DEF SplitScan, Goto, PC
    <3>5. QED BY <3>1, <3>2, <3>3, <3>4
  <2>5. QED
    BY <1>28, <2>3, <2>4 DEF SplitScan, Typed, store, marks, locks, labels
<1>29. ASSUME NEW from \in SplitPCs, NEW to \in PC, SplitCollect(t, from, to)
       PROVE  Typed(S, K)'
  <2>1. cache[spl[t].of] \in SUBSET S
    BY <1>29, <1>f, <1>c DEF SplitCollect, From
  <2>2. spl' \in [Threads -> SplitFrameIn(S, K)]
    BY <1>29, <2>1, <1>s DEF SplitCollect, SplitFrameIn
  <2>3. cache' \in [Heads -> SUBSET S] /\ pc' \in [Threads -> PC]
    BY <1>29, <1>c, <1>p DEF SplitCollect, Goto
  <2>4. QED
    BY <1>29, <2>2, <2>3 DEF SplitCollect, Typed, store, pool, locks, labels
<1>30. ASSUME NEW here \in {"flush1", "flush2"}, NEW to \in PC, SplitFlush(t, here, to)
       PROVE  Typed(S, K)'
  <2>0. spl[t].todo \in SUBSET S /\ \A k \in 1..2 : spl[t].flush[k] \in SUBSET S
    BY <1>s DEF SplitFrameIn
  <2>1. \A k \in 1..2 : spl[t].into[k] \in K
    BY <1>30, <1>f, <1>k DEF SplitFlush, From, Placed
  <2>2. spl' \in [Threads -> SplitFrameIn(S, K)] /\ app' \in [Threads -> AppendFrameIn(S, K)]
        /\ pc' \in [Threads -> PC]
    <3>1. CASE /\ \E near \in SUBSET CurrentOf(spl[t].todo) :
                    spl' = [spl EXCEPT ![t].todo = {},
                              ![t].flush = [k \in 1..2 |-> IF k = 1 THEN near
                                                          ELSE CurrentOf(spl[t].todo) \ near]]
               /\ UNCHANGED <<pc, app>>
      <4>1. PICK near \in SUBSET CurrentOf(spl[t].todo) :
                    spl' = [spl EXCEPT ![t].todo = {},
                              ![t].flush = [k \in 1..2 |-> IF k = 1 THEN near
                                                          ELSE CurrentOf(spl[t].todo) \ near]]
        BY <3>1
      <4>2. [k \in 1..2 |-> IF k = 1 THEN near ELSE CurrentOf(spl[t].todo) \ near] \in [1..2 -> SUBSET S]
        BY <2>0 DEF CurrentOf
      <4>3. [spl EXCEPT ![t].todo = {}] \in [Threads -> SplitFrameIn(S, K)]
        BY <1>s, SplitFields
      <4>4. spl' \in [Threads -> SplitFrameIn(S, K)]
        BY <4>1, <4>2, <4>3, SplitFields
      <4>5. QED BY <3>1, <4>4, <1>a, <1>p
    <3>2. ASSUME NEW k \in 1..2, spl' = [spl EXCEPT ![t].flush[k] = {}],
                 CallAppend(t, spl[t].into[k], spl[t].flush[k], 0, here)
          PROVE  spl' \in [Threads -> SplitFrameIn(S, K)] /\ app' \in [Threads -> AppendFrameIn(S, K)]
                 /\ pc' \in [Threads -> PC]
      <4>1. spl' \in [Threads -> SplitFrameIn(S, K)]
        BY <3>2, <1>s, SplitFields
      <4>2. QED BY <3>2, <4>1, <2>0, <2>1, <1>u DEF FrameRules
    <3>3. CASE Goto(t, to) /\ UNCHANGED <<spl, app>>
      BY <3>3, <1>s, <1>a, <1>p DEF Goto
    <3>4. QED BY <1>30, <3>1, <3>2, <3>3 DEF SplitFlush
  <2>3. QED
    BY <1>30, <2>2 DEF SplitFlush, Typed, store, marks, pool, locks, labels
<1>31. CASE SplitUnindex(t)
  <2>1. status' \in [Heads -> Status] /\ index' \in [Heads -> Presence] /\ pc' \in [Threads -> PC]
    BY <1>31, <1>t, <1>i, <1>p DEF SplitUnindex, Status, Presence, Goto, PC
  <2>2. QED
    BY <1>31, <2>1 DEF SplitUnindex, Typed, store, pool, locks, labels, locals
<1>32. CASE SplitRetire(t)
  <2>1. status' \in [Heads -> Status] /\ pc' \in [Threads -> PC]
    BY <1>32, <1>t, <1>p DEF SplitRetire, Status, Goto, PC
  <2>2. QED
    BY <1>32, <2>1 DEF SplitRetire, Typed, store, pool, locks, labels, locals
<1>33. CASE SplitErase(t)
  BY <1>33, <1>u DEF SplitErase, FrameRules, Typed, store, marks, locks, labels
<1>34. CASE SplitGcSize(t) \/ SplitShrink(t)
  <2>1. PICK n \in Int : size' = [size EXCEPT ![spl[t].of] = n]
    <3>1. Cardinality(spl[t].todo) \in Int
      BY <1>s, CopiesFinite DEF SplitFrameIn
    <3>2. QED BY <1>34, <3>1 DEF SplitGcSize, SplitShrink
  <2>2. size' \in [Heads -> Int]
    BY <2>1, <1>z
  <2>3. pc' \in [Threads -> PC]
    BY <1>34, <1>p DEF SplitGcSize, SplitShrink, Goto, PC
  <2>4. QED
    BY <1>34, <2>2, <2>3 DEF SplitGcSize, SplitShrink, Typed, marks, pool, locks, labels, locals
<1>35. ASSUME NEW from, NEW to \in PC, SplitLock(t, from, to)
       PROVE  Typed(S, K)'
  <2>1. pc' \in [Threads -> PC]
    BY <1>35, <1>p DEF SplitLock, Goto
  <2>2. QED
    BY <1>35, <2>1 DEF SplitLock, Typed, store, marks, pool, locks, labels, locals
<1>36. "collect1" \in SplitPCs /\ "collect2" \in SplitPCs
       /\ {"flush1", "flush2", "gcsize", "lock", "unindex", "erase"} \subseteq PC
  BY DEF SplitPCs, PC
<1>37. QED
  BY <1>1, <1>2, <1>3, <1>4, <1>4a, <1>12a, <1>5, <1>6, <1>7, <1>8, <1>9, <1>10, <1>11, <1>12, <1>13, <1>14,
     <1>15, <1>16, <1>17, <1>18, <1>19, <1>20, <1>21, <1>22, <1>23, <1>24, <1>25, <1>26, <1>27,
     <1>28, <1>29, <1>30, <1>31, <1>32, <1>33, <1>34, <1>35, <1>36
  DEF Step, Reassign, ConcurrentAppend, ConcurrentSplit
-----------------------------------------------------------------------------
(* A step changes the locals of its own thread. *)
Others(t) == \A u \in Threads \ {t} :
               /\ pc'[u] = pc[u] /\ app'[u] = app[u]
               /\ mov'[u] = mov[u] /\ spl'[u] = spl[u]

(* A thread changes the step and the locals of no other thread. *)
LEMMA StepLocal ==
  ASSUME NEW S, NEW K, Typed(S, K), NEW t \in Threads, AddIndex(t) \/ Step(t)
  PROVE  Others(t)
<1>0. /\ pc \in [Threads -> PC] /\ app \in [Threads -> AppendFrameIn(S, K)]
      /\ mov \in [Threads -> MoveFrameIn(S, K)] /\ spl \in [Threads -> SplitFrameIn(S, K)]
  BY DEF Typed
<1>1. CASE AddIndex(t)
  BY <1>1, <1>0 DEF AddIndex, Others, Goto
<1>2. CASE InsertNext(t)
  BY <1>2, <1>0 DEF InsertNext, Others, Goto, CallAppend, Finish
<1>3. CASE TakeJob(t)
  BY <1>3, <1>0 DEF TakeJob, Others, Goto, CallAppend, CallSplit
<1>4. CASE ReassignSelect(t)
  BY <1>4, <1>0 DEF ReassignSelect, Others, Goto, Finish
<1>4a. CASE ReassignCheck(t)
  BY <1>4a, <1>0 DEF ReassignCheck, Others, Goto, locals
<1>5. CASE ReassignBump(t)
  BY <1>5, <1>0 DEF ReassignBump, Others, Goto
<1>6. CASE ReassignSpread(t)
  BY <1>6, <1>0 DEF ReassignSpread, Others, Goto, CallAppend, Finish
<1>7. CASE AppendEnter(t)
  BY <1>7, <1>0 DEF AppendEnter, Others, Goto, locals
<1>8. CASE AppendMiss(t)
  BY <1>8, <1>0 DEF AppendMiss, Others, Goto, ReturnAppend, Finish
<1>9. CASE AppendBranch(t)
  BY <1>9, <1>0 DEF AppendBranch, Others, Goto, locals
<1>10. CASE AppendLook(t)
  BY <1>10, <1>0 DEF AppendLook, Others, Goto
<1>11. CASE AppendCache(t)
  BY <1>11, <1>0 DEF AppendCache, Others, Goto, ReturnAppend
<1>12. CASE AppendGet(t)
  BY <1>12, <1>0 DEF AppendGet, Others, Goto
<1>13. CASE AppendPut(t)
  BY <1>13, <1>0 DEF AppendPut, Others, Goto, locals
<1>13a. CASE AppendCount(t)
  BY <1>13a, <1>0 DEF AppendCount, Others, Goto, locals
<1>14. CASE AppendGrow(t)
  BY <1>14, <1>0 DEF AppendGrow, Others, Goto, ReturnAppend, CallSplit
<1>15. CASE AppendEnqueue(t)
  BY <1>15, <1>0 DEF AppendEnqueue, Others, Goto, ReturnAppend
<1>16. CASE SplitRead(t)
  BY <1>16, <1>0 DEF SplitRead, Others, Goto
<1>17. CASE SplitGcPut(t)
  BY <1>17, <1>0 DEF SplitGcPut, Others, Goto, locals
<1>18. CASE SplitGcErase(t)
  BY <1>18, <1>0 DEF SplitGcErase, Others, Goto, locals
<1>19. CASE SplitGcFlush(t)
  BY <1>19, <1>0 DEF SplitGcFlush, Others, Goto, locals
<1>20. CASE SplitGcNormal(t)
  BY <1>20, <1>0 DEF SplitGcNormal, Others, Goto, ReturnSplit
<1>21. CASE SplitOptOut(t)
  BY <1>21, <1>0 DEF SplitOptOut, Others, Goto
<1>22. CASE SplitOptNormal(t)
  BY <1>22, <1>0 DEF SplitOptNormal, Others, Goto, locals
<1>23. CASE SplitOptCollect(t)
  BY <1>23, <1>0 DEF SplitOptCollect, Others, Goto
<1>24. CASE SplitOptPut(t)
  BY <1>24, <1>0 DEF SplitOptPut, Others, Goto, locals
<1>25. CASE SplitOptSize(t)
  BY <1>25, <1>0 DEF SplitOptSize, Others, Goto, ReturnSplit
<1>26. CASE SplitPart(t)
  BY <1>26, <1>0 DEF SplitPart, Others, Goto
<1>27. CASE SplitPublish(t)
  BY <1>27, <1>0 DEF SplitPublish, Others, Goto, locals
<1>28. CASE SplitPartSize(t)
  BY <1>28, <1>0 DEF SplitPartSize, Others, Goto
<1>29. CASE SplitScan(t)
  BY <1>29, <1>0 DEF SplitScan, Others, Goto
<1>30. CASE SplitUnindex(t)
  BY <1>30, <1>0 DEF SplitUnindex, Others, Goto, locals
<1>31. CASE SplitRetire(t)
  BY <1>31, <1>0 DEF SplitRetire, Others, Goto, locals
<1>32. CASE SplitErase(t)
  BY <1>32, <1>0 DEF SplitErase, Others, Goto, ReturnSplit
<1>33. ASSUME NEW from, NEW to, SplitCollect(t, from, to) PROVE Others(t)
  BY <1>33, <1>0 DEF SplitCollect, Others, Goto, CallAppend
<1>34. ASSUME NEW from, NEW to, SplitFlush(t, from, to) PROVE Others(t)
  BY <1>34, <1>0 DEF SplitFlush, Others, Goto, CallAppend
<1>35. CASE SplitGcSize(t) \/ SplitShrink(t)
  BY <1>35, <1>0 DEF SplitGcSize, SplitShrink, Others, Goto, locals
<1>36. ASSUME NEW from, NEW to, SplitLock(t, from, to) PROVE Others(t)
  BY <1>36, <1>0 DEF SplitLock, Others, Goto, locals
<1>37. QED
  BY <1>1, <1>2, <1>3, <1>4, <1>4a, <1>13a, <1>5, <1>6, <1>7, <1>8, <1>9, <1>10, <1>11, <1>12, <1>13, <1>14,
     <1>15, <1>16, <1>17, <1>18, <1>19, <1>20, <1>21, <1>22, <1>23, <1>24, <1>25, <1>26, <1>27,
     <1>28, <1>29, <1>30, <1>31, <1>32, <1>33, <1>34, <1>35, <1>36
  DEF Step, Reassign, ConcurrentAppend, ConcurrentSplit

(* The increment: what a deletion made of the label included, the new one  *)
(* has 7 bits.                                                             *)
LEMMA BumpVersion ==
  ASSUME NEW S \in SUBSET Copies, NEW K, Typed(S, K), Frames, NEW t \in Threads, ReassignBump(t)
  PROVE  \E v \in Vectors, n \in Versions :
           /\ v = Vid(mov[t].copy)
           /\ n = Successor(version[v])
           /\ <<v, n>> \in Copies
           /\ mov' = [mov EXCEPT ![t].copy = <<v, n>>]
           /\ version' = [version EXCEPT ![v] = n]
<1>0. /\ version \in [Vectors -> Versions \cup {Tombstone}]
      /\ mov \in [Threads -> MoveFrameIn(S, K)]
  BY DEF Typed
<1>1. Vid(mov[t].copy) \in Vectors
  <2>1. mov[t].copy \in S
    BY <1>0 DEF ReassignBump, From, Frames, Frame, Moving, MovePCs, MoveFrameIn
  <2>2. QED BY <2>1 DEF Copies, Vid
<1>2. PICK v \in Vectors : v = Vid(mov[t].copy)
  BY <1>1
<1>3. Successor(version[v]) \in Versions
  <2>1. version[v] # Tombstone => version[v] < MaxVersion
    BY <1>2 DEF ReassignBump
  <2>2. QED BY <2>1, <1>0, <1>2, UpdateAssumption DEF Successor, Versions
<1>4. PICK n \in Versions : n = Successor(version[v])
  BY <1>3
<1>5. QED BY <1>2, <1>4 DEF ReassignBump, Copies

(* The locals a routine uses are set when it is called and cleared when it  *)
(* returns, ConcurrentAppend from within ConcurrentSplit included.         *)
LEMMA FrameStep ==
  ASSUME NEW S \in SUBSET Copies, NEW K \in SUBSET Heads, Typed(S, K), Frames, PendingVersion,
         Searchable \subseteq K, IntoIn(K), NEW t \in Threads, AddIndex(t) \/ Step(t)
  PROVE  Frame(t)'
<1>0. /\ pc \in [Threads -> PC] /\ app \in [Threads -> AppendFrameIn(S, K)]
      /\ mov \in [Threads -> MoveFrameIn(S, K)] /\ spl \in [Threads -> SplitFrameIn(S, K)]
  BY DEF Typed
<1>f. Frame(t)
  BY DEF Frames
<1>n. None \notin Copies /\ None \notin Heads
  BY UpdateAssumption
<1>v. version \in [Vectors -> Versions \cup {Tombstone}] /\ pending \in SUBSET Vectors
  BY DEF Typed
<1>j. jobs \in Seq(JobIn(S, K))
  BY DEF Typed
<1>1. CASE AddIndex(t)
  <2>1. PICK v \in pending, sel \in Selections :
          mov' = [mov EXCEPT ![t].copy = <<v, version[v]>>, ![t].targets = sel]
    BY <1>1 DEF AddIndex
  <2>2. <<v, version[v]>> # None
    BY <1>n, <1>v DEF PendingVersion, Copies
  <2>3. mov'[t].copy # None
    BY <2>1, <2>2, <1>0 DEF MoveFrameIn
  <2>4. pc[t] = "idle" /\ pc'[t] = "insert" /\ app'[t] = app[t] /\ spl'[t] = spl[t]
    BY <1>1, <1>0 DEF AddIndex, From, Goto
  <2>5. QED BY <2>3, <2>4, <1>0, <1>f DEF Frame, InSplit, Moving, AppendPCs, SplitPCs, MovePCs,
               Placed, NoAppend, NoSplit, NoMove, AppendFrameIn, SplitFrameIn, MoveFrameIn
<1>2. CASE InsertNext(t)
  <2>0. pc[t] = "insert" /\ spl'[t] = spl[t] /\ app[t] = NoAppend /\ spl[t] = NoSplit /\ mov[t].copy # None
    BY <1>2, <1>f DEF InsertNext, Frame, InSplit, Moving, From, Goto, AppendPCs, SplitPCs,
       MovePCs, Placed, NoAppend, NoSplit, NoMove, AppendFrameIn, SplitFrameIn, MoveFrameIn
  <2>1. CASE \E h \in mov[t].targets :
               mov' = [mov EXCEPT ![t].targets = @ \ {h}] /\ CallAppend(t, h, {mov[t].copy}, 0, "insert")
    <3>1. PICK h \in mov[t].targets :
               mov' = [mov EXCEPT ![t].targets = @ \ {h}] /\ CallAppend(t, h, {mov[t].copy}, 0, "insert")
      BY <2>1
    <3>2. mov'[t].copy = mov[t].copy /\ pc'[t] = "append" /\ app'[t].at = h /\ h # None
          /\ app'[t].back = "insert" /\ app'[t].slack = 0
      BY <3>1, <1>0, <1>n DEF CallAppend, Goto, MoveFrameIn
    <3>3. QED BY <2>0, <3>2 DEF Frame, InSplit, Moving, AppendPCs, SplitPCs, MovePCs, Placed,
                 NoAppend, NoSplit, NoMove, AppendFrameIn, SplitFrameIn, MoveFrameIn
  <2>2. CASE Finish(t) /\ UNCHANGED app
    BY <2>0, <2>2, <1>0 DEF Finish, Frame, InSplit, Moving, From, Goto, AppendPCs, SplitPCs,
       MovePCs, Placed, NoAppend, NoSplit, NoMove, AppendFrameIn, SplitFrameIn, MoveFrameIn
  <2>3. QED BY <1>2, <2>1, <2>2 DEF InsertNext
<1>3. CASE TakeJob(t)
  <2>0. pc[t] = "idle" /\ app[t] = NoAppend /\ spl[t] = NoSplit
    BY <1>3, <1>f DEF TakeJob, Frame, InSplit, Moving, From, Goto, AppendPCs, SplitPCs, MovePCs,
       Placed, NoAppend, NoSplit, NoMove, AppendFrameIn, SplitFrameIn, MoveFrameIn
  <2>1. Head(jobs) \in JobIn(S, K)
    BY <1>3, <1>j DEF TakeJob
  <2>2. Head(jobs).head # None /\ Head(jobs).copies \subseteq Copies
    BY <2>1, <1>n DEF JobIn
  <2>3. CASE CallAppend(t, Head(jobs).head, Head(jobs).copies, 0, "idle") /\ UNCHANGED <<mov, spl>>
    BY <2>0, <2>2, <2>3, <1>0 DEF CallAppend, Frame, InSplit, Moving, From, Goto, AppendPCs,
       SplitPCs, MovePCs, Placed, NoAppend, NoSplit, NoMove, AppendFrameIn, SplitFrameIn,
       MoveFrameIn
  <2>4. CASE CallSplit(t, Head(jobs).head, "idle") /\ UNCHANGED mov
    BY <2>0, <2>2, <2>4, <1>0 DEF CallSplit, Frame, InSplit, Moving, From, Goto, AppendPCs,
       SplitPCs, MovePCs, Placed, NoAppend, NoSplit, NoMove, AppendFrameIn, SplitFrameIn,
       MoveFrameIn
  <2>5. CASE /\ \E c \in Head(jobs).copies : mov' = [mov EXCEPT ![t].copy = c, ![t].prev = Head(jobs).head]
             /\ Goto(t, "reassign") /\ UNCHANGED <<app, spl>>
    <3>1. mov'[t].copy # None
      BY <2>2, <2>5, <1>0, <1>n DEF MoveFrameIn
    <3>2. pc'[t] = "reassign" /\ app'[t] = app[t] /\ spl'[t] = spl[t]
      BY <2>5, <1>0 DEF Goto
    <3>3. QED BY <2>0, <3>1, <3>2 DEF Frame, InSplit, Moving, AppendPCs, SplitPCs, MovePCs,
                 Placed, NoAppend, NoSplit, NoMove, AppendFrameIn, SplitFrameIn, MoveFrameIn
  <2>6. QED BY <1>3, <2>3, <2>4, <2>5 DEF TakeJob
<1>4. CASE ReassignSelect(t)
  BY <1>4, <1>0, <1>f DEF ReassignSelect, Frame, InSplit, Moving, From, Goto, Finish, AppendPCs,
     SplitPCs, MovePCs, Placed, NoAppend, NoSplit, NoMove, AppendFrameIn, SplitFrameIn,
     MoveFrameIn
<1>4a. CASE ReassignCheck(t)
  BY <1>4a, <1>0, <1>f DEF ReassignCheck, Frame, InSplit, Moving, From, Goto, locals, AppendPCs,
     SplitPCs, MovePCs, Placed, NoAppend, NoSplit
<1>5. CASE ReassignBump(t)
  <2>0. pc[t] = "inc" /\ pc'[t] = "spread" /\ spl'[t] = spl[t] /\ app'[t] = app[t]
    BY <1>5, <1>0 DEF ReassignBump, From, Goto
  <2>1. mov'[t].copy # None
    <3>1. PICK c \in Copies : mov' = [mov EXCEPT ![t].copy = c]
      BY <1>5, BumpVersion
    <3>2. QED BY <3>1, <1>0, <1>n DEF MoveFrameIn
  <2>2. QED BY <2>0, <2>1, <1>f DEF Frame, InSplit, Moving, AppendPCs, SplitPCs, MovePCs,
               Placed, NoAppend, NoSplit, NoMove, AppendFrameIn, SplitFrameIn, MoveFrameIn
<1>6. CASE ReassignSpread(t)
  <2>0. pc[t] = "spread" /\ spl'[t] = spl[t] /\ app[t] = NoAppend /\ spl[t] = NoSplit /\ mov[t].copy # None
    BY <1>6, <1>f DEF ReassignSpread, Frame, InSplit, Moving, From, Goto, AppendPCs, SplitPCs,
       MovePCs, Placed, NoAppend, NoSplit, NoMove, AppendFrameIn, SplitFrameIn, MoveFrameIn
  <2>1. CASE \E h \in mov[t].targets : mov' = [mov EXCEPT ![t].targets = @ \ {h}]
               /\ CallAppend(t, h, {mov[t].copy}, ReassignSlack, "spread")
    <3>1. PICK h \in mov[t].targets : mov' = [mov EXCEPT ![t].targets = @ \ {h}]
               /\ CallAppend(t, h, {mov[t].copy}, ReassignSlack, "spread")
      BY <2>1
    <3>2. mov'[t].copy = mov[t].copy /\ pc'[t] = "append" /\ app'[t].at = h /\ h # None
          /\ app'[t].back = "spread"
      BY <3>1, <1>0, <1>n DEF CallAppend, Goto, MoveFrameIn
    <3>3. QED BY <2>0, <3>2 DEF Frame, InSplit, Moving, AppendPCs, SplitPCs, MovePCs, Placed,
                 NoAppend, NoSplit, NoMove, AppendFrameIn, SplitFrameIn, MoveFrameIn
  <2>2. CASE Finish(t) /\ UNCHANGED app
    BY <2>0, <2>2, <1>0 DEF Finish, Frame, InSplit, Moving, From, Goto, AppendPCs, SplitPCs,
       MovePCs, Placed, NoAppend, NoSplit, NoMove, AppendFrameIn, SplitFrameIn, MoveFrameIn
  <2>3. QED BY <1>6, <2>1, <2>2 DEF ReassignSpread
<1>7. CASE AppendEnter(t)
  BY <1>7, <1>0, <1>f DEF AppendEnter, Frame, InSplit, Moving, From, Goto, locals, AppendPCs,
     SplitPCs, MovePCs, Placed, NoAppend, NoSplit, AppendFrameIn, SplitFrameIn, MoveFrameIn
<1>8. CASE AppendMiss(t)
  <2>0. pc[t] = "miss" /\ spl'[t] = spl[t] /\ app[t].at # None
    BY <1>8, <1>f DEF AppendMiss, Frame, InSplit, Moving, From, Goto, AppendPCs, SplitPCs,
       MovePCs, Placed, NoAppend, NoSplit, NoMove, AppendFrameIn, SplitFrameIn, MoveFrameIn
  <2>1. CASE \E c \in app[t].batch : app' = [app EXCEPT ![t].batch = @ \ {c}] /\ UNCHANGED <<pc, mov>>
    <3>1. /\ app'[t].at = app[t].at /\ app'[t].back = app[t].back /\ app'[t].slack = app[t].slack
          /\ pc'[t] = pc[t] /\ mov'[t] = mov[t]
      BY <2>1, <1>0 DEF AppendFrameIn
    <3>2. QED BY <2>0, <3>1, <1>f DEF Frame, InSplit, Moving, AppendPCs, SplitPCs, MovePCs,
                 Placed, NoAppend, NoSplit, NoMove, AppendFrameIn, SplitFrameIn, MoveFrameIn
  <2>2. CASE app[t].back # "spread" /\ ReturnAppend(t) /\ UNCHANGED mov
    BY <2>0, <2>2, <1>0, <1>f DEF ReturnAppend, Frame, InSplit, Moving, From, Goto, AppendPCs,
       SplitPCs, MovePCs, Placed, NoAppend, NoSplit, NoMove, AppendFrameIn, SplitFrameIn,
       MoveFrameIn
  <2>3. CASE app[t].back = "spread" /\ app' = [app EXCEPT ![t] = NoAppend] /\ Finish(t)
    BY <2>0, <2>3, <1>0, <1>f DEF Finish, Frame, InSplit, Moving, From, Goto, AppendPCs,
       SplitPCs, MovePCs, Placed, NoAppend, NoSplit, NoMove, AppendFrameIn, SplitFrameIn,
       MoveFrameIn
  <2>4. QED BY <1>8, <2>1, <2>2, <2>3 DEF AppendMiss
<1>9. CASE AppendBranch(t)
  BY <1>9, <1>0, <1>f DEF AppendBranch, Frame, InSplit, Moving, From, Goto, locals, AppendPCs,
     SplitPCs, MovePCs, Placed, NoAppend, NoSplit, AppendFrameIn, SplitFrameIn, MoveFrameIn
<1>10. CASE AppendLook(t)
  BY <1>10, <1>0, <1>f DEF AppendLook, Frame, InSplit, Moving, From, Goto, AppendPCs, SplitPCs,
     MovePCs, Placed, NoAppend, NoSplit, AppendFrameIn, SplitFrameIn, MoveFrameIn
<1>11. CASE AppendCache(t)
  BY <1>11, <1>0, <1>f DEF AppendCache, Frame, InSplit, Moving, From, Goto, ReturnAppend,
     AppendPCs, SplitPCs, MovePCs, Placed, NoAppend, NoSplit, AppendFrameIn, SplitFrameIn,
     MoveFrameIn
<1>12. CASE AppendGet(t)
  BY <1>12, <1>0, <1>f DEF AppendGet, Frame, InSplit, Moving, From, Goto, AppendPCs, SplitPCs,
     MovePCs, Placed, NoAppend, NoSplit, AppendFrameIn, SplitFrameIn, MoveFrameIn
<1>13. CASE AppendPut(t)
  BY <1>13, <1>0, <1>f DEF AppendPut, Frame, InSplit, Moving, From, Goto, locals, AppendPCs,
     SplitPCs, MovePCs, Placed, NoAppend, NoSplit, AppendFrameIn, SplitFrameIn, MoveFrameIn
<1>13a. CASE AppendCount(t)
  BY <1>13a, <1>0, <1>f DEF AppendCount, Frame, InSplit, Moving, From, Goto, locals, AppendPCs,
     SplitPCs, MovePCs, Placed, NoAppend, NoSplit, AppendFrameIn, SplitFrameIn, MoveFrameIn
<1>14. CASE AppendGrow(t)
  <2>0. pc[t] = "grow" /\ mov'[t] = mov[t] /\ app[t].at # None
    BY <1>14, <1>f DEF AppendGrow, Frame, InSplit, Moving, From, Goto, AppendPCs, SplitPCs,
       MovePCs, Placed, NoAppend, NoSplit, NoMove, AppendFrameIn, SplitFrameIn, MoveFrameIn
  <2>1. CASE ReturnAppend(t) /\ UNCHANGED spl
    BY <2>0, <2>1, <1>0, <1>f DEF ReturnAppend, Frame, InSplit, Moving, From, Goto, AppendPCs,
       SplitPCs, MovePCs, Placed, NoAppend, NoSplit, NoMove, AppendFrameIn, SplitFrameIn,
       MoveFrameIn
  <2>2. CASE Goto(t, "enqueue") /\ UNCHANGED <<app, spl>>
    BY <2>0, <2>2, <1>0, <1>f DEF Frame, InSplit, Moving, From, Goto, AppendPCs, SplitPCs,
       MovePCs, Placed, NoAppend, NoSplit, NoMove, AppendFrameIn, SplitFrameIn, MoveFrameIn
  <2>3. CASE app[t].slack # 0 /\ CallSplit(t, app[t].at, "spread")
    <3>1. app[t].back = "spread" /\ mov[t].copy # None
      BY <2>3, <1>f DEF Frame, Moving
    <3>2. /\ pc'[t] = "split" /\ app'[t] = NoAppend
          /\ spl'[t].of = app[t].at /\ spl'[t].k = 1
      BY <2>3, <1>0 DEF CallSplit, Goto, NoSplit
    <3>3. QED BY <2>0, <3>1, <3>2 DEF Frame, InSplit, Moving, AppendPCs, SplitPCs, MovePCs,
                 Placed, NoAppend, NoSplit, NoMove, AppendFrameIn, SplitFrameIn, MoveFrameIn
  <2>4. QED BY <1>14, <2>1, <2>2, <2>3 DEF AppendGrow
<1>15. CASE AppendEnqueue(t)
  BY <1>15, <1>0, <1>f DEF AppendEnqueue, Frame, InSplit, Moving, From, Goto, ReturnAppend,
     AppendPCs, SplitPCs, MovePCs, Placed, NoAppend, NoSplit, AppendFrameIn, SplitFrameIn,
     MoveFrameIn
<1>16. CASE SplitRead(t)
  <2>0. pc[t] = "split" /\ mov'[t] = mov[t] /\ app'[t] = app[t]
    BY <1>16 DEF SplitRead, From
  <2>1. pc'[t] \in {"gclock", "optout", "part"}
    BY <1>16, <1>0 DEF SplitRead, Goto
  <2>2. spl'[t].of = spl[t].of /\ spl'[t].k = spl[t].k /\ spl'[t].caller = spl[t].caller
    <3>1. (\E Z : spl' = [spl EXCEPT ![t].todo = Z])
          \/ (\E p, Z, i : spl' = [spl EXCEPT ![t] = [@ EXCEPT !.parts = p, !.todo = Z, !.into = i]])
      BY <1>16 DEF SplitRead
    <3>2. CASE \E Z : spl' = [spl EXCEPT ![t].todo = Z]
      BY <3>2, <1>0 DEF SplitFrameIn
    <3>3. CASE \E p, Z, i : spl' = [spl EXCEPT ![t] = [@ EXCEPT !.parts = p, !.todo = Z, !.into = i]]
      <4>1. PICK p, Z, i : spl' = [spl EXCEPT ![t] = [@ EXCEPT !.parts = p, !.todo = Z, !.into = i]]
        BY <3>3
      <4>2. spl'[t] = [spl[t] EXCEPT !.parts = p, !.todo = Z, !.into = i]
        BY <4>1, <1>0
      <4>3. QED BY <4>2, <1>0 DEF SplitFrameIn
    <3>4. QED BY <3>1, <3>2, <3>3
  <2>3. QED BY <2>0, <2>1, <2>2, <1>f DEF Frame, InSplit, Moving, AppendPCs, SplitPCs, MovePCs,
               Placed, NoAppend, NoSplit, NoMove, AppendFrameIn, SplitFrameIn, MoveFrameIn
<1>17. CASE SplitGcPut(t)
  BY <1>17, <1>0, <1>f DEF SplitGcPut, Frame, InSplit, Moving, From, Goto, locals, AppendPCs,
     SplitPCs, MovePCs, Placed, NoAppend, NoSplit, AppendFrameIn, SplitFrameIn, MoveFrameIn
<1>18. CASE SplitGcErase(t)
  BY <1>18, <1>0, <1>f DEF SplitGcErase, Frame, InSplit, Moving, From, Goto, locals, AppendPCs,
     SplitPCs, MovePCs, Placed, NoAppend, NoSplit, AppendFrameIn, SplitFrameIn, MoveFrameIn
<1>19. CASE SplitGcFlush(t)
  BY <1>19, <1>0, <1>f DEF SplitGcFlush, Frame, InSplit, Moving, From, Goto, locals, AppendPCs,
     SplitPCs, MovePCs, Placed, NoAppend, NoSplit, AppendFrameIn, SplitFrameIn, MoveFrameIn
<1>20. CASE SplitGcNormal(t)
  BY <1>20, <1>0, <1>f DEF SplitGcNormal, Frame, InSplit, Moving, From, Goto, ReturnSplit,
     AppendPCs, SplitPCs, MovePCs, Placed, NoAppend, NoSplit, AppendFrameIn, SplitFrameIn,
     MoveFrameIn
<1>21. CASE SplitOptOut(t)
  <2>0. pc[t] = "optout" /\ mov'[t] = mov[t] /\ app'[t] = app[t] /\ pc'[t] \in {"optout", "optnormal"}
    BY <1>21, <1>0 DEF SplitOptOut, From, Goto
  <2>1. spl'[t] = [spl[t] EXCEPT !.todo = spl'[t].todo]
    <3>1. spl' = spl \/ \E Z : spl' = [spl EXCEPT ![t].todo = Z]
      BY <1>21 DEF SplitOptOut
    <3>2. QED BY <3>1, <1>0 DEF SplitFrameIn
  <2>2. spl'[t].of = spl[t].of /\ spl'[t].k = spl[t].k /\ spl'[t].caller = spl[t].caller
    BY <2>1, <1>0 DEF SplitFrameIn
  <2>3. QED BY <2>0, <2>2, <1>f DEF Frame, InSplit, Moving, AppendPCs, SplitPCs, MovePCs,
               Placed, NoAppend, NoSplit, NoMove, AppendFrameIn, SplitFrameIn, MoveFrameIn
<1>22. CASE SplitOptNormal(t)
  BY <1>22, <1>0, <1>f DEF SplitOptNormal, Frame, InSplit, Moving, From, Goto, locals,
     AppendPCs, SplitPCs, MovePCs, Placed, NoAppend, NoSplit, AppendFrameIn, SplitFrameIn,
     MoveFrameIn
<1>23. CASE SplitOptCollect(t)
  BY <1>23, <1>0, <1>f DEF SplitOptCollect, Frame, InSplit, Moving, From, Goto, AppendPCs,
     SplitPCs, MovePCs, Placed, NoAppend, NoSplit, AppendFrameIn, SplitFrameIn, MoveFrameIn
<1>24. CASE SplitOptPut(t)
  BY <1>24, <1>0, <1>f DEF SplitOptPut, Frame, InSplit, Moving, From, Goto, locals, AppendPCs,
     SplitPCs, MovePCs, Placed, NoAppend, NoSplit, AppendFrameIn, SplitFrameIn, MoveFrameIn
<1>25. CASE SplitOptSize(t)
  BY <1>25, <1>0, <1>f DEF SplitOptSize, Frame, InSplit, Moving, From, Goto, ReturnSplit,
     AppendPCs, SplitPCs, MovePCs, Placed, NoAppend, NoSplit, AppendFrameIn, SplitFrameIn,
     MoveFrameIn
<1>26. CASE SplitPart(t)
  <2>0. pc[t] = "part" /\ mov'[t] = mov[t] /\ app'[t] = app[t] /\ spl[t].k \in 1..2
    BY <1>26, <1>0 DEF SplitPart, From, SplitFrameIn
  <2>1. CASE spl[t].into[spl[t].k] # None /\ Goto(t, "partsize") /\ UNCHANGED spl
    BY <2>0, <2>1, <1>0, <1>f DEF Frame, InSplit, Moving, From, Goto, AppendPCs, SplitPCs,
       MovePCs, Placed, NoAppend, NoSplit, NoMove, AppendFrameIn, SplitFrameIn, MoveFrameIn
  <2>2. CASE Goto(t, "publish") /\ \E n \in Heads : spl' = [spl EXCEPT ![t].into[spl[t].k] = n]
    <3>1. PICK n \in Heads : spl' = [spl EXCEPT ![t].into[spl[t].k] = n]
      BY <2>2
    <3>2. spl[t].into \in [1..2 -> Heads \cup {None}]
      BY <1>0 DEF SplitFrameIn
    <3>3. /\ spl'[t].of = spl[t].of /\ spl'[t].k = spl[t].k /\ spl'[t].caller = spl[t].caller
          /\ spl'[t].into = [spl[t].into EXCEPT ![spl[t].k] = n]
      BY <3>1, <1>0 DEF SplitFrameIn
    <3>4. spl'[t].into[spl'[t].k] # None /\ (spl[t].k = 2 => spl'[t].into[1] # None)
      BY <2>0, <3>2, <3>3, <1>n, <1>f DEF Frame
    <3>5. pc'[t] = "publish"
      BY <2>2, <1>0 DEF Goto
    <3>6. QED BY <2>0, <3>3, <3>4, <3>5, <1>f DEF Frame, InSplit, Moving, AppendPCs, SplitPCs,
                 MovePCs, Placed, NoAppend, NoSplit, NoMove, AppendFrameIn, SplitFrameIn,
                 MoveFrameIn
  <2>3. QED BY <1>26, <2>1, <2>2 DEF SplitPart
<1>27. CASE SplitPublish(t)
  BY <1>27, <1>0, <1>f DEF SplitPublish, Frame, InSplit, Moving, From, Goto, locals, AppendPCs,
     SplitPCs, MovePCs, Placed, NoAppend, NoSplit, AppendFrameIn, SplitFrameIn, MoveFrameIn
<1>28. CASE SplitPartSize(t)
  <2>0. pc[t] = "partsize" /\ mov'[t] = mov[t] /\ app'[t] = app[t] /\ spl[t].k \in 1..2
        /\ spl[t].into[spl[t].k] # None /\ (spl[t].k = 2 => spl[t].into[1] # None)
    BY <1>28, <1>0, <1>f DEF SplitPartSize, From, SplitFrameIn, Frame
  <2>1. CASE spl[t].k = 1 /\ spl' = [spl EXCEPT ![t].k = 2] /\ Goto(t, "part")
    <3>1. spl'[t].of = spl[t].of /\ spl'[t].caller = spl[t].caller /\ spl'[t].into = spl[t].into
      BY <2>1, <1>0 DEF SplitFrameIn
    <3>2. pc'[t] = "part"
      BY <2>1, <1>0 DEF Goto
    <3>3. QED BY <2>0, <2>1, <3>1, <3>2, <1>f DEF Frame, InSplit, Moving, AppendPCs, SplitPCs,
                 MovePCs, Placed, NoAppend, NoSplit, NoMove, AppendFrameIn, SplitFrameIn,
                 MoveFrameIn
  <2>2. CASE spl[t].k = 2 /\ (\E Z : spl' = [spl EXCEPT ![t].todo = Z]) /\ Goto(t, "scan")
    <3>1. spl'[t].of = spl[t].of /\ spl'[t].caller = spl[t].caller /\ spl'[t].into = spl[t].into
      BY <2>2, <1>0 DEF SplitFrameIn
    <3>2. pc'[t] = "scan"
      BY <2>2, <1>0 DEF Goto
    <3>3. QED BY <2>0, <2>2, <3>1, <3>2, <1>f DEF Frame, InSplit, Moving, AppendPCs, SplitPCs,
                 MovePCs, Placed, NoAppend, NoSplit, NoMove, AppendFrameIn, SplitFrameIn,
                 MoveFrameIn
  <2>3. QED BY <1>28, <2>1, <2>2 DEF SplitPartSize
<1>29. CASE SplitScan(t)
  <2>0. pc[t] = "scan" /\ mov'[t] = mov[t] /\ app'[t] = app[t] /\ pc'[t] \in {"scan", "collect1"}
    BY <1>29, <1>0 DEF SplitScan, From, Goto
  <2>1. \E Z : spl' = [spl EXCEPT ![t].todo = Z]
    BY <1>29 DEF SplitScan
  <2>2. spl'[t].of = spl[t].of /\ spl'[t].caller = spl[t].caller /\ spl'[t].into = spl[t].into
    BY <2>1, <1>0 DEF SplitFrameIn
  <2>3. QED BY <2>0, <2>2, <1>f DEF Frame, InSplit, Moving, AppendPCs, SplitPCs, MovePCs,
               Placed, NoAppend, NoSplit, NoMove, AppendFrameIn, SplitFrameIn, MoveFrameIn
<1>30. CASE SplitUnindex(t)
  BY <1>30, <1>0, <1>f DEF SplitUnindex, Frame, InSplit, Moving, From, Goto, locals, AppendPCs,
     SplitPCs, MovePCs, Placed, NoAppend, NoSplit, AppendFrameIn, SplitFrameIn, MoveFrameIn
<1>31. CASE SplitRetire(t)
  BY <1>31, <1>0, <1>f DEF SplitRetire, Frame, InSplit, Moving, From, Goto, locals, AppendPCs,
     SplitPCs, MovePCs, Placed, NoAppend, NoSplit, AppendFrameIn, SplitFrameIn, MoveFrameIn
<1>32. CASE SplitErase(t)
  BY <1>32, <1>0, <1>f DEF SplitErase, Frame, InSplit, Moving, From, Goto, ReturnSplit,
     AppendPCs, SplitPCs, MovePCs, Placed, NoAppend, NoSplit, AppendFrameIn, SplitFrameIn,
     MoveFrameIn
<1>33. CASE SplitCollect(t, "collect1", "flush1")
  BY <1>33, <1>0, <1>f DEF SplitCollect, Frame, InSplit, Moving, From, Goto, AppendPCs,
     SplitPCs, MovePCs, Placed, NoAppend, NoSplit, AppendFrameIn, SplitFrameIn, MoveFrameIn
<1>34. CASE SplitCollect(t, "collect2", "flush2")
  BY <1>34, <1>0, <1>f DEF SplitCollect, Frame, InSplit, Moving, From, Goto, AppendPCs,
     SplitPCs, MovePCs, Placed, NoAppend, NoSplit, AppendFrameIn, SplitFrameIn, MoveFrameIn
<1>35. CASE SplitFlush(t, "flush1", "lock")
  <2>0. pc[t] = "flush1" /\ mov'[t] = mov[t] /\ app[t] = NoAppend
    BY <1>35, <1>f DEF SplitFlush, Frame, InSplit, Moving, From, Goto, AppendPCs, SplitPCs,
       MovePCs, Placed, NoAppend, NoSplit, NoMove, AppendFrameIn, SplitFrameIn, MoveFrameIn
  <2>1. spl'[t].of = spl[t].of /\ spl'[t].caller = spl[t].caller /\ spl'[t].into = spl[t].into
    <3>1. \/ spl' = spl
          \/ \E Z, p : spl' = [spl EXCEPT ![t].todo = Z, ![t].flush = p]
          \/ \E k \in 1..2 : spl' = [spl EXCEPT ![t].flush[k] = {}]
      BY <1>35 DEF SplitFlush
    <3>2. CASE \E Z, p : spl' = [spl EXCEPT ![t].todo = Z, ![t].flush = p]
      <4>1. PICK Z, p : spl' = [spl EXCEPT ![t].todo = Z, ![t].flush = p]
        BY <3>2
      <4>2. QED BY <4>1, <1>0 DEF SplitFrameIn
    <3>3. CASE \E k \in 1..2 : spl' = [spl EXCEPT ![t].flush[k] = {}]
      <4>1. PICK k \in 1..2 : spl' = [spl EXCEPT ![t].flush[k] = {}]
        BY <3>3
      <4>2. QED BY <4>1, <1>0 DEF SplitFrameIn
    <3>4. QED BY <3>1, <3>2, <3>3
  <2>2. CASE UNCHANGED <<pc, app>>
    BY <2>0, <2>1, <2>2, <1>f DEF Frame, InSplit, Moving, AppendPCs, SplitPCs, MovePCs, Placed,
       NoAppend, NoSplit, NoMove, AppendFrameIn, SplitFrameIn, MoveFrameIn
  <2>3. CASE \E k \in 1..2 : CallAppend(t, spl[t].into[k], spl[t].flush[k], 0, "flush1")
    <3>1. PICK k \in 1..2 : CallAppend(t, spl[t].into[k], spl[t].flush[k], 0, "flush1")
      BY <2>3
    <3>2. spl[t].into[k] # None
      BY <2>0, <1>f DEF Frame, Placed
    <3>3. pc'[t] = "append" /\ app'[t].at = spl[t].into[k] /\ app'[t].slack = 0 /\ app'[t].back = "flush1"
      BY <3>1, <1>0 DEF CallAppend, Goto
    <3>4. QED BY <2>0, <2>1, <3>2, <3>3, <1>f DEF Frame, InSplit, Moving, AppendPCs, SplitPCs,
                 MovePCs, Placed, NoAppend, NoSplit, NoMove, AppendFrameIn, SplitFrameIn,
                 MoveFrameIn
  <2>4. CASE Goto(t, "lock") /\ UNCHANGED app
    <3>1. pc'[t] = "lock" /\ app'[t] = app[t]
      BY <2>4, <1>0 DEF Goto
    <3>2. QED BY <2>0, <2>1, <3>1, <1>f DEF Frame, InSplit, Moving, AppendPCs, SplitPCs,
                 MovePCs, Placed, NoAppend, NoSplit, NoMove, AppendFrameIn, SplitFrameIn,
                 MoveFrameIn
  <2>5. QED BY <1>35, <2>2, <2>3, <2>4 DEF SplitFlush
<1>36. CASE SplitFlush(t, "flush2", "erase")
  <2>0. pc[t] = "flush2" /\ mov'[t] = mov[t] /\ app[t] = NoAppend
    BY <1>36, <1>f DEF SplitFlush, Frame, InSplit, Moving, From, Goto, AppendPCs, SplitPCs,
       MovePCs, Placed, NoAppend, NoSplit, NoMove, AppendFrameIn, SplitFrameIn, MoveFrameIn
  <2>1. spl'[t].of = spl[t].of /\ spl'[t].caller = spl[t].caller /\ spl'[t].into = spl[t].into
    <3>1. \/ spl' = spl
          \/ \E Z, p : spl' = [spl EXCEPT ![t].todo = Z, ![t].flush = p]
          \/ \E k \in 1..2 : spl' = [spl EXCEPT ![t].flush[k] = {}]
      BY <1>36 DEF SplitFlush
    <3>2. CASE \E Z, p : spl' = [spl EXCEPT ![t].todo = Z, ![t].flush = p]
      <4>1. PICK Z, p : spl' = [spl EXCEPT ![t].todo = Z, ![t].flush = p]
        BY <3>2
      <4>2. QED BY <4>1, <1>0 DEF SplitFrameIn
    <3>3. CASE \E k \in 1..2 : spl' = [spl EXCEPT ![t].flush[k] = {}]
      <4>1. PICK k \in 1..2 : spl' = [spl EXCEPT ![t].flush[k] = {}]
        BY <3>3
      <4>2. QED BY <4>1, <1>0 DEF SplitFrameIn
    <3>4. QED BY <3>1, <3>2, <3>3
  <2>2. CASE UNCHANGED <<pc, app>>
    BY <2>0, <2>1, <2>2, <1>f DEF Frame, InSplit, Moving, AppendPCs, SplitPCs, MovePCs, Placed,
       NoAppend, NoSplit, NoMove, AppendFrameIn, SplitFrameIn, MoveFrameIn
  <2>3. CASE \E k \in 1..2 : CallAppend(t, spl[t].into[k], spl[t].flush[k], 0, "flush2")
    <3>1. PICK k \in 1..2 : CallAppend(t, spl[t].into[k], spl[t].flush[k], 0, "flush2")
      BY <2>3
    <3>2. spl[t].into[k] # None
      BY <2>0, <1>f DEF Frame, Placed
    <3>3. pc'[t] = "append" /\ app'[t].at = spl[t].into[k] /\ app'[t].slack = 0 /\ app'[t].back = "flush2"
      BY <3>1, <1>0 DEF CallAppend, Goto
    <3>4. QED BY <2>0, <2>1, <3>2, <3>3, <1>f DEF Frame, InSplit, Moving, AppendPCs, SplitPCs,
                 MovePCs, Placed, NoAppend, NoSplit, NoMove, AppendFrameIn, SplitFrameIn,
                 MoveFrameIn
  <2>4. CASE Goto(t, "erase") /\ UNCHANGED app
    <3>1. pc'[t] = "erase" /\ app'[t] = app[t]
      BY <2>4, <1>0 DEF Goto
    <3>2. QED BY <2>0, <2>1, <3>1, <1>f DEF Frame, InSplit, Moving, AppendPCs, SplitPCs,
                 MovePCs, Placed, NoAppend, NoSplit, NoMove, AppendFrameIn, SplitFrameIn,
                 MoveFrameIn
  <2>5. QED BY <1>36, <2>2, <2>3, <2>4 DEF SplitFlush
<1>37. CASE SplitGcSize(t) \/ SplitShrink(t)
  BY <1>37, <1>0, <1>f DEF SplitGcSize, SplitShrink, Frame, InSplit, Moving, From, Goto, locals,
     AppendPCs, SplitPCs, MovePCs, Placed, NoAppend, NoSplit
<1>38. CASE SplitLock(t, "gclock", "gcsize") \/ SplitLock(t, "lock", "unindex")
  BY <1>38, <1>0, <1>f DEF SplitLock, Frame, InSplit, Moving, From, Goto, locals, AppendPCs,
     SplitPCs, MovePCs, Placed, NoAppend, NoSplit
<1>39. QED
  BY <1>1, <1>2, <1>3, <1>4, <1>4a, <1>13a, <1>5, <1>6, <1>7, <1>8, <1>9, <1>10, <1>11, <1>12, <1>13, <1>14,
     <1>15, <1>16, <1>17, <1>18, <1>19, <1>20, <1>21, <1>22, <1>23, <1>24, <1>25, <1>26, <1>27,
     <1>28, <1>29, <1>30, <1>31, <1>32, <1>33, <1>34, <1>35, <1>36, <1>37, <1>38
  DEF Step, Reassign, ConcurrentAppend, ConcurrentSplit

-----------------------------------------------------------------------------
(* The steps TypedStep leaves out. *)
LEMMA BumpTyped ==
  ASSUME NEW S \in SUBSET Copies, NEW K, Typed(S, K), Frames, NEW t \in Threads, ReassignBump(t),
         LET v == Vid(mov[t].copy) IN <<v, Successor(version[v])>> \in S
  PROVE  Typed(S, K)'
<1>0. /\ version \in [Vectors -> Versions \cup {Tombstone}] /\ pc \in [Threads -> PC]
      /\ mov \in [Threads -> MoveFrameIn(S, K)]
  BY DEF Typed
<1>1. pc' \in [Threads -> PC]
  BY <1>0 DEF ReassignBump, Goto, PC
<1>2. PICK v \in Vectors, n \in Versions :
        /\ <<v, n>> \in S
        /\ mov' = [mov EXCEPT ![t].copy = <<v, n>>]
        /\ version' = [version EXCEPT ![v] = n]
  BY BumpVersion
<1>3. version' \in [Vectors -> Versions \cup {Tombstone}]
  BY <1>0, <1>2
<1>4. mov' \in [Threads -> MoveFrameIn(S, K)]
  BY <1>0, <1>2 DEF MoveFrameIn
<1>5. QED
  BY <1>1, <1>3, <1>4 DEF ReassignBump, Typed, store, marks, pool, locks

(* A deletion changes one version label. *)
LEMMA DeleteTyped ==
  ASSUME NEW S \in SUBSET Copies, NEW K \in SUBSET Heads, Typed(S, K), NEW v \in Vectors, DeleteIndex(v)
  PROVE  Typed(S, K)' /\ pending' = pending /\ v \notin pending
         /\ \A w \in Vectors : version'[w] = IF w = v THEN Tombstone ELSE version[w]
<1>1. version' \in [Vectors -> Versions \cup {Tombstone}]
      /\ \A w \in Vectors : version'[w] = IF w = v THEN Tombstone ELSE version[w]
  BY DEF Typed, DeleteIndex
<1>2. QED BY <1>1 DEF DeleteIndex, Typed, store, marks, pool, locks, locals

(* Versions are changed by the increment and the deletion alone. *)
LEMMA OtherSteps ==
  ASSUME NEW t \in Threads, AddIndex(t) \/ (Step(t) /\ ~ReassignBump(t))
  PROVE  version' = version /\ pending' \subseteq pending
<1>1. AddIndex(t) => version' = version /\ pending' \subseteq pending
  BY DEF AddIndex
<1>2. Reassign(t) /\ ~ReassignBump(t) => UNCHANGED labels
  BY DEF Reassign, ReassignSelect, ReassignCheck, ReassignSpread, labels
<1>3. InsertNext(t) \/ TakeJob(t) => UNCHANGED labels
  BY DEF InsertNext, TakeJob
<1>4. ConcurrentAppend(t) => UNCHANGED labels
  BY DEF ConcurrentAppend, AppendEnter, AppendMiss, AppendBranch, AppendLook, AppendCache,
         AppendGet, AppendPut, AppendCount, AppendGrow, AppendEnqueue
<1>5. ConcurrentSplit(t) => UNCHANGED labels
  BY DEF ConcurrentSplit, SplitLock, SplitRead, SplitGcSize, SplitGcPut, SplitGcErase, SplitGcFlush, SplitGcNormal,
         SplitOptOut, SplitOptNormal, SplitOptCollect, SplitOptPut, SplitOptSize, SplitPart,
         SplitPublish, SplitPartSize, SplitScan, SplitCollect, SplitFlush, SplitUnindex,
         SplitShrink, SplitRetire, SplitErase
<1>6. QED BY <1>1, <1>2, <1>3, <1>4, <1>5 DEF Step, labels

(* More copies and more heads to choose from. *)
LEMMA TypedMonotone ==
  ASSUME NEW S, NEW S2, S \subseteq S2, NEW K, NEW K2, K \subseteq K2, Typed(S, K)
  PROVE  Typed(S2, K2)
<1>1. AppendFrameIn(S, K) \subseteq AppendFrameIn(S2, K2)
  BY DEF AppendFrameIn
<1>2. MoveFrameIn(S, K) \subseteq MoveFrameIn(S2, K2)
  BY DEF MoveFrameIn
<1>3. SplitFrameIn(S, K) \subseteq SplitFrameIn(S2, K2)
  BY DEF SplitFrameIn
<1>4. JobIn(S, K) \subseteq JobIn(S2, K2)
  BY DEF JobIn
<1>5. jobs \in Seq(JobIn(S2, K2))
  BY <1>4 DEF Typed
<1>6. /\ app \in [Threads -> AppendFrameIn(S2, K2)] /\ mov \in [Threads -> MoveFrameIn(S2, K2)]
      /\ spl \in [Threads -> SplitFrameIn(S2, K2)]
  BY <1>1, <1>2, <1>3 DEF Typed
<1>7. posting \in [Heads -> SUBSET S2] /\ cache \in [Heads -> SUBSET S2]
  BY DEF Typed
<1>8. QED BY <1>5, <1>6, <1>7 DEF Typed

-----------------------------------------------------------------------------
(* The copies whose version has been reached, and the heads that have been *)
(* published: all that threads, jobs, caches and postings ever hold.       *)
Reached   == {c \in Copies : version[Vid(c)] = Tombstone \/ Ver(c) <= version[Vid(c)]}
Published == {h \in Heads : index[h] \in {"live", "deleted"}}

(* The thread that is adding a head holds m_dataAddLock, and the head is   *)
(* not in the index yet.                                                   *)
Publishing ==
  \A t \in Threads : pc[t] = "publish" => /\ addLock = t
                                         /\ spl[t].into[spl[t].k] \in Heads
                                         /\ index[spl[t].into[spl[t].k]] = "adding"

(* A head is out of the index when it is marked as deleted, and stays out. *)
Retiring ==
  /\ \A h \in Heads : status[h] = "deleted" => index[h] \in {"absent", "deleted"}
  /\ \A t \in Threads : pc[t] \in {"shrink", "retire"} => index[spl[t].of] = "deleted"

Safe ==
  /\ Typed(Reached, Published)
  /\ Frames
  /\ PendingVersion
  /\ IntoIn(Published)
  /\ Publishing
  /\ Retiring

(* Init => IInv. *)
LEMMA InitSafe == Init => Safe
<1> SUFFICES ASSUME Init PROVE Safe
  OBVIOUS
<1>1. \A v \in Vectors : <<v, 0>> \in Reached
  <2>1. 0 \in Versions
    BY UpdateAssumption DEF Versions
  <2>2. QED BY <2>1 DEF Init, Reached, Copies, Vid, Ver
<1>2. PICK S, K : S = Reached /\ K = Published
  OBVIOUS
<1>3. S \in SUBSET Copies
  BY <1>2 DEF Reached
<1>4. Typed(S, K) /\ Frames /\ PendingVersion
  BY <1>1, <1>2, <1>3, InitTyped
<1>5. IntoIn(Published)
  BY DEF Init, IntoIn, NoSplit
<1>6. Publishing /\ Retiring
  BY DEF Init, Publishing, Retiring
<1>7. QED BY <1>2, <1>4, <1>5, <1>6 DEF Safe

(* A step that adds, publishes and retires no head. *)
Indexing(t) == SplitPart(t) \/ SplitPublish(t) \/ SplitUnindex(t) \/ SplitShrink(t) \/ SplitRetire(t)
NoIndexing(t) ==
  /\ UNCHANGED <<index, addLock>>
  /\ \A h \in Heads : status'[h] = "deleted" => status[h] = "deleted"
  /\ pc[t] # "publish" /\ pc'[t] \notin {"publish", "shrink", "retire"}
  /\ \A k \in 1..2 : \/ spl'[t].into[k] \in {spl[t].into[k], None}
                     \/ pc[t] = "split" /\ spl'[t].into[k] = spl[t].of

(* All the other steps leave the index and the add lock alone. *)
LEMMA NoIndexingStep ==
  ASSUME NEW S, NEW K, Typed(S, K), Frames, NEW t \in Threads, AddIndex(t) \/ Step(t), ~Indexing(t)
  PROVE  NoIndexing(t)
<1>0. /\ pc \in [Threads -> PC] /\ app \in [Threads -> AppendFrameIn(S, K)]
      /\ spl \in [Threads -> SplitFrameIn(S, K)] /\ status \in [Heads -> Status]
  BY DEF Typed
<1>f. Frame(t)
  BY DEF Frames
<1>1. CASE AddIndex(t)
  BY <1>1, <1>0 DEF AddIndex, NoIndexing, From, Goto, AppendFrameIn, SplitFrameIn, marks, locks
<1>2. CASE InsertNext(t)
  BY <1>2, <1>0 DEF InsertNext, NoIndexing, CallAppend, Finish, From, Goto, AppendFrameIn,
     SplitFrameIn, marks, locks
<1>3. CASE TakeJob(t)
  <2>1. pc[t] = "idle" /\ pc'[t] \in {"append", "split", "reassign"} /\ UNCHANGED <<status, index, addLock>>
    BY <1>3, <1>0 DEF TakeJob, CallAppend, CallSplit, From, Goto, marks, locks
  <2>2. \/ spl' = spl
        \/ \E h, c : spl' = [spl EXCEPT ![t] = [NoSplit EXCEPT !.of = h, !.caller = c]]
    BY <1>3 DEF TakeJob, CallSplit
  <2>3. \A k \in 1..2 : spl'[t].into[k] \in {spl[t].into[k], None}
    <3>1. CASE spl' = spl
      BY <3>1
    <3>2. CASE \E h, c : spl' = [spl EXCEPT ![t] = [NoSplit EXCEPT !.of = h, !.caller = c]]
      <4>1. PICK h, c : spl' = [spl EXCEPT ![t] = [NoSplit EXCEPT !.of = h, !.caller = c]]
        BY <3>2
      <4>2. spl'[t] = [NoSplit EXCEPT !.of = h, !.caller = c]
        BY <4>1, <1>0
      <4>3. spl'[t].into = [k \in 1..2 |-> None]
        BY <4>2 DEF NoSplit
      <4>4. QED BY <4>3
    <3>3. QED BY <2>2, <3>1, <3>2
  <2>4. QED BY <2>1, <2>3 DEF NoIndexing
<1>4. CASE ReassignSelect(t)
  BY <1>4, <1>0 DEF ReassignSelect, NoIndexing, Finish, From, Goto, AppendFrameIn, SplitFrameIn,
     marks, locks
<1>4a. CASE ReassignCheck(t)
  BY <1>4a, <1>0 DEF ReassignCheck, NoIndexing, From, Goto, marks, locks, locals
<1>5. CASE ReassignBump(t)
  BY <1>5, <1>0 DEF ReassignBump, NoIndexing, From, Goto, AppendFrameIn, SplitFrameIn, marks,
     locks
<1>6. CASE ReassignSpread(t)
  BY <1>6, <1>0 DEF ReassignSpread, NoIndexing, CallAppend, Finish, From, Goto, AppendFrameIn,
     SplitFrameIn, marks, locks
<1>7. CASE AppendEnter(t)
  BY <1>7, <1>0 DEF AppendEnter, NoIndexing, From, Goto, AppendFrameIn, SplitFrameIn, marks,
     locals
<1>8. CASE AppendMiss(t)
  BY <1>8, <1>0 DEF AppendMiss, NoIndexing, ReturnAppend, Finish, From, Goto, AppendFrameIn,
     SplitFrameIn, marks, locks
<1>9. CASE AppendBranch(t)
  BY <1>9, <1>0 DEF AppendBranch, NoIndexing, From, Goto, AppendFrameIn, SplitFrameIn, marks,
     locks, locals
<1>10. CASE AppendLook(t)
  BY <1>10, <1>0 DEF AppendLook, NoIndexing, From, Goto, AppendFrameIn, SplitFrameIn, marks,
     locks
<1>11. CASE AppendCache(t)
  BY <1>11, <1>0 DEF AppendCache, NoIndexing, ReturnAppend, From, Goto, AppendFrameIn,
     SplitFrameIn
<1>12. CASE AppendGet(t)
  BY <1>12, <1>0 DEF AppendGet, NoIndexing, From, Goto, AppendFrameIn, SplitFrameIn, marks,
     locks
<1>13. CASE AppendPut(t)
  BY <1>13, <1>0 DEF AppendPut, NoIndexing, From, Goto, AppendFrameIn, SplitFrameIn, marks,
     locks, locals
<1>13a. CASE AppendCount(t)
  BY <1>13a, <1>0 DEF AppendCount, NoIndexing, From, Goto, marks, locks, locals
<1>14. CASE AppendGrow(t)
  <2>1. /\ pc[t] = "grow" /\ pc'[t] \in {"enqueue", "split", app[t].back} /\ UNCHANGED <<index, addLock>>
        /\ status' = status \/ status' = [status EXCEPT ![app[t].at] = "splitting"]
    BY <1>14, <1>0 DEF AppendGrow, ReturnAppend, CallSplit, From, Goto
  <2>2. \/ spl' = spl
        \/ \E h, c : spl' = [spl EXCEPT ![t] = [NoSplit EXCEPT !.of = h, !.caller = c]]
    BY <1>14 DEF AppendGrow, CallSplit
  <2>3. \A k \in 1..2 : spl'[t].into[k] \in {spl[t].into[k], None}
    <3>1. CASE spl' = spl
      BY <3>1
    <3>2. CASE \E h, c : spl' = [spl EXCEPT ![t] = [NoSplit EXCEPT !.of = h, !.caller = c]]
      <4>1. PICK h, c : spl' = [spl EXCEPT ![t] = [NoSplit EXCEPT !.of = h, !.caller = c]]
        BY <3>2
      <4>2. spl'[t] = [NoSplit EXCEPT !.of = h, !.caller = c]
        BY <4>1, <1>0
      <4>3. spl'[t].into = [k \in 1..2 |-> None]
        BY <4>2 DEF NoSplit
      <4>4. QED BY <4>3
    <3>3. QED BY <2>2, <3>1, <3>2
  <2>4. \A h \in Heads : status'[h] = "deleted" => status[h] = "deleted"
    BY <2>1, <1>0
  <2>5. app[t].back \notin {"publish", "shrink", "retire"}
    BY <1>0 DEF AppendFrameIn
  <2>6. QED BY <2>1, <2>3, <2>4, <2>5 DEF NoIndexing
<1>15. CASE AppendEnqueue(t)
  BY <1>15, <1>0 DEF AppendEnqueue, NoIndexing, ReturnAppend, From, Goto, AppendFrameIn,
     SplitFrameIn, marks, locks
<1>16. CASE SplitRead(t)
  <2>1. pc[t] = "split" /\ pc'[t] \in {"gclock", "optout", "part"} /\ UNCHANGED <<status, index, addLock>>
    BY <1>16, <1>0 DEF SplitRead, From, Goto, marks, locks
  <2> DEFINE live == CurrentOf(posting[spl[t].of])
             todo(p, same) == IF EnableOptSplit /\ same # 0 /\ Uneven(p) THEN p[Small(p)] ELSE {}
             into(same)    == [k \in 1..2 |-> IF k = same THEN spl[t].of ELSE None]
             frame(p, same) == [spl[t] EXCEPT !.parts = p, !.todo = todo(p, same), !.into = into(same)]
             Parted == \E p \in Bipartitions(live), same \in IF SameHead THEN 0..2 ELSE {0} :
                         spl' = [spl EXCEPT ![t] = frame(p, same)]
  <2>2. \/ spl' = [spl EXCEPT ![t].todo = live]
        \/ \E c \in live : spl' = [spl EXCEPT ![t].todo = {c}]
        \/ Parted
    BY <1>16 DEF SplitRead
  <2>3. CASE \E Z : spl' = [spl EXCEPT ![t].todo = Z]
    <3>1. \A k \in 1..2 : spl'[t].into[k] = spl[t].into[k]
      BY <2>3, <1>0 DEF SplitFrameIn
    <3>2. QED BY <2>1, <3>1 DEF NoIndexing
  <2>4. CASE Parted
    <3> HIDE DEF todo, into, frame
    <3>1. PICK p, same : spl' = [spl EXCEPT ![t] = frame(p, same)]
      BY <2>4
    <3>2. spl'[t] = frame(p, same)
      BY <3>1, <1>0
    <3>3. spl'[t].into = into(same)
      BY <3>2, <1>0 DEF SplitFrameIn, frame
    <3>4. \A k \in 1..2 : into(same)[k] \in {spl[t].of, None}
      BY DEF into
    <3>5. QED BY <2>1, <3>3, <3>4 DEF NoIndexing
  <2> HIDE DEF live, Parted
  <2>5. QED BY <2>2, <2>3, <2>4
<1>17. CASE SplitGcPut(t)
  BY <1>17, <1>0 DEF SplitGcPut, NoIndexing, From, Goto, AppendFrameIn, SplitFrameIn, marks,
     locks, locals
<1>18. CASE SplitGcErase(t)
  BY <1>18, <1>0 DEF SplitGcErase, NoIndexing, From, Goto, AppendFrameIn, SplitFrameIn, marks,
     locks, locals
<1>19. CASE SplitGcFlush(t)
  BY <1>19, <1>0 DEF SplitGcFlush, NoIndexing, From, Goto, AppendFrameIn, SplitFrameIn, locks,
     locals
<1>20. CASE SplitGcNormal(t)
  BY <1>20, <1>0 DEF SplitGcNormal, NoIndexing, ReturnSplit, NoSplit, From, Goto, AppendFrameIn,
     SplitFrameIn, locks
<1>21. CASE SplitOptOut(t)
  BY <1>21, <1>0 DEF SplitOptOut, NoIndexing, From, Goto, AppendFrameIn, SplitFrameIn, marks,
     locks
<1>22. CASE SplitOptNormal(t)
  BY <1>22, <1>0 DEF SplitOptNormal, NoIndexing, From, Goto, AppendFrameIn, SplitFrameIn, locks,
     locals
<1>23. CASE SplitOptCollect(t)
  BY <1>23, <1>0 DEF SplitOptCollect, NoIndexing, From, Goto, AppendFrameIn, SplitFrameIn, locks
<1>24. CASE SplitOptPut(t)
  BY <1>24, <1>0 DEF SplitOptPut, NoIndexing, From, Goto, AppendFrameIn, SplitFrameIn, marks,
     locks, locals
<1>25. CASE SplitOptSize(t)
  BY <1>25, <1>0 DEF SplitOptSize, NoIndexing, ReturnSplit, NoSplit, From, Goto, AppendFrameIn,
     SplitFrameIn, marks, locks
<1>26. CASE SplitPartSize(t)
  <2>1. /\ pc[t] = "partsize" /\ pc'[t] \in {"part", "scan"}
        /\ UNCHANGED <<status, index, addLock>>
    BY <1>26, <1>0 DEF SplitPartSize, From, Goto, marks, locks
  <2>2. \E Z : \/ spl' = [spl EXCEPT ![t].k = Z]
              \/ spl' = [spl EXCEPT ![t].todo = Z]
    BY <1>26 DEF SplitPartSize
  <2>3. spl'[t].into = spl[t].into
    BY <2>2, <1>0 DEF SplitFrameIn
  <2>4. QED BY <2>1, <2>3 DEF NoIndexing
<1>27. CASE SplitScan(t)
  BY <1>27, <1>0 DEF SplitScan, NoIndexing, From, Goto, AppendFrameIn, SplitFrameIn, marks,
     locks
<1>28. CASE SplitErase(t)
  BY <1>28, <1>0 DEF SplitErase, NoIndexing, ReturnSplit, NoSplit, From, Goto, AppendFrameIn,
     SplitFrameIn, marks, locks
<1>29. ASSUME NEW from \in {"collect1", "collect2"}, NEW to \in {"flush1", "flush2"}, SplitCollect(t, from, to) PROVE NoIndexing(t)
  BY <1>29, <1>0 DEF SplitCollect, NoIndexing, CallAppend, From, Goto, SplitFrameIn, marks,
     locks
<1>30. ASSUME NEW from \in {"flush1", "flush2"}, NEW to \in {"lock", "erase"}, SplitFlush(t, from, to) PROVE NoIndexing(t)
  <2>1. pc[t] = from /\ pc'[t] \in {from, to, "append"} /\ UNCHANGED <<status, index, addLock>>
    BY <1>30, <1>0 DEF SplitFlush, CallAppend, From, Goto, marks, locks
  <2>2. \/ spl' = spl
        \/ \E Z, p : spl' = [spl EXCEPT ![t].todo = Z, ![t].flush = p]
        \/ \E k \in 1..2 : spl' = [spl EXCEPT ![t].flush[k] = {}]
    BY <1>30 DEF SplitFlush
  <2>3. CASE \E Z, p : spl' = [spl EXCEPT ![t].todo = Z, ![t].flush = p]
    <3>1. PICK Z, p : spl' = [spl EXCEPT ![t].todo = Z, ![t].flush = p]
      BY <2>3
    <3>2. spl'[t].into = spl[t].into
      BY <3>1, <1>0 DEF SplitFrameIn
    <3>3. QED BY <2>1, <3>2 DEF NoIndexing
  <2>4. CASE \E k \in 1..2 : spl' = [spl EXCEPT ![t].flush[k] = {}]
    <3>1. PICK k \in 1..2 : spl' = [spl EXCEPT ![t].flush[k] = {}]
      BY <2>4
    <3>2. spl'[t].into = spl[t].into
      BY <3>1, <1>0 DEF SplitFrameIn
    <3>3. QED BY <2>1, <3>2 DEF NoIndexing
  <2>5. QED BY <2>1, <2>2, <2>3, <2>4 DEF NoIndexing
<1>31. CASE SplitGcSize(t)
  BY <1>31, <1>0 DEF SplitGcSize, NoIndexing, From, Goto, marks, locks, locals
<1>32. CASE SplitLock(t, "gclock", "gcsize") \/ SplitLock(t, "lock", "unindex")
  BY <1>32, <1>0 DEF SplitLock, NoIndexing, From, Goto, marks, locks, locals
<1>33. QED
  BY <1>1, <1>2, <1>3, <1>4, <1>4a, <1>13a, <1>5, <1>6, <1>7, <1>8, <1>9, <1>10, <1>11, <1>12, <1>13, <1>14,
     <1>15, <1>16, <1>17, <1>18, <1>19, <1>20, <1>21, <1>22, <1>23, <1>24, <1>25, <1>26, <1>27,
     <1>28, <1>29, <1>30, <1>31, <1>32
  DEF Indexing, Step, Reassign, ConcurrentAppend, ConcurrentSplit

(* The index, the add lock and the places of the parts. *)
LEMMA SafeStep ==
  ASSUME Safe, NEW t \in Threads, AddIndex(t) \/ Step(t)
  PROVE  IntoIn(Published)' /\ Publishing' /\ Retiring' /\ Published \subseteq Published'
<1>0. /\ index \in [Heads -> Presence] /\ status \in [Heads -> Status]
      /\ pc \in [Threads -> PC] /\ spl \in [Threads -> SplitFrameIn(Reached, Published)]
      /\ addLock \in Threads \cup {None}
  BY DEF Safe, Typed
<1>f. Frame(t) /\ (pc[t] \in SplitPCs => spl[t].of \in Published)
  BY <1>0 DEF Safe, Frames, Frame, InSplit, SplitFrameIn
<1>l. Others(t)
  BY StepLocal DEF Safe
<1>n. None \notin Heads /\ None \notin Threads
  BY UpdateAssumption
<1>k. spl[t].k \in 1..2 /\ spl[t].into \in [1..2 -> Heads \cup {None}]
  BY <1>0 DEF SplitFrameIn
<1>1. CASE ~Indexing(t)
  <2>0. NoIndexing(t)
    BY <1>1, NoIndexingStep DEF Safe
  <2>1. Published' = Published
    BY <2>0 DEF NoIndexing, Published
  <2>2. IntoIn(Published)'
    <3> SUFFICES ASSUME NEW u \in Threads, NEW k \in 1..2
                 PROVE  spl'[u].into[k] \in Published \cup {None} \/ (pc'[u] = "publish" /\ k = spl'[u].k)
      BY <2>1 DEF IntoIn
    <3>1. CASE u = t
      BY <3>1, <2>0, <1>f DEF NoIndexing, Safe, IntoIn, SplitPCs
    <3>2. CASE u # t
      BY <3>2, <1>l DEF Others, Safe, IntoIn
    <3>3. QED BY <3>1, <3>2
  <2>3. Publishing'
    BY <2>0, <1>l DEF Safe, Publishing, Others, NoIndexing
  <2>4. Retiring'
    BY <2>0, <1>l DEF Safe, Retiring, Others, NoIndexing
  <2>5. QED BY <2>1, <2>2, <2>3, <2>4
<1>2. CASE SplitPart(t) /\ spl[t].into[spl[t].k] # None
  <2>1. UNCHANGED <<index, status, addLock, spl>> /\ pc[t] = "part" /\ pc'[t] = "partsize"
    BY <1>0, <1>2 DEF SplitPart, From, Goto, locks
  <2>2. Published' = Published
    BY <2>1 DEF Published
  <2>3. IntoIn(Published)'
    BY <2>1, <2>2, <1>l DEF Safe, IntoIn, Others
  <2>4. Publishing' /\ Retiring'
    BY <2>1, <1>l DEF Safe, Publishing, Retiring, Others
  <2>5. QED BY <2>2, <2>3, <2>4
<1>3. CASE SplitPart(t) /\ spl[t].into[spl[t].k] = None
  <2>1. PICK n \in Heads :
          /\ index[n] = "absent" /\ index' = [index EXCEPT ![n] = "adding"]
          /\ status' = [status EXCEPT ![n] = "normal"]
          /\ spl' = [spl EXCEPT ![t].into[spl[t].k] = n]
    BY <1>3 DEF SplitPart
  <2>2. addLock = None /\ addLock' = t /\ pc[t] = "part" /\ pc'[t] = "publish"
    BY <1>0, <1>3 DEF SplitPart, From, Goto
  <2>3. spl'[t].k = spl[t].k /\ spl'[t].into = [spl[t].into EXCEPT ![spl[t].k] = n] /\ spl'[t].of = spl[t].of
    BY <2>1, <1>0 DEF SplitFrameIn
  <2>4. Published' = Published
    BY <2>1, <1>0 DEF Published
  <2>5. \A u \in Threads : pc[u] # "publish"
    BY <2>2, <1>n DEF Safe, Publishing
  <2>6. IntoIn(Published)'
    <3> SUFFICES ASSUME NEW u \in Threads, NEW k \in 1..2
                 PROVE  spl'[u].into[k] \in Published \cup {None} \/ (pc'[u] = "publish" /\ k = spl'[u].k)
      BY <2>4 DEF IntoIn
    <3>1. CASE u = t
      BY <3>1, <2>2, <2>3, <1>k DEF Safe, IntoIn
    <3>2. CASE u # t
      BY <3>2, <1>l DEF Others, Safe, IntoIn
    <3>3. QED BY <3>1, <3>2
  <2>7. Publishing'
    BY <2>1, <2>2, <2>3, <2>5, <1>0, <1>k, <1>l DEF Publishing, Others
  <2>8. Retiring'
    BY <2>1, <2>2, <1>0, <1>l DEF Safe, Retiring, Others
  <2>9. QED BY <2>4, <2>6, <2>7, <2>8
<1>4. CASE SplitPublish(t)
  <2> DEFINE n == spl[t].into[spl[t].k]
  <2>1. pc[t] = "publish" /\ pc'[t] = "partsize" /\ UNCHANGED <<status, spl>>
        /\ index' = [index EXCEPT ![n] = "live"]
    BY <1>0, <1>4 DEF SplitPublish, From, Goto, locals
  <2>2. addLock = t /\ n \in Heads /\ index[n] = "adding"
    BY <2>1 DEF Safe, Publishing
  <2>3. \A u \in Threads \ {t} : pc[u] # "publish"
    BY <2>2 DEF Safe, Publishing
  <2> HIDE DEF n
  <2>4. Published' = Published \cup {n}
    BY <2>1, <2>2, <1>0 DEF Published
  <2>5. IntoIn(Published)'
    <3> SUFFICES ASSUME NEW u \in Threads, NEW k \in 1..2
                 PROVE  spl'[u].into[k] \in Published' \cup {None}
      BY DEF IntoIn
    <3>1. CASE u = t
      BY <3>1, <2>1, <2>4 DEF Safe, IntoIn, n
    <3>2. CASE u # t
      BY <3>2, <2>1, <2>3, <2>4 DEF Safe, IntoIn
    <3>3. QED BY <3>1, <3>2
  <2>6. Publishing'
    BY <2>1, <2>3, <1>l DEF Publishing, Others
  <2>7. Retiring'
    BY <2>1, <2>2, <1>0, <1>l DEF Safe, Retiring, Others
  <2>8. QED BY <2>4, <2>5, <2>6, <2>7
<1>5. CASE SplitUnindex(t)
  <2>1. pc[t] = "unindex" /\ pc'[t] \in {"shrink", "collect2"} /\ UNCHANGED <<addLock, spl>>
        /\ spl[t].of \in Heads /\ index[spl[t].of] \in {"live", "deleted"}
    BY <1>0, <1>5, <1>f DEF SplitUnindex, From, Goto, locals, locks, SplitPCs, Published
  <2>2. \/ UNCHANGED status /\ index' = [index EXCEPT ![spl[t].of] = "deleted"]
        \/ UNCHANGED index /\ pc'[t] = "collect2" /\ status' = [status EXCEPT ![spl[t].of] = "normal"]
    BY <1>0, <1>5 DEF SplitUnindex, Goto
  <2>3. Published' = Published
    BY <2>1, <2>2, <1>0 DEF Published
  <2>4. IntoIn(Published)'
    BY <2>1, <2>3, <1>l DEF Safe, IntoIn, Others
  <2>5. Publishing'
    BY <2>1, <2>2, <1>0, <1>l DEF Safe, Publishing, Others
  <2>6. \A u \in Threads : pc[u] \in {"shrink", "retire"} => spl[u].of \in Heads
    BY <1>0 DEF Safe, Frames, Frame, InSplit, SplitPCs, SplitFrameIn, Published
  <2>7. \A u \in Threads : pc'[u] \in {"shrink", "retire"} => index'[spl'[u].of] = "deleted"
    BY <2>1, <2>2, <2>6, <1>0, <1>l DEF Safe, Retiring, Others
  <2>8. \A h \in Heads : status'[h] = "deleted" => index'[h] \in {"absent", "deleted"}
    BY <2>2, <1>0 DEF Safe, Retiring
  <2>9. QED BY <2>3, <2>4, <2>5, <2>7, <2>8 DEF Retiring
<1>6. CASE SplitRetire(t)
  <2>1. pc[t] = "retire" /\ pc'[t] = "collect2" /\ UNCHANGED <<addLock, index, spl>>
        /\ status' = [status EXCEPT ![spl[t].of] = "deleted"]
    BY <1>0, <1>6 DEF SplitRetire, From, Goto, locals, locks
  <2>2. index[spl[t].of] = "deleted"
    BY <2>1 DEF Safe, Retiring
  <2>3. Published' = Published
    BY <2>1 DEF Published
  <2>4. IntoIn(Published)'
    BY <2>1, <2>3, <1>l DEF Safe, IntoIn, Others
  <2>5. Publishing' /\ Retiring'
    BY <2>1, <2>2, <1>0, <1>l DEF Safe, Publishing, Retiring, Others
  <2>6. QED BY <2>3, <2>4, <2>5
<1>7. CASE SplitShrink(t)
  <2>1. pc[t] = "shrink" /\ pc'[t] = "retire" /\ UNCHANGED <<addLock, index, status, spl>>
    BY <1>0, <1>7 DEF SplitShrink, From, Goto, locals, locks, marks
  <2>2. Published' = Published
    BY <2>1 DEF Published
  <2>3. IntoIn(Published)'
    BY <2>1, <2>2, <1>l DEF Safe, IntoIn, Others
  <2>4. Publishing' /\ Retiring'
    BY <2>1, <1>l DEF Safe, Publishing, Retiring, Others
  <2>5. QED BY <2>2, <2>3, <2>4
<1>8. QED BY <1>1, <1>2, <1>3, <1>4, <1>5, <1>6, <1>7 DEF Indexing

-----------------------------------------------------------------------------
(* IInv /\ [Next]_vars => IInv'. *)
LEMMA NextSafe == Safe /\ [Next]_vars => Safe'
<1> SUFFICES ASSUME Safe, [Next]_vars PROVE Safe'
  OBVIOUS
<1>0. /\ version \in [Vectors -> Versions \cup {Tombstone}] /\ pending \in SUBSET Vectors
      /\ index \in [Heads -> Presence]
  BY DEF Safe, Typed
<1>r. Reached \subseteq Copies /\ Published \subseteq Heads /\ Searchable \subseteq Published
  BY DEF Reached, Published, Searchable
<1>p. \A v \in Vectors : version[v] # Tombstone => <<v, version[v]>> \in Reached
  BY <1>0, UpdateAssumption DEF Reached, Copies, Versions, Vid, Ver
<1>1. CASE UNCHANGED vars
  <2>1. UNCHANGED <<posting, size, status, cache, index, version, pending, jobs, splitList,
                    rwLock, addLock, pc, app, mov, spl>>
    BY <1>1 DEF vars
  <2>2. Published' = Published /\ Reached' = Reached
    BY <2>1 DEF Published, Reached
  <2>3. PICK S, K : S = Reached /\ K = Published
    OBVIOUS
  <2>4. Typed(S, K)'
    BY <2>1, <2>3 DEF Safe, Typed
  <2>5. Frames' /\ PendingVersion' /\ IntoIn(Published)' /\ Publishing' /\ Retiring'
    BY <2>1, <2>2 DEF Safe, Frames, Frame, InSplit, Moving, PendingVersion, IntoIn, Publishing,
       Retiring
  <2>6. QED BY <2>2, <2>3, <2>4, <2>5 DEF Safe
<1>2. ASSUME NEW t \in Threads, AddIndex(t) \/ Step(t)
      PROVE  Safe'
  <2>1. IntoIn(Published)' /\ Publishing' /\ Retiring' /\ Published \subseteq Published'
    BY <1>2, SafeStep
  <2>2. PICK S, K : S = Reached' /\ K = Published'
    OBVIOUS
  <2>3. S \in SUBSET Copies /\ K \in SUBSET Heads
    BY <2>2 DEF Reached, Published
  <2>4. Frames'
    <3>1. Frame(t)'
      BY <1>2, <1>r, FrameStep DEF Safe
    <3>2. \A u \in Threads \ {t} : Frame(u)'
      BY <1>2, StepLocal DEF Safe, Others, Frames, Frame, InSplit, Moving
    <3>3. QED BY <3>1, <3>2 DEF Frames
  <2>5. CASE ~ReassignBump(t)
    <3>1. version' = version /\ pending' \subseteq pending
      BY <1>2, <2>5, OtherSteps
    <3>2. Reached' = Reached
      BY <3>1 DEF Reached
    <3>3. Typed(S, K) /\ IntoIn(K) /\ Searchable \subseteq K /\ \A v \in pending : <<v, version[v]>> \in S
      BY <2>1, <2>2, <3>2, <1>0, <1>r, <1>p, TypedMonotone DEF Safe, IntoIn, PendingVersion
    <3>4. Typed(S, K)'
      BY <1>2, <2>3, <2>5, <3>3, TypedStep DEF Safe
    <3>5. PendingVersion'
      BY <3>1 DEF Safe, PendingVersion
    <3>6. QED BY <2>1, <2>2, <2>4, <3>4, <3>5 DEF Safe
  <2>6. CASE ReassignBump(t)
    <3>1. PICK R, P : R = Reached /\ P = Published
      OBVIOUS
    <3>2. R \in SUBSET Copies /\ Typed(R, P)
      BY <3>1 DEF Safe, Reached
    <3>3. PICK v \in Vectors, n \in Versions :
            /\ v = Vid(mov[t].copy)
            /\ n = Successor(version[v])
            /\ <<v, n>> \in Copies
            /\ version' = [version EXCEPT ![v] = n]
      BY <2>6, <3>2, BumpVersion DEF Safe
    <3>4. pending' = pending
      BY <2>6 DEF ReassignBump
    <3>5. \A w \in Vectors : version'[w] = IF w = v THEN n ELSE version[w]
      BY <3>3, <1>0
    <3>6. \A c \in Copies : Vid(c) \in Vectors /\ Ver(c) \in 0..127
      BY DEF Copies, Versions, Vid, Ver
    <3>7. Reached \subseteq Reached'
      <4>1. version[v] = Tombstone => n = 127
        BY <3>3 DEF Successor
      <4>2. version[v] # Tombstone => version[v] \in Nat /\ n = version[v] + 1
        BY <3>3, <1>0 DEF Successor, Versions
      <4>3. QED BY <3>3, <3>5, <3>6, <4>1, <4>2 DEF Reached
    <3>8. <<v, n>> \in S
      <4>1. version'[v] = n /\ n \in 0..127
        BY <3>5 DEF Versions
      <4>2. Vid(<<v, n>>) = v /\ Ver(<<v, n>>) = n
        BY DEF Vid, Ver
      <4>3. Ver(<<v, n>>) <= version'[Vid(<<v, n>>)]
        BY <4>1, <4>2
      <4>4. <<v, n>> \in Reached'
        BY <3>3, <4>3 DEF Reached, Vid, Ver
      <4>5. QED BY <4>4, <2>2
    <3>9. Typed(S, K)
      BY <2>1, <2>2, <3>7, TypedMonotone DEF Safe
    <3>10. Typed(S, K)'
      BY <2>3, <2>6, <3>3, <3>8, <3>9, BumpTyped DEF Safe
    <3>11. PendingVersion'
      BY <3>3, <3>4, <3>5, <1>0, UpdateAssumption DEF Safe, PendingVersion, Versions
    <3>12. QED BY <2>1, <2>2, <2>4, <3>10, <3>11 DEF Safe
  <2>7. QED BY <2>5, <2>6
<1>3. ASSUME NEW v \in Vectors, DeleteIndex(v)
      PROVE  Safe'
  <2>1. UNCHANGED <<status, index, addLock, pending, pc, app, mov, spl>>
    BY <1>3 DEF DeleteIndex, marks, locks, locals
  <2>2. PICK S, K : S = Reached' /\ K = Published'
    OBVIOUS
  <2>3. S \in SUBSET Copies /\ K \in SUBSET Heads /\ Published' = Published
    BY <2>1, <2>2 DEF Reached, Published
  <2>4. version' = [version EXCEPT ![v] = Tombstone] /\ v \notin pending
    BY <1>3 DEF DeleteIndex
  <2>5. Reached \subseteq Reached'
    BY <2>4, <1>0 DEF Reached
  <2>6. Typed(S, K)
    BY <2>2, <2>3, <2>5, TypedMonotone DEF Safe
  <2>7. Typed(S, K)'
    BY <1>3, <2>3, <2>6, DeleteTyped
  <2>8. PendingVersion'
    BY <2>1, <2>4, <1>0 DEF Safe, PendingVersion
  <2>9. Frames' /\ IntoIn(Published)' /\ Publishing' /\ Retiring'
    BY <2>1, <2>3 DEF Safe, Frames, Frame, InSplit, Moving, IntoIn, Publishing, Retiring
  <2>10. QED BY <2>2, <2>7, <2>8, <2>9 DEF Safe
<1>4. QED BY <1>1, <1>2, <1>3 DEF Next

(* The inductive invariant: copies are reached, heads that are referred to *)
(* have been published, one thread at a time publishes.                    *)
THEOREM SafeInvariant == Spec => []Safe
BY InitSafe, NextSafe, PTL DEF Spec

(* Every variable keeps its type: the locks, marks, lengths, jobs and      *)
(* locals of ExtraDynamicSearcher, for every instance.                     *)
THEOREM UpdateTyped == Spec => []TypeOK
<1>1. Safe => TypeOK
  <2> SUFFICES ASSUME Safe PROVE TypeOK
    OBVIOUS
  <2>1. PICK S, K : S = Copies /\ K = Heads
    OBVIOUS
  <2>2. Reached \subseteq S /\ Published \subseteq K
    BY <2>1 DEF Reached, Published
  <2>3. Typed(S, K)
    BY <2>2, TypedMonotone DEF Safe
  <2>4. QED
    BY <2>1, <2>3 DEF Typed, TypeOK, AppendFrameIn, MoveFrameIn, SplitFrameIn, JobIn,
                      AppendFrame, MoveFrame, SplitFrame, Job
<1>2. QED BY <1>1, SafeInvariant, PTL

(* No copy in a posting, a cache, a job or a thread has a version its      *)
(* vector has not reached: an old copy never passes for the live one.      *)
THEOREM NoFutureCopies == Spec => []NoFutureCopy
<1>1. Safe => NoFutureCopy
  <2> SUFFICES ASSUME Safe PROVE NoFutureCopy
    OBVIOUS
  <2>1. ASSUME NEW t \in Threads PROVE Held(t) \subseteq Reached
    <3>1. /\ app \in [Threads -> AppendFrameIn(Reached, Published)]
          /\ mov \in [Threads -> MoveFrameIn(Reached, Published)]
          /\ spl \in [Threads -> SplitFrameIn(Reached, Published)]
      BY DEF Safe, Typed
    <3>2. app[t].batch \cup app[t].old \subseteq Reached
      BY <3>1 DEF AppendFrameIn
    <3>3. {mov[t].copy} \ {None} \subseteq Reached
      BY <3>1 DEF MoveFrameIn
    <3>4. spl[t].todo \subseteq Reached /\ \A k \in 1..2 : spl[t].flush[k] \cup spl[t].parts[k] \subseteq Reached
      BY <3>1 DEF SplitFrameIn
    <3> DEFINE both == UNION {spl[t].flush[k] \cup spl[t].parts[k] : k \in 1..2}
    <3>5. both \subseteq Reached
      BY <3>4
    <3>6. Held(t) = app[t].batch \cup app[t].old \cup spl[t].todo \cup both \cup ({mov[t].copy} \ {None})
      BY DEF Held
    <3> HIDE DEF both
    <3>7. QED BY <3>2, <3>3, <3>4, <3>5, <3>6
  <2>2. Stored \subseteq Reached /\ Cached \subseteq Reached
    BY DEF Safe, Typed, Stored, Cached
  <2>3. Queued \subseteq Reached
    <3>1. \A i \in DOMAIN jobs : jobs[i] \in JobIn(Reached, Published)
      BY DEF Safe, Typed
    <3>2. QED BY <3>1 DEF Queued, JobIn
  <2> DEFINE held == UNION {Held(t) : t \in Threads}
  <2>4. held \subseteq Reached
    BY <2>1
  <2>5. InUse = Queued \cup held \cup Stored \cup Cached
    BY DEF InUse
  <2> HIDE DEF held
  <2>6. InUse \subseteq Reached
    BY <2>2, <2>3, <2>4, <2>5
  <2>7. QED BY <2>6 DEF Reached, NoFutureCopy
<1>2. QED BY <1>1, SafeInvariant, PTL

(* A head the index offers to searches, appends and reassigns is not       *)
(* marked as deleted, although ConcurrentSplit takes it out of the index   *)
(* and marks it in two steps.                                              *)
THEOREM DeletedNeverSearchable == Spec => []DeletedNotSearchable
<1>1. Safe => DeletedNotSearchable
  BY DEF Safe, Retiring, DeletedNotSearchable
<1>2. QED BY <1>1, SafeInvariant, PTL

-----------------------------------------------------------------------------
(***************************************************************************)
(* The splits: one thread at a time divides a head, the mark of a split    *)
(* has an owner, an append writes over no other write, and a vector that a *)
(* search finds stays findable.                                            *)
(***************************************************************************)

(* A split that has not taken its mark off the head, with the appends it   *)
(* makes meanwhile.                                                        *)
Divided == {"split", "gclock", "gcsize", "gcput", "gcerase", "gcflush", "gcnormal",
            "part", "publish", "partsize", "scan", "collect1", "flush1", "lock", "unindex",
            "shrink", "retire"}
Dividing(t) == pc[t] \in Divided \/ app[t].back = "flush1"

(* An append that holds the lock of its posting, and one that is writing.  *)
Holding(t) == pc[t] \in {"branch", "look", "cache", "get", "put", "count", "grow"}
Writing(t) == pc[t] \in {"get", "put", "count", "grow"}

SplitJob(i) == i \in DOMAIN jobs /\ jobs[i].kind = "split"

(* Centroids that coincide with the old head are left out: both parts go   *)
(* to new heads.                                                           *)
Plain(t) ==
  /\ pc[t] \in SplitPCs => Dividing(t) \/ Ending(t)
  /\ spl[t].of # None => \A k \in 1..2 : spl[t].into[k] # spl[t].of
  /\ pc[t] = "part" => spl[t].into[spl[t].k] = None
  /\ pc[t] \in {"part", "publish", "partsize"} /\ spl[t].k = 1 => spl[t].into[2] = None
  /\ Ending(t) => index[spl[t].of] = "deleted"
AllPlain == \A t \in Threads : Plain(t)

-----------------------------------------------------------------------------
(* Only a call, the read, the placing of a part and the return change what *)
(* a split works on.                                                       *)
SameSplit(t) ==
  spl'[t].of = spl[t].of /\ spl'[t].into = spl[t].into /\ spl'[t].parts = spl[t].parts
Setting(t) == \/ TakeJob(t) \/ AppendGrow(t) \/ SplitRead(t) \/ SplitPart(t)
              \/ SplitGcNormal(t) \/ SplitOptSize(t) \/ SplitErase(t)

LEMMA SameSplitStep ==
  ASSUME Safe, NEW t \in Threads, AddIndex(t) \/ Step(t), ~Setting(t)
  PROVE  SameSplit(t)
<1>0. spl \in [Threads -> SplitFrameIn(Reached, Published)]
  BY DEF Safe, Typed
<1>1. spl' = spl => SameSplit(t)
  BY DEF SameSplit
<1>2. ASSUME NEW Z, spl' = [spl EXCEPT ![t].todo = Z] PROVE SameSplit(t)
  BY <1>0, <1>2 DEF SameSplit, SplitFrameIn
<1>3. ASSUME NEW Z, spl' = [spl EXCEPT ![t].k = Z] PROVE SameSplit(t)
  BY <1>0, <1>3 DEF SameSplit, SplitFrameIn
<1>4. ASSUME NEW Z, NEW p, spl' = [spl EXCEPT ![t].todo = Z, ![t].flush = p] PROVE SameSplit(t)
  BY <1>0, <1>4 DEF SameSplit, SplitFrameIn
<1>5. ASSUME NEW k, spl' = [spl EXCEPT ![t].flush[k] = {}] PROVE SameSplit(t)
  BY <1>0, <1>5 DEF SameSplit, SplitFrameIn
<1>6. AddIndex(t) \/ InsertNext(t) \/ Reassign(t) => spl' = spl
  BY DEF AddIndex, InsertNext, Reassign, ReassignSelect, ReassignCheck, ReassignBump,
         ReassignSpread, locals
<1>7. ConcurrentAppend(t) => spl' = spl
  BY DEF ConcurrentAppend, AppendEnter, AppendMiss, AppendBranch, AppendLook, AppendCache,
         AppendGet, AppendPut, AppendCount, AppendEnqueue, Setting, locals
<1>8. \/ SplitGcSize(t) \/ SplitGcPut(t) \/ SplitGcErase(t) \/ SplitGcFlush(t)
      \/ SplitOptNormal(t) \/ SplitOptPut(t) \/ SplitPublish(t) \/ SplitUnindex(t)
      \/ SplitShrink(t) \/ SplitRetire(t) \/ SplitLock(t, "gclock", "gcsize")
      \/ SplitLock(t, "lock", "unindex")
      => spl' = spl
  BY DEF SplitGcSize, SplitGcPut, SplitGcErase, SplitGcFlush, SplitOptNormal, SplitOptPut,
         SplitPublish, SplitUnindex, SplitShrink, SplitRetire, SplitLock, locals
<1>9. ASSUME SplitOptOut(t) \/ SplitOptCollect(t) \/ SplitScan(t)
             \/ SplitCollect(t, "collect1", "flush1") \/ SplitCollect(t, "collect2", "flush2")
      PROVE  spl' = spl \/ \E Z : spl' = [spl EXCEPT ![t].todo = Z]
  BY <1>9 DEF SplitOptOut, SplitOptCollect, SplitScan, SplitCollect
<1>10. SplitPartSize(t) => \E Z : spl' = [spl EXCEPT ![t].k = Z] \/ spl' = [spl EXCEPT ![t].todo = Z]
  BY DEF SplitPartSize
<1>11. ASSUME NEW from, NEW to, SplitFlush(t, from, to)
       PROVE  \/ spl' = spl
              \/ \E Z, p : spl' = [spl EXCEPT ![t].todo = Z, ![t].flush = p]
              \/ \E k : spl' = [spl EXCEPT ![t].flush[k] = {}]
  BY <1>11 DEF SplitFlush
<1>12. QED
  BY <1>1, <1>2, <1>3, <1>4, <1>5, <1>6, <1>7, <1>8, <1>9, <1>10, <1>11
     DEF Step, ConcurrentSplit, Setting

(* The read ends in garbage collection or in two parts for new heads.      *)
LEMMA ReadStep ==
  ASSUME SameHead = FALSE, Safe, NEW t \in Threads, SplitRead(t)
  PROVE  /\ pc[t] = "split" /\ spl[t].of \in Heads /\ spl[t].k = 1
         /\ \/ /\ pc' = [pc EXCEPT ![t] = "gclock"] /\ SameSplit(t)
               /\ spl'[t].todo \subseteq CurrentOf(posting[spl[t].of])
               /\ ~Identical => spl'[t].todo = CurrentOf(posting[spl[t].of])
            \/ /\ pc' = [pc EXCEPT ![t] = "part"]
               /\ spl'[t].of = spl[t].of /\ spl'[t].k = 1
               /\ spl'[t].into = [k \in 1..2 |-> None]
               /\ spl'[t].parts[1] \cup spl'[t].parts[2] = CurrentOf(posting[spl[t].of])
<1>0. /\ spl \in [Threads -> SplitFrameIn(Reached, Published)]
      /\ posting \in [Heads -> SUBSET Reached]
  BY DEF Safe, Typed
<1> DEFINE live == CurrentOf(posting[spl[t].of])
<1>1. pc[t] = "split" /\ spl[t].of \in Heads /\ spl[t].k = 1 /\ None \notin Heads
  BY <1>0, UpdateAssumption DEF SplitRead, From, Safe, Frames, Frame, InSplit, SplitPCs, SplitFrameIn, Published
<1>2. live \in SUBSET Copies
  BY <1>0, <1>1 DEF CurrentOf, Reached
<1>3. \A c \in live : Cardinality(live) = 1 => live = {c}
  BY <1>2, CopiesFinite, FS_Singleton
<1> HIDE DEF live
<1>4. CASE /\ spl' = [spl EXCEPT ![t].todo = live] /\ Goto(t, "gclock")
  BY <1>0, <1>1, <1>4 DEF Goto, SameSplit, SplitFrameIn, live
<1>5. CASE /\ Identical \/ Cardinality(live) = 1
           /\ \E c \in live : spl' = [spl EXCEPT ![t].todo = {c}]
           /\ Goto(t, "gclock")
  <2>1. PICK c \in live : spl' = [spl EXCEPT ![t].todo = {c}]
    BY <1>5
  <2>2. spl'[t].todo = {c} /\ SameSplit(t)
    BY <2>1, <1>0 DEF SameSplit, SplitFrameIn
  <2>3. ~Identical => {c} = live
    BY <1>3, <1>5
  <2>4. QED BY <1>1, <1>5, <2>2, <2>3 DEF Goto, live
<1>6. CASE /\ \E p \in Bipartitions(live), same \in {0} :
                LET optimised == EnableOptSplit /\ same # 0 /\ Uneven(p) IN
                /\ spl' = [spl EXCEPT ![t] =
                            [@ EXCEPT !.parts = p,
                                      !.todo = IF optimised THEN p[Small(p)] ELSE {},
                                      !.into = [k \in 1..2 |-> IF k = same THEN spl[t].of ELSE None]]]
                /\ Goto(t, IF optimised THEN "optout" ELSE "part")
  <2>1. PICK p \in Bipartitions(live) :
          /\ spl' = [spl EXCEPT ![t] = [@ EXCEPT !.parts = p, !.todo = {},
                                                 !.into = [k \in 1..2 |-> IF k = 0 THEN spl[t].of ELSE None]]]
          /\ Goto(t, "part")
    BY <1>6, ZenonT(40)
  <2>2. spl'[t] = [spl[t] EXCEPT !.parts = p, !.todo = {},
                                 !.into = [k \in 1..2 |-> IF k = 0 THEN spl[t].of ELSE None]]
    BY <2>1, <1>0
  <2>3. spl'[t].of = spl[t].of /\ spl'[t].k = 1 /\ spl'[t].parts = p
        /\ spl'[t].into = [k \in 1..2 |-> IF k = 0 THEN spl[t].of ELSE None]
    BY <2>2, <1>0, <1>1 DEF SplitFrameIn
  <2>4. p[1] \cup p[2] = live
    BY DEF Bipartitions
  <2>5. QED BY <2>1, <2>3, <2>4, <1>1 DEF Goto, live
<1>7. QED BY <1>4, <1>5, <1>6 DEF SplitRead, live

-----------------------------------------------------------------------------
(* What every step may rely on. *)
LEMMA Frame1 ==
  ASSUME Safe, AllPlain, NEW t \in Threads
  PROVE  /\ pc[t] \in AppendPCs => app[t].at \in Published
         /\ pc[t] \notin AppendPCs => app[t].back = "idle"
         /\ app[t].back \in {"idle", "insert", "spread", "flush1", "flush2"}
         /\ Dividing(t) \/ Ending(t) <=> spl[t].of # None
         /\ ~(Dividing(t) /\ Ending(t))
         /\ spl[t].of # None => spl[t].of \in Published
         /\ app[t].back \in {"insert", "spread"} => ~Dividing(t) /\ ~Ending(t)
         /\ app[t].slack # 0 => app[t].back = "spread"
         /\ spl[t].k \in 1..2
         /\ \A k \in 1..2 : spl[t].into[k] \in Heads \cup {None}
         /\ spl[t].caller \in {"idle", "spread"}
         /\ pc[t] \in PC
<1>0. /\ spl[t] \in SplitFrameIn(Reached, Published) /\ app[t] \in AppendFrameIn(Reached, Published)
      /\ pc[t] \in PC
  BY DEF Safe, Typed
<1>1. Frame(t) /\ Plain(t)
  BY DEF Safe, Frames, AllPlain
<1>2. /\ app[t].at \in Published \cup {None} /\ spl[t].of \in Published \cup {None}
      /\ app[t].back \in {"idle", "insert", "spread", "flush1", "flush2"}
      /\ spl[t].k \in 1..2 /\ spl[t].caller \in {"idle", "spread"}
      /\ \A k \in 1..2 : spl[t].into[k] \in Heads \cup {None}
  BY <1>0 DEF SplitFrameIn, AppendFrameIn
<1>3. pc[t] \notin AppendPCs => app[t].back = "idle"
  BY <1>1 DEF Frame, NoAppend
<1>4. (Dividing(t) \/ Ending(t)) <=> InSplit(t)
  BY <1>1 DEF Plain, Dividing, Ending, Divided, SplitPCs, InSplit
<1>5. ~(Dividing(t) /\ Ending(t))
  BY <1>3 DEF Dividing, Ending, Divided, AppendPCs
<1>6. QED BY <1>0, <1>1, <1>2, <1>3, <1>4, <1>5 DEF Frame, NoSplit

(* A head that has left the index does not come back. *)
LEMMA IndexStep ==
  ASSUME Safe, NEW t \in Threads, AddIndex(t) \/ Step(t)
  PROVE  /\ \A h \in Heads : index[h] = "deleted" => index'[h] = "deleted"
         /\ \A h \in Heads : index[h] # "deleted" /\ index'[h] = "deleted" => pc[t] = "unindex" /\ h = spl[t].of
<1>0. index \in [Heads -> Presence]
  BY DEF Safe, Typed
<1>1. CASE ~Indexing(t)
  BY <1>1, NoIndexingStep DEF NoIndexing, Safe
<1>2. CASE SplitPart(t)
  BY <1>0, <1>2 DEF SplitPart
<1>3. CASE SplitPublish(t)
  BY <1>0, <1>3 DEF SplitPublish, Safe, Publishing, From
<1>4. CASE SplitUnindex(t)
  BY <1>0, <1>4 DEF SplitUnindex, From
<1>5. CASE SplitShrink(t) \/ SplitRetire(t)
  BY <1>5 DEF SplitShrink, SplitRetire, marks
<1>6. QED BY <1>1, <1>2, <1>3, <1>4, <1>5 DEF Indexing

(* Inserts, reassigns and appends leave the split they are part of, if     *)
(* any, as it is.                                                          *)
Apart(t) == \/ AddIndex(t) \/ InsertNext(t) \/ Reassign(t)
            \/ (ConcurrentAppend(t) /\ ~AppendGrow(t))
SameStage(t) ==
  /\ SameSplit(t)
  /\ Dividing(t)' <=> Dividing(t)
  /\ Ending(t)' <=> Ending(t)
  /\ pc[t] \notin SplitPCs
  /\ pc'[t] \in SplitPCs => pc'[t] \in {"flush1", "flush2"}

LEMMA ApartStep ==
  ASSUME Safe, AllPlain, NEW t \in Threads, Apart(t)
  PROVE  SameStage(t)
<1>0. /\ pc \in [Threads -> PC] /\ app \in [Threads -> AppendFrameIn(Reached, Published)]
  BY DEF Safe, Typed
<1>1. SameSplit(t)
  <2>1. TakeJob(t) => ~Apart(t)
    BY UpdateAssumption DEF Apart, TakeJob, AddIndex, InsertNext, Reassign, ReassignSelect,
       ReassignCheck, ReassignBump, ReassignSpread, ConcurrentAppend, AppendEnter, AppendMiss,
       AppendBranch, AppendLook, AppendCache, AppendGet, AppendPut, AppendCount, AppendEnqueue, From
  <2>2. pc[t] \in {"idle", "insert", "reassign", "bump", "inc", "spread", "append", "miss", "branch",
                  "look", "cache", "get", "put", "count", "enqueue"}
    BY DEF Apart, AddIndex, InsertNext, Reassign, ReassignSelect, ReassignCheck, ReassignBump,
       ReassignSpread, ConcurrentAppend, AppendEnter, AppendMiss, AppendBranch, AppendLook,
       AppendCache, AppendGet, AppendPut, AppendCount, AppendEnqueue, From
  <2>3. ~Setting(t)
    BY <2>1, <2>2 DEF Setting, AppendGrow, SplitRead, SplitPart, SplitGcNormal, SplitOptSize,
       SplitErase, From
  <2>4. QED BY <2>3, SameSplitStep DEF Apart, Step
<1>2. /\ pc[t] \notin AppendPCs => app[t].back = "idle"
      /\ app[t].back \in {"idle", "insert", "spread", "flush1", "flush2"}
  BY Frame1
<1>3. CASE /\ pc[t] \notin SplitPCs
           /\ pc'[t] \notin SplitPCs
           /\ \/ app'[t].back = app[t].back
              \/ app[t].back \notin {"flush1", "flush2"} /\ app'[t].back \notin {"flush1", "flush2"}
  BY <1>1, <1>3 DEF SameStage, Dividing, Ending, Divided, SplitPCs
<1>4. CASE pc[t] \in AppendPCs /\ pc'[t] = app[t].back /\ app'[t].back = "idle"
  BY <1>1, <1>2, <1>4 DEF SameStage, Dividing, Ending, Divided, SplitPCs, AppendPCs
<1>5. ASSUME ReturnAppend(t), pc[t] \in AppendPCs
      PROVE  pc[t] \in AppendPCs /\ pc'[t] = app[t].back /\ app'[t].back = "idle"
  BY <1>0, <1>5 DEF ReturnAppend, Goto, NoAppend
<1>6. CASE AddIndex(t)
  BY <1>0, <1>3, <1>6 DEF AddIndex, From, Goto, SplitPCs
<1>7. CASE InsertNext(t) \/ ReassignSpread(t)
  BY <1>0, <1>2, <1>3, <1>7 DEF InsertNext, ReassignSpread, CallAppend, Finish, From, Goto, SplitPCs,
     AppendPCs
<1>8. CASE ReassignSelect(t) \/ ReassignCheck(t) \/ ReassignBump(t)
  BY <1>0, <1>3, <1>8 DEF ReassignSelect, ReassignCheck, ReassignBump, Finish, From, Goto, SplitPCs, locals
<1>9. CASE AppendEnter(t) \/ AppendBranch(t) \/ AppendPut(t) \/ AppendCount(t)
  <2>1. pc[t] \in AppendPCs /\ pc'[t] \in AppendPCs /\ app'[t].back = app[t].back
    BY <1>0, <1>9 DEF AppendEnter, AppendBranch, AppendPut, AppendCount, From, Goto, AppendPCs,
       locals, AppendFrameIn
  <2>2. QED BY <1>3, <2>1 DEF AppendPCs, SplitPCs
<1>10. CASE AppendLook(t) \/ AppendGet(t)
  <2>1. pc[t] \in AppendPCs /\ pc'[t] \in AppendPCs /\ app'[t].back = app[t].back
    BY <1>0, <1>10 DEF AppendLook, AppendGet, From, Goto, AppendPCs, AppendFrameIn
  <2>2. QED BY <1>3, <2>1 DEF AppendPCs, SplitPCs
<1>11. CASE AppendCache(t) \/ AppendEnqueue(t)
  BY <1>4, <1>5, <1>11 DEF AppendCache, AppendEnqueue, From, AppendPCs
<1>12. CASE AppendMiss(t)
  <2>1. pc[t] = "miss"
    BY <1>12 DEF AppendMiss, From
  <2>2. CASE \E c \in app[t].batch : app' = [app EXCEPT ![t].batch = @ \ {c}] /\ pc' = pc
    <3>1. app'[t].back = app[t].back /\ pc'[t] = "miss"
      BY <1>0, <2>1, <2>2 DEF AppendFrameIn
    <3>2. QED BY <1>3, <2>1, <3>1 DEF SplitPCs
  <2>3. CASE ReturnAppend(t)
    BY <1>4, <1>5, <2>1, <2>3 DEF AppendPCs
  <2>4. CASE app[t].back = "spread" /\ app' = [app EXCEPT ![t] = NoAppend] /\ Finish(t)
    BY <1>0, <1>3, <2>1, <2>4 DEF Finish, Goto, NoAppend, SplitPCs
  <2>5. QED BY <1>12, <2>2, <2>3, <2>4 DEF AppendMiss
<1>13. QED
  BY <1>6, <1>7, <1>8, <1>9, <1>10, <1>11, <1>12
     DEF Apart, Reassign, ConcurrentAppend

(* A split goes on with the same head and parts, up to its retirement.     *)
Working(t) ==
  \/ SplitGcSize(t) \/ SplitGcPut(t) \/ SplitGcErase(t) \/ SplitGcFlush(t)
  \/ SplitPublish(t) \/ SplitPartSize(t) \/ SplitScan(t) \/ SplitUnindex(t) \/ SplitShrink(t)
  \/ SplitLock(t, "gclock", "gcsize") \/ SplitLock(t, "lock", "unindex")
  \/ SplitCollect(t, "collect1", "flush1") \/ SplitFlush(t, "flush1", "lock")
  \/ SplitCollect(t, "collect2", "flush2") \/ SplitFlush(t, "flush2", "erase")

(* What a step of a split may follow. *)
Follows(from, to) ==
  \/ from \in {"gclock", "gcsize", "gcput", "gcerase", "gcflush", "publish", "partsize", "scan",
               "unindex", "shrink", "lock", "collect1", "flush1"}
     /\ to \in {"gcsize", "gcput", "gcerase", "gcflush", "gcnormal", "part", "partsize", "scan",
                "collect1", "shrink", "retire", "unindex", "flush1", "lock"}
     /\ (to = "part" => from = "partsize") /\ (to = "partsize" => from = "publish")
     /\ (to = "shrink" => from = "unindex")
     /\ (to \in {"gcflush", "gcnormal"} => from \in {"gcerase", "gcflush"})
     /\ (to = "scan" => from \in {"partsize", "scan"})
     /\ (to \in {"gcsize", "gcput"} => from \in {"gclock", "gcsize"})
     /\ (to \in {"collect1", "flush1", "lock", "unindex"} => from \in {"scan", "collect1", "flush1", "lock"})
     /\ (to = "retire" => from = "shrink")
  \/ from = "flush1" /\ to = "append"
  \/ from \in {"collect2", "flush2"} /\ to \in {"flush2", "erase", "append"}

LEMMA WorkStep ==
  ASSUME SameHead = FALSE, Safe, AllPlain, NEW t \in Threads, Working(t)
  PROVE  /\ SameSplit(t) /\ pc[t] \in SplitPCs /\ Follows(pc[t], pc'[t])
         /\ Dividing(t)' <=> Dividing(t)
         /\ Ending(t)' <=> Ending(t)
         /\ pc'[t] = "part" => spl[t].k = 1 /\ spl'[t].k = 2
         /\ pc'[t] = "partsize" => spl'[t].k = spl[t].k
         /\ SplitUnindex(t) => /\ status' = status
                               /\ index' = [index EXCEPT ![spl[t].of] = "deleted"]
<1>0. /\ pc \in [Threads -> PC] /\ app \in [Threads -> AppendFrameIn(Reached, Published)]
      /\ spl \in [Threads -> SplitFrameIn(Reached, Published)]
  BY DEF Safe, Typed
<1>1. SameSplit(t)
  <2>1. ~Setting(t)
    BY DEF Working, SplitLock, SplitGcSize, SplitGcPut, SplitGcErase, SplitGcFlush, SplitPublish,
       SplitPartSize, SplitScan, SplitCollect, SplitFlush, SplitUnindex, SplitShrink, From,
       Setting, TakeJob, AppendGrow, SplitRead, SplitPart, SplitGcNormal, SplitOptSize, SplitErase
  <2>2. QED BY <2>1, SameSplitStep DEF Working, Step, ConcurrentSplit
<1>2. pc[t] \notin AppendPCs => app[t].back = "idle"
  BY Frame1
<1>4. CASE SplitGcSize(t) \/ SplitGcPut(t) \/ SplitGcErase(t) \/ SplitGcFlush(t) \/ SplitShrink(t)
           \/ SplitLock(t, "gclock", "gcsize") \/ SplitLock(t, "lock", "unindex")
  BY <1>0, <1>1, <1>4 DEF SplitGcSize, SplitGcPut, SplitGcErase, SplitGcFlush, SplitShrink, SplitLock,
     From, Goto, SplitPCs, Dividing, Ending, Divided, Follows, SplitUnindex, locals
<1>5. CASE SplitPublish(t)
  BY <1>0, <1>1, <1>5 DEF SplitPublish, From, Goto, SplitPCs, Dividing, Ending, Divided, Follows,
     SplitUnindex, locals
<1>6. CASE SplitPartSize(t)
  <2>1. /\ pc[t] = "partsize" /\ app' = app /\ spl[t].k \in 1..2
        /\ \/ spl[t].k = 1 /\ spl' = [spl EXCEPT ![t].k = 2] /\ pc'[t] = "part"
           \/ pc'[t] = "scan"
    BY <1>0, <1>6 DEF SplitPartSize, From, Goto, SplitFrameIn
  <2>2. pc'[t] = "part" => spl[t].k = 1 /\ spl'[t].k = 2
    BY <2>1, <1>0 DEF SplitFrameIn
  <2>3. QED BY <1>1, <2>1, <2>2 DEF SplitPCs, Dividing, Ending, Divided, Follows, SplitUnindex, From
<1>7. CASE SplitScan(t)
  BY <1>0, <1>1, <1>7 DEF SplitScan, From, Goto, SplitPCs, Dividing, Ending, Divided, Follows, SplitUnindex
<1>8. CASE SplitUnindex(t)
  <2>1. pc[t] = "unindex" /\ app' = app /\ spl[t].of # None
    BY <1>8 DEF SplitUnindex, From, locals, Safe, Frames, Frame, InSplit, SplitPCs
  <2>2. \A k \in 1..2 : spl[t].into[k] # spl[t].of
    BY <2>1 DEF AllPlain, Plain
  <2>3. pc'[t] = "shrink" /\ status' = status /\ index' = [index EXCEPT ![spl[t].of] = "deleted"]
    BY <2>2, <1>0, <1>8 DEF SplitUnindex, Goto
  <2>4. QED BY <1>1, <2>1, <2>3 DEF SplitPCs, Dividing, Ending, Divided, Follows
<1>9. ASSUME NEW from \in {"collect1", "collect2"}, NEW to \in {"flush1", "flush2"},
             SplitCollect(t, from, to)
      PROVE  pc[t] = from /\ pc'[t] = to /\ app' = app
  BY <1>0, <1>9 DEF SplitCollect, From, Goto
<1>10. CASE SplitCollect(t, "collect1", "flush1") \/ SplitCollect(t, "collect2", "flush2")
  BY <1>1, <1>9, <1>10 DEF SplitPCs, Dividing, Ending, Divided, Follows, SplitUnindex, From
<1>11. ASSUME NEW from \in {"flush1", "flush2"}, NEW to \in {"lock", "erase"}, SplitFlush(t, from, to)
       PROVE  /\ pc[t] = from
              /\ \/ pc'[t] = from /\ app' = app
                 \/ pc'[t] = to /\ app' = app
                 \/ pc'[t] = "append" /\ app'[t].back = from
  BY <1>0, <1>11 DEF SplitFlush, From, Goto, CallAppend
<1>12. CASE SplitFlush(t, "flush1", "lock")
  BY <1>1, <1>2, <1>11, <1>12 DEF SplitPCs, AppendPCs, Dividing, Ending, Divided, Follows, SplitUnindex, From
<1>13. CASE SplitFlush(t, "flush2", "erase")
  BY <1>1, <1>2, <1>11, <1>13 DEF SplitPCs, AppendPCs, Dividing, Ending, Divided, Follows, SplitUnindex, From
<1>14. QED
  BY <1>4, <1>5, <1>6, <1>7, <1>8, <1>10, <1>12, <1>13 DEF Working

(* The optimised split is for centroids that coincide with the old head.   *)
LEMMA NoOptStep ==
  ASSUME Safe, AllPlain, NEW t \in Threads
  PROVE  /\ pc[t] \notin {"optout", "optnormal", "optcollect", "optput", "optsize"}
         /\ ~SplitOptOut(t) /\ ~SplitOptNormal(t) /\ ~SplitOptCollect(t)
         /\ ~SplitOptPut(t) /\ ~SplitOptSize(t)
<1>1. pc[t] \notin {"optout", "optnormal", "optcollect", "optput", "optsize"}
  BY Frame1 DEF AllPlain, Plain, Dividing, Ending, Divided, SplitPCs, AppendPCs
<1>2. QED
  BY <1>1 DEF SplitOptOut, SplitOptNormal, SplitOptCollect, SplitOptPut, SplitOptSize, From

(* The steps there are. *)
LEMMA StepKinds ==
  ASSUME Safe, AllPlain, NEW t \in Threads, AddIndex(t) \/ Step(t)
  PROVE  \/ Apart(t) \/ TakeJob(t) \/ AppendGrow(t) \/ SplitRead(t) \/ SplitPart(t)
         \/ Working(t) \/ SplitGcNormal(t) \/ SplitRetire(t) \/ SplitErase(t)
BY NoOptStep DEF Step, ConcurrentSplit, Apart, Working, ConcurrentAppend

(* A split with two new heads stays one. *)
LEMMA PlainStep ==
  ASSUME SameHead = FALSE, Safe, AllPlain, NEW t \in Threads, AddIndex(t) \/ Step(t)
  PROVE  AllPlain'
<1>0. /\ pc \in [Threads -> PC] /\ app \in [Threads -> AppendFrameIn(Reached, Published)]
      /\ spl \in [Threads -> SplitFrameIn(Reached, Published)] /\ index \in [Heads -> Presence]
  BY DEF Safe, Typed
<1>f. Frame(t) /\ Plain(t)
  BY DEF Safe, Frames, AllPlain
<1>g. /\ pc[t] \notin AppendPCs => app[t].back = "idle"
      /\ Dividing(t) \/ Ending(t) <=> spl[t].of # None
      /\ spl[t].of # None => spl[t].of \in Published
      /\ app[t].back \in {"insert", "spread"} => ~Dividing(t) /\ ~Ending(t)
      /\ app[t].back \in {"idle", "insert", "spread", "flush1", "flush2"}
      /\ app[t].slack # 0 => app[t].back = "spread"
      /\ spl[t].k \in 1..2 /\ spl[t].caller \in {"idle", "spread"}
  BY Frame1
<1>n. None \notin Heads /\ Published \subseteq Heads
  BY UpdateAssumption DEF Published
<1>i. \A h \in Heads : index[h] = "deleted" => index'[h] = "deleted"
  BY IndexStep
<1>o. \A u \in Threads \ {t} : Plain(u)'
  <2>1. Others(t)
    BY StepLocal DEF Safe
  <2>2. \A u \in Threads : spl[u].of # None => spl[u].of \in Heads
    BY <1>0, <1>n DEF SplitFrameIn
  <2>3. \A u \in Threads : Ending(u) => spl[u].of # None
    BY Frame1
  <2>4. QED BY <2>1, <2>2, <2>3, <1>i DEF Others, AllPlain, Plain, Dividing, Ending
<1>d. Ending(t) => spl[t].of \in Heads /\ index[spl[t].of] = "deleted"
  BY <1>g, <1>f, <1>n DEF Plain
<1>1. CASE Apart(t)
  <2>1. SameStage(t)
    BY <1>1, ApartStep
  <2>2. pc'[t] \in SplitPCs => Dividing(t)' \/ Ending(t)'
    BY <2>1 DEF SameStage, Dividing, Ending, Divided
  <2>3. Ending(t)' => index'[spl'[t].of] = "deleted"
    BY <2>1, <1>d, <1>i DEF SameStage, SameSplit
  <2>4. pc'[t] \notin {"part", "publish", "partsize"}
    BY <2>1 DEF SameStage, SplitPCs
  <2>5. Plain(t)'
    BY <2>1, <2>2, <2>3, <2>4, <1>f DEF Plain, SameStage, SameSplit
  <2>6. QED BY <2>5, <1>o DEF AllPlain
<1>2. CASE Working(t)
  <2>1. /\ SameSplit(t) /\ pc[t] \in SplitPCs /\ Follows(pc[t], pc'[t])
        /\ Dividing(t)' <=> Dividing(t)
        /\ Ending(t)' <=> Ending(t)
        /\ pc'[t] = "part" => spl[t].k = 1 /\ spl'[t].k = 2
        /\ pc'[t] = "partsize" => spl'[t].k = spl[t].k
    BY <1>2, WorkStep
  <2>2. pc'[t] \in SplitPCs => Dividing(t)' \/ Ending(t)'
    BY <2>1, <1>f DEF Plain
  <2>3. pc'[t] \in {"part", "publish", "partsize"} => pc[t] \in {"publish", "partsize"}
    BY <2>1 DEF Follows
  <2>4. pc'[t] = "part" => spl'[t].into[spl'[t].k] = None
    BY <2>1, <2>3, <1>f DEF Plain, SameSplit, Follows
  <2>5. pc'[t] \in {"part", "publish", "partsize"} /\ spl'[t].k = 1 => spl'[t].into[2] = None
    BY <2>1, <2>3, <1>f DEF Plain, SameSplit, Follows
  <2>6. Ending(t)' => index'[spl'[t].of] = "deleted"
    BY <2>1, <1>d, <1>i DEF SameSplit
  <2>7. Plain(t)'
    BY <2>1, <2>2, <2>4, <2>5, <2>6, <1>f DEF Plain, SameSplit
  <2>8. QED BY <2>7, <1>o DEF AllPlain
<1>3. CASE TakeJob(t)
  <2>1. /\ pc[t] = "idle" /\ app[t].back = "idle" /\ spl[t].of = None
        /\ pc'[t] \in {"append", "split", "reassign"}
        /\ app'[t].back = "idle" /\ (pc'[t] # "split" => spl' = spl)
    BY <1>3, <1>0, <1>g DEF TakeJob, CallAppend, CallSplit, From, Goto, AppendPCs, NoAppend, Dividing,
       Ending, Divided
  <2>2. \/ spl' = spl \/ \E h, c : spl' = [spl EXCEPT ![t] = [NoSplit EXCEPT !.of = h, !.caller = c]]
    BY <1>3 DEF TakeJob, CallSplit
  <2>3. ASSUME NEW h, NEW c, spl' = [spl EXCEPT ![t] = [NoSplit EXCEPT !.of = h, !.caller = c]]
        PROVE  spl'[t].of = h /\ \A k \in 1..2 : spl'[t].into[k] = None
    BY <2>3, <1>0 DEF NoSplit
  <2>4. ~Ending(t)' /\ (pc'[t] \in SplitPCs => Dividing(t)') /\ pc'[t] \notin {"part", "publish", "partsize"}
    BY <2>1 DEF Dividing, Ending, Divided, SplitPCs
  <2>5. spl'[t].of # None => \A k \in 1..2 : spl'[t].into[k] # spl'[t].of
    <3>1. CASE spl' = spl
      BY <2>1, <3>1
    <3>2. CASE \E h, c : spl' = [spl EXCEPT ![t] = [NoSplit EXCEPT !.of = h, !.caller = c]]
      <4>1. PICK h, c : spl' = [spl EXCEPT ![t] = [NoSplit EXCEPT !.of = h, !.caller = c]]
        BY <3>2
      <4>2. \A k \in 1..2 : spl'[t].into[k] = None
        BY <4>1, <2>3
      <4>3. QED BY <4>2
    <3>3. QED BY <2>2, <3>1, <3>2
  <2>6. Plain(t)'
    BY <2>4, <2>5 DEF Plain
  <2>7. QED BY <2>6, <1>o DEF AllPlain
<1>4. CASE AppendGrow(t)
  <2>1. /\ pc[t] = "grow"
        /\ \/ pc'[t] = app[t].back /\ app'[t].back = "idle" /\ spl' = spl
           \/ pc'[t] = "enqueue" /\ app' = app /\ spl' = spl
           \/ /\ pc'[t] = "split" /\ app'[t].back = "idle"
              /\ \E h : spl' = [spl EXCEPT ![t] = [NoSplit EXCEPT !.of = h, !.caller = "spread"]]
    <3>1. pc[t] = "grow"
      BY <1>4 DEF AppendGrow, From
    <3>2. CASE ReturnAppend(t) /\ UNCHANGED <<status, spl>>
      BY <3>1, <3>2, <1>0 DEF ReturnAppend, Goto, NoAppend
    <3>3. CASE Goto(t, "enqueue") /\ UNCHANGED <<app, spl>>
      BY <3>1, <3>3, <1>0 DEF Goto
    <3>4. CASE CallSplit(t, app[t].at, "spread")
      BY <3>1, <3>4, <1>0 DEF CallSplit, Goto, NoAppend
    <3>5. QED BY <1>4, <3>2, <3>3, <3>4 DEF AppendGrow
  <2>2. CASE /\ spl' = spl
             /\ \/ pc'[t] = app[t].back /\ app'[t].back = "idle"
                \/ pc'[t] = "enqueue" /\ app' = app
    <3>0. pc[t] = "grow"
      BY <2>1
    <3>1. (Dividing(t)' <=> Dividing(t)) /\ (Ending(t)' <=> Ending(t))
      <4>1. CASE pc'[t] = app[t].back /\ app'[t].back = "idle"
        BY <3>0, <4>1, <1>g DEF Dividing, Ending, Divided
      <4>2. CASE pc'[t] = "enqueue" /\ app' = app
        BY <3>0, <4>2 DEF Dividing, Ending, Divided
      <4>3. QED BY <2>2, <4>1, <4>2
    <3>2. pc'[t] \in SplitPCs => Dividing(t)' \/ Ending(t)'
      BY <2>2, <1>g DEF Dividing, Ending, Divided, SplitPCs
    <3>3. pc'[t] \notin {"part", "publish", "partsize"}
      BY <2>2, <1>g
    <3>4. Plain(t)'
      BY <2>2, <3>1, <3>2, <3>3, <1>d, <1>f, <1>i DEF Plain
    <3>5. QED BY <3>4, <1>o DEF AllPlain
  <2>3. CASE /\ pc'[t] = "split" /\ app'[t].back = "idle"
             /\ \E h : spl' = [spl EXCEPT ![t] = [NoSplit EXCEPT !.of = h, !.caller = "spread"]]
    <3>1. \A k \in 1..2 : spl'[t].into[k] = None
      BY <2>3, <1>0 DEF NoSplit
    <3>2. Plain(t)'
      BY <2>3, <3>1 DEF Plain, Dividing, Ending, Divided
    <3>3. QED BY <3>2, <1>o DEF AllPlain
  <2>4. QED BY <2>1, <2>2, <2>3
<1>5. CASE SplitRead(t)
  <2>1. /\ pc[t] = "split" /\ spl[t].of \in Heads /\ spl[t].k = 1
        /\ \/ pc' = [pc EXCEPT ![t] = "gclock"] /\ SameSplit(t)
           \/ /\ pc' = [pc EXCEPT ![t] = "part"]
              /\ spl'[t].of = spl[t].of /\ spl'[t].k = 1
              /\ spl'[t].into = [k \in 1..2 |-> None]
    BY <1>5, ReadStep
  <2>2. app' = app /\ app[t].back = "idle"
    BY <1>5, <2>1, <1>g DEF SplitRead, AppendPCs
  <2>3. Plain(t)'
    BY <2>1, <2>2, <1>0, <1>f, <1>n DEF Plain, SameSplit, Dividing, Ending, Divided, SplitPCs
  <2>4. QED BY <2>3, <1>o DEF AllPlain
<1>6. CASE SplitPart(t)
  <2>1. pc[t] = "part" /\ app' = app /\ app[t].back = "idle" /\ spl[t].into[spl[t].k] = None
        /\ spl[t].of \in Published
    BY <1>6, <1>g, <1>f DEF SplitPart, AppendPCs, From, Plain, Dividing, Divided
  <2>2. PICK n \in Heads : index[n] = "absent" /\ spl' = [spl EXCEPT ![t].into[spl[t].k] = n]
    BY <1>6, <2>1 DEF SplitPart
  <2>3. pc'[t] = "publish"
    BY <1>0, <1>6, <2>1 DEF SplitPart, Goto
  <2>4. n # spl[t].of
    BY <2>1, <2>2 DEF Published
  <2>5. spl'[t].k = spl[t].k /\ spl'[t].into = [spl[t].into EXCEPT ![spl[t].k] = n] /\ spl'[t].of = spl[t].of
        /\ spl[t].into \in [1..2 -> Heads \cup {None}]
    BY <2>2, <1>0 DEF SplitFrameIn
  <2>6. Plain(t)'
    BY <2>1, <2>3, <2>4, <2>5, <1>f, <1>g DEF Plain, Dividing, Ending, Divided
  <2>7. QED BY <2>6, <1>o DEF AllPlain
<1>7. CASE SplitGcNormal(t) \/ SplitErase(t)
  <2>1. pc[t] \in {"gcnormal", "erase"} /\ app' = app /\ app[t].back = "idle"
    BY <1>7, <1>g DEF SplitGcNormal, SplitErase, AppendPCs, From
  <2>2. spl'[t] = NoSplit /\ pc'[t] \in {"idle", "spread"}
    BY <1>7, <1>0, <1>g DEF SplitGcNormal, SplitErase, ReturnSplit, Goto
  <2>3. Plain(t)'
    BY <2>1, <2>2 DEF Plain, Dividing, Ending, Divided, SplitPCs, NoSplit
  <2>4. QED BY <2>3, <1>o DEF AllPlain
<1>8. CASE SplitRetire(t)
  <2>1. pc[t] = "retire" /\ pc'[t] = "collect2" /\ app' = app /\ spl' = spl
        /\ UNCHANGED index
    BY <1>8, <1>0 DEF SplitRetire, From, Goto, locals
  <2>2. index[spl[t].of] = "deleted"
    BY <2>1 DEF Safe, Retiring
  <2>3. Plain(t)'
    BY <2>1, <2>2, <1>f DEF Plain, Dividing, Ending, Divided, SplitPCs
  <2>4. QED BY <2>3, <1>o DEF AllPlain
<1>9. QED BY <1>1, <1>2, <1>3, <1>4, <1>5, <1>6, <1>7, <1>8, StepKinds

-----------------------------------------------------------------------------
(* The owners of a mark: the thread that divides the head, a thread about  *)
(* to queue a split of it, a queued split.                                 *)
Marked ==
  /\ \A t \in Threads : Dividing(t) => status[spl[t].of] = "splitting"
  /\ \A t \in Threads : pc[t] = "enqueue" => status[app[t].at] = "splitting"
  /\ \A i \in DOMAIN jobs : SplitJob(i) => status[jobs[i].head] = "splitting"

(* A mark has one owner. *)
Sole ==
  /\ \A t, u \in Threads : t # u /\ Dividing(t) /\ Dividing(u) => spl[t].of # spl[u].of
  /\ \A t, u \in Threads : Dividing(t) /\ pc[u] = "enqueue" => spl[t].of # app[u].at
  /\ \A t, u \in Threads : t # u /\ pc[t] = "enqueue" /\ pc[u] = "enqueue" => app[t].at # app[u].at
  /\ \A t \in Threads, i \in DOMAIN jobs : Dividing(t) /\ SplitJob(i) => spl[t].of # jobs[i].head
  /\ \A t \in Threads, i \in DOMAIN jobs : pc[t] = "enqueue" /\ SplitJob(i) => app[t].at # jobs[i].head
  /\ \A i, j \in DOMAIN jobs : i # j /\ SplitJob(i) /\ SplitJob(j) => jobs[i].head # jobs[j].head

(* The queue after a step: the splits in it were there, d places further   *)
(* back.                                                                   *)
OldJobs(d) == \A i \in DOMAIN jobs' : SplitJob(i)' => i + d \in DOMAIN jobs /\ SplitJob(i + d)
                                                     /\ jobs'[i].head = jobs[i + d].head
KeptJobs(d) == \A i \in DOMAIN jobs : SplitJob(i) => i - d \in DOMAIN jobs' /\ SplitJob(i - d)'
                                                    /\ jobs'[i - d].head = jobs[i].head
SameJobs(d) == OldJobs(d) /\ KeptJobs(d)

LEMMA JobsQueued ==
  ASSUME NEW T, jobs \in Seq(T), \/ jobs' = jobs
                                 \/ \E j \in T : j.kind # "split" /\ jobs' = Append(jobs, j)
  PROVE  SameJobs(0)
<1>1. CASE jobs' = jobs
  <2>1. DOMAIN jobs \subseteq Int
    OBVIOUS
  <2>2. QED BY <1>1, <2>1 DEF SameJobs, OldJobs, KeptJobs, SplitJob
<1>2. CASE \E j \in T : j.kind # "split" /\ jobs' = Append(jobs, j)
  <2>1. PICK j \in T : j.kind # "split" /\ jobs' = Append(jobs, j)
    BY <1>2
  <2>2. /\ DOMAIN jobs' = 1..(Len(jobs) + 1) /\ DOMAIN jobs = 1..Len(jobs) /\ Len(jobs) \in Nat
        /\ jobs'[Len(jobs) + 1] = j
        /\ \A i \in DOMAIN jobs : jobs'[i] = jobs[i]
    BY <2>1
  <2>q. j.kind # "split"
    BY <2>1
  <2>3. OldJobs(0)
    <3> SUFFICES ASSUME NEW i \in DOMAIN jobs', jobs'[i].kind = "split"
                 PROVE  i + 0 \in DOMAIN jobs /\ SplitJob(i + 0) /\ jobs'[i].head = jobs[i + 0].head
      BY DEF OldJobs, SplitJob
    <3>1. i \in Nat /\ i # Len(jobs) + 1 /\ i + 0 = i
      <4>1. i \in Nat /\ i + 0 = i
        BY <2>2
      <4>2. jobs'[Len(jobs) + 1].kind # "split"
        BY <2>2, <2>q
      <4>3. QED BY <4>1, <4>2
    <3>2. i \in DOMAIN jobs /\ jobs'[i] = jobs[i]
      BY <2>2, <3>1
    <3>3. QED BY <3>1, <3>2 DEF SplitJob
  <2>4. KeptJobs(0)
    BY <2>2 DEF KeptJobs, SplitJob
  <2>5. QED BY <2>3, <2>4 DEF SameJobs
<1>3. QED BY <1>1, <1>2

LEMMA JobsTaken ==
  ASSUME NEW T, jobs \in Seq(T), jobs # << >>, jobs' = Tail(jobs)
  PROVE  /\ OldJobs(1) /\ 1 \in DOMAIN jobs /\ Head(jobs) = jobs[1]
         /\ \A i \in DOMAIN jobs' : i + 1 \in DOMAIN jobs /\ i + 1 # 1
         /\ \A i \in DOMAIN jobs : i # 1 /\ SplitJob(i) =>
              i - 1 \in DOMAIN jobs' /\ SplitJob(i - 1)' /\ jobs'[i - 1].head = jobs[i].head
<1>1. /\ DOMAIN jobs' = 1..(Len(jobs) - 1) /\ DOMAIN jobs = 1..Len(jobs) /\ Len(jobs) \in Nat \ {0}
      /\ \A i \in DOMAIN jobs' : jobs'[i] = jobs[i + 1]
  OBVIOUS
<1>2. QED BY <1>1 DEF OldJobs, SplitJob

(* Most steps give no mark an owner and take none from it. *)
MarksStand(t) ==
  /\ status' = status
  /\ pc[t] # "enqueue" /\ pc'[t] # "enqueue"
  /\ Dividing(t)' <=> Dividing(t)
  /\ Dividing(t) => spl'[t].of = spl[t].of
  /\ SameJobs(0)
Marking(t) == \/ TakeJob(t) \/ AppendGrow(t) \/ AppendEnqueue(t) \/ SplitPart(t)
              \/ SplitGcNormal(t) \/ SplitRetire(t)

LEMMA QueueStep ==
  ASSUME Safe, AllPlain, NEW t \in Threads, AddIndex(t) \/ Step(t), ~TakeJob(t), ~AppendEnqueue(t)
  PROVE  SameJobs(0)
<1>0. /\ jobs \in Seq(JobIn(Reached, Published)) /\ app[t] \in AppendFrameIn(Reached, Published)
      /\ spl[t] \in SplitFrameIn(Reached, Published) /\ cache \in [Heads -> SUBSET Reached]
  BY DEF Safe, Typed
<1>1. CASE jobs' = jobs
  BY <1>0, <1>1, JobsQueued
<1>2. ASSUME NEW kind \in {"append", "reassign"}, NEW h \in Published, NEW Z \in SUBSET Reached,
             jobs' = Enqueued(kind, h, Z)
      PROVE  SameJobs(0)
  <2>1. [kind |-> kind, head |-> h, copies |-> Z] \in JobIn(Reached, Published)
    BY DEF JobIn
  <2>2. QED BY <1>0, <1>2, <2>1, JobsQueued DEF Enqueued
<1>3. AddIndex(t) \/ InsertNext(t) \/ Reassign(t) => jobs' = jobs
  BY DEF AddIndex, InsertNext, Reassign, ReassignSelect, ReassignCheck, ReassignBump,
         ReassignSpread, pool
<1>4. ConcurrentAppend(t) /\ ~AppendMiss(t) => jobs' = jobs
  BY DEF ConcurrentAppend, AppendEnter, AppendBranch, AppendLook, AppendCache, AppendGet,
         AppendPut, AppendCount, AppendGrow, pool
<1>5. CASE AppendMiss(t)
  <2>1. app[t].at \in Published /\ app[t].batch \subseteq Reached
    BY <1>0, <1>5, Frame1 DEF AppendMiss, From, AppendPCs, AppendFrameIn
  <2>2. jobs' = jobs \/ \E c \in app[t].batch : jobs' = Enqueued("reassign", app[t].at, {c})
    BY <1>5 DEF AppendMiss
  <2>3. QED BY <1>1, <1>2, <2>1, <2>2
<1>6. CASE SplitGcFlush(t)
  <2>1. spl[t].of \in Published /\ spl[t].of \in Heads
    BY <1>6, Frame1 DEF SplitGcFlush, From, Dividing, Divided, Published
  <2>2. jobs' = jobs \/ jobs' = Enqueued("append", spl[t].of, cache[spl[t].of])
    BY <1>6 DEF SplitGcFlush
  <2>3. QED BY <1>0, <1>1, <1>2, <2>1, <2>2
<1>7. CASE SplitScan(t)
  <2>1. spl[t].todo \subseteq Reached
    BY <1>0 DEF SplitFrameIn
  <2>2. pc[t] = "scan"
    BY <1>7 DEF SplitScan, From
  <2>3. \A k \in 1..2 : spl[t].into[k] \in Published
    <3>1. \A k \in 1..2 : spl[t].into[k] \in Published \cup {None}
      BY <2>2 DEF Safe, IntoIn
    <3>2. spl[t].into[1] # None /\ spl[t].into[2] # None
      BY <2>2 DEF Safe, Frames, Frame, Placed
    <3>3. QED BY <3>1, <3>2
  <2>4. jobs' = jobs \/ \E c \in spl[t].todo, k \in 1..2 : jobs' = Enqueued("reassign", spl[t].into[k], {c})
    BY <1>7 DEF SplitScan
  <2>5. QED BY <1>1, <1>2, <2>1, <2>3, <2>4
<1>8. ConcurrentSplit(t) /\ ~SplitGcFlush(t) /\ ~SplitScan(t) => jobs' = jobs
  BY NoOptStep DEF ConcurrentSplit, SplitRead, SplitLock, SplitGcSize, SplitGcPut, SplitGcErase,
     SplitGcNormal, SplitPart, SplitPublish, SplitPartSize, SplitCollect, SplitFlush, SplitUnindex,
     SplitShrink, SplitRetire, SplitErase, pool
<1>9. QED BY <1>1, <1>3, <1>4, <1>5, <1>6, <1>7, <1>8 DEF Step

LEMMA QuietStep ==
  ASSUME SameHead = FALSE, Safe, AllPlain, NEW t \in Threads, AddIndex(t) \/ Step(t), ~Marking(t)
  PROVE  MarksStand(t)
<1>1. SameJobs(0)
  BY QueueStep DEF Marking
<1>2. CASE Apart(t)
  <2>1. SameStage(t)
    BY <1>2, ApartStep
  <2>2. pc \in [Threads -> PC] /\ app[t].back # "enqueue" /\ spl[t].caller # "enqueue"
    BY Frame1 DEF Safe, Typed
  <2>3. status' = status /\ pc[t] # "enqueue" /\ pc'[t] # "enqueue"
    BY <1>2, <2>2 DEF Marking, Apart, AddIndex, InsertNext, Reassign, ReassignSelect, ReassignCheck,
       ReassignBump, ReassignSpread, ConcurrentAppend, AppendEnter, AppendMiss, AppendBranch,
       AppendLook, AppendCache, AppendGet, AppendPut, AppendCount, CallAppend, ReturnAppend, Finish,
       From, Goto, marks
  <2>4. QED BY <1>1, <2>1, <2>3 DEF MarksStand, SameStage, SameSplit
<1>3. CASE Working(t)
  <2>1. /\ SameSplit(t) /\ pc[t] \in SplitPCs /\ Follows(pc[t], pc'[t])
        /\ Dividing(t)' <=> Dividing(t)
        /\ SplitUnindex(t) => status' = status
    BY <1>3, WorkStep
  <2>2. pc[t] # "enqueue" /\ pc'[t] # "enqueue"
    BY <2>1 DEF Follows, SplitPCs
  <2>3. status' = status
    BY <1>3, <2>1 DEF Working, SplitLock, SplitGcSize, SplitGcPut, SplitGcErase, SplitGcFlush,
       SplitPublish, SplitPartSize, SplitScan, SplitCollect, SplitFlush, SplitShrink, marks
  <2>4. QED BY <1>1, <2>1, <2>2, <2>3 DEF MarksStand, SameSplit
<1>4. CASE SplitRead(t)
  <2>1. pc[t] = "split" /\ pc'[t] \in {"gclock", "part"} /\ spl'[t].of = spl[t].of
    <3>1. pc \in [Threads -> PC]
      BY DEF Safe, Typed
    <3>2. QED BY <1>4, <3>1, ReadStep DEF SameSplit
  <2>2. status' = status
    BY <1>4 DEF SplitRead, marks
  <2>3. QED BY <1>1, <2>1, <2>2 DEF MarksStand, Dividing, Divided
<1>5. CASE SplitErase(t)
  <2>1. pc[t] = "erase" /\ app' = app /\ status' = status /\ app[t].back = "idle"
    BY <1>5, Frame1 DEF SplitErase, From, AppendPCs, marks
  <2>2. pc'[t] \in {"idle", "spread"}
    <3>1. pc \in [Threads -> PC]
      BY DEF Safe, Typed
    <3>2. QED BY <1>5, <3>1, Frame1 DEF SplitErase, ReturnSplit, Goto
  <2>3. QED BY <1>1, <2>1, <2>2 DEF MarksStand, Dividing, Divided
<1>6. QED BY <1>2, <1>3, <1>4, <1>5, StepKinds DEF Marking

(* No owner is new. *)
OldOwners(d) ==
  /\ \A u \in Threads : Dividing(u)' => Dividing(u) /\ spl'[u].of = spl[u].of
  /\ \A u \in Threads : pc'[u] = "enqueue" => pc[u] = "enqueue" /\ app'[u].at = app[u].at
  /\ OldJobs(d)

LEMMA FewerOwners ==
  ASSUME Sole, NEW d \in Int, OldOwners(d), DOMAIN jobs' \subseteq Int
  PROVE  Sole'
BY DEF Sole, OldOwners, OldJobs

LEMMA QuietOwners ==
  ASSUME Marked, Sole, NEW t \in Threads, Others(t), NEW d \in Int, OldJobs(d), DOMAIN jobs' \subseteq Int,
         status' = status,
         pc[t] # "enqueue" /\ pc'[t] # "enqueue",
         Dividing(t)' => Dividing(t) /\ spl'[t].of = spl[t].of
  PROVE  Marked' /\ Sole'
<1>1. \A u \in Threads : Dividing(u)' => Dividing(u) /\ spl'[u].of = spl[u].of
  BY DEF Others, Dividing
<1>2. \A u \in Threads : pc'[u] = "enqueue" => pc[u] = "enqueue" /\ app'[u].at = app[u].at
  BY DEF Others
<1>3. Sole'
  BY <1>1, <1>2, FewerOwners DEF OldOwners
<1>4. Marked'
  BY <1>1, <1>2 DEF Marked, OldJobs
<1>5. QED BY <1>3, <1>4

(* An owner has published the head. *)
LEMMA OwnersPublished ==
  ASSUME Safe, AllPlain
  PROVE  /\ \A u \in Threads : Dividing(u) => spl[u].of \in Published
         /\ \A u \in Threads : pc[u] = "enqueue" => app[u].at \in Published
         /\ \A i \in DOMAIN jobs : SplitJob(i) => jobs[i].head \in Published
<1>1. \A u \in Threads : Dividing(u) => spl[u].of \in Published
  BY Frame1
<1>2. \A u \in Threads : pc[u] = "enqueue" => app[u].at \in Published
  BY Frame1 DEF AppendPCs
<1>3. \A i \in DOMAIN jobs : jobs[i].head \in Published
  <2>1. jobs \in Seq(JobIn(Reached, Published))
    BY DEF Safe, Typed
  <2>2. \A i \in DOMAIN jobs : jobs[i] \in JobIn(Reached, Published)
    BY <2>1
  <2>3. QED BY <2>2 DEF JobIn
<1>4. QED BY <1>1, <1>2, <1>3

(* How the steps that mark, unmark and take jobs change the owners.        *)
LEMMA TakeStep ==
  ASSUME Safe, AllPlain, NEW t \in Threads, TakeJob(t)
  PROVE  /\ jobs \in Seq(JobIn(Reached, Published)) /\ jobs # << >> /\ jobs' = Tail(jobs)
         /\ status' = status /\ splitList' = splitList /\ index' = index
         /\ pc[t] = "idle" /\ pc'[t] \in {"append", "split", "reassign"}
         /\ ~Dividing(t) /\ ~Ending(t) /\ ~Ending(t)'
         /\ Head(jobs).kind # "split" => ~Dividing(t)'
         /\ Head(jobs).kind = "split" => Dividing(t)' /\ pc'[t] = "split" /\ spl'[t].of = Head(jobs).head
         /\ app'[t].back = "idle"
<1>0. /\ pc \in [Threads -> PC] /\ app \in [Threads -> AppendFrameIn(Reached, Published)]
      /\ spl \in [Threads -> SplitFrameIn(Reached, Published)] /\ jobs \in Seq(JobIn(Reached, Published))
  BY DEF Safe, Typed
<1>1. pc[t] = "idle" /\ app[t].back = "idle" /\ jobs # << >>
  BY Frame1 DEF TakeJob, From, AppendPCs
<1>2. Head(jobs).kind = "append" => pc'[t] = "append" /\ app'[t].back = "idle"
  BY <1>0 DEF TakeJob, CallAppend, Goto
<1>3. Head(jobs).kind = "reassign" => pc'[t] = "reassign" /\ app' = app
  BY <1>0 DEF TakeJob, Goto
<1>4. Head(jobs).kind = "split" => pc'[t] = "split" /\ app'[t].back = "idle" /\ spl'[t].of = Head(jobs).head
  <2> SUFFICES ASSUME Head(jobs).kind = "split"
               PROVE  pc'[t] = "split" /\ app'[t].back = "idle" /\ spl'[t].of = Head(jobs).head
    OBVIOUS
  <2>1. CallSplit(t, Head(jobs).head, "idle")
    BY DEF TakeJob
  <2>2. PICK h : h = Head(jobs).head
    OBVIOUS
  <2>3. /\ app' = [app EXCEPT ![t] = NoAppend] /\ pc' = [pc EXCEPT ![t] = "split"]
        /\ spl' = [spl EXCEPT ![t] = [NoSplit EXCEPT !.of = h, !.caller = "idle"]]
    BY <2>1, <2>2 DEF CallSplit, Goto
  <2>4. QED BY <1>0, <2>2, <2>3 DEF NoAppend, NoSplit
<1>5. Head(jobs).kind \in {"append", "split", "reassign"}
  BY DEF TakeJob
<1>6. jobs' = Tail(jobs) /\ UNCHANGED <<marks, splitList>>
  BY DEF TakeJob
<1>7. QED BY <1>0, <1>1, <1>2, <1>3, <1>4, <1>5, <1>6 DEF Dividing, Ending, Divided, marks

LEMMA GrowStep ==
  ASSUME Safe, AllPlain, NEW t \in Threads, AppendGrow(t)
  PROVE  /\ pc[t] = "grow" /\ app[t].at \in Published
         /\ jobs' = jobs /\ splitList' = splitList /\ index' = index
         /\ rwLock' = [rwLock EXCEPT ![app[t].at] = None]
         /\ \/ /\ status' = status /\ spl' = spl
               /\ pc'[t] = app[t].back /\ app'[t].back = "idle"
               /\ Dividing(t)' <=> Dividing(t)
               /\ Ending(t)' <=> Ending(t)
            \/ /\ status' = [status EXCEPT ![app[t].at] = "splitting"] /\ spl' = spl
               /\ pc'[t] = "enqueue" /\ app' = app
               /\ Dividing(t)' <=> Dividing(t)
               /\ Ending(t)' <=> Ending(t)
            \/ /\ status' = [status EXCEPT ![app[t].at] = "splitting"]
               /\ pc'[t] = "split" /\ app'[t].back = "idle" /\ spl'[t].of = app[t].at
               /\ Dividing(t)' /\ ~Dividing(t) /\ ~Ending(t) /\ ~Ending(t)'
<1>0. /\ pc \in [Threads -> PC] /\ app \in [Threads -> AppendFrameIn(Reached, Published)]
      /\ spl \in [Threads -> SplitFrameIn(Reached, Published)]
  BY DEF Safe, Typed
<1>1. /\ pc[t] = "grow" /\ app[t].at \in Published
      /\ app[t].back \in {"idle", "insert", "spread", "flush1", "flush2"}
      /\ app[t].back = "spread" => ~Dividing(t) /\ ~Ending(t)
      /\ app[t].slack # 0 => app[t].back = "spread"
  BY Frame1 DEF AppendGrow, From, AppendPCs
<1>2. jobs' = jobs /\ splitList' = splitList /\ index' = index
      /\ rwLock' = [rwLock EXCEPT ![app[t].at] = None]
  BY DEF AppendGrow, pool
<1>3. CASE ReturnAppend(t) /\ UNCHANGED <<status, spl>>
  <2>1. pc'[t] = app[t].back /\ app'[t].back = "idle"
    BY <1>3, <1>0 DEF ReturnAppend, Goto, NoAppend
  <2>2. QED BY <1>1, <1>2, <1>3, <2>1 DEF Dividing, Ending, Divided
<1>4. CASE /\ status' = [status EXCEPT ![app[t].at] = "splitting"]
           /\ Goto(t, "enqueue") /\ UNCHANGED <<app, spl>>
  <2>1. pc'[t] = "enqueue" /\ app' = app /\ spl' = spl
    BY <1>4, <1>0 DEF Goto
  <2>2. QED BY <1>1, <1>2, <1>4, <2>1 DEF Dividing, Ending, Divided
<1>5. CASE /\ app[t].slack # 0
           /\ status' = [status EXCEPT ![app[t].at] = "splitting"]
           /\ CallSplit(t, app[t].at, "spread")
  <2>1. pc'[t] = "split" /\ app'[t].back = "idle" /\ spl'[t].of = app[t].at
    BY <1>5, <1>0 DEF CallSplit, Goto, NoAppend, NoSplit
  <2>2. QED BY <1>1, <1>2, <1>5, <2>1 DEF Dividing, Ending, Divided
<1>6. QED BY <1>3, <1>4, <1>5 DEF AppendGrow

LEMMA EnqueueStep ==
  ASSUME Safe, AllPlain, NEW t \in Threads, AppendEnqueue(t)
  PROVE  /\ pc[t] = "enqueue" /\ app[t].at \in Published
         /\ pc'[t] # "enqueue" /\ status' = status /\ index' = index /\ spl' = spl
         /\ Dividing(t)' <=> Dividing(t)
         /\ jobs \in Seq(JobIn(Reached, Published))
         /\ \/ app[t].at \in splitList /\ jobs' = jobs /\ splitList' = splitList
            \/ /\ app[t].at \notin splitList /\ splitList' = splitList \cup {app[t].at}
               /\ jobs' = Append(jobs, [kind |-> "split", head |-> app[t].at, copies |-> {}])
         /\ pc'[t] = app[t].back
<1>0. /\ pc \in [Threads -> PC] /\ app \in [Threads -> AppendFrameIn(Reached, Published)]
      /\ jobs \in Seq(JobIn(Reached, Published))
  BY DEF Safe, Typed
<1>1. /\ pc[t] = "enqueue" /\ app[t].at \in Published
      /\ app[t].back \in {"idle", "insert", "spread", "flush1", "flush2"}
  BY Frame1 DEF AppendEnqueue, From, AppendPCs
<1>2. pc'[t] = app[t].back /\ app'[t].back = "idle" /\ status' = status /\ index' = index /\ spl' = spl
  BY <1>0 DEF AppendEnqueue, ReturnAppend, Goto, NoAppend, marks
<1>3. Dividing(t)' <=> Dividing(t)
  BY <1>1, <1>2 DEF Dividing, Divided
<1>4. \/ app[t].at \in splitList /\ jobs' = jobs /\ splitList' = splitList
      \/ /\ app[t].at \notin splitList /\ splitList' = splitList \cup {app[t].at}
         /\ jobs' = Append(jobs, [kind |-> "split", head |-> app[t].at, copies |-> {}])
  BY DEF AppendEnqueue, SplitAsync, Enqueued, pool
<1>5. QED BY <1>0, <1>1, <1>2, <1>3, <1>4

LEMMA UnmarkStep ==
  ASSUME Safe, AllPlain, NEW t \in Threads, SplitGcNormal(t) \/ SplitRetire(t)
  PROVE  /\ Dividing(t) /\ ~Dividing(t)' /\ pc'[t] # "enqueue" /\ pc[t] \in {"gcnormal", "retire"}
         /\ spl[t].of \in Published /\ splitList' = splitList /\ index' = index
         /\ \E s \in Status \ {"splitting"} : status' = [status EXCEPT ![spl[t].of] = s]
         /\ app' = app
<1>0. pc \in [Threads -> PC]
  BY DEF Safe, Typed
<1>1. pc[t] \in {"gcnormal", "retire"} /\ app' = app /\ app[t].back = "idle"
  BY Frame1 DEF SplitGcNormal, SplitRetire, From, AppendPCs, locals
<1>2. pc'[t] \in {"idle", "spread", "collect2"}
  BY <1>0, Frame1 DEF SplitGcNormal, SplitRetire, ReturnSplit, Goto
<1>3. Dividing(t) /\ ~Dividing(t)' /\ spl[t].of \in Published
  BY <1>1, <1>2, Frame1 DEF Dividing, Divided
<1>4. \E s \in Status \ {"splitting"} : status' = [status EXCEPT ![spl[t].of] = s]
  BY DEF SplitGcNormal, SplitRetire, Status
<1>5. splitList' = splitList /\ index' = index
  BY DEF SplitGcNormal, SplitRetire, pool
<1>6. QED BY <1>1, <1>2, <1>3, <1>4, <1>5

LEMMA PlaceStep ==
  ASSUME Safe, AllPlain, NEW t \in Threads, SplitPart(t)
  PROVE  /\ pc[t] = "part" /\ pc'[t] = "publish" /\ Dividing(t) /\ Dividing(t)' /\ app' = app
         /\ spl[t].of \in Published /\ spl'[t].of = spl[t].of /\ spl'[t].k = spl[t].k
         /\ spl'[t].parts = spl[t].parts /\ splitList' = splitList
         /\ \E n \in Heads :
              /\ index[n] = "absent" /\ rwLock[n] = None
              /\ index' = [index EXCEPT ![n] = "adding"]
              /\ status' = [status EXCEPT ![n] = "normal"]
              /\ posting' = [posting EXCEPT ![n] = spl[t].parts[spl[t].k]]
              /\ rwLock' = [rwLock EXCEPT ![n] = t]
              /\ spl'[t].into = [spl[t].into EXCEPT ![spl[t].k] = n]
<1>0. pc \in [Threads -> PC] /\ spl \in [Threads -> SplitFrameIn(Reached, Published)]
  BY DEF Safe, Typed
<1>1. pc[t] = "part" /\ app' = app /\ splitList' = splitList
  BY DEF SplitPart, From, pool
<1>2. spl[t].into[spl[t].k] = None /\ Dividing(t) /\ spl[t].of \in Published
  BY <1>1, Frame1 DEF AllPlain, Plain, Dividing, Divided
<1>3. pc'[t] = "publish"
  BY <1>0, <1>2 DEF SplitPart, Goto
<1>4. PICK n \in Heads :
        /\ index[n] = "absent" /\ rwLock[n] = None
        /\ index' = [index EXCEPT ![n] = "adding"]
        /\ status' = [status EXCEPT ![n] = "normal"]
        /\ posting' = [posting EXCEPT ![n] = spl[t].parts[spl[t].k]]
        /\ rwLock' = [rwLock EXCEPT ![n] = t]
        /\ spl' = [spl EXCEPT ![t].into[spl[t].k] = n]
  BY <1>2 DEF SplitPart
<1>5. /\ spl'[t].of = spl[t].of /\ spl'[t].k = spl[t].k /\ spl'[t].parts = spl[t].parts
      /\ spl'[t].into = [spl[t].into EXCEPT ![spl[t].k] = n]
  BY <1>0, <1>4 DEF SplitFrameIn
<1>6. QED BY <1>1, <1>2, <1>3, <1>4, <1>5 DEF Dividing, Divided

-----------------------------------------------------------------------------
(* Locks and marks. *)
Locked ==
  \A t \in Threads : /\ Holding(t) => rwLock[app[t].at] = t
                     /\ Writing(t) => status[app[t].at] # "splitting"
                     /\ pc[t] = "publish" => rwLock[spl[t].into[spl[t].k]] = t

(* A mark keeps its one owner. *)
LEMMA OwnersStep ==
  ASSUME SameHead = FALSE, Safe, AllPlain, Marked, Sole, Locked,
         NEW t \in Threads, AddIndex(t) \/ Step(t)
  PROVE  Marked' /\ Sole'
<1>0. Others(t)
  BY StepLocal DEF Safe
<1>1. DOMAIN jobs' \subseteq Int
  <2>1. Safe'
    BY NextSafe DEF Next
  <2>2. jobs' \in Seq(JobIn(Reached, Published)')
    BY <2>1 DEF Safe, Typed
  <2>3. QED BY <2>2
<1>2. CASE ~Marking(t)
  <2>1. MarksStand(t)
    BY <1>2, QuietStep
  <2>2. QED BY <1>0, <1>1, <2>1, QuietOwners DEF MarksStand, SameJobs
<1>3. CASE TakeJob(t) /\ Head(jobs).kind # "split"
  <2>1. OldJobs(1) /\ status' = status /\ ~Dividing(t)' /\ pc[t] # "enqueue" /\ pc'[t] # "enqueue"
    BY <1>3, TakeStep, JobsTaken
  <2>2. QED BY <1>0, <1>1, <2>1, QuietOwners
<1>4. CASE TakeJob(t) /\ Head(jobs).kind = "split"
  <2>1. PICK h : h = Head(jobs).head
    OBVIOUS
  <2>2. /\ OldJobs(1) /\ SplitJob(1) /\ jobs[1].head = h /\ 1 \in DOMAIN jobs
        /\ \A i \in DOMAIN jobs' : i + 1 \in DOMAIN jobs /\ i + 1 # 1
        /\ status' = status /\ pc[t] # "enqueue" /\ pc'[t] # "enqueue"
        /\ Dividing(t)' /\ spl'[t].of = h
    BY <1>4, <2>1, TakeStep, JobsTaken DEF SplitJob
  <2>3. \A u \in Threads : u # t /\ Dividing(u)' => Dividing(u) /\ spl'[u].of = spl[u].of
    BY <1>0 DEF Others, Dividing
  <2>4. \A u \in Threads : pc'[u] = "enqueue" => u # t /\ pc[u] = "enqueue" /\ app'[u].at = app[u].at
    BY <1>0, <2>2 DEF Others
  <2>5. Marked'
    BY <2>2, <2>3, <2>4 DEF Marked, OldJobs
  <2>6. Sole'
    <3>1. \A u, v \in Threads : u # v /\ Dividing(u)' /\ Dividing(v)' => spl'[u].of # spl'[v].of
      BY <2>2, <2>3 DEF Sole
    <3>2. \A u, v \in Threads : Dividing(u)' /\ pc'[v] = "enqueue" => spl'[u].of # app'[v].at
      BY <2>2, <2>3, <2>4 DEF Sole
    <3>3. \A u, v \in Threads : u # v /\ pc'[u] = "enqueue" /\ pc'[v] = "enqueue" => app'[u].at # app'[v].at
      BY <2>4 DEF Sole
    <3>4. \A u \in Threads, i \in DOMAIN jobs' : Dividing(u)' /\ SplitJob(i)' => spl'[u].of # jobs'[i].head
      BY <2>2, <2>3 DEF Sole, OldJobs
    <3>5. \A u \in Threads, i \in DOMAIN jobs' : pc'[u] = "enqueue" /\ SplitJob(i)' => app'[u].at # jobs'[i].head
      BY <2>2, <2>4 DEF Sole, OldJobs
    <3>6. \A i, j \in DOMAIN jobs' : i # j /\ SplitJob(i)' /\ SplitJob(j)' => jobs'[i].head # jobs'[j].head
      BY <1>1, <2>2 DEF Sole, OldJobs
    <3>7. QED BY <3>1, <3>2, <3>3, <3>4, <3>5, <3>6 DEF Sole
  <2>7. QED BY <2>5, <2>6
<1>5. CASE AppendGrow(t)
  <2>0. status \in [Heads -> Status] /\ Published \subseteq Heads
    BY DEF Safe, Typed, Published
  <2>1. /\ pc[t] = "grow" /\ app[t].at \in Published /\ jobs' = jobs
        /\ status[app[t].at] # "splitting"
    BY <1>5, GrowStep DEF Locked, Writing
  <2>2. PICK h \in Published : h = app[t].at
    BY <2>1
  <2>3. /\ \A u \in Threads : Dividing(u) => spl[u].of # h
        /\ \A u \in Threads : pc[u] = "enqueue" => app[u].at # h
        /\ \A i \in DOMAIN jobs : SplitJob(i) => jobs[i].head # h
    BY <2>1, <2>2 DEF Marked
  <2>4. SameJobs(0)
    BY <1>5, QueueStep DEF AppendGrow, TakeJob, AppendEnqueue, From
  <2>5. CASE /\ status' = status /\ spl' = spl
             /\ pc'[t] # "enqueue" /\ (Dividing(t)' <=> Dividing(t))
    BY <1>0, <1>1, <2>1, <2>4, <2>5, QuietOwners DEF SameJobs
  <2>6. CASE /\ status' = [status EXCEPT ![app[t].at] = "splitting"] /\ spl' = spl
             /\ pc'[t] = "enqueue" /\ app' = app
             /\ Dividing(t)' <=> Dividing(t)
    <3>1. status' = [status EXCEPT ![h] = "splitting"] /\ app'[t].at = h
      BY <2>2, <2>6
    <3>2. \A u \in Threads : Dividing(u)' => Dividing(u) /\ spl'[u].of = spl[u].of
      BY <1>0, <2>6 DEF Others, Dividing
    <3>3. \A u \in Threads : u # t /\ pc'[u] = "enqueue" => pc[u] = "enqueue" /\ app'[u].at = app[u].at
      BY <1>0 DEF Others
    <3>4. /\ \A u \in Threads : Dividing(u)' => spl'[u].of # h
          /\ \A u \in Threads : u # t /\ pc'[u] = "enqueue" => app'[u].at # h
          /\ \A i \in DOMAIN jobs' : SplitJob(i)' => jobs'[i].head # h
      BY <2>1, <2>3, <3>2, <3>3 DEF SplitJob
    <3>5. Marked'
      <4>1. \A u \in Threads : Dividing(u)' => status'[spl'[u].of] = "splitting"
        <5> TAKE u \in Threads
        <5> HAVE Dividing(u)'
        <5>1. Dividing(u) /\ spl'[u].of = spl[u].of /\ spl[u].of \in Published
          BY <3>2, OwnersPublished
        <5>2. QED BY <5>1, <3>1, <2>0 DEF Marked
      <4>2. \A u \in Threads : pc'[u] = "enqueue" => status'[app'[u].at] = "splitting"
        <5> TAKE u \in Threads
        <5> HAVE pc'[u] = "enqueue"
        <5>1. CASE u = t
          BY <5>1, <3>1, <2>0
        <5>2. CASE u # t
          BY <5>2, <3>1, <3>3, <2>0, OwnersPublished DEF Marked
        <5>3. QED BY <5>1, <5>2
      <4>3. \A i \in DOMAIN jobs' : SplitJob(i)' => status'[jobs'[i].head] = "splitting"
        <5> TAKE i \in DOMAIN jobs'
        <5> HAVE SplitJob(i)'
        <5>1. i \in DOMAIN jobs /\ SplitJob(i) /\ jobs'[i] = jobs[i]
          BY <2>1 DEF SplitJob
        <5>2. jobs[i].head \in Published /\ status[jobs[i].head] = "splitting"
          BY <5>1, OwnersPublished DEF Marked
        <5>3. QED BY <5>1, <5>2, <3>1, <2>0
      <4>4. QED BY <4>1, <4>2, <4>3 DEF Marked
    <3>6. Sole'
      <4>1. \A u, v \in Threads : u # v /\ Dividing(u)' /\ Dividing(v)' => spl'[u].of # spl'[v].of
        BY <3>2 DEF Sole
      <4>2. \A u, v \in Threads : Dividing(u)' /\ pc'[v] = "enqueue" => spl'[u].of # app'[v].at
        BY <3>1, <3>2, <3>3, <3>4 DEF Sole
      <4>3. \A u, v \in Threads : u # v /\ pc'[u] = "enqueue" /\ pc'[v] = "enqueue" => app'[u].at # app'[v].at
        BY <3>1, <3>3, <3>4 DEF Sole
      <4>4. \A u \in Threads, i \in DOMAIN jobs' : Dividing(u)' /\ SplitJob(i)' => spl'[u].of # jobs'[i].head
        BY <2>1, <3>2 DEF Sole, SplitJob
      <4>5. \A u \in Threads, i \in DOMAIN jobs' : pc'[u] = "enqueue" /\ SplitJob(i)' => app'[u].at # jobs'[i].head
        BY <2>1, <3>1, <3>3, <3>4 DEF Sole, SplitJob
      <4>6. \A i, j \in DOMAIN jobs' : i # j /\ SplitJob(i)' /\ SplitJob(j)' => jobs'[i].head # jobs'[j].head
        BY <2>1 DEF Sole, SplitJob
      <4>7. QED BY <4>1, <4>2, <4>3, <4>4, <4>5, <4>6 DEF Sole
    <3>7. QED BY <3>5, <3>6
  <2>7. CASE /\ status' = [status EXCEPT ![app[t].at] = "splitting"]
             /\ pc'[t] = "split" /\ spl'[t].of = app[t].at
             /\ Dividing(t)' /\ ~Dividing(t)
    <3>1. status' = [status EXCEPT ![h] = "splitting"] /\ spl'[t].of = h
      BY <2>2, <2>7
    <3>2. \A u \in Threads : u # t /\ Dividing(u)' => Dividing(u) /\ spl'[u].of = spl[u].of
      BY <1>0 DEF Others, Dividing
    <3>3. \A u \in Threads : pc'[u] = "enqueue" => u # t /\ pc[u] = "enqueue" /\ app'[u].at = app[u].at
      BY <1>0, <2>7 DEF Others
    <3>5. Marked'
      <4>1. \A u \in Threads : Dividing(u)' => status'[spl'[u].of] = "splitting"
        <5> TAKE u \in Threads
        <5> HAVE Dividing(u)'
        <5>1. CASE u = t
          BY <5>1, <3>1, <2>0
        <5>2. CASE u # t
          BY <5>2, <3>1, <3>2, <2>0, OwnersPublished DEF Marked
        <5>3. QED BY <5>1, <5>2
      <4>2. \A u \in Threads : pc'[u] = "enqueue" => status'[app'[u].at] = "splitting"
        BY <3>1, <3>3, <2>0, OwnersPublished DEF Marked
      <4>3. \A i \in DOMAIN jobs' : SplitJob(i)' => status'[jobs'[i].head] = "splitting"
        <5> TAKE i \in DOMAIN jobs'
        <5> HAVE SplitJob(i)'
        <5>1. i \in DOMAIN jobs /\ SplitJob(i) /\ jobs'[i] = jobs[i]
          BY <2>1 DEF SplitJob
        <5>2. jobs[i].head \in Published /\ status[jobs[i].head] = "splitting"
          BY <5>1, OwnersPublished DEF Marked
        <5>3. QED BY <5>1, <5>2, <3>1, <2>0
      <4>4. QED BY <4>1, <4>2, <4>3 DEF Marked
    <3>6. Sole'
      <4>1. \A u, v \in Threads : u # v /\ Dividing(u)' /\ Dividing(v)' => spl'[u].of # spl'[v].of
        BY <2>3, <3>1, <3>2 DEF Sole
      <4>2. \A u, v \in Threads : Dividing(u)' /\ pc'[v] = "enqueue" => spl'[u].of # app'[v].at
        BY <2>3, <3>1, <3>2, <3>3 DEF Sole
      <4>3. \A u, v \in Threads : u # v /\ pc'[u] = "enqueue" /\ pc'[v] = "enqueue" => app'[u].at # app'[v].at
        BY <3>3 DEF Sole
      <4>4. \A u \in Threads, i \in DOMAIN jobs' : Dividing(u)' /\ SplitJob(i)' => spl'[u].of # jobs'[i].head
        BY <2>1, <2>3, <3>1, <3>2 DEF Sole, SplitJob
      <4>5. \A u \in Threads, i \in DOMAIN jobs' : pc'[u] = "enqueue" /\ SplitJob(i)' => app'[u].at # jobs'[i].head
        BY <2>1, <3>3 DEF Sole, SplitJob
      <4>6. \A i, j \in DOMAIN jobs' : i # j /\ SplitJob(i)' /\ SplitJob(j)' => jobs'[i].head # jobs'[j].head
        BY <2>1 DEF Sole, SplitJob
      <4>7. QED BY <4>1, <4>2, <4>3, <4>4, <4>5, <4>6 DEF Sole
    <3>7. QED BY <3>5, <3>6
  <2>8. app[t].back # "enqueue"
    BY Frame1
  <2>9. QED BY <1>5, <2>5, <2>6, <2>7, <2>8, GrowStep
<1>6. CASE AppendEnqueue(t)
  <2>1. /\ pc[t] = "enqueue" /\ pc'[t] # "enqueue" /\ status' = status /\ spl' = spl
        /\ Dividing(t)' <=> Dividing(t)
        /\ jobs \in Seq(JobIn(Reached, Published))
    BY <1>6, EnqueueStep
  <2>2. PICK h : h = app[t].at
    OBVIOUS
  <2>3. \A u \in Threads : Dividing(u)' => Dividing(u) /\ spl'[u].of = spl[u].of
    BY <1>0, <2>1 DEF Others, Dividing
  <2>4. \A u \in Threads : pc'[u] = "enqueue" => u # t /\ pc[u] = "enqueue" /\ app'[u].at = app[u].at
    BY <1>0, <2>1 DEF Others
  <2>5. CASE jobs' = jobs
    <3>1. OldJobs(0)
      BY <2>5, <2>1, JobsQueued DEF SameJobs
    <3>2. Sole'
      BY <1>1, <2>3, <2>4, <3>1, FewerOwners DEF OldOwners
    <3>3. Marked'
      BY <2>1, <2>3, <2>4, <3>1 DEF Marked, OldJobs
    <3>4. QED BY <3>2, <3>3
  <2>6. CASE jobs' = Append(jobs, [kind |-> "split", head |-> h, copies |-> {}])
    <3>1. /\ DOMAIN jobs' = 1..(Len(jobs) + 1) /\ DOMAIN jobs = 1..Len(jobs) /\ Len(jobs) \in Nat
          /\ jobs'[Len(jobs) + 1].head = h
          /\ \A i \in DOMAIN jobs : jobs'[i] = jobs[i]
      BY <2>1, <2>6
    <3>2. \A i \in DOMAIN jobs' : SplitJob(i)' =>
            \/ i \in DOMAIN jobs /\ SplitJob(i) /\ jobs'[i] = jobs[i]
            \/ i = Len(jobs) + 1 /\ jobs'[i].head = h
      BY <3>1 DEF SplitJob
    <3>3. /\ \A u \in Threads : Dividing(u) => spl[u].of # h
          /\ \A u \in Threads : u # t /\ pc[u] = "enqueue" => app[u].at # h
          /\ \A i \in DOMAIN jobs : SplitJob(i) => jobs[i].head # h
          /\ status[h] = "splitting"
      BY <2>1, <2>2 DEF Sole, Marked
    <3>4. Marked'
      BY <2>1, <2>3, <2>4, <3>2, <3>3 DEF Marked
    <3>5. Sole'
      <4>1. \A u, v \in Threads : u # v /\ Dividing(u)' /\ Dividing(v)' => spl'[u].of # spl'[v].of
        BY <2>3 DEF Sole
      <4>2. \A u, v \in Threads : Dividing(u)' /\ pc'[v] = "enqueue" => spl'[u].of # app'[v].at
        BY <2>3, <2>4 DEF Sole
      <4>3. \A u, v \in Threads : u # v /\ pc'[u] = "enqueue" /\ pc'[v] = "enqueue" => app'[u].at # app'[v].at
        BY <2>4 DEF Sole
      <4>4. \A u \in Threads, i \in DOMAIN jobs' : Dividing(u)' /\ SplitJob(i)' => spl'[u].of # jobs'[i].head
        BY <2>3, <3>2, <3>3 DEF Sole
      <4>5. \A u \in Threads, i \in DOMAIN jobs' : pc'[u] = "enqueue" /\ SplitJob(i)' => app'[u].at # jobs'[i].head
        BY <2>4, <3>2, <3>3 DEF Sole
      <4>6. \A i, j \in DOMAIN jobs' : i # j /\ SplitJob(i)' /\ SplitJob(j)' => jobs'[i].head # jobs'[j].head
        BY <3>2, <3>3 DEF Sole
      <4>7. QED BY <4>1, <4>2, <4>3, <4>4, <4>5, <4>6 DEF Sole
    <3>6. QED BY <3>4, <3>5
  <2>7. QED BY <1>6, <2>2, <2>5, <2>6, EnqueueStep
<1>7. CASE SplitPart(t)
  <2>1. /\ pc[t] = "part" /\ pc'[t] = "publish" /\ Dividing(t) /\ Dividing(t)'
        /\ spl'[t].of = spl[t].of
    BY <1>7, PlaceStep
  <2>2. PICK n \in Heads : index[n] = "absent" /\ status' = [status EXCEPT ![n] = "normal"]
    BY <1>7, PlaceStep
  <2>3. n \notin Published /\ status \in [Heads -> Status] /\ Published \subseteq Heads
    BY <2>2 DEF Published, Safe, Typed
  <2>4. OldJobs(0)
    BY <1>7, QueueStep DEF SplitPart, TakeJob, AppendEnqueue, From, SameJobs
  <2>5. \A u \in Threads : Dividing(u)' => Dividing(u) /\ spl'[u].of = spl[u].of
    BY <1>0, <2>1 DEF Others, Dividing
  <2>6. \A u \in Threads : pc'[u] = "enqueue" => pc[u] = "enqueue" /\ app'[u].at = app[u].at
    BY <1>0, <2>1 DEF Others
  <2>7. Sole'
    BY <1>1, <2>4, <2>5, <2>6, FewerOwners DEF OldOwners
  <2>8. \A h \in Published : status'[h] = status[h]
    BY <2>2, <2>3
  <2>9. Marked'
    BY <2>4, <2>5, <2>6, <2>8, OwnersPublished DEF Marked, OldJobs
  <2>10. QED BY <2>7, <2>9
<1>8. CASE SplitGcNormal(t) \/ SplitRetire(t)
  <2>1. /\ Dividing(t) /\ ~Dividing(t)' /\ pc'[t] # "enqueue" /\ pc[t] \in {"gcnormal", "retire"}
        /\ spl[t].of \in Published
    BY <1>8, UnmarkStep
  <2>2. PICK s \in Status : status' = [status EXCEPT ![spl[t].of] = s]
    BY <1>8, UnmarkStep
  <2>3. status \in [Heads -> Status] /\ Published \subseteq Heads
    BY DEF Published, Safe, Typed
  <2>4. OldJobs(0)
    BY <1>8, QueueStep DEF SplitGcNormal, SplitRetire, TakeJob, AppendEnqueue, From, SameJobs
  <2>5. \A u \in Threads : Dividing(u)' => u # t /\ Dividing(u) /\ spl'[u].of = spl[u].of
    BY <1>0, <2>1 DEF Others, Dividing
  <2>6. \A u \in Threads : pc'[u] = "enqueue" => pc[u] = "enqueue" /\ app'[u].at = app[u].at
    BY <1>0, <2>1 DEF Others
  <2>7. Sole'
    BY <1>1, <2>4, <2>5, <2>6, FewerOwners DEF OldOwners
  <2>8. \A h \in Published : h # spl[t].of => status'[h] = status[h]
    BY <2>2, <2>3
  <2>9. /\ \A u \in Threads : Dividing(u)' => spl'[u].of # spl[t].of
        /\ \A u \in Threads : pc'[u] = "enqueue" => app'[u].at # spl[t].of
        /\ \A i \in DOMAIN jobs' : SplitJob(i)' => jobs'[i].head # spl[t].of
    BY <2>1, <2>4, <2>5, <2>6 DEF Sole, OldJobs
  <2>10. Marked'
    BY <2>4, <2>5, <2>6, <2>8, <2>9, OwnersPublished DEF Marked, OldJobs
  <2>11. QED BY <2>7, <2>10
<1>9. QED BY <1>2, <1>3, <1>4, <1>5, <1>6, <1>7, <1>8 DEF Marking

(* What a step does to the locks and marks other appends rely on.          *)
LockKeeps(t) ==
  /\ \A h \in Heads : rwLock'[h] = rwLock[h] \/ rwLock[h] \in {None, t}
  /\ \A h \in Heads : status'[h] = "splitting" => status[h] = "splitting" \/ rwLock[h] = t
  /\ Holding(t)' => rwLock'[app'[t].at] = t
  /\ Writing(t)' => status'[app'[t].at] # "splitting"
  /\ pc'[t] = "publish" => rwLock'[spl'[t].into[spl'[t].k]] = t

LEMMA LockKept ==
  ASSUME SameHead = FALSE, Safe, AllPlain, Locked, NEW t \in Threads, AddIndex(t) \/ Step(t)
  PROVE  LockKeeps(t)
<1>0. /\ pc \in [Threads -> PC] /\ app \in [Threads -> AppendFrameIn(Reached, Published)]
      /\ rwLock \in [Heads -> Threads \cup {None}] /\ status \in [Heads -> Status]
      /\ Published \subseteq Heads
  BY DEF Safe, Typed, Published
<1>b. /\ app[t].back \in {"idle", "insert", "spread", "flush1", "flush2"}
      /\ spl[t].caller \in {"idle", "spread"}
      /\ pc[t] \in AppendPCs => app[t].at \in Published
  BY Frame1
<1>q. ASSUME rwLock' = rwLock, status' = status, ~Holding(t)', pc'[t] # "publish" PROVE LockKeeps(t)
  BY <1>q DEF LockKeeps, Holding, Writing
<1>1. CASE AddIndex(t) \/ InsertNext(t) \/ Reassign(t) \/ AppendMiss(t) \/ AppendEnqueue(t)
  BY <1>1, <1>0, <1>b, <1>q DEF AddIndex, InsertNext, Reassign, ReassignSelect, ReassignCheck, ReassignBump,
     ReassignSpread, AppendMiss, AppendEnqueue, CallAppend, ReturnAppend, Finish, Goto, From, Holding, locks, marks
<1>2. CASE AppendEnter(t)
  BY <1>2, <1>0, <1>b DEF AppendEnter, From, Goto, LockKeeps, Holding, Writing, AppendPCs, marks, locals
<1>3. CASE AppendBranch(t) \/ AppendPut(t) \/ AppendCount(t)
  <2>1. /\ rwLock' = rwLock /\ status' = status /\ app'[t].at = app[t].at
        /\ pc'[t] \in {"look", "get", "count", "grow"} /\ Holding(t)
        /\ pc'[t] # "get" /\ Writing(t)' => Writing(t)
        /\ pc'[t] = "get" => status[app[t].at] # "splitting"
    BY <1>3, <1>0 DEF AppendBranch, AppendPut, AppendCount, From, Goto, Holding, Writing, AppendFrameIn,
       marks, locks, locals
  <2>2. QED BY <2>1, <1>0 DEF LockKeeps, Locked, Writing
<1>4. CASE AppendLook(t) \/ AppendGet(t)
  <2>1. /\ rwLock' = rwLock /\ status' = status /\ app'[t].at = app[t].at
        /\ pc'[t] \in {"cache", "put"} /\ Holding(t)
        /\ Writing(t)' => Writing(t)
    BY <1>4, <1>0 DEF AppendLook, AppendGet, From, Goto, Holding, Writing, AppendFrameIn, marks, locks
  <2>2. QED BY <2>1, <1>0 DEF LockKeeps, Locked, Writing
<1>5. CASE AppendCache(t)
  <2>1. /\ rwLock' = [rwLock EXCEPT ![app[t].at] = None] /\ status' = status
        /\ pc[t] = "cache" /\ pc'[t] = app[t].back
    BY <1>5, <1>0 DEF AppendCache, ReturnAppend, From, Goto
  <2>2. rwLock[app[t].at] = t
    BY <2>1 DEF Locked, Holding
  <2>3. QED BY <2>1, <2>2, <1>0, <1>b DEF LockKeeps, Holding, Writing
<1>6. CASE AppendGrow(t)
  <2>1. /\ rwLock' = [rwLock EXCEPT ![app[t].at] = None] /\ pc[t] = "grow"
        /\ pc'[t] \in {app[t].back, "enqueue", "split"} /\ app[t].at \in Heads
        /\ status' = status \/ status' = [status EXCEPT ![app[t].at] = "splitting"]
    BY <1>6, <1>0, GrowStep
  <2>2. rwLock[app[t].at] = t
    BY <2>1 DEF Locked, Holding
  <2>3. ~Holding(t)' /\ pc'[t] # "publish"
    BY <2>1, <1>b DEF Holding
  <2>4. \A h \in Heads : rwLock'[h] = rwLock[h] \/ rwLock[h] \in {None, t}
    BY <2>1, <2>2, <1>0
  <2>5. \A h \in Heads : status'[h] = "splitting" => status[h] = "splitting" \/ rwLock[h] = t
    BY <2>1, <2>2, <1>0
  <2>6. QED BY <2>3, <2>4, <2>5 DEF LockKeeps, Holding, Writing
<1>7. CASE TakeJob(t)
  <2>1. rwLock' = rwLock
    BY <1>7 DEF TakeJob, locks
  <2>2. QED BY <1>7, <1>q, <2>1, TakeStep DEF Holding
<1>8. CASE SplitPart(t)
  <2>1. pc'[t] = "publish" /\ spl'[t].k = spl[t].k
    BY <1>8, PlaceStep
  <2>2. PICK n \in Heads :
          /\ index[n] = "absent" /\ rwLock[n] = None
          /\ index' = [index EXCEPT ![n] = "adding"]
          /\ status' = [status EXCEPT ![n] = "normal"]
          /\ posting' = [posting EXCEPT ![n] = spl[t].parts[spl[t].k]]
          /\ rwLock' = [rwLock EXCEPT ![n] = t]
          /\ spl'[t].into = [spl[t].into EXCEPT ![spl[t].k] = n]
    BY <1>8, PlaceStep
  <2>3. spl[t].k \in 1..2 /\ spl[t].into \in [1..2 -> Heads \cup {None}]
    BY DEF Safe, Typed, SplitFrameIn
  <2>4. spl'[t].into[spl'[t].k] = n
    BY <2>1, <2>2, <2>3
  <2>5. QED BY <2>1, <2>2, <2>4, <1>0 DEF LockKeeps, Holding, Writing
<1>9. CASE SplitPublish(t)
  <2>1. PICK n : n = spl[t].into[spl[t].k]
    OBVIOUS
  <2>2. /\ rwLock' = [rwLock EXCEPT ![n] = None] /\ status' = status
        /\ pc[t] = "publish" /\ pc'[t] = "partsize"
    BY <1>9, <1>0, <2>1 DEF SplitPublish, From, Goto
  <2>3. rwLock[n] = t
    BY <2>1, <2>2 DEF Locked
  <2>4. QED BY <2>2, <2>3, <1>0 DEF LockKeeps, Holding, Writing
<1>10. CASE Working(t) /\ ~SplitPublish(t)
  <2>1. Follows(pc[t], pc'[t]) /\ (SplitUnindex(t) => status' = status)
    BY <1>10, WorkStep
  <2>2. rwLock' = rwLock /\ status' = status
    BY <1>10, <2>1 DEF Working, SplitLock, SplitGcSize, SplitGcPut, SplitGcErase, SplitGcFlush,
       SplitPartSize, SplitScan, SplitCollect, SplitFlush, SplitUnindex, SplitShrink, marks, locks
  <2>3. ~Holding(t)' /\ pc'[t] # "publish"
    BY <2>1 DEF Follows, Holding
  <2>4. QED BY <2>2, <2>3, <1>q
<1>11. CASE SplitRead(t)
  <2>1. pc'[t] \in {"gclock", "part"}
    BY <1>11, <1>0, ReadStep
  <2>2. QED BY <1>11, <2>1, <1>q DEF SplitRead, Holding, marks, locks
<1>12. CASE SplitGcNormal(t) \/ SplitRetire(t)
  <2>1. PICK s \in Status \ {"splitting"} : status' = [status EXCEPT ![spl[t].of] = s]
    BY <1>12, UnmarkStep
  <2>2. rwLock' = rwLock /\ pc'[t] \in {"idle", "spread", "collect2"}
    BY <1>12, <1>0, <1>b DEF SplitGcNormal, SplitRetire, ReturnSplit, Goto, locks
  <2>3. QED BY <2>1, <2>2, <1>0 DEF LockKeeps, Holding, Writing
<1>13. CASE SplitErase(t)
  BY <1>13, <1>0, <1>b, <1>q DEF SplitErase, ReturnSplit, Goto, Holding, marks, locks
<1>14. QED
  BY <1>1, <1>2, <1>3, <1>4, <1>5, <1>6, <1>7, <1>8, <1>9, <1>10, <1>11, <1>12, <1>13, StepKinds
     DEF Apart, ConcurrentAppend

LEMMA LockedStep ==
  ASSUME SameHead = FALSE, Safe, AllPlain, Locked, NEW t \in Threads, AddIndex(t) \/ Step(t)
  PROVE  Locked'
<1>1. LockKeeps(t) /\ Others(t)
  BY LockKept, StepLocal DEF Safe
<1>2. None \notin Threads
  BY UpdateAssumption
<1> SUFFICES ASSUME NEW u \in Threads
             PROVE  /\ Holding(u)' => rwLock'[app'[u].at] = u
                    /\ Writing(u)' => status'[app'[u].at] # "splitting"
                    /\ pc'[u] = "publish" => rwLock'[spl'[u].into[spl'[u].k]] = u
  BY DEF Locked
<1>3. CASE u = t
  BY <1>1, <1>3 DEF LockKeeps
<1>4. CASE u # t
  <2>1. pc'[u] = pc[u] /\ app'[u] = app[u] /\ spl'[u] = spl[u]
    BY <1>1, <1>4 DEF Others
  <2>2. Holding(u) => app[u].at \in Heads
    BY Frame1 DEF Holding, AppendPCs, Published
  <2>3. ASSUME Holding(u) PROVE rwLock'[app[u].at] = u
    BY <1>1, <1>2, <1>4, <2>2, <2>3 DEF Locked, LockKeeps
  <2>4. ASSUME Writing(u) PROVE status'[app[u].at] # "splitting"
    BY <1>1, <1>2, <1>4, <2>2, <2>4 DEF Locked, LockKeeps, Holding, Writing
  <2>5. ASSUME pc[u] = "publish" PROVE rwLock'[spl[u].into[spl[u].k]] = u
    <3>1. spl[u].into[spl[u].k] \in Heads
      BY <2>5 DEF Safe, Publishing
    <3>2. QED BY <1>1, <1>2, <1>4, <2>5, <3>1 DEF Locked, LockKeeps
  <2>6. QED BY <2>1, <2>3, <2>4, <2>5 DEF Holding, Writing
<1>5. QED BY <1>3, <1>4

(* Who writes a posting: an append, a garbage collection, and a split that *)
(* creates its head.                                                       *)
LEMMA PostingStep ==
  ASSUME SameHead = FALSE, Safe, AllPlain, NEW t \in Threads, AddIndex(t) \/ Step(t)
  PROVE  posting' = posting \/ AppendPut(t) \/ SplitGcPut(t) \/ SplitPart(t)
<1>1. AddIndex(t) \/ InsertNext(t) \/ TakeJob(t) \/ Reassign(t) => posting' = posting
  BY DEF AddIndex, InsertNext, TakeJob, Reassign, ReassignSelect, ReassignCheck, ReassignBump,
     ReassignSpread, store
<1>2. ConcurrentAppend(t) => posting' = posting \/ AppendPut(t)
  BY DEF ConcurrentAppend, AppendEnter, AppendMiss, AppendBranch, AppendLook, AppendCache,
     AppendGet, AppendCount, AppendGrow, AppendEnqueue, store
<1>3. ConcurrentSplit(t) => posting' = posting \/ SplitGcPut(t) \/ SplitPart(t)
  BY NoOptStep DEF ConcurrentSplit, SplitLock, SplitRead, SplitGcSize, SplitGcErase, SplitGcFlush,
     SplitGcNormal, SplitPublish, SplitPartSize, SplitScan, SplitCollect, SplitFlush, SplitUnindex,
     SplitShrink, SplitRetire, SplitErase, store
<1>4. QED BY <1>1, <1>2, <1>3 DEF Step

(* An append reads a posting and writes it back with nothing in between.   *)
LEMMA FreshStep ==
  ASSUME SameHead = FALSE, Safe, AllPlain, Marked, Locked, AppendFresh,
         NEW t \in Threads, AddIndex(t) \/ Step(t)
  PROVE  AppendFresh'
<1>0. /\ pc \in [Threads -> PC] /\ app \in [Threads -> AppendFrameIn(Reached, Published)]
      /\ posting \in [Heads -> SUBSET Reached] /\ Published \subseteq Heads
  BY DEF Safe, Typed, Published
<1>l. Others(t) /\ None \notin Threads
  BY StepLocal, UpdateAssumption DEF Safe
<1> SUFFICES ASSUME NEW u \in Threads, pc'[u] = "put"
             PROVE  app'[u].old = posting'[app'[u].at]
  BY DEF AppendFresh
<1>1. CASE u = t
  <2>1. AppendGet(t)
    <3>1. CASE Apart(t)
      BY <1>0, <1>1, <3>1, Frame1 DEF Apart, AddIndex, InsertNext, Reassign, ReassignSelect, ReassignCheck,
         ReassignBump, ReassignSpread, ConcurrentAppend, AppendEnter, AppendMiss, AppendBranch,
         AppendLook, AppendCache, AppendPut, AppendCount, AppendEnqueue, CallAppend, ReturnAppend,
         Finish, From, Goto
    <3>2. CASE TakeJob(t) \/ SplitPart(t) \/ SplitRead(t)
      <4>1. TakeJob(t) => pc'[t] # "put"
        BY TakeStep
      <4>2. SplitPart(t) => pc'[t] # "put"
        BY PlaceStep
      <4>3. SplitRead(t) => pc'[t] # "put"
        BY <1>0, ReadStep
      <4>4. QED BY <1>1, <3>2, <4>1, <4>2, <4>3
    <3>6. CASE AppendGrow(t)
      <4>1. pc'[t] \in {app[t].back, "enqueue", "split"}
        BY <3>6, GrowStep
      <4>2. QED BY <1>1, <4>1, Frame1
    <3>3. CASE Working(t)
      BY <1>1, <3>3, WorkStep DEF Follows
    <3>4. CASE SplitGcNormal(t) \/ SplitRetire(t) \/ SplitErase(t)
      BY <1>0, <1>1, <3>4, Frame1 DEF SplitGcNormal, SplitRetire, SplitErase, ReturnSplit, Goto
    <3>5. QED BY <3>1, <3>2, <3>3, <3>4, <3>6, StepKinds
  <2>2. app' = [app EXCEPT ![t].old = posting[app[t].at]] /\ posting' = posting
    BY <2>1 DEF AppendGet, store
  <2>3. QED BY <1>0, <1>1, <2>2 DEF AppendFrameIn
<1>2. CASE u # t
  <2>1. pc[u] = "put" /\ app'[u] = app[u]
    BY <1>2, <1>l DEF Others
  <2>2. /\ app[u].at \in Heads /\ app[u].old = posting[app[u].at]
        /\ rwLock[app[u].at] = u /\ status[app[u].at] # "splitting"
    BY <2>1, <1>0, Frame1 DEF AppendPCs, AppendFresh, Locked, Holding, Writing
  <2>3. posting'[app[u].at] = posting[app[u].at]
    <3>1. CASE AppendPut(t)
      <4>1. rwLock[app[t].at] = t
        BY <3>1 DEF AppendPut, From, Locked, Holding
      <4>2. app[t].at # app[u].at
        BY <4>1, <2>2, <1>2
      <4>3. QED BY <3>1, <4>2, <2>2, <1>0 DEF AppendPut
    <3>2. CASE SplitGcPut(t)
      <4>1. status[spl[t].of] = "splitting"
        BY <3>2 DEF SplitGcPut, From, Marked, Dividing, Divided
      <4>2. QED BY <3>2, <4>1, <2>2, <1>0 DEF SplitGcPut
    <3>3. CASE SplitPart(t)
      <4>1. PICK n \in Heads :
              /\ index[n] = "absent" /\ rwLock[n] = None
              /\ index' = [index EXCEPT ![n] = "adding"]
              /\ status' = [status EXCEPT ![n] = "normal"]
              /\ posting' = [posting EXCEPT ![n] = spl[t].parts[spl[t].k]]
              /\ rwLock' = [rwLock EXCEPT ![n] = t]
              /\ spl'[t].into = [spl[t].into EXCEPT ![spl[t].k] = n]
        BY <3>3, PlaceStep
      <4>2. n # app[u].at
        BY <4>1, <2>2, <1>l
      <4>3. QED BY <4>1, <4>2, <2>2, <1>0
    <3>4. QED BY <3>1, <3>2, <3>3, PostingStep
  <2>4. QED BY <2>1, <2>2, <2>3
<1>3. QED BY <1>1, <1>2

-----------------------------------------------------------------------------
(* A head in m_splitList that is not retired is being split, up to the     *)
(* erasure, or a split of it is queued.                                    *)
ListedAt(h) ==
  h \in splitList /\ index[h] # "deleted" =>
     \/ \E t \in Threads : Dividing(t) /\ spl[t].of = h /\ pc[t] \notin {"gcflush", "gcnormal"}
     \/ \E i \in DOMAIN jobs : SplitJob(i) /\ jobs[i].head = h
Listed == \A h \in Heads : ListedAt(h)

(* The mark of a head that is not retired has an owner. *)
OwnedAt(h) ==
  status[h] = "splitting" /\ index[h] # "deleted" =>
    \/ \E t \in Threads : Dividing(t) /\ spl[t].of = h
    \/ \E t \in Threads : pc[t] = "enqueue" /\ app[t].at = h
    \/ \E i \in DOMAIN jobs : SplitJob(i) /\ jobs[i].head = h
Owned == \A h \in Heads : OwnedAt(h)

(* A head that loses no owner keeps what it has. *)
LEMMA KeptListed ==
  ASSUME NEW h \in Heads, ListedAt(h), NEW t \in Threads, Others(t), NEW d \in Int, KeptJobs(d),
         index[h] = "deleted" => index'[h] = "deleted",
         h \in splitList' => h \in splitList,
         Dividing(t) /\ spl[t].of = h =>
           /\ Dividing(t)' /\ spl'[t].of = h
           /\ pc'[t] \in {"gcflush", "gcnormal"} => pc[t] \in {"gcflush", "gcnormal"} \/ h \notin splitList'
  PROVE  ListedAt(h)'
<1>1. \A u \in Threads : Dividing(u) /\ spl[u].of = h =>
        /\ Dividing(u)' /\ spl'[u].of = h
        /\ pc'[u] \in {"gcflush", "gcnormal"} /\ h \in splitList' => pc[u] \in {"gcflush", "gcnormal"}
  BY DEF Others, Dividing
<1>2. (\E i \in DOMAIN jobs : SplitJob(i) /\ jobs[i].head = h)
        => \E i \in DOMAIN jobs' : SplitJob(i)' /\ jobs'[i].head = h
  <2> SUFFICES ASSUME NEW i \in DOMAIN jobs, SplitJob(i), jobs[i].head = h
               PROVE  \E j \in DOMAIN jobs' : SplitJob(j)' /\ jobs'[j].head = h
    OBVIOUS
  <2>1. i - d \in DOMAIN jobs' /\ SplitJob(i - d)' /\ jobs'[i - d].head = h
    BY DEF KeptJobs
  <2>2. QED BY <2>1
<1>3. QED BY <1>1, <1>2 DEF ListedAt

LEMMA KeptOwned ==
  ASSUME NEW h \in Heads, OwnedAt(h), NEW t \in Threads, Others(t), NEW d \in Int, KeptJobs(d),
         index[h] = "deleted" => index'[h] = "deleted",
         status'[h] = "splitting" => status[h] = "splitting",
         Dividing(t) /\ spl[t].of = h => Dividing(t)' /\ spl'[t].of = h,
         pc[t] = "enqueue" /\ app[t].at = h => pc'[t] = "enqueue" /\ app'[t].at = h
  PROVE  OwnedAt(h)'
<1>1. \A u \in Threads : Dividing(u) /\ spl[u].of = h => Dividing(u)' /\ spl'[u].of = h
  BY DEF Others, Dividing
<1>2. \A u \in Threads : pc[u] = "enqueue" /\ app[u].at = h => pc'[u] = "enqueue" /\ app'[u].at = h
  BY DEF Others
<1>3. (\E i \in DOMAIN jobs : SplitJob(i) /\ jobs[i].head = h)
        => \E i \in DOMAIN jobs' : SplitJob(i)' /\ jobs'[i].head = h
  <2> SUFFICES ASSUME NEW i \in DOMAIN jobs, SplitJob(i), jobs[i].head = h
               PROVE  \E j \in DOMAIN jobs' : SplitJob(j)' /\ jobs'[j].head = h
    OBVIOUS
  <2>1. i - d \in DOMAIN jobs' /\ SplitJob(i - d)' /\ jobs'[i - d].head = h
    BY DEF KeptJobs
  <2>2. QED BY <2>1
<1>4. QED BY <1>1, <1>2, <1>3 DEF OwnedAt

(* Only the queueing of a split enters m_splitList. *)
LEMMA ListStep ==
  ASSUME Safe, AllPlain, NEW t \in Threads, AddIndex(t) \/ Step(t), ~AppendEnqueue(t)
  PROVE  splitList' \subseteq splitList /\ (pc[t] = "gcerase" => spl[t].of \notin splitList')
<1>1. AddIndex(t) \/ InsertNext(t) \/ TakeJob(t) \/ Reassign(t) => splitList' = splitList /\ pc[t] # "gcerase"
  BY DEF AddIndex, InsertNext, TakeJob, Reassign, ReassignSelect, ReassignCheck, ReassignBump,
     ReassignSpread, pool, From
<1>2. ConcurrentAppend(t) => splitList' = splitList /\ pc[t] # "gcerase"
  BY DEF ConcurrentAppend, AppendEnter, AppendMiss, AppendBranch, AppendLook, AppendCache,
     AppendGet, AppendPut, AppendCount, AppendGrow, pool, From
<1>3. SplitGcErase(t) \/ SplitErase(t) => splitList' = splitList \ {spl[t].of}
  BY DEF SplitGcErase, SplitErase
<1>4. ConcurrentSplit(t) => SplitGcErase(t) \/ SplitErase(t) \/ (splitList' = splitList /\ pc[t] # "gcerase")
  BY NoOptStep DEF ConcurrentSplit, SplitLock, SplitRead, SplitGcSize, SplitGcPut, SplitGcFlush,
     SplitGcNormal, SplitPart, SplitPublish, SplitPartSize, SplitScan, SplitCollect, SplitFlush,
     SplitUnindex, SplitShrink, SplitRetire, pool, From
<1>5. QED BY <1>1, <1>2, <1>3, <1>4 DEF Step

(* A split that is erasing its head from m_splitList goes on to flush.     *)
LEMMA ErasedStep ==
  ASSUME SameHead = FALSE, Safe, AllPlain, NEW t \in Threads, AddIndex(t) \/ Step(t), Dividing(t),
         pc'[t] \in {"gcflush", "gcnormal"}
  PROVE  pc[t] \in {"gcerase", "gcflush"}
<1>0. pc \in [Threads -> PC]
  BY DEF Safe, Typed
<1>1. CASE Apart(t)
  BY <1>1, ApartStep DEF SameStage, SplitPCs
<1>2. CASE Working(t)
  BY <1>2, WorkStep DEF Follows
<1>3. CASE TakeJob(t)
  BY <1>3, TakeStep
<1>4. CASE AppendGrow(t)
  <2>1. pc'[t] \in {app[t].back, "enqueue", "split"}
    BY <1>4, GrowStep
  <2>2. QED BY <2>1, Frame1
<1>5. CASE SplitRead(t)
  BY <1>0, <1>5, ReadStep
<1>6. CASE SplitPart(t)
  BY <1>6, PlaceStep
<1>7. CASE SplitGcNormal(t) \/ SplitRetire(t)
  <2>1. pc'[t] \in {"idle", "spread", "collect2"}
    BY <1>0, <1>7, Frame1 DEF SplitGcNormal, SplitRetire, ReturnSplit, Goto
  <2>2. QED BY <2>1
<1>8. CASE SplitErase(t)
  <2>1. pc'[t] \in {"idle", "spread"}
    BY <1>0, <1>8, Frame1 DEF SplitErase, ReturnSplit, Goto
  <2>2. QED BY <2>1
<1>9. QED BY <1>1, <1>2, <1>3, <1>4, <1>5, <1>6, <1>7, <1>8, StepKinds

LEMMA OwnedStep ==
  ASSUME SameHead = FALSE, Safe, AllPlain, Marked, Sole, Locked, Listed, Owned,
         NEW t \in Threads, AddIndex(t) \/ Step(t)
  PROVE  Listed' /\ Owned'
<1>0. /\ Others(t) /\ status \in [Heads -> Status] /\ Published \subseteq Heads
      /\ \A h \in Heads : index[h] = "deleted" => index'[h] = "deleted"
  BY StepLocal, IndexStep DEF Safe, Typed, Published
<1>l. /\ ~AppendEnqueue(t) => splitList' \subseteq splitList
      /\ ~AppendEnqueue(t) /\ pc[t] = "gcerase" => spl[t].of \notin splitList'
  BY ListStep
<1>e. Dividing(t) /\ pc'[t] \in {"gcflush", "gcnormal"} => pc[t] \in {"gcerase", "gcflush"}
  BY ErasedStep
<1>k. ASSUME NEW h \in Heads, NEW d \in Int, KeptJobs(d), ~AppendEnqueue(t),
             Dividing(t) /\ spl[t].of = h => Dividing(t)' /\ spl'[t].of = h
      PROVE  ListedAt(h)'
  BY <1>0, <1>l, <1>e, <1>k, KeptListed DEF Listed
<1>o. ASSUME NEW h \in Heads, NEW d \in Int, KeptJobs(d),
             status'[h] = "splitting" => status[h] = "splitting",
             Dividing(t) /\ spl[t].of = h => Dividing(t)' /\ spl'[t].of = h,
             pc[t] = "enqueue" /\ app[t].at = h => pc'[t] = "enqueue" /\ app'[t].at = h
      PROVE  OwnedAt(h)'
  BY <1>0, <1>o, KeptOwned DEF Owned
<1> SUFFICES ASSUME NEW h \in Heads PROVE ListedAt(h)' /\ OwnedAt(h)'
  BY DEF Listed, Owned
<1>1. CASE ~Marking(t)
  <2>1. MarksStand(t)
    BY <1>1, QuietStep
  <2>2. ~AppendEnqueue(t)
    BY <1>1 DEF Marking
  <2>3. QED BY <1>k, <1>o, <2>1, <2>2 DEF MarksStand, SameJobs
<1>2. CASE TakeJob(t)
  <2>1. /\ jobs \in Seq(JobIn(Reached, Published)) /\ jobs # << >> /\ jobs' = Tail(jobs)
        /\ status' = status /\ pc[t] = "idle" /\ ~Dividing(t)
        /\ splitList' = splitList /\ index' = index
    BY <1>2, TakeStep
  <2>2. /\ Head(jobs) = jobs[1]
        /\ \A i \in DOMAIN jobs : i # 1 /\ SplitJob(i) =>
             i - 1 \in DOMAIN jobs' /\ SplitJob(i - 1)' /\ jobs'[i - 1].head = jobs[i].head
    BY <2>1, JobsTaken
  <2>3. ~AppendEnqueue(t)
    BY <2>1 DEF AppendEnqueue, From
  <2>4. CASE Head(jobs).kind # "split"
    <3>1. KeptJobs(1)
      BY <2>2, <2>4 DEF KeptJobs, SplitJob
    <3>2. QED BY <1>k, <1>o, <2>1, <2>3, <3>1
  <2>5. CASE Head(jobs).kind = "split"
    <3>1. Dividing(t)' /\ pc'[t] = "split" /\ spl'[t].of = jobs[1].head
      BY <1>2, <2>2, <2>5, TakeStep
    <3>2. (\E i \in DOMAIN jobs : SplitJob(i) /\ jobs[i].head = h)
            => \/ Dividing(t)' /\ pc'[t] = "split" /\ spl'[t].of = h
               \/ \E i \in DOMAIN jobs' : SplitJob(i)' /\ jobs'[i].head = h
      <4> SUFFICES ASSUME NEW i \in DOMAIN jobs, SplitJob(i), jobs[i].head = h
                   PROVE  \/ Dividing(t)' /\ pc'[t] = "split" /\ spl'[t].of = h
                          \/ \E j \in DOMAIN jobs' : SplitJob(j)' /\ jobs'[j].head = h
        OBVIOUS
      <4>1. CASE i = 1
        BY <3>1, <4>1
      <4>2. CASE i # 1
        <5>1. i - 1 \in DOMAIN jobs' /\ SplitJob(i - 1)' /\ jobs'[i - 1].head = h
          BY <2>2, <4>2
        <5>2. QED BY <5>1
      <4>3. QED BY <4>1, <4>2
    <3>3. \A u \in Threads : Dividing(u) /\ spl[u].of = h =>
            Dividing(u)' /\ spl'[u].of = h /\ pc'[u] = pc[u]
      BY <1>0, <2>1 DEF Others, Dividing
    <3>4. \A u \in Threads : pc[u] = "enqueue" /\ app[u].at = h => pc'[u] = "enqueue" /\ app'[u].at = h
      BY <1>0, <2>1 DEF Others
    <3>5. ListedAt(h)'
      BY <2>1, <3>2, <3>3 DEF Listed, ListedAt
    <3>6. OwnedAt(h)'
      BY <2>1, <3>2, <3>3, <3>4 DEF Owned, OwnedAt
    <3>7. QED BY <3>5, <3>6
  <2>6. QED BY <2>4, <2>5
<1>3. CASE AppendGrow(t)
  <2>1. pc[t] = "grow" /\ app[t].at \in Heads /\ ~AppendEnqueue(t)
    BY <1>0, <1>3, GrowStep DEF AppendEnqueue, From
  <2>2. KeptJobs(0)
    BY <1>3, <2>1, QueueStep DEF TakeJob, From, SameJobs
  <2>3. PICK g : g = app[t].at
    OBVIOUS
  <2>4. CASE /\ status' = status /\ spl' = spl
             /\ Dividing(t)' <=> Dividing(t)
    BY <1>k, <1>o, <2>1, <2>2, <2>4
  <2>5. CASE /\ status' = [status EXCEPT ![g] = "splitting"] /\ spl' = spl
             /\ pc'[t] = "enqueue" /\ app' = app
             /\ Dividing(t)' <=> Dividing(t)
    <3>1. ListedAt(h)'
      BY <1>k, <2>1, <2>2, <2>5
    <3>2. CASE h = g
      BY <3>1, <3>2, <2>3, <2>5 DEF OwnedAt
    <3>3. CASE h # g
      <4>1. status'[h] = status[h]
        BY <2>5, <3>3, <1>0
      <4>2. QED BY <1>o, <2>1, <2>2, <2>5, <3>1, <4>1
    <3>4. QED BY <3>1, <3>2, <3>3
  <2>6. CASE /\ status' = [status EXCEPT ![g] = "splitting"]
             /\ spl'[t].of = g /\ Dividing(t)' /\ ~Dividing(t)
    <3>1. ListedAt(h)'
      BY <1>k, <2>1, <2>2, <2>6
    <3>2. CASE h = g
      BY <3>1, <3>2, <2>6 DEF OwnedAt
    <3>3. CASE h # g
      <4>1. status'[h] = status[h]
        BY <2>6, <3>3, <1>0
      <4>2. QED BY <1>o, <2>1, <2>2, <2>6, <3>1, <4>1
    <3>4. QED BY <3>1, <3>2, <3>3
  <2>7. QED BY <1>3, <2>3, <2>4, <2>5, <2>6, GrowStep
<1>4. CASE AppendEnqueue(t)
  <2>1. /\ pc[t] = "enqueue" /\ app[t].at \in Heads /\ status' = status /\ index' = index /\ spl' = spl
        /\ Dividing(t)' <=> Dividing(t)
        /\ jobs \in Seq(JobIn(Reached, Published))
        /\ pc'[t] = app[t].back
    BY <1>0, <1>4, EnqueueStep
  <2>2. PICK g : g = app[t].at
    OBVIOUS
  <2>3. CASE g \in splitList /\ jobs' = jobs /\ splitList' = splitList
    <3>1. KeptJobs(0)
      BY <2>1, <2>3, JobsQueued DEF SameJobs
    <3>2. CASE h # g
      <4>1. ListedAt(h)'
        BY <1>0, <1>e, <2>1, <2>3, <3>1, KeptListed DEF Listed, Dividing, Divided
      <4>2. OwnedAt(h)'
        BY <1>o, <2>1, <2>2, <3>1, <3>2
      <4>3. QED BY <4>1, <4>2
    <3>3. CASE h = g
      <4>1. index[h] = "deleted"
        BY <2>1, <2>2, <2>3, <3>3 DEF Listed, ListedAt, Sole
      <4>2. index'[h] = "deleted"
        BY <4>1, <2>1
      <4>3. QED BY <4>2 DEF ListedAt, OwnedAt
    <3>4. QED BY <3>2, <3>3
  <2>4. CASE /\ splitList' = splitList \cup {g}
             /\ jobs' = Append(jobs, [kind |-> "split", head |-> g, copies |-> {}])
    <3>1. /\ DOMAIN jobs' = 1..(Len(jobs) + 1) /\ DOMAIN jobs = 1..Len(jobs) /\ Len(jobs) \in Nat
          /\ jobs'[Len(jobs) + 1].head = g /\ jobs'[Len(jobs) + 1].kind = "split"
          /\ \A i \in DOMAIN jobs : jobs'[i] = jobs[i]
      BY <2>1, <2>4
    <3>2. KeptJobs(0)
      BY <3>1 DEF KeptJobs, SplitJob
    <3>3. CASE h # g
      <4>1. ListedAt(h)'
        BY <1>0, <1>e, <2>1, <2>4, <3>2, <3>3, KeptListed DEF Listed, Dividing, Divided
      <4>2. OwnedAt(h)'
        BY <1>o, <2>1, <2>2, <3>2, <3>3
      <4>3. QED BY <4>1, <4>2
    <3>4. CASE h = g
      <4>1. PICK n : n = Len(jobs) + 1
        OBVIOUS
      <4>2. n \in DOMAIN jobs' /\ SplitJob(n)' /\ jobs'[n].head = h
        BY <3>1, <3>4, <4>1 DEF SplitJob
      <4>3. QED BY <4>2 DEF ListedAt, OwnedAt
    <3>5. QED BY <3>3, <3>4
  <2>5. QED BY <1>4, <2>2, <2>3, <2>4, EnqueueStep
<1>5. CASE SplitPart(t)
  <2>1. /\ pc[t] = "part" /\ Dividing(t)' /\ spl'[t].of = spl[t].of
        /\ \E n \in Heads : status' = [status EXCEPT ![n] = "normal"]
    BY <1>5, PlaceStep
  <2>2. status'[h] = "splitting" => status[h] = "splitting"
    BY <1>0, <2>1
  <2>3. KeptJobs(0) /\ ~AppendEnqueue(t)
    BY <1>5, <2>1, QueueStep DEF TakeJob, AppendEnqueue, From, SameJobs
  <2>4. QED BY <1>k, <1>o, <2>1, <2>2, <2>3
<1>6. CASE SplitGcNormal(t) \/ SplitRetire(t)
  <2>1. /\ Dividing(t) /\ pc[t] \in {"gcnormal", "retire"} /\ spl[t].of \in Heads
        /\ splitList' = splitList /\ index' = index
        /\ \E s \in Status \ {"splitting"} : status' = [status EXCEPT ![spl[t].of] = s]
    BY <1>0, <1>6, UnmarkStep
  <2>2. KeptJobs(0) /\ ~AppendEnqueue(t)
    BY <1>6, <2>1, QueueStep DEF TakeJob, AppendEnqueue, From, SameJobs
  <2>3. CASE h # spl[t].of
    <3>1. status'[h] = status[h]
      BY <1>0, <2>1, <2>3
    <3>2. QED BY <1>k, <1>o, <2>1, <2>2, <2>3, <3>1
  <2>4. CASE h = spl[t].of
    <3>1. status'[h] # "splitting"
      BY <1>0, <2>1, <2>4
    <3>2. h \in splitList => index[h] = "deleted"
      <4>1. CASE pc[t] = "retire"
        BY <4>1, <2>4 DEF Safe, Retiring
      <4>2. CASE pc[t] = "gcnormal"
        BY <4>2, <2>1, <2>4 DEF Listed, ListedAt, Sole
      <4>3. QED BY <2>1, <4>1, <4>2
    <3>3. QED BY <2>1, <3>1, <3>2 DEF ListedAt, OwnedAt
  <2>5. QED BY <2>3, <2>4
<1>7. QED BY <1>1, <1>2, <1>3, <1>4, <1>5, <1>6 DEF Marking

-----------------------------------------------------------------------------
(* The inductive invariant of the splits. *)
SplitSafe ==
  Safe /\ AllPlain /\ Marked /\ Sole /\ Locked /\ AppendFresh /\ Listed /\ Owned

LEMMA InitSplitSafe == Init => SplitSafe
<1> SUFFICES ASSUME Init PROVE SplitSafe
  OBVIOUS
<1>0. Safe
  BY InitSafe
<1>1. /\ \A t \in Threads : pc[t] = "idle" /\ app[t].back = "idle" /\ spl[t].of = None
      /\ \A h \in Heads : status[h] # "splitting"
      /\ DOMAIN jobs = {} /\ splitList = {}
  BY DEF Init, NoAppend, NoSplit
<1>2. \A t \in Threads : ~Dividing(t) /\ ~Ending(t)
  BY <1>1 DEF Dividing, Ending, Divided
<1>3. AllPlain
  BY <1>1, <1>2 DEF AllPlain, Plain, SplitPCs
<1>4. Marked /\ Sole
  BY <1>1, <1>2 DEF Marked, Sole
<1>5. Locked /\ AppendFresh
  BY <1>1 DEF Locked, Holding, Writing, AppendFresh
<1>6. Listed /\ Owned
  BY <1>1 DEF Listed, ListedAt, Owned, OwnedAt
<1>7. QED BY <1>0, <1>3, <1>4, <1>5, <1>6 DEF SplitSafe

LEMMA NextSplitSafe ==
  ASSUME SameHead = FALSE, SplitSafe, [Next]_vars
  PROVE  SplitSafe'
<1>0. Safe'
  BY NextSafe DEF SplitSafe
<1>1. ASSUME NEW t \in Threads, AddIndex(t) \/ Step(t)
      PROVE  SplitSafe'
  BY <1>0, <1>1, PlainStep, OwnersStep, LockedStep, FreshStep, OwnedStep DEF SplitSafe
<1>2. ASSUME UNCHANGED <<posting, status, index, jobs, splitList, rwLock, pc, app, spl>>
      PROVE  SplitSafe'
  <2>1. \A t \in Threads : /\ Dividing(t)' <=> Dividing(t)
                           /\ Ending(t)' <=> Ending(t)
                           /\ Plain(t) => Plain(t)'
                           /\ Holding(t)' <=> Holding(t)
                           /\ Writing(t)' <=> Writing(t)
    BY <1>2 DEF Dividing, Ending, Plain, Holding, Writing
  <2>2. \A i : SplitJob(i)' <=> SplitJob(i)
    BY <1>2 DEF SplitJob
  <2>3. AllPlain' /\ Locked' /\ AppendFresh'
    BY <1>2, <2>1 DEF SplitSafe, AllPlain, Locked, AppendFresh
  <2>4. Marked' /\ Sole'
    BY <1>2, <2>1, <2>2 DEF SplitSafe, Marked, Sole
  <2>5. Listed' /\ Owned'
    BY <1>2, <2>1, <2>2 DEF SplitSafe, Listed, ListedAt, Owned, OwnedAt
  <2>6. QED BY <1>0, <2>3, <2>4, <2>5 DEF SplitSafe
<1>3. CASE \E v \in Vectors : DeleteIndex(v)
  BY <1>2, <1>3 DEF DeleteIndex, store, marks, pool, locks, locals
<1>4. CASE UNCHANGED vars
  BY <1>2, <1>4 DEF vars
<1>5. QED BY <1>1, <1>3, <1>4 DEF Next

LEMMA SplitInvariant == ASSUME SameHead = FALSE PROVE Spec => []SplitSafe
<1>1. SplitSafe /\ [Next]_vars => SplitSafe'
  BY NextSplitSafe
<1>2. QED BY <1>1, InitSplitSafe, PTL DEF Spec

(* Two threads that divide a head at the same time divide two heads,       *)
(* though ConcurrentSplit locks nothing: the mark, which is set under the  *)
(* posting's lock, lets one append only get as far as a split.             *)
THEOREM SplitsExclude == ASSUME SameHead = FALSE PROVE Spec => []SplitExclusive
<1>1. SplitSafe => SplitExclusive
  <2> SUFFICES ASSUME SplitSafe, NEW t \in Threads, NEW u \in Threads, t # u, spl[t].of # None,
                      ~Ending(t), ~Ending(u), spl[t].of = spl[u].of
               PROVE  FALSE
    BY DEF SplitExclusive
  <2>1. Dividing(t) /\ Dividing(u)
    BY Frame1 DEF SplitSafe
  <2>2. QED BY <2>1 DEF SplitSafe, Sole
<1>2. QED BY <1>1, SplitInvariant, PTL

(* A head in use never keeps the mark of a split that nobody will carry    *)
(* out: its appends do not go to the cache for ever.                       *)
THEOREM MarksOwned == ASSUME SameHead = FALSE PROVE Spec => []MarkOwned
<1>1. SplitSafe => MarkOwned
  BY DEF SplitSafe, Owned, OwnedAt, MarkOwned, SplitJob
<1>2. QED BY <1>1, SplitInvariant, PTL

(* The read and the write of an append enclose no other write of the       *)
(* posting: appends exclude each other by the lock, and a splitter, which  *)
(* holds none, writes under a mark that an append in between never meets.  *)
THEOREM AppendsFresh == ASSUME SameHead = FALSE PROVE Spec => []AppendFresh
<1>1. SplitSafe => AppendFresh
  BY DEF SplitSafe
<1>2. QED BY <1>1, SplitInvariant, PTL

-----------------------------------------------------------------------------
(* The copies a search must go on finding: the live ones of vectors that   *)
(* are never deleted (a deleted one may get an old label again).           *)
LiveOf(S) == {c \in S : Vid(c) \notin Deletable /\ Current(c)}

Unlabelled == \A v \in Vectors \ Deletable : version[v] # Tombstone

(* A split between its read and the removal of its head from the index,    *)
(* and one that is about to write the kept copies back.                    *)
Handing(t) == pc[t] \in Splitting \/ app[t].back = "flush1"
Keeping(t) == pc[t] \in {"gclock", "gcsize", "gcput"}

(* Part k is in a posting a search finds. *)
Done(t, k) ==
  \/ pc[t] \in {"part", "publish"} /\ k < spl[t].k
  \/ pc[t] = "partsize" /\ k <= spl[t].k
  \/ pc[t] \in {"scan", "collect1", "flush1", "lock", "unindex"}
  \/ app[t].back = "flush1"

(* A split holds what it read, for nobody writes the posting meanwhile.    *)
Snaps ==
  \A t \in Threads :
    LET both == spl[t].parts[1] \cup spl[t].parts[2] IN
    /\ Handing(t) => LiveOf(posting[spl[t].of]) \subseteq both /\ both \subseteq posting[spl[t].of]
    /\ Keeping(t) => LiveOf(posting[spl[t].of]) \subseteq spl[t].todo
    /\ pc[t] = "publish" => posting[spl[t].into[spl[t].k]] = spl[t].parts[spl[t].k]

(* What a split has placed, some searchable head keeps: the new one, or    *)
(* one that a split of the new one made, and so on.  A head made later has *)
(* a higher rank than the head it was made from.                           *)
Above(rank, t, c) == \E g \in Searchable : c \in posting[g] /\ rank[g] > rank[spl[t].of]
Ranked(rank) ==
  \A t \in Threads :
    /\ pc[t] = "publish" => rank[spl[t].into[spl[t].k]] > rank[spl[t].of]
    /\ \A k \in 1..2 : Done(t, k) => \A c \in LiveOf(spl[t].parts[k]) : Above(rank, t, c)
Covered == \E rank \in [Heads -> Nat] : Ranked(rank)

(* No copy becomes the live one but the one just made. *)
LEMMA Relabel ==
  ASSUME Safe, Unlabelled, NEW t \in Threads, AddIndex(t) \/ Step(t)
  PROVE  Unlabelled' /\ \A S \in SUBSET Reached : LiveOf(S)' \subseteq LiveOf(S)
<1>0. version \in [Vectors -> Versions \cup {Tombstone}] /\ Reached \subseteq Copies
  BY DEF Safe, Typed, Reached
<1>1. CASE version' = version
  BY <1>1 DEF Unlabelled, LiveOf, Current
<1>2. CASE ReassignBump(t)
  <2>1. PICK S : S = Reached
    OBVIOUS
  <2>2. Typed(S, Published) /\ Frames /\ S \in SUBSET Copies
    BY <1>0, <2>1 DEF Safe
  <2>3. PICK v \in Vectors, n \in Versions :
           /\ v = Vid(mov[t].copy)
           /\ n = Successor(version[v])
           /\ <<v, n>> \in Copies
           /\ mov' = [mov EXCEPT ![t].copy = <<v, n>>]
           /\ version' = [version EXCEPT ![v] = n]
    BY <1>2, <2>2, BumpVersion
  <2>4. Tombstone \notin Versions
    BY UpdateAssumption DEF Versions
  <2>5. Unlabelled'
    BY <1>0, <2>3, <2>4 DEF Unlabelled
  <2>6. ASSUME NEW c \in Reached, Vid(c) \notin Deletable, version'[Vid(c)] = Ver(c)
        PROVE  version[Vid(c)] = Ver(c)
    <3>1. Vid(c) \in Vectors /\ Ver(c) \in Versions /\ version[Vid(c)] # Tombstone
      BY <1>0, <2>6 DEF Copies, Vid, Ver, Unlabelled
    <3>2. Ver(c) <= version[Vid(c)]
      BY <2>6, <3>1 DEF Reached
    <3>3. CASE Vid(c) = v
      <4>1. Ver(c) = version[v] + 1
        BY <1>0, <2>3, <2>6, <3>1, <3>3 DEF Successor
      <4>2. QED BY <1>0, <3>1, <3>2, <3>3, <4>1 DEF Versions
    <3>4. CASE Vid(c) # v
      BY <1>0, <2>3, <2>6, <3>1, <3>4
    <3>5. QED BY <3>3, <3>4
  <2>7. QED BY <2>5, <2>6 DEF LiveOf, Current
<1>3. QED BY <1>1, <1>2, OtherSteps

(* Where a split goes from its read on. *)
SameParts(t) == spl'[t].of = spl[t].of /\ spl'[t].parts = spl[t].parts
LEMMA StageStep ==
  ASSUME SameHead = FALSE, Safe, AllPlain, NEW t \in Threads, AddIndex(t) \/ Step(t)
  PROVE  /\ Handing(t)' => \/ SplitRead(t) /\ pc'[t] = "part"
                           \/ Handing(t) /\ SameParts(t)
         /\ Keeping(t)' => \/ SplitRead(t) /\ pc'[t] = "gclock"
                           \/ Keeping(t) /\ spl' = spl
         /\ pc'[t] = "publish" => SplitPart(t)
         /\ \A k \in 1..2 : Done(t, k)' =>
              /\ SameParts(t)
              /\ Done(t, k) \/ (SplitPublish(t) /\ k = spl[t].k)
<1>0. /\ pc \in [Threads -> PC] /\ spl \in [Threads -> SplitFrameIn(Reached, Published)]
      /\ app \in [Threads -> AppendFrameIn(Reached, Published)]
  BY DEF Safe, Typed
<1>f. /\ pc[t] \notin AppendPCs => app[t].back = "idle"
      /\ app[t].back \in {"idle", "insert", "spread", "flush1", "flush2"}
      /\ spl[t].caller \in {"idle", "spread"} /\ spl[t].k \in 1..2
  BY Frame1
<1>s. SameSplit(t) => SameParts(t)
  BY DEF SameSplit, SameParts
<1>n. ASSUME pc'[t] \notin Splitting \cup {"gclock", "gcsize", "gcput"}, app'[t].back # "flush1"
      PROVE  ~Handing(t)' /\ ~Keeping(t)' /\ pc'[t] # "publish" /\ \A k \in 1..2 : ~Done(t, k)'
  BY <1>n DEF Handing, Keeping, Done, Splitting
<1>1. CASE Apart(t)
  <2>1. SameStage(t)
    BY <1>1, ApartStep
  <2>2. CASE Dividing(t)
    <3>1. app[t].back = "flush1"
      BY <2>1, <2>2 DEF SameStage, Dividing, Divided, SplitPCs
    <3>2. pc'[t] \notin {"publish", "gclock", "gcsize", "gcput"}
      BY <2>1 DEF SameStage, SplitPCs
    <3>3. Handing(t) /\ \A k \in 1..2 : Done(t, k)
      BY <3>1 DEF Handing, Done
    <3>4. QED BY <1>s, <2>1, <3>2, <3>3 DEF SameStage, Keeping
  <2>3. CASE ~Dividing(t)
    <3>1. ~Dividing(t)'
      BY <2>1, <2>3 DEF SameStage
    <3>2. pc'[t] \notin Splitting \cup {"gclock", "gcsize", "gcput"} /\ app'[t].back # "flush1"
      BY <3>1 DEF Dividing, Divided, Splitting
    <3>3. QED BY <1>n, <3>2
  <2>4. QED BY <2>2, <2>3
<1>2. CASE TakeJob(t)
  <2>1. pc'[t] \in {"append", "split", "reassign"} /\ app'[t].back = "idle"
    BY <1>2, TakeStep
  <2>2. QED BY <1>n, <2>1 DEF Splitting
<1>3. CASE AppendGrow(t)
  <2>1. CASE spl' = spl /\ pc'[t] = app[t].back /\ app'[t].back = "idle"
    <3>1. CASE app[t].back = "flush1"
      BY <2>1, <3>1 DEF Handing, Keeping, Done, SameParts
    <3>2. CASE app[t].back # "flush1"
      BY <1>f, <1>n, <2>1, <3>2 DEF Splitting
    <3>3. QED BY <3>1, <3>2
  <2>2. CASE spl' = spl /\ pc'[t] = "enqueue" /\ app' = app
    <3>1. CASE app[t].back = "flush1"
      BY <2>2, <3>1 DEF Handing, Keeping, Done, SameParts
    <3>2. CASE app[t].back # "flush1"
      BY <1>n, <2>2, <3>2 DEF Splitting
    <3>3. QED BY <3>1, <3>2
  <2>3. CASE pc'[t] = "split" /\ app'[t].back = "idle"
    BY <1>n, <2>3 DEF Splitting
  <2>4. QED BY <1>3, <2>1, <2>2, <2>3, GrowStep
<1>4. CASE SplitRead(t)
  <2>1. /\ pc[t] = "split" /\ pc'[t] \in {"gclock", "part"} /\ app' = app
        /\ pc'[t] = "part" => spl'[t].k = 1
    BY <1>0, <1>4, ReadStep DEF SplitRead
  <2>2. app'[t].back = "idle"
    BY <1>f, <2>1 DEF AppendPCs
  <2>3. QED BY <1>4, <2>1, <2>2 DEF Handing, Keeping, Done, Splitting
<1>5. CASE SplitPart(t)
  <2>1. /\ pc[t] = "part" /\ pc'[t] = "publish" /\ app' = app /\ spl'[t].k = spl[t].k
        /\ spl'[t].of = spl[t].of /\ spl'[t].parts = spl[t].parts
    BY <1>5, PlaceStep
  <2>2. QED BY <1>5, <2>1 DEF Handing, Keeping, Done, Splitting, SameParts
<1>6. CASE Working(t)
  <2>1. /\ SameSplit(t) /\ pc[t] \in SplitPCs /\ Follows(pc[t], pc'[t])
        /\ Dividing(t)' <=> Dividing(t)
        /\ Ending(t)' <=> Ending(t)
        /\ pc'[t] = "part" => spl[t].k = 1 /\ spl'[t].k = 2
        /\ pc'[t] = "partsize" => spl'[t].k = spl[t].k
    BY <1>6, WorkStep
  <2>2. pc'[t] # "publish"
    BY <2>1 DEF Follows
  <2>3. app[t].back = "idle"
    BY <1>f, <2>1 DEF SplitPCs, AppendPCs
  <2>4. app'[t].back = "flush1" => pc[t] = "flush1"
    <3>1. Safe'
      BY NextSafe DEF Next
    <3>2. pc'[t] \notin AppendPCs => app'[t].back = "idle"
      BY <3>1 DEF Safe, Frames, Frame, NoAppend
    <3>3. app'[t].back = "flush1" => Dividing(t)
      BY <2>1 DEF Dividing
    <3>4. QED BY <2>1, <2>3, <3>2, <3>3 DEF Follows, Dividing, Divided, AppendPCs
  <2>5. Handing(t)' => Handing(t)
    BY <2>1, <2>4 DEF Handing, Splitting, Follows
  <2>6. Keeping(t)' => Keeping(t) /\ spl' = spl
    <3>1. pc'[t] \in {"gclock", "gcsize", "gcput"} => pc[t] \in {"gclock", "gcsize"}
      BY <2>1 DEF Follows
    <3>2. Working(t) /\ pc[t] \in {"gclock", "gcsize"} => spl' = spl
      BY DEF Working, SplitGcSize, SplitGcPut, SplitGcErase, SplitGcFlush, SplitPublish, SplitPartSize,
         SplitScan, SplitUnindex, SplitShrink, SplitLock, SplitCollect, SplitFlush, From, locals
    <3>3. QED BY <1>6, <3>1, <3>2 DEF Keeping
  <2>7. ASSUME NEW k \in 1..2, Done(t, k)'
        PROVE  Done(t, k) \/ (SplitPublish(t) /\ k = spl[t].k)
    <3>1. CASE pc'[t] = "part"
      BY <2>1, <2>4, <2>7, <3>1, <1>f DEF Done, Follows
    <3>2. CASE pc'[t] = "partsize"
      <4>1. pc[t] = "publish"
        BY <2>1, <3>2 DEF Follows
      <4>2. SplitPublish(t)
        BY <1>6, <4>1 DEF Working, SplitGcSize, SplitGcPut, SplitGcErase, SplitGcFlush, SplitPartSize,
           SplitScan, SplitUnindex, SplitShrink, SplitLock, SplitCollect, SplitFlush, From
      <4>3. QED BY <2>1, <2>4, <2>7, <3>2, <4>1, <4>2, <1>f DEF Done
    <3>3. CASE pc'[t] = "scan" /\ pc[t] = "partsize"
      <4>1. SplitPartSize(t)
        BY <1>6, <3>3 DEF Working, SplitGcSize, SplitGcPut, SplitGcErase, SplitGcFlush, SplitPublish,
           SplitScan, SplitUnindex, SplitShrink, SplitLock, SplitCollect, SplitFlush, From
      <4>2. spl[t].k = 2
        BY <1>0, <3>3, <4>1 DEF SplitPartSize, Goto
      <4>3. QED BY <3>3, <4>2 DEF Done
    <3>4. CASE /\ pc'[t] \in {"scan", "collect1", "flush1", "lock", "unindex"}
               /\ ~(pc'[t] = "scan" /\ pc[t] = "partsize")
      BY <2>1, <3>4 DEF Done, Follows
    <3>5. CASE app'[t].back = "flush1"
      BY <2>4, <3>5 DEF Done
    <3>6. QED
      BY <2>2, <2>7, <3>1, <3>2, <3>3, <3>4, <3>5 DEF Done
  <2>8. QED BY <1>s, <2>1, <2>2, <2>5, <2>6, <2>7
<1>7. CASE SplitGcNormal(t) \/ SplitRetire(t) \/ SplitErase(t)
  <2>1. pc[t] \in {"gcnormal", "retire", "erase"} /\ app' = app
    BY <1>7 DEF SplitGcNormal, SplitRetire, SplitErase, From, locals
  <2>2. pc'[t] \in {"idle", "spread", "collect2"}
    BY <1>0, <1>7, <1>f DEF SplitGcNormal, SplitRetire, SplitErase, ReturnSplit, Goto
  <2>3. app'[t].back = "idle"
    BY <1>f, <2>1 DEF AppendPCs
  <2>4. QED BY <1>n, <2>2, <2>3 DEF Splitting
<1>8. QED BY <1>1, <1>2, <1>3, <1>4, <1>5, <1>6, <1>7, StepKinds

(* No step takes a live copy from a posting, or touches a posting that is  *)
(* being split or added.                                                   *)
LEMMA WrittenStep ==
  ASSUME SameHead = FALSE, Safe, AllPlain, Marked, Sole, Locked, AppendFresh, Snaps,
         NEW t \in Threads, AddIndex(t) \/ Step(t)
  PROVE  /\ \A u \in Threads : Dividing(u) /\ ~(u = t /\ SplitGcPut(t))
                                 => posting'[spl[u].of] = posting[spl[u].of]
         /\ \A u \in Threads : pc[u] = "publish"
                                 => posting'[spl[u].into[spl[u].k]] = posting[spl[u].into[spl[u].k]]
         /\ \A h \in Published : LiveOf(posting[h]) \subseteq posting'[h]
<1>0. posting \in [Heads -> SUBSET Reached] /\ Published \subseteq Heads
  BY DEF Safe, Typed, Published
<1>1. \A u \in Threads : Dividing(u) => spl[u].of \in Published /\ status[spl[u].of] = "splitting"
  BY Frame1 DEF Marked
<1>2. \A u \in Threads : pc[u] = "publish" => /\ spl[u].into[spl[u].k] \in Heads \ Published
                                             /\ index[spl[u].into[spl[u].k]] # "absent"
  BY DEF Safe, Publishing, Published
<1>3. CASE posting' = posting
  BY <1>3 DEF LiveOf
<1>4. CASE AppendPut(t)
  <2>1. pc[t] = "put"
    BY <1>4 DEF AppendPut, From
  <2>2. /\ app[t].at \in Published /\ status[app[t].at] # "splitting"
        /\ app[t].old = posting[app[t].at]
    BY <2>1, Frame1 DEF AppendPCs, Locked, Writing, AppendFresh
  <2>3. PICK new : posting' = [posting EXCEPT ![app[t].at] = app[t].old \cup new]
    BY <1>4 DEF AppendPut
  <2>4. QED BY <1>0, <1>1, <1>2, <2>2, <2>3 DEF LiveOf
<1>5. CASE SplitGcPut(t)
  <2>1. Dividing(t) /\ Keeping(t) /\ posting' = [posting EXCEPT ![spl[t].of] = spl[t].todo]
    BY <1>5 DEF SplitGcPut, From, Dividing, Divided, Keeping
  <2>2. LiveOf(posting[spl[t].of]) \subseteq spl[t].todo
    BY <2>1 DEF Snaps
  <2>3. \A u \in Threads \ {t} : Dividing(u) => spl[u].of # spl[t].of
    BY <2>1 DEF Sole
  <2>4. QED BY <1>0, <1>1, <1>2, <1>5, <2>1, <2>2, <2>3 DEF LiveOf
<1>6. CASE SplitPart(t)
  <2>1. PICK n \in Heads :
          /\ index[n] = "absent" /\ rwLock[n] = None
          /\ index' = [index EXCEPT ![n] = "adding"]
          /\ status' = [status EXCEPT ![n] = "normal"]
          /\ posting' = [posting EXCEPT ![n] = spl[t].parts[spl[t].k]]
          /\ rwLock' = [rwLock EXCEPT ![n] = t]
          /\ spl'[t].into = [spl[t].into EXCEPT ![spl[t].k] = n]
    BY <1>6, PlaceStep
  <2>2. n \notin Published
    BY <2>1 DEF Published
  <2>3. QED BY <1>0, <1>1, <1>2, <2>1, <2>2 DEF LiveOf
<1>7. QED BY <1>3, <1>4, <1>5, <1>6, PostingStep

LEMMA SnapsStep ==
  ASSUME SameHead = FALSE, Identical = FALSE, Safe, AllPlain, Marked, Sole, Locked, AppendFresh,
         Unlabelled, Snaps, NEW t \in Threads, AddIndex(t) \/ Step(t)
  PROVE  Snaps'
<1>0. /\ posting \in [Heads -> SUBSET Reached] /\ Published \subseteq Heads
      /\ spl \in [Threads -> SplitFrameIn(Reached, Published)]
  BY DEF Safe, Typed, Published
<1>1. \A S \in SUBSET Reached : LiveOf(S)' \subseteq LiveOf(S)
  BY Relabel
<1>2. Others(t)
  BY StepLocal DEF Safe
<1>3. /\ \A u \in Threads : Dividing(u) /\ ~(u = t /\ SplitGcPut(t))
                              => posting'[spl[u].of] = posting[spl[u].of]
      /\ \A u \in Threads : pc[u] = "publish"
                              => posting'[spl[u].into[spl[u].k]] = posting[spl[u].into[spl[u].k]]
  BY WrittenStep
<1>4. \A u \in Threads : Handing(u) \/ Keeping(u) => Dividing(u) /\ spl[u].of \in Heads
  BY <1>0, Frame1 DEF Handing, Keeping, Dividing, Divided, Splitting
<1>5. ASSUME NEW u \in Threads, NEW h \in Heads, posting'[h] = posting[h]
      PROVE  LiveOf(posting[h])' \subseteq LiveOf(posting[h])
  <2>1. PICK S \in SUBSET Reached : S = posting[h]
    BY <1>0
  <2>2. LiveOf(posting[h])' = LiveOf(S)'
    BY <1>5, <2>1 DEF LiveOf
  <2>3. QED BY <1>1, <2>1, <2>2
<1> SUFFICES ASSUME NEW u \in Threads
             PROVE  /\ Handing(u)' => /\ LiveOf(posting[spl[u].of])' \subseteq spl'[u].parts[1] \cup spl'[u].parts[2]
                                      /\ spl'[u].parts[1] \cup spl'[u].parts[2] \subseteq posting'[spl'[u].of]
                    /\ Keeping(u)' => LiveOf(posting[spl[u].of])' \subseteq spl'[u].todo
                    /\ pc'[u] = "publish" => posting'[spl'[u].into[spl'[u].k]] = spl'[u].parts[spl'[u].k]
  BY DEF Snaps
<1>6. ASSUME Handing(u), SameParts(u), ~(u = t /\ SplitGcPut(t))
      PROVE  /\ LiveOf(posting[spl[u].of])' \subseteq spl'[u].parts[1] \cup spl'[u].parts[2]
             /\ spl'[u].parts[1] \cup spl'[u].parts[2] \subseteq posting'[spl'[u].of]
  <2>1. PICK h \in Heads : h = spl[u].of
    BY <1>4, <1>6
  <2>2. posting'[h] = posting[h] /\ spl'[u].of = h /\ spl'[u].parts = spl[u].parts
    BY <1>3, <1>4, <1>6, <2>1 DEF SameParts
  <2>3. LiveOf(posting[spl[u].of])' \subseteq LiveOf(posting[h])
    BY <1>5, <2>2 DEF LiveOf
  <2>4. QED BY <1>6, <2>1, <2>2, <2>3 DEF Snaps
<1>7. ASSUME Keeping(u), spl'[u] = spl[u], ~(u = t /\ SplitGcPut(t))
      PROVE  LiveOf(posting[spl[u].of])' \subseteq spl'[u].todo
  <2>1. PICK h \in Heads : h = spl[u].of
    BY <1>4, <1>7
  <2>2. posting'[h] = posting[h] /\ spl'[u].of = h /\ spl'[u].todo = spl[u].todo
    BY <1>3, <1>4, <1>7, <2>1
  <2>3. LiveOf(posting[spl[u].of])' \subseteq LiveOf(posting[h])
    BY <1>5, <2>2 DEF LiveOf
  <2>4. QED BY <1>7, <2>1, <2>2, <2>3 DEF Snaps
<1>8. CASE u # t
  <2>1. pc'[u] = pc[u] /\ app'[u] = app[u] /\ spl'[u] = spl[u]
    BY <1>2, <1>8 DEF Others
  <2>2. (Handing(u)' => Handing(u)) /\ (Keeping(u)' => Keeping(u)) /\ SameParts(u)
    BY <2>1 DEF Handing, Keeping, SameParts
  <2>3. pc[u] = "publish" => posting'[spl'[u].into[spl'[u].k]] = spl'[u].parts[spl'[u].k]
    BY <1>3, <2>1 DEF Snaps
  <2>4. QED BY <1>6, <1>7, <1>8, <2>1, <2>2, <2>3
<1>9. CASE u = t
  <2>g. SplitGcPut(t) => ~Handing(t)' /\ ~Keeping(t)'
    <3> SUFFICES ASSUME SplitGcPut(t) PROVE ~Handing(t)' /\ ~Keeping(t)'
      OBVIOUS
    <3>1. pc'[t] = "gcerase" /\ app' = app /\ pc[t] = "gcput"
      BY DEF SplitGcPut, From, Goto, Safe, Typed, locals
    <3>2. app[t].back = "idle"
      BY <3>1, Frame1 DEF AppendPCs
    <3>3. QED BY <3>1, <3>2 DEF Handing, Keeping, Splitting
  <2>1. ASSUME Handing(t)'
        PROVE  /\ LiveOf(posting[spl[t].of])' \subseteq spl'[t].parts[1] \cup spl'[t].parts[2]
               /\ spl'[t].parts[1] \cup spl'[t].parts[2] \subseteq posting'[spl'[t].of]
    <3>1. CASE Handing(t) /\ SameParts(t)
      BY <1>6, <1>9, <2>1, <2>g, <3>1
    <3>2. CASE SplitRead(t) /\ pc'[t] = "part"
      <4>0. pc \in [Threads -> PC] /\ posting' = posting
        BY <3>2 DEF Safe, Typed, SplitRead, store
      <4>1. /\ spl[t].of \in Heads /\ spl'[t].of = spl[t].of
            /\ spl'[t].parts[1] \cup spl'[t].parts[2] = CurrentOf(posting[spl[t].of])
        BY <3>2, <4>0, ReadStep
      <4>2. PICK h \in Heads : h = spl[t].of
        BY <4>1
      <4>3. LiveOf(posting[spl[t].of])' \subseteq LiveOf(posting[h])
        BY <1>5, <4>0, <4>1, <4>2 DEF LiveOf
      <4>4. QED BY <4>0, <4>1, <4>2, <4>3 DEF LiveOf, CurrentOf
    <3>3. QED BY <2>1, <3>1, <3>2, StageStep
  <2>2. ASSUME Keeping(t)'
        PROVE  LiveOf(posting[spl[t].of])' \subseteq spl'[t].todo
    <3>1. CASE Keeping(t) /\ spl' = spl
      BY <1>7, <1>9, <2>2, <2>g, <3>1
    <3>2. CASE SplitRead(t) /\ pc'[t] = "gclock"
      <4>0. pc \in [Threads -> PC] /\ posting' = posting
        BY <3>2 DEF Safe, Typed, SplitRead, store
      <4>1. /\ spl[t].of \in Heads /\ spl'[t].of = spl[t].of
            /\ spl'[t].todo = CurrentOf(posting[spl[t].of])
        BY <3>2, <4>0, ReadStep DEF SameSplit
      <4>2. PICK h \in Heads : h = spl[t].of
        BY <4>1
      <4>3. LiveOf(posting[spl[t].of])' \subseteq LiveOf(posting[h])
        BY <1>5, <4>0, <4>1, <4>2 DEF LiveOf
      <4>4. QED BY <4>0, <4>1, <4>2, <4>3 DEF LiveOf, CurrentOf
    <3>3. QED BY <2>2, <3>1, <3>2, StageStep
  <2>3. ASSUME pc'[t] = "publish"
        PROVE  posting'[spl'[t].into[spl'[t].k]] = spl'[t].parts[spl'[t].k]
    <3>1. SplitPart(t)
      BY <2>3, StageStep
    <3>2. spl'[t].k = spl[t].k /\ spl'[t].parts = spl[t].parts
      BY <3>1, PlaceStep
    <3>3. PICK n \in Heads :
            /\ index[n] = "absent" /\ rwLock[n] = None
            /\ index' = [index EXCEPT ![n] = "adding"]
            /\ status' = [status EXCEPT ![n] = "normal"]
            /\ posting' = [posting EXCEPT ![n] = spl[t].parts[spl[t].k]]
            /\ rwLock' = [rwLock EXCEPT ![n] = t]
            /\ spl'[t].into = [spl[t].into EXCEPT ![spl[t].k] = n]
      BY <3>1, PlaceStep
    <3>4. spl[t].k \in 1..2 /\ spl[t].into \in [1..2 -> Heads \cup {None}]
      BY <1>0 DEF SplitFrameIn
    <3>5. QED BY <1>0, <3>2, <3>3, <3>4
  <2>4. QED BY <1>9, <2>1, <2>2, <2>3
<1>10. QED BY <1>8, <1>9

(* Only the split that has placed both parts takes a head from a search.   *)
LEMMA FoundStep ==
  ASSUME Safe, NEW t \in Threads, AddIndex(t) \/ Step(t), NEW h \in Searchable
  PROVE  h \in Searchable' \/ (SplitUnindex(t) /\ h = spl[t].of)
<1>0. index \in [Heads -> Presence] /\ h \in Heads /\ index[h] = "live"
  BY DEF Safe, Typed, Searchable
<1>1. CASE ~Indexing(t)
  BY <1>0, <1>1, NoIndexingStep DEF NoIndexing, Safe, Searchable
<1>2. CASE SplitPart(t)
  BY <1>0, <1>2 DEF SplitPart, Searchable
<1>3. CASE SplitPublish(t)
  BY <1>0, <1>3 DEF SplitPublish, Searchable
<1>4. CASE SplitUnindex(t)
  BY <1>0, <1>4 DEF SplitUnindex, Searchable
<1>5. CASE SplitShrink(t) \/ SplitRetire(t)
  BY <1>0, <1>5 DEF SplitShrink, SplitRetire, marks, Searchable
<1>6. QED BY <1>1, <1>2, <1>3, <1>4, <1>5 DEF Indexing

LEMMA StaysFound ==
  ASSUME SameHead = FALSE, Safe, AllPlain, Marked, Sole, Locked, AppendFresh, Snaps,
         NEW rank \in [Heads -> Nat], Ranked(rank), NEW t \in Threads, AddIndex(t) \/ Step(t),
         NEW h \in Searchable, NEW c \in LiveOf(posting[h])
  PROVE  \E g \in Searchable' : c \in posting'[g] /\ rank[g] >= rank[h]
<1>0. /\ \A g \in Searchable : g \in Published /\ g \in Heads
      /\ \A g \in Heads : rank[g] \in Nat
  BY DEF Searchable, Published
<1>1. \A g \in Searchable : LiveOf(posting[g]) \subseteq posting'[g]
  BY <1>0, WrittenStep
<1>2. CASE h \in Searchable'
  BY <1>0, <1>1, <1>2
<1>3. CASE SplitUnindex(t) /\ h = spl[t].of
  <2>1. pc[t] = "unindex"
    BY <1>3 DEF SplitUnindex, From
  <2>2. Handing(t) /\ \A k \in 1..2 : Done(t, k)
    BY <2>1 DEF Handing, Splitting, Done
  <2>3. PICK k \in 1..2 : c \in LiveOf(spl[t].parts[k])
    BY <1>3, <2>2 DEF Snaps, LiveOf
  <2>4. PICK g \in Searchable : c \in posting[g] /\ rank[g] > rank[h]
    BY <1>3, <2>2, <2>3 DEF Ranked, Above
  <2>5. g # h
    BY <1>0, <2>4
  <2>6. g \in Searchable'
    BY <1>3, <2>5, FoundStep
  <2>7. c \in posting'[g]
    BY <1>1, <2>4 DEF LiveOf
  <2>8. rank[g] >= rank[h]
    BY <1>0, <2>4
  <2>9. QED BY <2>6, <2>7, <2>8
<1>4. QED BY <1>2, <1>3, FoundStep

LEMMA CoveredStep ==
  ASSUME SameHead = FALSE, Safe, AllPlain, Marked, Sole, Locked, AppendFresh, Unlabelled, Snaps,
         Covered, NEW t \in Threads, AddIndex(t) \/ Step(t)
  PROVE  Covered'
<1>0. /\ posting \in [Heads -> SUBSET Reached] /\ Published \subseteq Heads
      /\ spl \in [Threads -> SplitFrameIn(Reached, Published)] /\ index \in [Heads -> Presence]
  BY DEF Safe, Typed, Published
<1>1. PICK rank \in [Heads -> Nat] : Ranked(rank)
  BY DEF Covered
<1>2. Others(t)
  BY StepLocal DEF Safe
<1>3. \A S \in SUBSET Reached : LiveOf(S)' \subseteq LiveOf(S)
  BY Relabel
<1>4. \A u \in Threads, k \in 1..2 : Done(u, k) => spl[u].of \in Published
  BY Frame1 DEF Done, Dividing, Divided
<1>r. \A g \in Heads : rank[g] \in Nat
  OBVIOUS
<1>5. ASSUME NEW u \in Threads, NEW k \in 1..2, Done(u, k), NEW c \in LiveOf(spl[u].parts[k])
      PROVE  \E g \in Searchable' : c \in posting'[g] /\ rank[g] > rank[spl[u].of]
  <2>1. PICK h \in Searchable : c \in posting[h] /\ rank[h] > rank[spl[u].of]
    BY <1>1, <1>5 DEF Ranked, Above
  <2>2. c \in LiveOf(posting[h])
    BY <1>5, <2>1 DEF LiveOf
  <2>3. PICK g \in Searchable' : c \in posting'[g] /\ rank[g] >= rank[h]
    BY <1>1, <2>2, StaysFound
  <2>4. g \in Heads /\ h \in Heads /\ spl[u].of \in Heads
    BY <1>0, <1>4, <1>5 DEF Searchable
  <2>5. rank[g] > rank[spl[u].of]
    BY <1>r, <2>1, <2>3, <2>4
  <2>6. QED BY <2>3, <2>5
<1>6. ASSUME NEW u \in Threads, NEW k \in 1..2, spl'[u].parts = spl[u].parts,
             NEW c \in LiveOf(spl[u].parts[k])'
      PROVE  c \in LiveOf(spl[u].parts[k])
  <2>1. PICK S : S = spl[u].parts[k]
    OBVIOUS
  <2>2. S \in SUBSET Reached
    BY <1>0, <2>1 DEF SplitFrameIn
  <2>3. LiveOf(spl[u].parts[k])' = LiveOf(S)'
    BY <1>6, <2>1 DEF LiveOf
  <2>4. QED BY <1>3, <1>6, <2>1, <2>2, <2>3
<1>7. \A u \in Threads, k \in 1..2 : Done(u, k)' =>
        SameParts(u) /\ (Done(u, k) \/ (u = t /\ SplitPublish(t) /\ k = spl[t].k))
  <2>1. \A u \in Threads \ {t}, k \in 1..2 : Done(u, k)' => SameParts(u) /\ Done(u, k)
    BY <1>2 DEF Others, Done, SameParts
  <2>2. QED BY <2>1, StageStep
<1>8. CASE ~SplitPart(t)
  <2>1. ASSUME NEW u \in Threads, pc'[u] = "publish"
        PROVE  rank[spl'[u].into[spl'[u].k]] > rank[spl'[u].of]
    <3>1. u # t
      BY <1>8, <2>1, StageStep
    <3>2. pc[u] = "publish" /\ spl'[u] = spl[u]
      BY <1>2, <2>1, <3>1 DEF Others
    <3>3. QED BY <1>1, <3>2 DEF Ranked
  <2>2. ASSUME NEW u \in Threads, NEW k \in 1..2, Done(u, k)', NEW c \in LiveOf(spl[u].parts[k])'
        PROVE  Above(rank, u, c)'
    <3>1. SameParts(u) /\ c \in LiveOf(spl[u].parts[k])
      BY <1>6, <1>7, <2>2 DEF SameParts
    <3>2. CASE Done(u, k)
      BY <1>5, <3>1, <3>2 DEF Above, SameParts
    <3>3. CASE u = t /\ SplitPublish(t) /\ k = spl[t].k
      <4>1. PICK n : n = spl[t].into[spl[t].k]
        OBVIOUS
      <4>2. /\ pc[t] = "publish" /\ posting' = posting
            /\ index' = [index EXCEPT ![n] = "live"]
        BY <3>3, <4>1 DEF SplitPublish, From, store
      <4>3. n \in Heads /\ posting[n] = spl[t].parts[k] /\ rank[n] > rank[spl[t].of]
        BY <1>1, <3>3, <4>1, <4>2 DEF Safe, Publishing, Snaps, Ranked
      <4>4. n \in Searchable' /\ c \in posting'[n]
        BY <1>0, <3>1, <3>3, <4>2, <4>3 DEF Searchable, LiveOf
      <4>5. QED BY <3>1, <3>3, <4>3, <4>4 DEF Above, SameParts
    <3>4. QED BY <1>7, <2>2, <3>2, <3>3
  <2>3. Ranked(rank)'
    BY <2>1, <2>2 DEF Ranked
  <2>4. QED BY <2>3 DEF Covered
<1>9. CASE SplitPart(t)
  <2>1. /\ pc'[t] = "publish" /\ spl[t].of \in Published /\ spl'[t].of = spl[t].of
        /\ spl'[t].k = spl[t].k
    BY <1>9, PlaceStep
  <2>2. PICK n \in Heads :
          /\ index[n] = "absent" /\ rwLock[n] = None
          /\ index' = [index EXCEPT ![n] = "adding"]
          /\ status' = [status EXCEPT ![n] = "normal"]
          /\ posting' = [posting EXCEPT ![n] = spl[t].parts[spl[t].k]]
          /\ rwLock' = [rwLock EXCEPT ![n] = t]
          /\ spl'[t].into = [spl[t].into EXCEPT ![spl[t].k] = n]
    BY <1>9, PlaceStep
  <2>3. PICK r \in Nat : r = rank[spl[t].of]
    BY <1>0, <2>1
  <2>w. [rank EXCEPT ![n] = r + 1] \in [Heads -> Nat]
    BY <2>3
  <2>4. PICK above \in [Heads -> Nat] : above = [rank EXCEPT ![n] = r + 1]
    BY <2>w
  <2>5. above[n] = r + 1 /\ \A g \in Heads \ {n} : above[g] = rank[g]
    BY <2>2, <2>4
  <2>6. n \notin Published /\ n \notin Searchable'
    BY <1>0, <2>2 DEF Published, Searchable
  <2>7. ASSUME NEW u \in Threads, pc'[u] = "publish"
        PROVE  above[spl'[u].into[spl'[u].k]] > above[spl'[u].of]
    <3>1. CASE u = t
      <4>1. spl'[t].into[spl'[t].k] = n
        <5>1. spl[t].k \in 1..2 /\ spl[t].into \in [1..2 -> Heads \cup {None}]
          BY <1>0 DEF SplitFrameIn
        <5>2. QED BY <2>1, <2>2, <5>1
      <4>2. above[spl'[t].of] = r
        BY <1>0, <2>1, <2>3, <2>5, <2>6
      <4>3. QED BY <2>3, <2>5, <3>1, <4>1, <4>2
    <3>2. CASE u # t
      <4>1. pc[u] = "publish" /\ spl'[u] = spl[u]
        BY <1>2, <2>7, <3>2 DEF Others
      <4>2. /\ spl[u].into[spl[u].k] \in Heads /\ spl[u].into[spl[u].k] # n
        BY <2>2, <4>1 DEF Safe, Publishing
      <4>3. spl[u].of \in Published
        BY <4>1, Frame1 DEF Dividing, Divided
      <4>4. QED BY <1>0, <1>1, <2>5, <2>6, <4>1, <4>2, <4>3 DEF Ranked
    <3>3. QED BY <3>1, <3>2
  <2>8. ASSUME NEW u \in Threads, NEW k \in 1..2, Done(u, k)', NEW c \in LiveOf(spl[u].parts[k])'
        PROVE  Above(above, u, c)'
    <3>1. Done(u, k) /\ SameParts(u)
      <4>1. ~SplitPublish(t)
        BY <1>9 DEF SplitPart, SplitPublish, From
      <4>2. QED BY <1>7, <2>8, <4>1
    <3>2. c \in LiveOf(spl[u].parts[k])
      BY <1>6, <2>8, <3>1 DEF SameParts
    <3>3. PICK g \in Searchable' : c \in posting'[g] /\ rank[g] > rank[spl[u].of]
      BY <1>5, <3>1, <3>2
    <3>4. above[g] = rank[g] /\ above[spl[u].of] = rank[spl[u].of]
      <4>1. g \in Heads /\ g # n
        BY <2>6 DEF Searchable
      <4>2. spl[u].of \in Heads /\ spl[u].of # n
        BY <1>0, <1>4, <2>6, <3>1
      <4>3. QED BY <2>5, <4>1, <4>2
    <3>5. QED BY <3>1, <3>3, <3>4 DEF Above, SameParts
  <2>9. Ranked(above)'
    BY <2>7, <2>8 DEF Ranked
  <2>10. QED BY <2>9 DEF Covered
<1>10. QED BY <1>8, <1>9

-----------------------------------------------------------------------------
(* The inductive invariant of what a search finds. *)
FoundSafe == SplitSafe /\ Unlabelled /\ Snaps /\ Covered

LEMMA InitFoundSafe == Init => FoundSafe
<1> SUFFICES ASSUME Init PROVE FoundSafe
  OBVIOUS
<1>1. SplitSafe
  BY InitSplitSafe
<1>2. \A t \in Threads : pc[t] = "idle" /\ app[t].back = "idle"
  BY DEF Init, NoAppend
<1>3. Unlabelled
  BY UpdateAssumption DEF Init, Unlabelled
<1>4. Snaps
  BY <1>2 DEF Snaps, Handing, Keeping, Splitting
<1>5. Covered
  <2>1. [h \in Heads |-> 0] \in [Heads -> Nat]
    OBVIOUS
  <2>2. PICK rank \in [Heads -> Nat] : rank = [h \in Heads |-> 0]
    BY <2>1
  <2>3. Ranked(rank)
    BY <1>2 DEF Ranked, Done
  <2>4. QED BY <2>3 DEF Covered
<1>6. QED BY <1>1, <1>3, <1>4, <1>5 DEF FoundSafe

(* A deletion makes no copy live. *)
LEMMA DeleteFoundSafe ==
  ASSUME SameHead = FALSE, FoundSafe, NEW v \in Vectors, DeleteIndex(v)
  PROVE  FoundSafe'
<1>0. /\ posting \in [Heads -> SUBSET Reached] /\ Reached \subseteq Copies
      /\ spl \in [Threads -> SplitFrameIn(Reached, Published)] /\ Published \subseteq Heads
      /\ version \in [Vectors -> Versions \cup {Tombstone}]
  BY DEF FoundSafe, SplitSafe, Safe, Typed, Reached, Published
<1>1. SplitSafe'
  BY NextSplitSafe DEF FoundSafe, Next
<1>2. /\ version' = [version EXCEPT ![v] = Tombstone] /\ v \in Deletable
      /\ UNCHANGED <<posting, index, pc, app, spl>>
  BY DEF DeleteIndex, store, marks, locals
<1>3. Unlabelled'
  BY <1>0, <1>2 DEF FoundSafe, Unlabelled
<1>4. \A S \in SUBSET Reached : LiveOf(S)' \subseteq LiveOf(S)
  <2> SUFFICES ASSUME NEW c \in Reached, Vid(c) \notin Deletable, version'[Vid(c)] = Ver(c)
               PROVE  version[Vid(c)] = Ver(c)
    BY DEF LiveOf, Current
  <2>1. Vid(c) \in Vectors /\ Vid(c) # v
    BY <1>0, <1>2 DEF Copies, Vid
  <2>2. QED BY <1>0, <1>2, <2>1
<1>5. \A t \in Threads : /\ Handing(t)' <=> Handing(t)
                         /\ Keeping(t)' <=> Keeping(t)
                         /\ \A k \in 1..2 : Done(t, k)' <=> Done(t, k)
  BY <1>2 DEF Handing, Keeping, Done
<1>6. \A t \in Threads : Handing(t) \/ Keeping(t) => posting[spl[t].of] \in SUBSET Reached
  <2>1. \A t \in Threads : Handing(t) \/ Keeping(t) => spl[t].of \in Published
    BY Frame1 DEF FoundSafe, SplitSafe, Handing, Keeping, Dividing, Divided, Splitting
  <2>2. QED BY <1>0, <2>1
<1>7. Snaps'
  <2> SUFFICES ASSUME NEW t \in Threads
               PROVE  LET both == spl[t].parts[1] \cup spl[t].parts[2] IN
                      /\ Handing(t) => LiveOf(posting[spl[t].of])' \subseteq both /\ both \subseteq posting[spl[t].of]
                      /\ Keeping(t) => LiveOf(posting[spl[t].of])' \subseteq spl[t].todo
                      /\ pc[t] = "publish" => posting[spl[t].into[spl[t].k]] = spl[t].parts[spl[t].k]
    BY <1>2, <1>5 DEF Snaps
  <2>1. PICK S : S = posting[spl[t].of]
    OBVIOUS
  <2>2. LiveOf(posting[spl[t].of])' = LiveOf(S)'
    BY <1>2, <2>1 DEF LiveOf
  <2>3. Handing(t) \/ Keeping(t) => LiveOf(posting[spl[t].of])' \subseteq LiveOf(S)
    BY <1>4, <1>6, <2>1, <2>2
  <2>4. QED BY <2>1, <2>3 DEF FoundSafe, Snaps
<1>8. Covered'
  <2>1. PICK rank \in [Heads -> Nat] : Ranked(rank)
    BY DEF FoundSafe, Covered
  <2>2. ASSUME NEW t \in Threads, NEW k \in 1..2, Done(t, k), NEW c \in LiveOf(spl[t].parts[k])'
        PROVE  Above(rank, t, c)'
    <3>1. PICK S : S = spl[t].parts[k]
      OBVIOUS
    <3>2. S \in SUBSET Reached
      BY <1>0, <3>1 DEF SplitFrameIn
    <3>3. LiveOf(spl[t].parts[k])' = LiveOf(S)'
      BY <1>2, <3>1 DEF LiveOf
    <3>4. c \in LiveOf(spl[t].parts[k])
      BY <1>4, <2>2, <3>1, <3>2, <3>3
    <3>5. Above(rank, t, c)
      BY <2>1, <2>2, <3>4 DEF Ranked
    <3>6. QED BY <1>2, <3>5 DEF Above, Searchable
  <2>3. Ranked(rank)'
    BY <1>2, <1>5, <2>1, <2>2 DEF Ranked
  <2>4. QED BY <2>3 DEF Covered
<1>9. QED BY <1>1, <1>3, <1>7, <1>8 DEF FoundSafe

LEMMA NextFoundSafe ==
  ASSUME SameHead = FALSE, Identical = FALSE, FoundSafe, [Next]_vars
  PROVE  FoundSafe'
<1>1. ASSUME NEW t \in Threads, AddIndex(t) \/ Step(t)
      PROVE  FoundSafe'
  <2>1. SplitSafe'
    BY <1>1, NextSplitSafe DEF FoundSafe, Next
  <2>2. Unlabelled' /\ Snaps' /\ Covered'
    BY <1>1, Relabel, SnapsStep, CoveredStep DEF FoundSafe, SplitSafe
  <2>3. QED BY <2>1, <2>2 DEF FoundSafe
<1>2. CASE UNCHANGED vars
  <2>1. SplitSafe'
    BY NextSplitSafe DEF FoundSafe
  <2>2. UNCHANGED <<posting, index, version, pc, app, spl>>
    BY <1>2 DEF vars
  <2>3. Unlabelled' /\ Snaps'
    BY <2>2 DEF FoundSafe, Unlabelled, Snaps, Handing, Keeping, LiveOf, Current
  <2>4. Covered'
    BY <2>2 DEF FoundSafe, Covered, Ranked, Above, Done, LiveOf, Current, Searchable
  <2>5. QED BY <2>1, <2>3, <2>4 DEF FoundSafe
<1>3. QED BY <1>1, <1>2, DeleteFoundSafe DEF Next

LEMMA FoundInvariant == ASSUME SameHead = FALSE, Identical = FALSE PROVE Spec => []FoundSafe
<1>1. FoundSafe /\ [Next]_vars => FoundSafe'
  BY NextFoundSafe
<1>2. QED BY <1>1, InitFoundSafe, PTL DEF Spec

LEMMA PostedStep ==
  ASSUME SameHead = FALSE, FoundSafe, [Next]_vars, NEW v \in Vectors \ Deletable, Posted(v),
         version'[v] = version[v]
  PROVE  Posted(v)'
<1>0. posting \in [Heads -> SUBSET Reached]
  BY DEF FoundSafe, SplitSafe, Safe, Typed
<1>1. PICK h \in Searchable : Live(v) \in posting[h]
  BY DEF Posted
<1>2. ASSUME NEW t \in Threads, AddIndex(t) \/ Step(t)
      PROVE  Posted(v)'
  <2>1. PICK c : c = Live(v)
    OBVIOUS
  <2>2. c \in LiveOf(posting[h])
    BY <1>1, <2>1 DEF Live, LiveOf, Current, Vid, Ver
  <2>3. PICK rank \in [Heads -> Nat] : Ranked(rank)
    BY DEF FoundSafe, Covered
  <2>4. PICK g \in Searchable' : c \in posting'[g]
    BY <1>2, <2>2, <2>3, StaysFound DEF FoundSafe, SplitSafe
  <2>5. Live(v)' = c
    BY <2>1 DEF Live
  <2>6. QED BY <2>4, <2>5 DEF Posted
<1>3. CASE UNCHANGED <<posting, index>>
  BY <1>1, <1>3 DEF Posted, Live, Searchable
<1>4. CASE UNCHANGED vars
  BY <1>3, <1>4 DEF vars
<1>5. CASE \E w \in Vectors : DeleteIndex(w)
  BY <1>3, <1>5 DEF DeleteIndex, store, marks
<1>6. QED BY <1>2, <1>4, <1>5 DEF Next

(* A vector a search finds, and that is never deleted, is found until it   *)
(* is reassigned: before a head leaves the index every live copy of its    *)
(* posting is in a head that a search finds, even if the new heads have    *)
(* been split in turn.                                                     *)
THEOREM PostedKept ==
  ASSUME SameHead = FALSE, Identical = FALSE
  PROVE  Spec => [][\A v \in Vectors \ Deletable : Posted(v) => Posted(v)' \/ version'[v] # version[v]]_vars
<1>1. FoundSafe /\ [Next]_vars
        => [\A v \in Vectors \ Deletable : Posted(v) => Posted(v)' \/ version'[v] # version[v]]_vars
  BY PostedStep
<1>2. QED BY <1>1, FoundInvariant, PTL DEF Spec

THEOREM PostedAlways ==
  ASSUME SameHead = FALSE, Identical = FALSE, Deletable = {}
  PROVE  Spec => PostedStays
<1>1. FoundSafe /\ [Next]_vars
        => [\A v \in Vectors : Posted(v) => Posted(v)' \/ version'[v] # version[v]]_vars
  BY PostedStep
<1>2. QED BY <1>1, FoundInvariant, PTL DEF Spec, PostedStays

(* What a split has read is what its posting holds, until its head leaves  *)
(* the index: an append that slipped in would vanish with the head.        *)
THEOREM SnapshotHolds ==
  ASSUME SameHead = FALSE, Identical = FALSE, Deletable = {}
  PROVE  Spec => []SplitSnapshot
<1>1. FoundSafe => SplitSnapshot
  BY DEF FoundSafe, Snaps, SplitSnapshot, Handing, LiveOf, CurrentOf
<1>2. QED BY <1>1, FoundInvariant, PTL

-----------------------------------------------------------------------------
(* Where the live copy of a vector can wait to be stored: in the batch of  *)
(* an append that has not put it yet, ...                                  *)
Carrying == {"append", "miss", "branch", "look", "cache", "get", "put"}
ToAppend(t, c) == pc[t] \in Carrying /\ c \in app[t].batch

(* ... with a split that hands out what was in the cache, ...              *)
Flushing(t) == pc[t] \in {"flush1", "flush2"} \/ app[t].back \in {"flush1", "flush2"}
ToFlush(t, c) == Flushing(t) /\ (c \in spl[t].todo \/ \E k \in 1..2 : c \in spl[t].flush[k])

(* ... or with an insert or a reassign that has heads left to send it to.  *)
ToMove(t, c) == /\ mov[t].copy = c
                /\ \/ pc[t] \in {"reassign", "bump", "inc"}
                   \/ pc[t] \in {"insert", "spread"} /\ mov[t].targets # {}

InHands(t, c) == ToAppend(t, c) \/ ToFlush(t, c) \/ ToMove(t, c)
HasPlace(c) ==
  \/ \E h \in Published : c \in posting[h]
  \/ \E h \in Heads : c \in cache[h]
  \/ \E i \in DOMAIN jobs : c \in jobs[i].copies
  \/ \E t \in Threads : InHands(t, c)

Carried(v) == v \in pending \/ HasPlace(Live(v))

(* An append leaves the live copy of v out: there is a copy of v, of any   *)
(* version, in the cache it looked at, or in the posting it has read.      *)
LeftOut(t, v) ==
  /\ Live(v) \in app[t].batch /\ \E d \in app[t].old : Vid(d) = v
  /\ AppendCache(t) \/ (FilterAppend /\ AppendPut(t) /\ Live(v) \notin app[t].old)

(* A copy that comes from head h and is still the live one is in a posting *)
(* that a search finds, unless h has left the index: a reassign that finds *)
(* its head again may give the copy up.                                    *)
Sourced(c, h) ==
  Vid(c) \notin Deletable /\ Current(c)
    => index[h] = "deleted" \/ \E g \in Searchable : c \in posting[g]

Sound(j) ==
  /\ j.kind = "split" => j.copies = {}
  /\ j.kind = "reassign" => \E c \in Copies : j.copies = {c} /\ Sourced(c, j.head)

Handed(t) ==
  /\ pc[t] \in {"bump", "inc"} => mov[t].targets # {}
  /\ pc[t] = "miss" => index[app[t].at] = "deleted"
  /\ \A k \in 1..2 : spl[t].flush[k] # {} => spl[t].todo = {} /\ Flushing(t)
  /\ pc[t] = "reassign" => mov[t].prev \in Heads /\ Sourced(mov[t].copy, mov[t].prev)

CarrySafe ==
  /\ FoundSafe
  /\ \A i \in DOMAIN jobs : Sound(jobs[i])
  /\ \A t \in Threads : Handed(t)

LEMMA InitCarrySafe == Init => CarrySafe
<1> SUFFICES ASSUME Init PROVE CarrySafe
  OBVIOUS
<1>1. \A t \in Threads : pc[t] = "idle" /\ spl[t] = NoSplit
  BY DEF Init
<1>2. \A t \in Threads : Handed(t)
  BY <1>1 DEF Handed, NoSplit
<1>3. DOMAIN jobs = {}
  BY DEF Init
<1>4. QED BY <1>2, <1>3, InitFoundSafe DEF CarrySafe

(* The origin of a copy stays as good as it was. *)
LEMMA SourcedStep ==
  ASSUME SameHead = FALSE, FoundSafe, NEW t \in Threads, AddIndex(t) \/ Step(t),
         NEW c \in Reached, NEW h \in Heads, Sourced(c, h)
  PROVE  Sourced(c, h)'
<1> SUFFICES ASSUME Vid(c) \notin Deletable, Current(c)'
             PROVE  index'[h] = "deleted" \/ \E g \in Searchable' : c \in posting'[g]
  BY DEF Sourced
<1>1. Current(c)
  <2>1. LiveOf({c})' \subseteq LiveOf({c})
    BY Relabel DEF FoundSafe, SplitSafe
  <2>2. QED BY <2>1 DEF LiveOf
<1>2. CASE index[h] = "deleted"
  BY <1>2, IndexStep DEF FoundSafe, SplitSafe
<1>3. CASE \E g \in Searchable : c \in posting[g]
  <2>1. PICK g \in Searchable : c \in posting[g]
    BY <1>3
  <2>2. c \in LiveOf(posting[g])
    BY <1>1, <2>1 DEF LiveOf
  <2>3. PICK rank \in [Heads -> Nat] : Ranked(rank)
    BY DEF FoundSafe, Covered
  <2>4. QED BY <2>2, <2>3, StaysFound DEF FoundSafe, SplitSafe
<1>4. QED BY <1>1, <1>2, <1>3 DEF Sourced

(* The jobs a step adds. *)
NewJob(kind, h, Z) ==
  /\ h \in Heads
  /\ \/ kind = "append"
     \/ kind = "split" /\ Z = {}
     \/ kind = "reassign" /\ \E c \in Reached : Z = {c} /\ Sourced(c, h)
  /\ jobs' = Enqueued(kind, h, Z)

LEMMA NewJobs ==
  ASSUME CarrySafe, NEW t \in Threads, AddIndex(t) \/ Step(t), ~TakeJob(t)
  PROVE  jobs' = jobs \/ \E kind, h, Z : NewJob(kind, h, Z)
<1>s. FoundSafe /\ SplitSafe /\ Safe /\ AllPlain
  BY DEF CarrySafe, FoundSafe, SplitSafe
<1>0. /\ app[t] \in AppendFrameIn(Reached, Published) /\ Published \subseteq Heads
      /\ spl[t] \in SplitFrameIn(Reached, Published)
  BY <1>s DEF Safe, Typed, Published
<1>1. AddIndex(t) \/ InsertNext(t) \/ Reassign(t) => jobs' = jobs
  BY DEF AddIndex, InsertNext, Reassign, ReassignSelect, ReassignCheck, ReassignBump,
         ReassignSpread, pool
<1>2. ConcurrentAppend(t) /\ ~AppendMiss(t) /\ ~AppendEnqueue(t) => jobs' = jobs
  BY DEF ConcurrentAppend, AppendEnter, AppendBranch, AppendLook, AppendCache, AppendGet,
         AppendPut, AppendCount, AppendGrow, pool
<1>3. CASE AppendMiss(t)
  <2>1. /\ app[t].at \in Heads /\ app[t].batch \subseteq Reached
        /\ index[app[t].at] = "deleted"
    BY <1>0, <1>3, <1>s, Frame1 DEF AppendMiss, From, AppendPCs, AppendFrameIn, CarrySafe, Handed
  <2>2. jobs' = jobs \/ \E c \in app[t].batch : jobs' = Enqueued("reassign", app[t].at, {c})
    BY <1>3 DEF AppendMiss
  <2>3. \A c : Sourced(c, app[t].at)
    BY <2>1 DEF Sourced
  <2>4. QED BY <2>1, <2>2, <2>3 DEF NewJob
<1>4. CASE AppendEnqueue(t)
  <2>1. app[t].at \in Heads
    BY <1>0, <1>4, <1>s, Frame1 DEF AppendEnqueue, From, AppendPCs
  <2>2. jobs' = jobs \/ jobs' = Enqueued("split", app[t].at, {})
    BY <1>4 DEF AppendEnqueue, SplitAsync, pool
  <2>3. QED BY <2>1, <2>2 DEF NewJob
<1>5. CASE SplitGcFlush(t)
  <2>1. spl[t].of \in Heads
    BY <1>0, <1>5, <1>s, Frame1 DEF SplitGcFlush, From, Dividing, Divided
  <2>2. jobs' = jobs \/ \E Z : jobs' = Enqueued("append", spl[t].of, Z)
    BY <1>5 DEF SplitGcFlush
  <2>3. QED BY <2>1, <2>2 DEF NewJob
<1>6. CASE SplitScan(t)
  <2>1. pc[t] = "scan"
    BY <1>6 DEF SplitScan, From
  <2>2. \A k \in 1..2 : spl[t].into[k] \in Heads /\ spl[t].parts[k] \subseteq Reached
    <3>1. spl[t].into[1] # None /\ spl[t].into[2] # None
      BY <1>s, <2>1 DEF Safe, Frames, Frame, Placed
    <3>2. QED BY <1>0, <3>1 DEF SplitFrameIn
  <2>3. ASSUME NEW k \in 1..2, NEW c \in spl[t].parts[k]
        PROVE  Sourced(c, spl[t].into[k])
    <3> SUFFICES ASSUME Vid(c) \notin Deletable, Current(c)
                 PROVE  \E g \in Searchable : c \in posting[g]
      BY DEF Sourced
    <3>1. c \in LiveOf(spl[t].parts[k]) /\ Done(t, k)
      BY <2>1 DEF LiveOf, Done
    <3>2. QED BY <1>s, <3>1 DEF FoundSafe, Covered, Ranked, Above
  <2>4. \/ jobs' = jobs
        \/ \E k \in 1..2 : \E c \in spl[t].parts[k] : jobs' = Enqueued("reassign", spl[t].into[k], {c})
    BY <1>6 DEF SplitScan
  <2>5. QED BY <2>2, <2>3, <2>4 DEF NewJob
<1>7. ConcurrentSplit(t) /\ ~SplitGcFlush(t) /\ ~SplitScan(t) => jobs' = jobs
  BY <1>s, NoOptStep DEF ConcurrentSplit, SplitRead, SplitLock, SplitGcSize, SplitGcPut, SplitGcErase,
     SplitGcNormal, SplitPart, SplitPublish, SplitPartSize, SplitCollect, SplitFlush, SplitUnindex,
     SplitShrink, SplitRetire, SplitErase, pool
<1>8. QED BY <1>1, <1>2, <1>3, <1>4, <1>5, <1>6, <1>7 DEF Step

(* What a job says of its copies stays true in the queue. *)
LEMMA SoundStep ==
  ASSUME SameHead = FALSE, CarrySafe, NEW t \in Threads, AddIndex(t) \/ Step(t)
  PROVE  \A i \in DOMAIN jobs' : Sound(jobs[i])'
<1>s. FoundSafe /\ SplitSafe /\ Safe /\ AllPlain
  BY DEF CarrySafe, FoundSafe, SplitSafe
<1>0. jobs \in Seq(JobIn(Reached, Published)) /\ Published \subseteq Heads
  BY <1>s DEF Safe, Typed, Published
<1>1. ASSUME NEW j, Sound(j), j.head \in Heads, j.copies \subseteq Reached
      PROVE  Sound(j)'
  <2>1. ASSUME NEW c \in Copies, j.copies = {c}, Sourced(c, j.head)
        PROVE  Sourced(c, j.head)'
    <3>1. PICK h \in Heads : h = j.head
      BY <1>1
    <3>2. c \in Reached /\ Sourced(c, h)
      BY <1>1, <2>1, <3>1
    <3>3. Sourced(c, h)'
      BY <1>s, <3>2, SourcedStep
    <3>4. QED BY <3>1, <3>3
  <2>2. QED BY <1>1, <2>1 DEF Sound
<1>2. \A i \in DOMAIN jobs : Sound(jobs[i]) /\ jobs[i].head \in Heads /\ jobs[i].copies \subseteq Reached
  <2>1. \A i \in DOMAIN jobs : jobs[i] \in JobIn(Reached, Published)
    BY <1>0
  <2>2. QED BY <1>0, <2>1 DEF JobIn, CarrySafe
<1>3. ASSUME NEW i \in DOMAIN jobs', NEW k \in DOMAIN jobs, jobs'[i] = jobs[k]
      PROVE  Sound(jobs[i])'
  <2>1. PICK j : j = jobs[k]
    OBVIOUS
  <2>2. Sound(j)'
    BY <1>1, <1>2, <2>1
  <2>3. QED BY <1>3, <2>1, <2>2
<1>4. CASE TakeJob(t)
  <2>1. jobs # << >> /\ jobs' = Tail(jobs)
    BY <1>4 DEF TakeJob
  <2>2. \A i \in DOMAIN jobs' : i + 1 \in DOMAIN jobs /\ jobs'[i] = jobs[i + 1]
    BY <1>0, <2>1
  <2>3. QED BY <1>3, <2>2
<1>5. CASE \E kind, h, Z : NewJob(kind, h, Z)
  <2>1. PICK kind, h, Z : NewJob(kind, h, Z)
    BY <1>5
  <2>2. PICK j : j = [kind |-> kind, head |-> h, copies |-> Z]
    OBVIOUS
  <2>3. jobs' = Append(jobs, j)
    BY <2>1, <2>2 DEF NewJob, Enqueued
  <2>4. Sound(j)'
    <3>1. ASSUME NEW c \in Reached, Sourced(c, h)
          PROVE  Sourced(c, h)' /\ c \in Copies
      BY <1>s, <2>1, <3>1, SourcedStep DEF NewJob, Reached
    <3>2. j.kind = kind /\ j.head = h /\ j.copies = Z
      BY <2>2
    <3>3. kind = "reassign" => \E c \in Copies : Z = {c} /\ Sourced(c, h)'
      BY <2>1, <3>1 DEF NewJob
    <3>4. kind = "split" => Z = {}
      BY <2>1 DEF NewJob
    <3>5. QED BY <3>2, <3>3, <3>4 DEF Sound
  <2>5. \A i \in DOMAIN jobs' : (i \in DOMAIN jobs /\ jobs'[i] = jobs[i]) \/ jobs'[i] = j
    BY <1>0, <2>3
  <2>6. QED BY <1>3, <2>4, <2>5
<1>6. CASE jobs' = jobs
  BY <1>3, <1>6
<1>7. QED BY <1>4, <1>5, <1>6, NewJobs


(* A thread goes on in the routine it is in. *)
LEMMA RoutineStep ==
  ASSUME NEW t \in Threads, AddIndex(t) \/ Step(t)
  PROVE  /\ pc[t] \in AppendPCs => ConcurrentAppend(t)
         /\ pc[t] \in MovePCs => InsertNext(t) \/ Reassign(t)
         /\ pc[t] = "flush1" => SplitFlush(t, "flush1", "lock")
         /\ pc[t] = "flush2" => SplitFlush(t, "flush2", "erase")
<1>1. AddIndex(t) \/ TakeJob(t) => pc[t] = "idle"
  BY DEF AddIndex, TakeJob, From
<1>2. InsertNext(t) \/ Reassign(t) => pc[t] \in MovePCs
  BY DEF InsertNext, Reassign, ReassignSelect, ReassignCheck, ReassignBump, ReassignSpread, From, MovePCs
<1>3. ConcurrentAppend(t) => pc[t] \in AppendPCs
  BY DEF ConcurrentAppend, AppendEnter, AppendMiss, AppendBranch, AppendLook, AppendCache, AppendGet,
         AppendPut, AppendCount, AppendGrow, AppendEnqueue, From, AppendPCs
<1>4. ConcurrentSplit(t)
        => \/ SplitFlush(t, "flush1", "lock") /\ pc[t] = "flush1"
           \/ SplitFlush(t, "flush2", "erase") /\ pc[t] = "flush2"
           \/ pc[t] \in SplitPCs \ {"flush1", "flush2"}
  BY DEF ConcurrentSplit, SplitRead, SplitLock, SplitGcSize, SplitGcPut, SplitGcErase, SplitGcFlush,
         SplitGcNormal, SplitOptOut, SplitOptNormal, SplitOptCollect, SplitOptPut, SplitOptSize,
         SplitPart, SplitPublish, SplitPartSize, SplitScan, SplitCollect, SplitFlush, SplitUnindex,
         SplitShrink, SplitRetire, SplitErase, From, SplitPCs
<1>5. QED BY <1>1, <1>2, <1>3, <1>4 DEF Step, MovePCs, AppendPCs, SplitPCs

(* Where the steps that carry a copy begin. *)
LEMMA EnterStep ==
  ASSUME SameHead = FALSE, Safe, AllPlain, NEW t \in Threads, AddIndex(t) \/ Step(t)
  PROVE  /\ pc'[t] \in {"bump", "inc"} => ReassignSelect(t) \/ ReassignCheck(t)
         /\ pc'[t] = "reassign" => TakeJob(t)
         /\ pc'[t] = "miss" => AppendEnter(t) \/ AppendMiss(t)
<1>0. pc \in [Threads -> PC]
  BY DEF Safe, Typed
<1>f. /\ app[t].back \in {"idle", "insert", "spread", "flush1", "flush2"}
      /\ spl[t].caller \in {"idle", "spread"}
  BY Frame1
<1>1. CASE AddIndex(t) \/ InsertNext(t) \/ ReassignBump(t) \/ ReassignSpread(t)
  BY <1>0, <1>1 DEF AddIndex, InsertNext, ReassignBump, ReassignSpread, CallAppend, Finish, Goto
<1>2. CASE ReassignSelect(t) \/ ReassignCheck(t)
  BY <1>0, <1>2 DEF ReassignSelect, ReassignCheck, Finish, Goto
<1>3. CASE AppendEnter(t) \/ AppendMiss(t)
  BY <1>0, <1>3, <1>f DEF AppendEnter, AppendMiss, ReturnAppend, Finish, From, Goto
<1>4. CASE AppendBranch(t) \/ AppendLook(t) \/ AppendCache(t) \/ AppendGet(t) \/ AppendPut(t)
           \/ AppendCount(t) \/ AppendEnqueue(t)
  BY <1>0, <1>4, <1>f DEF AppendBranch, AppendLook, AppendCache, AppendGet, AppendPut, AppendCount,
     AppendEnqueue, ReturnAppend, Goto
<1>5. CASE Apart(t)
  BY <1>1, <1>2, <1>3, <1>4, <1>5 DEF Apart, Reassign, ConcurrentAppend
<1>6. CASE TakeJob(t)
  <2>1. pc'[t] \in {"append", "split", "reassign"}
    BY <1>6, TakeStep
  <2>2. QED BY <1>6, <2>1
<1>7. CASE AppendGrow(t)
  <2>1. pc'[t] \in {app[t].back, "enqueue", "split"}
    BY <1>7, GrowStep
  <2>2. QED BY <1>f, <2>1
<1>8. CASE SplitRead(t) \/ SplitPart(t)
  <2>1. SplitRead(t) => pc'[t] \in {"gclock", "part"}
    BY <1>0, ReadStep
  <2>2. SplitPart(t) => pc'[t] = "publish"
    BY PlaceStep
  <2>3. QED BY <1>8, <2>1, <2>2
<1>9. CASE Working(t)
  <2>1. Follows(pc[t], pc'[t])
    BY <1>9, WorkStep
  <2>2. QED BY <2>1 DEF Follows
<1>10. CASE SplitGcNormal(t) \/ SplitRetire(t) \/ SplitErase(t)
  BY <1>0, <1>10, <1>f DEF SplitGcNormal, SplitRetire, SplitErase, ReturnSplit, Goto
<1>11. QED BY <1>5, <1>6, <1>7, <1>8, <1>9, <1>10, StepKinds

(* What is to be handed out stays with the split while it appends. *)
LEMMA FlushingStep ==
  ASSUME Safe, AllPlain, NEW t \in Threads, AddIndex(t) \/ Step(t),
         app[t].back \in {"flush1", "flush2"}
  PROVE  spl' = spl /\ Flushing(t)'
<1>1. ConcurrentAppend(t) /\ (Dividing(t) \/ Ending(t))
  BY RoutineStep, Frame1 DEF Dividing, Ending
<1>2. CASE AppendGrow(t)
  <2>1. \/ spl' = spl /\ pc'[t] = app[t].back
        \/ spl' = spl /\ app' = app
    BY <1>1, <1>2, GrowStep
  <2>2. QED BY <2>1 DEF Flushing
<1>3. CASE ~AppendGrow(t)
  <2>1. SameStage(t)
    BY <1>1, <1>3, ApartStep DEF Apart
  <2>2. Flushing(t)'
    BY <1>1, <2>1 DEF SameStage, Flushing, Dividing, Ending, Divided, SplitPCs
  <2>3. spl' = spl
    BY <1>1, <1>3 DEF ConcurrentAppend, AppendEnter, AppendMiss, AppendBranch, AppendLook,
       AppendCache, AppendGet, AppendPut, AppendCount, AppendEnqueue, locals
  <2>4. QED BY <2>2, <2>3
<1>4. QED BY <1>2, <1>3

(* Only the flush of the cache divides what is to be handed out. *)
LEMMA FlushStep ==
  ASSUME Safe, AllPlain, NEW t \in Threads, AddIndex(t) \/ Step(t),
         pc[t] \notin {"flush1", "flush2"}, NEW k \in 1..2
  PROVE  spl'[t].flush[k] \in {spl[t].flush[k], {}}
<1>0. spl \in [Threads -> SplitFrameIn(Reached, Published)]
  BY DEF Safe, Typed
<1>1. ASSUME spl' = spl PROVE spl'[t].flush[k] = spl[t].flush[k]
  BY <1>1
<1>2. ASSUME NEW h, NEW c, spl' = [spl EXCEPT ![t] = [NoSplit EXCEPT !.of = h, !.caller = c]]
      PROVE  spl'[t].flush[k] = {}
  <2>1. spl'[t] = [NoSplit EXCEPT !.of = h, !.caller = c]
    BY <1>0, <1>2
  <2>2. QED BY <2>1 DEF NoSplit
<1>3. ASSUME NEW Z, spl' = [spl EXCEPT ![t].todo = Z] \/ spl' = [spl EXCEPT ![t].k = Z]
                    \/ spl' = [spl EXCEPT ![t].into = Z]
      PROVE  spl'[t].flush[k] = spl[t].flush[k]
  BY <1>0, <1>3 DEF SplitFrameIn
<1>4. ASSUME NEW n, NEW i, spl' = [spl EXCEPT ![t].into[i] = n]
      PROVE  spl'[t].flush[k] = spl[t].flush[k]
  BY <1>0, <1>4 DEF SplitFrameIn
<1>5. ASSUME NEW p, NEW Z, NEW f, spl' = [spl EXCEPT ![t] = [@ EXCEPT !.parts = p, !.todo = Z, !.into = f]]
      PROVE  spl'[t].flush[k] = spl[t].flush[k]
  <2>1. spl'[t] = [spl[t] EXCEPT !.parts = p, !.todo = Z, !.into = f]
    BY <1>0, <1>5
  <2>2. QED BY <1>0, <2>1 DEF SplitFrameIn
<1>6. ASSUME ReturnSplit(t) PROVE spl'[t].flush[k] = {}
  BY <1>0, <1>6 DEF ReturnSplit, NoSplit
<1>7. CASE Apart(t)
  <2>1. spl' = spl
    BY <1>7 DEF Apart, AddIndex, InsertNext, Reassign, ReassignSelect, ReassignCheck, ReassignBump,
       ReassignSpread, ConcurrentAppend, AppendEnter, AppendMiss, AppendBranch, AppendLook,
       AppendCache, AppendGet, AppendPut, AppendCount, AppendEnqueue, locals
  <2>2. QED BY <1>1, <2>1
<1>8. CASE TakeJob(t) \/ AppendGrow(t)
  <2>1. spl' = spl \/ \E h, c : spl' = [spl EXCEPT ![t] = [NoSplit EXCEPT !.of = h, !.caller = c]]
    BY <1>8 DEF TakeJob, AppendGrow, CallSplit
  <2>2. QED BY <1>1, <1>2, <2>1
<1>9. CASE SplitRead(t)
  <2>1. CASE \E Z : spl' = [spl EXCEPT ![t].todo = Z]
    BY <1>3, <2>1
  <2>2. CASE \E p \in Bipartitions(CurrentOf(posting[spl[t].of])), same \in IF SameHead THEN 0..2 ELSE {0} :
               LET optimised == EnableOptSplit /\ same # 0 /\ Uneven(p) IN
               /\ spl' = [spl EXCEPT ![t] =
                            [@ EXCEPT !.parts = p,
                                      !.todo = IF optimised THEN p[Small(p)] ELSE {},
                                      !.into = [i \in 1..2 |-> IF i = same THEN spl[t].of ELSE None]]]
               /\ Goto(t, IF optimised THEN "optout" ELSE "part")
    <3>1. PICK p \in Bipartitions(CurrentOf(posting[spl[t].of])), same \in IF SameHead THEN 0..2 ELSE {0} :
               LET optimised == EnableOptSplit /\ same # 0 /\ Uneven(p) IN
               /\ spl' = [spl EXCEPT ![t] =
                            [@ EXCEPT !.parts = p,
                                      !.todo = IF optimised THEN p[Small(p)] ELSE {},
                                      !.into = [i \in 1..2 |-> IF i = same THEN spl[t].of ELSE None]]]
               /\ Goto(t, IF optimised THEN "optout" ELSE "part")
      BY <2>2
    <3>2. PICK Z, f : Z = (IF EnableOptSplit /\ same # 0 /\ Uneven(p) THEN p[Small(p)] ELSE {})
                      /\ f = [i \in 1..2 |-> IF i = same THEN spl[t].of ELSE None]
      OBVIOUS
    <3>3. spl' = [spl EXCEPT ![t] = [@ EXCEPT !.parts = p, !.todo = Z, !.into = f]]
      BY <3>1, <3>2
    <3>4. QED BY <1>5, <3>3
  <2>3. QED BY <1>9, <2>1, <2>2 DEF SplitRead
<1>10. CASE SplitPart(t)
  <2>1. spl' = spl \/ \E n, i : spl' = [spl EXCEPT ![t].into[i] = n]
    BY <1>10 DEF SplitPart
  <2>2. QED BY <1>1, <1>4, <2>1
<1>11. CASE Working(t)
  <2>1. spl' = spl \/ \E Z : spl' = [spl EXCEPT ![t].todo = Z] \/ spl' = [spl EXCEPT ![t].k = Z]
    BY <1>11 DEF Working, SplitLock, SplitGcSize, SplitGcPut, SplitGcErase, SplitGcFlush, SplitPublish,
       SplitPartSize, SplitScan, SplitUnindex, SplitShrink, SplitCollect, SplitFlush, From, locals
  <2>2. QED BY <1>1, <1>3, <2>1
<1>12. CASE SplitGcNormal(t) \/ SplitErase(t)
  BY <1>6, <1>12 DEF SplitGcNormal, SplitErase
<1>13. CASE SplitRetire(t)
  BY <1>1, <1>13 DEF SplitRetire, locals
<1>14. QED BY <1>7, <1>8, <1>9, <1>10, <1>11, <1>12, <1>13, StepKinds


(* What a thread may rely on about the copy it holds. *)
LEMMA HandedStep ==
  ASSUME SameHead = FALSE, CarrySafe, NEW t \in Threads, AddIndex(t) \/ Step(t)
  PROVE  \A u \in Threads : Handed(u)'
<1>s. FoundSafe /\ SplitSafe /\ Safe /\ AllPlain
  BY DEF CarrySafe, FoundSafe, SplitSafe
<1>0. /\ pc \in [Threads -> PC] /\ app \in [Threads -> AppendFrameIn(Reached, Published)]
      /\ mov \in [Threads -> MoveFrameIn(Reached, Published)]
      /\ spl \in [Threads -> SplitFrameIn(Reached, Published)]
      /\ jobs \in Seq(JobIn(Reached, Published)) /\ Published \subseteq Heads
  BY <1>s DEF Safe, Typed, Published
<1>1. Others(t)
  BY <1>s, StepLocal DEF Safe
<1>2. ASSUME NEW u \in Threads \ {t}
      PROVE  Handed(u)'
  <2>1. pc'[u] = pc[u] /\ app'[u] = app[u] /\ mov'[u] = mov[u] /\ spl'[u] = spl[u]
    BY <1>1 DEF Others
  <2>2. Handed(u)
    BY DEF CarrySafe
  <2>3. pc[u] = "miss" => index'[app[u].at] = "deleted"
    <3>1. pc[u] = "miss" => app[u].at \in Heads
      BY <1>0, <1>s, Frame1 DEF AppendPCs
    <3>2. QED BY <1>s, <2>2, <3>1, IndexStep DEF Handed
  <2>4. pc[u] = "reassign" => Sourced(mov[u].copy, mov[u].prev)'
    <3> SUFFICES ASSUME pc[u] = "reassign" PROVE Sourced(mov[u].copy, mov[u].prev)'
      OBVIOUS
    <3>1. PICK c, h : c = mov[u].copy /\ h = mov[u].prev
      OBVIOUS
    <3>2. h \in Heads /\ Sourced(c, h)
      BY <2>2, <3>1 DEF Handed
    <3>3. c \in Reached
      BY <1>0, <1>s, <3>1 DEF Safe, Frames, Frame, Moving, MovePCs, MoveFrameIn
    <3>4. Sourced(c, h)'
      BY <1>s, <3>2, <3>3, SourcedStep
    <3>5. QED BY <2>1, <3>1, <3>4 DEF Sourced
  <2>5. QED BY <2>1, <2>2, <2>3, <2>4 DEF Handed, Flushing, Sourced
<1>h. Handed(t)
  BY DEF CarrySafe
<1>3. ASSUME pc'[t] \in {"bump", "inc"}
      PROVE  mov'[t].targets # {}
  <2>1. CASE ReassignSelect(t)
    <3>1. PICK S \in Selections : mov' = [mov EXCEPT ![t].targets = S]
      BY <1>0, <1>3, <2>1 DEF ReassignSelect, Finish, Goto
    <3>2. mov'[t].targets = S /\ S # {}
      BY <1>0, <3>1 DEF MoveFrameIn, Selections
    <3>3. QED BY <3>2
  <2>2. CASE ReassignCheck(t)
    BY <1>0, <1>h, <2>2 DEF ReassignCheck, From, locals, Handed
  <2>3. QED BY <1>3, <1>s, <2>1, <2>2, EnterStep
<1>4. ASSUME pc'[t] = "miss"
      PROVE  index'[app'[t].at] = "deleted"
  <2>1. CASE AppendEnter(t)
    <3>1. /\ pc[t] = "append" /\ app' = app /\ index' = index
          /\ status[app[t].at] = "deleted"
      BY <1>0, <1>4, <2>1 DEF AppendEnter, From, Goto, locals, marks
    <3>2. app[t].at \in Published
      BY <1>s, <3>1, Frame1 DEF AppendPCs
    <3>3. index[app[t].at] = "deleted"
      BY <1>s, <3>1, <3>2 DEF Safe, Retiring, Published
    <3>4. QED BY <3>1, <3>3
  <2>2. CASE AppendMiss(t)
    <3>1. pc[t] = "miss" /\ index' = index
      BY <2>2 DEF AppendMiss, From, marks
    <3>2. app[t].back \in {"idle", "insert", "spread", "flush1", "flush2"}
      BY <1>s, Frame1
    <3>3. PICK c : app' = [app EXCEPT ![t].batch = @ \ {c}]
      BY <1>0, <1>4, <2>2, <3>2 DEF AppendMiss, ReturnAppend, Finish, Goto
    <3>4. app'[t].at = app[t].at
      BY <1>0, <3>3 DEF AppendFrameIn
    <3>5. QED BY <1>h, <3>1, <3>4 DEF Handed
  <2>3. QED BY <1>4, <1>s, <2>1, <2>2, EnterStep
<1>5. ASSUME NEW k \in 1..2, spl'[t].flush[k] # {}
      PROVE  spl'[t].todo = {} /\ Flushing(t)'
  <2>1. ASSUME NEW here \in {"flush1", "flush2"}, NEW next, pc[t] = here, SplitFlush(t, here, next)
        PROVE  spl'[t].todo = {} /\ Flushing(t)'
    <3>1. CASE /\ \E p : spl' = [spl EXCEPT ![t].todo = {}, ![t].flush = p]
               /\ UNCHANGED <<pc, app>>
      BY <1>0, <2>1, <3>1 DEF Flushing, SplitFrameIn
    <3>2. CASE \E i \in 1..2 :
                 /\ spl[t].todo = {}
                 /\ spl' = [spl EXCEPT ![t].flush[i] = {}]
                 /\ CallAppend(t, spl[t].into[i], spl[t].flush[i], 0, here)
      <4>1. spl'[t].todo = spl[t].todo
        BY <1>0, <3>2 DEF SplitFrameIn
      <4>2. app'[t].back = here
        BY <1>0, <3>2 DEF CallAppend
      <4>3. QED BY <3>2, <4>1, <4>2 DEF Flushing
    <3>3. CASE spl' = spl /\ \A i \in 1..2 : spl[t].flush[i] = {}
      BY <1>5, <3>3
    <3>4. QED BY <2>1, <3>1, <3>2, <3>3 DEF SplitFlush
  <2>2. CASE pc[t] \in {"flush1", "flush2"}
    BY <2>1, <2>2, RoutineStep
  <2>3. CASE pc[t] \notin {"flush1", "flush2"}
    <3>1. spl[t].flush[k] # {}
      BY <1>5, <1>s, <2>3, FlushStep
    <3>2. spl[t].todo = {} /\ app[t].back \in {"flush1", "flush2"}
      BY <1>h, <2>3, <3>1 DEF Handed, Flushing
    <3>3. spl' = spl /\ Flushing(t)'
      BY <1>s, <3>2, FlushingStep
    <3>4. QED BY <3>2, <3>3
  <2>4. QED BY <2>2, <2>3
<1>6. ASSUME pc'[t] = "reassign"
      PROVE  mov'[t].prev \in Heads /\ Sourced(mov[t].copy, mov[t].prev)'
  <2>1. TakeJob(t) /\ jobs # << >>
    BY <1>6, <1>s, EnterStep DEF TakeJob
  <2>2. PICK j : j = Head(jobs)
    OBVIOUS
  <2>3. /\ 1 \in DOMAIN jobs /\ jobs[1] = j
        /\ j \in JobIn(Reached, Published)
    BY <1>0, <2>1, <2>2
  <2>4. Sound(j)
    BY <2>3 DEF CarrySafe
  <2>5. PICK c \in j.copies : j.kind = "reassign" /\ mov' = [mov EXCEPT ![t].copy = c, ![t].prev = j.head]
    BY <1>0, <1>6, <2>1, <2>2 DEF TakeJob, CallAppend, CallSplit, Goto
  <2>6. PICK h \in Heads : h = j.head
    BY <1>0, <2>3 DEF JobIn
  <2>7. c \in Reached /\ Sourced(c, h)
    BY <2>3, <2>4, <2>5, <2>6 DEF Sound, JobIn
  <2>8. Sourced(c, h)'
    BY <1>s, <2>7, SourcedStep
  <2>9. mov'[t].copy = c /\ mov'[t].prev = h
    BY <1>0, <2>5, <2>6 DEF MoveFrameIn
  <2>10. QED BY <2>8, <2>9 DEF Sourced
<1>7. Handed(t)'
  BY <1>3, <1>4, <1>5, <1>6 DEF Handed
<1>8. QED BY <1>2, <1>7

LEMMA NextCarrySafe ==
  ASSUME SameHead = FALSE, Identical = FALSE, CarrySafe, [Next]_vars
  PROVE  CarrySafe'
<1>0. FoundSafe'
  BY NextFoundSafe DEF CarrySafe
<1>1. ASSUME NEW t \in Threads, AddIndex(t) \/ Step(t)
      PROVE  CarrySafe'
  BY <1>0, <1>1, SoundStep, HandedStep DEF CarrySafe
<1>2. ASSUME UNCHANGED <<posting, index, jobs, pc, app, mov, spl>>,
             \A c \in Copies : Vid(c) \notin Deletable /\ Current(c)' => Current(c)
      PROVE  CarrySafe'
  <2>0. /\ mov \in [Threads -> MoveFrameIn(Reached, Published)]
        /\ Safe
    BY DEF CarrySafe, FoundSafe, SplitSafe, Safe, Typed
  <2>1. ASSUME NEW c \in Copies, NEW h, Sourced(c, h)
        PROVE  Sourced(c, h)'
    BY <1>2, <2>1 DEF Sourced, Searchable
  <2>2. ASSUME NEW j, Sound(j) PROVE Sound(j)'
    BY <2>1, <2>2 DEF Sound
  <2>3. \A i \in DOMAIN jobs' : Sound(jobs[i])'
    <3> SUFFICES ASSUME NEW i \in DOMAIN jobs' PROVE Sound(jobs[i])'
      OBVIOUS
    <3>1. PICK j : j = jobs[i]
      OBVIOUS
    <3>2. Sound(j)
      BY <1>2, <3>1 DEF CarrySafe
    <3>3. Sound(j)'
      BY <2>2, <3>2
    <3>4. QED BY <1>2, <3>1, <3>3
  <2>4. ASSUME NEW t \in Threads PROVE Handed(t)'
    <3>1. Handed(t)
      BY DEF CarrySafe
    <3>2. PICK c, h : c = mov[t].copy /\ h = mov[t].prev
      OBVIOUS
    <3>3. pc[t] = "reassign" => Sourced(c, h)'
      <4>1. pc[t] = "reassign" => c \in Copies
        BY <2>0, <3>2 DEF Safe, Frames, Frame, Moving, MovePCs, MoveFrameIn, Reached
      <4>2. QED BY <2>1, <3>1, <3>2, <4>1 DEF Handed
    <3>4. QED BY <1>2, <3>1, <3>2, <3>3 DEF Handed, Flushing, Sourced
  <2>5. QED BY <1>0, <2>3, <2>4 DEF CarrySafe
<1>3. CASE \E v \in Vectors : DeleteIndex(v)
  <2>1. PICK v \in Vectors : DeleteIndex(v)
    BY <1>3
  <2>2. /\ version' = [version EXCEPT ![v] = Tombstone] /\ v \in Deletable
        /\ UNCHANGED <<posting, index, jobs, pc, app, mov, spl>>
        /\ version \in [Vectors -> Versions \cup {Tombstone}]
    BY <2>1 DEF DeleteIndex, store, marks, pool, locals, CarrySafe, FoundSafe, SplitSafe, Safe, Typed
  <2>3. \A c \in Copies : Vid(c) \notin Deletable /\ Current(c)' => Current(c)
    BY <2>2 DEF Current, Copies, Vid
  <2>4. QED BY <1>2, <2>2, <2>3
<1>4. CASE UNCHANGED vars
  BY <1>2, <1>4 DEF vars, Current
<1>5. QED BY <1>1, <1>3, <1>4 DEF Next

LEMMA CarryInvariant == ASSUME SameHead = FALSE, Identical = FALSE PROVE Spec => []CarrySafe
<1>1. CarrySafe /\ [Next]_vars => CarrySafe'
  BY NextCarrySafe
<1>2. QED BY <1>1, InitCarrySafe, PTL DEF Spec


-----------------------------------------------------------------------------
(* The live copy of a vector goes from place to place.                     *)

(* A copy leaves a cache for a job or for the hands of the splitter.       *)
LEMMA FromCache ==
  ASSUME CarrySafe, NEW t \in Threads, AddIndex(t) \/ Step(t),
         NEW h \in Heads, NEW c \in cache[h]
  PROVE  HasPlace(c)'
<1>s. Safe /\ AllPlain
  BY DEF CarrySafe, FoundSafe, SplitSafe
<1>0. /\ cache \in [Heads -> SUBSET Reached] /\ pc \in [Threads -> PC]
      /\ spl \in [Threads -> SplitFrameIn(Reached, Published)]
      /\ jobs \in Seq(JobIn(Reached, Published))
  BY <1>s DEF Safe, Typed
<1>1. CASE c \in cache'[h]
  BY <1>1 DEF HasPlace
<1>2. AddIndex(t) \/ InsertNext(t) \/ TakeJob(t) \/ Reassign(t) => cache' = cache
  BY DEF AddIndex, InsertNext, TakeJob, Reassign, ReassignSelect, ReassignCheck, ReassignBump,
     ReassignSpread, marks
<1>3. ConcurrentAppend(t) /\ ~AppendCache(t) => cache' = cache
  BY DEF ConcurrentAppend, AppendEnter, AppendMiss, AppendBranch, AppendLook, AppendGet, AppendPut,
     AppendCount, AppendGrow, AppendEnqueue, marks
<1>4. AppendCache(t) => c \in cache'[h]
  BY <1>0 DEF AppendCache
<1>5. CASE SplitGcFlush(t)
  <2>1. CASE h = spl[t].of
    <3>1. jobs' = Enqueued("append", h, cache[h])
      BY <1>5, <2>1 DEF SplitGcFlush
    <3>2. PICK j : j = [kind |-> "append", head |-> h, copies |-> cache[h]]
      OBVIOUS
    <3>3. jobs' = Append(jobs, j) /\ j.copies = cache[h]
      BY <3>1, <3>2 DEF Enqueued
    <3>4. Len(jobs) + 1 \in DOMAIN jobs' /\ jobs'[Len(jobs) + 1] = j
      BY <1>0, <3>3
    <3>5. QED BY <3>3, <3>4 DEF HasPlace
  <2>2. CASE h # spl[t].of
    BY <1>0, <1>1, <1>5, <2>2 DEF SplitGcFlush
  <2>3. QED BY <2>1, <2>2
<1>6. ASSUME NEW from, NEW to \in {"flush1", "flush2"}, SplitCollect(t, from, to)
      PROVE  HasPlace(c)'
  <2>1. CASE h = spl[t].of
    <3>1. spl'[t].todo = cache[h] /\ pc'[t] = to
      BY <1>0, <1>6, <2>1 DEF SplitCollect, Goto, SplitFrameIn
    <3>2. ToFlush(t, c)'
      BY <3>1 DEF ToFlush, Flushing
    <3>3. QED BY <3>2 DEF HasPlace, InHands
  <2>2. CASE h # spl[t].of
    BY <1>0, <1>1, <1>6, <2>2 DEF SplitCollect
  <2>3. QED BY <2>1, <2>2
<1>7. ConcurrentSplit(t) /\ ~SplitGcFlush(t) /\ ~SplitCollect(t, "collect1", "flush1")
        /\ ~SplitCollect(t, "collect2", "flush2") => cache' = cache
  BY <1>s, NoOptStep DEF ConcurrentSplit, SplitLock, SplitRead, SplitGcSize, SplitGcPut, SplitGcErase,
     SplitGcNormal, SplitPart, SplitPublish, SplitPartSize, SplitScan, SplitFlush, SplitUnindex,
     SplitShrink, SplitRetire, SplitErase, marks
<1>8. QED BY <1>1, <1>2, <1>3, <1>4, <1>5, <1>6, <1>7 DEF Step

(* A job leaves the queue for the hands of a worker. *)
LEMMA FromJobs ==
  ASSUME CarrySafe, NEW t \in Threads, AddIndex(t) \/ Step(t),
         NEW i \in DOMAIN jobs, NEW c \in jobs[i].copies
  PROVE  HasPlace(c)'
<1>s. Safe /\ AllPlain
  BY DEF CarrySafe, FoundSafe, SplitSafe
<1>0. /\ pc \in [Threads -> PC] /\ app \in [Threads -> AppendFrameIn(Reached, Published)]
      /\ mov \in [Threads -> MoveFrameIn(Reached, Published)]
      /\ jobs \in Seq(JobIn(Reached, Published))
  BY <1>s DEF Safe, Typed
<1>1. CASE jobs' = jobs
  BY <1>1 DEF HasPlace
<1>2. CASE \E kind, h, Z : NewJob(kind, h, Z)
  <2>1. PICK j : jobs' = Append(jobs, j)
    BY <1>2 DEF NewJob, Enqueued
  <2>2. i \in DOMAIN jobs' /\ jobs'[i] = jobs[i]
    BY <1>0, <2>1
  <2>3. QED BY <2>2 DEF HasPlace
<1>3. CASE TakeJob(t) /\ i # 1
  <2>1. i - 1 \in DOMAIN jobs' /\ jobs'[i - 1] = jobs[i]
    BY <1>0, <1>3 DEF TakeJob
  <2>2. QED BY <2>1 DEF HasPlace
<1>4. CASE TakeJob(t) /\ i = 1
  <2>1. PICK j : j = Head(jobs)
    OBVIOUS
  <2>2. j = jobs[i]
    BY <1>0, <1>4, <2>1 DEF TakeJob
  <2>3. Sound(j) /\ c \in j.copies
    BY <2>2 DEF CarrySafe
  <2>4. CASE j.kind = "append"
    <3>1. CallAppend(t, j.head, j.copies, 0, "idle")
      BY <1>4, <2>1, <2>4 DEF TakeJob
    <3>2. pc'[t] = "append" /\ app'[t].batch = j.copies
      BY <1>0, <3>1 DEF CallAppend, Goto
    <3>3. ToAppend(t, c)'
      BY <2>3, <3>2 DEF ToAppend, Carrying
    <3>4. QED BY <3>3 DEF HasPlace, InHands
  <2>5. CASE j.kind = "reassign"
    <3>1. PICK d \in j.copies : mov' = [mov EXCEPT ![t].copy = d, ![t].prev = j.head]
      BY <1>4, <2>1, <2>5 DEF TakeJob
    <3>2. d = c
      BY <2>3, <2>5 DEF Sound
    <3>3. mov'[t].copy = c
      BY <1>0, <3>1, <3>2 DEF MoveFrameIn
    <3>4. pc'[t] = "reassign"
      BY <1>0, <1>4, <2>1, <2>5 DEF TakeJob, Goto
    <3>5. ToMove(t, c)'
      BY <3>3, <3>4 DEF ToMove
    <3>6. QED BY <3>5 DEF HasPlace, InHands
  <2>6. CASE j.kind = "split"
    BY <2>3, <2>6 DEF Sound
  <2>7. QED BY <1>4, <2>1, <2>4, <2>5, <2>6 DEF TakeJob
<1>5. QED BY <1>1, <1>2, <1>3, <1>4, NewJobs

(* An append stores its copies, or puts them in the cache or in jobs.      *)
LEMMA FromAppend ==
  ASSUME CarrySafe, NEW t \in Threads, AddIndex(t) \/ Step(t), Published \subseteq Published',
         NEW v \in Vectors, version'[v] = version[v], ToAppend(t, Live(v)), ~LeftOut(t, v)
  PROVE  HasPlace(Live(v))'
<1>s. Safe /\ AllPlain /\ SplitSafe
  BY DEF CarrySafe, FoundSafe, SplitSafe
<1>0. /\ pc \in [Threads -> PC] /\ app \in [Threads -> AppendFrameIn(Reached, Published)]
      /\ posting \in [Heads -> SUBSET Reached] /\ cache \in [Heads -> SUBSET Reached]
      /\ jobs \in Seq(JobIn(Reached, Published)) /\ Published \subseteq Heads
  BY <1>s DEF Safe, Typed, Published
<1>c. PICK c : c = Live(v)
  OBVIOUS
<1>l. Live(v)' = c /\ Current(c) /\ Vid(c) = v
  BY <1>c DEF Live, Current, Vid, Ver
<1>1. c \in app[t].batch /\ pc[t] \in Carrying /\ app[t].at \in Published
  BY <1>c, <1>s, Frame1 DEF ToAppend, Carrying, AppendPCs
<1>h. ToAppend(t, c)' => HasPlace(c)'
  BY DEF HasPlace, InHands
<1>2. ConcurrentAppend(t)
  BY <1>1, RoutineStep DEF Carrying, AppendPCs
<1>3. CASE AppendEnter(t) \/ AppendBranch(t)
  <2>1. app' = app /\ pc'[t] \in Carrying
    BY <1>0, <1>3 DEF AppendEnter, AppendBranch, Goto, locals, Carrying
  <2>2. QED BY <1>1, <1>h, <1>l, <2>1 DEF ToAppend
<1>4. CASE AppendLook(t) \/ AppendGet(t)
  <2>1. app'[t].batch = app[t].batch /\ pc'[t] \in Carrying
    BY <1>0, <1>4 DEF AppendLook, AppendGet, Goto, Carrying, AppendFrameIn
  <2>2. QED BY <1>1, <1>h, <1>l, <2>1 DEF ToAppend
<1>5. CASE AppendMiss(t)
  <2>1. PICK d \in app[t].batch :
          /\ jobs' = IF Current(d) THEN Enqueued("reassign", app[t].at, {d}) ELSE jobs
          /\ app' = [app EXCEPT ![t].batch = @ \ {d}]
          /\ pc' = pc
    BY <1>1, <1>5 DEF AppendMiss
  <2>2. CASE d = c
    <3>1. PICK j : j = [kind |-> "reassign", head |-> app[t].at, copies |-> {c}]
      OBVIOUS
    <3>2. jobs' = Append(jobs, j) /\ c \in j.copies
      BY <1>l, <2>1, <2>2, <3>1 DEF Enqueued
    <3>3. Len(jobs) + 1 \in DOMAIN jobs' /\ jobs'[Len(jobs) + 1] = j
      BY <1>0, <3>2
    <3>4. QED BY <1>l, <3>2, <3>3 DEF HasPlace
  <2>3. CASE d # c
    <3>1. c \in app'[t].batch
      BY <1>0, <1>1, <2>1, <2>3 DEF AppendFrameIn
    <3>2. QED BY <1>1, <1>h, <1>l, <2>1, <3>1 DEF ToAppend
  <2>4. QED BY <2>2, <2>3
<1>6. CASE AppendCache(t)
  <2>1. c \in WithoutVectorsOf(app[t].old, app[t].batch)
    BY <1>1, <1>6, <1>c, <1>l DEF LeftOut, WithoutVectorsOf
  <2>2. PICK h \in Heads : h = app[t].at
    BY <1>0, <1>1
  <2>3. cache' = [cache EXCEPT ![h] = @ \cup WithoutVectorsOf(app[t].old, app[t].batch)]
    BY <1>6, <2>2 DEF AppendCache
  <2>4. c \in cache'[h]
    BY <1>0, <2>1, <2>3
  <2>5. QED BY <1>l, <2>4 DEF HasPlace
<1>7. CASE AppendPut(t)
  <2>1. PICK new : /\ new = IF FilterAppend THEN WithoutVectorsOf(app[t].old, app[t].batch)
                                           ELSE app[t].batch
                   /\ posting' = [posting EXCEPT ![app[t].at] = app[t].old \cup new]
    BY <1>7 DEF AppendPut
  <2>2. c \in app[t].old \cup new
    BY <1>1, <1>7, <1>c, <1>l, <2>1 DEF LeftOut, WithoutVectorsOf
  <2>3. c \in posting'[app[t].at]
    BY <1>0, <1>1, <2>1, <2>2
  <2>4. app[t].at \in Published'
    BY <1>1
  <2>5. QED BY <1>l, <2>3, <2>4 DEF HasPlace
<1>8. ~AppendCount(t) /\ ~AppendGrow(t) /\ ~AppendEnqueue(t)
  BY <1>1 DEF AppendCount, AppendGrow, AppendEnqueue, From, Carrying
<1>9. QED BY <1>2, <1>3, <1>4, <1>5, <1>6, <1>7, <1>8 DEF ConcurrentAppend


(* A split hands its copies to appends, which leave the rest with it.      *)
LEMMA FromFlush ==
  ASSUME CarrySafe, NEW t \in Threads, AddIndex(t) \/ Step(t), NEW c, Current(c), ToFlush(t, c)
  PROVE  HasPlace(c)'
<1>s. Safe /\ AllPlain
  BY DEF CarrySafe, FoundSafe, SplitSafe
<1>0. /\ pc \in [Threads -> PC] /\ app \in [Threads -> AppendFrameIn(Reached, Published)]
      /\ spl \in [Threads -> SplitFrameIn(Reached, Published)]
  BY <1>s DEF Safe, Typed
<1>h. ToFlush(t, c)' \/ ToAppend(t, c)' => HasPlace(c)'
  BY DEF HasPlace, InHands
<1>1. CASE app[t].back \in {"flush1", "flush2"}
  <2>1. spl' = spl /\ Flushing(t)'
    BY <1>s, <1>1, FlushingStep
  <2>2. QED BY <1>h, <2>1 DEF ToFlush
<1>2. ASSUME NEW here \in {"flush1", "flush2"}, NEW next, pc[t] = here, SplitFlush(t, here, next)
      PROVE  HasPlace(c)'
  <2>1. CASE /\ spl[t].todo # {}
             /\ \E near \in SUBSET CurrentOf(spl[t].todo) :
                  spl' = [spl EXCEPT ![t].todo = {},
                            ![t].flush = [k \in 1..2 |-> IF k = 1 THEN near
                                                        ELSE CurrentOf(spl[t].todo) \ near]]
             /\ UNCHANGED <<pc, app>>
    <3>0. PICK near \in SUBSET CurrentOf(spl[t].todo) :
            spl' = [spl EXCEPT ![t].todo = {},
                      ![t].flush = [k \in 1..2 |-> IF k = 1 THEN near
                                                  ELSE CurrentOf(spl[t].todo) \ near]]
      BY <2>1
    <3>1. PICK f : /\ f = [k \in 1..2 |-> IF k = 1 THEN near ELSE CurrentOf(spl[t].todo) \ near]
                   /\ spl' = [spl EXCEPT ![t].todo = {}, ![t].flush = f]
      BY <3>0
    <3>2. spl'[t].flush = f
      BY <1>0, <3>1 DEF SplitFrameIn
    <3>3. c \in spl[t].todo
      BY <2>1 DEF ToFlush, CarrySafe, Handed
    <3>4. c \in f[1] \/ c \in f[2]
      BY <3>1, <3>3 DEF CurrentOf
    <3>5. \E k \in 1..2 : c \in spl'[t].flush[k]
      BY <3>2, <3>4
    <3>6. pc'[t] = here
      BY <1>2, <2>1
    <3>7. QED BY <1>h, <3>5, <3>6 DEF ToFlush, Flushing
  <2>2. CASE \E i \in 1..2 :
               /\ spl[t].todo = {}
               /\ spl' = [spl EXCEPT ![t].flush[i] = {}]
               /\ CallAppend(t, spl[t].into[i], spl[t].flush[i], 0, here)
    <3>1. PICK i \in 1..2 :
            /\ spl[t].todo = {}
            /\ spl' = [spl EXCEPT ![t].flush[i] = {}]
            /\ CallAppend(t, spl[t].into[i], spl[t].flush[i], 0, here)
      BY <2>2
    <3>2. PICK k \in 1..2 : c \in spl[t].flush[k]
      BY <3>1 DEF ToFlush
    <3>3. pc'[t] = "append" /\ app'[t].batch = spl[t].flush[i] /\ app'[t].back = here
      BY <1>0, <3>1 DEF CallAppend, Goto
    <3>4. CASE k = i
      BY <1>h, <3>2, <3>3, <3>4 DEF ToAppend, Carrying
    <3>5. CASE k # i
      <4>1. spl'[t].flush[k] = spl[t].flush[k]
        BY <1>0, <3>1, <3>5 DEF SplitFrameIn
      <4>2. QED BY <1>h, <3>2, <3>3, <4>1 DEF ToFlush, Flushing
    <3>6. QED BY <3>4, <3>5
  <2>3. CASE spl[t].todo = {} /\ \A k \in 1..2 : spl[t].flush[k] = {}
    BY <2>3 DEF ToFlush
  <2>4. QED BY <1>2, <2>1, <2>2, <2>3 DEF SplitFlush
<1>3. CASE pc[t] \in {"flush1", "flush2"}
  BY <1>2, <1>3, RoutineStep
<1>4. QED BY <1>1, <1>3 DEF ToFlush, Flushing

(* An insert or a reassign sends its copy to the heads it has selected; a  *)
(* reassign that gives up leaves it where it was found.                    *)
LEMMA FromMove ==
  ASSUME CarrySafe, NEW t \in Threads, AddIndex(t) \/ Step(t), Published \subseteq Published',
         NEW v \in Vectors \ Deletable, version'[v] = version[v], ToMove(t, Live(v))
  PROVE  HasPlace(Live(v))'
<1>s. Safe /\ AllPlain
  BY DEF CarrySafe, FoundSafe, SplitSafe
<1>0. /\ pc \in [Threads -> PC] /\ app \in [Threads -> AppendFrameIn(Reached, Published)]
      /\ mov \in [Threads -> MoveFrameIn(Reached, Published)] /\ Published \subseteq Heads
      /\ version \in [Vectors -> Versions \cup {Tombstone}]
  BY <1>s DEF Safe, Typed, Published
<1>c. PICK c : c = Live(v)
  OBVIOUS
<1>l. Live(v)' = c /\ Current(c) /\ Vid(c) = v
  BY <1>c DEF Live, Current, Vid, Ver
<1>1. mov[t].copy = c /\ pc[t] \in MovePCs /\ Handed(t)
  BY <1>c DEF ToMove, MovePCs, CarrySafe
<1>h. ToMove(t, c)' \/ ToAppend(t, c)' => HasPlace(c)'
  BY DEF HasPlace, InHands
<1>2. CASE InsertNext(t) \/ ReassignSpread(t)
  <2>1. pc[t] \in {"insert", "spread"} /\ mov[t].targets # {}
    BY <1>2, <1>c DEF InsertNext, ReassignSpread, From, ToMove
  <2>2. \E h, s, b : CallAppend(t, h, {c}, s, b)
    BY <1>1, <1>2, <1>l, <2>1 DEF InsertNext, ReassignSpread
  <2>3. pc'[t] = "append" /\ app'[t].batch = {c}
    BY <1>0, <2>2 DEF CallAppend, Goto
  <2>4. QED BY <1>h, <1>l, <2>3 DEF ToAppend, Carrying
<1>3. CASE ReassignSelect(t)
  <2>1. CASE mov[t].prev \in Searchable
    <3>1. PICK g \in Searchable : c \in posting[g]
      BY <1>1, <1>3, <1>l, <2>1 DEF ReassignSelect, From, Handed, Sourced, Searchable
    <3>2. posting' = posting /\ g \in Published'
      BY <1>3 DEF ReassignSelect, store, Searchable, Published
    <3>3. QED BY <1>l, <3>1, <3>2 DEF HasPlace
  <2>2. CASE /\ \E S \in Selections : mov' = [mov EXCEPT ![t].targets = S]
             /\ Goto(t, "bump")
    <3>1. mov'[t].copy = c /\ pc'[t] = "bump"
      BY <1>0, <1>1, <2>2 DEF Goto, MoveFrameIn
    <3>2. QED BY <1>h, <1>l, <3>1 DEF ToMove
  <2>3. QED BY <1>1, <1>3, <1>l, <2>1, <2>2 DEF ReassignSelect
<1>4. CASE ReassignCheck(t)
  <2>1. version[v] # Tombstone
    BY DEF CarrySafe, FoundSafe, Unlabelled
  <2>2. pc'[t] = "inc" /\ mov' = mov
    BY <1>0, <1>1, <1>4, <1>l, <2>1 DEF ReassignCheck, Goto, locals
  <2>3. QED BY <1>1, <1>h, <1>l, <2>2 DEF ToMove
<1>5. ~ReassignBump(t)
  <2>1. PICK x : x = version[v] /\ x \in Versions
    BY <1>0 DEF CarrySafe, FoundSafe, Unlabelled
  <2>2. x # Tombstone /\ x \in Nat
    BY <2>1, UpdateAssumption DEF Versions
  <2>3. ReassignBump(t) => version' = [version EXCEPT ![v] = Successor(x)]
    BY <1>1, <1>l, <2>1 DEF ReassignBump
  <2>4. Successor(x) # x
    BY <2>2 DEF Successor
  <2>5. QED BY <1>0, <2>1, <2>3, <2>4
<1>6. QED BY <1>1, <1>2, <1>3, <1>4, <1>5, <1>c, <1>l, RoutineStep DEF Reassign

(* Only an insert takes a vector from those that are not in the index.     *)
LEMMA PendingStep ==
  ASSUME NEW t \in Threads, Step(t)
  PROVE  pending' = pending
<1>1. InsertNext(t) \/ TakeJob(t) \/ Reassign(t) => pending' = pending
  BY DEF InsertNext, TakeJob, Reassign, ReassignSelect, ReassignCheck, ReassignBump, ReassignSpread, labels
<1>2. ConcurrentAppend(t) => pending' = pending
  BY DEF ConcurrentAppend, AppendEnter, AppendMiss, AppendBranch, AppendLook, AppendCache,
         AppendGet, AppendPut, AppendCount, AppendGrow, AppendEnqueue, labels
<1>3. ConcurrentSplit(t) => pending' = pending
  BY DEF ConcurrentSplit, SplitLock, SplitRead, SplitGcSize, SplitGcPut, SplitGcErase, SplitGcFlush,
         SplitGcNormal, SplitOptOut, SplitOptNormal, SplitOptCollect, SplitOptPut, SplitOptSize,
         SplitPart, SplitPublish, SplitPartSize, SplitScan, SplitCollect, SplitFlush, SplitUnindex,
         SplitShrink, SplitRetire, SplitErase, labels
<1>4. QED BY <1>1, <1>2, <1>3 DEF Step

(* What a thread holds, no other thread takes. *)
LEMMA CarriedStep ==
  ASSUME SameHead = FALSE, CarrySafe, [Next]_vars, NEW v \in Vectors \ Deletable, Carried(v),
         \A t \in Threads : ~LeftOut(t, v)
  PROVE  Carried(v)'
<1>s. Safe /\ AllPlain /\ SplitSafe /\ FoundSafe
  BY DEF CarrySafe, FoundSafe, SplitSafe
<1>0. /\ pc \in [Threads -> PC] /\ mov \in [Threads -> MoveFrameIn(Reached, Published)]
      /\ version \in [Vectors -> Versions \cup {Tombstone}] /\ pending \subseteq Vectors
  BY <1>s DEF Safe, Typed
<1>1. ASSUME NEW t \in Threads, AddIndex(t) \/ Step(t)
      PROVE  Carried(v)'
  <2>1. Published \subseteq Published'
    BY <1>1, <1>s, SafeStep
  <2>2. CASE v \in pending /\ v \notin pending'
    <3>1. AddIndex(t)
      BY <1>1, <2>2, PendingStep
    <3>2. PICK w \in pending, S \in Selections :
            /\ pending' = pending \ {w}
            /\ mov' = [mov EXCEPT ![t].copy = <<w, version[w]>>, ![t].targets = S]
      BY <3>1 DEF AddIndex
    <3>3. w = v
      BY <2>2, <3>2
    <3>4. mov'[t].copy = Live(v) /\ mov'[t].targets # {}
      BY <1>0, <3>2, <3>3 DEF Live, Selections, MoveFrameIn
    <3>5. pc'[t] = "insert" /\ Live(v)' = Live(v)
      BY <1>0, <3>1 DEF AddIndex, Goto, Live
    <3>6. ToMove(t, Live(v))'
      BY <3>4, <3>5 DEF ToMove
    <3>7. QED BY <3>6 DEF Carried, HasPlace, InHands
  <2>3. CASE v \notin pending /\ version'[v] = version[v]
    <3>1. PICK c : c = Live(v)
      OBVIOUS
    <3>2. Live(v)' = c /\ Current(c) /\ Vid(c) = v
      BY <2>3, <3>1 DEF Live, Current, Vid, Ver
    <3>3. ASSUME NEW h \in Published, c \in posting[h]
          PROVE  HasPlace(c)'
      <4>1. c \in LiveOf(posting[h])
        BY <3>2, <3>3 DEF LiveOf
      <4>2. c \in posting'[h]
        BY <1>1, <1>s, <4>1, WrittenStep DEF SplitSafe, FoundSafe
      <4>3. QED BY <2>1, <4>2 DEF HasPlace
    <3>4. ASSUME NEW u \in Threads \ {t}, InHands(u, c)
          PROVE  HasPlace(c)'
      <4>1. Others(t)
        BY <1>1, <1>s, StepLocal DEF Safe
      <4>2. InHands(u, c)'
        BY <3>4, <4>1 DEF Others, InHands, ToAppend, ToFlush, ToMove, Flushing
      <4>3. QED BY <4>2 DEF HasPlace
    <3>5. InHands(t, c) => HasPlace(Live(v))'
      BY <1>1, <2>1, <2>3, <3>1, <3>2, FromAppend, FromFlush, FromMove DEF InHands
    <3>6. HasPlace(c)
      BY <2>3, <3>1 DEF Carried
    <3>7. HasPlace(c)'
      BY <1>1, <3>2, <3>3, <3>4, <3>5, <3>6, FromCache, FromJobs DEF HasPlace
    <3>8. QED BY <3>2, <3>7 DEF Carried
  <2>4. CASE version'[v] # version[v]
    <3>1. ReassignBump(t)
      BY <1>1, <2>4, OtherSteps
    <3>2. PICK w \in Vectors, n \in Versions :
            /\ mov' = [mov EXCEPT ![t].copy = <<w, n>>]
            /\ version' = [version EXCEPT ![w] = n]
      <4>1. PICK R : R = Reached
        OBVIOUS
      <4>2. R \in SUBSET Copies /\ Typed(R, Published) /\ Frames
        BY <1>s, <4>1 DEF Safe, Reached
      <4>3. QED BY <3>1, <4>2, BumpVersion
    <3>3. w = v /\ version'[v] = n
      BY <1>0, <2>4, <3>2
    <3>4. mov'[t].copy = Live(v)' /\ mov'[t].targets = mov[t].targets
      BY <1>0, <3>2, <3>3 DEF Live, MoveFrameIn
    <3>5. pc'[t] = "spread" /\ mov[t].targets # {}
      BY <1>0, <3>1 DEF ReassignBump, From, Goto, CarrySafe, Handed
    <3>6. ToMove(t, Live(v))'
      BY <3>4, <3>5 DEF ToMove
    <3>7. QED BY <3>6 DEF Carried, HasPlace, InHands
  <2>5. QED BY <2>2, <2>3, <2>4 DEF Carried
<1>2. ASSUME UNCHANGED <<posting, cache, index, pending, jobs, pc, app, mov, spl>>, version'[v] = version[v]
      PROVE  Carried(v)'
  BY <1>2 DEF Carried, HasPlace, Live, Published, InHands, ToAppend, ToFlush, ToMove, Flushing
<1>3. CASE \E w \in Vectors : DeleteIndex(w)
  BY <1>0, <1>2, <1>3 DEF DeleteIndex, store, marks, pool, locals
<1>4. CASE UNCHANGED vars
  BY <1>2, <1>4 DEF vars
<1>5. QED BY <1>1, <1>3, <1>4 DEF Next


(* The live copy of a vector that is not deleted is never lost but in two  *)
(* places, the filter of the cache and, with m_filterAppend, that of the   *)
(* posting: both compare identifiers and not versions.  Otherwise it is    *)
(* stored, in a cache, in a job, or with a thread that will store it.      *)
THEOREM OnlyFiltersDrop ==
  ASSUME SameHead = FALSE, Identical = FALSE
  PROVE  Spec => [][\A v \in Vectors \ Deletable :
                      Carried(v) => Carried(v)' \/ \E t \in Threads : LeftOut(t, v)]_vars
<1>1. CarrySafe /\ [Next]_vars
        => [\A v \in Vectors \ Deletable :
              Carried(v) => Carried(v)' \/ \E t \in Threads : LeftOut(t, v)]_vars
  BY CarriedStep
<1>2. QED BY <1>1, CarryInvariant, PTL DEF Spec
=============================================================================
