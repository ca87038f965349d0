----------------------------- MODULE PostingWord -----------------------------
(***************************************************************************)
(* The label of one head in PostingVersionLabel: one word with the status  *)
(* of the posting in its low byte and the identifiers of two other heads   *)
(* above it.  The status is set by exchanging that byte, SetPID1 and       *)
(* SetPID2 read the word and store all of it, with the status they have    *)
(* read.  Appends, splits and a merge work on the word at the same time;   *)
(* only appends and one branch of the merge hold the lock of the posting.  *)
(* The identifiers are written and never read: the word is its status.     *)
(***************************************************************************)
EXTENDS Integers, TLAPS

CONSTANTS
  Threads,   \* threads of the pools and of inserts
  SameHead,  \* a split can keep the head: a centroid coincides with it
  Blank      \* no thread

ASSUME PostingWordAssumption ==
  /\ Blank \notin Threads
  /\ SameHead \in BOOLEAN

VARIABLES
  word,      \* *m_data[key]
  indexed,   \* the head is in the head index
  lock,      \* the lock of the posting: its holder
  listed,    \* the head is in m_splitList
  queued,    \* a split of the head waits in the pool
  th,        \* the threads: next step and the word they have read
  mg         \* the merge that has m_mergeLock, likewise

vars == <<word, indexed, lock, listed, queued, th, mg>>

Statuses == {"normal", "splitting", "merging", "deleted"}

Init ==
  /\ word = "normal" /\ indexed = TRUE
  /\ lock = Blank
  /\ listed = FALSE /\ queued = FALSE
  /\ th = [t \in Threads |-> [pc |-> "start", old |-> "normal"]]
  /\ mg = [pc |-> "start", old |-> "normal"]

Step(t, from, to) == th[t].pc = from /\ th' = [th EXCEPT ![t].pc = to] /\ UNCHANGED mg
Set(s) == word' = s
pool == <<listed, queued>>

-----------------------------------------------------------------------------
(* ConcurrentAppend.  A head that is deleted is given up before the lock    *)
(* and again under it; then the status is read once more, for each of the  *)
(* marks that send the vectors to the cache.                               *)
AppendTest(t) ==
  /\ Step(t, "start", "lock") /\ word # "deleted"
  /\ UNCHANGED <<word, indexed, lock, pool>>
AppendLock(t) ==
  /\ Step(t, "lock", "again") /\ lock = Blank
  /\ lock' = t
  /\ UNCHANGED <<word, indexed, pool>>
AppendGone(t) ==
  /\ Step(t, "again", "start") /\ word = "deleted"
  /\ lock' = Blank
  /\ UNCHANGED <<word, indexed, pool>>
AppendAgain(t) ==
  /\ Step(t, "again", "splitting") /\ word # "deleted"
  /\ UNCHANGED <<word, indexed, lock, pool>>
AppendSplitting(t) ==
  /\ Step(t, "splitting", IF word = "splitting" THEN "cache" ELSE "merging")
  /\ UNCHANGED <<word, indexed, lock, pool>>
AppendMerging(t) ==
  /\ Step(t, "merging", IF word = "merging" THEN "cache" ELSE "put")
  /\ UNCHANGED <<word, indexed, lock, pool>>

(* The vectors are in the cache, or in the posting and within its limit.   *)
AppendEnd(t) ==
  /\ Step(t, "cache", "start") \/ Step(t, "put", "start")
  /\ lock' = Blank
  /\ UNCHANGED <<word, indexed, pool>>

(* Over the limit: the mark, and once the lock is released a job unless    *)
(* there is one, or, for an append of a reassign, the split itself.        *)
AppendMark(t) ==
  /\ Step(t, "put", "grow")
  /\ Set("splitting")
  /\ UNCHANGED <<indexed, lock, pool>>
AppendGrow(t) ==
  /\ Step(t, "grow", "queue")
  /\ lock' = Blank
  /\ UNCHANGED <<word, indexed, pool>>
SplitAsync(t) ==
  /\ Step(t, "queue", "start")
  /\ listed' = TRUE /\ queued' = (queued \/ ~listed)
  /\ UNCHANGED <<word, indexed, lock>>
AppendSplit(t) ==
  /\ Step(t, "queue", "read")
  /\ UNCHANGED <<word, indexed, lock, pool>>

Appending(t) ==
  \/ AppendTest(t) \/ AppendLock(t) \/ AppendGone(t) \/ AppendAgain(t)
  \/ AppendSplitting(t) \/ AppendMerging(t) \/ AppendEnd(t)
  \/ AppendMark(t) \/ AppendGrow(t) \/ SplitAsync(t) \/ AppendSplit(t)

-----------------------------------------------------------------------------
(* SetPID1, SetPID2: a read, then a store of the whole word.               *)
Load(t, from, to) ==
  /\ th[t].pc = from
  /\ th' = [th EXCEPT ![t] = [pc |-> to, old |-> word]]
  /\ UNCHANGED <<word, indexed, lock, pool, mg>>
Store(t, from, to) ==
  /\ Step(t, from, to)
  /\ Set(th[t].old)
  /\ UNCHANGED <<indexed, lock, pool>>

(* ConcurrentSplit of the head, none of whose steps holds the lock.        *)
SplitTake(t) ==
  /\ Step(t, "start", "read") /\ queued
  /\ queued' = FALSE
  /\ UNCHANGED <<word, indexed, lock, listed>>

(* Bug: back to normal, then off the list. *)
SplitGcNormalFirst(t) ==
  /\ Step(t, "read", "erase")
  /\ Set("normal")
  /\ UNCHANGED <<indexed, lock, pool>>

(* Garbage collection was enough, or all vectors are the same: off the     *)
(* list, then back to normal.                                              *)
SplitGcErase(t) ==
  /\ Step(t, "read", "gc")
  /\ listed' = FALSE
  /\ UNCHANGED <<word, indexed, lock, queued>>
SplitGcNormal(t) ==
  /\ Step(t, "gc", "start")
  /\ Set("normal")
  /\ UNCHANGED <<indexed, lock, pool>>

(* The optimised split keeps the head, on the list too, and may queue      *)
(* another split of it.                                                    *)
SplitOpt(t) ==
  /\ SameHead
  /\ Step(t, "read", "start") \/ Step(t, "read", "queue")
  /\ Set("normal")
  /\ UNCHANGED <<indexed, lock, pool>>

(* Two heads are published and written down as the successors.             *)
SplitPIDs(t) ==
  \/ Load(t, "read", "pid1") \/ Store(t, "pid1", "between")
  \/ Load(t, "between", "pid2") \/ Store(t, "pid2", "end")

(* The head goes, or is one of the two.                                    *)
SplitUnindex(t) ==
  /\ Step(t, "end", "retire")
  /\ indexed' = FALSE
  /\ UNCHANGED <<word, lock, pool>>
SplitDelete(t) ==
  /\ Step(t, "retire", "erase")
  /\ Set("deleted")
  /\ UNCHANGED <<indexed, lock, pool>>
SplitKeep(t) ==
  /\ SameHead
  /\ Step(t, "end", "erase")
  /\ Set("normal")
  /\ UNCHANGED <<indexed, lock, pool>>
SplitErase(t) ==
  /\ Step(t, "erase", "start")
  /\ listed' = FALSE
  /\ UNCHANGED <<word, indexed, lock, queued>>

Splitting(t) ==
  \/ SplitTake(t) \/ SplitGcErase(t) \/ SplitGcNormal(t) \/ SplitOpt(t) \/ SplitPIDs(t)
  \/ SplitUnindex(t) \/ SplitDelete(t) \/ SplitKeep(t) \/ SplitErase(t)

-----------------------------------------------------------------------------
(* ConcurrentMergePostings with the head as the one to merge or as the     *)
(* partner: seen in the head index, marked without a look at its status,   *)
(* then normal again, under the lock, or retired, with the other head as   *)
(* its PID2.                                                               *)
MergeStep(from, to) == mg.pc = from /\ mg' = [mg EXCEPT !.pc = to] /\ UNCHANGED th
MergeGone ==
  /\ MergeStep("start", "start") /\ ~indexed
  /\ Set("deleted")
  /\ UNCHANGED <<indexed, lock, pool>>
MergeCheck ==
  /\ MergeStep("start", "mark") /\ indexed
  /\ UNCHANGED <<word, indexed, lock, pool>>
MergeMark ==
  /\ MergeStep("mark", "choose")
  /\ Set("merging")
  /\ UNCHANGED <<indexed, lock, pool>>
MergeNormal ==
  /\ MergeStep("choose", "start") /\ lock = Blank
  /\ Set("normal")
  /\ UNCHANGED <<indexed, lock, pool>>
MergeLoad ==
  /\ mg.pc = "choose"
  /\ mg' = [pc |-> "pid2", old |-> word]
  /\ UNCHANGED <<word, indexed, lock, pool, th>>
MergePID2 ==
  /\ MergeStep("pid2", "unindex")
  /\ Set(mg.old)
  /\ UNCHANGED <<indexed, lock, pool>>
MergeUnindex ==
  /\ MergeStep("unindex", "delete")
  /\ indexed' = FALSE
  /\ UNCHANGED <<word, lock, pool>>

(* Bug: the head leaves the index with its mark. *)
MergeDeleteNot ==
  /\ MergeStep("delete", "start")
  /\ UNCHANGED <<word, indexed, lock, pool>>
MergeDelete ==
  /\ MergeStep("delete", "start")
  /\ Set("deleted")
  /\ UNCHANGED <<indexed, lock, pool>>

Merging ==
  \/ MergeGone \/ MergeCheck \/ MergeMark \/ MergeNormal
  \/ MergeLoad \/ MergePID2 \/ MergeUnindex \/ MergeDelete

Next == Merging \/ \E t \in Threads : Appending(t) \/ Splitting(t)
Spec == Init /\ [][Next]_vars

-----------------------------------------------------------------------------
Appends == {"lock", "again", "splitting", "merging", "cache", "put", "grow", "queue"}
Splits == {"read", "gc", "pid1", "between", "pid2", "end", "retire", "erase"}
MergeSteps == {"start", "mark", "choose", "pid2", "unindex", "delete"}

TypeOK ==
  /\ word \in Statuses /\ indexed \in BOOLEAN
  /\ lock \in Threads \cup {Blank}
  /\ listed \in BOOLEAN /\ queued \in BOOLEAN
  /\ th \in [Threads -> [pc : {"start"} \cup Appends \cup Splits, old : Statuses]]
  /\ mg \in [pc : MergeSteps, old : Statuses]

In(steps) == \E t \in Threads : th[t].pc \in steps

(* A merging mark never outlives those at work on it, the merge and a      *)
(* split that has stored the word it read meanwhile: appends would go to   *)
(* the cache of the head for ever.                                         *)
MergingOwned ==
  word = "merging" =>
    mg.pc \in {"choose", "pid2", "unindex", "delete"} \/ In({"between", "pid2", "end", "retire"})

(* A head in the index that is marked as splitting has a split, queued,    *)
(* running or about to be queued, or is being retired by a merge, although *)
(* merges set the status to normal under a split and appends mark it       *)
(* again.  When a split can keep the head this does not hold.              *)
SplittingOwned ==
  ~SameHead /\ indexed /\ word = "splitting" =>
    queued \/ mg.pc \in {"unindex", "delete"}
    \/ In({"grow", "queue", "read", "gc", "pid1", "between", "pid2", "end"})

(* ExtraDynamicSearcher.h:1618 says of the look at the head index before a *)
(* merge marks its partner "if the posting is marked as deleted, skip it": *)
(* a merge does not bring a deleted head back.                             *)
(* The code does not keep this: README, Disagreements.  No run checks it.  *)
RetiredStays == [][Merging /\ word = "deleted" => word' = "deleted"]_vars

-----------------------------------------------------------------------------
(***************************************************************************)
(* For any number of threads.  Unless splits keep the head, a head on the  *)
(* list has a split that is queued or that will take it off.               *)
(***************************************************************************)
ListedOwned == ~SameHead /\ listed => queued \/ In({"read", "pid1", "between", "pid2", "end", "retire", "erase"})
Retiring == ~SameHead /\ In({"retire", "erase"}) => ~indexed
Unindexed == mg.pc = "delete" => ~indexed

Safe == TypeOK /\ MergingOwned /\ ListedOwned /\ Retiring /\ Unindexed /\ SplittingOwned

LEMMA SafeInit == Init => Safe
<1> SUFFICES ASSUME Init PROVE Safe
  OBVIOUS
<1>1. th \in [Threads -> [pc : {"start"} \cup Appends \cup Splits, old : Statuses]]
  BY DEF Init, Statuses
<1>2. mg \in [pc : MergeSteps, old : Statuses]
  BY DEF Init, Statuses, MergeSteps
<1>3. TypeOK
  BY <1>1, <1>2 DEF Init, TypeOK, Statuses
<1>4. \A t \in Threads : th[t].pc = "start"
  BY DEF Init
<1>5. QED
  BY <1>3, <1>4 DEF Init, Safe, MergingOwned, ListedOwned, Retiring, Unindexed, SplittingOwned, In

LEMMA SafeAppend ==
  ASSUME Safe, NEW t \in Threads, Appending(t)
  PROVE  Safe'
<1> USE DEF Safe, TypeOK, MergingOwned, ListedOwned, Retiring, Unindexed, SplittingOwned, In, Statuses,
            Appends, Splits, pool, Set, Step
<1>1. CASE AppendTest(t)
  BY <1>1 DEF AppendTest
<1>2. CASE AppendLock(t)
  BY <1>2 DEF AppendLock
<1>3. CASE AppendGone(t)
  BY <1>3 DEF AppendGone
<1>4. CASE AppendAgain(t)
  BY <1>4 DEF AppendAgain
<1>5. CASE AppendSplitting(t)
  BY <1>5 DEF AppendSplitting
<1>6. CASE AppendMerging(t)
  BY <1>6 DEF AppendMerging
<1>7. CASE AppendEnd(t)
  BY <1>7 DEF AppendEnd
<1>8. CASE AppendMark(t)
  BY <1>8 DEF AppendMark
<1>9. CASE AppendGrow(t)
  BY <1>9 DEF AppendGrow
<1>10. CASE SplitAsync(t)
  <2>1. th[t].pc = "queue" /\ th'[t].pc = "start" /\ \A u \in Threads \ {t} : th'[u] = th[u]
    BY <1>10 DEF SplitAsync
  <2>2. TypeOK'
    BY <1>10 DEF SplitAsync
  <2>3. ListedOwned'
    <3>1. CASE listed
      BY <1>10, <2>1, <3>1 DEF SplitAsync
    <3>2. CASE ~listed
      BY <1>10, <3>2 DEF SplitAsync
    <3>3. QED BY <3>1, <3>2
  <2>4. SplittingOwned'
    <3>1. CASE listed
      BY <1>10, <2>1, <3>1 DEF SplitAsync
    <3>2. CASE ~listed
      BY <1>10, <3>2 DEF SplitAsync
    <3>3. QED BY <3>1, <3>2
  <2>5. MergingOwned' /\ Retiring' /\ Unindexed'
    BY <1>10, <2>1 DEF SplitAsync
  <2>6. QED BY <2>2, <2>3, <2>4, <2>5
<1>11. CASE AppendSplit(t)
  BY <1>11 DEF AppendSplit
<1>12. QED BY <1>1, <1>2, <1>3, <1>4, <1>5, <1>6, <1>7, <1>8, <1>9, <1>10, <1>11 DEF Appending

LEMMA SafeSplit ==
  ASSUME Safe, NEW t \in Threads, Splitting(t)
  PROVE  Safe'
<1> USE DEF Safe, TypeOK, MergingOwned, ListedOwned, Retiring, Unindexed, SplittingOwned, In, Statuses,
            Appends, Splits, pool, Set, Step
<1>1. CASE SplitTake(t)
  BY <1>1 DEF SplitTake
<1>2. CASE SplitGcErase(t)
  <2>1. th[t].pc = "read" /\ th'[t].pc = "gc" /\ \A u \in Threads \ {t} : th'[u] = th[u]
    BY <1>2 DEF SplitGcErase
  <2>2. TypeOK' /\ ListedOwned' /\ Unindexed'
    BY <1>2 DEF SplitGcErase
  <2>3. MergingOwned' /\ Retiring' /\ SplittingOwned'
    BY <1>2, <2>1 DEF SplitGcErase
  <2>4. QED BY <2>2, <2>3
<1>3. CASE SplitGcNormal(t)
  BY <1>3 DEF SplitGcNormal
<1>4. CASE SplitOpt(t)
  BY <1>4 DEF SplitOpt
<1>5. CASE SplitPIDs(t)
  <2>1. CASE Load(t, "read", "pid1")
    BY <2>1 DEF Load
  <2>2. CASE Store(t, "pid1", "between")
    BY <2>2 DEF Store
  <2>3. CASE Load(t, "between", "pid2")
    BY <2>3 DEF Load
  <2>4. CASE Store(t, "pid2", "end")
    BY <2>4 DEF Store
  <2>5. QED BY <1>5, <2>1, <2>2, <2>3, <2>4 DEF SplitPIDs
<1>6. CASE SplitUnindex(t)
  BY <1>6 DEF SplitUnindex
<1>7. CASE SplitDelete(t)
  BY <1>7 DEF SplitDelete
<1>8. CASE SplitKeep(t)
  BY <1>8 DEF SplitKeep
<1>9. CASE SplitErase(t)
  BY <1>9 DEF SplitErase
<1>10. QED BY <1>1, <1>2, <1>3, <1>4, <1>5, <1>6, <1>7, <1>8, <1>9 DEF Splitting

LEMMA SafeMerge ==
  ASSUME Safe, Merging
  PROVE  Safe'
<1> USE DEF Safe, TypeOK, MergingOwned, ListedOwned, Retiring, Unindexed, SplittingOwned, In, Statuses,
            MergeSteps, pool, Set, MergeStep
<1>1. CASE MergeGone
  BY <1>1 DEF MergeGone
<1>2. CASE MergeCheck
  BY <1>2 DEF MergeCheck
<1>3. CASE MergeMark
  BY <1>3 DEF MergeMark
<1>4. CASE MergeNormal
  BY <1>4 DEF MergeNormal
<1>5. CASE MergeLoad
  BY <1>5 DEF MergeLoad
<1>6. CASE MergePID2
  BY <1>6 DEF MergePID2
<1>7. CASE MergeUnindex
  BY <1>7 DEF MergeUnindex
<1>8. CASE MergeDelete
  BY <1>8 DEF MergeDelete
<1>9. QED BY <1>1, <1>2, <1>3, <1>4, <1>5, <1>6, <1>7, <1>8 DEF Merging

(* The inductive invariant: who is at work on a mark, and on the list.     *)
THEOREM WordSafe == Spec => []Safe
<1>1. Safe /\ [Next]_vars => Safe'
  <2> SUFFICES ASSUME Safe, [Next]_vars PROVE Safe'
    OBVIOUS
  <2>1. CASE UNCHANGED vars
    BY <2>1 DEF vars, pool, Safe, TypeOK, MergingOwned, ListedOwned, Retiring, Unindexed, SplittingOwned, In
  <2>2. QED BY <2>1, SafeAppend, SafeSplit, SafeMerge DEF Next
<1>2. QED BY SafeInit, <1>1, PTL DEF Spec

(* For any number of threads and splits that keep the head or not, a head  *)
(* is not left marked as merging.                                          *)
THEOREM MergingHolds == Spec => []MergingOwned
<1>1. Safe => MergingOwned
  BY DEF Safe
<1>2. QED BY <1>1, WordSafe, PTL

(* For any number of threads, when no split keeps the head, a head in the  *)
(* index is not left marked as splitting, also where a merge marks it too. *)
THEOREM SplittingHolds == Spec => []SplittingOwned
<1>1. Safe => SplittingOwned
  BY DEF Safe
<1>2. QED BY <1>1, WordSafe, PTL
=============================================================================
