---------------------------- MODULE DynamicBuild ----------------------------
(***************************************************************************)
(* ExtraDynamicSearcher::BuildIndex: the selections of ReplicaSelection,   *)
(* written to the key-value store by WriteDownAllPostingToDB, which shares *)
(* the postings out among threads, with the version labels, the posting    *)
(* labels and the posting sizes that belong to them.                       *)
(***************************************************************************)
EXTENDS ReplicaSelection

CONSTANTS
  Threads  \* the threads of WriteDownAllPostingToDB
DynamicBuildAssumption == ReplicaSelectionAssumption /\ IsFiniteSet(Threads) /\ Threads # {}

VARIABLES
  versions,   \* m_versionMap
  labels,     \* m_postingVersionMap: how many postings it has
  db,         \* the postings in the store: none, or sequences of identifier and version
  recorded,   \* m_postingSizes
  sent,       \* vectorsSent
  index,      \* the posting a thread has drawn
  saved       \* what SavePostingSizesAndVersionMaps wrote

vars == <<step, batch, full, file, mem, lo, hi, copies, sizes, versions, labels, db, recorded, sent, index, saved>>
own == <<versions, labels, db, recorded, sent, index, saved>>
selection == <<batch, full, file, mem, lo, hi, copies, sizes>>

Absent == <<<<-1, -1>>>>
Idle == -1
NoFile == [sizes |-> <<>>, versions |-> <<>>, labels |-> 0]

Init ==
  /\ SelectionInit
  /\ versions = <<>> /\ labels = 0
  /\ db = [p \in Postings |-> Absent] /\ recorded = <<>>
  /\ sent = 0 /\ index = [t \in Threads |-> Idle] /\ saved = NoFile

Prepare == Prepared /\ UNCHANGED own
StartBatch == BatchStarted /\ UNCHANGED own
Search == Approximate /\ UNCHANGED own
CountReplicas == ReplicasCounted /\ UNCHANGED own
SortSelections == SelectionsSorted /\ UNCHANGED own
CutPosting == PostingCut /\ UNCHANGED own

(* VersionLabel and PostingVersionLabel start with as many entries as      *)
(* there are vectors and postings.                                         *)
InitializeMaps ==
  /\ CutDone
  /\ versions' = [v \in Vids |-> 0]
  /\ labels' = Heads
  /\ step' = "write"
  /\ UNCHANGED <<db, recorded, sent, index, saved>> /\ UNCHANGED selection

DrawSame(t) ==
  /\ step = "write" /\ index[t] = Idle /\ sent < Heads
  /\ \E seen \in {sent, 0} : index' = [index EXCEPT ![t] = seen] /\ sent' = seen + 1
  /\ UNCHANGED <<step, versions, labels, db, recorded, saved>> /\ UNCHANGED selection
Draw(t) ==
  /\ step = "write" /\ index[t] = Idle /\ sent < Heads
  /\ index' = [index EXCEPT ![t] = sent]
  /\ sent' = sent + 1
  /\ UNCHANGED <<step, versions, labels, db, recorded, saved>> /\ UNCHANGED selection

Posting(p) == [k \in 1 .. sizes[p] |-> <<MembersOf(p)[k], versions[MembersOf(p)[k]]>>]
PutDrawn(t) ==
  /\ step = "write" /\ index[t] # Idle
  /\ IF Matches(index[t])
     THEN db' = [db EXCEPT ![index[t]] = Posting(index[t])] /\ step' = step
     ELSE db' = db /\ step' = "failed"
  /\ index' = [index EXCEPT ![t] = Idle]
  /\ UNCHANGED <<versions, labels, recorded, sent, saved>> /\ UNCHANGED selection

Joined == sent = Heads /\ \A t \in Threads : index[t] = Idle
RecordSizes ==
  /\ step = "write" /\ Joined
  /\ recorded' = [k \in 1 .. Heads |-> sizes[k - 1]]
  /\ step' = "save"
  /\ UNCHANGED <<versions, labels, db, sent, index, saved>> /\ UNCHANGED selection

SavePostingSizesAndVersionMaps ==
  /\ step = "save"
  /\ saved' = [sizes |-> recorded, versions |-> versions, labels |-> labels]
  /\ step' = "done"
  /\ UNCHANGED <<versions, labels, db, recorded, sent, index>> /\ UNCHANGED selection

Next ==
  \/ Prepare \/ StartBatch \/ Search \/ CountReplicas \/ SortSelections \/ CutPosting
  \/ InitializeMaps \/ (\E t \in Threads : Draw(t) \/ PutDrawn(t)) \/ RecordSizes
  \/ SavePostingSizesAndVersionMaps
Spec == Init /\ [][Next]_vars

-----------------------------------------------------------------------------
TypeOK ==
  /\ step \in {"prepare", "batch", "search", "cut", "write", "save", "done", "failed"}
  /\ hi - lo = Len(mem) /\ sent \in 0 .. Heads /\ index \in [Threads -> Postings \cup {Idle}]

(* What is saved fits what is stored: every posting is there, as long as   *)
(* the size recorded for it, its vectors have the version of the map, and  *)
(* no head's own vector is among them.                                     *)
SavedFits ==
  step = "done" =>
    /\ Len(saved.sizes) = Heads /\ saved.labels = Heads
    /\ \A p \in Postings :
         /\ db[p] # Absent /\ Len(db[p]) = saved.sizes[p + 1]
         /\ \A k \in 1 .. Len(db[p]) :
              db[p][k][1] \in Vids \ HeadIDs /\ db[p][k][2] = saved.versions[db[p][k][1]]

(* A vector for which a replica is still counted after the cut is in the  *)
(* store, in as many postings.                                             *)
EachStored ==
  step = "done" => \A v \in Vids :
    copies[v] = Cardinality({p \in Postings : \E k \in 1 .. Len(db[p]) : db[p][k][1] = v})

(* A posting is never drawn by two threads, nor one left out.              *)
DrawnOnce ==
  /\ \A t, u \in Threads : t # u /\ index[t] # Idle => index[t] # index[u]
  /\ \A p \in Postings : p < sent => db[p] # Absent \/ \E t \in Threads : index[t] = p
=============================================================================
