--------------------------- MODULE PostingSearch ---------------------------
(***************************************************************************)
(* A search of the index, from the heads found in memory to the vectors    *)
(* reported: the selection of the postings in SPANN's Index, and           *)
(* SearchIndex of ExtraDynamicSearcher, which runs without any lock while  *)
(* vectors are inserted and deleted and heads are retired.                 *)
(*                                                                         *)
(* Distances are data: the heads found are a sequence, those from some     *)
(* place on are too far, and a vector has a fixed distance to the query.   *)
(***************************************************************************)
EXTENDS Integers, Sequences, SequencesExt, FiniteSets

CONSTANTS
  Heads,
  Vectors,     \* numbers, the identifiers of vectors
  Posted,      \* input: the vectors of each posting at first
  Dist,        \* input: the distance of each vector
  TopK,        \* the results asked for
  Threshold,   \* m_mergeThreshold
  Disk,        \* TRUE: SearchDiskIndex, FALSE: SearchIndex of the Index
  ExcludeHead, \* m_excludehead: heads are vectors of their own
  MaxUpdates   \* bound: the updates during the search

SearchAssumption ==
  /\ IsFiniteSet(Heads) /\ IsFiniteSet(Vectors) /\ Vectors \subseteq Nat
  /\ Posted \in [Heads -> SUBSET Vectors] /\ Dist \in [Vectors -> Nat]
  /\ TopK \in Nat /\ Threshold \in Nat /\ MaxUpdates \in Nat
  /\ Disk \in BOOLEAN /\ ExcludeHead \in BOOLEAN

VARIABLES
  posting, \* db
  size,    \* m_postingSizes
  cache,   \* m_postingVersionMap: m_vectorCache
  status,  \* m_postingVersionMap: status
  index,   \* the heads in the head index
  dead,    \* m_versionMap: the deleted vectors
  listed,  \* m_mergeList
  updates, \* counts the updates
  moved,   \* history: the vectors an update touched since the search began
  gone,    \* history: the vectors deleted before the search
  s        \* the search: next step and locals

world == <<posting, size, cache, status, index, dead, updates, moved>>
vars == <<world, listed, gone, s>>

NoSearch == [pc |-> "idle", found |-> <<>>, near |-> 0, ids |-> <<>>, filtered |-> <<>>, lists |-> <<>>,
             pi |-> 1, late |-> {}, up |-> FALSE, live |-> 0, seen |-> {}, result |-> <<>>]

Init ==
  /\ posting = Posted
  /\ size = [h \in Heads |-> Cardinality(Posted[h])]
  /\ cache = [h \in Heads |-> {}]
  /\ status = [h \in Heads |-> "normal"]
  /\ index = Heads
  /\ dead = {}
  /\ listed = {}
  /\ updates = 0
  /\ moved = {}
  /\ gone = {}
  /\ s = NoSearch

At(l) == s.pc = l
Placed == UNION {posting[h] \cup cache[h] : h \in Heads}

-----------------------------------------------------------------------------
(* The updates as a search sees them. *)
Update(vs) == updates < MaxUpdates /\ updates' = updates + 1 /\ moved' = moved \cup vs

(* An append of a copy, to the posting or, while it splits, to the cache. *)
AppendVector(h, v) ==
  /\ Update({v})
  /\ v \notin posting[h] \cup cache[h] \cup dead /\ h \in index
  /\ IF status[h] = "normal"
     THEN /\ posting' = [posting EXCEPT ![h] = @ \cup {v}]
          /\ size' = [size EXCEPT ![h] = @ + 1]
          /\ UNCHANGED cache
     ELSE /\ cache' = [cache EXCEPT ![h] = @ \cup {v}]
          /\ UNCHANGED <<posting, size>>
  /\ UNCHANGED <<status, index, dead, listed, gone, s>>

Split(h) ==
  /\ Update({})
  /\ h \in index /\ status[h] = "normal"
  /\ status' = [status EXCEPT ![h] = "splitting"]
  /\ UNCHANGED <<posting, size, cache, index, dead, listed, gone, s>>

(* The split ends: the cached vectors are appended. *)
Drain(h) ==
  /\ Update(cache[h])
  /\ status[h] = "splitting"
  /\ status' = [status EXCEPT ![h] = "normal"]
  /\ posting' = [posting EXCEPT ![h] = @ \cup cache[h]]
  /\ size' = [size EXCEPT ![h] = Cardinality(posting[h] \cup cache[h])]
  /\ cache' = [cache EXCEPT ![h] = {}]
  /\ UNCHANGED <<index, dead, listed, gone, s>>

(* The head is retired; its posting stays in the store, what it held goes  *)
(* to another one.                                                         *)
Retire(h, g) ==
  /\ Update(posting[h] \cup cache[h])
  /\ h \in index /\ g \in index \ {h}
  /\ index' = index \ {h}
  /\ status' = [status EXCEPT ![h] = "deleted"]
  /\ posting' = [posting EXCEPT ![g] = @ \cup posting[h] \cup cache[h]]
  /\ size' = [size EXCEPT ![h] = 0, ![g] = Cardinality(posting[g] \cup posting[h] \cup cache[h])]
  /\ cache' = [cache EXCEPT ![h] = {}]
  /\ UNCHANGED <<dead, listed, gone, s>>

Delete(v) ==
  /\ Update({v})
  /\ v \in Placed \ dead
  /\ dead' = dead \cup {v}
  /\ UNCHANGED <<posting, size, cache, status, index, listed, gone, s>>

-----------------------------------------------------------------------------
(* The search in the head index finds heads that are in it. *)
Orders(S) == {q \in [1..Cardinality(S) -> S] : \A i, j \in 1..Cardinality(S) : q[i] = q[j] => i = j}

SearchHeads ==
  /\ At("idle")
  /\ \E q \in Orders(index) : \E near \in 1..Len(q) :
       s' = [NoSearch EXCEPT !.pc = "select", !.found = q, !.near = near]
  /\ gone' = dead
  /\ moved' = {}
  /\ UNCHANGED <<posting, size, cache, status, index, dead, updates, listed>>

(* SearchDiskIndex takes the valid postings up to the first head that is   *)
(* too far.  SearchIndex has by then replaced the distance of a head that  *)
(* is no vector by the largest one, and finds it too far.                  *)
Near(i) == i <= s.near /\ (Disk \/ ExcludeHead)

Select ==
  /\ At("select") /\ s.pi <= Len(s.found)
  /\ LET h == s.found[s.pi] IN
     s' = [s EXCEPT !.pi = @ + 1, !.ids = IF Near(s.pi) /\ size[h] > 0 THEN Append(@, h) ELSE @]
  /\ UNCHANGED <<world, listed, gone>>

Selected ==
  /\ At("select") /\ s.pi > Len(s.found)
  /\ s' = [s EXCEPT !.pc = "filter", !.pi = 1]
  /\ UNCHANGED <<world, listed, gone>>

(* Bug: a head that is left out is not passed. *)
FilterStuck ==
  /\ At("filter") /\ s.pi <= Len(s.ids)
  /\ LET h == s.ids[s.pi]
         keep == status[h] # "deleted" /\ h \in index /\ size[h] > 0 IN
     s' = IF keep THEN [s EXCEPT !.pi = @ + 1, !.filtered = Append(@, h)] ELSE s
  /\ UNCHANGED <<world, listed, gone>>

(* The heads that were retired meanwhile are left out, one head at a time. *)
Filter ==
  /\ At("filter") /\ s.pi <= Len(s.ids)
  /\ LET h == s.ids[s.pi]
         keep == status[h] # "deleted" /\ h \in index /\ size[h] > 0 IN
     s' = [s EXCEPT !.pi = @ + 1, !.filtered = IF keep THEN Append(@, h) ELSE @]
  /\ UNCHANGED <<world, listed, gone>>

Filtered ==
  /\ At("filter") /\ s.pi > Len(s.ids)
  /\ s' = [s EXCEPT !.pc = "get", !.pi = 1]
  /\ UNCHANGED <<world, listed, gone>>

(* MultiGet: the postings of the heads left, one read after the other.     *)
(* When its time is up, a posting of which a part is still to be read      *)
(* comes back empty; the parts end in any order.                           *)
MultiGet ==
  /\ At("get") /\ Len(s.lists) < Len(s.filtered)
  /\ LET h == s.filtered[Len(s.lists) + 1] IN
     \/ s' = [s EXCEPT !.lists = Append(@, posting[h])]
     \/ s' = [s EXCEPT !.lists = Append(@, {}), !.late = @ \cup {h}]
  /\ UNCHANGED <<world, listed, gone>>

Got ==
  /\ At("get") /\ Len(s.lists) = Len(s.filtered)
  /\ s' = [s EXCEPT !.pc = IF Len(s.lists) = 0 THEN "done" ELSE "scan"]
  /\ UNCHANGED <<world, listed, gone>>

(* AddPoint of all the vectors of a list that are not deleted and not seen *)
(* before: the results are the best so far, in order.  The i-th is the one *)
(* that has i - 1 before it.                                               *)
Better(v, w) == Dist[v] < Dist[w] \/ (Dist[v] = Dist[w] /\ v < w)
Before(q, i, j) == Better(q[i], q[j]) \/ (q[i] = q[j] /\ i < j)
Place(q, i) == CHOOSE j \in DOMAIN q : Cardinality({k \in DOMAIN q : Before(q, k, j)}) = i - 1
Best(q) == [i \in 1..(IF Len(q) < TopK THEN Len(q) ELSE TopK) |-> q[Place(q, i)]]
AddPoints(result, vs) == Best(result \o SetToSeq(vs))

(* Bug: the results are replaced by those of the last posting. *)
ScanLast ==
  /\ At("scan")
  /\ LET list == s.lists[s.pi] \ dead IN
     s' = [s EXCEPT !.pc = "cache", !.live = Cardinality(list), !.seen = @ \cup list,
                    !.result = AddPoints(<<>>, list \ s.seen)]
  /\ UNCHANGED <<world, listed, gone>>

Scan ==
  /\ At("scan")
  /\ LET list == s.lists[s.pi] \ dead IN
     s' = [s EXCEPT !.pc = "cache", !.live = Cardinality(list), !.seen = @ \cup list,
                    !.result = AddPoints(@, list \ s.seen)]
  /\ UNCHANGED <<world, listed, gone>>

(* Then the vectors cached for the head at this place of the selection,    *)
(* not of the postings read, and the merge of that head if few vectors of  *)
(* the list are live.  Once a cache took too long, its rest is left out,   *)
(* and so are the caches after it.                                         *)
AfterCache == IF s.pi = Len(s.lists) THEN "done" ELSE "scan"

ScanCache ==
  /\ At("cache")
  /\ LET h == s.ids[s.pi] IN
     /\ \E list \in SUBSET (cache[h] \ dead) :
          /\ s.up => list = {}
          /\ s' = [s EXCEPT !.pc = AfterCache, !.pi = @ + 1, !.up = @ \/ list # cache[h] \ dead,
                            !.seen = @ \cup list, !.result = AddPoints(@, list \ s.seen)]
     /\ listed' = IF s.live <= Threshold THEN listed \cup {h} ELSE listed
  /\ UNCHANGED <<world, gone>>

Search == SearchHeads \/ Select \/ Selected \/ Filter \/ Filtered \/ MultiGet \/ Got \/ Scan \/ ScanCache
Updates ==
  \/ \E h \in Heads : (\E v \in Vectors : AppendVector(h, v)) \/ Split(h) \/ Drain(h) \/ (\E g \in Heads : Retire(h, g))
  \/ \E v \in Vectors : Delete(v)
Next == Search \/ Updates
Spec == Init /\ [][Next]_vars
FairSpec == Spec /\ WF_vars(Search)

-----------------------------------------------------------------------------
(* Every variable keeps its type. *)
TypeOK ==
  /\ posting \in [Heads -> SUBSET Vectors] /\ cache \in [Heads -> SUBSET Vectors]
  /\ size \in [Heads -> Nat] /\ status \in [Heads -> {"normal", "splitting", "deleted"}]
  /\ index \subseteq Heads /\ listed \subseteq Heads
  /\ dead \subseteq Vectors /\ moved \subseteq Vectors /\ gone \subseteq Vectors
  /\ s.result \in Seq(Vectors) /\ Len(s.result) <= TopK /\ s.ids \in Seq(Heads) /\ Len(s.lists) <= Len(s.ids)

(* A vector that several postings or a cache hold is reported once. *)
NoneTwice == IsInjective(s.result)

(* A vector whose deletion ended before the search began is not reported.  *)
DeletedNotReported == \A i \in DOMAIN s.result : s.result[i] \notin gone

(* A vector is reported, or as many better ones are. *)
Reported(v) == \/ \E i \in DOMAIN s.result : s.result[i] = v
               \/ Len(s.result) = TopK /\ \A i \in DOMAIN s.result : Better(s.result[i], v)
Stays == Vectors \ (moved \cup dead)

(* At its end a search has reported the best of the vectors that stayed    *)
(* untouched in the postings it selected and read in time, whatever went   *)
(* on with others and however many reads came too late.                    *)
InTime(h) == h \notin s.late
PostedReported ==
  At("done") => \A i \in DOMAIN s.ids : InTime(s.ids[i]) => \A v \in posting[s.ids[i]] \cap Stays : Reported(v)

(* The same of the vectors that wait in a cache, of a search in time.      *)
(* The code does not keep this: README, Disagreements.  No run checks it.  *)
CachedReported ==
  At("done") /\ ~s.up => \A i \in DOMAIN s.ids : \A v \in cache[s.ids[i]] \cap Stays : Reported(v)

(* The posting of the nearest head found is searched if its head stays, it *)
(* is not empty and its read does not come too late.                       *)
NearestSearched ==
  At("done") /\ InTime(s.found[1]) => \A v \in posting[s.found[1]] \cap Stays : s.found[1] \in index => Reported(v)

(* The search ends. *)
SearchEnds == At("select") ~> At("done")
=============================================================================
