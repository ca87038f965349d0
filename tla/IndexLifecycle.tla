--------------------------- MODULE IndexLifecycle ---------------------------
(***************************************************************************)
(* The life of a SPANN index on disk and in memory (src/Core/SPANN/        *)
(* SPANNIndex.cpp with the loading and saving parts of                     *)
(* ExtraDynamicSearcher.h): the stages of a build, which separate          *)
(* processes may run and any of which may die between two of them; the     *)
(* index opened again, by a build call that only enables the SSD index or  *)
(* from the files SaveIndex wrote; vectors added, removed and postings     *)
(* split meanwhile; and the two ways the index is saved.                   *)
(*                                                                         *)
(* Postings, heads and vectors are numbered from 1.  A copy of a vector in *)
(* a posting is <<id, serial>>: the identifier it was given, and which     *)
(* vector it really is.  A head is the point it stands at.  A vector has   *)
(* one copy, in the posting of the nearest head; replicas are in           *)
(* ReplicaSelection, and a split, one step here, in PostingUpdate.         *)
(***************************************************************************)
EXTENDS Integers, Sequences, FiniteSets, FiniteSetsExt, SequencesExt

CONSTANTS
  Base,         \* vectors of the vector file
  Point,        \* Point[s]: where vector s lies; the vectors behind Base are added later
  HeadSets,     \* the selections of heads SelectHead may make
  Calls,        \* the stages a build call is configured with
  Dynamic,      \* UseKV: the dynamic searcher; otherwise the static one
  ExcludeHead,  \* ExcludeHead
  PreReassign,  \* PreReassign
  Limit,        \* vectors a posting may hold before it is split
  Percent,      \* DeletePercentageForRefine of the head index
  Updates,      \* are vectors added and postings split?
  UbisSave,     \* does ConcurrentUpdate of UBIS.h save the head index at its end?
  MaxHeads,     \* bound on the heads ever made
  MaxRuns       \* bound on the processes started

LifecycleAssumption ==
  /\ Base \in Nat \ {0}
  /\ Len(Point) >= Base
  /\ \A H \in HeadSets : H # {} /\ H \subseteq 1..Base
  /\ Calls \subseteq [select : BOOLEAN, build : BOOLEAN, enable : BOOLEAN, ssd : BOOLEAN]
  /\ Limit \in Nat \ {0}

VARIABLES
  disk,   \* the files: head vectors, head ids, head index, loader, sizes, versions
  db,     \* the store: the postings, each with the point of the head it was written for
  mem,    \* the index object of the running process
  pc,     \* what the running process is doing
  call,   \* the stages its build call was given
  runs,   \* processes started
  serial, \* vectors given to the index so far
  saved,  \* what the last SaveIndex of this process returned
  unsaved,\* history: has memory changed since it was last saved?
  dropped,\* history: identifiers deleted from the index
  paired, \* history: were the head files last written by a selection and a build?
  built,  \* history: has the running process built the postings (BuildSsd)?
  half,   \* history: are the files those of a job that died half way?
  renumbered \* history: where the head index was compacted after the postings were
             \* written, "disk" or "mem"

vars ==
  <<disk, db, mem, pc, call, runs, serial, saved, unsaved, dropped, paired, built, half, renumbered>>

NoHead == [at |-> <<>>, gone |-> {}]

NoRows == [n |-> 0, gone |-> {}]

NoStages == [select |-> FALSE, build |-> FALSE, enable |-> FALSE, ssd |-> FALSE]

NoIndex == [head |-> NoHead, translate |-> <<>>, versions |-> NoRows, sizes |-> <<>>, ready |-> FALSE]

\* What a read behind the end of the translate map finds.
Junk == 0

Live(h) == DOMAIN h.at \ h.gone

Abs(x) == IF x < 0 THEN -x ELSE x

\* The posting a vector at x belongs to: that of the nearest head.
Home(h, x) ==
  CHOOSE p \in Live(h) : \A q \in Live(h) :
    \/ p = q
    \/ Abs(h.at[p] - x) < Abs(h.at[q] - x)
    \/ (Abs(h.at[p] - x) = Abs(h.at[q] - x) /\ p < q)

Posting(at, copies) == [of |-> at, has |-> copies]

Content(p) == IF p \in DOMAIN db THEN db[p].has ELSE {}

\* NeedRefine of the head index: more of its heads are deleted than the
\* configured share.
NeedRefine(h) == Cardinality(h.gone) * 100 > Len(h.at) * Percent

\* The compaction of RefineIndex: a head that lives keeps its number if that
\* number still exists; the holes are filled from the end.
Compacted(h) ==
  LET L     == Live(h)
      n     == Cardinality(L)
      holes == SetToSortSeq(1..n \ L, <)
      ends  == SetToSortSeq(L \ 1..n, >)
      From(i) == IF i \in L THEN i
                 ELSE ends[CHOOSE k \in DOMAIN holes : holes[k] = i]
  IN [at |-> [i \in 1..n |-> h.at[From(i)]], gone |-> {}]

\* SaveIndex of the head index, to the folder of the head index.
SavedHead(h) == IF NeedRefine(h) THEN Compacted(h) ELSE h

-----------------------------------------------------------------------------
(* The build stages.                                                       *)

\* A process makes an index object and calls BuildIndex with its stages.
Start(c) ==
  /\ pc = "none" /\ runs < MaxRuns
  /\ runs' = runs + 1 /\ call' = c /\ pc' = "select" /\ mem' = NoIndex
  /\ saved' = "none" /\ built' = FALSE
  /\ UNCHANGED <<disk, db, serial, unsaved, paired, half, dropped, renumbered>>

\* The two files of SelectHead: the vectors selected and their identifiers, in
\* the same order.
HeadFiles(d, ids) == [d EXCEPT !.headIds = ids, !.headVec = [i \in DOMAIN ids |-> Point[ids[i]]]]

\* SelectHead writes the head vectors and their identifiers.
SelectHead ==
  /\ pc = "select" /\ pc' = "build"
  /\ IF call.select
       THEN \E H \in HeadSets :
              /\ disk' = HeadFiles(disk, SetToSortSeq(H, <))
              /\ half' = TRUE /\ paired' = FALSE
       ELSE UNCHANGED <<disk, half, paired>>
  /\ UNCHANGED <<db, mem, call, runs, serial, unsaved, saved, dropped, built, renumbered>>

\* BuildHead makes the head index of the head vector file, saves it and loads
\* it back.
BuildHead ==
  /\ pc = "build"
  /\ \/ /\ ~call.build /\ pc' = "enable" /\ UNCHANGED <<disk, mem, paired>>
     \/ /\ call.build /\ disk.headVec = <<>> /\ pc' = "failed" /\ UNCHANGED <<disk, mem, paired>>
     \/ /\ call.build /\ disk.headVec # <<>> /\ pc' = "enable"
        /\ disk' = [disk EXCEPT !.head = [at |-> disk.headVec, gone |-> {}]]
        /\ mem' = [mem EXCEPT !.head = disk'.head]
        /\ paired' = TRUE
  /\ UNCHANGED <<db, call, runs, serial, unsaved, half, saved, dropped, built>>
  /\ renumbered' = IF pc' = "enable" /\ call.build THEN {} ELSE renumbered

\* An index object takes the numbers of the head index it loads.
Numbered == IF "disk" \in renumbered THEN {"disk", "mem"} ELSE {}

\* A save leaves the numbers of memory on the disk, or new ones.
SavedAs(new) == (renumbered \cap {"mem"}) \cup (IF new THEN {"disk"} ELSE {})

\* The head index is loaded if it was not built by this call.
EnableSsd ==
  /\ pc = "enable"
  /\ LET h == IF mem.head = NoHead THEN disk.head ELSE mem.head
     IN /\ pc' = IF ~call.enable THEN "finish"
                 ELSE IF h = NoHead THEN "failed"
                 ELSE IF call.ssd THEN "ssd" ELSE "load"
        /\ mem' = IF call.enable THEN [mem EXCEPT !.head = h] ELSE mem
  /\ UNCHANGED <<disk, db, call, runs, serial, unsaved, paired, half, saved, dropped, built>>
  /\ renumbered' = IF mem.head = NoHead /\ mem'.head # NoHead THEN Numbered ELSE renumbered

\* BuildIndex of the searcher: every vector whose identifier is not in the head
\* identifier file goes to the posting of its nearest head.  Postings of an
\* older index behind the last head stay in the store.
Written(h, excluded) ==
  LET n == Len(h.at)
  IN [p \in DOMAIN db \cup 1..n |->
        IF p \in 1..n
          THEN Posting(h.at[p], {<<v, v>> : v \in {w \in 1..Base \ excluded : Home(h, Point[w]) = p}})
          ELSE db[p]]

SizesOf(d, h) == [p \in DOMAIN h.at |-> Cardinality(d[p].has)]

BaseRows == [n |-> Base, gone |-> {}]

\* Without ExcludeHead the identifier file is removed first, so that no vector
\* is left out.
LeftOutAlways == disk.headIds
LeftOut == IF ExcludeHead THEN disk.headIds ELSE <<>>

\* The postings, the sizes and the version maps are made and saved.  The static
\* searcher implements no BuildIndex with a posting version map: the one it
\* inherits returns false.
BuildSsd ==
  /\ pc = "ssd"
  /\ LET ids == LeftOut
         d   == Written(mem.head, ToSet(ids))
     IN IF Dynamic
          THEN /\ db' = d /\ pc' = "load"
               /\ disk' = [disk EXCEPT !.headIds = ids, !.sizes = SizesOf(d, mem.head),
                                       !.versions = BaseRows]
               /\ mem' = [mem EXCEPT !.versions = BaseRows, !.sizes = SizesOf(d, mem.head)]
               /\ serial' = Base
          ELSE /\ disk' = [disk EXCEPT !.headIds = ids] /\ pc' = "failed"
               /\ UNCHANGED <<db, mem, serial>>
  /\ half' = TRUE /\ built' = Dynamic
  /\ UNCHANGED <<call, runs, unsaved, paired, saved, dropped>>
  /\ renumbered' = IF Dynamic THEN {} ELSE renumbered

\* What follows the load: with PreReassign the index is refined.
AfterLoad == IF PreReassign THEN "refine" ELSE "finish"

\* LoadIndex of the searcher, which reads the sizes and the version maps and
\* does not look at what reading them returned, and the translate map, which is
\* read from the head identifier file and must hold every head.
Opened(m) == [m EXCEPT !.versions = disk.versions, !.sizes = disk.sizes]

LoadSsd ==
  /\ pc = "load"
  /\ LET n == Len(mem.head.at)
     IN IF ~Dynamic \/ (ExcludeHead /\ Len(disk.headIds) < n)
          THEN pc' = "failed" /\ UNCHANGED mem
          ELSE /\ pc' = AfterLoad
               /\ mem' = [Opened(mem) EXCEPT !.translate =
                            IF ExcludeHead THEN SubSeq(disk.headIds, 1, n) ELSE <<>>]
  /\ UNCHANGED <<disk, db, call, runs, serial, unsaved, paired, half, saved, dropped, built, renumbered>>

\* A head index in which posting p has given way to two heads at a and b.
Halved(h, a, b, p) == [at |-> h.at \o <<a, b>>, gone |-> h.gone \cup {p}]

Spots(p) == {Point[c[2]] : c \in Content(p)}

\* A posting without a row in the size table (no SSD index was built) counts as
\* empty.
Oversized == {p \in Live(mem.head) \cap DOMAIN mem.sizes : mem.sizes[p] >= Limit}

\* The loop of RefineIndex (PreReassign): while a posting holds as many vectors
\* as the limit its head is split; then the head index is saved, compacted if
\* much of it is deleted, and all postings are built again.  The postings
\* are split by several threads; the order only decides the numbers.
Refine ==
  /\ pc = "refine"
  /\ LET big == Oversized
         Splits == {p \in big : Cardinality(Spots(p)) > 1}
         Grown == FoldSet(LAMBDA p, h : Halved(h, Min(Spots(p)), Max(Spots(p)), p), mem.head, Splits)
         d == Written(Grown, ToSet(disk.headIds))
     IN IF big = {}
          THEN pc' = "finish" /\ UNCHANGED <<disk, db, mem, serial, dropped>>
          ELSE /\ Len(Grown.at) <= MaxHeads
               /\ pc' = "refine" /\ db' = d
               /\ disk' = [disk EXCEPT !.head = SavedHead(Grown), !.sizes = SizesOf(d, Grown),
                                       !.versions = BaseRows]
               /\ mem' = [mem EXCEPT !.head = Grown, !.sizes = SizesOf(d, Grown),
                                     !.versions = BaseRows]
               /\ serial' = Base /\ dropped' = {}
  /\ UNCHANGED <<call, runs, unsaved, paired, half, saved, built>>
  /\ renumbered' = IF Oversized = {} THEN renumbered
                   ELSE IF NeedRefine(mem'.head) THEN {"disk"} ELSE {}

\* The call returns success.
Finish ==
  /\ pc = "finish" /\ pc' = "open"
  /\ mem' = [mem EXCEPT !.ready = TRUE]
  /\ half' = IF built /\ (paired \/ ~ExcludeHead) THEN FALSE ELSE half
  /\ unsaved' = FALSE /\ dropped' = IF built THEN {} ELSE dropped
  /\ UNCHANGED <<disk, db, call, runs, serial, paired, saved, built, renumbered>>

-----------------------------------------------------------------------------
(* Opening, updating and saving.                                           *)

\* LoadIndex from the folder SaveIndex wrote.
Open ==
  /\ pc = "none" /\ runs < MaxRuns /\ disk.loader /\ Dynamic /\ disk.head # NoHead
  /\ runs' = runs + 1 /\ call' = NoStages
  /\ LET n == Len(disk.head.at)
         m == [Opened(NoIndex) EXCEPT !.head = disk.head]
     IN IF ExcludeHead /\ Len(disk.headIds) < n
          THEN pc' = "failed" /\ UNCHANGED mem
          ELSE /\ pc' = AfterLoad
               /\ mem' = [m EXCEPT !.translate =
                            IF ExcludeHead THEN SubSeq(disk.headIds, 1, n) ELSE <<>>]
  /\ unsaved' = FALSE
  /\ saved' = "none" /\ built' = FALSE
  /\ UNCHANGED <<disk, db, serial, paired, half, dropped>>
  /\ renumbered' = Numbered

Serving == pc = "open" /\ mem.ready /\ mem.head # NoHead

\* AddIndex: the next row of the version map is the identifier; the vector goes
\* to the posting of its nearest head.
AddIndex ==
  /\ Serving /\ Updates /\ serial < Len(Point) /\ mem.versions.n > 0
  /\ LET id == mem.versions.n + 1
         s  == serial + 1
         p  == Home(mem.head, Point[s])
     IN /\ serial' = s
        /\ mem' = [mem EXCEPT !.versions.n = id,
                              !.sizes = IF p \in DOMAIN @ THEN [@ EXCEPT ![p] = @ + 1] ELSE @]
        /\ db' = [q \in DOMAIN db \cup {p} |->
                    IF q # p THEN db[q]
                    ELSE Posting(IF p \in DOMAIN db THEN db[p].of ELSE mem.head.at[p],
                                 Content(p) \cup {<<id, s>>})]
  /\ unsaved' = TRUE
  /\ saved' = "none"
  /\ UNCHANGED <<disk, pc, call, runs, paired, half, dropped, built, renumbered>>

\* A posting above the limit is split: its head is deleted, two heads are added.
Split(p) ==
  /\ Serving /\ Updates /\ p \in Live(mem.head) /\ Len(mem.head.at) + 2 <= MaxHeads
  /\ Cardinality(Content(p)) > Limit /\ Cardinality(Spots(p)) > 1
  /\ LET n == Len(mem.head.at)
         a == Min(Spots(p))
         b == Max(Spots(p))
         near == {c \in Content(p) : Abs(Point[c[2]] - a) <= Abs(Point[c[2]] - b)}
         far == Content(p) \ near
     IN /\ mem' = [mem EXCEPT !.head = Halved(@, a, b, p),
                              !.sizes = [q \in (DOMAIN @) \cup {p, n + 1, n + 2} |->
                                           CASE q = p -> 0
                                             [] q = n + 1 -> Cardinality(near)
                                             [] q = n + 2 -> Cardinality(far)
                                             [] OTHER -> mem.sizes[q]]]
        /\ db' = [q \in (DOMAIN db \ {p}) \cup {n + 1, n + 2} |->
                    CASE q = n + 1 -> Posting(a, near)
                      [] q = n + 2 -> Posting(b, far)
                      [] OTHER -> db[q]]
  /\ unsaved' = TRUE
  /\ UNCHANGED <<disk, pc, call, runs, serial, paired, half, saved, dropped, built, renumbered>>

\* DeleteIndex of an identifier.
Delete(v) ==
  /\ Serving /\ Updates /\ v \in 1..mem.versions.n \ mem.versions.gone
  /\ mem' = [mem EXCEPT !.versions.gone = @ \cup {v}]
  /\ unsaved' = TRUE /\ dropped' = dropped \cup {v}
  /\ saved' = "none"
  /\ UNCHANGED <<disk, db, pc, call, runs, serial, paired, half, built, renumbered>>

\* DeleteIndex of a vector deletes the first undeleted copy at its point that
\* SearchVector meets in the postings of the nearest heads.
Found(x) ==
  {c[1] : c \in {k \in UNION {Content(p) : p \in Live(mem.head)} :
                   Point[k[2]] = x /\ k[1] \notin mem.versions.gone}}

DeleteVector(x) == \E v \in Found(x) : Delete(v)

\* What SaveIndexData writes of the translate map: as many entries as there are
\* heads, also where the map has fewer.
Translated ==
  [i \in 1..Len(mem.head.at) |-> IF i \in DOMAIN mem.translate THEN mem.translate[i] ELSE Junk]

\* GetNumSamples of a SPANN index is the number of vectors not deleted.
Samples == mem.versions.n - Cardinality(mem.versions.gone)

\* The index is empty for SaveIndex if it has as many samples as deleted ones.
Empty == Samples - Cardinality(mem.versions.gone) = 0

\* SaveIndex: the loader file, the head index as it is, the translate map and
\* the version maps.  The sizes of the postings are not written.
Save ==
  /\ Serving /\ ~Empty
  /\ disk' = [disk EXCEPT !.loader = TRUE, !.head = mem.head, !.versions = mem.versions,
                          !.headIds = IF ExcludeHead THEN Translated ELSE @]
  /\ unsaved' = FALSE /\ saved' = "ok"
  /\ UNCHANGED <<db, mem, pc, call, runs, serial, paired, half, dropped, built>>
  /\ renumbered' = SavedAs("mem" \in renumbered)

\* SaveIndex of an index it takes for empty writes nothing.
SaveNothing ==
  /\ Serving /\ Empty
  /\ saved' = "empty"
  /\ UNCHANGED <<disk, db, mem, pc, call, runs, serial, unsaved, paired, half, dropped, built, renumbered>>

\* The end of ConcurrentUpdate in UBIS.h: the head index is saved on its own.
\* Where it is compacted, heads are selected among the heads and both head files
\* are overwritten with the selection.
SaveHead ==
  /\ Serving /\ UbisSave /\ Live(mem.head) # {}
  /\ IF NeedRefine(mem.head)
       THEN \E H \in (SUBSET (1..Cardinality(Live(mem.head)))) \ {{}} :
              LET h   == Compacted(mem.head)
                  ids == SetToSortSeq(H, <)
              IN disk' = [disk EXCEPT !.head = h, !.headIds = ids,
                                      !.headVec = [i \in DOMAIN ids |-> h.at[ids[i]]]]
       ELSE disk' = [disk EXCEPT !.head = mem.head]
  /\ UNCHANGED <<db, mem, pc, call, runs, serial, unsaved, paired, half, saved, dropped, built>>
  /\ renumbered' = SavedAs("mem" \in renumbered \/ NeedRefine(mem.head))

\* The process ends, in order or not: memory is lost, the files and the store
\* stay.
Close ==
  /\ pc # "none" /\ pc' = "none" /\ mem' = NoIndex
  /\ half' = (half \/ (pc = "open" /\ unsaved))
  /\ unsaved' = FALSE
  /\ saved' = "none"
  /\ UNCHANGED <<disk, db, call, runs, serial, paired, dropped, built>>
  /\ renumbered' = renumbered \ {"mem"}

-----------------------------------------------------------------------------
Init ==
  /\ disk = [headVec |-> <<>>, headIds |-> <<>>, head |-> NoHead, loader |-> FALSE,
             sizes |-> <<>>, versions |-> NoRows]
  /\ db = <<>> /\ mem = NoIndex
  /\ pc = "none" /\ call = NoStages
  /\ runs = 0 /\ serial = 0
  /\ saved = "none" /\ unsaved = FALSE /\ dropped = {} /\ paired = FALSE
  /\ built = FALSE /\ half = TRUE /\ renumbered = {}

Build == SelectHead \/ BuildHead \/ EnableSsd \/ BuildSsd \/ LoadSsd \/ Refine \/ Finish

Next ==
  \/ \E c \in Calls : Start(c)
  \/ Build \/ Open
  \/ AddIndex
  \/ \E p \in DOMAIN mem.head.at : Split(p)
  \/ \E v \in 1..mem.versions.n : Delete(v)
  \/ \E s \in 1..serial : DeleteVector(Point[s])
  \/ Save \/ SaveNothing \/ SaveHead \/ Close

Spec == Init /\ [][Next]_vars

\* A process that builds goes on building.
FairSpec == Spec /\ WF_vars(Build)

-----------------------------------------------------------------------------
(* Properties.                                                             *)

\* Every variable has its type.
TypeOK ==
  /\ DOMAIN disk = {"headVec", "headIds", "head", "loader", "sizes", "versions"}
  /\ DOMAIN mem = {"head", "translate", "versions", "sizes", "ready"}
  /\ \A p \in DOMAIN db : db[p].has \subseteq (1..Len(Point)) \X (1..Len(Point))
  /\ ToSet(disk.headIds) \subseteq 1..Len(Point) /\ dropped \subseteq 1..Len(Point)
  /\ pc \in {"none", "select", "build", "enable", "ssd", "load", "refine", "finish", "open", "failed"}
  /\ call \in [select : BOOLEAN, build : BOOLEAN, enable : BOOLEAN, ssd : BOOLEAN]
  /\ serial \in 0..Len(Point) /\ runs \in 0..MaxRuns
  /\ saved \in {"none", "ok", "empty"}
  /\ {unsaved, paired, built, half} \subseteq BOOLEAN /\ renumbered \subseteq {"disk", "mem"}

Whole == Serving /\ ~half /\ mem.versions.n > 0

\* The numbers of the heads are those the postings were written under.
InStep == Whole /\ "mem" \notin renumbered

Copies == UNION {Content(p) : p \in Live(mem.head)}

\* However the stages were shared between processes, and whichever died and were
\* run again, an index that is open over whole files holds every vector: in the
\* posting of a living head, or, with ExcludeHead, as a head (BuildIndexInternal
\* and BuildIndex of the dynamic searcher), unless the head index it was opened
\* from was compacted after the postings were written.
Complete ==
  InStep => \A s \in 1..serial :
             \/ \E c \in Copies : c[2] = s
             \/ ExcludeHead /\ \E i \in Live(mem.head) : mem.translate[i] = s

\* A head is translated to a vector that lies where the head does (the translate
\* map read back from the head identifier file).
TranslateRight ==
  (Whole /\ ExcludeHead) =>
    \A i \in Live(mem.head) : i \in DOMAIN mem.translate /\ Point[mem.translate[i]] = mem.head.at[i]

\* The posting of a living head is the one that was written for it: the head
\* index, wherever it was loaded from, and the store number the postings alike,
\* with the same exception.
HeadsName ==
  InStep => \A p \in Live(mem.head) : p \in DOMAIN db /\ db[p].of = mem.head.at[p]

\* The same of every index that is open over whole files.
\* The code does not keep this (SaveIndex and RefineIndex renumber the heads of a
\* head index with enough deleted ones): README, Disagreements.  No run checks it.
HeadsNameAlways ==
  Whole => \A p \in Live(mem.head) : p \in DOMAIN db /\ db[p].of = mem.head.at[p]

\* No two vectors go by one identifier, and every identifier in a posting has its
\* row in the version map (AddIndex gives the next row away; the store is
\* written at once and the version map only by SaveIndex).
IdsOnce ==
  Whole => \A c \in Copies : c[1] \in 1..mem.versions.n /\ \A k \in Copies : c[1] = k[1] => c = k

\* A vector deleted from the index is still deleted when the index is opened
\* again (the version map is written by SaveIndex and read by LoadIndex).
StaysDeleted == Whole => dropped \subseteq mem.versions.gone

\* The sizes in memory are those of the postings ("m_extraSearcher is the
\* controller that holds the disk data(postingSizes, postings' raw data,
\* vectors' version map)").
\* The code does not keep this: README, Disagreements.  No run checks it.
SizesMatch ==
  Whole => \A p \in Live(mem.head) : p \in DOMAIN mem.sizes /\ mem.sizes[p] = Cardinality(Content(p))

\* SaveIndex calls an index empty only if no vector of it is left ("if (!m_bReady ||
\* GetNumSamples() - GetNumDeleted() == 0) return ErrorCode::EmptyIndex").
\* The code does not keep this: README, Disagreements.  No run checks it.
EmptyOnly == [][(saved' = "empty" /\ mem.versions.n > 0) => 1..mem.versions.n = mem.versions.gone]_vars

\* A build with all its stages succeeds.
BuildSucceeds == (call.select /\ call.build /\ call.enable /\ call.ssd) => pc # "failed"

\* A build call comes to an end, the loop of RefineIndex included.
BuildEnds == pc = "select" ~> pc \in {"open", "failed", "none"}
=============================================================================
