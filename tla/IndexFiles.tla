----------------------------- MODULE IndexFiles -----------------------------
(***************************************************************************)
(* The rows of a BKT or KDT index, their metadata and the map from         *)
(* metadata to rows, and the three forms the index is saved in: a folder   *)
(* of files, one file, and blobs in memory (src/Core/VectorIndex.cpp with  *)
(* the row bookkeeping of src/Core/BKT/BKTIndex.cpp).  Vectors are added   *)
(* and deleted, by identifier or by metadata, another index is merged into *)
(* this one by several threads, and a save, which drops the deleted rows   *)
(* if there are many, reads metadata and rows in two steps.                *)
(*                                                                         *)
(* A row holds the serial number of its vector; rows are numbered from 1.  *)
(***************************************************************************)
EXTENDS Integers, Sequences, FiniteSets, FiniteSetsExt, SequencesExt, Functions

CONSTANTS
  Metas,       \* what vectors may be tagged with
  Empty,       \* the metadata without bytes
  Other,       \* the other index: a sequence of [meta, gone]
  Capacity,    \* DataCapacity
  Quantized,   \* has the index a quantizer?
  Forms,       \* the forms it may be saved in: "folder", "file", "blobs"
  Percent,     \* DeletePercentageForRefine
  Batch,       \* vectors of one call
  MaxVectors,  \* bound on the vectors ever given to the index
  MaxSaves     \* bound on saves

FilesAssumption ==
  /\ Empty \notin Metas /\ Capacity \in Nat \ {0}
  /\ Forms \subseteq {"folder", "file", "blobs"}
  /\ \A i \in DOMAIN Other : Other[i].meta \in Metas \cup {Empty}

VARIABLES
  index,    \* rows, metadata, deleted rows, map, quantizer
  forms,    \* what each form holds
  saving,   \* the save that is under way
  merging,  \* rows of Other still to be merged, and the result
  serial,   \* vectors given to the index so far
  saves,    \* saves so far
  tag,      \* history: the metadata each vector was given
  merged,   \* history: how often each row of Other was added by a merge
  asSaved,  \* history: for each form, what the index held when it was saved
  refused,  \* history: was a vector's metadata refused, and how many rows were there?
  grown     \* history: forms saved with vectors added between the two steps of the
            \* save, and whether the index was loaded from one

vars == <<index, forms, saving, merging, serial, saves, tag, merged, asSaved, refused, grown>>

None == [is |-> FALSE]

NoMap == <<>>

EmptyIndex == [rows |-> <<>>, meta |-> <<>>, gone |-> {}, mapped |-> FALSE, map |-> NoMap, quant |-> FALSE]

Ready == Len(index.rows) > 0

LiveRows(x) == DOMAIN x.rows \ x.gone

\* Room for Capacity vectors.
Room(x, n) == Len(x.rows) <= Capacity - n

NoSave == [form |-> "none"]

NoMerge == [todo |-> {}, ret |-> "none"]

\* What an index holds for its user: the vectors with their metadata, and the
\* quantizer.
Holds(x) == [rows |-> {<<x.rows[i], x.meta[i]>> : i \in LiveRows(x)}, quant |-> x.quant]

-----------------------------------------------------------------------------
(* Metadata and the map.                                                   *)

\* Adding to the metadata: refused when the offset table, which holds one entry
\* more than there are items, is full.
Tagged(meta, m) == IF Len(meta) + 1 > Capacity - 1 THEN meta ELSE Append(meta, m)

\* BuildMetaMapping: the last row with a metadata is the one it names.
MapOf(x, checkDeleted) ==
  LET seen == (IF checkDeleted THEN LiveRows(x) ELSE DOMAIN x.rows) \cap DOMAIN x.meta
  IN [m \in {x.meta[i] : i \in seen} |-> Max({i \in seen : x.meta[i] = m})]

\* UpdateMetaMapping: the row that had this metadata is deleted.
UpdatedMapNot(x, m, i) == [x EXCEPT !.map = [k \in {m} |-> i] @@ @]
UpdatedMap(x, m, i) ==
  [x EXCEPT !.gone = IF m \in DOMAIN x.map THEN @ \cup {x.map[m]} ELSE @,
            !.map = [k \in {m} |-> i] @@ @]

\* AddIndex of some vectors with these metadata (or none, WithMeta FALSE, when
\* each gets the empty one), after room was found for them.
Added(x, ss, ms, withMeta) ==
  LET begin == Len(x.rows)
      meta  == FoldLeft(LAMBDA d, m : Tagged(d, m), x.meta, ms)
      y     == [x EXCEPT !.rows = @ \o ss, !.meta = meta]
      names == {i \in begin + 1..begin + Len(ss) : x.mapped /\ withMeta /\ i <= Len(meta)}
  IN FoldLeft(LAMBDA z, i : UpdatedMap(z, meta[i], i), y, SetToSortSeq(names, <))

-----------------------------------------------------------------------------
(* The operations.                                                         *)

\* BuildIndex with a metadata set, with or without a map.
Build ==
  /\ ~Ready /\ serial = 0 /\ saving = NoSave
  /\ \E n \in 1..Batch, withMap \in BOOLEAN :
     \E ms \in [1..n -> Metas] :
       LET x == [EmptyIndex EXCEPT !.rows = [i \in 1..n |-> i], !.meta = ms, !.quant = Quantized]
       IN /\ IsInjective(ms)
          /\ n <= Capacity /\ serial' = n /\ tag' = ms
          /\ index' = IF withMap THEN [x EXCEPT !.mapped = TRUE, !.map = MapOf(x, FALSE)] ELSE x
  /\ UNCHANGED <<forms, saving, merging, saves, merged, asSaved, refused, grown>>

\* The two halves of AddIndex: no room for the vectors, or all are added.
AddsNothing(n) == ~Room(index, n)

AddIndex ==
  /\ Ready
  /\ \E n \in 1..Batch, withMeta \in BOOLEAN :
     \E ms \in [1..n -> IF withMeta THEN Metas ELSE {Empty}] :
       /\ serial + n <= MaxVectors /\ ~AddsNothing(n)
       /\ serial' = serial + n /\ tag' = tag \o ms
       /\ index' = Added(index, [i \in 1..n |-> serial + i], ms, withMeta)
  /\ refused' = IF Len(index'.meta) < Len(index'.rows)
                  THEN [is |-> TRUE, rows |-> Len(index'.rows)] ELSE refused
  /\ UNCHANGED <<forms, saving, merging, saves, merged, asSaved, grown>>

\* DeleteIndex of a row.
Delete(i) ==
  /\ Ready /\ i \in LiveRows(index)
  /\ index' = [index EXCEPT !.gone = @ \cup {i}]
  /\ UNCHANGED <<forms, saving, merging, serial, saves, tag, merged, asSaved, refused, grown>>

\* DeleteIndex of a metadata: the row it is mapped to.
DeleteMeta(m) == index.mapped /\ m \in DOMAIN index.map /\ Delete(index.map[m])

\* MergeIndex: each row of the other index that is not deleted is added by one of
\* the threads; what AddIndex returns is not looked at.
MergeStart ==
  /\ Ready /\ merging.ret # "running" /\ merged = <<>>
  /\ merging' = [todo |-> DOMAIN Other, ret |-> "running"]
  /\ merged' = [i \in DOMAIN Other |-> 0]
  /\ UNCHANGED <<index, forms, saving, serial, saves, tag, asSaved, refused, grown>>

Skips(i) == Other[i].gone

MergeRow(i) ==
  /\ merging.ret = "running" /\ i \in merging.todo
  /\ merging' = [merging EXCEPT !.todo = @ \ {i}]
  /\ IF Skips(i) \/ AddsNothing(1) \/ serial >= MaxVectors
       THEN UNCHANGED <<index, serial, tag, merged, refused, grown>>
       ELSE /\ serial' = serial + 1 /\ tag' = Append(tag, Other[i].meta)
            /\ index' = Added(index, <<serial + 1>>, <<Other[i].meta>>, TRUE)
            /\ merged' = [merged EXCEPT ![i] = @ + 1]
            /\ refused' = IF Len(index'.meta) < Len(index'.rows)
                            THEN [is |-> TRUE, rows |-> Len(index'.rows)] ELSE refused
  /\ UNCHANGED <<forms, saving, saves, asSaved, grown>>

\* An abort leaves out the rows no thread has begun.
MergeAbort ==
  /\ merging.ret = "running" /\ merging.todo # DOMAIN Other
  /\ merging' = [todo |-> {}, ret |-> "abort"]
  /\ UNCHANGED <<index, forms, saving, serial, saves, tag, merged, asSaved, refused, grown>>

MergeEnd ==
  /\ merging.ret = "running" /\ merging.todo = {}
  /\ merging' = [merging EXCEPT !.ret = "ok"]
  /\ UNCHANGED <<index, forms, saving, serial, saves, tag, merged, asSaved, refused, grown>>

-----------------------------------------------------------------------------
(* Refinement and saving.                                                  *)

\* The rows that are kept, in their new order: a living row keeps its number if
\* that number still exists; the holes are filled from the end.
IndicesHole(x) == SetToSortSeq(1..Cardinality(LiveRows(x)), <)
Indices(x) ==
  LET n     == Cardinality(LiveRows(x))
      holes == SetToSortSeq(1..n \ LiveRows(x), <)
      ends  == SetToSortSeq(LiveRows(x) \ 1..n, >)
  IN [i \in 1..n |-> IF i \in LiveRows(x) THEN i
                     ELSE ends[CHOOSE k \in DOMAIN holes : holes[k] = i]]

RefinedRows(x) == [k \in DOMAIN Indices(x) |-> x.rows[Indices(x)[k]]]

\* The metadata of the same rows, in the same order.
RefinedMeta(x) == [k \in DOMAIN Indices(x) |-> x.meta[Indices(x)[k]]]

NeedRefine == Cardinality(index.gone) > (Len(index.rows) * Percent) \div 100

\* RefineIndex to another index object, with a map of its own.
Refine ==
  /\ Ready /\ saving = NoSave /\ index.gone # {} /\ LiveRows(index) # {}
  /\ LET x == [index EXCEPT !.rows = RefinedRows(index), !.meta = RefinedMeta(index), !.gone = {}]
     IN index' = IF index.mapped THEN [x EXCEPT !.map = MapOf(x, FALSE)] ELSE x
  /\ UNCHANGED <<forms, saving, merging, serial, saves, tag, merged, asSaved, refused, grown>>

\* What a save leaves: the loader's sections, the rows with the deleted ones, the
\* metadata.
Form(loader, rows, meta, gone) == loader @@ [rows |-> rows, meta |-> meta, gone |-> gone]

\* SaveIndex begins: the loader with its sections.  An index to be refined is
\* written in one step, under its locks; otherwise the metadata are written
\* first and the rows afterwards, and in one file the other way round.  Only the
\* rows are written under the lock of AddIndex.
SaveBegin(f) ==
  /\ Ready /\ saving = NoSave /\ saves < MaxSaves
  /\ Len(index.rows) # Cardinality(index.gone)
  /\ saves' = saves + 1
  /\ asSaved' = [asSaved EXCEPT ![f] = Holds(index)]
  /\ LET loader == [is |-> TRUE, mapped |-> index.mapped, quant |-> index.quant]
     IN IF NeedRefine
          THEN /\ forms' = [forms EXCEPT ![f] =
                    Form(loader, RefinedRows(index), RefinedMeta(index), {})]
               /\ saving' = NoSave
          ELSE /\ saving' = [form |-> f, loader |-> loader, held |-> index]
               /\ forms' = [forms EXCEPT ![f] = None]
  /\ grown' = [grown EXCEPT !.forms = @ \ {f}]
  /\ UNCHANGED <<index, merging, serial, tag, merged, refused>>

\* The second half: what was written before, and the rest as it is now.
SaveRest ==
  /\ saving # NoSave
  /\ LET rows == IF saving.form = "file" THEN saving.held ELSE index
         meta == IF saving.form = "file" THEN index.meta ELSE saving.held.meta
     IN /\ forms' = [forms EXCEPT ![saving.form] =
              Form(saving.loader, rows.rows, meta, rows.gone)]
        /\ asSaved' = [asSaved EXCEPT ![saving.form] = Holds(rows)]
  /\ grown' = IF Len(index.rows) > Len(saving.held.rows)
                THEN [grown EXCEPT !.forms = @ \cup {saving.form}] ELSE grown
  /\ saving' = NoSave
  /\ UNCHANGED <<index, merging, serial, saves, tag, merged, refused>>

\* The quantizer follows the metadata in a folder and in a file.
QuantizerLoaded(f) == forms[f].quant /\ f # "blobs"

FromLoader(l) == l.mapped

\* Rows, deleted rows and metadata, read in the order they were written.
Unpacked(f) ==
  [rows |-> forms[f].rows, meta |-> forms[f].meta, gone |-> forms[f].gone,
   mapped |-> FromLoader(forms[f]), map |-> NoMap, quant |-> FALSE]

\* LoadIndex of a form.  From blobs the quantizer is looked for under a name that
\* SaveIndexConfig does not write, and is not loaded.
Load(f) ==
  /\ saving = NoSave /\ forms[f].is /\ merging.ret # "running"
  /\ LET x == [Unpacked(f) EXCEPT !.quant = QuantizerLoaded(f)]
     IN index' = IF x.mapped THEN [x EXCEPT !.map = MapOf(x, TRUE)] ELSE x
  /\ grown' = [grown EXCEPT !.index = f \in grown.forms]
  /\ UNCHANGED <<forms, saving, merging, serial, saves, tag, merged, asSaved, refused>>

-----------------------------------------------------------------------------
Init ==
  /\ index = EmptyIndex
  /\ forms = [f \in Forms |-> None]
  /\ saving = NoSave /\ merging = NoMerge
  /\ serial = 0 /\ saves = 0 /\ tag = <<>> /\ merged = <<>>
  /\ asSaved = [f \in Forms |-> None] /\ refused = None
  /\ grown = [forms |-> {}, index |-> FALSE]

\* An index with fewer or more metadata than rows, loaded from a form that grew
\* while it was saved, is not followed further.
Next ==
  /\ ~grown.index
  /\ \/ Build \/ AddIndex \/ Refine
     \/ \E i \in DOMAIN index.rows : Delete(i)
     \/ \E m \in Metas : DeleteMeta(m)
     \/ MergeStart \/ MergeAbort \/ MergeEnd
     \/ \E i \in DOMAIN Other : MergeRow(i)
     \/ \E f \in Forms : SaveBegin(f) \/ Load(f)
     \/ SaveRest

Spec == Init /\ [][Next]_vars

-----------------------------------------------------------------------------
\* Every variable has its type.
TypeOK ==
  /\ Range(index.rows) \subseteq 1..MaxVectors /\ Range(index.meta) \subseteq Metas \cup {Empty}
  /\ index.gone \subseteq DOMAIN index.rows /\ {index.mapped, index.quant} \subseteq BOOLEAN
  /\ DOMAIN index.map \subseteq Metas \cup {Empty}
  /\ \A m \in DOMAIN index.map : index.map[m] \in DOMAIN index.rows
  /\ saving.form \in Forms \cup {"none"} /\ merging.ret \in {"none", "running", "ok", "abort"}
  /\ Len(tag) = serial /\ serial \in 0..MaxVectors /\ saves \in 0..MaxSaves
  /\ grown.forms \subseteq Forms /\ grown.index \in BOOLEAN

\* Every row carries the metadata its vector was given, through additions,
\* refinements, saves and loads (samples and metadata are kept, compacted and
\* saved apart from each other), unless the index was loaded from a form that
\* grew while it was saved.
TagsStay ==
  ~grown.index =>
    /\ Len(index.meta) = Len(index.rows)
    /\ \A i \in DOMAIN index.rows : index.meta[i] = tag[index.rows[i]]

\* The metadata of a form are those of its rows, number by number, although they
\* are written apart and the lock of AddIndex is held for one of the two only;
\* there is one for each row unless vectors were added in between, of which a
\* folder then holds the vectors alone and a file the metadata alone.
FormsTagged ==
  \A f \in Forms : forms[f].is =>
    /\ \A i \in DOMAIN forms[f].rows \cap DOMAIN forms[f].meta :
         forms[f].meta[i] = tag[forms[f].rows[i]]
    /\ f \notin grown.forms => Len(forms[f].meta) = Len(forms[f].rows)

\* A save writes as many metadata as rows.
\* The code does not keep this: README, Disagreements.  No run checks it.
FormsWhole == \A f \in Forms : forms[f].is => Len(forms[f].meta) = Len(forms[f].rows)

\* The map leads from a metadata to a row that carries it, and where a living row
\* carries it, to the only living one (UpdateMetaMapping deletes the older vector;
\* RefineIndex and LoadIndex make the map anew).
MapLeads ==
  index.mapped /\ ~grown.index =>
    /\ \A m \in DOMAIN index.map : index.meta[index.map[m]] = m
    /\ \A m \in Metas : \A i \in LiveRows(index) :
         index.meta[i] = m => m \in DOMAIN index.map /\ index.map[m] = i

\* What is loaded from a form is what was saved to it: the vectors that were not
\* deleted, with their metadata, and the quantizer, unless vectors were added
\* between the two steps of the save.
RoundTrip ==
  [][\A f \in Forms \ grown.forms :
       (index' # index /\ Load(f)) => Holds(index') = asSaved[f]]_vars

\* After a merge that returned success every vector of the other index that was
\* not deleted was added once, unless there was no room.
MergedOnce ==
  merging.ret = "ok" /\ serial < MaxVectors =>
    \A i \in DOMAIN Other : merged[i] = IF Other[i].gone THEN 0 ELSE 1

\* Metadata are refused only where the vectors outgrow DataCapacity ("Insert
\* MetaIndex error! DataCapacity overflow!").
\* The code does not keep this: README, Disagreements.  No run checks it.
RefusedWhenFull == refused.is => refused.rows > Capacity
=============================================================================
