---------------------------- MODULE MCLifecycle ----------------------------
(***************************************************************************)
(* Instances of the stages of a build and of the files an index is saved   *)
(* in: SPANN's build and save over several processes, an index saved in    *)
(* its forms, and the table of metadata.  In a behaviour one part moves.   *)
(***************************************************************************)
EXTENDS Integers, Sequences, FiniteSets, TLC

VARIABLES
  part,  \* the part that moves
  disk, db, mem, pc, call, runs, serial, saved, unsaved, dropped, paired,
  built, half, renumbered,
  index, forms, saving, merging, filesSerial, saves, tag, merged, asSaved,
  refused, grown,
  size, blocks, count, holder, newdata, adding, reading, metaSaving, metaDisk,
  tried, items, bounds, lost

(* Three vectors, a fourth added; the stages in two processes.             *)
All    == [select |-> TRUE, build |-> TRUE, enable |-> TRUE, ssd |-> TRUE]
Heads  == [select |-> TRUE, build |-> TRUE, enable |-> FALSE, ssd |-> FALSE]
Ssd    == [select |-> FALSE, build |-> FALSE, enable |-> TRUE, ssd |-> TRUE]
OpenIt == [select |-> FALSE, build |-> FALSE, enable |-> TRUE, ssd |-> FALSE]
Points == <<1, 4, 9, 5>>
L == INSTANCE IndexLifecycle WITH
  Dynamic <- TRUE, ExcludeHead <- FALSE, PreReassign <- FALSE, Limit <- 2,
  Percent <- 20, MaxHeads <- 5, Base <- 3, Point <- Points, HeadSets <- {{1,
  3}, {2, 3}}, Calls <- {All, Heads, Ssd, OpenIt}, Updates <- TRUE, UbisSave
  <- TRUE, MaxRuns <- 2
ASSUME L!LifecycleAssumption

(* The same with the heads excluded from the postings, nothing added.       *)
X == INSTANCE IndexLifecycle WITH
  Dynamic <- TRUE, ExcludeHead <- TRUE, PreReassign <- FALSE, Limit <- 2,
  Percent <- 20, MaxHeads <- 5, Base <- 4, Point <- Points, HeadSets <- {{1},
  {1, 3}, {2, 3}}, Calls <- {All, Heads, Ssd, OpenIt}, Updates <- FALSE,
  UbisSave <- FALSE, MaxRuns <- 4
ASSUME X!LifecycleAssumption

(* A build with PreReassign, which splits postings and builds again.        *)
P == INSTANCE IndexLifecycle WITH
  Dynamic <- TRUE, ExcludeHead <- FALSE, PreReassign <- TRUE, Limit <- 3,
  Percent <- 20, MaxHeads <- 5, Base <- 4, Point <- Points, HeadSets <- {{1},
  {1, 3}, {2, 3}}, Calls <- {All, OpenIt}, Updates <- FALSE, UbisSave <-
  FALSE, MaxRuns <- 3
ASSUME P!LifecycleAssumption

(* Three vectors with metadata of two, some added, maybe, during a save to *)
(* a folder or a file.                                                     *)
F == INSTANCE IndexFiles WITH
  Metas <- {"a", "b"}, Empty <- "none", Other <- <<>>, Capacity <- 9,
  Quantized <- TRUE, Forms <- {"folder", "file"}, Percent <- 30,
  Batch <- 2, MaxVectors <- 3, MaxSaves <- 2, serial <- filesSerial
ASSUME F!FilesAssumption

(* Another index is merged in, in blobs.                                    *)
OtherRows == <<[meta |-> "a", gone |-> FALSE], [meta |-> "b", gone |-> TRUE]>>
G == INSTANCE IndexFiles WITH
  serial <- filesSerial, Metas <- {"a", "b"}, Empty <- "none", Other <-
  OtherRows, Capacity <- 9, Quantized <- FALSE, Forms <- {"blobs"}, Percent <-
  30, Batch <- 1, MaxVectors <- 3, MaxSaves <- 1
ASSUME G!FilesAssumption

(* Four items, one without bytes, two of them added while a reader reads.  *)
M == INSTANCE MetadataTable WITH
  File <- FALSE, Size <- <<1, 2, 0, 1>>, Loaded <- 2, BlockSize <- 2, Capacity
  <- 5, Readers <- {"r1"}, MaxSaves <- 2, MaxCrashes <- 1, saving <- metaSaving, disk <- metaDisk
ASSUME M!MetadataAssumption

(* The same in a file.                                                     *)
T == INSTANCE MetadataTable WITH
  saving <- metaSaving, disk <- metaDisk, File <- TRUE, Size <- <<1, 2, 0,
  1>>, Loaded <- 2, BlockSize <- 2, Capacity <- 6, Readers <- {"r1"},
  MaxSaves <- 2, MaxCrashes <- 1
ASSUME T!MetadataAssumption

lifeVars == <<disk, db, mem, pc, call, runs, serial, saved, unsaved, dropped, paired,
  built, half, renumbered>>
filesVars == <<index, forms, saving, merging, filesSerial, saves, tag, merged, asSaved,
  refused, grown>>
memoryVars == <<size, blocks, count, holder, newdata, adding, reading, metaSaving, metaDisk,
  tried, items, bounds, lost>>
Parts == {"life", "excluded", "refined", "files", "merge", "memory", "file"}
allVars == <<part, lifeVars, filesVars, memoryVars>>

(* The part that moves is chosen at the start; the others keep a first state. *)
FirstState ==
  /\ part \in Parts
  /\ L!Init
  /\ IF part = "merge" THEN G!Init ELSE F!Init
  /\ M!Init

LifeMoves ==
  /\ part = "life" /\ L!Next
  /\ UNCHANGED <<part, filesVars, memoryVars>>
ExcludedMoves ==
  /\ part = "excluded" /\ X!Next
  /\ UNCHANGED <<part, filesVars, memoryVars>>
RefinedMoves ==
  /\ part = "refined" /\ P!Next
  /\ UNCHANGED <<part, filesVars, memoryVars>>
FilesMoves ==
  /\ part = "files" /\ F!Next
  /\ UNCHANGED <<part, lifeVars, memoryVars>>
MergeMoves ==
  /\ part = "merge" /\ G!Next
  /\ UNCHANGED <<part, lifeVars, memoryVars>>
MemoryMoves ==
  /\ part = "memory" /\ M!Next
  /\ UNCHANGED <<part, lifeVars, filesVars>>
FileMoves ==
  /\ part = "file" /\ T!Next
  /\ UNCHANGED <<part, lifeVars, filesVars>>

OneMoves == LifeMoves \/ ExcludedMoves \/ RefinedMoves \/ FilesMoves
  \/ MergeMoves \/ MemoryMoves \/ FileMoves

Behaviour == FirstState /\ [][OneMoves]_allVars
FairBehaviour ==
  /\ Behaviour
  /\ WF_lifeVars(part = "refined" /\ P!Build)

(* An index that opens is complete: its heads have the identifiers, the    *)
(* postings, sizes and versions of one build, whatever stages ran in which *)
(* process and wherever one ended, unless its head index was compacted     *)
(* after the postings were written.  Metadata stay with their vectors and   *)
(* the map leads from one to the other, through saves, refinements and     *)
(* merges, and what is written beside additions is tagged row by row; a    *)
(* merge adds every vector once.  A reader gets the metadata it asked for, *)
(* none is lost behind another, except those added while a file was        *)
(* written; a crash in a save leaves the pair of files of one save, in the *)
(* steps that replace them under their temporary names only.               *)
FilesRight ==
  /\ part = "life" =>
       L!TypeOK /\ L!Complete /\ L!HeadsName /\ L!IdsOnce
       /\ L!StaysDeleted /\ L!BuildSucceeds
  /\ part = "excluded" =>
       X!TypeOK /\ X!Complete /\ X!TranslateRight /\ X!HeadsName
  /\ part = "refined" => P!Complete /\ P!HeadsName
  /\ part = "files" => F!TypeOK /\ F!TagsStay /\ F!FormsTagged /\ F!MapLeads
  /\ part = "merge" => G!TagsStay /\ G!FormsTagged /\ G!MapLeads /\ G!MergedOnce
  /\ part = "memory" =>
       M!TypeOK /\ M!ReadRight /\ M!NoneBehind /\ M!NeverMixed
       /\ M!Recoverable
  /\ part = "file" =>
       T!TypeOK /\ T!ReadRight /\ T!NoneBehind /\ T!NeverMixed
       /\ T!Recoverable

(* Loading what was saved gives the index that was saved, where no vector  *)
(* was added between the two steps of the save.  A build that splits       *)
(* postings and builds again comes to an end.                              *)
RoundTrip ==
  /\ [][part = "files" =>
         \A f \in {"folder", "file"} \ grown.forms :
           (index' # index /\ F!Load(f)) => F!Holds(index') = asSaved[f]]_filesVars
  /\ part = "refined" => P!BuildEnds
=============================================================================
