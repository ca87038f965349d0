----------------------------- MODULE MCStorage -----------------------------
(***************************************************************************)
(* Instances of the block store and of the I/O below it.  In a behaviour   *)
(* one of the parts moves.                                                 *)
(***************************************************************************)
EXTENDS BlockStore, TLC

CONSTANTS a

VARIABLES
  part,  \* the part that moves
  reMapping, reList, reBuffer, reFree, reDisk, reOp,
  pgMapping, pgList, pgBuffer, pgFree, pgDisk, pgOp,
  sub, unused, inFlight, submitted, device, completed, ssd, ioDisk, call

One == {<<a>>}
FirstBuffer == Queue(CHOOSE b \in kSubset(BufferSize, Lists) : TRUE)
Sym == Permutations(Threads) \cup Permutations(Keys) \cup Permutations(Blocks) \cup Permutations(Lists)

(* The store of one thread, saved and loaded again.                        *)
R == INSTANCE BlockStore WITH
  Keys <- {"k", "m"}, Threads <- {"t"}, Records <- {a}, Blocks <- {"b"}, Lists
  <- {"l", "m", "n"}, PageSize <- 1, BlockLimit <- 2, BufferSize <- 1, Inputs
  <- One, Locking <- "all", Restarts <- TRUE, None <- "none", mapping <-
  reMapping, list <- reList, buffer <- reBuffer, free <- reFree, disk <-
  reDisk, op <- reOp
ASSUME R!StoreAssumption
ASSUME R!ValueAssumption

(* Values of up to two blocks of two records each: Merge rewrites a last    *)
(* block that is partly filled and keeps the full ones.                     *)
P == INSTANCE BlockStore WITH
  Keys <- {"k"}, Threads <- {"t"}, Records <- {a}, Blocks <- Blocks, Lists <-
  {"l", "m"}, PageSize <- 2, BlockLimit <- 3, BufferSize <- 1, Inputs <- One,
  Locking <- "all", Restarts <- FALSE, None <- "none", mapping <- pgMapping,
  list <- pgList, buffer <- pgBuffer, free <- pgFree, disk <- pgDisk, op <-
  pgOp
ASSUME P!StoreAssumption
ASSUME P!ValueAssumption

(* A reader of two postings and a writer, with two sub requests each; the   *)
(* device may refuse a request, and a read may give up.                     *)
I == INSTANCE BlockIo WITH
  Readers <- {"r"}, Writers <- {"w"}, Depth <- 2, Batch <- 2, Blocks <- {"b1",
  "b2", "b3"}, Requests <- {<<<<"b1", "b2">>, <<"b3">>>>}, Outputs <-
  {<<"b2">>}, NoMemory <- TRUE, TimeLimit <- TRUE, disk <- ioDisk
ASSUME I!IoAssumption

restartedVars == <<reMapping, reList, reBuffer, reFree, reDisk, reOp>>
pagedVars == <<pgMapping, pgList, pgBuffer, pgFree, pgDisk, pgOp>>
ioVars == <<sub, unused, inFlight, submitted, device, completed, ssd, ioDisk, call>>
Parts == {"store", "restarted", "paged", "io"}
allVars == <<part, vars, restartedVars, pagedVars, ioVars>>

(* The part that moves is chosen at the start; the others keep a first state. *)
FirstState ==
  /\ part \in Parts
  /\ Init
  /\ part # "store" => buffer = FirstBuffer
  /\ R!Init
  /\ part # "restarted" => reBuffer = Queue({"n"})
  /\ P!Init
  /\ part # "paged" => pgBuffer = Queue({"m"})
  /\ I!Init

StoreMoves ==
  /\ part = "store" /\ Next
  /\ UNCHANGED <<part, restartedVars, pagedVars, ioVars>>
RestartedMoves ==
  /\ part = "restarted" /\ R!Next
  /\ UNCHANGED <<part, vars, pagedVars, ioVars>>
PagedMoves ==
  /\ part = "paged" /\ P!Next
  /\ UNCHANGED <<part, vars, restartedVars, ioVars>>
IoMoves ==
  /\ part = "io" /\ I!Next
  /\ UNCHANGED <<part, vars, restartedVars, pagedVars>>

OneMoves == StoreMoves \/ RestartedMoves \/ PagedMoves \/ IoMoves

Behaviour == FirstState /\ [][OneMoves]_allVars

(* With values of more than one block, none of them partly filled but the  *)
(* last, blocks and lists are owned; a save and a load give every key a    *)
(* list of its own again.  The variables keep their types.                 *)
PagesRight ==
  /\ part = "paged" => P!TypeOK /\ P!BlocksOwned /\ P!ListsOwned
  /\ part = "restarted" => R!TypeOK /\ R!ListsOwned
  /\ TypeOK

(* A sub request is in one place, what a read returns of a posting are its *)
(* own blocks or nothing, and a write that returned is on the disk.        *)
IoRight == part = "io" => I!TypeOK /\ I!RequestsKept /\ I!ReadsOwnBlocks /\ I!WriteDone
=============================================================================
