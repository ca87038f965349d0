----------------------------- MODULE MCService -----------------------------
(***************************************************************************)
(* Instances of the background service: the pool of threads that runs the  *)
(* jobs of the updates, the driver that inserts batches and polls it, and  *)
(* the days of the steady-state experiment.  In a behaviour one of the     *)
(* parts moves.                                                            *)
(***************************************************************************)
EXTENDS ThreadPool, TLC

VARIABLES
  part,  \* the part that moves
  drPc, m, cur, insertCount, timeouts, notSearch, after, pauseFlag, mtx, sent,
  ins, row, begun, samples, inserted, jobs, polled, asked, srch, query, results,
  traces, current, reserve, truths, dayPc, day, mapping, vec, live, found,
  daySent, dayIns, at, deletes, del, inPlace, outputs, recall

(* One batch by two threads, with a search while it runs.                  *)
D == INSTANCE UpdateDriver WITH
  Inserters <- {"i1", "i2"}, Searchers <- {"s1"}, Splits <- <<1>>, StartNum <-
  0, Step <- 1, TerminateNum <- 5, InitialSamples <- 1, Streaming <- FALSE,
  SearchDuringUpdate <- TRUE, FinalCount <- 2, QueryLimit <- 2, MaxJobs <- 1,
  pc <- drPc
ASSUME D!UpdateDriverAssumption

(* Two batches, the second of two rows, and the search at the end; no jobs.  *)
B == INSTANCE UpdateDriver WITH
  pc <- drPc, Inserters <- {"i1", "i2"}, Searchers <- {"s1"}, Splits <- <<1,
  3>>, StartNum <- 0, Step <- 1, TerminateNum <- 1, InitialSamples <- 1,
  Streaming <- FALSE, SearchDuringUpdate <- TRUE, FinalCount <- 2, QueryLimit
  <- 2, MaxJobs <- 0
ASSUME B!UpdateDriverAssumption

(* Two batches streamed, with a search after each and two jobs.              *)
M == INSTANCE UpdateDriver WITH
  pc <- drPc, Inserters <- {"i1", "i2"}, Searchers <- {"s1", "s2"}, Splits <-
  <<1, 3>>, StartNum <- 0, Step <- 1, TerminateNum <- 1, InitialSamples <- 1,
  Streaming <- TRUE, SearchDuringUpdate <- FALSE, FinalCount <- 2, QueryLimit
  <- 2, MaxJobs <- 2
ASSUME M!UpdateDriverAssumption

(* Two days that exchange two of three rows for two of reserve; two rows   *)
(* are equally far from a query.                                           *)
Line == 0 :> 1 @@ 1 :> 3 @@ 2 :> 6 @@ 3 :> 5 @@ 4 :> 3
Y == INSTANCE UpdateDays WITH
  Value <- Line, QueryValue <- <<4, 0>>, BaseNum <- 3, ReserveNum <- 2,
  UpdateSize <- 2, Days <- 2, ResultNum <- 2, StressTest <- FALSE, Inserters
  <- {"i1", "i2"}, InternalResultNum <- 2, InPlace <- FALSE, ToFile <- FALSE,
  pc <- dayPc, sent <- daySent, ins <- dayIns
ASSUME Y!UpdateDaysAssumption

(* Two days that delete two rows and insert them again, results in a file.  *)
Z == INSTANCE UpdateDays WITH
  pc <- dayPc, sent <- daySent, ins <- dayIns, Value <- Line, QueryValue <-
  <<4, 0>>, BaseNum <- 3, ReserveNum <- 2, UpdateSize <- 2, Days <- 2,
  ResultNum <- 2, StressTest <- TRUE, Inserters <- {"i1", "i2"},
  InternalResultNum <- 2, InPlace <- FALSE, ToFile <- TRUE
ASSUME Z!UpdateDaysAssumption

driverVars == <<drPc, m, cur, insertCount, timeouts, notSearch, after, pauseFlag, mtx, sent,
  ins, row, begun, samples, inserted, jobs, polled, asked, srch, query, results>>
daysVars == <<traces, current, reserve, truths, dayPc, day, mapping, vec, live, found,
  daySent, dayIns, at, deletes, del, inPlace, outputs, recall>>
Parts == {"pool", "driver", "batches", "streamed", "days", "stress"}
allVars == <<part, vars, driverVars, daysVars>>

(* The part that moves is chosen at the start; the others keep a first state. *)
FirstState ==
  /\ part \in Parts
  /\ Init
  /\ \/ part \notin {"batches", "streamed"} /\ D!Init
     \/ part = "batches" /\ B!Init
     \/ part = "streamed" /\ M!Init
  /\ Y!Init

PoolMoves ==
  /\ part = "pool" /\ Next
  /\ UNCHANGED <<part, driverVars, daysVars>>
DriverMoves ==
  /\ part = "driver" /\ D!Next
  /\ UNCHANGED <<part, vars, daysVars>>
BatchesMoves ==
  /\ part = "batches" /\ B!Next
  /\ UNCHANGED <<part, vars, daysVars>>
StreamedMoves ==
  /\ part = "streamed" /\ M!Next
  /\ UNCHANGED <<part, vars, daysVars>>
DaysMoves ==
  /\ part = "days" /\ Y!Next
  /\ UNCHANGED <<part, vars, driverVars>>
StressMoves ==
  /\ part = "stress" /\ Z!Next
  /\ UNCHANGED <<part, vars, driverVars>>

OneMoves == PoolMoves \/ DriverMoves \/ BatchesMoves \/ StreamedMoves
  \/ DaysMoves \/ StressMoves

Behaviour == FirstState /\ [][OneMoves]_allVars
FairBehaviour ==
  /\ Behaviour
  /\ \A w \in Workers : WF_vars(part = "pool" /\ Work(w))
  /\ WF_vars(part = "pool" /\ (OwnerNotify \/ NotifyAll \/ Join))
  /\ SF_driverVars(part = "driver" /\ D!Drive) /\ WF_driverVars(part = "driver" /\ D!JobMoves)
  /\ \A i \in {"i1", "i2"} : SF_driverVars(part = "driver" /\ D!Insert(i))
  /\ WF_driverVars(part = "driver" /\ D!SearchSequential("s1"))

(* When a batch begins every earlier row was inserted once; a paused thread *)
(* begins one insert more; the last search sees all rows.  When a          *)
(* day is over the index holds the rows of the trace, each once, under the *)
(* identifier of the table; recall counts every true neighbour found, and  *)
(* once; merging is as configured again.                                   *)
BatchesRight ==
  /\ TypeOK
  /\ part = "batches" => B!TypeOK /\ B!BatchComplete /\ B!PauseHolds /\ B!SearchComplete
  /\ part = "streamed" => M!SearchComplete
  /\ part \in {"days", "stress"} =>
       /\ Y!TypeOK /\ Y!ListsApart /\ Y!RecallExact /\ Y!RecallHonest
       /\ Y!IndexIsList /\ Y!MergingAsSet

(* The poll of the driver does not fail for ever, and the driver ends: no  *)
(* thread sleeps through the end of a pause.                               *)
ServiceEnds == PollEnds /\ (part = "driver" => D!Ends)
=============================================================================
