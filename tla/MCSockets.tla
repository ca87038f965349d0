----------------------------- MODULE MCSockets -----------------------------
(***************************************************************************)
(* Instances of the socket layer and of the two services on it: one search *)
(* request in the aggregator, the table of connections, and the jobs of a  *)
(* client.  In a behaviour one of the parts moves.                         *)
(***************************************************************************)
EXTENDS Aggregation, TLC

CONSTANTS s1, s2, s3

VARIABLES
  part,  \* the part that moves
  refTargets, refToSend, refAdding, refCallbacks, refSent, refResponses,
  refCalls, refResults, refUnfinished, refReplies,
  nextId, count, isEmpty, held, connAdding, removing, running, beating, armed,
  pending, sending, failed, stopped, allStopped,
  beatNextId, beatCount, beatIsEmpty, beatHeld, beatAdding, beatRemoving,
  beatRunning, beatBeating, beatArmed, beatPending, beatSending, beatFailed,
  beatStopped, beatAllStopped,
  up, deaths, job, jobCallbacks, answers, jobCalls, called, jobUnfinished,
  isWaiting, lock, waiter, asked, hasty

(* A request to servers whose connections may fail.                         *)
R == INSTANCE Aggregation WITH
  Servers <- {"u1", "u2"}, NetworkFails <- TRUE, W <- 8, targets <-
  refTargets, toSend <- refToSend, adding <- refAdding, callbacks <-
  refCallbacks, sent <- refSent, responses <- refResponses, calls <- refCalls,
  results <- refResults, unfinished <- refUnfinished, replies <- refReplies
ASSUME R!AggregationAssumption

(* Two connections in slots of their own, each removed up to twice.        *)
C == INSTANCE Connections WITH
  PoolSize <- 2, MaxId <- 2, Adders <- {"a1", "a2"}, Sends <- {}, Heartbeat <-
  FALSE, MaxErrors <- 2, adding <- connAdding
ASSUME C!ConnectionsAssumption

(* The same in one slot, which the second connection takes again.          *)
U == INSTANCE Connections WITH
  PoolSize <- 1, MaxId <- 2, Adders <- {"a1", "a2"}, Sends <- {}, Heartbeat <-
  FALSE, MaxErrors <- 2, adding <- connAdding
ASSUME U!ConnectionsAssumption

(* One connection with a heartbeat and a packet to send.                   *)
H == INSTANCE Connections WITH
  PoolSize <- 1, MaxId <- 1, Adders <- {"a1"}, Sends <- {"s1"}, Heartbeat <-
  TRUE, MaxErrors <- 2, nextId <- beatNextId, count <- beatCount, isEmpty <-
  beatIsEmpty, held <- beatHeld, adding <- beatAdding, removing <-
  beatRemoving, running <- beatRunning, beating <- beatBeating, armed <-
  beatArmed, pending <- beatPending, sending <- beatSending, failed <-
  beatFailed, stopped <- beatStopped, allStopped <- beatAllStopped
ASSUME H!ConnectionsAssumption

(* Two queries over one connection that stays up.                         *)
J == INSTANCE ClientJobs WITH
  Jobs <- {"j1", "j2"}, Connections <- {"n1"}, MaxDeaths <- 0, NetworkFails <-
  FALSE, W <- 4, callbacks <- jobCallbacks, calls <- jobCalls, unfinished <-
  jobUnfinished
ASSUME J!ClientJobsAssumption

(* A query over a connection that may die with its answer.                 *)
L == INSTANCE ClientJobs WITH
  callbacks <- jobCallbacks, calls <- jobCalls, unfinished <- jobUnfinished,
  Jobs <- {"j1"}, Connections <- {"n1"}, MaxDeaths <- 1, NetworkFails <- TRUE,
  W <- 4
ASSUME L!ClientJobsAssumption

refusedVars == <<refTargets, refToSend, refAdding, refCallbacks, refSent, refResponses,
  refCalls, refResults, refUnfinished, refReplies>>
connectionsVars == <<nextId, count, isEmpty, held, connAdding, removing, running, beating, armed,
  pending, sending, failed, stopped, allStopped>>
heartbeatVars == <<beatNextId, beatCount, beatIsEmpty, beatHeld, beatAdding, beatRemoving,
  beatRunning, beatBeating, beatArmed, beatPending, beatSending, beatFailed,
  beatStopped, beatAllStopped>>
jobsVars == <<up, deaths, job, jobCallbacks, answers, jobCalls, called, jobUnfinished,
  isWaiting, lock, waiter, asked, hasty>>
Parts == {"aggregation", "refused", "connections", "reuse", "heartbeat", "jobs", "lost"}
allVars == <<part, vars, refusedVars, connectionsVars, heartbeatVars, jobsVars>>

(* The part that moves is chosen at the start; the others keep a first state. *)
FirstState ==
  /\ part \in Parts
  /\ Init
  /\ part # "aggregation" => targets = {}
  /\ R!Init
  /\ part # "refused" => refTargets = {}
  /\ IF part = "reuse" THEN U!Init ELSE C!Init
  /\ H!Init
  /\ IF part = "lost" THEN L!Init ELSE J!Init

AggregationMoves ==
  /\ part = "aggregation" /\ Next
  /\ UNCHANGED <<part, refusedVars, connectionsVars, heartbeatVars, jobsVars>>
RefusedMoves ==
  /\ part = "refused" /\ R!Next
  /\ UNCHANGED <<part, vars, connectionsVars, heartbeatVars, jobsVars>>
ConnectionsMoves ==
  /\ part = "connections" /\ C!Next
  /\ UNCHANGED <<part, vars, refusedVars, heartbeatVars, jobsVars>>
ReuseMoves ==
  /\ part = "reuse" /\ U!Next
  /\ UNCHANGED <<part, vars, refusedVars, heartbeatVars, jobsVars>>
HeartbeatMoves ==
  /\ part = "heartbeat" /\ H!Next
  /\ UNCHANGED <<part, vars, refusedVars, connectionsVars, jobsVars>>
JobsMoves ==
  /\ part = "jobs" /\ J!Next
  /\ UNCHANGED <<part, vars, refusedVars, connectionsVars, heartbeatVars>>
LostMoves ==
  /\ part = "lost" /\ L!Next
  /\ UNCHANGED <<part, vars, refusedVars, connectionsVars, heartbeatVars>>

OneMoves == AggregationMoves \/ RefusedMoves \/ ConnectionsMoves \/ ReuseMoves
  \/ HeartbeatMoves \/ JobsMoves \/ LostMoves

Behaviour == FirstState /\ [][OneMoves]_allVars
FairBehaviour ==
  /\ Behaviour
  /\ WF_refusedVars(part = "refused" /\ R!SendPacket)
  /\ WF_refusedVars(part = "refused" /\ \E c \in refCalls : R!Callback(c))
  /\ \A s \in {"u1", "u2"} :
       /\ WF_refusedVars(part = "refused" /\ R!AddCallback(s))
       /\ WF_refusedVars(part = "refused" /\ R!TimeOut(s))
  /\ WF_heartbeatVars(part = "heartbeat" /\ beatAdding["a1"] # H!Idle /\ H!Add("a1"))
  /\ WF_heartbeatVars(part = "heartbeat" /\ \E c \in beatRemoving : H!RemoveConnection(c))
  /\ WF_heartbeatVars(part = "heartbeat" /\ H!AsyncSend("s1"))
  /\ WF_heartbeatVars(part = "heartbeat" /\ H!Expire(1))
  /\ WF_heartbeatVars(part = "heartbeat" /\ H!HandleRead(1))
  /\ \A o \in H!Writes : WF_heartbeatVars(part = "heartbeat" /\ 1 \notin beatRunning /\ H!HandleWrite(1, o))
  /\ WF_jobsVars(part = "lost" /\ job["j1"] # "new" /\ L!SendQueryAsync("j1"))
  /\ WF_jobsVars(part = "lost" /\ L!TimeOut("j1"))
  /\ WF_jobsVars(part = "lost" /\ \E c \in jobCalls : L!Callback(c))
  /\ WF_jobsVars(part = "lost" /\ L!WaitAllFinished)
  /\ \A j \in {"j1", "j2"} :
       /\ WF_jobsVars(part = "jobs" /\ job[j] # "new" /\ J!SendQueryAsync(j))
       /\ WF_jobsVars(part = "jobs" /\ J!TimeOut(j))
  /\ WF_jobsVars(part = "jobs" /\ \E c \in jobCalls : J!Callback(c))
  /\ WF_jobsVars(part = "jobs" /\ J!WaitAllFinished)

(* The count of connections is the slots taken, also where slots are used  *)
(* again and removals come late or twice.  In a slot used once no running  *)
(* connection is out of its slot, RemoveConnection finds a connection to   *)
(* stop however often it is called, and stops only the one that failed.    *)
ConnectionsRight ==
  IF part = "reuse" THEN U!TypeOK /\ U!CountMatches
  ELSE C!TypeOK /\ C!CountMatches /\ C!NoneLost /\ C!FindsConnection /\ C!RemovesOwn

(* A query has its callback once, the count is of the queries not finished *)
(* and less those that timed out before it was raised; WaitAllFinished,    *)
(* unless woken for nothing or by such a count, returns after the queries  *)
(* sent before it.  All variables keep their types.                        *)
JobsRight ==
  /\ TypeOK
  /\ part = "jobs" => J!TypeOK /\ J!CalledOnce /\ J!CountMatches /\ J!WaitsForAll

(* A request to servers that stay silent or whose connections fail is      *)
(* answered: the timeout of each call sees to it.  A stopped connection     *)
(* comes to rest and a packet sent on it has its callback, although a      *)
(* heartbeat may start while it is being stopped.  The callback of a query *)
(* is run, also when its answer is lost, and no wake-up of WaitAllFinished *)
(* is lost.                                                                *)
AllAnswered ==
  /\ R!Replied
  /\ H!ComesToRest /\ H!SendEnds
  /\ part = "lost" => L!Answered
  /\ part = "jobs" => J!WaitEnds
=============================================================================
