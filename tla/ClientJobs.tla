----------------------------- MODULE ClientJobs -----------------------------
(***************************************************************************)
(* ClientWrapper: queries sent over a few connections, each with a         *)
(* callback in the ResourceManager; a count of the queries that are not    *)
(* finished; WaitAllFinished, which sleeps until it is zero; and the event *)
(* of a dead connection, whose handler connects again until it succeeds.   *)
(***************************************************************************)
EXTENDS Integers, FiniteSets

CONSTANTS
  Jobs,          \* calls of SendQueryAsync
  Connections,   \* m_connections
  MaxDeaths,     \* bound: connections that die
  NetworkFails,  \* whether a send on a connection that is up may fail
  W              \* values of m_unfinishedJobCount, 2^32 in the code

ClientJobsAssumption ==
  /\ MaxDeaths \in Nat /\ W \in Nat /\ Cardinality(Jobs) < W
  /\ NetworkFails \in BOOLEAN

VARIABLES
  up,          \* connections with a valid identifier
  deaths,
  job,         \* of a job: not sent, callback added, counted, sent
  callbacks,   \* m_callbackManager: jobs whose callback is in it
  answers,     \* jobs whose answer is on its way
  calls,       \* callbacks that run: job, by whom, step
  called,      \* how often the callback of a job was run
  unfinished,  \* m_unfinishedJobCount
  isWaiting,   \* m_isWaitingFinish
  lock,        \* m_waitingMutex: free, the waiter, or a call
  waiter,      \* WaitAllFinished: its step
  asked,       \* the jobs sent before WaitAllFinished was called
  hasty        \* jobs that timed out before they were counted

vars == <<up, deaths, job, callbacks, answers, calls, called, unfinished, isWaiting, lock, waiter, asked, hasty>>
wait == <<isWaiting, lock, waiter, asked>>
Free == "free"
Waiter == "waiter"

Init ==
  /\ up = Connections /\ deaths = 0
  /\ job = [j \in Jobs |-> "new"]
  /\ callbacks = {} /\ answers = {} /\ calls = {}
  /\ called = [j \in Jobs |-> 0]
  /\ unfinished = 0 /\ isWaiting = FALSE
  /\ lock = Free /\ waiter = "idle" /\ asked = {} /\ hasty = {}

Call(j, by, pc) == [job |-> j, by |-> by, pc |-> pc]
Move(c, pc) == calls' = (calls \ {c}) \cup {[c EXCEPT !.pc = pc]}

-----------------------------------------------------------------------------
(* SendQueryAsync.                                                         *)
AddCallback(j) ==
  /\ job[j] = "new"
  /\ job' = [job EXCEPT ![j] = "added"]
  /\ callbacks' = callbacks \cup {j}
  /\ UNCHANGED <<up, deaths, answers, calls, called, unfinished, wait, hasty>>

CountUp(j) ==
  /\ job[j] = "added"
  /\ job' = [job EXCEPT ![j] = "counted"]
  /\ unfinished' = (unfinished + 1) % W
  /\ UNCHANGED <<up, deaths, callbacks, answers, calls, called, wait, hasty>>

(* GetConnection gives up on a valid connection after as many tries as     *)
(* there are connections; connectCallback runs the callback when the send  *)
(* fails, and then counts the job as finished.                             *)
SendPacket(j) ==
  /\ job[j] = "counted"
  /\ job' = [job EXCEPT ![j] = "sent"]
  /\ \/ up # {} /\ answers' = answers \cup {j} /\ calls' = calls
     \/ /\ NetworkFails \/ up # Connections
        /\ answers' = answers
        /\ calls' = calls \cup {Call(j, "send", "run")}
  /\ UNCHANGED <<up, deaths, callbacks, called, unfinished, wait, hasty>>

(* SearchResponseHanlder and the timeout, which counts before it calls.    *)
RespondKeeps(j) ==
  /\ j \in answers
  /\ answers' = answers \ {j}
  /\ calls' = IF j \in callbacks THEN calls \cup {Call(j, "answer", "run")} ELSE calls
  /\ UNCHANGED <<up, deaths, job, callbacks, called, unfinished, wait, hasty>>
Respond(j) ==
  /\ j \in answers
  /\ answers' = answers \ {j}
  /\ callbacks' = callbacks \ {j}
  /\ calls' = IF j \in callbacks THEN calls \cup {Call(j, "answer", "run")} ELSE calls
  /\ UNCHANGED <<up, deaths, job, called, unfinished, wait, hasty>>

TimeOut(j) ==
  /\ j \in callbacks
  /\ callbacks' = callbacks \ {j}
  /\ calls' = calls \cup {Call(j, "timeout", "count")}
  /\ hasty' = IF job[j] = "added" THEN hasty \cup {j} ELSE hasty
  /\ UNCHANGED <<up, deaths, job, answers, called, unfinished, wait>>

(* A callback is run, and DecreaseUnfnishedJobCount.                       *)
Run(c) ==
  /\ c.pc = "run"
  /\ called' = [called EXCEPT ![c.job] = @ + 1]
  /\ IF c.by = "timeout" THEN calls' = calls \ {c} ELSE Move(c, "count")
  /\ UNCHANGED <<up, deaths, job, callbacks, answers, unfinished, wait, hasty>>

Leave(c) == IF c.by = "timeout" THEN Move(c, "run") ELSE calls' = calls \ {c}

CountDown(c) ==
  /\ c.pc = "count"
  /\ unfinished' = (unfinished - 1) % W
  /\ Move(c, "test")
  /\ UNCHANGED <<up, deaths, job, callbacks, answers, called, wait, hasty>>

TestZero(c) ==
  /\ c.pc = "test"
  /\ IF unfinished = 0 THEN Move(c, "lock") ELSE Leave(c)
  /\ UNCHANGED <<up, deaths, job, callbacks, answers, called, unfinished, wait, hasty>>

(* Bug: the waiter is woken without the mutex. *)
WakeUnlocked(c) ==
  /\ c.pc = "lock"
  /\ IF unfinished = 0 /\ isWaiting
     THEN /\ isWaiting' = FALSE
          /\ waiter' = IF waiter = "asleep" THEN "woken" ELSE waiter
     ELSE UNCHANGED <<isWaiting, waiter>>
  /\ Leave(c)
  /\ UNCHANGED <<up, deaths, job, callbacks, answers, called, unfinished, lock, asked, hasty>>

(* With the mutex: the test again, and the waiter is woken.                *)
Wake(c) ==
  /\ c.pc = "lock" /\ lock = Free
  /\ IF unfinished = 0 /\ isWaiting
     THEN /\ isWaiting' = FALSE
          /\ waiter' = IF waiter = "asleep" THEN "woken" ELSE waiter
     ELSE UNCHANGED <<isWaiting, waiter>>
  /\ Leave(c)
  /\ UNCHANGED <<up, deaths, job, callbacks, answers, called, unfinished, lock, asked, hasty>>

-----------------------------------------------------------------------------
(* WaitAllFinished: two tests, the second with the mutex, and one wait.    *)
Wait ==
  /\ waiter = "idle"
  /\ asked' = {j \in Jobs : job[j] = "sent"}
  /\ waiter' = IF unfinished > 0 THEN "lock" ELSE "done"
  /\ UNCHANGED <<up, deaths, job, callbacks, answers, calls, called, unfinished, isWaiting, lock, hasty>>

LockWaiter ==
  /\ waiter = "lock" /\ lock = Free
  /\ lock' = Waiter
  /\ waiter' = "test"
  /\ UNCHANGED <<up, deaths, job, callbacks, answers, calls, called, unfinished, isWaiting, asked, hasty>>

TestWaiter ==
  /\ waiter = "test"
  /\ IF unfinished > 0
     THEN waiter' = "sleep" /\ UNCHANGED lock
     ELSE waiter' = "done" /\ lock' = Free
  /\ UNCHANGED <<up, deaths, job, callbacks, answers, calls, called, unfinished, isWaiting, asked, hasty>>

Sleep ==
  /\ waiter = "sleep"
  /\ isWaiting' = TRUE
  /\ waiter' = "asleep" /\ lock' = Free
  /\ UNCHANGED <<up, deaths, job, callbacks, answers, calls, called, unfinished, asked, hasty>>

(* The wait has no predicate: it may end without a notification.           *)
Spurious ==
  /\ waiter = "asleep" /\ lock = Free
  /\ waiter' = "early"
  /\ UNCHANGED <<up, deaths, job, callbacks, answers, calls, called, unfinished, isWaiting, lock, asked, hasty>>
Woken ==
  /\ waiter = "woken" /\ lock = Free
  /\ waiter' = "done"
  /\ UNCHANGED <<up, deaths, job, callbacks, answers, calls, called, unfinished, isWaiting, lock, asked, hasty>>

-----------------------------------------------------------------------------
(* HandleDeadConnection: the identifier is cleared, and ConnectToServer    *)
(* tried until it succeeds.                                                *)
Die(n) ==
  /\ n \in up /\ deaths < MaxDeaths
  /\ up' = up \ {n} /\ deaths' = deaths + 1
  /\ \E lost \in SUBSET answers : answers' = answers \ lost
  /\ UNCHANGED <<job, callbacks, calls, called, unfinished, wait, hasty>>

Reconnect(n) ==
  /\ n \notin up
  /\ up' = up \cup {n}
  /\ UNCHANGED <<deaths, job, callbacks, answers, calls, called, unfinished, wait, hasty>>

SendQueryAsync(j) == AddCallback(j) \/ CountUp(j) \/ SendPacket(j)
Callback(c) == Run(c) \/ CountDown(c) \/ TestZero(c) \/ Wake(c)
WaitAllFinished == LockWaiter \/ TestWaiter \/ Sleep \/ Woken

Next ==
  \/ \E j \in Jobs : SendQueryAsync(j) \/ Respond(j) \/ TimeOut(j)
  \/ \E c \in calls : Callback(c)
  \/ Wait \/ WaitAllFinished \/ Spurious
  \/ \E n \in Connections : Die(n) \/ Reconnect(n)

Spec == Init /\ [][Next]_vars

(* Threads in a call go on, and timeouts pass.                             *)
FairSpec ==
  /\ Spec
  /\ \A j \in Jobs : WF_vars(job[j] # "new" /\ SendQueryAsync(j)) /\ WF_vars(TimeOut(j))
  /\ WF_vars(\E c \in calls : Callback(c))
  /\ WF_vars(WaitAllFinished)

-----------------------------------------------------------------------------
TypeOK ==
  /\ up \subseteq Connections /\ deaths \in 0 .. MaxDeaths
  /\ job \in [Jobs -> {"new", "added", "counted", "sent"}]
  /\ callbacks \subseteq Jobs /\ answers \subseteq Jobs
  /\ calls \subseteq [job : Jobs, by : {"send", "answer", "timeout"}, pc : {"run", "count", "test", "lock"}]
  /\ called \in [Jobs -> 0 .. 2] /\ unfinished \in 0 .. W - 1
  /\ isWaiting \in BOOLEAN /\ lock \in {Free, Waiter}
  /\ waiter \in {"idle", "lock", "test", "sleep", "asleep", "woken", "done", "early"}
  /\ asked \subseteq Jobs /\ hasty \subseteq Jobs

(* WaitAllFinished, when it was not woken for nothing, returns when the    *)
(* jobs sent before it have been answered, failed or timed out.  A job     *)
(* that timed out before it was counted spoils the count.                  *)
WaitsForAll ==
  waiter = "done" /\ hasty = {} => \A j \in asked : called[j] > 0 \/ \E c \in calls : c.job = j

(* When WaitAllFinished returns, all jobs sent before it are finished.     *)
(* The code does not keep this: README, Disagreements.  No run checks it.  *)
WaitsInFull == waiter \in {"done", "early"} => \A j \in asked : called[j] > 0 \/ \E c \in calls : c.job = j

(* The callback of a query is run once.                                    *)
CalledOnce == \A j \in Jobs : called[j] <= 1

(* The count is the number of jobs counted and not finished, less those    *)
(* that finished before they were counted.                                 *)
Finishing(j) ==
  \/ j \in callbacks
  \/ \E c \in calls : c.job = j /\ (c.pc = "count" \/ (c.pc = "run" /\ c.by # "timeout"))
CountMatches ==
  unfinished = (Cardinality({j \in Jobs : job[j] \in {"counted", "sent"} /\ Finishing(j)})
                - Cardinality({j \in Jobs : job[j] = "added" /\ ~Finishing(j)})) % W

(* The callback of every query is run, also when the connection dies and   *)
(* its answer is lost.                                                     *)
Answered == \A j \in Jobs : (job[j] = "sent") ~> (called[j] > 0)

(* No wake-up is lost: WaitAllFinished returns, where each job finishes    *)
(* once and after it was counted.                                          *)
WaitEnds == (waiter = "lock") ~> (waiter \in {"done", "early"} \/ hasty # {})

=============================================================================
