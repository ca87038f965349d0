---------------------------- MODULE Aggregation ----------------------------
(***************************************************************************)
(* One search request in the aggregator: it is sent to every server that   *)
(* is connected, each with a callback in the ResourceManager, and answered *)
(* when the count of unfinished servers is used up.  The callback of a     *)
(* server is called by whoever takes it out of the ResourceManager, the    *)
(* response or the timeout; and, besides, by a send that fails.            *)
(***************************************************************************)
EXTENDS Integers, Sequences, FiniteSets, FiniteSetTheorems, TLAPS

CONSTANTS
  Servers,      \* the servers
  NetworkFails, \* whether a send may fail
  W             \* values of m_unfinishedCount, 2^32 in the code

(* There are fewer servers than the counter has values, and the string is  *)
(* no server.                                                              *)
ASSUME AggregationAssumption ==
  /\ NetworkFails \in BOOLEAN /\ W \in Nat \ {0}
  /\ IsFiniteSet(Servers) /\ Cardinality(Servers) < W
  /\ "nobody" \notin Servers

VARIABLES
  targets,     \* remoteServers: the servers the request goes to
  toSend,      \* the servers the loop has not come to
  adding,      \* the server whose callback is in and whose packet is not sent
  callbacks,   \* m_aggregatorCallbackManager: servers whose callback is in it
  sent,        \* servers the request has reached
  responses,   \* servers whose response has reached the aggregator
  calls,       \* callbacks that run: server, result, step
  results,     \* m_results
  unfinished,  \* m_unfinishedCount
  replies      \* the answers sent to the client: the results in each

vars == <<targets, toSend, adding, callbacks, sent, responses, calls, results, unfinished, replies>>

Nobody == "nobody"
Outcomes == {"Success", "FailedExecute", "Timeout", "FailedNetwork"}

(* SearchRequestHanlder: the servers connected at that moment.             *)
Init ==
  /\ targets \in SUBSET Servers
  /\ toSend = targets /\ adding = Nobody
  /\ callbacks = {} /\ sent = {} /\ responses = {} /\ calls = {}
  /\ results = [s \in Servers |-> "none"]
  /\ unfinished = Cardinality(targets)
  /\ replies = <<>>

Run(s, outcome) == calls' = calls \cup {[server |-> s, outcome |-> outcome, pc |-> "store"]}

AddCallback(s) ==
  /\ s \in toSend /\ adding = Nobody
  /\ toSend' = toSend \ {s} /\ adding' = s
  /\ callbacks' = callbacks \cup {s}
  /\ UNCHANGED <<targets, sent, responses, calls, results, unfinished, replies>>

(* SendPacket: connectCallback calls the callback when the send fails.     *)
SendPacket ==
  /\ adding # Nobody
  /\ adding' = Nobody
  /\ \/ /\ sent' = sent \cup {adding}
        /\ calls' = calls
     \/ /\ NetworkFails
        /\ Run(adding, "FailedNetwork")
        /\ sent' = sent
  /\ UNCHANGED <<targets, toSend, callbacks, responses, results, unfinished, replies>>

(* A server answers, or does not.                                          *)
Answer(s) ==
  /\ s \in sent
  /\ sent' = sent \ {s}
  /\ responses' = responses \cup {s}
  /\ UNCHANGED <<targets, toSend, adding, callbacks, calls, results, unfinished, replies>>

SearchResponseHanlderKeeps(s) ==
  /\ s \in responses
  /\ responses' = responses \ {s}
  /\ \E outcome \in {"Success", "FailedExecute"} :
       IF s \in callbacks THEN Run(s, outcome) ELSE calls' = calls
  /\ UNCHANGED <<targets, toSend, adding, callbacks, sent, results, unfinished, replies>>
SearchResponseHanlder(s) ==
  /\ s \in responses
  /\ responses' = responses \ {s}
  /\ callbacks' = callbacks \ {s}
  /\ \E outcome \in {"Success", "FailedExecute"} :
       IF s \in callbacks THEN Run(s, outcome) ELSE calls' = calls
  /\ UNCHANGED <<targets, toSend, adding, sent, results, unfinished, replies>>

TimeOutSilent(s) ==
  /\ s \in callbacks
  /\ callbacks' = callbacks \ {s}
  /\ UNCHANGED <<targets, toSend, adding, sent, responses, calls, results, unfinished, replies>>
TimeOut(s) ==
  /\ s \in callbacks
  /\ callbacks' = callbacks \ {s}
  /\ Run(s, "Timeout")
  /\ UNCHANGED <<targets, toSend, adding, sent, responses, results, unfinished, replies>>

(* The callback: the result is stored, the count goes down, and the call   *)
(* that finds it at the last one makes the answer.                         *)
Move(c, pc) == calls' = (calls \ {c}) \cup {[c EXCEPT !.pc = pc]}

Store(c) ==
  /\ c.pc = "store"
  /\ results' = [results EXCEPT ![c.server] = c.outcome]
  /\ Move(c, "count")
  /\ UNCHANGED <<targets, toSend, adding, callbacks, sent, responses, unfinished, replies>>

IsCompletedEarly(last) == last <= 2
IsCompletedAfterFinsh(last) == last <= 1

Finish(c) ==
  /\ c.pc = "count"
  /\ unfinished' = (unfinished - 1) % W
  /\ IF IsCompletedAfterFinsh(unfinished) THEN Move(c, "reply") ELSE calls' = calls \ {c}
  /\ UNCHANGED <<targets, toSend, adding, callbacks, sent, responses, results, replies>>

AggregateResults(c) ==
  /\ c.pc = "reply"
  /\ replies' = Append(replies, results)
  /\ calls' = calls \ {c}
  /\ UNCHANGED <<targets, toSend, adding, callbacks, sent, responses, results, unfinished>>

Callback(c) == Store(c) \/ Finish(c) \/ AggregateResults(c)

Next ==
  \/ SendPacket
  \/ \E s \in Servers : AddCallback(s) \/ Answer(s) \/ SearchResponseHanlder(s) \/ TimeOut(s)
  \/ \E c \in calls : Callback(c)

Spec == Init /\ [][Next]_vars

(* The threads of the pool and the timeout thread go on; servers need not. *)
FairSpec ==
  /\ Spec
  /\ WF_vars(SendPacket) /\ WF_vars(\E c \in calls : Callback(c))
  /\ \A s \in Servers : WF_vars(AddCallback(s)) /\ WF_vars(TimeOut(s))

-----------------------------------------------------------------------------
TypeOK ==
  /\ targets \subseteq Servers /\ toSend \subseteq targets /\ adding \in targets \cup {Nobody}
  /\ callbacks \subseteq targets /\ sent \subseteq targets /\ responses \subseteq targets
  /\ calls \subseteq [server : targets, outcome : Outcomes, pc : {"store", "count", "reply"}]
  /\ results \in [Servers -> Outcomes \cup {"none"}]
  /\ unfinished \in 0 .. W - 1
  /\ replies \in Seq([Servers -> Outcomes \cup {"none"}])

(* The client is answered once.                                            *)
RepliesOnce == Len(replies) <= 1

(* The answer is made when every server it was asked of has answered,      *)
(* failed or timed out.                                                    *)
WaitsForAll == \A i \in 1 .. Len(replies) : \A s \in targets : replies[i][s] # "none"

(* What a server found is in the answer, unless it came after its timeout: *)
(* no later call replaces a result.                                        *)
ResultsStay == [][\A s \in Servers : results[s] # "none" => results'[s] = results[s]]_vars

(* Whatever the servers do, a request that goes to some server is answered. *)
Replied == targets # {} ~> replies # <<>>

-----------------------------------------------------------------------------
(* A request is answered at most once, and from whole results, for any     *)
(* number of servers, as long as no send fails.  With sends that fail      *)
(* neither holds (README, Disagreements).                                  *)

Running == {c \in calls : c.pc \in {"store", "count"}}
Storing == {c \in calls : c.pc = "store"}

(* The servers that still count: not sent to, waited for, or in a callback *)
(* that has not counted yet.                                               *)
Open == toSend \cup callbacks \cup {c.server : c \in Running}

(* A server is in one of these places at a time.                           *)
OnePlace ==
  /\ toSend \cap callbacks = {}
  /\ \A c \in calls : c.server \notin toSend \cup callbacks
  /\ \A c, d \in calls : c.server = d.server => c = d

Counting == unfinished = Cardinality(Open)

(* The results there are: of the servers whose callback has stored one.    *)
Stored == \A s \in targets :
  results[s] = "none" <=> s \in toSend \cup callbacks \cup {c.server : c \in Storing}

(* The answer is made when nothing is open any more, and then nothing runs. *)
Answering ==
  /\ \A c \in calls : c.pc = "reply" => Open = {} /\ calls = {c} /\ replies = << >>
  /\ replies # << >> => Open = {} /\ calls = {} /\ Len(replies) = 1
  /\ WaitsForAll

Safe == TypeOK /\ OnePlace /\ Counting /\ Stored /\ Answering

-----------------------------------------------------------------------------
LEMMA SafeInit == Init => Safe
<1> SUFFICES ASSUME Init PROVE Safe
  OBVIOUS
<1>1. IsFiniteSet(targets) /\ Cardinality(targets) \in Nat /\ Cardinality(targets) <= Cardinality(Servers)
  BY FS_Subset, FS_CardinalityType, AggregationAssumption DEF Init
<1>2. TypeOK
  BY <1>1, AggregationAssumption, FS_CardinalityType DEF Init, TypeOK
<1>3. Open = targets
  BY DEF Init, Open, Running
<1>4. OnePlace /\ Counting /\ Stored /\ Answering
  BY <1>3 DEF Init, OnePlace, Counting, Stored, Storing, Answering, WaitsForAll
<1>5. QED BY <1>2, <1>4 DEF Safe

(* What is open is a set of servers the request went to. *)
LEMMA OpenFinite ==
  ASSUME TypeOK
  PROVE  Open \subseteq targets /\ IsFiniteSet(Open) /\ Cardinality(Open) \in Nat
<1>1. Open \subseteq targets
  BY DEF TypeOK, Open, Running
<1>2. IsFiniteSet(targets)
  BY FS_Subset, AggregationAssumption DEF TypeOK
<1>3. QED BY <1>1, <1>2, FS_Subset, FS_CardinalityType

(* The loop over the servers; with no failing send a packet reaches its    *)
(* server and nothing else changes.                                        *)
LEMMA AddCallbackSafe ==
  ASSUME Safe, NEW s \in Servers, AddCallback(s)
  PROVE  Safe'
<1> USE DEF Safe
<1>1. TypeOK'
  BY DEF TypeOK, AddCallback
<1>2. Open' = Open
  BY DEF AddCallback, Open, Running
<1>3. OnePlace' /\ Counting'
  BY <1>2 DEF OnePlace, Counting, AddCallback
<1>4. Stored' /\ Answering'
  BY <1>2 DEF Stored, Storing, Answering, WaitsForAll, AddCallback
<1>5. QED BY <1>1, <1>3, <1>4

LEMMA SendPacketSafe ==
  ASSUME Safe, NetworkFails = FALSE, SendPacket
  PROVE  Safe'
<1> USE DEF Safe
<1>1. TypeOK'
  BY DEF TypeOK, SendPacket
<1>2. Open' = Open
  BY DEF SendPacket, Open, Running
<1>3. OnePlace' /\ Counting'
  BY <1>2 DEF OnePlace, Counting, SendPacket
<1>4. Stored' /\ Answering'
  BY <1>2 DEF Stored, Storing, Answering, WaitsForAll, SendPacket
<1>5. QED BY <1>1, <1>3, <1>4

LEMMA AnswerSafe ==
  ASSUME Safe, NEW s \in Servers, Answer(s)
  PROVE  Safe'
<1> USE DEF Safe
<1>1. TypeOK'
  BY DEF TypeOK, Answer
<1>2. Open' = Open
  BY DEF Answer, Open, Running
<1>3. OnePlace' /\ Counting'
  BY <1>2 DEF OnePlace, Counting, Answer
<1>4. Stored' /\ Answering'
  BY <1>2 DEF Stored, Storing, Answering, WaitsForAll, Answer
<1>5. QED BY <1>1, <1>3, <1>4

(* Whoever takes the callback of a server out of the ResourceManager runs  *)
(* it: the server stays open, and nothing has been answered yet.           *)
LEMMA TakenSafe ==
  ASSUME Safe, NEW s \in callbacks, NEW outcome \in Outcomes, Run(s, outcome),
         callbacks' = callbacks \ {s}, responses' \subseteq responses,
         UNCHANGED <<targets, toSend, adding, sent, results, unfinished, replies>>
  PROVE  Safe'
<1> USE DEF Safe
<1> DEFINE new == [server |-> s, outcome |-> outcome, pc |-> "store"]
<1>1. calls' = calls \cup {new} /\ new.server = s /\ new.pc = "store"
  BY DEF Run
<1>2. TypeOK'
  BY <1>1 DEF TypeOK
<1>3. Running' = Running \cup {new} /\ Storing' = Storing \cup {new}
  BY <1>1 DEF Running, Storing
<1>4. Open' = Open /\ s \in Open
  BY <1>1, <1>3 DEF Open
<1>5. OnePlace' /\ Counting'
  BY <1>1, <1>4 DEF OnePlace, Counting
<1>6. Stored'
  BY <1>1, <1>3 DEF Stored
<1>7. Answering'
  BY <1>1, <1>4 DEF Answering, WaitsForAll
<1>8. QED BY <1>2, <1>5, <1>6, <1>7

LEMMA SearchResponseHanlderSafe ==
  ASSUME Safe, NEW s \in Servers, SearchResponseHanlder(s)
  PROVE  Safe'
<1>1. CASE s \in callbacks
  <2>1. PICK outcome \in {"Success", "FailedExecute"} : Run(s, outcome)
    BY <1>1 DEF SearchResponseHanlder
  <2>2. QED BY <1>1, <2>1, TakenSafe DEF SearchResponseHanlder, Outcomes
<1>2. CASE s \notin callbacks
  <2>1. UNCHANGED <<targets, toSend, adding, callbacks, sent, calls, results, unfinished, replies>>
    BY <1>2 DEF SearchResponseHanlder, Safe, TypeOK
  <2>2. TypeOK'
    BY <2>1 DEF SearchResponseHanlder, Safe, TypeOK
  <2>3. QED
    BY <2>1, <2>2 DEF Safe, OnePlace, Counting, Stored, Storing, Answering, WaitsForAll, Open, Running
<1>3. QED BY <1>1, <1>2

LEMMA TimeOutSafe ==
  ASSUME Safe, NEW s \in Servers, TimeOut(s)
  PROVE  Safe'
BY TakenSafe DEF TimeOut, Outcomes


(* The steps of a callback.  A result that is stored was not there before. *)
LEMMA StoreSafe ==
  ASSUME Safe, NEW c \in calls, Store(c)
  PROVE  Safe' /\ results[c.server] = "none"
<1> USE DEF Safe
<1> DEFINE new == [c EXCEPT !.pc = "count"]
<1>1. /\ c \in [server : targets, outcome : Outcomes, pc : {"store", "count", "reply"}]
      /\ c.pc = "store"
      /\ new = [server |-> c.server, outcome |-> c.outcome, pc |-> "count"]
      /\ calls' = (calls \ {c}) \cup {new}
  BY DEF Store, Move, TypeOK
<1>2. TypeOK'
  BY <1>1 DEF TypeOK, Store
<1>3. Running' = (Running \ {c}) \cup {new} /\ Storing' = Storing \ {c} /\ c \in Running /\ c \in Storing
  BY <1>1 DEF Running, Storing
<1>4. Open' = Open /\ c.server \in Open
  BY <1>1, <1>3 DEF Open, Store
<1>5. OnePlace' /\ Counting'
  BY <1>1, <1>4 DEF OnePlace, Counting, Store
<1>6. results[c.server] = "none"
  BY <1>1, <1>3 DEF Stored, TypeOK
<1>7. Stored'
  <2> SUFFICES ASSUME NEW s \in targets
               PROVE  results'[s] = "none" <=> s \in toSend \cup callbacks \cup {d.server : d \in Storing'}
    BY DEF Stored, Store
  <2>1. CASE s = c.server
    <3>1. results'[s] # "none"
      BY <2>1, <1>1 DEF Store, TypeOK, Outcomes
    <3>2. s \notin toSend \cup callbacks \cup {d.server : d \in Storing'}
      BY <2>1, <1>3 DEF OnePlace, Storing
    <3>3. QED BY <3>1, <3>2
  <2>2. CASE s # c.server
    BY <2>2, <1>3 DEF Stored, Store, TypeOK
  <2>3. QED BY <2>1, <2>2
<1>8. Answering'
  BY <1>1, <1>4 DEF Answering, WaitsForAll, Store
<1>9. QED BY <1>2, <1>5, <1>6, <1>7, <1>8

(* The counter goes down with the set of open servers, and does not pass   *)
(* zero.                                                                   *)
LEMMA CountedDown ==
  ASSUME NEW n \in 1 .. W - 1
  PROVE  (n - 1) % W = n - 1 /\ n - 1 \in 0 .. W - 1
BY AggregationAssumption

LEMMA FinishSafe ==
  ASSUME Safe, NEW c \in calls, Finish(c)
  PROVE  Safe'
<1> USE DEF Safe
<1> DEFINE new == [c EXCEPT !.pc = "reply"]
<1>1. /\ c \in [server : targets, outcome : Outcomes, pc : {"store", "count", "reply"}]
      /\ c.pc = "count"
      /\ new = [server |-> c.server, outcome |-> c.outcome, pc |-> "reply"]
  BY DEF Finish, TypeOK
<1>2. c \in Running /\ c \notin Storing /\ c.server \in Open
  BY <1>1 DEF Running, Storing, Open
<1>3. /\ IsFiniteSet(Open) /\ Open # {}
      /\ Cardinality(Open \ {c.server}) = Cardinality(Open) - 1
      /\ Cardinality(Open) \in Nat \ {0}
      /\ (Cardinality(Open) = 1 => Open = {c.server})
  <2>1. IsFiniteSet(Open) /\ Cardinality(Open) \in Nat
    BY OpenFinite
  <2>2. Cardinality(Open \ {c.server}) = Cardinality(Open) - 1 /\ IsFiniteSet(Open \ {c.server})
    BY <1>2, <2>1, FS_RemoveElement
  <2>3. Cardinality(Open) # 0
    BY <1>2, <2>1, FS_EmptySet
  <2>4. Cardinality(Open) = 1 => Open \ {c.server} = {}
    BY <2>2, FS_EmptySet
  <2>5. QED BY <1>2, <2>1, <2>2, <2>3, <2>4
<1>4. unfinished \in 1 .. W - 1 /\ unfinished' = unfinished - 1 /\ unfinished' \in 0 .. W - 1
  BY <1>3, CountedDown DEF Counting, TypeOK, Finish
<1>5. /\ unfinished = 1 => calls' = (calls \ {c}) \cup {new}
      /\ unfinished # 1 => calls' = calls \ {c}
  BY <1>4 DEF Finish, Move, IsCompletedAfterFinsh
<1>6. TypeOK'
  BY <1>1, <1>4, <1>5 DEF TypeOK, Finish
<1>7. Running' = Running \ {c} /\ Storing' = Storing
  BY <1>1, <1>2, <1>5 DEF Running, Storing
<1>8. Open' = Open \ {c.server}
  BY <1>2, <1>7 DEF Open, OnePlace, Running, Finish
<1>9. Counting'
  BY <1>3, <1>4, <1>8 DEF Counting
<1>10. OnePlace'
  BY <1>1, <1>5 DEF OnePlace, Finish
<1>11. Stored'
  BY <1>7 DEF Stored, Finish
<1>12. replies = << >> /\ \A d \in calls : d.pc # "reply"
  BY <1>3 DEF Answering
<1>13. Answering'
  <2>1. CASE unfinished = 1
    <3>1. Open' = {} /\ calls' = {new}
      <4>1. Open = {c.server}
        BY <2>1, <1>3 DEF Counting
      <4>2. calls = {c}
        BY <4>1, <1>1, <1>12 DEF OnePlace, Open, Running, TypeOK
      <4>3. QED BY <4>1, <4>2, <1>5, <1>8, <2>1
    <3>2. QED BY <3>1, <1>12 DEF Answering, WaitsForAll, Finish
  <2>2. CASE unfinished # 1
    BY <2>2, <1>5, <1>12 DEF Answering, WaitsForAll, Finish
  <2>3. QED BY <2>1, <2>2
<1>14. QED BY <1>6, <1>9, <1>10, <1>11, <1>13

LEMMA AggregateResultsSafe ==
  ASSUME Safe, NEW c \in calls, AggregateResults(c)
  PROVE  Safe'
<1> USE DEF Safe
<1>1. c.pc = "reply" /\ Open = {} /\ calls = {c} /\ replies = << >> /\ calls' = {}
  BY DEF AggregateResults, Answering
<1>2. /\ replies' = <<results>>
      /\ replies' \in Seq([Servers -> Outcomes \cup {"none"}])
      /\ Len(replies') = 1 /\ replies'[1] = results
  BY <1>1 DEF AggregateResults, TypeOK
<1>3. TypeOK'
  BY <1>1, <1>2 DEF TypeOK, AggregateResults
<1>4. Running = {} /\ Running' = {} /\ Storing = {} /\ Storing' = {}
  BY <1>1 DEF Running, Storing
<1>5. Open' = {} /\ OnePlace' /\ Counting' /\ Stored'
  BY <1>1, <1>4 DEF Open, OnePlace, Counting, Stored, AggregateResults
<1>6. \A s \in targets : results[s] # "none"
  BY <1>1, <1>4 DEF Stored, Open
<1>7. Answering'
  BY <1>1, <1>2, <1>5, <1>6 DEF Answering, WaitsForAll, AggregateResults
<1>8. QED BY <1>3, <1>5, <1>7

LEMMA SafeNext ==
  ASSUME NetworkFails = FALSE, Safe, [Next]_vars
  PROVE  Safe'
<1>1. CASE UNCHANGED vars
  BY <1>1 DEF vars, Safe, TypeOK, OnePlace, Counting, Stored, Storing, Answering, WaitsForAll, Open, Running
<1>2. CASE SendPacket
  BY <1>2, SendPacketSafe
<1>3. CASE \E s \in Servers : AddCallback(s) \/ Answer(s) \/ SearchResponseHanlder(s) \/ TimeOut(s)
  BY <1>3, AddCallbackSafe, AnswerSafe, SearchResponseHanlderSafe, TimeOutSafe
<1>4. CASE \E c \in calls : Callback(c)
  BY <1>4, StoreSafe, FinishSafe, AggregateResultsSafe DEF Callback
<1>5. QED BY <1>1, <1>2, <1>3, <1>4 DEF Next

-----------------------------------------------------------------------------
(* While no send fails, the counter of unfinished servers is the number of *)
(* servers still open, and nothing runs any more once the answer is made.  *)
THEOREM AggregationSafe == ASSUME NetworkFails = FALSE PROVE Spec => []Safe
<1>1. Init => Safe
  BY SafeInit
<1>2. Safe /\ [Next]_vars => Safe'
  BY SafeNext
<1>3. QED BY <1>1, <1>2, PTL DEF Spec

(* The client is answered at most once (AggregatorService's callback that  *)
(* finds the count used up answers; no other does).                        *)
THEOREM AnsweredOnce == ASSUME NetworkFails = FALSE PROVE Spec => []RepliesOnce
<1>1. Safe => RepliesOnce
  BY DEF Safe, Answering, RepliesOnce
<1>2. QED BY <1>1, AggregationSafe, PTL

(* Every server of the request has answered, failed or timed out before    *)
(* the answer is made.                                                     *)
THEOREM AnswerWhole == ASSUME NetworkFails = FALSE PROVE Spec => []WaitsForAll
<1>1. Safe => WaitsForAll
  BY DEF Safe, Answering
<1>2. QED BY <1>1, AggregationSafe, PTL

(* No callback overwrites the result another has stored.                   *)
THEOREM ResultsKept == ASSUME NetworkFails = FALSE PROVE Spec => ResultsStay
<1> DEFINE Stays == \A s \in Servers : results[s] # "none" => results'[s] = results[s]
<1>1. Safe /\ [Next]_vars => [Stays]_vars
  <2> SUFFICES ASSUME Safe, Next PROVE Stays
    OBVIOUS
  <2>1. CASE \E c \in calls : Store(c)
    BY <2>1, StoreSafe DEF Store, Safe, TypeOK
  <2>2. CASE results' = results
    BY <2>2
  <2>3. QED
    BY <2>1, <2>2 DEF Next, Callback, SendPacket, AddCallback, Answer, SearchResponseHanlder, TimeOut,
      Finish, AggregateResults
<1>2. QED BY <1>1, AggregationSafe, PTL DEF Spec, ResultsStay
=============================================================================
