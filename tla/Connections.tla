---------------------------- MODULE Connections ----------------------------
(***************************************************************************)
(* ConnectionManager and Connection: a table of slots, the slot of a       *)
(* connection being its identifier modulo the size of the table; the       *)
(* threads that add connections (the accept handler, ConnectToServer); the *)
(* handlers of pending reads, writes and heartbeat timers; and             *)
(* RemoveConnection, which a handler with an error calls and which goes by *)
(* the slot alone.  The system under it (sockets, timers, the io_context)  *)
(* is its completions: each pending operation ends once, with success, an  *)
(* error, or aborted after the socket is closed.                           *)
(***************************************************************************)
EXTENDS Integers, FiniteSets

CONSTANTS
  PoolSize,    \* c_connectionPoolSize
  MaxId,       \* bound: connection identifiers handed out
  Adders,      \* threads in AddConnection
  Sends,       \* SendPacket calls
  Heartbeat,   \* whether the heartbeat interval is greater than 0
  MaxErrors    \* bound: operations of a connection that end with an error

ConnectionsAssumption ==
  /\ PoolSize \in Nat \ {0} /\ MaxId \in Nat /\ MaxErrors \in Nat
  /\ Heartbeat \in BOOLEAN

Ids == 1 .. MaxId
NoId == 0            \* c_invalidConnectionID, and a null pointer
Slots == 0 .. PoolSize - 1

(* What is outstanding on a socket: the read of a header or body, the      *)
(* write of the register request, of a heartbeat, and of the packets sent. *)
Writes == {"register", "beat"} \cup Sends
Operations == {"read"} \cup Writes

VARIABLES
  nextId,    \* m_nextConnectionID
  count,     \* m_connectionCount
  isEmpty,   \* m_connections[slot].m_isEmpty
  held,      \* m_connections[slot].m_connection
  adding,    \* of an adder: the step of AddConnection and its identifier
  removing,  \* RemoveConnection calls: by connection and operation that failed
  running,   \* connections with m_stopped false
  beating,   \* connections with m_heartbeatStarted
  armed,     \* connections whose heartbeat timer has a waiter
  pending,   \* of a connection: the operations outstanding
  sending,   \* of a SendPacket call: what it has come to
  failed,    \* of a connection: the operations that ended with an error
  stopped,   \* connections some Stop has stopped, and on whose behalf
  allStopped \* whether StopAll has run

table == <<nextId, count, isEmpty, held>>
life == <<running, beating, armed>>
vars == <<table, adding, removing, life, pending, sending, failed, stopped, allStopped>>

GetPosition(id) == id % PoolSize
Idle == [pc |-> "idle", id |-> NoId]

Init ==
  /\ nextId = 1 /\ count = 0
  /\ isEmpty = [s \in Slots |-> TRUE] /\ held = [s \in Slots |-> NoId]
  /\ adding = [a \in Adders |-> Idle]
  /\ removing = {}
  /\ running = {} /\ beating = {} /\ armed = {}
  /\ pending = [id \in Ids |-> {}]
  /\ sending = [s \in Sends |-> [st |-> "none", id |-> NoId]]
  /\ failed = [id \in Ids |-> 0] /\ stopped = {} /\ allStopped = FALSE

-----------------------------------------------------------------------------
(* AddConnection.  A slot that is taken is passed over, unless the count   *)
(* says that the table is full; the call then ends with no connection.     *)
Claim(a) ==
  /\ adding[a].pc = "idle" /\ nextId <= MaxId
  /\ nextId' = nextId + 1
  /\ LET slot == GetPosition(nextId) IN
       IF isEmpty[slot]
       THEN /\ isEmpty' = [isEmpty EXCEPT ![slot] = FALSE]
            /\ adding' = [adding EXCEPT ![a] = [pc |-> "count", id |-> nextId]]
       ELSE UNCHANGED <<isEmpty, adding>>
  /\ UNCHANGED <<count, held, removing, life, pending, sending, failed, stopped, allStopped>>

CountUp(a) ==
  /\ adding[a].pc = "count"
  /\ count' = count + 1
  /\ adding' = [adding EXCEPT ![a].pc = "publish"]
  /\ UNCHANGED <<nextId, isEmpty, held, removing, life, pending, sending, failed, stopped, allStopped>>

Publish(a) ==
  /\ adding[a].pc = "publish"
  /\ held' = [held EXCEPT ![GetPosition(adding[a].id)] = adding[a].id]
  /\ adding' = [adding EXCEPT ![a].pc = "start"]
  /\ UNCHANGED <<nextId, count, isEmpty, removing, life, pending, sending, failed, stopped, allStopped>>

(* Start: m_stopped is set to false, then SendRegister and AsyncReadHeader. *)
Start(a) ==
  /\ adding[a].pc = "start"
  /\ running' = running \cup {adding[a].id}
  /\ pending' = [pending EXCEPT ![adding[a].id] = @ \cup {"register", "read"}]
  /\ adding' = [adding EXCEPT ![a] = IF Heartbeat THEN [@ EXCEPT !.pc = "beat"] ELSE Idle]
  /\ UNCHANGED <<table, removing, beating, armed, sending, failed, stopped, allStopped>>

(* StartHeartbeat tests m_stopped and exchanges m_heartbeatStarted;        *)
(* SendHeartbeat tests m_stopped again and arms the timer.                 *)
StartHeartbeat(a) ==
  /\ adding[a].pc = "beat"
  /\ LET id == adding[a].id IN
       IF id \notin running \/ id \in beating
       THEN /\ adding' = [adding EXCEPT ![a] = Idle]
            /\ beating' = beating
       ELSE /\ adding' = [adding EXCEPT ![a].pc = "arm"]
            /\ beating' = beating \cup {id}
  /\ UNCHANGED <<table, removing, running, armed, pending, sending, failed, stopped, allStopped>>

SendHeartbeat(id) ==
  IF id \in running
  THEN /\ armed' = armed \cup {id}
       /\ pending' = [pending EXCEPT ![id] = @ \cup {"beat"}]
  ELSE /\ armed' = armed \ {id}
       /\ pending' = pending

Arm(a) ==
  /\ adding[a].pc = "arm"
  /\ SendHeartbeat(adding[a].id)
  /\ adding' = [adding EXCEPT ![a] = Idle]
  /\ UNCHANGED <<table, removing, running, beating, sending, failed, stopped, allStopped>>

(* The handler of the timer does not look at its error code: a cancelled   *)
(* wait runs SendHeartbeat too.                                            *)
Expire(id) ==
  /\ id \in armed
  /\ "beat" \notin pending[id]    \* bound: one heartbeat outstanding
  /\ SendHeartbeat(id)
  /\ UNCHANGED <<table, adding, removing, running, beating, sending, failed, stopped, allStopped>>

-----------------------------------------------------------------------------
(* RemoveConnection(id), called by the handler of an operation o that      *)
(* ended with an error other than aborted.                                 *)
Call(id, o, pc, conn) == [id |-> id, by |-> o, pc |-> pc, conn |-> conn]
Step(c, d) == removing' = (removing \ {c}) \cup {d}

(* OnConnectionFail calls RemoveConnection; a failed SendPacket has its    *)
(* callback run after that.                                                *)
Fail(id, o) ==
  /\ o \in pending[id] /\ failed[id] < MaxErrors
  /\ pending' = [pending EXCEPT ![id] = @ \ {o}]
  /\ failed' = [failed EXCEPT ![id] = @ + 1]
  /\ removing' = removing \cup {Call(id, o, "vacate", NoId)}
  /\ UNCHANGED <<table, adding, life, sending, stopped, allStopped>>

(* Bug: a slot found empty is emptied like any other. *)
VacateAlways(c) ==
  /\ c.pc = "vacate"
  /\ isEmpty' = [isEmpty EXCEPT ![GetPosition(c.id)] = TRUE]
  /\ Step(c, [c EXCEPT !.pc = "take"])
  /\ UNCHANGED <<nextId, count, held, adding, life, pending, sending, failed, stopped, allStopped>>
Vacate(c) ==
  /\ c.pc = "vacate"
  /\ isEmpty' = [isEmpty EXCEPT ![GetPosition(c.id)] = TRUE]
  /\ Step(c, [c EXCEPT !.pc = IF isEmpty[GetPosition(c.id)] THEN "answer" ELSE "take"])
  /\ UNCHANGED <<nextId, count, held, adding, life, pending, sending, failed, stopped, allStopped>>

Take(c) ==
  /\ c.pc = "take"
  /\ held' = [held EXCEPT ![GetPosition(c.id)] = NoId]
  /\ Step(c, [c EXCEPT !.pc = "uncount", !.conn = held[GetPosition(c.id)]])
  /\ UNCHANGED <<nextId, count, isEmpty, adding, life, pending, sending, failed, stopped, allStopped>>

CountDown(c) ==
  /\ c.pc = "uncount"
  /\ count' = count - 1
  /\ Step(c, [c EXCEPT !.pc = "stop"])
  /\ UNCHANGED <<nextId, isEmpty, held, adding, life, pending, sending, failed, stopped, allStopped>>

(* Stop: m_stopped, then the heartbeat, and the socket is closed.  The     *)
(* cancelled timer is one that expires.                                    *)
Stopped(ids, by) ==
  /\ running' = running \ ids
  /\ beating' = beating \ ids
  /\ stopped' = stopped \cup {[id |-> id, by |-> by] : id \in ids \cap running}

StopOne(c) ==
  /\ c.pc = "stop" /\ c.conn # NoId
  /\ Stopped({c.conn}, c.id)
  /\ Step(c, [c EXCEPT !.pc = "answer"])
  /\ UNCHANGED <<table, adding, armed, pending, sending, failed, allStopped>>

(* In a slot that the next connection has claimed and not filled there is  *)
(* a null pointer: the process ends.                                       *)
StopNull(c) ==
  /\ c.pc = "stop" /\ c.conn = NoId
  /\ Step(c, [c EXCEPT !.pc = "crashed"])
  /\ UNCHANGED <<table, adding, life, pending, sending, failed, stopped, allStopped>>
Crashed == \E c \in removing : c.pc = "crashed"

(* The handler goes on: m_eventOnRemoving has been called, and the         *)
(* callback of a packet is.                                                *)
Answer(c) ==
  /\ c.pc = "answer"
  /\ removing' = removing \ {c}
  /\ sending' = IF c.by \in Sends THEN [sending EXCEPT ![c.by].st = "refused"] ELSE sending
  /\ UNCHANGED <<table, adding, life, pending, failed, stopped, allStopped>>

(* StopAll stops what the slots hold, with the spin lock held, and leaves  *)
(* the slots as they are.                                                  *)
StopAll ==
  /\ ~allStopped
  /\ Stopped({held[s] : s \in Slots} \ {NoId}, NoId)
  /\ allStopped' = TRUE
  /\ UNCHANGED <<table, adding, removing, armed, pending, sending, failed>>

-----------------------------------------------------------------------------
(* GetConnection looks at the identifier; AsyncSend at m_stopped.          *)
GetConnection(id) == IF held[GetPosition(id)] = id THEN id ELSE NoId

SendPacket(s, id) ==
  /\ sending[s].st = "none"
  /\ sending' = [sending EXCEPT ![s] =
       [st |-> IF GetConnection(id) = NoId THEN "refused" ELSE "found", id |-> id]]
  /\ UNCHANGED <<table, adding, removing, life, pending, failed, stopped, allStopped>>

AsyncSend(s) ==
  /\ sending[s].st = "found"
  /\ LET id == sending[s].id IN
       IF id \in running
       THEN /\ sending' = [sending EXCEPT ![s].st = "posted"]
            /\ pending' = [pending EXCEPT ![id] = @ \cup {s}]
       ELSE /\ sending' = [sending EXCEPT ![s].st = "refused"]
            /\ pending' = pending
  /\ UNCHANGED <<table, adding, removing, life, failed, stopped, allStopped>>

(* Handlers of operations that end well, or aborted once the connection is *)
(* stopped: a read is followed by the next one while it is running.        *)
HandleRead(id) ==
  /\ "read" \in pending[id] /\ id \notin running
  /\ pending' = [pending EXCEPT ![id] = @ \ {"read"}]
  /\ UNCHANGED <<table, adding, removing, life, sending, failed, stopped, allStopped>>

HandleWrite(id, o) ==
  /\ o \in pending[id] \cap Writes
  /\ pending' = [pending EXCEPT ![id] = @ \ {o}]
  /\ IF o \in Sends
     THEN \/ sending' = [sending EXCEPT ![o].st = "sent"]
          \/ id \notin running /\ sending' = [sending EXCEPT ![o].st = "refused"]
     ELSE sending' = sending
  /\ UNCHANGED <<table, adding, removing, life, failed, stopped, allStopped>>

-----------------------------------------------------------------------------
Add(a) == Claim(a) \/ CountUp(a) \/ Publish(a) \/ Start(a) \/ StartHeartbeat(a) \/ Arm(a)
RemoveConnection(c) == Vacate(c) \/ Take(c) \/ CountDown(c) \/ StopOne(c) \/ StopNull(c) \/ Answer(c)
Send(s) == AsyncSend(s) \/ \E id \in 1 .. nextId - 1 : SendPacket(s, id)
Handle(id) == HandleRead(id) \/ \E o \in Writes : HandleWrite(id, o)

Next ==
  /\ ~Crashed
  /\ \/ \E a \in Adders : Add(a)
     \/ \E id \in Ids : Expire(id) \/ Handle(id) \/ \E o \in Operations : Fail(id, o)
     \/ \E c \in removing : RemoveConnection(c)
     \/ \E s \in Sends : Send(s)
     \/ StopAll

Spec == Init /\ [][Next]_vars

(* Threads in a call go on; an operation of a stopped connection completes *)
(* and a timer expires.  Nothing makes a peer read what is sent to it.     *)
FairSpec ==
  /\ Spec
  /\ WF_vars(\E a \in Adders : adding[a] # Idle /\ Add(a))
  /\ WF_vars(\E c \in removing : RemoveConnection(c))
  /\ \A s \in Sends : WF_vars(AsyncSend(s))
  /\ \A id \in Ids :
       /\ WF_vars(Expire(id))
       /\ WF_vars(HandleRead(id))
       /\ \A o \in Writes : WF_vars(id \notin running /\ HandleWrite(id, o))

-----------------------------------------------------------------------------
TypeOK ==
  /\ nextId \in 1 .. MaxId + 1 /\ count \in -Cardinality(Adders) .. PoolSize + Cardinality(Adders)
  /\ isEmpty \in [Slots -> BOOLEAN] /\ held \in [Slots -> Ids \cup {NoId}]
  /\ adding \in [Adders -> [pc : {"idle", "count", "publish", "start", "beat", "arm"}, id : Ids \cup {NoId}]]
  /\ removing \subseteq [id : Ids, by : Operations, pc : {"vacate", "take", "uncount", "stop", "answer", "crashed"},
                          conn : Ids \cup {NoId}]
  /\ running \subseteq Ids /\ beating \subseteq Ids /\ armed \subseteq Ids
  /\ pending \in [Ids -> SUBSET Operations]
  /\ sending \in [Sends -> [st : {"none", "found", "posted", "sent", "refused"}, id : Ids \cup {NoId}]]
  /\ failed \in [Ids -> 0 .. MaxErrors] /\ stopped \subseteq [id : Ids, by : Ids \cup {NoId}]
  /\ allStopped \in BOOLEAN

(* m_connectionCount is the number of slots taken, but for the calls that  *)
(* are between a slot and the count (it is unsigned: below zero it is      *)
(* 2^32 - 1 for a moment, and AddConnection takes the table for full).     *)
CountMatches ==
  count = Cardinality({s \in Slots : ~isEmpty[s]})
          - Cardinality({a \in Adders : adding[a].pc = "count"})
          + Cardinality({c \in removing : c.pc \in {"take", "uncount"}})

(* Where a slot is used once, repeated removals included: a connection is  *)
(* stopped because one of its own operations failed, or by StopAll;        *)
(* RemoveConnection finds a connection to stop, not a null pointer; and no *)
(* connection goes on that nothing can find any more: one that runs is in  *)
(* its slot, unless a call has it in hand to stop it.  With slots used     *)
(* again the code keeps none of the three: README, Disagreements.          *)
UsedOnce(id) == \A i \in 1 .. nextId - 1 : GetPosition(i) = GetPosition(id) => i = id
RemovesOwn == \A r \in stopped : UsedOnce(r.id) => r.by \in {r.id, NoId}
FindsConnection == \A c \in removing : c.pc \in {"stop", "crashed"} /\ UsedOnce(c.id) => c.conn # NoId
NoneLost ==
  \A id \in running : UsedOnce(id) =>
    held[GetPosition(id)] = id \/ \E c \in removing : c.conn = id /\ c.pc \in {"uncount", "stop"}

(* A connection that is stopped comes to rest: its reads are not renewed,  *)
(* its heartbeat ends, even one started while it was being stopped, and    *)
(* with it the references that keep it alive.                              *)
ComesToRest ==
  \A id \in Ids : (\E r \in stopped : r.id = id) ~> (pending[id] = {} /\ id \notin armed)

(* A packet sent on a connection that is stopped has its callback.         *)
SendEnds ==
  \A s \in Sends :
    (sending[s].st = "posted" /\ \E r \in stopped : r.id = sending[s].id)
      ~> sending[s].st \in {"sent", "refused"}
=============================================================================
