----------------------------- MODULE KeyValue -----------------------------
(***************************************************************************)
(* What Helper::KeyValueIO promises: a map from keys to values.  A call    *)
(* takes effect once, at one moment between its begin and its return, or   *)
(* it fails and has no effect.                                             *)
(***************************************************************************)
EXTENDS Sequences

CONSTANTS
  Keys,
  Values,   \* what can be written
  Callers,
  None

VARIABLES
  store,    \* the value of each key, or None
  call      \* the operation of each caller

kv == <<store, call>>

Resting == [op |-> "none", key |-> None, value |-> None, state |-> "idle", answer |-> None]

Init ==
  /\ store = [k \in Keys |-> None]
  /\ call = [c \in Callers |-> Resting]

Invoke(c, o, k, v) ==
  /\ call[c].state = "idle"
  /\ call' = [call EXCEPT ![c] = [op |-> o, key |-> k, value |-> v, state |-> "called", answer |-> None]]
  /\ UNCHANGED store

Called(c, o) == call[c].state = "called" /\ call[c].op = o

Effect(c, v) ==
  /\ store' = [store EXCEPT ![call[c].key] = v]
  /\ call' = [call EXCEPT ![c].state = "done"]

Put(c) == Called(c, "put") /\ Effect(c, call[c].value)

Merge(c) ==
  /\ Called(c, "merge")
  /\ store[call[c].key] # None
  /\ Effect(c, store[call[c].key] \o call[c].value)

Delete(c) == Called(c, "delete") /\ store[call[c].key] # None /\ Effect(c, None)

Get(c) ==
  /\ Called(c, "get")
  /\ store[call[c].key] # None
  /\ call' = [call EXCEPT ![c].state = "done", ![c].answer = store[call[c].key]]
  /\ UNCHANGED store

Fail(c) ==
  /\ call[c].state = "called"
  /\ call' = [call EXCEPT ![c].state = "failed"]
  /\ UNCHANGED store

Return(c) ==
  /\ call[c].state \in {"done", "failed"}
  /\ call' = [call EXCEPT ![c] = Resting]
  /\ UNCHANGED store

Next == \E c \in Callers :
  \/ \E o \in {"get", "put", "merge", "delete"}, k \in Keys, v \in Values \cup {None} : Invoke(c, o, k, v)
  \/ Put(c) \/ Merge(c) \/ Delete(c) \/ Get(c) \/ Fail(c) \/ Return(c)

Spec == Init /\ [][Next]_kv
=============================================================================
