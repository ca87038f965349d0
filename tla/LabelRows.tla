------------------------------ MODULE LabelRows ------------------------------
(***************************************************************************)
(* How the tables of head labels grow while splits run.  A split takes an  *)
(* identifier for its new head from the head index, under the lock of the  *)
(* index, and only then adds a row to m_postingVersionMap and one to       *)
(* m_postingSizes, under m_dataAddLock.  It sets the label and the length  *)
(* of the row of its identifier, whatever row it has just added.  Inside   *)
(* m_dataAddLock it also publishes the head in the graph of the index.     *)
(* A row is addressed through incBlocks without a look at its length: when *)
(* the block of the row is not there the write ends the process or lands   *)
(* in other memory.                                                        *)
(* Searches and appends read the rows of the heads they find there.        *)
(***************************************************************************)
EXTENDS Integers, FiniteSets

CONSTANTS
  Splits,     \* split jobs, each making one new head
  Heads,      \* heads at first, the rows of the buffers
  BlockRows,  \* rows in a block of a Dataset
  Capacity,   \* of the head index and of the tables
  None

LabelRowsAssumption ==
  /\ Heads \in Nat \ {0} /\ BlockRows \in Nat \ {0} /\ Capacity \in Nat /\ Capacity >= Heads

VARIABLES
  samples,    \* GetNumSamples of the head index
  label,      \* m_postingVersionMap: its rows, the blocks it has, the status of each row
  size,       \* m_postingSizes: the same, the length of each posting
  lock,       \* m_dataAddLock
  graph,      \* the heads a search can find
  exited,     \* the process has ended: exit(1), or a write to no block
  astray,     \* heads whose label or length was written to other memory
  sp          \* the splits: next step, identifier

tables == <<label, size>>
vars == <<samples, label, size, lock, graph, exited, astray, sp>>

Table == [rows |-> Heads, blocks |-> 0, at |-> [h \in 0 .. Heads - 1 |-> "live"]]

Init ==
  /\ samples = Heads
  /\ label = Table /\ size = Table
  /\ lock = None
  /\ graph = 0 .. Heads - 1
  /\ exited = FALSE /\ astray = {}
  /\ sp = [s \in Splits |-> [pc |-> "new", id |-> None]]

At(s, l) == sp[s].pc = l /\ ~exited
To(s, l) == sp' = [sp EXCEPT ![s].pc = l]

(* The row of h is in the buffer or in a block that is there.              *)
HasRow(t, h) == h < Heads + t.blocks * BlockRows
Set(t, h, v) ==
  IF HasRow(t, h) THEN [t EXCEPT !.at = [x \in DOMAIN @ \cup {h} |-> IF x = h THEN v ELSE @[x]]]
  ELSE t
SetIn(t, h) ==
  \/ HasRow(t, h) /\ UNCHANGED <<exited, astray>>
  \/ ~HasRow(t, h) /\ exited' = TRUE /\ astray' = astray
  \/ ~HasRow(t, h) /\ exited' = exited /\ astray' = astray \cup {h}

(* Dataset::AddBatch(1).                                                   *)
Full(t) == t.rows > Capacity - 1
AddRowNoBlock(t) ==
  IF Full(t) THEN t
  ELSE [t EXCEPT !.rows = @ + 1,
                 !.blocks = IF (t.rows - Heads) \div BlockRows > @ THEN @ + 1 ELSE @]
AddRow(t) ==
  IF Full(t) THEN t
  ELSE [t EXCEPT !.rows = @ + 1,
                 !.blocks = IF (t.rows - Heads) \div BlockRows >= @ THEN @ + 1 ELSE @]

(* AddIndexId: at the capacity the caller's begin stays 0.                 *)
AddIndexId(s) ==
  /\ At(s, "new")
  /\ IF samples >= Capacity
     THEN sp' = [sp EXCEPT ![s] = [pc |-> "lock", id |-> 0]] /\ samples' = samples
     ELSE sp' = [sp EXCEPT ![s] = [pc |-> "lock", id |-> samples]] /\ samples' = samples + 1
  /\ UNCHANGED <<tables, lock, graph, exited, astray>>

Lock(s) ==
  /\ At(s, "lock") /\ lock = None
  /\ lock' = s /\ To(s, "label")
  /\ UNCHANGED <<samples, tables, graph, exited, astray>>

(* PostingVersionLabel::AddBatch(newHeadVID, 1): adds a row, whether or    *)
(* not the table is full, and sets that of the new head to normal.         *)
AddLabel(s) ==
  /\ At(s, "label")
  /\ LET grown == AddRow(label)
     IN label' = Set(grown, sp[s].id, "normal") /\ SetIn(grown, sp[s].id)
  /\ To(s, "size")
  /\ UNCHANGED <<samples, size, lock, graph>>

(* m_postingSizes.AddBatch(1), and the end of the process when it is full. *)
AddSize(s) ==
  /\ At(s, "size")
  /\ size' = AddRow(size)
  /\ exited' = Full(size)
  /\ To(s, "publish")
  /\ UNCHANGED <<samples, label, lock, graph, astray>>

(* AddIndexIdx, the last step of the block that holds m_dataAddLock.       *)
Publish(s) ==
  /\ At(s, "publish")
  /\ graph' = graph \cup {sp[s].id}
  /\ lock' = None /\ To(s, "length")
  /\ UNCHANGED <<samples, tables, exited, astray>>

UpdateSize(s) ==
  /\ At(s, "length")
  /\ size' = Set(size, sp[s].id, "length") /\ SetIn(size, sp[s].id)
  /\ To(s, "done")
  /\ UNCHANGED <<samples, label, lock, graph>>

Done == (exited \/ \A s \in Splits : At(s, "done")) /\ UNCHANGED vars
Next == (\E s \in Splits : AddIndexId(s) \/ Lock(s) \/ AddLabel(s) \/ AddSize(s) \/ Publish(s) \/ UpdateSize(s)) \/ Done
Spec == Init /\ [][Next]_vars

-----------------------------------------------------------------------------
TypeOK ==
  /\ samples \in Heads .. Capacity
  /\ \A t \in {label, size} : t.rows \in Heads .. Capacity /\ t.blocks \in Nat
  /\ lock \in Splits \cup {None}
  /\ (graph \cup astray) \subseteq 0 .. Capacity - 1
  /\ \A s \in Splits : sp[s].id \in 0 .. Capacity - 1 \cup {None}

(* A head found in the graph has a label that its split has set, in a      *)
(* block, unless the write went to other memory.                           *)
LabelSet == \A h \in graph \ astray : h \in DOMAIN label.at /\ HasRow(label, h)

(* Only a split that was given its identifier before another one and has   *)
(* not added its row yet sends the writes of that other one astray.        *)
StrayOvertakes ==
  ~exited => \A s \in Splits :
    \/ At(s, "label") /\ ~HasRow(AddRow(label), sp[s].id)
    \/ At(s, "length") /\ ~HasRow(size, sp[s].id)
    => \E t \in Splits : sp[t].pc \in {"lock", "label", "size"} /\ sp[t].id < sp[s].id

(* The tables never have more rows than the index has heads, although rows *)
(* are added in another order than identifiers.                            *)
RowsBounded == label.rows <= samples /\ size.rows <= label.rows

(* Between splits each head has its row in a block, also one whose label   *)
(* was set out of order.                                                   *)
RowsInTheEnd == (\A s \in Splits : sp[s].pc \in {"new", "done"}) => \A h \in graph : HasRow(label, h) /\ HasRow(size, h)

(* Dataset.h:227 says of incBlocks "each block address, incBlocks.size()   *)
(* is the block num": a label is set in a block that is there.             *)
(* The code does not keep this: README, Disagreements.  No run checks it.  *)
LabelInBlock == astray = {} /\ \A s \in Splits : At(s, "label") => HasRow(AddRow(label), sp[s].id)

(* A split that found no room leaves the labels of the other heads alone.  *)
(* The code does not keep this: README, Disagreements.  No run checks it.  *)
LabelKept == \A h \in 0 .. Heads - 1 : label.at[h] = "live"
=============================================================================
