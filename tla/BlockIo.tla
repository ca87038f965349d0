------------------------------ MODULE BlockIo ------------------------------
(***************************************************************************)
(* The I/O of SPDKIO's BlockController: ReadBlocks and WriteBlocks of the  *)
(* client threads and the one SPDK thread they share.  A client has a pool *)
(* of sub requests; it pushes them to the queue of submitted ones, the     *)
(* SPDK thread passes them to the device, and the callback pushes them to  *)
(* the client's queue of completed ones.                                   *)
(*                                                                         *)
(* A batch read gives up when its time is over and leaves its requests in  *)
(* flight, for the next call of the thread to clear.                       *)
(***************************************************************************)
EXTENDS Integers, Sequences, SequencesExt, FiniteSets, Functions

CONSTANTS
  Readers,   \* threads that search: batch reads with a time limit
  Writers,   \* threads that update: single reads and writes
  Depth,     \* m_ssdSpdkIoDepth
  Batch,     \* m_batchSize
  Blocks,
  Requests,  \* input: the reads, sequences of the block sequences of postings
  Outputs,   \* input: the block sequences that are written
  NoMemory,  \* input: may the device refuse a request with ENOMEM
  TimeLimit  \* input: may the time of a batch read be over

Clients == Readers \cup Writers
Slots == 1..Depth

IoAssumption ==
  /\ Depth \in Nat \ {0} /\ Batch \in Nat \ {0}
  /\ Requests \subseteq Seq(Seq(Blocks)) /\ Outputs \subseteq Seq(Blocks)
  /\ Readers \cap Writers = {}
  /\ NoMemory \in BOOLEAN /\ TimeLimit \in BOOLEAN

VARIABLES
  sub,        \* the sub requests of each client: what, which block, for which page
  unused,     \* free_sub_io_requests
  inFlight,   \* in_flight, kept from call to call
  submitted,  \* m_submittedSubIoRequests
  device,     \* the requests the device works on
  completed,  \* completed_sub_io_requests of each client
  ssd,        \* the SPDK thread: m_ssdInflight, and where it is
  disk,       \* the version of each block
  call        \* the call of each client

vars == <<sub, unused, inFlight, submitted, device, completed, ssd, disk, call>>

Nothing == [op |-> "none", block |-> "none", page |-> 0, data |-> << >>]
NoCall == [pc |-> "idle", op |-> "none", req |-> << >>, next |-> 1, start |-> 1, got |-> << >>, wait |-> 0, value |-> 0]

(* The pages of a request, posting after posting. *)
PagesOf(req) == FlattenSeq([p \in DOMAIN req |-> [i \in DOMAIN req[p] |-> <<p, req[p][i]>>]])
Pages(t) == PagesOf(call[t].req)

Init ==
  /\ sub = [t \in Clients |-> [s \in Slots |-> Nothing]]
  /\ unused = [t \in Clients |-> {}]
  /\ inFlight = [t \in Clients |-> 0]
  /\ submitted = << >>
  /\ device = {}
  /\ completed = [t \in Clients |-> << >>]
  /\ ssd = [inflight |-> 0, at |-> "off"]
  /\ disk = [b \in Blocks |-> 0]
  /\ call = [t \in Clients |-> [NoCall EXCEPT !.pc = "new"]]

At(t, l) == call[t].pc = l

-----------------------------------------------------------------------------
(* Every thread calls Initialize and gets a context of its own; the first  *)
(* one starts the SPDK thread.                                             *)
Initialize(t) ==
  /\ At(t, "new")
  /\ ssd' = IF ssd.at = "off" THEN [ssd EXCEPT !.at = "loop"] ELSE ssd
  /\ unused' = [unused EXCEPT ![t] = Slots]
  /\ call' = [call EXCEPT ![t].pc = "idle"]
  /\ UNCHANGED <<sub, inFlight, submitted, device, completed, disk>>

(* The calls.  A batch read prepares its sub requests before it clears the *)
(* ones that an earlier call has left in flight; a write does not clear.   *)
Call(t, o, req, v) ==
  /\ At(t, "idle")
  /\ call' = [call EXCEPT ![t] = [NoCall EXCEPT !.pc = IF o = "write" THEN "move" ELSE "clear",
                                               !.op = o, !.req = req, !.value = v,
                                               !.got = [i \in DOMAIN PagesOf(req) |-> << >>]]]
  /\ UNCHANGED <<sub, unused, inFlight, submitted, device, completed, ssd, disk>>

(* What every loop does with a request that is complete.  Which request is *)
(* taken next and what is left in its buffer makes no difference.          *)
Recycle(t, s) ==
  /\ completed' = [completed EXCEPT ![t] = Tail(@)]
  /\ unused' = [unused EXCEPT ![t] = @ \cup {s}]
  /\ sub' = [sub EXCEPT ![t][s] = Nothing]

Clear(t) ==
  /\ At(t, "clear")
  /\ IF inFlight[t] > 0
       THEN /\ completed[t] # << >>
            /\ Recycle(t, Head(completed[t]))
            /\ inFlight' = [inFlight EXCEPT ![t] = @ - 1]
            /\ UNCHANGED call
       ELSE /\ call' = [call EXCEPT ![t].pc = "move"]
            /\ UNCHANGED <<completed, unused, inFlight, sub>>
  /\ UNCHANGED <<submitted, device, ssd, disk>>

(* A batch read submits up to the end of its batch, the others all. *)
BatchEnd(t) ==
  IF call[t].op = "batch" /\ call[t].start + Batch - 1 < Len(Pages(t))
    THEN call[t].start + Batch - 1 ELSE Len(Pages(t))

Waiting(t) == IF call[t].op = "write" THEN call[t].wait ELSE inFlight[t]

Submit(t) ==
  LET i == call[t].next IN
  /\ At(t, "move")
  /\ i <= BatchEnd(t)
  /\ unused[t] # {}
  /\ LET s == CHOOSE u \in unused[t] : \A v \in unused[t] : u <= v IN
       /\ unused' = [unused EXCEPT ![t] = @ \ {s}]
       /\ sub' = [sub EXCEPT ![t][s] = [op |-> call[t].op, block |-> Pages(t)[i][2], page |-> i,
                    data |-> IF call[t].op = "write" THEN <<Pages(t)[i][2], call[t].value>> ELSE << >>]]
       /\ submitted' = Append(submitted, <<t, s>>)
  /\ IF call[t].op = "write"
       THEN call' = [call EXCEPT ![t].next = @ + 1, ![t].wait = @ + 1] /\ UNCHANGED inFlight
       ELSE call' = [call EXCEPT ![t].next = @ + 1] /\ inFlight' = [inFlight EXCEPT ![t] = @ + 1]
  /\ UNCHANGED <<device, completed, ssd, disk>>

(* A completed read is copied to the buffer it was submitted with. *)
Complete(t) ==
  /\ At(t, "move")
  /\ Waiting(t) > 0
  /\ completed[t] # << >>
  /\ LET s == Head(completed[t])
         i == sub[t][s].page IN
       /\ Recycle(t, s)
       /\ IF call[t].op = "write"
            THEN call' = [call EXCEPT ![t].wait = @ - 1] /\ UNCHANGED inFlight
            ELSE /\ inFlight' = [inFlight EXCEPT ![t] = @ - 1]
                 /\ call' = [call EXCEPT ![t].got[i] = sub[t][s].data]
  /\ UNCHANGED <<submitted, device, ssd, disk>>

(* The end of a batch, which is the end of the call if it was the last.    *)
(* Otherwise the next batch starts.                                        *)
Finish(t) ==
  /\ At(t, "move")
  /\ call[t].next > BatchEnd(t)
  /\ Waiting(t) = 0
  /\ call' = IF call[t].next > Len(Pages(t)) THEN [call EXCEPT ![t].pc = "done"] ELSE [call EXCEPT ![t].start = @ + Batch]
  /\ UNCHANGED <<sub, unused, inFlight, submitted, device, completed, ssd, disk>>

(* Bug: a read that gives up takes its requests back at once. *)
TimeoutFrees(t) ==
  /\ At(t, "move")
  /\ TimeLimit /\ call[t].op = "batch"
  /\ call' = [call EXCEPT ![t].pc = "done"]
  /\ unused' = [unused EXCEPT ![t] = Slots]
  /\ inFlight' = [inFlight EXCEPT ![t] = 0]
  /\ UNCHANGED <<sub, submitted, device, completed, ssd, disk>>

(* The time is over, in a batch or between two. *)
Timeout(t) ==
  /\ At(t, "move")
  /\ TimeLimit /\ call[t].op = "batch"
  /\ call' = [call EXCEPT ![t].pc = "done"]
  /\ UNCHANGED <<sub, unused, inFlight, submitted, device, completed, ssd, disk>>

(* A posting of which a page is missing is returned empty. *)
Answer(t, p) ==
  LET mine == {i \in DOMAIN Pages(t) : Pages(t)[i][1] = p} IN
  IF \E i \in mine : call[t].got[i] = << >> THEN {} ELSE {call[t].got[i] : i \in mine}

Return(t) ==
  /\ At(t, "done")
  /\ call' = [call EXCEPT ![t] = NoCall]
  /\ UNCHANGED <<sub, unused, inFlight, submitted, device, completed, ssd, disk>>

(* ShutDown of a thread clears what is in flight and frees the context.    *)
(* The main thread is the last and stops the SPDK thread.                  *)
Exit(t) ==
  /\ At(t, "idle")
  /\ call' = [call EXCEPT ![t].pc = "exit"]
  /\ UNCHANGED <<sub, unused, inFlight, submitted, device, completed, ssd, disk>>

ExitClear(t) ==
  /\ At(t, "exit")
  /\ IF inFlight[t] > 0
       THEN /\ completed[t] # << >>
            /\ Recycle(t, Head(completed[t]))
            /\ inFlight' = [inFlight EXCEPT ![t] = @ - 1]
            /\ UNCHANGED call
       ELSE /\ call' = [call EXCEPT ![t].pc = "gone"]
            /\ unused' = [unused EXCEPT ![t] = {}]
            /\ UNCHANGED <<completed, inFlight, sub>>
  /\ UNCHANGED <<submitted, device, ssd, disk>>

Stop ==
  /\ \A t \in Clients : At(t, "gone")
  /\ ssd.at # "stopped"
  /\ ssd' = [ssd EXCEPT !.at = "stopped"]
  /\ UNCHANGED <<sub, unused, inFlight, submitted, device, completed, disk, call>>

-----------------------------------------------------------------------------
(* The SPDK thread.  SpdkIoLoop passes on what is submitted and goes back  *)
(* to the reactor when there is nothing more and something is in flight.   *)
(* A request the device has no memory for counts as in flight all the      *)
(* same.                                                                   *)
LoopSubmit ==
  /\ ssd.at = "loop"
  /\ submitted # << >>
  /\ submitted' = Tail(submitted)
  /\ ssd' = [ssd EXCEPT !.inflight = @ + 1]
  /\ \/ device' = device \cup {Head(submitted)}
     \/ NoMemory /\ UNCHANGED device
  /\ UNCHANGED <<sub, unused, inFlight, completed, disk, call>>

LoopEnds ==
  /\ ssd.at = "loop"
  /\ submitted = << >>
  /\ ssd.inflight > 0
  /\ ssd' = [ssd EXCEPT !.at = "reactor"]
  /\ UNCHANGED <<sub, unused, inFlight, submitted, device, completed, disk, call>>

(* The device is done with a request: SpdkBdevIoCallback. *)
Callback(r) ==
  LET t == r[1]
      s == r[2]
      b == sub[t][s].block IN
  /\ ssd.at = "reactor"
  /\ r \in device
  /\ device' = device \ {r}
  /\ IF sub[t][s].op = "write"
       THEN disk' = [disk EXCEPT ![b] = sub[t][s].data[2]] /\ UNCHANGED sub
       ELSE sub' = [sub EXCEPT ![t][s].data = <<b, disk[b]>>] /\ UNCHANGED disk
  /\ completed' = [completed EXCEPT ![t] = Append(@, s)]
  /\ ssd' = [inflight |-> ssd.inflight - 1, at |-> "loop"]
  /\ UNCHANGED <<unused, inFlight, submitted, call>>

-----------------------------------------------------------------------------
Move(t) ==
  \/ Initialize(t) \/ Clear(t) \/ Submit(t) \/ Complete(t) \/ Finish(t) \/ Return(t) \/ ExitClear(t)

Ask(t) ==
  \/ Exit(t)
  \/ t \in Readers /\ \E q \in Requests : Call(t, "batch", q, 0)
  \/ t \in Writers /\ \E o \in Outputs : Call(t, "get", <<o>>, 0) \/ \E v \in 0..1 : Call(t, "write", <<o>>, v)

Ssd == LoopSubmit \/ LoopEnds \/ \E t \in Clients, s \in Slots : Callback(<<t, s>>)

Next == Ssd \/ Stop \/ \E t \in Clients : Move(t) \/ Ask(t) \/ Timeout(t)

Spec == Init /\ [][Next]_vars

(* The threads run.  The reactor is left for SpdkIoLoop and comes back, so  *)
(* that a request the device keeps getting time for needs strong fairness. *)
FairSpec ==
  /\ Spec
  /\ WF_vars(LoopSubmit) /\ WF_vars(LoopEnds)
  /\ \A t \in Clients : WF_vars(Move(t)) /\ \A s \in Slots : SF_vars(Callback(<<t, s>>))

-----------------------------------------------------------------------------
(* Every variable keeps its type. *)
TypeOK ==
  /\ \A t \in Clients :
       /\ unused[t] \subseteq Slots /\ inFlight[t] \in 0..Depth /\ completed[t] \in Seq(Slots)
       /\ call[t].pc \in {"new", "idle", "clear", "move", "done", "exit", "gone"}
       /\ call[t].wait \in 0..Depth
  /\ submitted \in Seq(Clients \X Slots)
  /\ device \subseteq Clients \X Slots
  /\ ssd.inflight \in Nat /\ ssd.at \in {"off", "loop", "reactor", "stopped"}
  /\ disk \in [Blocks -> 0..1]

(* A request is in one place: unused, submitted, with the device or        *)
(* complete.  A client knows how many of its own are under way, and the    *)
(* SPDK thread how many the device has.                                    *)
Underway(t) == {s \in Slots : <<t, s>> \in device \cup ToSet(submitted)}
RequestsKept ==
  /\ IsInjective(submitted) /\ device \cap ToSet(submitted) = {}
  /\ \A t \in Clients :
       /\ IsInjective(completed[t])
       /\ Underway(t) \cap ToSet(completed[t]) = {}
       /\ unused[t] \cap (Underway(t) \cup ToSet(completed[t])) = {}
       /\ Cardinality(Underway(t)) + Len(completed[t]) <= inFlight[t] + call[t].wait
  /\ Cardinality(device) <= ssd.inflight

(* What a read returns of a posting are its blocks, or nothing: no page is *)
(* another call's.                                                         *)
ReadsOwnBlocks ==
  \A t \in Clients : At(t, "done") /\ call[t].op # "write" =>
    \A p \in DOMAIN call[t].req :
      \/ Answer(t, p) = {}
      \/ {d[1] : d \in Answer(t, p)} = ToSet(call[t].req[p])

(* A write that returned is on the disk. *)
WriteDone ==
  \A t \in Clients : At(t, "done") /\ call[t].op = "write" =>
    \A b \in ToSet(call[t].req[1]) : disk[b] = call[t].value

(* Every call returns, although the limit of a batch read is not looked at *)
(* while an earlier call is cleared, and a thread can end.                 *)
CallEnds == \A t \in Clients : call[t].pc \in {"clear", "move", "exit"} ~> call[t].pc \in {"done", "gone"}
=============================================================================
