-------------------------- MODULE BlockStoreProofs --------------------------
(***************************************************************************)
(* Safety of the block store for every set of keys, threads, lists and     *)
(* blocks.                                                                 *)
(***************************************************************************)
EXTENDS BlockStore, FiniteSetTheorems, TLAPS

-----------------------------------------------------------------------------
(* Address lists: who has which list, whatever is in it.                   *)

Calls == {"get", "put", "merge", "delete"}

(* What the numbers and values of a frame are plays no part here.          *)
Frames(W) ==
  [pc : PC, call : Calls \cup {"none"}, key : Keys \cup {None}, arg : W, value : W,
   old : Lists \cup {None}, new : Lists \cup {None}, from : W, k : W, n : W]

Shaped ==
  /\ \E W : op \in [Threads -> Frames(W)]
  /\ mapping \in [Keys -> Lists \cup {None}]
  /\ IsABag(buffer) /\ BagToSet(buffer) \subseteq Lists

Alone ==
  \A t, u \in Threads :
    t # u /\ op[t].key = op[u].key /\ op[t].key # None => op[t].call = "get" \/ op[u].call = "get"

(* At each step, what the operation has to do with the list of its key.    *)
Fits(o, own) ==
  /\ o.pc = "idle" => o.key = None /\ o.call = "none" /\ o.new = None
  /\ o.pc # "idle" => o.key \in Keys /\ o.call \in Calls
  /\ o.call = "get" => o.pc \in {"called", "read", "done"} /\ o.new = None
  /\ o.pc = "called" => o.old = None /\ o.new = None
  /\ o.pc = "called" /\ o.call \in {"merge", "delete"} => own # None
  /\ o.pc = "read" => o.call = "get"
  /\ o.pc = "spare" => o.call \in {"put", "merge"} /\ o.new = None /\ o.old # None /\ o.old = own
  /\ o.pc \in {"blocks", "write"} =>
       o.call \in {"put", "merge"} /\ o.new # None
       /\ ((o.old \in {None, o.new} /\ o.new = own) \/ (o.old # None /\ o.old = own /\ o.old # o.new))
  /\ o.pc \in {"release", "swap"} =>
       o.call # "get" /\ o.old # None /\ o.old = own /\ o.new # o.old /\ (o.new = None <=> o.call = "delete")
  /\ o.pc = "swap" => o.new # None
  /\ o.pc = "keep" => o.call \in {"put", "merge"} /\ o.new # None /\ o.new = own /\ o.old # None /\ o.old # o.new
  /\ o.pc \in {"forget", "unmap"} => o.call = "delete" /\ o.new = None /\ o.old # None /\ o.old = own
  /\ o.pc \in {"done", "failed"} /\ o.new # None => o.new = own
Staged(t) == Fits(op[t], mapping[op[t].key])

(* The list of a key, the spare ones, those in the hands of threads and    *)
(* those that are about to be put aside are apart.                         *)
Spares == BagToSet(buffer)
Gone(k) == \E t \in Threads : op[t].key = k /\ op[t].call # "get" /\ op[t].pc = "unmap"
Owns(k, l) == l # None /\ mapping[k] = l /\ ~Gone(k)

SpareOnce == \A l \in Spares : buffer[l] = 1
OwnNotSpare == \A k \in Keys, l \in Spares : ~Owns(k, l)
OwnedOnce == \A k, j \in Keys : \A l \in Lists : Owns(k, l) /\ Owns(j, l) => k = j
NewApart ==
  \A t \in Threads : op[t].new # None =>
    /\ op[t].new \notin Spares
    /\ \A k \in Keys : Owns(k, op[t].new) => op[t].key = k
    /\ \A u \in Threads : op[u].new = op[t].new => u = t
KeepApart ==
  \A t \in Threads : op[t].pc = "keep" =>
    /\ op[t].old # None /\ op[t].old \notin Spares
    /\ \A k \in Keys : ~Owns(k, op[t].old)
    /\ \A u \in Threads : op[u].new # op[t].old
    /\ \A u \in Threads : op[u].pc = "keep" /\ op[u].old = op[t].old => u = t

Apart == SpareOnce /\ OwnNotSpare /\ OwnedOnce /\ NewApart /\ KeepApart

ListSafe == Shaped /\ Alone /\ (\A t \in Threads : Staged(t)) /\ Apart

-----------------------------------------------------------------------------
(* The queue with a list more, and with a list less. *)
LEMMA Pushed ==
  ASSUME NEW q, IsABag(q), NEW x
  PROVE  /\ IsABag(Push(q, x)) /\ BagToSet(Push(q, x)) = BagToSet(q) \cup {x}
         /\ \A y \in BagToSet(q) : y # x => Push(q, x)[y] = q[y]
         /\ x \notin BagToSet(q) => Push(q, x)[x] = 1
BY DEF Push, IsABag, BagToSet, SetToBag, (+)

LEMMA Popped ==
  ASSUME NEW q, IsABag(q), NEW x \in BagToSet(q)
  PROVE  /\ IsABag(Pop(q, x)) /\ BagToSet(Pop(q, x)) \subseteq BagToSet(q)
         /\ \A y \in BagToSet(q) : y # x => y \in BagToSet(Pop(q, x)) /\ Pop(q, x)[y] = q[y]
         /\ q[x] = 1 => x \notin BagToSet(Pop(q, x))
BY DEF Pop, IsABag, BagToSet, SetToBag, (-)

LEMMA Queued ==
  ASSUME NEW S
  PROVE  IsABag(Queue(S)) /\ BagToSet(Queue(S)) = S /\ \A x \in S : Queue(S)[x] = 1
BY DEF Queue, IsABag, BagToSet

-----------------------------------------------------------------------------
LEMMA ListInit == Init => ListSafe
<1> SUFFICES ASSUME Init PROVE ListSafe
  OBVIOUS
<1>1. op = [t \in Threads |-> Idle] /\ mapping = [k \in Keys |-> None]
  BY DEF Init
<1>2. \A t \in Threads : op[t].pc = "idle" /\ op[t].key = None /\ op[t].new = None /\ op[t].call = "none"
  BY <1>1 DEF Idle
<1>3. PICK b \in SUBSET Lists : buffer = Queue(b)
  BY DEF Init, kSubset
<1>4. Idle \in Frames({None, << >>, 0})
  BY DEF Idle, Frames, PC
<1>5. Shaped
  <2>1. op \in [Threads -> Frames({None, << >>, 0})]
    BY <1>1, <1>4
  <2>2. QED BY <2>1, <1>1, <1>3, Queued DEF Shaped
<1>6. Alone
  BY <1>2 DEF Alone
<1>7. \A t \in Threads : Staged(t)
  BY <1>2 DEF Staged, Fits
<1>8. Apart
  <2>1. \A l \in Spares : buffer[l] = 1
    BY <1>3, Queued DEF Spares
  <2>2. \A k \in Keys : \A l : ~Owns(k, l)
    BY <1>1 DEF Owns
  <2>3. QED BY <1>2, <2>1, <2>2 DEF Apart, SpareOnce, OwnNotSpare, OwnedOnce, NewApart, KeepApart
<1>9. QED BY <1>5, <1>6, <1>7, <1>8 DEF ListSafe

-----------------------------------------------------------------------------
(* A step of one thread: the frames of the others stay, and its own has a  *)
(* shape.                                                                  *)
LEMMA ShapedStep ==
  ASSUME Shaped, NEW t \in Threads, NEW V, NEW f \in Frames(V), op' = [op EXCEPT ![t] = f],
         mapping' \in [Keys -> Lists \cup {None}], IsABag(buffer'), BagToSet(buffer') \subseteq Lists
  PROVE  Shaped' /\ op'[t] = f /\ \A u \in Threads : u # t => op'[u] = op[u]
<1>1. PICK W : op \in [Threads -> Frames(W)]
  BY DEF Shaped
<1>2. \A u \in Threads : op[u] \in Frames(W \cup V)
  BY <1>1 DEF Frames
<1>3. f \in Frames(W \cup V)
  BY DEF Frames
<1>4. op' \in [Threads -> Frames(W \cup V)]
  BY <1>1, <1>2, <1>3
<1>5. QED BY <1>1, <1>4 DEF Shaped

(* Ownership stands if a step changes neither the queue of spare lists nor *)
(* a pointer, and the thread keeps its new list or none.                   *)
LEMMA ApartStands ==
  ASSUME Apart, NEW t \in Threads, mapping' = mapping, buffer' = buffer,
         \A u \in Threads : u # t => op'[u] = op[u],
         op'[t].new = None \/ (op'[t].new = op[t].new /\ op'[t].key = op[t].key),
         op[t].pc # "unmap", op'[t].pc \notin {"unmap", "keep"}
  PROVE  Apart'
<1>1. \A k : Gone(k)' <=> Gone(k)
  BY DEF Gone
<1>2. \A k, l : Owns(k, l)' <=> Owns(k, l)
  BY <1>1 DEF Owns
<1>3. Spares' = Spares
  BY DEF Spares
<1>4. SpareOnce' /\ OwnNotSpare' /\ OwnedOnce'
  BY <1>2, <1>3 DEF Apart, SpareOnce, OwnNotSpare, OwnedOnce
<1>5. NewApart'
  BY <1>2, <1>3 DEF Apart, NewApart
<1>6. KeepApart'
  BY <1>2, <1>3 DEF Apart, KeepApart
<1>7. QED BY <1>4, <1>5, <1>6 DEF Apart

(* A step that moves one thread to a frame with the same key and call.  The *)
(* others are staged as before, if at most the pointer of that key changes.*)
LEMMA OthersStaged ==
  ASSUME ListSafe, NEW t \in Threads, op[t].call # "get" \/ mapping' = mapping,
         \A u \in Threads : u # t => op'[u] = op[u],
         \A k \in Keys : k # op[t].key => mapping'[k] = mapping[k],
         op'[t].key = None \/ (op'[t].key = op[t].key /\ op'[t].call = op[t].call)
  PROVE  Alone' /\ \A u \in Threads : u # t => Staged(u)'
<1>1. Alone'
  BY DEF ListSafe, Alone
<1>2. ASSUME NEW u \in Threads, u # t PROVE Staged(u)'
  <2>1. Staged(u) /\ op'[u] = op[u]
    BY <1>2 DEF ListSafe
  <2>2. CASE op[u].call = "get" \/ op[u].pc = "idle"
    BY <2>1, <2>2 DEF Staged, Fits
  <2>3. CASE op[u].call # "get" /\ op[u].pc # "idle"
    <3>1. op[u].key \in Keys
      BY <2>1, <2>3 DEF Staged, Fits
    <3>2. mapping'[op[u].key] = mapping[op[u].key]
      BY <1>2, <2>3, <3>1, StoreAssumption DEF ListSafe, Alone
    <3>3. QED BY <2>1, <3>2 DEF Staged, Fits
  <2>4. QED BY <2>2, <2>3
<1>3. QED BY <1>1, <1>2

(* The locals of a thread. *)
LEMMA FrameOf ==
  ASSUME ListSafe, NEW t \in Threads
  PROVE  /\ \E W : op[t] \in Frames(W)
         /\ Staged(t)
         /\ op[t].key \in Keys \cup {None} /\ op[t].old \in Lists \cup {None} /\ op[t].new \in Lists \cup {None}
         /\ op[t].pc # "idle" => op[t].key \in Keys
         /\ op[t].key \in Keys => mapping[op[t].key] \in Lists \cup {None}
         /\ \A l : At(t, l) <=> op[t].pc = l
<1>1. PICK W : op \in [Threads -> Frames(W)]
  BY DEF ListSafe, Shaped
<1>2. op[t] \in Frames(W)
  BY <1>1
<1>3. Staged(t)
  BY DEF ListSafe
<1>4. mapping \in [Keys -> Lists \cup {None}]
  BY DEF ListSafe, Shaped
<1>5. QED BY <1>2, <1>3, <1>4 DEF Frames, Staged, Fits, At

(* A step of one thread that leaves pointers and spare lists alone, and     *)
(* gives it no list.                                                       *)
LEMMA QuietStep ==
  ASSUME ListSafe, NEW t \in Threads, NEW V, NEW f \in Frames(V), op' = [op EXCEPT ![t] = f],
         UNCHANGED <<mapping, buffer>>, f.key = op[t].key, f.call = op[t].call,
         f.new \in {None, op[t].new}, op[t].pc # "unmap", f.pc \notin {"unmap", "keep"},
         Fits(f, mapping[f.key])
  PROVE  ListSafe'
<1>1. Shaped' /\ op'[t] = f /\ \A u \in Threads : u # t => op'[u] = op[u]
  BY ShapedStep DEF ListSafe, Shaped
<1>2. Staged(t)'
  BY <1>1 DEF Staged
<1>3. Alone' /\ \A u \in Threads : u # t => Staged(u)'
  BY <1>1, OthersStaged
<1>4. Apart'
  BY <1>1, ApartStands DEF ListSafe
<1>5. QED BY <1>1, <1>2, <1>3, <1>4 DEF ListSafe

(* The frame after a step to l. *)
LEMMA FrameTo ==
  ASSUME ListSafe, NEW t \in Threads, NEW l \in PC, To(t, l)
  PROVE  \E V : \E f \in Frames(V) :
           /\ op' = [op EXCEPT ![t] = f]
           /\ f.pc = l /\ f.key = op[t].key /\ f.call = op[t].call /\ f.old = op[t].old /\ f.new = op[t].new
<1>1. PICK W : op[t] \in Frames(W)
  BY FrameOf
<1>2. PICK f \in Frames(W) : f = [op[t] EXCEPT !.pc = l]
  <2>1. [op[t] EXCEPT !.pc = l] \in Frames(W)
    BY <1>1 DEF Frames
  <2>2. QED BY <2>1
<1>3. op' = [op EXCEPT ![t] = f]
  BY <1>2 DEF To
<1>4. QED BY <1>1, <1>2, <1>3 DEF Frames

LEMMA RefuseLists == ASSUME ListSafe, NEW t \in Threads, Refuse(t) PROVE ListSafe'
<1>1. PICK W : op[t] \in Frames(W)
  BY FrameOf
<1>2. UNCHANGED <<mapping, buffer>> /\ op[t].pc = "called" /\ op[t].call # "get"
  BY FrameOf DEF Refuse, To, At
<1>3. PICK f \in Frames(W) : f = [op[t] EXCEPT !.pc = "failed"]
  <2>1. [op[t] EXCEPT !.pc = "failed"] \in Frames(W)
    BY <1>1, <1>2, FrameOf DEF Frames, PC
  <2>2. QED BY <2>1
<1>4. op' = [op EXCEPT ![t] = f]
  BY <1>3 DEF Refuse, To, At
<1>5. f.pc = "failed" /\ f.key = op[t].key /\ f.call = op[t].call /\ f.new = op[t].new
  BY <1>1, <1>2, <1>3 DEF Frames
<1>6. Fits(f, mapping[f.key])
  BY <1>2, <1>5, FrameOf DEF Staged, Fits
<1>7. QED BY <1>2, <1>4, <1>5, <1>6, QuietStep

LEMMA ReadEndLists == ASSUME ListSafe, NEW t \in Threads, ReadEnd(t) PROVE ListSafe'
<1>1. PICK W : op[t] \in Frames(W)
  BY FrameOf
<1>2. UNCHANGED <<mapping, buffer>> /\ op[t].pc = "read"
  BY FrameOf DEF ReadEnd, To, At
<1>3. PICK f \in Frames(W) : f = [op[t] EXCEPT !.pc = "done"]
  <2>1. [op[t] EXCEPT !.pc = "done"] \in Frames(W)
    BY <1>1, <1>2, FrameOf DEF Frames, PC
  <2>2. QED BY <2>1
<1>4. op' = [op EXCEPT ![t] = f]
  BY <1>3 DEF ReadEnd, To, At
<1>5. f.pc = "done" /\ f.key = op[t].key /\ f.call = op[t].call /\ f.new = op[t].new
  BY <1>1, <1>2, <1>3 DEF Frames
<1>6. Fits(f, mapping[f.key])
  BY <1>2, <1>5, FrameOf DEF Staged, Fits
<1>7. QED BY <1>2, <1>4, <1>5, <1>6, QuietStep

LEMMA GetLists == ASSUME ListSafe, NEW t \in Threads, Get(t) PROVE ListSafe'
<1>1. PICK W : op[t] \in Frames(W)
  BY FrameOf
<1>2. UNCHANGED <<mapping, buffer>> /\ op[t].pc = "called" /\ op[t].call = "get" /\ mapping[op[t].key] \in Lists \cup {None}
  BY FrameOf DEF Get, Called, At
<1>3. PICK f \in Frames(W \cup {1}) : f = [op[t] EXCEPT !.pc = "read", !.old = mapping[op[t].key], !.k = 1]
  <2>1. [op[t] EXCEPT !.pc = "read", !.old = mapping[op[t].key], !.k = 1] \in Frames(W \cup {1})
    BY <1>1, <1>2, FrameOf DEF Frames, PC
  <2>2. QED BY <2>1
<1>4. op' = [op EXCEPT ![t] = f]
  BY <1>3 DEF Get, Called, At
<1>5. f.pc = "read" /\ f.key = op[t].key /\ f.call = op[t].call /\ f.new = op[t].new
  BY <1>1, <1>2, <1>3 DEF Frames
<1>6. Fits(f, mapping[f.key])
  BY <1>2, <1>5, FrameOf DEF Staged, Fits
<1>7. QED BY <1>2, <1>4, <1>5, <1>6, QuietStep

LEMMA ReadBlockLists == ASSUME ListSafe, NEW t \in Threads, ReadBlock(t) PROVE ListSafe'
<1>1. PICK W : op[t] \in Frames(W)
  BY FrameOf
<1>2. UNCHANGED <<mapping, buffer>> /\ op[t].pc = "read"
  BY FrameOf DEF ReadBlock, At
<1>3. PICK x : x = op[t].value \o Chunk(op[t].old, op[t].k)
  OBVIOUS
<1>4. PICK i : i = op[t].k + 1
  OBVIOUS
<1>5. PICK f \in Frames(W \cup {x, i}) : f = [op[t] EXCEPT !.value = x, !.k = i]
  <2>1. [op[t] EXCEPT !.value = x, !.k = i] \in Frames(W \cup {x, i})
    BY <1>1, <1>2, FrameOf DEF Frames, PC
  <2>2. QED BY <2>1
<1>6. op' = [op EXCEPT ![t] = f]
  BY <1>3, <1>4, <1>5 DEF ReadBlock, At
<1>7. f.pc = "read" /\ f.key = op[t].key /\ f.call = op[t].call /\ f.new = op[t].new
  BY <1>1, <1>2, <1>5 DEF Frames
<1>8. Fits(f, mapping[f.key])
  BY <1>2, <1>7, FrameOf DEF Staged, Fits
<1>9. QED BY <1>2, <1>6, <1>7, <1>8, QuietStep

LEMMA GotBlocksLists == ASSUME ListSafe, NEW t \in Threads, GotBlocks(t) PROVE ListSafe'
<1>1. PICK W : op[t] \in Frames(W)
  BY FrameOf
<1>2. UNCHANGED <<mapping, buffer>> /\ op[t].pc = "blocks"
  BY FrameOf DEF GotBlocks, At
<1>3. PICK f \in Frames(W \cup {0}) : f = [op[t] EXCEPT !.pc = "write", !.k = 0]
  <2>1. [op[t] EXCEPT !.pc = "write", !.k = 0] \in Frames(W \cup {0})
    BY <1>1, <1>2, FrameOf DEF Frames, PC
  <2>2. QED BY <2>1
<1>4. op' = [op EXCEPT ![t] = f]
  BY <1>3 DEF GotBlocks, At
<1>5. f.pc = "write" /\ f.key = op[t].key /\ f.call = op[t].call /\ f.new = op[t].new /\ f.old = op[t].old
  BY <1>1, <1>2, <1>3 DEF Frames
<1>6. Fits(f, mapping[f.key])
  BY <1>2, <1>5, FrameOf DEF Staged, Fits
<1>7. QED BY <1>2, <1>4, <1>5, <1>6, QuietStep

LEMMA GetBlockLists == ASSUME ListSafe, NEW t \in Threads, GetBlock(t) PROVE ListSafe'
<1>1. PICK W : op[t] \in Frames(W)
  BY FrameOf
<1>2. UNCHANGED <<mapping, buffer>> /\ op[t].pc = "blocks"
  BY FrameOf DEF GetBlock, At
<1>3. PICK i : i = op[t].k + 1
  OBVIOUS
<1>4. PICK f \in Frames(W \cup {i}) : f = [op[t] EXCEPT !.k = i]
  <2>1. [op[t] EXCEPT !.k = i] \in Frames(W \cup {i})
    BY <1>1, <1>2, FrameOf DEF Frames, PC
  <2>2. QED BY <2>1
<1>5. op' = [op EXCEPT ![t] = f]
  BY <1>3, <1>4 DEF GetBlock, At
<1>6. f.pc = "blocks" /\ f.key = op[t].key /\ f.call = op[t].call /\ f.new = op[t].new /\ f.old = op[t].old
  BY <1>1, <1>2, <1>4 DEF Frames
<1>7. Fits(f, mapping[f.key])
  BY <1>2, <1>6, FrameOf DEF Staged, Fits
<1>8. QED BY <1>2, <1>5, <1>6, <1>7, QuietStep

LEMMA WriteBlockLists == ASSUME ListSafe, NEW t \in Threads, WriteBlock(t) PROVE ListSafe'
<1>1. PICK W : op[t] \in Frames(W)
  BY FrameOf
<1>2. UNCHANGED <<mapping, buffer>> /\ op[t].pc = "write"
  BY FrameOf DEF WriteBlock, At
<1>3. PICK i : i = op[t].k + 1
  OBVIOUS
<1>4. PICK f \in Frames(W \cup {i}) : f = [op[t] EXCEPT !.k = i]
  <2>1. [op[t] EXCEPT !.k = i] \in Frames(W \cup {i})
    BY <1>1, <1>2, FrameOf DEF Frames, PC
  <2>2. QED BY <2>1
<1>5. op' = [op EXCEPT ![t] = f]
  BY <1>3, <1>4 DEF WriteBlock, At
<1>6. f.pc = "write" /\ f.key = op[t].key /\ f.call = op[t].call /\ f.new = op[t].new /\ f.old = op[t].old
  BY <1>1, <1>2, <1>4 DEF Frames
<1>7. Fits(f, mapping[f.key])
  BY <1>2, <1>6, FrameOf DEF Staged, Fits
<1>8. QED BY <1>2, <1>5, <1>6, <1>7, QuietStep

LEMMA SetSizeLists == ASSUME ListSafe, NEW t \in Threads, SetSize(t) PROVE ListSafe'
<1>1. PICK W : op[t] \in Frames(W)
  BY FrameOf
<1>2. UNCHANGED <<mapping, buffer>> /\ op[t].pc = "write"
  BY FrameOf DEF SetSize, At
<1>3. CASE op[t].old \in {None, op[t].new}
  <2>1. PICK f \in Frames(W) : f = [op[t] EXCEPT !.pc = "done"]
    <3>1. [op[t] EXCEPT !.pc = "done"] \in Frames(W)
      BY <1>1, <1>2, FrameOf DEF Frames, PC
    <3>2. QED BY <3>1
  <2>2. op' = [op EXCEPT ![t] = f]
    BY <2>1, <1>3 DEF SetSize, At
  <2>3. f.pc = "done" /\ f.key = op[t].key /\ f.call = op[t].call /\ f.new = op[t].new /\ f.old = op[t].old
    BY <1>1, <1>2, <2>1 DEF Frames
  <2>4. Fits(f, mapping[f.key])
    BY <1>2, <2>3, <1>3, FrameOf DEF Staged, Fits
  <2>5. QED BY <1>2, <2>2, <2>3, <2>4, QuietStep
<1>4. CASE ~(op[t].old \in {None, op[t].new})
  <2>1. PICK f \in Frames(W) : f = [op[t] EXCEPT !.pc = "release", !.k = op[t].from]
    <3>1. [op[t] EXCEPT !.pc = "release", !.k = op[t].from] \in Frames(W)
      BY <1>1, <1>2, FrameOf DEF Frames, PC
    <3>2. QED BY <3>1
  <2>2. op' = [op EXCEPT ![t] = f]
    BY <2>1, <1>4 DEF SetSize, At
  <2>3. f.pc = "release" /\ f.key = op[t].key /\ f.call = op[t].call /\ f.new = op[t].new /\ f.old = op[t].old
    BY <1>1, <1>2, <2>1 DEF Frames
  <2>4. Fits(f, mapping[f.key])
    BY <1>2, <2>3, <1>4, FrameOf DEF Staged, Fits
  <2>5. QED BY <1>2, <2>2, <2>3, <2>4, QuietStep
<1>5. QED BY <1>3, <1>4

LEMMA ReleaseLists == ASSUME ListSafe, NEW t \in Threads, Release(t) PROVE ListSafe'
<1>1. PICK W : op[t] \in Frames(W)
  BY FrameOf
<1>2. UNCHANGED <<mapping, buffer>> /\ op[t].pc = "release"
  BY FrameOf DEF Release, To, At
<1>3. CASE op[t].k < Pages(list[op[t].old].size)
  <2>1. PICK i : i = op[t].k + 1
    OBVIOUS
  <2>2. PICK f \in Frames(W \cup {i}) : f = [op[t] EXCEPT !.k = i]
    <3>1. [op[t] EXCEPT !.k = i] \in Frames(W \cup {i})
      BY <1>1, <1>2, FrameOf DEF Frames, PC
    <3>2. QED BY <3>1
  <2>3. op' = [op EXCEPT ![t] = f]
    BY <2>1, <2>2, <1>3 DEF Release, To, At
  <2>4. f.pc = "release" /\ f.key = op[t].key /\ f.call = op[t].call /\ f.new = op[t].new /\ f.old = op[t].old
    BY <1>1, <1>2, <2>2 DEF Frames
  <2>5. Fits(f, mapping[f.key])
    BY <1>2, <2>4, <1>3, FrameOf DEF Staged, Fits
  <2>6. QED BY <1>2, <2>3, <2>4, <2>5, QuietStep
<1>4. CASE ~(op[t].k < Pages(list[op[t].old].size))
  <2>1. PICK l \in PC : l = IF op[t].new = None THEN "forget" ELSE "swap"
    BY DEF PC
  <2>2. PICK f \in Frames(W) : f = [op[t] EXCEPT !.pc = l]
    <3>1. [op[t] EXCEPT !.pc = l] \in Frames(W)
      BY <1>1, <1>2, FrameOf DEF Frames, PC
    <3>2. QED BY <3>1
  <2>3. op' = [op EXCEPT ![t] = f]
    BY <2>1, <2>2, <1>4 DEF Release, To, At
  <2>4. f.pc = l /\ f.key = op[t].key /\ f.call = op[t].call /\ f.new = op[t].new /\ f.old = op[t].old
    BY <1>1, <1>2, <2>2 DEF Frames
  <2>5. Fits(f, mapping[f.key])
    BY <1>2, <2>1, <2>4, <1>4, FrameOf DEF Staged, Fits
  <2>6. QED BY <1>2, <2>1, <2>3, <2>4, <2>5, QuietStep
<1>5. QED BY <1>3, <1>4

LEMMA DeleteLists == ASSUME ListSafe, NEW t \in Threads, Delete(t) PROVE ListSafe'
<1>1. PICK W : op[t] \in Frames(W)
  BY FrameOf
<1>2. UNCHANGED <<mapping, buffer>> /\ op[t].pc = "called" /\ op[t].call = "delete" /\ mapping[op[t].key] \in Lists \cup {None}
  BY FrameOf DEF Delete, Called, At
<1>3. PICK f \in Frames(W) : f = [op[t] EXCEPT !.pc = "release", !.old = mapping[op[t].key]]
  <2>1. [op[t] EXCEPT !.pc = "release", !.old = mapping[op[t].key]] \in Frames(W)
    BY <1>1, <1>2, FrameOf DEF Frames, PC
  <2>2. QED BY <2>1
<1>4. op' = [op EXCEPT ![t] = f]
  BY <1>3 DEF Delete, Called, At
<1>5. f.pc = "release" /\ f.key = op[t].key /\ f.call = op[t].call /\ f.new = op[t].new /\ f.old = mapping[op[t].key]
  BY <1>1, <1>2, <1>3 DEF Frames
<1>6. Fits(f, mapping[f.key])
  BY <1>2, <1>5, FrameOf DEF Staged, Fits
<1>7. QED BY <1>2, <1>4, <1>5, <1>6, QuietStep

LEMMA ReturnLists == ASSUME ListSafe, NEW t \in Threads, Return(t) PROVE ListSafe'
<1>1. UNCHANGED <<mapping, buffer>> /\ op' = [op EXCEPT ![t] = Idle] /\ op[t].pc \in {"done", "failed"}
  BY DEF Return
<1>2. Idle \in Frames({None, << >>, 0})
  BY DEF Idle, Frames, PC
<1>3. Shaped' /\ op'[t] = Idle /\ \A u \in Threads : u # t => op'[u] = op[u]
  BY <1>1, <1>2, ShapedStep DEF ListSafe, Shaped
<1>4. op'[t].pc = "idle" /\ op'[t].key = None /\ op'[t].call = "none" /\ op'[t].new = None
  BY <1>3 DEF Idle
<1>5. Staged(t)'
  BY <1>4 DEF Staged, Fits
<1>6. Alone' /\ \A u \in Threads : u # t => Staged(u)'
  BY <1>1, <1>3, <1>4, OthersStaged
<1>7. Apart'
  BY <1>1, <1>3, <1>4, ApartStands DEF ListSafe
<1>8. QED BY <1>3, <1>5, <1>6, <1>7 DEF ListSafe

LEMMA CallLists ==
  ASSUME ListSafe, NEW t \in Threads, NEW o \in Calls, NEW k \in Keys, NEW v \in Inputs, Call(t, o, k, v)
  PROVE  ListSafe'
<1>1. UNCHANGED <<mapping, buffer>> /\ op[t].pc = "idle" /\ (o # "put" => mapping[k] # None)
  BY FrameOf DEF Call
<1>2. PICK a : a = IF o \in {"put", "merge"} THEN v ELSE None
  OBVIOUS
<1>3. PICK f \in Frames({a, << >>, 0}) :
        f = [Idle EXCEPT !.pc = "called", !.call = o, !.key = k, !.arg = a]
  <2>1. [Idle EXCEPT !.pc = "called", !.call = o, !.key = k, !.arg = a] \in Frames({a, << >>, 0})
    BY DEF Idle, Frames, PC
  <2>2. QED BY <2>1
<1>4. op' = [op EXCEPT ![t] = f]
  BY <1>2, <1>3 DEF Call
<1>5. f.pc = "called" /\ f.call = o /\ f.key = k /\ f.old = None /\ f.new = None
  BY <1>3 DEF Idle
<1>6. Shaped' /\ op'[t] = f /\ \A u \in Threads : u # t => op'[u] = op[u]
  BY <1>1, <1>4, ShapedStep DEF ListSafe, Shaped
<1>7. Staged(t)'
  BY <1>1, <1>5, <1>6, StoreAssumption DEF Staged, Fits, Calls
<1>8. \A u \in Threads : u # t => Staged(u)'
  BY <1>1, <1>6 DEF ListSafe, Staged
<1>9. Alone'
  <2>1. \A u \in Threads : op[u].key = k => ~Excludes(op[u].call, o)
    BY DEF Call
  <2>2. \A u \in Threads : op[u].key = k /\ u # t => op[u].call = "get" \/ o = "get"
    BY <2>1 DEF Excludes
  <2>3. QED BY <1>5, <1>6, <2>2 DEF ListSafe, Alone
<1>10. Apart'
  BY <1>1, <1>5, <1>6, ApartStands DEF ListSafe
<1>11. QED BY <1>6, <1>7, <1>8, <1>9, <1>10 DEF ListSafe

(* An operation that fills the list of its own key. *)
LEMMA OwnTaken ==
  ASSUME ListSafe, NEW t \in Threads, NEW V, NEW f \in Frames(V), op' = [op EXCEPT ![t] = f],
         UNCHANGED <<mapping, buffer>>, f.key = op[t].key, f.call = op[t].call,
         op[t].pc = "called", op[t].call \in {"put", "merge"}, f.pc = "blocks",
         mapping[op[t].key] # None, f.new = mapping[op[t].key], f.old \in {None, f.new}
  PROVE  ListSafe'
<1>1. Shaped' /\ op'[t] = f /\ \A u \in Threads : u # t => op'[u] = op[u]
  BY ShapedStep DEF ListSafe, Shaped
<1>2. op[t].key \in Keys /\ mapping[op[t].key] \in Lists /\ op[t].new = None
  BY FrameOf DEF Staged, Fits
<1>3. Staged(t)'
  BY <1>1, <1>2, StoreAssumption DEF Staged, Fits, Calls
<1>4. Alone' /\ \A u \in Threads : u # t => Staged(u)'
  BY <1>1, OthersStaged
<1>5. \A u \in Threads : u # t /\ op[u].key = op[t].key => op[u].call = "get" /\ op[u].new = None
  BY <1>2, StoreAssumption, FrameOf DEF ListSafe, Alone, Staged, Fits
<1>6. Owns(op[t].key, f.new)
  BY <1>2, <1>5 DEF Owns, Gone
<1>7. \A k : Gone(k)' <=> Gone(k)
  BY <1>1 DEF Gone
<1>8. \A k, l : Owns(k, l)' <=> Owns(k, l)
  BY <1>7 DEF Owns
<1>9. Spares' = Spares
  BY DEF Spares
<1>10. SpareOnce' /\ OwnNotSpare' /\ OwnedOnce'
  BY <1>8, <1>9 DEF ListSafe, Apart, SpareOnce, OwnNotSpare, OwnedOnce
<1>11. NewApart'
  <2>1. f.new \notin Spares /\ \A k \in Keys : Owns(k, f.new) => k = f.key
    BY <1>2, <1>6 DEF ListSafe, Apart, OwnNotSpare, OwnedOnce
  <2>2. \A u \in Threads : u # t => op[u].new # f.new
    BY <1>2, <1>5, <1>6 DEF ListSafe, Apart, NewApart
  <2>3. QED BY <1>1, <1>8, <1>9, <2>1, <2>2 DEF ListSafe, Apart, NewApart
<1>12. KeepApart'
  BY <1>1, <1>2, <1>6, <1>8, <1>9 DEF ListSafe, Apart, KeepApart
<1>13. QED BY <1>1, <1>3, <1>4, <1>10, <1>11, <1>12 DEF ListSafe, Apart
LEMMA PutLists == ASSUME ListSafe, NEW t \in Threads, Put(t) PROVE ListSafe'
<1>1. PICK W : op[t] \in Frames(W)
  BY FrameOf
<1>2a. PICK l \in Lists : l = mapping[op[t].key]
  BY FrameOf DEF Put, Called
<1>2. PICK v, n : l = mapping[op[t].key] /\ v = op[t].arg /\ n = Pages(Len(op[t].arg))
  BY <1>2a
<1>3. UNCHANGED <<mapping, buffer>> /\ op[t].pc = "called" /\ op[t].call = "put"
  BY FrameOf DEF Put, Called
<1>4. CASE list[l].size < 0
  <2>1. PICK f \in Frames(W \cup {v, n}) : f = [op[t] EXCEPT !.pc = "blocks", !.new = l, !.value = v, !.n = n]
    <3>1. op[t] \in Frames(W \cup {v, n})
      BY <1>1 DEF Frames
    <3>2. l \in Lists \cup {None} /\ v \in W \cup {v, n} /\ n \in W \cup {v, n} /\ "blocks" \in PC
      BY <1>2a DEF PC
    <3>3. [op[t] EXCEPT !.pc = "blocks", !.new = l, !.value = v, !.n = n] \in Frames(W \cup {v, n})
      BY <3>1, <3>2 DEF Frames
    <3>4. QED BY <3>3
  <2>2. op' = [op EXCEPT ![t] = f]
    BY <1>2, <1>4, <2>1 DEF Put
  <2>3. f.pc = "blocks" /\ f.key = op[t].key /\ f.call = op[t].call /\ f.new = l /\ f.old = op[t].old
    BY <1>1, <2>1 DEF Frames
  <2>4. f.old = None
    BY <1>3, <2>3, FrameOf DEF Staged, Fits
  <2>5. QED BY <1>2, <1>3, <2>2, <2>3, <2>4, OwnTaken, StoreAssumption
<1>5. CASE ~(list[l].size < 0)
  <2>1. PICK f \in Frames(W \cup {v, n}) : f = [op[t] EXCEPT !.pc = "spare", !.old = l, !.value = v, !.n = n]
    <3>1. op[t] \in Frames(W \cup {v, n})
      BY <1>1 DEF Frames
    <3>2. l \in Lists \cup {None} /\ v \in W \cup {v, n} /\ n \in W \cup {v, n} /\ "spare" \in PC
      BY <1>2a DEF PC
    <3>3. [op[t] EXCEPT !.pc = "spare", !.old = l, !.value = v, !.n = n] \in Frames(W \cup {v, n})
      BY <3>1, <3>2 DEF Frames
    <3>4. QED BY <3>3
  <2>2. op' = [op EXCEPT ![t] = f]
    BY <1>2, <1>5, <2>1 DEF Put
  <2>3. f.pc = "spare" /\ f.key = op[t].key /\ f.call = op[t].call /\ f.new = op[t].new /\ f.old = l
    BY <1>1, <2>1 DEF Frames
  <2>4. Fits(f, mapping[f.key])
    BY <1>2, <1>3, <2>3, FrameOf, StoreAssumption DEF Staged, Fits
  <2>5. QED BY <1>3, <2>2, <2>3, <2>4, QuietStep
<1>6. QED BY <1>4, <1>5

LEMMA MergeLists == ASSUME ListSafe, NEW t \in Threads, Merge(t) PROVE ListSafe'
<1>1. PICK W : op[t] \in Frames(W)
  BY FrameOf
<1>2. PICK l \in Lists : l = mapping[op[t].key]
  BY FrameOf DEF Merge, Called, Staged, Fits
<1>3. UNCHANGED <<mapping, buffer>> /\ op[t].pc = "called" /\ op[t].call = "merge"
  BY FrameOf DEF Merge, Called
<1>4. PICK full, part, n, v :
        /\ full = list[l].size \div PageSize /\ part = list[l].size % PageSize
        /\ n = Pages(list[l].size + Len(op[t].arg)) - full
        /\ v = IF part # 0 THEN SubSeq(disk[list[l].at[full + 1]], 1, part) \o op[t].arg ELSE op[t].arg
  OBVIOUS
<1>5. op' = [op EXCEPT ![t] = [op[t] EXCEPT !.from = full, !.n = n,
                                 !.pc = IF part # 0 THEN "spare" ELSE "blocks",
                                 !.old = l, !.new = IF part # 0 THEN None ELSE l, !.value = v]]
  BY <1>2, <1>4 DEF Merge
<1>6. CASE part # 0
  <2>1. PICK f \in Frames(W \cup {full, v, n}) :
          f = [op[t] EXCEPT !.from = full, !.n = n, !.pc = "spare", !.old = l, !.new = None, !.value = v]
    <3>1. [op[t] EXCEPT !.from = full, !.n = n, !.pc = "spare", !.old = l, !.new = None, !.value = v]
            \in Frames(W \cup {full, v, n})
      BY <1>1, <1>2 DEF Frames, PC
    <3>2. QED BY <3>1
  <2>2. op' = [op EXCEPT ![t] = f]
    BY <1>5, <1>6, <2>1
  <2>3. f.pc = "spare" /\ f.key = op[t].key /\ f.call = op[t].call /\ f.new = None /\ f.old = l
    BY <1>1, <2>1 DEF Frames
  <2>4. Fits(f, mapping[f.key])
    BY <1>2, <1>3, <2>3, FrameOf, StoreAssumption DEF Staged, Fits
  <2>5. QED BY <1>3, <2>2, <2>3, <2>4, QuietStep
<1>7. CASE part = 0
  <2>1. PICK f \in Frames(W \cup {full, v, n}) :
          f = [op[t] EXCEPT !.from = full, !.n = n, !.pc = "blocks", !.old = l, !.new = l, !.value = v]
    <3>1. [op[t] EXCEPT !.from = full, !.n = n, !.pc = "blocks", !.old = l, !.new = l, !.value = v]
            \in Frames(W \cup {full, v, n})
      BY <1>1, <1>2 DEF Frames, PC
    <3>2. QED BY <3>1
  <2>2. op' = [op EXCEPT ![t] = f]
    BY <1>5, <1>7, <2>1
  <2>3. f.pc = "blocks" /\ f.key = op[t].key /\ f.call = op[t].call /\ f.new = l /\ f.old = l
    BY <1>1, <2>1 DEF Frames
  <2>4. QED BY <1>2, <1>3, <2>2, <2>3, OwnTaken, StoreAssumption
<1>8. QED BY <1>6, <1>7, SMTT(30)

(* The steps that move a list: another frame, pointer or queue of spare    *)
(* lists.                                                                  *)
LEMMA PutFirstLists == ASSUME ListSafe, NEW t \in Threads, PutFirst(t) PROVE ListSafe'
<1>0. PICK K \in Keys : K = op[t].key
  BY FrameOf DEF PutFirst, Called
<1>1. op' = op /\ op[t].pc = "called" /\ op[t].call = "put" /\ mapping[K] = None
  BY <1>0, FrameOf DEF PutFirst, Called
<1>2. PICK l \in Lists :
        /\ \/ BagIn(l, buffer) /\ buffer' = Pop(buffer, l)
           \/ l \in Unused /\ buffer' = buffer
        /\ mapping' = [mapping EXCEPT ![K] = l]
  BY <1>0 DEF PutFirst
<1>3. IsABag(buffer) /\ mapping \in [Keys -> Lists \cup {None}] /\ l # None
  BY StoreAssumption DEF ListSafe, Shaped
<1>4. IsABag(buffer') /\ Spares' \subseteq Spares /\ l \notin Spares' /\ SpareOnce'
  <2>1. CASE BagIn(l, buffer) /\ buffer' = Pop(buffer, l)
    <3>1. l \in Spares
      BY <2>1 DEF BagIn, Spares, BagToSet
    <3>2. buffer[l] = 1
      BY <3>1 DEF ListSafe, Apart, SpareOnce
    <3>3. IsABag(buffer') /\ Spares' \subseteq Spares /\ l \notin Spares'
      BY <2>1, <3>1, <3>2, <1>3, Popped DEF Spares
    <3>4. \A x \in Spares' : buffer'[x] = buffer[x]
      BY <2>1, <3>1, <3>3, <1>3, Popped DEF Spares
    <3>5. QED BY <3>3, <3>4 DEF ListSafe, Apart, SpareOnce
  <2>2. CASE l \in Unused /\ buffer' = buffer
    BY <2>2, <1>3 DEF Unused, Spares, ListSafe, Apart, SpareOnce
  <2>3. QED BY <2>1, <2>2, <1>2
<1>5. /\ \A k \in Keys : ~Owns(k, l)
      /\ \A u \in Threads : op[u].new # l
      /\ \A u \in Threads : op[u].pc = "keep" => op[u].old # l
  <2>1. CASE BagIn(l, buffer) /\ buffer' = Pop(buffer, l)
    <3>1. l \in Spares
      BY <2>1 DEF BagIn, Spares, BagToSet
    <3>2. QED BY <3>1, <1>3 DEF ListSafe, Apart, OwnNotSpare, NewApart, KeepApart
  <2>2. CASE l \in Unused /\ buffer' = buffer
    BY <2>2 DEF Unused, Held, Owns
  <2>3. QED BY <2>1, <2>2, <1>2
<1>6. Shaped'
  <2>1. mapping' \in [Keys -> Lists \cup {None}]
    BY <1>2, <1>3
  <2>2. QED BY <1>1, <1>4, <2>1 DEF ListSafe, Shaped, Spares
<1>7. \A k \in Keys : mapping'[k] = IF k = K THEN l ELSE mapping[k]
  BY <1>2, <1>3
<1>8. Staged(t)'
  BY <1>0, <1>1, FrameOf DEF Staged, Fits
<1>9. Alone' /\ \A u \in Threads : u # t => Staged(u)'
  BY <1>0, <1>1, <1>7, OthersStaged
<1>10. \A k \in Keys : \A m : Owns(k, m)' => Owns(k, m) \/ (k = K /\ m = l)
  BY <1>1, <1>7 DEF Owns, Gone
<1>11. OwnNotSpare' /\ OwnedOnce' /\ NewApart' /\ KeepApart'
  BY <1>1, <1>4, <1>5, <1>10 DEF ListSafe, Apart, OwnNotSpare, OwnedOnce, NewApart, KeepApart
<1>12. QED BY <1>4, <1>6, <1>8, <1>9, <1>11 DEF ListSafe, Apart

LEMMA SpareLists == ASSUME ListSafe, NEW t \in Threads, Spare(t) PROVE ListSafe'
<1>0. PICK W : op[t] \in Frames(W)
  BY FrameOf
<1>1. PICK l \in Spares : buffer' = Pop(buffer, l) /\ op' = [op EXCEPT ![t].pc = "blocks", ![t].new = l]
  BY DEF Spare, Spares
<1>2. mapping' = mapping /\ op[t].pc = "spare" /\ l \in Lists /\ l # None /\ IsABag(buffer) /\ buffer[l] = 1
  BY <1>1, FrameOf, StoreAssumption DEF Spare, ListSafe, Shaped, Spares, Apart, SpareOnce
<1>3. PICK f \in Frames(W) : f = [op[t] EXCEPT !.pc = "blocks", !.new = l]
  <2>1. [op[t] EXCEPT !.pc = "blocks", !.new = l] \in Frames(W)
    BY <1>0, <1>2 DEF Frames, PC
  <2>2. QED BY <2>1
<1>4. op' = [op EXCEPT ![t] = f]
  BY <1>1, <1>3
<1>5. f.pc = "blocks" /\ f.key = op[t].key /\ f.call = op[t].call /\ f.new = l /\ f.old = op[t].old
  BY <1>0, <1>3 DEF Frames
<1>6. IsABag(buffer') /\ Spares' \subseteq Spares /\ l \notin Spares' /\ \A x \in Spares' : buffer'[x] = buffer[x]
  BY <1>1, <1>2, Popped DEF Spares
<1>7. Shaped' /\ op'[t] = f /\ \A u \in Threads : u # t => op'[u] = op[u]
  <2>1. BagToSet(buffer') \subseteq Lists /\ mapping' \in [Keys -> Lists \cup {None}]
    BY <1>2, <1>6 DEF ListSafe, Shaped, Spares
  <2>2. QED BY <1>4, <1>6, <2>1, ShapedStep DEF ListSafe
<1>8. op[t].key \in Keys /\ op[t].old = mapping[op[t].key] /\ op[t].old # None /\ op[t].call \in {"put", "merge"}
  BY <1>2, FrameOf DEF Staged, Fits
<1>9. \A k \in Keys : ~Owns(k, l)
  BY <1>1 DEF ListSafe, Apart, OwnNotSpare
<1>10. mapping[op[t].key] # l
  <2>1. ~Gone(op[t].key)
    BY <1>2, <1>8, StoreAssumption DEF Gone, ListSafe, Alone
  <2>2. QED BY <1>2, <1>8, <1>9, <2>1 DEF Owns
<1>11. Staged(t)'
  BY <1>2, <1>5, <1>7, <1>8, <1>10 DEF Staged, Fits, Calls
<1>12. Alone' /\ \A u \in Threads : u # t => Staged(u)'
  BY <1>2, <1>5, <1>7, OthersStaged
<1>13. \A k, m : Owns(k, m)' <=> Owns(k, m)
  BY <1>2, <1>5, <1>7 DEF Owns, Gone
<1>14. \A u \in Threads : op[u].new # l /\ (op[u].pc = "keep" => op[u].old # l)
  BY <1>1, <1>2 DEF ListSafe, Apart, NewApart, KeepApart
<1>15. SpareOnce' /\ OwnNotSpare' /\ OwnedOnce'
  BY <1>6, <1>13 DEF ListSafe, Apart, SpareOnce, OwnNotSpare, OwnedOnce
<1>16. NewApart'
  BY <1>5, <1>6, <1>7, <1>9, <1>13, <1>14 DEF ListSafe, Apart, NewApart
<1>17. KeepApart'
  BY <1>5, <1>6, <1>7, <1>13, <1>14 DEF ListSafe, Apart, KeepApart
<1>18. QED BY <1>7, <1>11, <1>12, <1>15, <1>16, <1>17 DEF ListSafe, Apart
LEMMA SwapLists == ASSUME ListSafe, NEW t \in Threads, Swap(t) PROVE ListSafe'
<1>0. PICK K \in Keys : K = op[t].key
  BY FrameOf DEF Swap
<1>1. /\ op[t].pc = "swap" /\ op[t].call \in {"put", "merge"} /\ buffer' = buffer
      /\ op[t].old = mapping[K] /\ op[t].old # None /\ op[t].new # None /\ op[t].new # op[t].old
      /\ op[t].new \in Lists
  BY <1>0, FrameOf DEF Swap, Staged, Fits, Calls
<1>2. PICK l : l = op[t].new
  OBVIOUS
<1>3. mapping' = [mapping EXCEPT ![K] = l] /\ To(t, "keep") /\ UNCHANGED list
  BY <1>0, <1>1, <1>2 DEF Swap
<1>4a. PICK V : \E f \in Frames(V) :
        /\ op' = [op EXCEPT ![t] = f]
        /\ f.pc = "keep" /\ f.key = K /\ f.call = op[t].call /\ f.old = op[t].old /\ f.new = l
  BY <1>0, <1>2, <1>3, FrameTo DEF PC
<1>4. PICK f \in Frames(V) :
        /\ op' = [op EXCEPT ![t] = f]
        /\ f.pc = "keep" /\ f.key = K /\ f.call = op[t].call /\ f.old = op[t].old /\ f.new = l
  BY <1>4a
<1>5. mapping' \in [Keys -> Lists \cup {None}] /\ \A k \in Keys : mapping'[k] = IF k = K THEN l ELSE mapping[k]
  BY <1>1, <1>2, <1>3 DEF ListSafe, Shaped
<1>6. Shaped' /\ op'[t] = f /\ \A u \in Threads : u # t => op'[u] = op[u]
  BY <1>1, <1>4, <1>5, ShapedStep DEF ListSafe, Shaped
<1>7. Staged(t)'
  BY <1>1, <1>2, <1>4, <1>5, <1>6 DEF Staged, Fits, Calls
<1>8. Alone' /\ \A u \in Threads : u # t => Staged(u)'
  BY <1>0, <1>1, <1>4, <1>5, <1>6, OthersStaged
<1>9. ~Gone(K)
  BY <1>0, <1>1, StoreAssumption DEF Gone, ListSafe, Alone
<1>10. \A k : Gone(k)' <=> Gone(k)
  BY <1>1, <1>4, <1>6 DEF Gone
<1>11. \A k \in Keys : \A m : Owns(k, m)' <=> IF k = K THEN m = l ELSE Owns(k, m)
  BY <1>1, <1>2, <1>5, <1>9, <1>10 DEF Owns
<1>12. Owns(K, op[t].old)
  BY <1>1, <1>9 DEF Owns
<1>13. Spares' = Spares
  BY <1>1 DEF Spares
<1>14. /\ l \notin Spares /\ \A k \in Keys : Owns(k, l) => k = K
       /\ \A u \in Threads : op[u].new = l => u = t
  BY <1>0, <1>1, <1>2 DEF ListSafe, Apart, NewApart
<1>15. SpareOnce' /\ OwnNotSpare' /\ OwnedOnce'
  BY <1>1, <1>11, <1>13, <1>14 DEF ListSafe, Apart, SpareOnce, OwnNotSpare, OwnedOnce
<1>16. NewApart'
  BY <1>0, <1>1, <1>2, <1>4, <1>6, <1>11, <1>13, <1>14 DEF ListSafe, Apart, NewApart
<1>17. \A u \in Threads : op[u].new # op[t].old
  BY <1>0, <1>1, <1>12, StoreAssumption DEF ListSafe, Apart, NewApart, Alone, Staged, Fits
<1>18. KeepApart'
  <2>1. op[t].old \notin Spares /\ \A k \in Keys : k # K => ~Owns(k, op[t].old)
    BY <1>1, <1>12 DEF ListSafe, Apart, OwnNotSpare, OwnedOnce, Shaped
  <2>2. \A u \in Threads : op[u].pc = "keep" => op[u].old # op[t].old /\ op[u].old # l
    BY <1>1, <1>2, <1>12 DEF ListSafe, Apart, KeepApart
  <2>3. QED BY <1>1, <1>2, <1>4, <1>6, <1>11, <1>13, <1>17, <2>1, <2>2 DEF ListSafe, Apart, KeepApart
<1>19. QED BY <1>6, <1>7, <1>8, <1>15, <1>16, <1>18 DEF ListSafe, Apart

LEMMA KeepLists == ASSUME ListSafe, NEW t \in Threads, Keep(t) PROVE ListSafe'
<1>1. /\ op[t].pc = "keep" /\ mapping' = mapping /\ To(t, "done") /\ op[t].old # None /\ op[t].old \in Lists
      /\ IsABag(buffer) /\ op[t].new = mapping[op[t].key] /\ op[t].key \in Keys
  BY FrameOf DEF Keep, Staged, Fits, ListSafe, Shaped
<1>2. PICK l \in Lists : l = op[t].old /\ buffer' = Push(buffer, l)
  BY <1>1 DEF Keep
<1>3. /\ l \notin Spares /\ l # None
      /\ \A k \in Keys : ~Owns(k, l)
      /\ \A u \in Threads : op[u].new # l
      /\ \A u \in Threads : op[u].pc = "keep" /\ op[u].old = l => u = t
  BY <1>1, <1>2 DEF ListSafe, Apart, KeepApart
<1>4. IsABag(buffer') /\ Spares' = Spares \cup {l} /\ \A x \in Spares' : buffer'[x] = 1
  BY <1>1, <1>2, <1>3, Pushed DEF Spares, ListSafe, Apart, SpareOnce
<1>5a. PICK V : \E f \in Frames(V) :
        /\ op' = [op EXCEPT ![t] = f]
        /\ f.pc = "done" /\ f.key = op[t].key /\ f.call = op[t].call /\ f.old = op[t].old /\ f.new = op[t].new
  BY <1>1, FrameTo DEF PC
<1>5. PICK f \in Frames(V) :
        /\ op' = [op EXCEPT ![t] = f]
        /\ f.pc = "done" /\ f.key = op[t].key /\ f.call = op[t].call /\ f.old = op[t].old /\ f.new = op[t].new
  BY <1>5a
<1>6. Shaped' /\ op'[t] = f /\ \A u \in Threads : u # t => op'[u] = op[u]
  BY <1>1, <1>4, <1>5, ShapedStep DEF ListSafe, Shaped, Spares
<1>7. Staged(t)'
  BY <1>1, <1>5, <1>6, FrameOf DEF Staged, Fits
<1>8. Alone' /\ \A u \in Threads : u # t => Staged(u)'
  BY <1>1, <1>5, <1>6, OthersStaged
<1>9. \A k, m : Owns(k, m)' <=> Owns(k, m)
  BY <1>1, <1>5, <1>6 DEF Owns, Gone
<1>10. SpareOnce' /\ OwnNotSpare' /\ OwnedOnce'
  BY <1>3, <1>4, <1>9 DEF ListSafe, Apart, SpareOnce, OwnNotSpare, OwnedOnce
<1>11. NewApart'
  BY <1>3, <1>4, <1>5, <1>6, <1>9 DEF ListSafe, Apart, NewApart
<1>12. KeepApart'
  BY <1>1, <1>2, <1>3, <1>4, <1>5, <1>6, <1>9 DEF ListSafe, Apart, KeepApart
<1>13. QED BY <1>6, <1>7, <1>8, <1>10, <1>11, <1>12 DEF ListSafe, Apart

LEMMA ForgetLists == ASSUME ListSafe, NEW t \in Threads, Forget(t) PROVE ListSafe'
<1>0. PICK K \in Keys : K = op[t].key
  BY FrameOf DEF Forget
<1>1. /\ op[t].pc = "forget" /\ mapping' = mapping /\ To(t, "unmap") /\ op[t].old # None /\ op[t].old \in Lists
      /\ IsABag(buffer) /\ op[t].old = mapping[op[t].key] /\ op[t].key \in Keys /\ op[t].call = "delete"
      /\ op[t].new = None
  BY FrameOf DEF Forget, Staged, Fits, ListSafe, Shaped
<1>2. PICK l \in Lists : l = op[t].old /\ buffer' = Push(buffer, l)
  BY <1>0, <1>1 DEF Forget
<1>3. ~Gone(K)
  BY <1>0, <1>1, StoreAssumption DEF Gone, ListSafe, Alone
<1>4. Owns(K, l)
  BY <1>0, <1>1, <1>2, <1>3 DEF Owns
<1>5. \A u \in Threads : op[u].new # l
  BY <1>0, <1>1, <1>2, <1>4, StoreAssumption DEF ListSafe, Apart, NewApart, Alone, Staged, Fits
<1>6. l \notin Spares /\ l # None /\ \A u \in Threads : op[u].pc = "keep" => op[u].old # l
  BY <1>0, <1>1, <1>2, <1>4 DEF ListSafe, Apart, OwnNotSpare, KeepApart
<1>7. IsABag(buffer') /\ Spares' = Spares \cup {l} /\ \A x \in Spares' : buffer'[x] = 1
  <2>1. IsABag(buffer') /\ Spares' = Spares \cup {l}
    BY <1>0, <1>1, <1>2, Pushed DEF Spares
  <2>2. buffer'[l] = 1 /\ \A x \in Spares : buffer'[x] = buffer[x]
    BY <1>0, <1>1, <1>2, <1>6, Pushed DEF Spares
  <2>3. QED BY <2>1, <2>2 DEF ListSafe, Apart, SpareOnce
<1>8a. PICK V : \E f \in Frames(V) :
        /\ op' = [op EXCEPT ![t] = f]
        /\ f.pc = "unmap" /\ f.key = op[t].key /\ f.call = op[t].call /\ f.old = op[t].old /\ f.new = op[t].new
  BY <1>0, <1>1, FrameTo DEF PC
<1>8. PICK f \in Frames(V) :
        /\ op' = [op EXCEPT ![t] = f]
        /\ f.pc = "unmap" /\ f.key = op[t].key /\ f.call = op[t].call /\ f.old = op[t].old /\ f.new = op[t].new
  BY <1>8a
<1>9. Shaped' /\ op'[t] = f /\ \A u \in Threads : u # t => op'[u] = op[u]
  BY <1>0, <1>1, <1>7, <1>8, ShapedStep DEF ListSafe, Shaped, Spares
<1>10. Staged(t)'
  BY <1>0, <1>1, <1>8, <1>9, FrameOf DEF Staged, Fits, Calls
<1>11. Alone' /\ \A u \in Threads : u # t => Staged(u)'
  BY <1>0, <1>1, <1>8, <1>9, OthersStaged
<1>12. /\ \A m : ~Owns(K, m)'
       /\ \A k \in Keys : \A m : k # K => (Owns(k, m)' <=> Owns(k, m))
  <2>1. Gone(K)'
    BY <1>0, <1>1, <1>8, <1>9 DEF Gone
  <2>2. \A k \in Keys : k # K => (Gone(k)' <=> Gone(k))
    BY <1>0, <1>1, <1>8, <1>9 DEF Gone
  <2>3. \A m : ~Owns(K, m)'
    BY <1>0, <1>1, <1>9, <2>1 DEF Owns
  <2>4. \A k \in Keys : \A m : k # K => (Owns(k, m)' <=> Owns(k, m))
    BY <1>0, <1>1, <2>2 DEF Owns
  <2>5. QED BY <2>3, <2>4
<1>13. \A k \in Keys : ~Owns(k, l)'
  <2>1. ASSUME NEW k \in Keys, k # K PROVE ~Owns(k, l)'
    <3>1. ~Owns(k, l)
      BY <1>0, <1>1, <1>4, <2>1 DEF ListSafe, Apart, OwnedOnce
    <3>2. QED BY <1>0, <1>12, <2>1, <3>1
  <2>2. QED BY <1>0, <1>12, <2>1
<1>a. \A k \in Keys : \A m : Owns(k, m)' => Owns(k, m)
  BY <1>0, <1>12
<1>14. SpareOnce' /\ OwnNotSpare' /\ OwnedOnce'
  BY <1>7, <1>a, <1>13 DEF ListSafe, Apart, SpareOnce, OwnNotSpare, OwnedOnce
<1>15. NewApart'
  BY <1>0, <1>1, <1>5, <1>7, <1>8, <1>9, <1>a DEF ListSafe, Apart, NewApart
<1>16. KeepApart'
  BY <1>0, <1>1, <1>6, <1>7, <1>8, <1>9, <1>12 DEF ListSafe, Apart, KeepApart
<1>17. QED BY <1>9, <1>10, <1>11, <1>14, <1>15, <1>16 DEF ListSafe, Apart

LEMMA UnmapLists == ASSUME ListSafe, NEW t \in Threads, Unmap(t) PROVE ListSafe'
<1>0. PICK K \in Keys : K = op[t].key
  BY FrameOf DEF Unmap
<1>1. op[t].pc = "unmap" /\ buffer' = buffer /\ To(t, "done") /\ op[t].call = "delete" /\ op[t].new = None
  BY FrameOf DEF Unmap, Staged, Fits
<1>2. mapping' \in [Keys -> Lists \cup {None}] /\ \A k \in Keys : mapping'[k] = IF k = K THEN None ELSE mapping[k]
  BY <1>0 DEF Unmap, ListSafe, Shaped
<1>3a. PICK V : \E f \in Frames(V) :
        /\ op' = [op EXCEPT ![t] = f]
        /\ f.pc = "done" /\ f.key = K /\ f.call = op[t].call /\ f.new = None
  BY <1>0, <1>1, FrameTo DEF PC
<1>3. PICK f \in Frames(V) :
        /\ op' = [op EXCEPT ![t] = f]
        /\ f.pc = "done" /\ f.key = K /\ f.call = op[t].call /\ f.new = None
  BY <1>3a
<1>4. Shaped' /\ op'[t] = f /\ \A u \in Threads : u # t => op'[u] = op[u]
  BY <1>1, <1>2, <1>3, ShapedStep DEF ListSafe, Shaped
<1>5. Staged(t)'
  BY <1>1, <1>3, <1>4 DEF Staged, Fits, Calls
<1>6. Alone' /\ \A u \in Threads : u # t => Staged(u)'
  BY <1>0, <1>1, <1>2, <1>3, <1>4, OthersStaged
<1>7. \A k \in Keys : \A m : Owns(k, m)' => Owns(k, m)
  BY <1>0, <1>1, <1>2, <1>3, <1>4 DEF Owns, Gone
<1>8. Spares' = Spares
  BY <1>1 DEF Spares
<1>9. SpareOnce' /\ OwnNotSpare' /\ OwnedOnce'
  BY <1>1, <1>7, <1>8 DEF ListSafe, Apart, SpareOnce, OwnNotSpare, OwnedOnce
<1>10. NewApart'
  BY <1>3, <1>4, <1>7, <1>8 DEF ListSafe, Apart, NewApart
<1>11. KeepApart'
  BY <1>3, <1>4, <1>7, <1>8 DEF ListSafe, Apart, KeepApart
<1>12. QED BY <1>4, <1>5, <1>6, <1>9, <1>10, <1>11 DEF ListSafe, Apart

(* All threads are idle; the mapping read back gives each key a list of    *)
(* its own, and the spare ones are others.                                 *)
LEMMA RestartLists == ASSUME ListSafe, Restart PROVE ListSafe'
<1>1. op' = op /\ \A t \in Threads : op[t].pc = "idle"
  BY FrameOf DEF Restart
<1>2. PICK at \in [Keys -> Lists], b \in SUBSET Lists :
        /\ IsInjective(at) /\ b \cap {at[k] : k \in Keys} = {}
        /\ mapping' = at /\ buffer' = Queue(b)
  BY DEF Restart, kSubset
<1>3. IsABag(buffer') /\ Spares' = b /\ \A l \in b : buffer'[l] = 1
  BY <1>2, Queued DEF Spares
<1>4. \A t \in Threads : op[t].key = None /\ op[t].call = "none" /\ op[t].new = None
  BY <1>1, FrameOf DEF Staged, Fits
<1>5. Shaped'
  BY <1>1, <1>2, <1>3 DEF ListSafe, Shaped, Spares
<1>6. Alone' /\ \A t \in Threads : Staged(t)'
  BY <1>1, <1>4 DEF Alone, Staged, Fits
<1>7. \A k, l : Owns(k, l)' => at[k] = l
  BY <1>2 DEF Owns
<1>8. SpareOnce' /\ OwnNotSpare' /\ OwnedOnce'
  BY <1>2, <1>3, <1>7 DEF SpareOnce, OwnNotSpare, OwnedOnce, IsInjective
<1>9. NewApart' /\ KeepApart'
  BY <1>1, <1>4 DEF NewApart, KeepApart
<1>10. QED BY <1>5, <1>6, <1>8, <1>9 DEF ListSafe, Apart

-----------------------------------------------------------------------------
LEMMA ListStep == ListSafe /\ [Next]_vars => ListSafe'
<1> SUFFICES ASSUME ListSafe, [Next]_vars PROVE ListSafe'
  OBVIOUS
<1>1. CASE UNCHANGED vars
  <2>1. UNCHANGED <<mapping, buffer, op>>
    BY <1>1 DEF vars
  <2>2. Shaped' /\ Alone' /\ \A t \in Threads : Staged(t)'
    BY <2>1 DEF ListSafe, Shaped, Alone, Staged
  <2>3. Apart'
    BY <2>1 DEF ListSafe, Apart, SpareOnce, OwnNotSpare, OwnedOnce, NewApart, KeepApart, Owns, Gone, Spares
  <2>4. QED BY <2>2, <2>3 DEF ListSafe
<1>2. CASE Restart
  BY <1>2, RestartLists
<1>3. ASSUME NEW t \in Threads, Step(t) PROVE ListSafe'
  BY <1>3, RefuseLists, GetLists, PutFirstLists, PutLists, MergeLists, DeleteLists, ReadBlockLists, ReadEndLists,
     SpareLists, GetBlockLists, GotBlocksLists, WriteBlockLists, SetSizeLists, ReleaseLists, SwapLists, KeepLists,
     ForgetLists, UnmapLists, ReturnLists DEF Step
<1>4. ASSUME NEW t \in Threads, NEW o \in Calls, NEW k \in Keys, NEW v \in Inputs, Call(t, o, k, v) PROVE ListSafe'
  BY <1>4, CallLists
<1>5. QED BY <1>1, <1>2, <1>3, <1>4 DEF Next, Calls

LEMMA ListsApart == ListSafe => ListsOwned
<1> SUFFICES ASSUME ListSafe PROVE ListsOwned
  OBVIOUS
<1>1. \A k \in Keys : Has(k) # None => Owns(k, Has(k)) /\ Has(k) \in Lists
  <2>1. ASSUME NEW k \in Keys, Has(k) # None PROVE Owns(k, Has(k)) /\ Has(k) \in Lists
    <3>1. ~(\E t \in Writer(k) : op[t].pc = "unmap") /\ Has(k) = mapping[k]
      BY <2>1 DEF Has
    <3>2. ~Gone(k)
      BY <3>1 DEF Gone, Writer
    <3>3. QED BY <2>1, <3>1, <3>2 DEF Owns, ListSafe, Shaped
  <2>2. QED BY <2>1
<1>2. \A l \in BagToSet(buffer) : buffer[l] = 1
  BY DEF ListSafe, Apart, SpareOnce, Spares
<1>3. ASSUME NEW k \in Keys, Has(k) # None
      PROVE  /\ Has(k) \notin BagToSet(buffer)
             /\ \A j \in Keys : Has(k) = Has(j) => k = j
             /\ \A t \in Threads : op[t].new = Has(k) => op[t].key = k
  BY <1>1, <1>3 DEF ListSafe, Apart, OwnNotSpare, OwnedOnce, NewApart, Spares
<1>4. \A t \in Threads : op[t].new # None => op[t].new \notin BagToSet(buffer)
  BY DEF ListSafe, Apart, NewApart, Spares
<1>5. QED BY <1>2, <1>3, <1>4 DEF ListsOwned

(* No address list serves two keys, none is spare or given to a thread     *)
(* while a key has it: for any numbers of keys, threads and lists, with    *)
(* readers beside a writer or without, and across restarts.                *)
THEOREM ListsStayOwned == Spec => []ListsOwned
<1>1. Init => ListSafe
  BY ListInit
<1>2. ListSafe /\ [Next]_vars => ListSafe'
  BY ListStep
<1>3. ListSafe => ListsOwned
  BY ListsApart
<1>4. QED BY <1>1, <1>2, <1>3, PTL DEF Spec

-----------------------------------------------------------------------------
(* Numbers of blocks and records.                                          *)

LEMMA Divided ==
  ASSUME NEW n \in Nat, NEW p \in Nat \ {0}
  PROVE  \E q \in Nat, r \in 0..(p - 1) : q = n \div p /\ r = n % p /\ n = p * q + r
<1>1. PICK q \in Int : q = n \div p
  OBVIOUS
<1>2. PICK r \in Int : r = n % p
  OBVIOUS
<1>3. n = p * q + r
  BY <1>1, <1>2
<1>4. r \in 0..(p - 1)
  BY <1>2
<1>5. q \in Nat
  BY <1>1
<1>6. QED BY <1>1, <1>2, <1>3, <1>4, <1>5

(* Products keep the order. *)
LEMMA TimesOrder ==
  ASSUME NEW a \in Int, NEW b \in Int, NEW p \in Nat \ {0}
  PROVE  (a <= b <=> a * p <= b * p) /\ (a < b <=> a * p < b * p)
<1>1. ASSUME NEW c \in Int, NEW d \in Int, c <= d PROVE c * p <= d * p
  <2>1. PICK e \in Nat : d = c + e
    <3>1. d - c \in Nat /\ d = c + (d - c)
      BY <1>1
    <3>2. QED BY <3>1
  <2>2. e * p \in Nat /\ d * p = c * p + e * p
    BY <2>1
  <2>3. QED BY <2>1, <2>2
<1>2. ASSUME NEW c \in Int, NEW d \in Int, c < d PROVE c * p < d * p
  <2>1. (c + 1) * p <= d * p
    BY <1>1, <1>2
  <2>2. (c + 1) * p = c * p + p
    OBVIOUS
  <2>3. QED BY <2>1, <2>2
<1>3. QED BY <1>1, <1>2

(* n records fill all but the last of their blocks. *)
LEMMA PagesBound ==
  ASSUME NEW n \in Nat
  PROVE  Pages(n) \in Nat /\ n <= Pages(n) * PageSize /\ Pages(n) * PageSize < n + PageSize
<1>1. PageSize \in Nat \ {0}
  BY StoreAssumption
<1>2. PICK m \in Nat : m = n + PageSize - 1
  <2>1. n + PageSize - 1 \in Nat
    BY <1>1
  <2>2. QED BY <2>1
<1>3. PICK q \in Nat, r \in 0..(PageSize - 1) : q = m \div PageSize /\ m = PageSize * q + r
  BY <1>1, Divided
<1>4. Pages(n) = q
  BY <1>2, <1>3 DEF Pages
<1>5. PageSize * q = q * PageSize
  BY <1>1
<1>6. QED BY <1>1, <1>2, <1>3, <1>4, <1>5

LEMMA PagesUnique ==
  ASSUME NEW n \in Nat, NEW q \in Nat, n <= q * PageSize, q * PageSize < n + PageSize
  PROVE  Pages(n) = q
<1>1. PageSize \in Nat \ {0}
  BY StoreAssumption
<1>2. PICK p \in Nat : p = Pages(n) /\ n <= p * PageSize /\ p * PageSize < n + PageSize
  BY PagesBound
<1>3. q * PageSize < (p + 1) * PageSize /\ p * PageSize < (q + 1) * PageSize
  <2>1. (p + 1) * PageSize = p * PageSize + PageSize /\ (q + 1) * PageSize = q * PageSize + PageSize
    BY <1>1
  <2>2. QED BY <1>1, <1>2, <2>1
<1>4. q < p + 1 /\ p < q + 1
  BY <1>1, <1>3, TimesOrder
<1>5. QED BY <1>2, <1>4

(* Records behind f full blocks. *)
LEMMA PagesSum ==
  ASSUME NEW f \in Nat, NEW m \in Nat
  PROVE  Pages(f * PageSize + m) = f + Pages(m)
<1>1. PageSize \in Nat \ {0}
  BY StoreAssumption
<1>2. PICK p \in Nat : p = Pages(m) /\ m <= p * PageSize /\ p * PageSize < m + PageSize
  BY PagesBound
<1>3. (f + p) * PageSize = f * PageSize + p * PageSize
  BY <1>1, <1>2
<1>4. f * PageSize \in Nat
  BY <1>1
<1>5. QED BY <1>1, <1>2, <1>3, <1>4, PagesUnique

LEMMA PagesOfFull == ASSUME NEW f \in Nat PROVE Pages(f * PageSize) = f
<1>1. PageSize \in Nat \ {0}
  BY StoreAssumption
<1>2. f * PageSize \in Nat
  BY <1>1
<1>3. QED BY <1>1, <1>2, PagesUnique

-----------------------------------------------------------------------------
(* Blocks.  A place is a position in an address list.  The places that a   *)
(* key uses are those of its list, and of the list a writer fills; a       *)
(* writer that releases the old list uses what is left of it.              *)
Settled(k) == \A t \in Threads : op[t].key = k => ~Releasing(t)
InOwn(k, l, i) ==
  /\ Settled(k) /\ mapping[k] = l /\ l # None
  /\ list[l].size >= 0 /\ i \in 1..Pages(list[l].size)
Fills(t, l, i) ==
  \/ op[t].pc = "blocks" /\ l = op[t].new /\ i \in op[t].from + 1..op[t].from + op[t].k
  \/ op[t].pc = "write" /\ l = op[t].new /\ i \in op[t].from + 1..op[t].from + op[t].n
  \/ op[t].pc = "release" /\ l = op[t].old /\ i \in op[t].k + 1..Pages(list[l].size)
  \/ op[t].pc \in {"release", "swap", "keep"} /\ l = op[t].new /\ l # None
     /\ list[l].size >= 0 /\ i \in 1..Pages(list[l].size)
Uses(k, l, i) == InOwn(k, l, i) \/ \E t \in Threads : op[t].key = k /\ Fills(t, l, i)

Free == BagToSet(free)
FreeOnce == \A b \in Free : free[b] = 1
InUse == \A k \in Keys, l \in Lists, i \in Nat :
  Uses(k, l, i) => list[l].at[i] \in Blocks /\ list[l].at[i] \notin Free
UsedOnce == \A k, j \in Keys : \A l, m \in Lists : \A i, h \in Nat :
  Uses(k, l, i) /\ Uses(j, m, h) /\ list[l].at[i] = list[m].at[h] => k = j /\ l = m /\ i = h
NoneLost == \A b \in Blocks : b \in Free \/ \E k \in Keys, l \in Lists, i \in Nat : Uses(k, l, i) /\ list[l].at[i] = b
Parted == FreeOnce /\ InUse /\ UsedOnce /\ NoneLost

(* The block at position i of a value of n records holds its part of them. *)
Deep(l, i, n) ==
  LET b == list[l].at[i] IN Len(disk[b]) >= PageSize \/ Len(disk[b]) >= n - (i - 1) * PageSize
DeepOwn(k) == \A l \in Lists, i \in Nat : InOwn(k, l, i) => Deep(l, i, list[l].size)
DeepFor(t) == \A i \in Nat :
  /\ op[t].pc = "write" /\ i \in op[t].from + 1..op[t].from + op[t].k =>
       Deep(op[t].new, i, op[t].from * PageSize + Len(op[t].value))
  /\ op[t].pc \in {"release", "swap", "keep"} /\ op[t].new # None /\ i \in 1..Pages(list[op[t].new].size) =>
       Deep(op[t].new, i, list[op[t].new].size)
Deeper == (\A k \in Keys : DeepOwn(k)) /\ \A t \in Threads : DeepFor(t)

BlocksTyped ==
  /\ list \in [Lists -> [size : Int, at : [1..BlockLimit -> Blocks \cup {None}]]]
  /\ \A l \in Lists : list[l].size = -1 \/ (list[l].size >= 0 /\ Pages(list[l].size) < BlockLimit)
  /\ IsABag(free) /\ Free \subseteq Blocks
  /\ disk \in [Blocks -> Seq(Records)]
  /\ \A t \in Threads : op[t].from \in Nat /\ op[t].k \in Nat /\ op[t].n \in Nat

(* What a writer has counted. *)
Sharing(o) ==
  /\ o.from * PageSize <= list[o.old].size
  /\ o.old = o.new => list[o.new].size = o.from * PageSize
Counted(t) ==
  LET o == op[t] IN
  /\ o.pc = "called" => o.k = 0 /\ o.n = 0 /\ o.from = 0
  /\ o.pc = "called" /\ o.call \in {"put", "merge"} => o.arg \in Inputs
  /\ o.pc = "called" /\ o.call = "merge" => list[mapping[o.key]].size >= 0
  /\ o.pc \in {"spare", "blocks", "write"} =>
       /\ o.value \in Seq(Records)
       /\ o.from + o.n = Pages(o.from * PageSize + Len(o.value)) /\ o.from + o.n < BlockLimit
       /\ IF o.old = None THEN o.from = 0 /\ list[o.new].size < 0 ELSE Sharing(o)
  /\ o.pc = "spare" => o.k = 0
  /\ o.pc \in {"blocks", "write"} => o.k <= o.n
  /\ o.pc \in {"blocks", "write"} /\ o.old # None /\ o.old # o.new =>
       \A i \in 1..o.from : list[o.new].at[i] = list[o.old].at[i]
  /\ o.pc \in {"release", "swap", "keep"} /\ o.new # None => list[o.new].size >= 0

BlockSafe == ListSafe /\ BlocksTyped /\ (\A t \in Threads : Counted(t)) /\ Parted /\ Deeper
-----------------------------------------------------------------------------
LEMMA OpFrames == ASSUME ListSafe PROVE \E W : op \in [Threads -> Frames(W)]
BY DEF ListSafe, Shaped

(* While an operation that writes is under way, only readers share its     *)
(* key: the places of the key are its own.                                 *)
Mine(t, l, i) ==
  \/ Fills(t, l, i)
  \/ /\ ~Releasing(t) /\ l = mapping[op[t].key] /\ l # None
     /\ list[l].size >= 0 /\ i \in 1..Pages(list[l].size)

LEMMA WriterAlone ==
  ASSUME ListSafe, NEW t \in Threads, op[t].pc # "idle", op[t].call # "get"
  PROVE  /\ op[t].key \in Keys
         /\ \A u \in Threads : u # t /\ op[u].key = op[t].key =>
              op[u].call = "get" /\ op[u].new = None /\ op[u].pc \in {"called", "read", "done"}
         /\ op[t].pc # "unmap" => ~Gone(op[t].key)
         /\ \A l, i : InOwn(op[t].key, l, i) <=>
              /\ ~Releasing(t) /\ l = mapping[op[t].key] /\ l # None
              /\ list[l].size >= 0 /\ i \in 1..Pages(list[l].size)
         /\ \A l, i : Uses(op[t].key, l, i) <=> Mine(t, l, i)
<1>1. op[t].key \in Keys
  BY FrameOf
<1>2. \A u \in Threads : u # t /\ op[u].key = op[t].key =>
        op[u].call = "get" /\ op[u].new = None /\ op[u].pc \in {"called", "read", "done"}
  BY <1>1, FrameOf, StoreAssumption DEF ListSafe, Alone, Staged, Fits
<1>3. op[t].pc # "unmap" => ~Gone(op[t].key)
  BY <1>2 DEF Gone
<1>4. Settled(op[t].key) <=> ~Releasing(t)
  BY <1>2 DEF Settled, Releasing
<1>5. \A u \in Threads : u # t /\ op[u].key = op[t].key => \A l, i : ~Fills(u, l, i)
  BY <1>2 DEF Fills
<1>6. \A l, i : InOwn(op[t].key, l, i) <=>
              /\ ~Releasing(t) /\ l = mapping[op[t].key] /\ l # None
              /\ list[l].size >= 0 /\ i \in 1..Pages(list[l].size)
  BY <1>4 DEF InOwn
<1>7. \A l, i : Uses(op[t].key, l, i) <=> Mine(t, l, i)
  BY <1>5, <1>6 DEF Uses, Mine
<1>8. QED BY <1>1, <1>2, <1>3, <1>6, <1>7

LEMMA WriterPlaces ==
  ListSafe => \A u \in Threads : \A k \in Keys :
    op[u].key = k /\ op[u].call # "get" => \A l, i : Uses(k, l, i) <=> Mine(u, l, i)
<1> SUFFICES ASSUME ListSafe, NEW t \in Threads, NEW k \in Keys, op[t].key = k, op[t].call # "get"
             PROVE  \A l, i : Uses(k, l, i) <=> Mine(t, l, i)
  OBVIOUS
<1>1. op[t].pc # "idle"
  BY FrameOf, StoreAssumption DEF Staged, Fits
<1>2. QED BY <1>1, WriterAlone

LEMMA WriterPlacesNext ==
  (ListSafe => \A u \in Threads : \A k \in Keys :
    op[u].key = k /\ op[u].call # "get" => \A l, i : Uses(k, l, i) <=> Mine(u, l, i))'
BY WriterPlaces, PTL

(* The list of a place belongs to the key, or to a writer of it.           *)
LEMMA OwnHas == ASSUME ListSafe, NEW k \in Keys, NEW l, NEW i, InOwn(k, l, i) PROVE Owns(k, l)
<1>1. ~Gone(k)
  BY DEF InOwn, Settled, Releasing, Gone
<1>2. QED BY <1>1 DEF InOwn, Owns

LEMMA FillsHas ==
  ASSUME ListSafe, NEW t \in Threads, NEW l, NEW i, Fills(t, l, i)
  PROVE  /\ op[t].call # "get" /\ op[t].pc # "idle" /\ op[t].key \in Keys /\ l \in Lists
         /\ \/ op[t].pc = "release" /\ l = op[t].old /\ Owns(op[t].key, l)
            \/ l = op[t].new
<1>1. op[t].pc \in {"blocks", "write", "release", "swap", "keep"}
  BY DEF Fills
<1>2. op[t].call # "get" /\ op[t].key \in Keys
  BY <1>1, FrameOf DEF Staged, Fits
<1>3. op[t].new # None \/ op[t].pc = "release"
  BY <1>1, FrameOf DEF Staged, Fits
<1>4. l \in Lists /\ (l = op[t].new \/ (op[t].pc = "release" /\ l = op[t].old))
  BY <1>1, FrameOf DEF Fills, Staged, Fits
<1>5. op[t].pc = "release" /\ l = op[t].old => Owns(op[t].key, l)
  BY <1>1, <1>2, FrameOf, WriterAlone DEF Owns, Staged, Fits
<1>6. QED BY <1>1, <1>2, <1>4, <1>5

(* A step of a thread t at key K, that changes at most the list L, which   *)
(* no other key or thread has.                                             *)
Within(t, K, L) ==
  /\ t \in Threads /\ K \in Keys
  /\ op[t].key \in {K, None} /\ op'[t].key \in {K, None}
  /\ \A u \in Threads : u # t => op'[u] = op[u]
  /\ \A k \in Keys : k # K => mapping'[k] = mapping[k]
  /\ \/ list' = list
     \/ /\ \A l \in Lists : l # L => list'[l] = list[l]
        /\ \A k \in Keys : k # K => ~Owns(k, L)
        /\ \A u \in Threads : u # t => op[u].new # L

LEMMA OthersUse ==
  ASSUME ListSafe, NEW t, NEW K, NEW L, Within(t, K, L),
         NEW k \in Keys, k # K, NEW l \in Lists, NEW i \in Nat
  PROVE  /\ InOwn(k, l, i)' <=> InOwn(k, l, i)
         /\ Uses(k, l, i)' <=> Uses(k, l, i)
         /\ Uses(k, l, i) => list'[l] = list[l]
<1>0. k # None /\ t \in Threads
  BY StoreAssumption DEF Within
<1>1. Settled(k)' <=> Settled(k)
  BY <1>0 DEF Settled, Releasing, Within
<1>2. mapping'[k] = mapping[k]
  BY DEF Within
<1>3. mapping[k] = l /\ Settled(k) /\ l # None => Owns(k, l)
  BY DEF Settled, Releasing, Owns, Gone
<1>4. mapping[k] = l /\ Settled(k) /\ l # None => list'[l] = list[l]
  BY <1>3 DEF Within
<1>5. InOwn(k, l, i)' <=> InOwn(k, l, i)
  BY <1>1, <1>2, <1>4 DEF InOwn
<1>6. ASSUME NEW u \in Threads, op[u].key = k
      PROVE (Fills(u, l, i)' <=> Fills(u, l, i)) /\ (Fills(u, l, i) => list'[l] = list[l])
  <2>1. u # t /\ op'[u] = op[u]
    BY <1>0, <1>6 DEF Within
  <2>2. CASE list'[l] = list[l]
    BY <2>1, <2>2 DEF Fills
  <2>3. CASE list'[l] # list[l]
    <3>1. l = L /\ ~Owns(k, l) /\ op[u].new # l
      BY <2>1, <2>3 DEF Within
    <3>2. ~Fills(u, l, i)
      BY <1>6, <3>1, FillsHas
    <3>3. op[u].pc = "release" => op[u].old # l
      <4>1. ASSUME op[u].pc = "release", op[u].old = l PROVE FALSE
        <5>1. op[u].call # "get" /\ l = mapping[k] /\ l # None
          BY <1>6, <4>1, FrameOf DEF Staged, Fits
        <5>2. ~Gone(k)
          BY <1>6, <4>1, <5>1, WriterAlone
        <5>3. QED BY <3>1, <5>1, <5>2 DEF Owns
      <4>2. QED BY <4>1
    <3>4. ~Fills(u, l, i)'
      BY <2>1, <3>1, <3>3 DEF Fills
    <3>5. QED BY <3>2, <3>4
  <2>4. QED BY <2>2, <2>3
<1>7. \A u \in Threads : op'[u].key = k <=> op[u].key = k
  BY <1>0 DEF Within
<1>8. Uses(k, l, i)' <=> Uses(k, l, i)
  BY <1>5, <1>6, <1>7 DEF Uses
<1>9. Uses(k, l, i) => list'[l] = list[l]
  BY <1>4, <1>6 DEF Uses, InOwn
<1>10. QED BY <1>5, <1>8, <1>9
LEMMA OthersCounted ==
  ASSUME ListSafe, NEW t, NEW K, NEW L, Within(t, K, L), NEW u \in Threads, u # t, Counted(u),
         op[u].key # K \/ op[u].call = "get"
  PROVE  Counted(u)'
<1>1. op'[u] = op[u]
  BY DEF Within
<1>2. CASE op[u].call = "get" \/ op[u].pc = "idle"
  <2>1. op[u].pc \in {"idle", "called", "read", "done"}
    BY <1>2, FrameOf DEF Staged, Fits
  <2>2. op[u].call \notin {"put", "merge"}
    BY <1>2, FrameOf DEF Staged, Fits
  <2>3. QED BY <1>1, <2>1, <2>2 DEF Counted
<1>3. CASE op[u].call # "get" /\ op[u].pc # "idle"
  <2>1. op[u].key \in Keys /\ op[u].key # K
    BY <1>3, FrameOf
  <2>2. mapping'[op[u].key] = mapping[op[u].key]
    BY <2>1 DEF Within
  <2>3. op[u].pc # "unmap" /\ mapping[op[u].key] # None => list'[mapping[op[u].key]] = list[mapping[op[u].key]]
    <3>1. ASSUME op[u].pc # "unmap", mapping[op[u].key] # None PROVE Owns(op[u].key, mapping[op[u].key])
      BY <1>3, <3>1, WriterAlone DEF Owns
    <3>2. mapping[op[u].key] \in Lists \cup {None}
      BY <2>1, FrameOf
    <3>3. QED BY <2>1, <3>1, <3>2 DEF Within
  <2>4. op[u].new # None => list'[op[u].new] = list[op[u].new]
    BY FrameOf DEF Within
  <2>5. op[u].pc \in {"spare", "blocks", "write"} /\ op[u].old # None => list'[op[u].old] = list[op[u].old]
    BY <2>3, <2>4, FrameOf DEF Staged, Fits
  <2>6. op[u].pc \in {"blocks", "write"} => op[u].new # None
    BY FrameOf DEF Staged, Fits
  <2>7. CASE op[u].pc = "called"
    <3>1. op[u].call = "merge" => mapping[op[u].key] # None
      BY <2>7, FrameOf DEF Staged, Fits
    <3>2. QED BY <1>1, <2>2, <2>3, <2>7, <3>1 DEF Counted
  <2>8. CASE op[u].pc = "spare"
    <3>1. op[u].old # None /\ op[u].new = None
      BY <2>8, FrameOf DEF Staged, Fits
    <3>2. list'[op[u].old] = list[op[u].old]
      BY <2>5, <2>8, <3>1
    <3>3. QED BY <1>1, <2>8, <3>1, <3>2 DEF Counted, Sharing
  <2>9. CASE op[u].pc \in {"blocks", "write"}
    <3>1. list'[op[u].new] = list[op[u].new] /\ (op[u].old # None => list'[op[u].old] = list[op[u].old])
      BY <2>4, <2>5, <2>6, <2>9
    <3>2. QED BY <1>1, <2>9, <3>1 DEF Counted, Sharing
  <2>10. CASE op[u].pc \notin {"called", "spare", "blocks", "write"}
    BY <1>1, <2>4, <2>10 DEF Counted
  <2>11. QED BY <2>7, <2>8, <2>9, <2>10
<1>4. QED BY <1>2, <1>3

LEMMA OthersDeep ==
  ASSUME ListSafe, Deeper, NEW t, NEW K, NEW L, Within(t, K, L), disk' = disk
  PROVE  /\ \A k \in Keys : k # K => DeepOwn(k)'
         /\ \A u \in Threads : u # t => DeepFor(u)'
<1>1. ASSUME NEW k \in Keys, NEW l \in Lists, NEW i \in Nat, k # K, InOwn(k, l, i)'
      PROVE  Deep(l, i, list[l].size)'
  <2>1. InOwn(k, l, i) /\ list'[l] = list[l]
    BY <1>1, OthersUse DEF Uses
  <2>2. Deep(l, i, list[l].size)
    BY <2>1 DEF Deeper, DeepOwn
  <2>3. QED BY <2>1, <2>2 DEF Deep
<1>2. ASSUME NEW u \in Threads, u # t PROVE DeepFor(u)'
  <2>1. op'[u] = op[u] /\ DeepFor(u)
    BY <1>2 DEF Within, Deeper
  <2>2. op[u].new \in Lists => list'[op[u].new] = list[op[u].new]
    BY <1>2 DEF Within
  <2>3. op[u].new \in Lists \cup {None} /\ (op[u].pc = "write" => op[u].new # None)
    BY FrameOf DEF Staged, Fits
  <2>4. QED BY <2>1, <2>2, <2>3 DEF DeepFor, Deep
<1>3. QED BY <1>1, <1>2 DEF DeepOwn

(* The same places with the same blocks. *)
LEMMA PartedSame ==
  ASSUME Parted, free' = free,
         \A k \in Keys, l \in Lists, i \in Nat : Uses(k, l, i)' <=> Uses(k, l, i),
         \A k \in Keys, l \in Lists, i \in Nat : Uses(k, l, i) => list'[l].at[i] = list[l].at[i]
  PROVE  Parted'
<1>1. Free' = Free
  BY DEF Free
<1>2. FreeOnce' /\ InUse'
  BY <1>1 DEF Parted, FreeOnce, InUse
<1>3. UsedOnce'
  BY DEF Parted, UsedOnce
<1>4. NoneLost'
  BY <1>1 DEF Parted, NoneLost
<1>5. QED BY <1>2, <1>3, <1>4 DEF Parted

(* A writer whose places stay, or change their names only.                 *)
LEMMA WriterSame ==
  ASSUME ListSafe, ListSafe', Parted, NEW t, NEW K, NEW L, Within(t, K, L), free' = free,
         op[t].key = K, op[t].call # "get", op'[t].key = K, op'[t].call # "get",
         \A l \in Lists, i \in Nat : Mine(t, l, i)' <=> Mine(t, l, i),
         \A l \in Lists, i \in Nat : Mine(t, l, i) => list'[l].at[i] = list[l].at[i]
  PROVE  Parted'
<1>1. t \in Threads /\ K \in Keys /\ op[t].pc # "idle"
  BY FrameOf, StoreAssumption DEF Within, Staged, Fits
<1>3. \A l, i : Uses(K, l, i) <=> Mine(t, l, i)
  BY <1>1, WriterAlone
<1>4. \A l, i : Uses(K, l, i)' <=> Mine(t, l, i)'
  BY <1>1, WriterPlacesNext
<1>5. ASSUME NEW k \in Keys, NEW l \in Lists, NEW i \in Nat
      PROVE  (Uses(k, l, i)' <=> Uses(k, l, i)) /\ (Uses(k, l, i) => list'[l].at[i] = list[l].at[i])
  <2>1. CASE k = K
    BY <1>3, <1>4, <2>1
  <2>2. CASE k # K
    BY <2>2, OthersUse
  <2>3. QED BY <2>1, <2>2
<1>6. QED BY <1>5, PartedSame
-----------------------------------------------------------------------------
LEMMA BlocksInit == Init => BlockSafe
<1> SUFFICES ASSUME Init PROVE BlockSafe
  OBVIOUS
<1>1. ListSafe
  BY ListInit
<1>2. /\ op = [t \in Threads |-> Idle] /\ mapping = [k \in Keys |-> None] /\ free = Queue(Blocks)
      /\ list = [l \in Lists |-> Fresh] /\ disk = [b \in Blocks |-> << >>]
  BY DEF Init
<1>3. \A t \in Threads : op[t].pc = "idle" /\ op[t].from = 0 /\ op[t].k = 0 /\ op[t].n = 0
  BY <1>2 DEF Idle
<1>4. IsABag(free) /\ Free = Blocks /\ \A b \in Blocks : free[b] = 1
  BY <1>2, Queued DEF Free
<1>5. BlocksTyped
  <2>1. Fresh \in [size : Int, at : [1..BlockLimit -> Blocks \cup {None}]] /\ Fresh.size = -1
    BY DEF Fresh
  <2>2. << >> \in Seq(Records)
    OBVIOUS
  <2>3. list \in [Lists -> [size : Int, at : [1..BlockLimit -> Blocks \cup {None}]]]
        /\ disk \in [Blocks -> Seq(Records)]
    BY <1>2, <2>1, <2>2
  <2>4. \A l \in Lists : list[l].size = -1
    BY <1>2, <2>1
  <2>5. QED BY <1>3, <1>4, <2>3, <2>4 DEF BlocksTyped
<1>6. \A t \in Threads : Counted(t)
  BY <1>3 DEF Counted
<1>7. \A k \in Keys, l \in Lists, i \in Nat : ~Uses(k, l, i)
  BY <1>2, <1>3 DEF Uses, InOwn, Fills
<1>8. Parted
  BY <1>4, <1>7 DEF Parted, FreeOnce, InUse, UsedOnce, NoneLost
<1>9. Deeper
  BY <1>3, <1>7 DEF Deeper, DeepOwn, DeepFor, Uses
<1>10. QED BY <1>1, <1>5, <1>6, <1>8, <1>9 DEF BlockSafe

(* A step of a thread that has no places, and gets none. *)
LEMMA QuietBlocks ==
  ASSUME BlockSafe, ListSafe', NEW t \in Threads, UNCHANGED <<mapping, list, free, disk>>,
         \A u \in Threads : u # t => op'[u] = op[u],
         op[t].pc \in {"idle", "called", "read", "done", "failed", "spare"},
         \/ op'[t].pc \in {"idle", "called", "read", "done", "failed", "spare"}
         \/ op'[t].pc = "blocks" /\ op'[t].k = 0,
         op'[t].from \in Nat, op'[t].k \in Nat, op'[t].n \in Nat, Counted(t)'
  PROVE  BlockSafe'
<1>1. \A k : Settled(k)' <=> Settled(k)
  BY DEF Settled, Releasing
<1>2. \A k, l, i : InOwn(k, l, i)' <=> InOwn(k, l, i)
  BY <1>1 DEF InOwn
<1>3. \A l \in Lists, i \in Nat : ~Fills(t, l, i) /\ ~Fills(t, l, i)'
  <2>1. ASSUME NEW l \in Lists, NEW i \in Nat PROVE ~Fills(t, l, i)
    BY DEF Fills
  <2>2. ASSUME NEW l \in Lists, NEW i \in Nat PROVE ~Fills(t, l, i)'
    <3>1. CASE op'[t].pc = "blocks" /\ op'[t].k = 0
      <4>1. PICK from \in Nat : from = op'[t].from
        OBVIOUS
      <4>2. i \notin from + 1..from + 0
        BY <4>1
      <4>3. QED BY <3>1, <4>1, <4>2 DEF Fills
    <3>2. CASE op'[t].pc \in {"idle", "called", "read", "done", "failed", "spare"}
      BY <3>2 DEF Fills
    <3>3. QED BY <3>1, <3>2
  <2>3. QED BY <2>1, <2>2
<1>4. \A u \in Threads : u # t => \A l, i : Fills(u, l, i)' <=> Fills(u, l, i)
  BY DEF Fills
<1>5. \A k \in Keys, l \in Lists, i \in Nat : Uses(k, l, i)' <=> Uses(k, l, i)
  BY <1>2, <1>3, <1>4 DEF Uses
<1>6. Parted'
  BY <1>5, PartedSame DEF BlockSafe
<1>7. \A u \in Threads : Counted(u)'
  <2>1. ASSUME NEW u \in Threads, u # t PROVE Counted(u)'
    <3>1. Counted(u) /\ op'[u] = op[u]
      BY <2>1 DEF BlockSafe
    <3>2. QED BY <3>1 DEF Counted, Sharing
  <2>2. QED BY <2>1
<1>8. BlocksTyped'
  BY DEF BlockSafe, BlocksTyped, Free
<1>9. Deeper'
  <2>1. \A k \in Keys : DeepOwn(k)'
    BY <1>2 DEF BlockSafe, Deeper, DeepOwn, Deep
  <2>2. \A u \in Threads : u # t => DeepFor(u)'
    <3>1. ASSUME NEW u \in Threads, u # t PROVE DeepFor(u)'
      <4>1. DeepFor(u) /\ op'[u] = op[u]
        BY <3>1 DEF BlockSafe, Deeper
      <4>2. QED BY <4>1 DEF DeepFor, Deep
    <3>2. QED BY <3>1
  <2>3. DeepFor(t)'
    BY DEF DeepFor
  <2>4. QED BY <2>1, <2>2, <2>3 DEF Deeper
<1>10. QED BY <1>6, <1>7, <1>8, <1>9 DEF BlockSafe

(* A step of a writer. *)
LEMMA WriterStep ==
  ASSUME BlockSafe, ListSafe', NEW t, NEW K, NEW L, Within(t, K, L), disk' = disk,
         op[t].key = K, op[t].call # "get", BlocksTyped', Counted(t)', Parted', DeepFor(t)', DeepOwn(K)'
  PROVE  BlockSafe'
<1>1. t \in Threads /\ K \in Keys /\ ListSafe /\ Deeper /\ op[t].pc # "idle"
  BY FrameOf, StoreAssumption DEF Within, BlockSafe, Staged, Fits
<1>2. \A u \in Threads : Counted(u)'
  <2>1. \A u \in Threads : u # t /\ op[u].key = K => op[u].call = "get"
    BY <1>1, WriterAlone
  <2>2. \A u \in Threads : u # t => Counted(u)'
    BY <1>1, <2>1, OthersCounted DEF BlockSafe
  <2>3. QED BY <2>2
<1>3. Deeper'
  BY <1>1, OthersDeep DEF Deeper
<1>4. QED BY <1>2, <1>3 DEF BlockSafe
-----------------------------------------------------------------------------
LEMMA Numbers ==
  ASSUME BlockSafe, NEW t \in Threads
  PROVE  ListSafe /\ Counted(t) /\ op[t].from \in Nat /\ op[t].k \in Nat /\ op[t].n \in Nat
BY DEF BlockSafe, BlocksTyped

LEMMA ReaderBlocks ==
  ASSUME BlockSafe, ListSafe', NEW t \in Threads, Refuse(t) \/ Get(t) \/ ReadBlock(t) \/ ReadEnd(t) \/ Return(t)
  PROVE  BlockSafe'
<1>1. PICK W : op \in [Threads -> Frames(W)]
  BY OpFrames, Numbers
<1>2. UNCHANGED <<mapping, list, free, disk>>
  BY DEF Refuse, Get, ReadBlock, ReadEnd, Return
<1>3. CASE Refuse(t)
  <2>1. \A u \in Threads : u # t => op'[u] = op[u]
    BY <1>1, <1>3 DEF Refuse, To
  <2>2. op'[t].pc = "failed" /\ op'[t].from = op[t].from /\ op'[t].k = op[t].k /\ op'[t].n = op[t].n
    BY <1>1, <1>3 DEF Refuse, To, Frames
  <2>3. op[t].pc = "called"
    BY <1>3 DEF Refuse, At
  <2>4. Counted(t)'
    BY <2>2 DEF Counted
  <2>5. QED BY <1>2, <2>1, <2>2, <2>3, <2>4, Numbers, QuietBlocks
<1>4. CASE Get(t)
  <2>1. \A u \in Threads : u # t => op'[u] = op[u]
    BY <1>1, <1>4 DEF Get
  <2>2. op'[t].pc = "read" /\ op'[t].from = op[t].from /\ op'[t].k = 1 /\ op'[t].n = op[t].n
    BY <1>1, <1>4 DEF Get, Frames
  <2>3. op[t].pc = "called"
    BY <1>4 DEF Get, Called, At
  <2>4. Counted(t)'
    BY <2>2 DEF Counted
  <2>5. QED BY <1>2, <2>1, <2>2, <2>3, <2>4, Numbers, QuietBlocks
<1>5. CASE ReadBlock(t)
  <2>1. \A u \in Threads : u # t => op'[u] = op[u]
    BY <1>1, <1>5 DEF ReadBlock
  <2>2. op'[t].pc = op[t].pc /\ op'[t].from = op[t].from /\ op'[t].k = op[t].k + 1 /\ op'[t].n = op[t].n
    BY <1>1, <1>5 DEF ReadBlock, Frames
  <2>3. op[t].pc = "read"
    BY <1>5 DEF ReadBlock, At
  <2>4. Counted(t)'
    BY <2>2, <2>3 DEF Counted
  <2>5. QED BY <1>2, <2>1, <2>2, <2>3, <2>4, Numbers, QuietBlocks
<1>6. CASE ReadEnd(t)
  <2>1. \A u \in Threads : u # t => op'[u] = op[u]
    BY <1>1, <1>6 DEF ReadEnd, To
  <2>2. op'[t].pc = "done" /\ op'[t].from = op[t].from /\ op'[t].k = op[t].k /\ op'[t].n = op[t].n
    BY <1>1, <1>6 DEF ReadEnd, To, Frames
  <2>3. op[t].pc = "read"
    BY <1>6 DEF ReadEnd, At
  <2>4. Counted(t)'
    BY <2>2 DEF Counted
  <2>5. QED BY <1>2, <2>1, <2>2, <2>3, <2>4, Numbers, QuietBlocks
<1>7. CASE Return(t)
  <2>1. (\A u \in Threads : u # t => op'[u] = op[u]) /\ op'[t] = Idle
    BY <1>1, <1>7 DEF Return
  <2>2. op'[t].pc = "idle" /\ op'[t].from = 0 /\ op'[t].k = 0 /\ op'[t].n = 0
    BY <2>1 DEF Idle
  <2>3. op[t].pc \in {"done", "failed"}
    BY <1>7 DEF Return
  <2>4. Counted(t)'
    BY <2>2 DEF Counted
  <2>5. QED BY <1>2, <2>1, <2>2, <2>3, <2>4, QuietBlocks
<1>8. QED BY <1>3, <1>4, <1>5, <1>6, <1>7

LEMMA CallBlocks ==
  ASSUME BlockSafe, ListSafe', NEW t \in Threads, NEW o \in Calls, NEW k \in Keys, NEW v \in Inputs, Call(t, o, k, v)
  PROVE  BlockSafe'
<1>1. PICK W : op \in [Threads -> Frames(W)]
  BY OpFrames, Numbers
<1>2. PICK f : f = [Idle EXCEPT !.pc = "called", !.call = o, !.key = k,
                                !.arg = IF o \in {"put", "merge"} THEN v ELSE None]
  OBVIOUS
<1>3. /\ UNCHANGED <<mapping, list, free, disk>> /\ op[t].pc = "idle" /\ op' = [op EXCEPT ![t] = f]
      /\ o \in {"get", "merge"} => list[mapping[k]].size >= 0
  BY <1>2 DEF Call, At
<1>4. op'[t] = f /\ \A u \in Threads : u # t => op'[u] = op[u]
  BY <1>1, <1>3
<1>5. /\ f.pc = "called" /\ f.call = o /\ f.key = k /\ f.from = 0 /\ f.k = 0 /\ f.n = 0
      /\ o \in {"put", "merge"} => f.arg = v
  BY <1>2 DEF Idle
<1>6. Counted(t)'
  BY <1>3, <1>4, <1>5 DEF Counted
<1>7. QED BY <1>3, <1>4, <1>5, <1>6, QuietBlocks

LEMMA PutBlocks == ASSUME BlockSafe, ListSafe', NEW t \in Threads, Put(t) PROVE BlockSafe'
<1>1. PICK W : op \in [Threads -> Frames(W)]
  BY OpFrames, Numbers
<1>2. UNCHANGED <<mapping, list, free, disk>> /\ op[t].pc = "called" /\ op[t].call = "put"
  BY DEF Put, Called, At
<1>3. PICK l \in Lists : l = mapping[op[t].key]
  BY <1>2, Numbers, FrameOf DEF Put
<1>4. op[t].arg \in Seq(Records) /\ op[t].k = 0 /\ op[t].from = 0 /\ op[t].old = None /\ op[t].new = None /\ l # None
  BY <1>2, Numbers, FrameOf, StoreAssumption DEF Counted, Staged, Fits
<1>5. PICK v \in Seq(Records), n \in Nat : v = op[t].arg /\ n = Pages(Len(v)) /\ n < BlockLimit
  <2>1. Len(op[t].arg) \in Nat
    BY <1>4
  <2>2. Pages(Len(op[t].arg)) \in Nat
    BY <2>1, PagesBound
  <2>3. QED BY <1>4, <2>2 DEF Put
<1>6. PageSize \in Nat \ {0} /\ Len(v) \in Nat
  BY <1>5, StoreAssumption
<1>7. 0 * PageSize + Len(v) = Len(v) /\ 0 * PageSize = 0 /\ 0 + n = n
  <2>1. PICK m \in Nat : m = Len(v)
    BY <1>6
  <2>2. 0 * PageSize + m = m /\ 0 * PageSize = 0 /\ 0 + n = n
    BY <1>5, <1>6
  <2>3. QED BY <2>1, <2>2
<1>8. list[l].size \in Int
  BY <1>3 DEF BlockSafe, BlocksTyped
<1>9. CASE list[l].size < 0
  <2>1. op' = [op EXCEPT ![t].pc = "blocks", ![t].new = l, ![t].value = v, ![t].n = n]
    BY <1>3, <1>5, <1>9 DEF Put
  <2>2. \A u \in Threads : u # t => op'[u] = op[u]
    BY <1>1, <2>1
  <2>3. /\ op'[t].pc = "blocks" /\ op'[t].new = l /\ op'[t].value = v /\ op'[t].n = n
        /\ op'[t].k = 0 /\ op'[t].from = 0 /\ op'[t].old = None
    BY <1>1, <1>4, <2>1 DEF Frames
  <2>4. Counted(t)'
    BY <1>2, <1>4, <1>5, <1>7, <1>9, <2>3 DEF Counted
  <2>5. QED BY <1>2, <2>2, <2>3, <2>4, QuietBlocks
<1>10. CASE ~(list[l].size < 0)
  <2>1. op' = [op EXCEPT ![t].pc = "spare", ![t].old = l, ![t].value = v, ![t].n = n]
    BY <1>3, <1>5, <1>10 DEF Put
  <2>2. \A u \in Threads : u # t => op'[u] = op[u]
    BY <1>1, <2>1
  <2>3. /\ op'[t].pc = "spare" /\ op'[t].old = l /\ op'[t].value = v /\ op'[t].n = n
        /\ op'[t].k = 0 /\ op'[t].from = 0 /\ op'[t].new = None
    BY <1>1, <1>4, <2>1 DEF Frames
  <2>4. Counted(t)'
    BY <1>2, <1>4, <1>5, <1>7, <1>8, <1>10, <2>3 DEF Counted, Sharing
  <2>5. QED BY <1>2, <2>2, <2>3, <2>4, QuietBlocks
<1>11. QED BY <1>9, <1>10

(* The value that a Merge writes: what it adds, behind the part of the last *)
(* block that is filled.                                                   *)
LEMMA TailLength ==
  ASSUME NEW s \in Seq(Records), NEW v \in Seq(Records), NEW p \in Nat, p <= Len(s)
  PROVE  SubSeq(s, 1, p) \o v \in Seq(Records) /\ Len(SubSeq(s, 1, p) \o v) = p + Len(v)
<1>1. SubSeq(s, 1, p) \in Seq(Records) /\ Len(SubSeq(s, 1, p)) = p
  OBVIOUS
<1>2. QED BY <1>1

LEMMA MergeBlocks == ASSUME BlockSafe, ListSafe', NEW t \in Threads, Merge(t) PROVE BlockSafe'
<1>1. PICK W : op \in [Threads -> Frames(W)]
  BY OpFrames, Numbers
<1>2. UNCHANGED <<mapping, list, free, disk>> /\ op[t].pc = "called" /\ op[t].call = "merge"
  BY DEF Merge, Called, At
<1>3. PICK l \in Lists : l = mapping[op[t].key]
  BY <1>2, Numbers, FrameOf DEF Staged, Fits
<1>4. /\ op[t].arg \in Seq(Records) /\ op[t].k = 0 /\ l # None
      /\ list[l].size \in Nat /\ op[t].key \in Keys
  <2>1. op[t].k = 0 /\ op[t].arg \in Inputs /\ list[l].size >= 0
    <3>1. Counted(t)
      BY Numbers
    <3>2. QED BY <1>2, <1>3, <3>1 DEF Counted
  <2>2. op[t].arg \in Seq(Records)
    BY <2>1, StoreAssumption
  <2>3. list[l].size \in Int
    BY <1>3 DEF BlockSafe, BlocksTyped
  <2>4. l # None
    BY <1>3, StoreAssumption
  <2>5. op[t].key \in Keys
    <3>1. ListSafe
      BY Numbers
    <3>2. QED BY <1>2, <3>1, FrameOf
  <2>6. QED BY <2>1, <2>2, <2>3, <2>4, <2>5
<1>5. PICK v \in Seq(Records), size \in Nat : v = op[t].arg /\ size = list[l].size
  BY <1>4
<1>6. PICK q \in Nat : q = Len(v)
  BY <1>5
<1>7. PageSize \in Nat \ {0}
  BY StoreAssumption
<1>8. PICK full \in Nat, part \in Nat :
        /\ full = size \div PageSize /\ part = size % PageSize /\ size = PageSize * full + part
        /\ part < PageSize
  <2>1. PICK c \in Nat, r \in 0..(PageSize - 1) :
          c = size \div PageSize /\ r = size % PageSize /\ size = PageSize * c + r
    BY <1>5, <1>7, Divided
  <2>2. r \in Nat /\ r < PageSize
    BY <1>7
  <2>3. QED BY <2>1, <2>2
<1>9. PICK f \in Nat : f = full * PageSize /\ size = f + part
  <2>1. full * PageSize \in Nat /\ PageSize * full = full * PageSize
    BY <1>7, <1>8
  <2>2. QED BY <1>8, <2>1
<1>10. PICK m \in Nat : m = part + q
  BY <1>6, <1>7, <1>8
<1>11. Pages(size + q) = full + Pages(m) /\ Pages(m) \in Nat /\ size + q = f + m
  <2>1. size + q = f + m
    BY <1>9, <1>10
  <2>2. Pages(full * PageSize + m) = full + Pages(m)
    BY <1>8, <1>10, PagesSum
  <2>3. Pages(m) \in Nat
    BY <1>10, PagesBound
  <2>4. QED BY <1>9, <2>1, <2>2, <2>3
<1>12. PICK n \in Nat : n = Pages(size + q) - full /\ n = Pages(m) /\ full + n = Pages(f + m) /\ full + n < BlockLimit
  <2>1. Pages(size + q) < BlockLimit
    BY <1>2, <1>3, <1>5, <1>6 DEF Merge
  <2>2. PICK n \in Nat : n = Pages(m)
    BY <1>11
  <2>3. PICK all \in Int : all = Pages(size + q) /\ all = full + n
    BY <1>8, <1>11, <2>2
  <2>4. all - full = n /\ Pages(f + m) = all
    BY <1>8, <1>11, <2>2, <2>3, SMTT(30)
  <2>5. all < BlockLimit
    BY <2>1, <2>3
  <2>6. QED BY <2>2, <2>3, <2>4, <2>5, SMTT(30)
<1>13. op' = [op EXCEPT ![t] = [op[t] EXCEPT !.from = full, !.n = n,
              !.pc = IF part # 0 THEN "spare" ELSE "blocks",
              !.old = l,
              !.new = IF part # 0 THEN None ELSE l,
              !.value = IF part # 0 THEN SubSeq(disk[list[l].at[full + 1]], 1, part) \o v ELSE v]]
  BY <1>3, <1>5, <1>6, <1>8, <1>12 DEF Merge
<1>14. \A u \in Threads : u # t => op'[u] = op[u]
  BY <1>1, <1>13
<1>15. CASE part # 0
  <2>1. PICK x : x = SubSeq(disk[list[l].at[full + 1]], 1, part) \o v
    OBVIOUS
  <2>2. /\ op'[t].pc = "spare" /\ op'[t].old = l /\ op'[t].value = x /\ op'[t].n = n
        /\ op'[t].k = 0 /\ op'[t].from = full /\ op'[t].new = None
    <3>1. op'[t] = [op[t] EXCEPT !.from = full, !.n = n, !.pc = "spare", !.old = l, !.new = None, !.value = x]
      BY <1>1, <1>13, <1>15, <2>1
    <3>2. PICK f0 \in Frames(W) : f0 = op[t]
      BY <1>1
    <3>3. QED BY <1>4, <3>1, <3>2 DEF Frames
  <2>3. PICK i \in Nat : i = full + 1 /\ i \in 1..Pages(size) /\ (i - 1) * PageSize = f
    <3>1. PICK p \in Nat : p = Pages(size) /\ size <= p * PageSize
      BY <1>5, PagesBound
    <3>2. full * PageSize < p * PageSize
      BY <1>7, <1>8, <1>9, <1>15, <3>1
    <3>3. full < p
      BY <1>7, <1>8, <3>1, <3>2, TimesOrder
    <3>4. full + 1 \in Nat /\ (full + 1) - 1 = full
      BY <1>8
    <3>5. full + 1 \in 1..p
      BY <1>8, <3>1, <3>3
    <3>6. QED BY <1>9, <3>1, <3>4, <3>5
  <2>4. InOwn(op[t].key, l, i)
    <3>1. ~Releasing(t)
      BY <1>2 DEF Releasing
    <3>2. op[t].pc # "idle" /\ op[t].call # "get" /\ ListSafe
      BY <1>2, Numbers
    <3>3. InOwn(op[t].key, l, i) <=>
            /\ ~Releasing(t) /\ l = mapping[op[t].key] /\ l # None
            /\ list[l].size >= 0 /\ i \in 1..Pages(list[l].size)
      BY <3>2, WriterAlone
    <3>4. list[l].size >= 0
      BY <1>4
    <3>5. QED BY <1>3, <1>4, <1>5, <2>3, <3>1, <3>3, <3>4
  <2>5. PICK s \in Seq(Records) : s = disk[list[l].at[full + 1]]
    <3>1. list[l].at[i] \in Blocks
      BY <1>4, <2>3, <2>4 DEF BlockSafe, Parted, InUse, Uses
    <3>2. QED BY <2>3, <3>1 DEF BlockSafe, BlocksTyped
  <2>6. Len(s) >= part
    <3>1. Deep(l, i, list[l].size)
      BY <1>4, <2>3, <2>4 DEF BlockSafe, Deeper, DeepOwn
    <3>2. Len(s) >= PageSize \/ Len(s) >= size - f
      BY <1>5, <2>3, <2>5, <3>1 DEF Deep
    <3>3. Len(s) \in Nat
      BY <2>5
    <3>4. QED BY <1>7, <1>8, <1>9, <3>2, <3>3
  <2>7. x \in Seq(Records) /\ Len(x) = m
    <3>1. part \in Nat /\ part <= Len(s)
      BY <1>7, <1>8, <2>5, <2>6
    <3>2. QED BY <1>6, <1>10, <2>1, <2>5, <3>1, TailLength
  <2>8. Counted(t)'
    <3>1. full * PageSize <= size
      BY <1>7, <1>8, <1>9
    <3>2. full * PageSize + Len(x) = f + m
      BY <1>9, <2>7
    <3>3. full + n = Pages(full * PageSize + Len(x)) /\ full + n < BlockLimit
      BY <1>12, <3>2
    <3>4. list'[l].size = size /\ l # None
      BY <1>2, <1>4, <1>5
    <3>5. Sharing(op[t])'
      BY <2>2, <3>1, <3>4 DEF Sharing
    <3>6. QED BY <2>2, <2>7, <3>3, <3>4, <3>5 DEF Counted
  <2>9. op'[t].pc = "spare" /\ op'[t].from \in Nat /\ op'[t].k \in Nat /\ op'[t].n \in Nat
    <3>1. full \in Nat /\ n \in Nat /\ 0 \in Nat
      BY <1>8, <1>12
    <3>2. QED BY <2>2, <3>1
  <2>10. QED BY <1>2, <1>14, <2>8, <2>9, QuietBlocks
<1>16. CASE part = 0
  <2>1. /\ op'[t].pc = "blocks" /\ op'[t].old = l /\ op'[t].value = v /\ op'[t].n = n
        /\ op'[t].k = 0 /\ op'[t].from = full /\ op'[t].new = l
    BY <1>1, <1>4, <1>13, <1>16 DEF Frames
  <2>2. m = q /\ size = f
    BY <1>6, <1>9, <1>10, <1>16
  <2>3. full * PageSize + Len(v) = f + m /\ size = full * PageSize
    BY <1>6, <1>9, <2>2
  <2>4. Counted(t)'
    BY <1>2, <1>4, <1>5, <1>12, <2>1, <2>3 DEF Counted, Sharing
  <2>5. QED BY <1>2, <1>8, <1>12, <1>14, <2>1, <2>4, QuietBlocks, SMTT(30)
<1>17. part = 0 \/ part # 0
  OBVIOUS
<1>18. QED BY <1>15, <1>16, <1>17, ZenonT(60)

-----------------------------------------------------------------------------
(* The list of a writer's key, its new list and the spare ones are none of *)
(* the others' business.                                                   *)
LEMMA Exclusive ==
  ASSUME ListSafe, NEW t \in Threads, op[t].pc # "idle", op[t].call # "get", NEW l \in Lists, l # None,
         (op[t].pc # "unmap" /\ l = mapping[op[t].key]) \/ l = op[t].new \/ l \in Spares
  PROVE  /\ \A k \in Keys : k # op[t].key => ~Owns(k, l)
         /\ \A u \in Threads : u # t => op[u].new # l
<1>1. CASE l = op[t].new
  BY <1>1 DEF ListSafe, Apart, NewApart
<1>2. CASE l \in Spares
  BY <1>2 DEF ListSafe, Apart, NewApart, OwnNotSpare
<1>3. CASE op[t].pc # "unmap" /\ l = mapping[op[t].key]
  <2>1. op[t].key \in Keys /\ Owns(op[t].key, l)
    BY <1>3, WriterAlone DEF Owns
  <2>2. \A u \in Threads : u # t => op[u].new # l
    BY <2>1, WriterAlone DEF ListSafe, Apart, NewApart
  <2>3. QED BY <2>1, <2>2 DEF ListSafe, Apart, OwnedOnce
<1>4. QED BY <1>1, <1>2, <1>3

(* A place more, with a block that was free. *)
LEMMA PartedMore ==
  ASSUME Parted, IsABag(free), NEW b \in Free, b \in Blocks, free' = Pop(free, b),
         NEW K \in Keys, NEW L \in Lists, NEW p \in Nat, list'[L].at[p] = b,
         \A k \in Keys, l \in Lists, i \in Nat : Uses(k, l, i)' <=> Uses(k, l, i) \/ (k = K /\ l = L /\ i = p),
         \A k \in Keys, l \in Lists, i \in Nat : Uses(k, l, i) => list'[l].at[i] = list[l].at[i]
  PROVE  Parted'
<1>1. free[b] = 1
  BY DEF Parted, FreeOnce
<1>2. Free' = Free \ {b} /\ \A x \in Free' : free'[x] = free[x]
  BY <1>1, Popped DEF Free
<1>3. FreeOnce'
  BY <1>2 DEF Parted, FreeOnce
<1>4. InUse'
  BY <1>2 DEF Parted, InUse
<1>5. \A k \in Keys, l \in Lists, i \in Nat : Uses(k, l, i) => list'[l].at[i] # b
  BY DEF Parted, InUse
<1>6. UsedOnce'
  BY <1>5 DEF Parted, UsedOnce
<1>7. NoneLost'
  BY <1>2 DEF Parted, NoneLost
<1>8. QED BY <1>3, <1>4, <1>6, <1>7 DEF Parted

(* A place less, whose block is given back. *)
LEMMA PartedLess ==
  ASSUME Parted, IsABag(free), NEW K \in Keys, NEW L \in Lists, NEW p \in Nat, Uses(K, L, p),
         free' = Push(free, list[L].at[p]), list' = list,
         \A k \in Keys, l \in Lists, i \in Nat : Uses(k, l, i)' <=> Uses(k, l, i) /\ ~(k = K /\ l = L /\ i = p)
  PROVE  Parted'
<1>1. PICK b : b = list[L].at[p]
  OBVIOUS
<1>2. b \in Blocks /\ b \notin Free
  BY <1>1 DEF Parted, InUse
<1>3. Free' = Free \cup {b} /\ free'[b] = 1 /\ \A x \in Free : free'[x] = free[x]
  BY <1>1, <1>2, Pushed DEF Free
<1>4. FreeOnce'
  BY <1>3 DEF Parted, FreeOnce
<1>5. \A k \in Keys, l \in Lists, i \in Nat : Uses(k, l, i)' => list[l].at[i] # b
  BY <1>1 DEF Parted, UsedOnce
<1>6. InUse'
  BY <1>3, <1>5 DEF Parted, InUse
<1>7. UsedOnce'
  BY DEF Parted, UsedOnce
<1>8. NoneLost'
  BY <1>1, <1>3 DEF Parted, NoneLost
<1>9. QED BY <1>4, <1>6, <1>7, <1>8 DEF Parted

(* The blocks of a key under other places. *)
LEMMA PartedMoved ==
  ASSUME Parted, free' = free, NEW K \in Keys,
         \A k \in Keys, l \in Lists, i \in Nat : k # K => (Uses(k, l, i)' <=> Uses(k, l, i)),
         \A k \in Keys, l \in Lists, i \in Nat : k # K /\ Uses(k, l, i) => list'[l].at[i] = list[l].at[i],
         \A l \in Lists, i \in Nat : Uses(K, l, i)' =>
           \E m \in Lists, h \in Nat : Uses(K, m, h) /\ list[m].at[h] = list'[l].at[i],
         \A m \in Lists, h \in Nat : Uses(K, m, h) =>
           \E l \in Lists, i \in Nat : Uses(K, l, i)' /\ list[m].at[h] = list'[l].at[i],
         \A l, m \in Lists : \A i, h \in Nat :
           Uses(K, l, i)' /\ Uses(K, m, h)' /\ list'[l].at[i] = list'[m].at[h] => l = m /\ i = h
  PROVE  Parted'
<1>1. Free' = Free
  BY DEF Free
<1>2. FreeOnce'
  BY <1>1 DEF Parted, FreeOnce
<1>3. InUse'
  BY <1>1 DEF Parted, InUse
<1>4. UsedOnce'
  <2>1. ASSUME NEW k \in Keys, NEW l \in Lists, NEW i \in Nat, Uses(k, l, i)'
        PROVE  \E m \in Lists, h \in Nat : Uses(k, m, h) /\ list[m].at[h] = list'[l].at[i]
    BY <2>1
  <2>2. ASSUME NEW k \in Keys, NEW j \in Keys, NEW l \in Lists, NEW m \in Lists, NEW i \in Nat, NEW h \in Nat,
               Uses(k, l, i)', Uses(j, m, h)', list'[l].at[i] = list'[m].at[h]
        PROVE  k = j
    BY <2>1, <2>2, SMTT(30) DEF Parted, UsedOnce
  <2>3. ASSUME NEW k \in Keys, NEW l \in Lists, NEW m \in Lists, NEW i \in Nat, NEW h \in Nat,
               Uses(k, l, i)', Uses(k, m, h)', list'[l].at[i] = list'[m].at[h]
        PROVE  l = m /\ i = h
    BY <2>3 DEF Parted, UsedOnce
  <2>4. QED BY <2>2, <2>3 DEF UsedOnce
<1>5. NoneLost'
  BY <1>1 DEF Parted, NoneLost
<1>6. QED BY <1>2, <1>3, <1>4, <1>5 DEF Parted

LEMMA WriterKeeps ==
  ASSUME BlockSafe, ListSafe', NEW t, NEW K, NEW L, Within(t, K, L), free' = free, disk' = disk,
         op[t].key = K, op[t].call # "get", op'[t].key = K, op'[t].call # "get",
         \A l \in Lists, i \in Nat : Mine(t, l, i)' <=> Mine(t, l, i),
         \A l \in Lists, i \in Nat : Mine(t, l, i) => list'[l].at[i] = list[l].at[i],
         BlocksTyped', Counted(t)', DeepFor(t)', DeepOwn(K)'
  PROVE  BlockSafe'
<1>1. ListSafe /\ Parted
  BY DEF BlockSafe
<1>2. Parted'
  BY <1>1, WriterSame
<1>3. QED BY <1>2, WriterStep

(* Only the numbers of one thread change. *)
LEMMA TypedStep ==
  ASSUME BlocksTyped, NEW t \in Threads, UNCHANGED <<list, free, disk>>,
         \A u \in Threads : u # t => op'[u] = op[u],
         op'[t].from \in Nat, op'[t].k \in Nat, op'[t].n \in Nat
  PROVE  BlocksTyped'
BY DEF BlocksTyped, Free

(* One list changes as well. *)
LEMMA TypedList ==
  ASSUME BlocksTyped, NEW t \in Threads, UNCHANGED <<free, disk>>, NEW l \in Lists,
         NEW r \in [size : Int, at : [1..BlockLimit -> Blocks \cup {None}]], list' = [list EXCEPT ![l] = r],
         r.size = -1 \/ (r.size >= 0 /\ Pages(r.size) < BlockLimit),
         \A u \in Threads : u # t => op'[u] = op[u],
         op'[t].from \in Nat, op'[t].k \in Nat, op'[t].n \in Nat
  PROVE  BlocksTyped' /\ list'[l] = r /\ \A m \in Lists : m # l => list'[m] = list[m]
<1>1. list'[l] = r /\ \A m \in Lists : m # l => list'[m] = list[m]
  BY DEF BlocksTyped
<1>2. list' \in [Lists -> [size : Int, at : [1..BlockLimit -> Blocks \cup {None}]]]
  BY DEF BlocksTyped
<1>3. QED BY <1>1, <1>2 DEF BlocksTyped, Free

LEMMA PutFirstBlocks == ASSUME BlockSafe, ListSafe', NEW t \in Threads, PutFirst(t) PROVE BlockSafe'
<1>1. /\ op[t].pc = "called" /\ op[t].call = "put" /\ mapping[op[t].key] = None
      /\ UNCHANGED <<free, disk, op>>
  BY DEF PutFirst, Called, At
<1>2. PICK K \in Keys : K = op[t].key
  BY <1>1, Numbers, FrameOf
<1>3. PICK l \in Lists : /\ l \in Spares \/ l \in Unused
                         /\ mapping' = [mapping EXCEPT ![K] = l]
                         /\ list' = [list EXCEPT ![l] = Fresh]
  BY <1>2 DEF PutFirst, Spares, BagIn
<1>4. l # None
  BY StoreAssumption
<1>5. Fresh \in [size : Int, at : [1..BlockLimit -> Blocks \cup {None}]] /\ Fresh.size = -1
  BY DEF Fresh
<1>6. BlocksTyped' /\ list'[l] = Fresh /\ \A m \in Lists : m # l => list'[m] = list[m]
  BY <1>1, <1>3, <1>5, Numbers, TypedList DEF BlockSafe
<1>7. \A k \in Keys : mapping'[k] = IF k = K THEN l ELSE mapping[k]
  BY <1>3 DEF BlockSafe, ListSafe, Shaped
<1>8. /\ \A k \in Keys : k # K => ~Owns(k, l)
      /\ \A u \in Threads : u # t => op[u].new # l
  <2>1. CASE l \in Spares
    BY <1>1, <1>2, <1>4, <2>1, Numbers, Exclusive
  <2>2. CASE l \in Unused
    BY <2>2 DEF Unused, Held, Owns
  <2>3. QED BY <1>3, <2>1, <2>2
<1>9. Within(t, K, l)
  BY <1>1, <1>2, <1>6, <1>7, <1>8 DEF Within
<1>10. \A m \in Lists, i \in Nat : ~Mine(t, m, i) /\ ~Mine(t, m, i)'
  BY <1>1, <1>2, <1>5, <1>6, <1>7 DEF Mine, Fills
<1>11. Counted(t)'
  <2>1. Counted(t)
    BY Numbers
  <2>2. QED BY <1>1, <2>1 DEF Counted
<1>12. DeepFor(t)'
  BY <1>1 DEF DeepFor
<1>13. DeepOwn(K)'
  BY <1>5, <1>6, <1>7 DEF DeepOwn, InOwn
<1>14. QED BY <1>1, <1>2, <1>6, <1>9, <1>10, <1>11, <1>12, <1>13, WriterKeeps

LEMMA SpareBlocks == ASSUME BlockSafe, ListSafe', NEW t \in Threads, Spare(t) PROVE BlockSafe'
<1>1. PICK W : op \in [Threads -> Frames(W)]
  BY OpFrames, Numbers
<1>2. op[t].pc = "spare" /\ UNCHANGED <<mapping, free, disk>>
  BY DEF Spare, At
<1>3. PICK K \in Keys : K = op[t].key
  BY <1>2, Numbers, FrameOf
<1>4. PICK o \in Lists : o = op[t].old /\ o # None /\ o = mapping[K] /\ op[t].new = None
  BY <1>2, <1>3, Numbers, FrameOf DEF Staged, Fits
<1>5. op[t].call \in {"put", "merge"}
  BY <1>2, Numbers, FrameOf DEF Staged, Fits
<1>6. PICK l \in Spares :
        /\ list' = [list EXCEPT ![l].at = [i \in 1..BlockLimit |->
                     IF i <= op[t].from THEN list[o].at[i] ELSE list[l].at[i]]]
        /\ op' = [op EXCEPT ![t].pc = "blocks", ![t].new = l]
  BY <1>4 DEF Spare, Spares
<1>a. op' = [op EXCEPT ![t].pc = "blocks", ![t].new = l]
  BY <1>6
<1>7. l \in Lists /\ l # None
  BY <1>6, StoreAssumption DEF BlockSafe, ListSafe, Shaped, Spares
<1>8. /\ op'[t].pc = "blocks" /\ op'[t].new = l /\ op'[t].old = o /\ op'[t].key = K /\ op'[t].call = op[t].call
      /\ op'[t].from = op[t].from /\ op'[t].k = op[t].k /\ op'[t].n = op[t].n /\ op'[t].value = op[t].value
      /\ \A u \in Threads : u # t => op'[u] = op[u]
  <2>1. \A u \in Threads : u # t => op'[u] = op[u]
    BY <1>1, <1>a
  <2>2. op'[t] = [op[t] EXCEPT !.pc = "blocks", !.new = l]
    BY <1>1, <1>a
  <2>3. op[t] \in Frames(W)
    BY <1>1
  <2>4. /\ op'[t].pc = "blocks" /\ op'[t].new = l /\ op'[t].old = op[t].old /\ op'[t].key = op[t].key
        /\ op'[t].call = op[t].call /\ op'[t].from = op[t].from /\ op'[t].k = op[t].k /\ op'[t].n = op[t].n
        /\ op'[t].value = op[t].value
    BY <2>2, <2>3 DEF Frames
  <2>5. QED BY <1>3, <1>4, <2>1, <2>4
<1>9. /\ \A k \in Keys : k # K => ~Owns(k, l)
      /\ \A u \in Threads : u # t => op[u].new # l
  BY <1>2, <1>3, <1>5, <1>6, <1>7, Numbers, Exclusive
<1>10. l # o
  <2>1. Owns(K, o)
    BY <1>2, <1>3, <1>4, <1>5, Numbers, WriterAlone DEF Owns
  <2>2. QED BY <1>6, <2>1 DEF BlockSafe, ListSafe, Apart, OwnNotSpare
<1>11. PICK f : f = [i \in 1..BlockLimit |-> IF i <= op[t].from THEN list[o].at[i] ELSE list[l].at[i]]
  OBVIOUS
<1>12. list \in [Lists -> [size : Int, at : [1..BlockLimit -> Blocks \cup {None}]]]
  BY DEF BlockSafe, BlocksTyped
<1>13. f \in [1..BlockLimit -> Blocks \cup {None}]
  BY <1>7, <1>11, <1>12
<1>14. PICK r \in [size : Int, at : [1..BlockLimit -> Blocks \cup {None}]] :
         r = [list[l] EXCEPT !.at = f]
  <2>1. [list[l] EXCEPT !.at = f] \in [size : Int, at : [1..BlockLimit -> Blocks \cup {None}]]
    BY <1>7, <1>12, <1>13
  <2>2. QED BY <2>1
<1>15. r.size = list[l].size /\ r.at = f
  BY <1>7, <1>12, <1>14
<1>16. list' = [list EXCEPT ![l] = r]
  BY <1>6, <1>11, <1>14
<1>17. BlocksTyped' /\ list'[l] = r /\ \A m \in Lists : m # l => list'[m] = list[m]
  <2>1. BlocksTyped /\ (list[l].size = -1 \/ (list[l].size >= 0 /\ Pages(list[l].size) < BlockLimit))
    BY <1>7 DEF BlockSafe, BlocksTyped
  <2>2. op'[t].from \in Nat /\ op'[t].k \in Nat /\ op'[t].n \in Nat
    BY <1>8, Numbers
  <2>3. UNCHANGED <<free, disk>> /\ \A u \in Threads : u # t => op'[u] = op[u]
    BY <1>2, <1>8
  <2>4. r.size = -1 \/ (r.size >= 0 /\ Pages(r.size) < BlockLimit)
    BY <1>15, <2>1
  <2>5. QED BY <1>7, <1>16, <2>1, <2>2, <2>3, <2>4, TypedList
<1>18. Within(t, K, l)
  BY <1>2, <1>3, <1>8, <1>9, <1>17 DEF Within
<1>19. op[t].k = 0
  BY <1>2, Numbers DEF Counted
<1>20. \A m \in Lists, i \in Nat :
         /\ Mine(t, m, i) <=> m = o /\ list[o].size >= 0 /\ i \in 1..Pages(list[o].size)
         /\ Mine(t, m, i)' <=> m = o /\ list[o].size >= 0 /\ i \in 1..Pages(list[o].size)
  <2>1. ASSUME NEW m \in Lists, NEW i \in Nat PROVE ~Fills(t, m, i) /\ ~Fills(t, m, i)'
    BY <1>2, <1>8, <1>19, Numbers DEF Fills
  <2>2. ~Releasing(t) /\ ~Releasing(t)'
    BY <1>2, <1>8 DEF Releasing
  <2>3. mapping'[op'[t].key] = o /\ list'[o] = list[o]
    BY <1>2, <1>4, <1>8, <1>10, <1>17
  <2>4. QED BY <1>3, <1>4, <2>1, <2>2, <2>3 DEF Mine
<1>21. \A m \in Lists, i \in Nat : Mine(t, m, i) => list'[m].at[i] = list[m].at[i]
  BY <1>10, <1>17, <1>20
<1>22. Counted(t)'
  <2>1. /\ op[t].value \in Seq(Records)
        /\ op[t].from + op[t].n = Pages(op[t].from * PageSize + Len(op[t].value))
        /\ op[t].from + op[t].n < BlockLimit
        /\ Sharing(op[t])
    BY <1>2, <1>4, Numbers DEF Counted
  <2>2. list'[o] = list[o]
    BY <1>10, <1>17
  <2>3. op[t].from * PageSize <= list'[o].size
    BY <1>4, <2>1, <2>2 DEF Sharing
  <2>4. Sharing(op[t])'
    BY <1>8, <1>10, <2>3 DEF Sharing
  <2>5. \A i \in 1..op[t].from : list'[l].at[i] = list'[o].at[i]
    <3>1. BlockLimit \in Nat /\ op[t].from \in Nat /\ op[t].n \in Nat
      BY Numbers, StoreAssumption
    <3>2. \A i \in 1..op[t].from : i \in 1..BlockLimit /\ i <= op[t].from
      BY <2>1, <3>1
    <3>3. QED BY <1>11, <1>15, <1>17, <2>2, <3>2
  <2>6. 0 <= op[t].n
    BY Numbers
  <2>7. QED BY <1>4, <1>8, <1>19, <2>1, <2>4, <2>5, <2>6 DEF Counted
<1>23. DeepFor(t)'
  BY <1>8 DEF DeepFor
<1>24. DeepOwn(K)'
  <2>1. ASSUME NEW m \in Lists, NEW i \in Nat, InOwn(K, m, i)' PROVE Deep(m, i, list[m].size)'
    <3>1. m = o
      BY <1>2, <1>4, <2>1 DEF InOwn
    <3>2. list'[m] = list[m] /\ Mine(t, m, i)
      BY <1>10, <1>17, <1>20, <2>1, <3>1 DEF InOwn
    <3>3. InOwn(K, m, i)
      <4>1. ~Releasing(t)
        BY <1>2 DEF Releasing
      <4>2. QED BY <1>2, <1>3, <1>4, <1>5, <1>20, <3>1, <3>2, <4>1, Numbers, WriterAlone
    <3>4. Deep(m, i, list[m].size)
      BY <3>3 DEF BlockSafe, Deeper, DeepOwn
    <3>5. QED BY <1>2, <3>2, <3>4 DEF Deep
  <2>2. QED BY <2>1 DEF DeepOwn
<1>25. QED BY <1>2, <1>3, <1>5, <1>8, <1>17, <1>18, <1>20, <1>21, <1>22, <1>23, <1>24, WriterKeeps

(* What a writer that fills a list has.                                    *)
LEMMA Filling ==
  ASSUME BlockSafe, NEW t \in Threads, op[t].pc \in {"blocks", "write"}
  PROVE  /\ op[t].key \in Keys /\ op[t].call \in {"put", "merge"}
         /\ op[t].new \in Lists /\ op[t].new # None
         /\ op[t].old \in {None, op[t].new} => mapping[op[t].key] = op[t].new
         /\ op[t].old \notin {None, op[t].new} =>
              op[t].old \in Lists /\ mapping[op[t].key] = op[t].old /\ Sharing(op[t])
         /\ op[t].old = None => op[t].from = 0 /\ list[op[t].new].size < 0
         /\ op[t].old = op[t].new => list[op[t].new].size = op[t].from * PageSize
         /\ op[t].value \in Seq(Records)
         /\ op[t].from + op[t].n = Pages(op[t].from * PageSize + Len(op[t].value))
         /\ op[t].from + op[t].n < BlockLimit
         /\ op[t].k <= op[t].n
         /\ \A k \in Keys : k # op[t].key => ~Owns(k, op[t].new)
         /\ \A u \in Threads : u # t => op[u].new # op[t].new
<1>1. ListSafe /\ Counted(t) /\ Staged(t) /\ op[t].old \in Lists \cup {None} /\ op[t].new \in Lists \cup {None}
  BY Numbers, FrameOf
<1>2. op[t].key \in Keys /\ op[t].call \in {"put", "merge"} /\ op[t].new \in Lists /\ op[t].new # None
  BY <1>1, FrameOf DEF Staged, Fits
<1>3. /\ \A k \in Keys : k # op[t].key => ~Owns(k, op[t].new)
      /\ \A u \in Threads : u # t => op[u].new # op[t].new
  BY <1>1, <1>2, Exclusive
<1>4. /\ op[t].old \in {None, op[t].new} => mapping[op[t].key] = op[t].new
      /\ op[t].old \notin {None, op[t].new} => op[t].old \in Lists /\ mapping[op[t].key] = op[t].old
  BY <1>1 DEF Staged, Fits
<1>5. /\ op[t].old # None => Sharing(op[t])
      /\ op[t].old = None => op[t].from = 0 /\ list[op[t].new].size < 0
      /\ op[t].value \in Seq(Records)
      /\ op[t].from + op[t].n = Pages(op[t].from * PageSize + Len(op[t].value))
      /\ op[t].from + op[t].n < BlockLimit
      /\ op[t].k <= op[t].n
  BY <1>1 DEF Counted
<1>6. op[t].old = op[t].new => list[op[t].new].size = op[t].from * PageSize
  BY <1>2, <1>5 DEF Sharing
<1>7. QED BY <1>2, <1>3, <1>4, <1>5, <1>6

LEMMA GotBlocksBlocks == ASSUME BlockSafe, ListSafe', NEW t \in Threads, GotBlocks(t) PROVE BlockSafe'
<1>1. PICK W : op \in [Threads -> Frames(W)]
  BY OpFrames, Numbers
<1>2. /\ op[t].pc = "blocks" /\ op[t].k = op[t].n /\ UNCHANGED <<mapping, list, free, disk>>
      /\ op' = [op EXCEPT ![t].pc = "write", ![t].k = 0]
  BY DEF GotBlocks, At
<1>3. PICK K \in Keys : K = op[t].key
  BY <1>2, Filling
<1>4. op[t].call # "get"
  BY <1>2, Filling
<1>5. \A u \in Threads : u # t => op'[u] = op[u]
  BY <1>1, <1>2
<1>6. /\ op'[t].pc = "write" /\ op'[t].new = op[t].new /\ op'[t].old = op[t].old /\ op'[t].key = K
      /\ op'[t].call = op[t].call /\ op'[t].from = op[t].from /\ op'[t].k = 0 /\ op'[t].n = op[t].n
      /\ op'[t].value = op[t].value
  BY <1>1, <1>2, <1>3 DEF Frames
<1>7. Within(t, K, None)
  BY <1>2, <1>3, <1>5, <1>6 DEF Within
<1>8. \A l \in Lists, i \in Nat : Mine(t, l, i)' <=> Mine(t, l, i)
  <2>1. ASSUME NEW l \in Lists, NEW i \in Nat PROVE Fills(t, l, i)' <=> Fills(t, l, i)
    BY <1>2, <1>6 DEF Fills
  <2>2. Releasing(t)' <=> Releasing(t)
    BY <1>2, <1>6 DEF Releasing
  <2>3. QED BY <1>2, <1>3, <1>6, <2>1, <2>2 DEF Mine
<1>9. BlocksTyped'
  <2>1. op'[t].from \in Nat /\ op'[t].k \in Nat /\ op'[t].n \in Nat
    BY <1>6, Numbers
  <2>2. UNCHANGED <<list, free, disk>> /\ BlocksTyped
    BY <1>2 DEF BlockSafe
  <2>3. QED BY <1>5, <2>1, <2>2, TypedStep
<1>10. Counted(t)'
  <2>1. Counted(t) /\ 0 <= op[t].n
    BY Numbers
  <2>2. list' = list
    BY <1>2
  <2>3. QED BY <1>2, <1>6, <2>1, <2>2 DEF Counted, Sharing
<1>11. DeepFor(t)'
  BY <1>6, Numbers DEF DeepFor
<1>12. DeepOwn(K)'
  <2>1. Settled(K)' <=> Settled(K)
    BY <1>2, <1>3, <1>5, <1>6 DEF Settled, Releasing
  <2>2. DeepOwn(K)
    BY DEF BlockSafe, Deeper
  <2>3. QED BY <1>2, <2>1, <2>2 DEF DeepOwn, InOwn, Deep
<1>13. QED BY <1>2, <1>3, <1>4, <1>6, <1>7, <1>8, <1>9, <1>10, <1>11, <1>12, WriterKeeps

LEMMA GetBlockBlocks == ASSUME BlockSafe, ListSafe', NEW t \in Threads, GetBlock(t) PROVE BlockSafe'
<1>1. PICK W : op \in [Threads -> Frames(W)]
  BY OpFrames, Numbers
<1>2. /\ op[t].pc = "blocks" /\ op[t].k < op[t].n /\ UNCHANGED <<mapping, disk>>
      /\ op' = [op EXCEPT ![t].k = op[t].k + 1]
  BY DEF GetBlock, At
<1>3. PICK K \in Keys, L \in Lists : K = op[t].key /\ L = op[t].new
  BY <1>2, Filling
<1>4. PICK from \in Nat, k \in Nat, n \in Nat : from = op[t].from /\ k = op[t].k /\ n = op[t].n
  BY Numbers
<1>5. PICK p \in Nat : p = from + k + 1
  BY <1>4
<1>6. k < n /\ from + n < BlockLimit /\ p \in 1..BlockLimit /\ from < p
  <2>1. from + n < BlockLimit /\ k < n
    BY <1>2, <1>4, Filling
  <2>2. BlockLimit \in Nat
    BY StoreAssumption
  <2>3. QED BY <1>4, <1>5, <2>1, <2>2
<1>7. PICK b \in Free : free' = Pop(free, b) /\ list' = [list EXCEPT ![L].at[p] = b]
  BY <1>3, <1>4, <1>5 DEF GetBlock, Free
<1>8. b \in Blocks /\ BlocksTyped /\ ListSafe /\ Parted /\ IsABag(free) /\ Deeper
  BY DEF BlockSafe, BlocksTyped
<1>9. op[t].call # "get" /\ op[t].pc # "idle"
  BY <1>2, Filling
<1>10. \A u \in Threads : u # t => op'[u] = op[u]
  BY <1>1, <1>2
<1>11. /\ op'[t].pc = "blocks" /\ op'[t].new = L /\ op'[t].old = op[t].old /\ op'[t].key = K
       /\ op'[t].call = op[t].call /\ op'[t].from = from /\ op'[t].k = k + 1 /\ op'[t].n = n
       /\ op'[t].value = op[t].value
  BY <1>1, <1>2, <1>3, <1>4 DEF Frames
<1>12. list \in [Lists -> [size : Int, at : [1..BlockLimit -> Blocks \cup {None}]]]
  BY DEF BlockSafe, BlocksTyped
<1>13. PICK a : a = [list[L].at EXCEPT ![p] = b]
  OBVIOUS
<1>14. a \in [1..BlockLimit -> Blocks \cup {None}] /\ a[p] = b /\ \A i \in 1..BlockLimit : i # p => a[i] = list[L].at[i]
  BY <1>6, <1>8, <1>12, <1>13
<1>15. /\ list' \in [Lists -> [size : Int, at : [1..BlockLimit -> Blocks \cup {None}]]]
       /\ \A m \in Lists : m # L => list'[m] = list[m]
       /\ list'[L].size = list[L].size /\ list'[L].at = a
  <2>1. list' = [list EXCEPT ![L].at = a]
    BY <1>7, <1>13
  <2>2. QED BY <1>12, <1>14, <2>1
<1>16. \A m \in Lists : list'[m].size = list[m].size
  BY <1>15
<1>17. \A m \in Lists, i \in 1..BlockLimit : ~(m = L /\ i = p) => list'[m].at[i] = list[m].at[i]
  BY <1>14, <1>15
<1>18. Within(t, K, L)
  <2>1. /\ \A j \in Keys : j # K => ~Owns(j, L)
        /\ \A u \in Threads : u # t => op[u].new # L
    BY <1>2, <1>3, Filling
  <2>2. QED BY <1>2, <1>3, <1>10, <1>11, <1>15, <2>1 DEF Within
<1>19. \A l \in Lists, i \in Nat : Mine(t, l, i)' <=> Mine(t, l, i) \/ (l = L /\ i = p)
  <2>1. ASSUME NEW l \in Lists, NEW i \in Nat PROVE Fills(t, l, i)' <=> Fills(t, l, i) \/ (l = L /\ i = p)
    <3>1. Fills(t, l, i) <=> l = L /\ i \in from + 1..from + k
      BY <1>2, <1>3, <1>4 DEF Fills
    <3>2. Fills(t, l, i)' <=> l = L /\ i \in from + 1..from + (k + 1)
      BY <1>11 DEF Fills
    <3>3. i \in from + 1..from + (k + 1) <=> i \in from + 1..from + k \/ i = p
      BY <1>4, <1>5
    <3>4. QED BY <3>1, <3>2, <3>3
  <2>2. ~Releasing(t)' /\ ~Releasing(t)
    BY <1>2, <1>11 DEF Releasing
  <2>3. mapping'[op'[t].key] = mapping[op[t].key]
    BY <1>2, <1>3, <1>11
  <2>4. QED BY <1>16, <2>1, <2>2, <2>3 DEF Mine
<1>20. ~Mine(t, L, p)
  <2>1. ~Fills(t, L, p)
    BY <1>2, <1>4, <1>5 DEF Fills
  <2>2. ASSUME L = mapping[op[t].key], list[L].size >= 0, p \in 1..Pages(list[L].size) PROVE FALSE
    <3>1. op[t].old \in {None, L}
      BY <1>2, <1>3, <2>2, Filling
    <3>2. op[t].old # None
      BY <1>2, <1>3, <1>12, <2>2, Filling
    <3>3. list[L].size = from * PageSize
      BY <1>2, <1>3, <1>4, <3>1, <3>2, Filling
    <3>4. Pages(from * PageSize) = from
      BY <1>4, PagesOfFull
    <3>5. QED BY <1>4, <1>6, <2>2, <3>3, <3>4
  <2>3. QED BY <2>1, <2>2 DEF Mine
<1>21. ASSUME NEW l \in Lists, NEW i \in Nat, Mine(t, l, i) PROVE i \in 1..BlockLimit
  <2>1. ASSUME Fills(t, l, i) PROVE i \in 1..BlockLimit
    <3>1. i \in from + 1..from + k
      BY <1>2, <1>4, <2>1 DEF Fills
    <3>2. BlockLimit \in Nat
      BY StoreAssumption
    <3>3. QED BY <1>4, <1>6, <3>1, <3>2
  <2>2. ASSUME list[l].size >= 0, i \in 1..Pages(list[l].size) PROVE i \in 1..BlockLimit
    <3>1. list[l].size \in Nat /\ Pages(list[l].size) < BlockLimit
      BY <1>12, <2>2 DEF BlockSafe, BlocksTyped
    <3>2. Pages(list[l].size) \in Nat /\ BlockLimit \in Nat
      BY <3>1, PagesBound, StoreAssumption
    <3>3. QED BY <2>2, <3>1, <3>2
  <2>3. QED BY <1>21, <2>1, <2>2 DEF Mine
<1>22. \A l, i : Uses(K, l, i) <=> Mine(t, l, i)
  BY <1>3, <1>8, <1>9, WriterAlone
<1>23. \A l, i : Uses(K, l, i)' <=> Mine(t, l, i)'
  BY <1>9, <1>11, WriterPlacesNext
<1>24. Parted'
  <2>1. \A j \in Keys, l \in Lists, i \in Nat : Uses(j, l, i)' <=> Uses(j, l, i) \/ (j = K /\ l = L /\ i = p)
    <3>1. ASSUME NEW j \in Keys, NEW l \in Lists, NEW i \in Nat, j # K PROVE Uses(j, l, i)' <=> Uses(j, l, i)
      BY <1>8, <1>18, <3>1, OthersUse
    <3>2. QED BY <1>19, <1>22, <1>23, <3>1
  <2>2. \A j \in Keys, l \in Lists, i \in Nat : Uses(j, l, i) => list'[l].at[i] = list[l].at[i]
    <3>1. ASSUME NEW j \in Keys, NEW l \in Lists, NEW i \in Nat, j # K, Uses(j, l, i) PROVE list'[l] = list[l]
      BY <1>8, <1>18, <3>1, OthersUse
    <3>2. ASSUME NEW l \in Lists, NEW i \in Nat, Mine(t, l, i) PROVE list'[l].at[i] = list[l].at[i]
      BY <1>17, <1>20, <1>21, <3>2
    <3>3. QED BY <1>22, <3>1, <3>2
  <2>3. list'[L].at[p] = b
    BY <1>14, <1>15
  <2>4. QED BY <1>7, <1>8, <2>1, <2>2, <2>3, PartedMore
<1>25. BlocksTyped'
  <2>1. IsABag(free') /\ Free' \subseteq Free
    BY <1>7, <1>8, Popped DEF Free
  <2>2. \A u \in Threads : op'[u].from \in Nat /\ op'[u].k \in Nat /\ op'[u].n \in Nat
    <3>1. k + 1 \in Nat
      BY <1>4
    <3>2. op'[t].from \in Nat /\ op'[t].k \in Nat /\ op'[t].n \in Nat
      BY <1>4, <1>11, <3>1
    <3>3. QED BY <1>8, <1>10, <3>2 DEF BlocksTyped
  <2>3. QED BY <1>2, <1>8, <1>15, <1>16, <2>1, <2>2 DEF BlocksTyped
<1>26. Counted(t)'
  <2>1. /\ op[t].value \in Seq(Records)
        /\ from + n = Pages(from * PageSize + Len(op[t].value)) /\ from + n < BlockLimit
        /\ IF op[t].old = None THEN from = 0 /\ list[L].size < 0 ELSE Sharing(op[t])
    BY <1>2, <1>3, <1>4, Numbers DEF Counted
  <2>2. op[t].old = None \/ op[t].old \in Lists
    BY <1>8, FrameOf
  <2>3. op[t].old # None => Sharing(op[t])'
    BY <1>3, <1>4, <1>11, <1>16, <2>1, <2>2 DEF Sharing
  <2>4. ASSUME op[t].old # None, op[t].old # L
        PROVE  \A i \in 1..from : list'[L].at[i] = list'[op[t].old].at[i]
    <3>1. \A i \in 1..from : list[L].at[i] = list[op[t].old].at[i]
      BY <1>2, <1>3, <1>4, <2>4, Numbers DEF Counted
    <3>2. \A i \in 1..from : i # p /\ i \in 1..BlockLimit
      BY <1>4, <1>6, StoreAssumption
    <3>3. QED BY <1>17, <2>2, <2>4, <3>1, <3>2
  <2>5. k + 1 <= n
    BY <1>4, <1>6
  <2>6. QED BY <1>11, <1>16, <2>1, <2>3, <2>4, <2>5 DEF Counted, Sharing
<1>27. DeepFor(t)'
  BY <1>11 DEF DeepFor
<1>28. DeepOwn(K)'
  <2>1. ASSUME NEW l \in Lists, NEW i \in Nat, InOwn(K, l, i)' PROVE Deep(l, i, list[l].size)'
    <3>1. Mine(t, l, i) /\ InOwn(K, l, i)
      <4>1. ~Releasing(t) /\ mapping'[K] = l /\ l # None /\ list[l].size >= 0 /\ i \in 1..Pages(list[l].size)
        BY <1>2, <1>16, <2>1 DEF InOwn, Releasing
      <4>2. QED BY <1>2, <1>3, <1>8, <1>9, <4>1, WriterAlone DEF Mine
    <3>2. list'[l].at[i] = list[l].at[i] /\ list'[l].size = list[l].size
      BY <1>16, <1>17, <1>20, <1>21, <3>1
    <3>3. Deep(l, i, list[l].size)
      BY <1>8, <3>1 DEF Deeper, DeepOwn
    <3>4. QED BY <1>2, <3>2, <3>3 DEF Deep
  <2>2. QED BY <2>1 DEF DeepOwn
<1>29. QED BY <1>2, <1>3, <1>9, <1>18, <1>24, <1>25, <1>26, <1>27, <1>28, WriterStep

(* The part of a value that goes into its i-th block. *)
LEMMA PageOf ==
  ASSUME NEW v \in Seq(Records), NEW i \in Nat \ {0}
  PROVE  /\ Page(v, i) \in Seq(Records)
         /\ Len(Page(v, i)) >= PageSize \/ Len(Page(v, i)) >= Len(v) - (i - 1) * PageSize
<1>1. PageSize \in Nat \ {0}
  BY StoreAssumption
<1>2. PICK c \in Nat : c = (i - 1) * PageSize
  <2>1. (i - 1) * PageSize \in Nat
    BY <1>1
  <2>2. QED BY <2>1
<1>3. i * PageSize = c + PageSize
  BY <1>1, <1>2
<1>4. PICK m \in Nat : m = Len(v)
  OBVIOUS
<1>5. PICK e \in Nat : e = IF c + PageSize < m THEN c + PageSize ELSE m
  <2>1. (IF c + PageSize < m THEN c + PageSize ELSE m) \in Nat
    BY <1>1, <1>2, <1>4
  <2>2. QED BY <2>1
<1>6. PICK s : s = Page(v, i) /\ s = SubSeq(v, c + 1, e)
  BY <1>2, <1>3, <1>4, <1>5 DEF Page
<1>7. e <= Len(v) /\ c + 1 \in Nat /\ 1 <= c + 1
  BY <1>1, <1>2, <1>4, <1>5
<1>8. s \in Seq(Records)
  BY <1>5, <1>6, <1>7
<1>9. Len(s) = IF c + 1 <= e THEN e - (c + 1) + 1 ELSE 0
  BY <1>5, <1>6, <1>7
<1>10. PICK x \in Nat : x = Len(s)
  BY <1>8
<1>11. x >= PageSize \/ x >= m - c
  <2>1. x = IF c + 1 <= e THEN e - (c + 1) + 1 ELSE 0
    BY <1>9, <1>10
  <2>2. c \in Nat /\ m \in Nat /\ e \in Nat /\ e = IF c + PageSize < m THEN c + PageSize ELSE m
    BY <1>2, <1>4, <1>5
  <2>3. CASE c + PageSize < m
    BY <1>1, <2>1, <2>2, <2>3
  <2>4. CASE ~(c + PageSize < m)
    BY <1>1, <2>1, <2>2, <2>4
  <2>5. QED BY <2>3, <2>4
<1>12. QED BY <1>2, <1>4, <1>6, <1>8, <1>10, <1>11

LEMMA WriteBlockBlocks == ASSUME BlockSafe, ListSafe', NEW t \in Threads, WriteBlock(t) PROVE BlockSafe'
<1>1. PICK W : op \in [Threads -> Frames(W)]
  BY OpFrames, Numbers
<1>2. /\ op[t].pc = "write" /\ op[t].k < op[t].n /\ UNCHANGED <<mapping, list, buffer, free>>
      /\ op' = [op EXCEPT ![t].k = op[t].k + 1]
  BY DEF WriteBlock, At
<1>3. PICK K \in Keys, L \in Lists : K = op[t].key /\ L = op[t].new
  BY <1>2, Filling
<1>4. PICK from \in Nat, k \in Nat, n \in Nat : from = op[t].from /\ k = op[t].k /\ n = op[t].n
  BY Numbers
<1>5. PICK p \in Nat : p = from + k + 1 /\ p = from + (k + 1)
  BY <1>4
<1>6. k < n /\ p \in from + 1..from + n
  BY <1>2, <1>4, <1>5
<1>7. PICK v \in Seq(Records) : v = op[t].value
  BY <1>2, Filling
<1>8. PICK b : b = list[L].at[p]
  OBVIOUS
<1>9. disk' = [disk EXCEPT ![b] = Page(v, k + 1)]
  BY <1>3, <1>4, <1>5, <1>7, <1>8 DEF WriteBlock
<1>10. \A u \in Threads : u # t => op'[u] = op[u]
  BY <1>1, <1>2
<1>11. /\ op'[t].pc = "write" /\ op'[t].new = L /\ op'[t].old = op[t].old /\ op'[t].key = K
       /\ op'[t].call = op[t].call /\ op'[t].from = from /\ op'[t].k = k + 1 /\ op'[t].n = n
       /\ op'[t].value = v
  BY <1>1, <1>2, <1>3, <1>4, <1>7 DEF Frames
<1>12. ListSafe /\ BlocksTyped /\ Parted /\ Deeper /\ disk \in [Blocks -> Seq(Records)]
  BY DEF BlockSafe, BlocksTyped
<1>13. Fills(t, L, p) /\ Uses(K, L, p)
  BY <1>2, <1>3, <1>4, <1>6 DEF Fills, Uses
<1>14. b \in Blocks
  BY <1>8, <1>12, <1>13 DEF Parted, InUse
<1>15. \A j \in Keys, l \in Lists, i \in Nat :
         Uses(j, l, i) /\ ~(l = L /\ i = p) => disk'[list[l].at[i]] = disk[list[l].at[i]]
  <2>1. ASSUME NEW j \in Keys, NEW l \in Lists, NEW i \in Nat, Uses(j, l, i), ~(l = L /\ i = p)
        PROVE  list[l].at[i] \in Blocks /\ list[l].at[i] # b
    BY <1>8, <1>12, <1>13, <2>1 DEF Parted, InUse, UsedOnce
  <2>2. QED BY <1>9, <1>12, <2>1
<1>16. \A u \in Threads, l \in Lists, i \in Nat : Fills(u, l, i)' <=> Fills(u, l, i)
  <2>1. \A l \in Lists, i \in Nat : Fills(t, l, i)' <=> Fills(t, l, i)
    BY <1>2, <1>3, <1>4, <1>11 DEF Fills
  <2>2. \A u \in Threads : u # t => \A l \in Lists, i \in Nat : Fills(u, l, i)' <=> Fills(u, l, i)
    BY <1>2, <1>10 DEF Fills
  <2>3. QED BY <2>1, <2>2
<1>17. \A u \in Threads : op'[u].key = op[u].key /\ (Releasing(u)' <=> Releasing(u))
  BY <1>2, <1>3, <1>10, <1>11 DEF Releasing
<1>18. \A j \in Keys, l \in Lists, i \in Nat :
         (InOwn(j, l, i)' <=> InOwn(j, l, i)) /\ (Uses(j, l, i)' <=> Uses(j, l, i))
  <2>1. \A j \in Keys, l \in Lists, i \in Nat : InOwn(j, l, i)' <=> InOwn(j, l, i)
    BY <1>2, <1>17 DEF InOwn, Settled
  <2>2. QED BY <1>16, <1>17, <2>1 DEF Uses
<1>19. Parted'
  BY <1>2, <1>12, <1>18, PartedSame
<1>20. BlocksTyped'
  <2>1. Page(v, k + 1) \in Seq(Records)
    BY <1>4, <1>7, PageOf
  <2>2. disk' \in [Blocks -> Seq(Records)]
    BY <1>9, <1>12, <2>1
  <2>3. \A u \in Threads : op'[u].from \in Nat /\ op'[u].k \in Nat /\ op'[u].n \in Nat
    <3>1. k + 1 \in Nat
      BY <1>4
    <3>2. op'[t].from \in Nat /\ op'[t].k \in Nat /\ op'[t].n \in Nat
      BY <1>4, <1>11, <3>1
    <3>3. QED BY <1>10, <1>12, <3>2 DEF BlocksTyped
  <2>4. QED BY <1>2, <1>12, <2>2, <2>3 DEF BlocksTyped, Free
<1>21. \A u \in Threads : Counted(u)'
  <2>1. \A u \in Threads : u # t => Counted(u)'
    BY <1>2, <1>10 DEF BlockSafe, Counted, Sharing
  <2>2. Counted(t) /\ k + 1 <= n
    BY <1>4, <1>6, Numbers
  <2>3. list' = list
    BY <1>2
  <2>4. Counted(t)'
    BY <1>2, <1>3, <1>4, <1>7, <1>11, <2>2, <2>3 DEF Counted, Sharing
  <2>5. QED BY <2>1, <2>4
<1>22. ASSUME NEW j \in Keys, NEW l \in Lists, NEW i \in Nat, NEW m, Uses(j, l, i), ~(l = L /\ i = p), Deep(l, i, m)
       PROVE  LET d == list'[l].at[i] IN Len(disk'[d]) >= PageSize \/ Len(disk'[d]) >= m - (i - 1) * PageSize
  <2>1. list' = list /\ disk'[list[l].at[i]] = disk[list[l].at[i]]
    BY <1>2, <1>15, <1>22
  <2>2. QED BY <1>22, <2>1 DEF Deep
<1>23. \A j \in Keys : DeepOwn(j)'
  <2>1. ASSUME NEW j \in Keys, NEW l \in Lists, NEW i \in Nat, InOwn(j, l, i)' PROVE Deep(l, i, list[l].size)'
    <3>1. InOwn(j, l, i) /\ Uses(j, l, i) /\ Deep(l, i, list[l].size)
      BY <1>12, <1>18, <2>1 DEF Uses, Deeper, DeepOwn
    <3>2. ~(l = L /\ i = p)
      <4>1. ASSUME l = L, i = p PROVE FALSE
        <5>1. Owns(j, L) /\ j = K
          BY <1>2, <1>3, <1>12, <3>1, <4>1, OwnHas, Filling
        <5>2. mapping[K] = L /\ list[L].size >= 0 /\ p \in 1..Pages(list[L].size)
          BY <3>1, <4>1, <5>1 DEF InOwn
        <5>3. list[L].size \in Int /\ ~(list[L].size < 0)
          BY <1>12, <5>2 DEF BlocksTyped
        <5>4. op[t].old = L
          BY <1>2, <1>3, <5>2, <5>3, Filling
        <5>5. list[L].size = from * PageSize
          BY <1>2, <1>3, <1>4, <5>4, Filling
        <5>6. Pages(from * PageSize) = from
          BY <1>4, PagesOfFull
        <5>7. QED BY <1>4, <1>5, <5>2, <5>5, <5>6
      <4>2. QED BY <4>1
    <3>3. list' = list
      BY <1>2
    <3>4. QED BY <1>22, <3>1, <3>2, <3>3 DEF Deep
  <2>2. QED BY <2>1 DEF DeepOwn
<1>24. ASSUME NEW u \in Threads, u # t PROVE DeepFor(u)'
  <2>1. op'[u] = op[u] /\ list' = list /\ DeepFor(u) /\ Counted(u)
    BY <1>2, <1>10, <1>12, <1>24 DEF Deeper, BlockSafe
  <2>2. op[u].new # L
    BY <1>2, <1>3, <1>24, Filling
  <2>3. op[u].pc = "write" \/ (op[u].pc \in {"release", "swap", "keep"} /\ op[u].new # None) =>
          op[u].key \in Keys /\ op[u].new \in Lists /\ op[u].new # None
    BY <1>12, FrameOf DEF Staged, Fits
  <2>4. ASSUME NEW i \in Nat, op[u].pc = "write", i \in op[u].from + 1..op[u].from + op[u].k
        PROVE  Deep(op[u].new, i, op[u].from * PageSize + Len(op[u].value))'
    <3>1. i \in op[u].from + 1..op[u].from + op[u].n
      BY <2>1, <2>4, Numbers DEF Counted
    <3>2. Uses(op[u].key, op[u].new, i)
      BY <2>3, <2>4, <3>1 DEF Uses, Fills
    <3>3. Deep(op[u].new, i, op[u].from * PageSize + Len(op[u].value))
      BY <2>1, <2>4 DEF DeepFor
    <3>4. QED BY <1>22, <2>1, <2>2, <2>3, <2>4, <3>2, <3>3 DEF Deep
  <2>5. ASSUME NEW i \in Nat, op[u].pc \in {"release", "swap", "keep"}, op[u].new # None,
               i \in 1..Pages(list[op[u].new].size)
        PROVE  Deep(op[u].new, i, list[op[u].new].size)'
    <3>1. Uses(op[u].key, op[u].new, i)
      BY <2>1, <2>3, <2>5 DEF Uses, Fills, Counted
    <3>2. Deep(op[u].new, i, list[op[u].new].size)
      BY <2>1, <2>5 DEF DeepFor
    <3>3. QED BY <1>22, <2>1, <2>2, <2>3, <2>5, <3>1, <3>2 DEF Deep
  <2>6. QED BY <2>1, <2>4, <2>5 DEF DeepFor
<1>25. DeepFor(t)'
  <2>1. ASSUME NEW i \in Nat, i \in from + 1..from + (k + 1)
        PROVE  Deep(L, i, from * PageSize + Len(v))'
    <3>1. CASE i # p
      <4>1. i \in from + 1..from + k /\ i \in from + 1..from + n
        <5>1. from + 1 <= i /\ i <= from + (k + 1) /\ i # from + (k + 1) /\ k < n
          BY <1>4, <1>5, <1>6, <2>1, <3>1
        <5>2. i <= from + k /\ i <= from + n
          <6>1. from \in Nat /\ k \in Nat /\ n \in Nat
            BY <1>4
          <6>2. i \in Nat
            BY <2>1
          <6>3. QED BY <5>1, <6>1, <6>2
        <5>3. QED BY <2>1, <5>1, <5>2
      <4>2. Uses(K, L, i)
        BY <1>2, <1>3, <1>4, <4>1 DEF Uses, Fills
      <4>3. DeepFor(t)
        BY <1>12 DEF Deeper
      <4>4. Deep(L, i, from * PageSize + Len(v))
        BY <1>2, <1>3, <1>4, <1>7, <4>1, <4>3 DEF DeepFor
      <4>5. QED BY <1>22, <3>1, <4>2, <4>4 DEF Deep
    <3>2. CASE i = p
      <4>1. PICK w \in Seq(Records) : w = Page(v, k + 1) /\ w = disk'[list'[L].at[p]]
        <5>1. Page(v, k + 1) \in Seq(Records)
          BY <1>4, <1>7, PageOf
        <5>2. disk'[list'[L].at[p]] = Page(v, k + 1)
          BY <1>2, <1>8, <1>9, <1>12, <1>14
        <5>3. QED BY <5>1, <5>2
      <4>2. PICK a \in Int, c \in Int, m \in Int : a = from * PageSize /\ c = k * PageSize /\ m = Len(v)
        BY <1>4, <1>7, StoreAssumption, SMTT(30)
      <4>3. PICK e \in Nat : e = Len(w) /\ (e >= PageSize \/ e >= m - c)
        <5>1. k + 1 \in Nat \ {0} /\ (k + 1) - 1 = k
          BY <1>4
        <5>2. Len(w) >= PageSize \/ Len(w) >= Len(v) - k * PageSize
          BY <1>7, <4>1, <5>1, PageOf
        <5>3. QED BY <4>1, <4>2, <5>2
      <4>4. (p - 1) * PageSize = a + c
        <5>1. from \in Nat /\ k \in Nat /\ PageSize \in Nat
          BY <1>4, StoreAssumption
        <5>2. p - 1 = from + k
          BY <1>5, <5>1
        <5>3. (from + k) * PageSize = from * PageSize + k * PageSize
          BY <5>1
        <5>4. QED BY <4>2, <5>2, <5>3
      <4>5. m - c = (a + m) - (a + c)
        BY <4>2
      <4>6. Len(disk'[list'[L].at[p]]) >= PageSize \/ Len(disk'[list'[L].at[p]]) >= (a + m) - (a + c)
        BY <4>1, <4>3, <4>5
      <4>7. Deep(L, p, a + m)'
        BY <4>4, <4>6 DEF Deep
      <4>8. QED BY <3>2, <4>2, <4>7
    <3>3. QED BY <3>1, <3>2
  <2>2. QED BY <1>11, <2>1 DEF DeepFor
<1>26. QED BY <1>19, <1>20, <1>21, <1>23, <1>24, <1>25 DEF BlockSafe, Deeper

(* A full block holds its part of any value that is as long.               *)
LEMMA DeepFull ==
  ASSUME BlocksTyped, NEW l \in Lists, NEW i \in Nat, NEW f \in Nat, NEW s \in Int, i <= f, f * PageSize <= s,
         list[l].at[i] \in Blocks, Deep(l, i, s)
  PROVE  Len(disk[list[l].at[i]]) >= PageSize
<1>1. PageSize \in Nat \ {0}
  BY StoreAssumption
<1>2. PICK d \in Nat : d = Len(disk[list[l].at[i]])
  BY DEF BlocksTyped
<1>3. PICK a \in Int, c \in Int, e \in Int : a = (i - 1) * PageSize /\ c = i * PageSize /\ e = f * PageSize
  BY <1>1
<1>4. c = a + PageSize
  BY <1>1, <1>3
<1>5. c <= e
  BY <1>1, <1>3, TimesOrder
<1>6. d >= PageSize \/ d >= s - a
  BY <1>2, <1>3 DEF Deep
<1>7. e <= s
  BY <1>3
<1>8. d >= PageSize
  BY <1>1, <1>4, <1>5, <1>6, <1>7
<1>9. QED BY <1>2, <1>8

LEMMA SetSizeBlocks == ASSUME BlockSafe, ListSafe', NEW t \in Threads, SetSize(t) PROVE BlockSafe'
<1>1. PICK W : op \in [Threads -> Frames(W)]
  BY OpFrames, Numbers
<1>2. /\ op[t].pc = "write" /\ op[t].k = op[t].n /\ UNCHANGED <<mapping, buffer, free, disk>>
      /\ op' = [op EXCEPT ![t] = IF op[t].old \in {None, op[t].new} THEN [op[t] EXCEPT !.pc = "done"]
                                 ELSE [op[t] EXCEPT !.pc = "release", !.k = op[t].from]]
  BY DEF SetSize, At
<1>3. PICK K \in Keys, L \in Lists : K = op[t].key /\ L = op[t].new /\ L # None
  BY <1>2, Filling
<1>4. PICK from \in Nat, n \in Nat : from = op[t].from /\ n = op[t].n
  BY Numbers
<1>5. PICK v \in Seq(Records) : v = op[t].value
  BY <1>2, Filling
<1>6. PICK s \in Nat : s = from * PageSize + Len(v)
  <2>1. from * PageSize + Len(v) \in Nat
    <3>1. PICK g \in Nat : g = Len(v)
      BY <1>5
    <3>2. PICK z \in Nat : z = PageSize
      BY StoreAssumption
    <3>3. from * z \in Nat
      BY <1>4, <3>2
    <3>4. QED BY <3>1, <3>2, <3>3
  <2>2. QED BY <2>1
<1>7. from + n = Pages(s) /\ from + n < BlockLimit /\ op[t].call # "get" /\ op[t].pc # "idle"
  BY <1>2, <1>4, <1>5, <1>6, Filling
<1>8. BlocksTyped /\ ListSafe /\ Parted /\ Deeper /\ DeepFor(t) /\ DeepOwn(K)
  BY DEF BlockSafe, Deeper
<1>9. list \in [Lists -> [size : Int, at : [1..BlockLimit -> Blocks \cup {None}]]]
  BY <1>8 DEF BlocksTyped
<1>10. PICK r \in [size : Int, at : [1..BlockLimit -> Blocks \cup {None}]] :
         r = [list[L] EXCEPT !.size = s]
  <2>1. [list[L] EXCEPT !.size = s] \in [size : Int, at : [1..BlockLimit -> Blocks \cup {None}]]
    <3>1. s \in Int
      BY <1>6
    <3>2. QED BY <1>9, <3>1
  <2>2. QED BY <2>1
<1>11. r.size = s /\ r.at = list[L].at
  BY <1>9, <1>10
<1>12. list' = [list EXCEPT ![L] = r]
  BY <1>3, <1>4, <1>5, <1>6, <1>10 DEF SetSize
<1>13. op'[t].from = from /\ op'[t].n = n /\ op'[t].new = L /\ op'[t].old = op[t].old /\ op'[t].key = K
       /\ op'[t].call = op[t].call /\ op'[t].value = v
       /\ \A u \in Threads : u # t => op'[u] = op[u]
  <2>1. \A u \in Threads : u # t => op'[u] = op[u]
    BY <1>1, <1>2
  <2>2. op[t] \in Frames(W) /\ op'[t] = IF op[t].old \in {None, op[t].new} THEN [op[t] EXCEPT !.pc = "done"]
                                        ELSE [op[t] EXCEPT !.pc = "release", !.k = op[t].from]
    BY <1>1, <1>2
  <2>3. QED BY <1>3, <1>4, <1>5, <2>1, <2>2 DEF Frames
<1>14. /\ op[t].old \in {None, L} => op'[t].pc = "done" /\ op'[t].k = n
       /\ op[t].old \notin {None, L} => op'[t].pc = "release" /\ op'[t].k = from
  BY <1>1, <1>2, <1>3, <1>4 DEF Frames
<1>15. BlocksTyped' /\ list'[L] = r /\ \A m \in Lists : m # L => list'[m] = list[m]
  <2>1. op'[t].from \in Nat /\ op'[t].k \in Nat /\ op'[t].n \in Nat
    BY <1>4, <1>13, <1>14
  <2>2. r.size >= 0 /\ Pages(r.size) < BlockLimit
    BY <1>6, <1>7, <1>11
  <2>3. UNCHANGED <<free, disk>> /\ \A u \in Threads : u # t => op'[u] = op[u]
    BY <1>2, <1>13
  <2>4. QED BY <1>8, <1>12, <2>1, <2>2, <2>3, TypedList
<1>16. \A m \in Lists : list'[m].at = list[m].at
  BY <1>11, <1>15
<1>17. Within(t, K, L)
  <2>1. /\ \A j \in Keys : j # K => ~Owns(j, L)
        /\ \A u \in Threads : u # t => op[u].new # L
    BY <1>2, <1>3, Filling
  <2>2. QED BY <1>2, <1>3, <1>13, <1>15, <2>1 DEF Within
<1>18. ASSUME NEW i \in Nat, i \in from + 1..from + n
       PROVE  Mine(t, L, i) /\ Uses(K, L, i) /\ Deep(L, i, s)
  <2>1. Fills(t, L, i)
    BY <1>2, <1>3, <1>4, <1>18 DEF Fills
  <2>2. Deep(L, i, s)
    BY <1>2, <1>3, <1>4, <1>5, <1>6, <1>8, <1>18 DEF DeepFor
  <2>3. QED BY <1>3, <2>1, <2>2 DEF Mine, Uses
<1>19. \A l, i : Uses(K, l, i) <=> Mine(t, l, i)
  BY <1>3, <1>7, <1>8, WriterAlone
<1>20. ASSUME NEW l \in Lists, NEW i \in Nat, i \in 1..from, Mine(t, l, i), l = mapping[K], op[t].old = l
       PROVE  Len(disk[list[l].at[i]]) >= PageSize
  <2>1. InOwn(K, l, i)
    <3>1. ~Fills(t, l, i) \/ l # L
      BY <1>2, <1>3, <1>4, <1>20 DEF Fills
    <3>2. l # L => ~Fills(t, l, i)
      BY <1>2, <1>3 DEF Fills
    <3>3. QED BY <1>3, <1>7, <1>8, <1>20, <3>1, <3>2, WriterAlone DEF Mine
  <2>2. Deep(l, i, list[l].size) /\ list[l].at[i] \in Blocks
    BY <1>8, <1>19, <1>20, <2>1 DEF DeepOwn, Parted, InUse
  <2>3. from * PageSize <= list[l].size
    <3>1. CASE l = L
      <4>1. list[l].size = from * PageSize /\ from * PageSize \in Int
        BY <1>2, <1>3, <1>4, <1>20, <3>1, Filling, StoreAssumption
      <4>2. QED BY <4>1
    <3>2. CASE l # L
      BY <1>2, <1>3, <1>4, <1>20, <3>2, Filling, StoreAssumption DEF Sharing
    <3>3. QED BY <3>1, <3>2
  <2>4. list[l].size \in Int /\ i <= from
    BY <1>9, <1>20
  <2>5. QED BY <1>4, <1>8, <2>2, <2>3, <2>4, DeepFull
<1>21. CASE op[t].old \in {None, L}
  <2>1. mapping[K] = L /\ op'[t].pc = "done"
    BY <1>2, <1>3, <1>14, <1>21, Filling
  <2>2. \A i \in Nat : i \in 1..from + n <=> i \in 1..from \/ i \in from + 1..from + n
    BY <1>4
  <2>3. \A i \in Nat : (list[L].size >= 0 /\ i \in 1..Pages(list[L].size)) <=> i \in 1..from
    <3>1. CASE op[t].old = None
      <4>1. from = 0 /\ list[L].size < 0 /\ list[L].size \in Int
        BY <1>2, <1>3, <1>4, <1>9, <3>1, Filling
      <4>2. QED BY <4>1
    <3>2. CASE op[t].old = L
      <4>1. list[L].size = from * PageSize
        BY <1>2, <1>3, <1>4, <3>2, Filling
      <4>2. Pages(from * PageSize) = from
        BY <1>4, PagesOfFull
      <4>3. from * PageSize >= 0
        <5>1. from * PageSize \in Nat
          BY <1>4, StoreAssumption
        <5>2. QED BY <5>1
      <4>4. QED BY <4>1, <4>2, <4>3
    <3>3. QED BY <1>21, <3>1, <3>2
  <2>4. ASSUME NEW l \in Lists, NEW i \in Nat
        PROVE  /\ Mine(t, l, i) <=> l = L /\ i \in 1..from + n
               /\ Mine(t, l, i)' <=> l = L /\ i \in 1..from + n
    <3>1. Fills(t, l, i) <=> l = L /\ i \in from + 1..from + n
      BY <1>2, <1>3, <1>4 DEF Fills
    <3>2. ~Fills(t, l, i)'
      BY <2>1 DEF Fills
    <3>3. ~Releasing(t) /\ ~Releasing(t)'
      BY <1>2, <2>1 DEF Releasing
    <3>4. Mine(t, l, i) <=> l = L /\ i \in 1..from + n
      BY <1>3, <2>1, <2>2, <2>3, <3>1, <3>3 DEF Mine
    <3>5. mapping'[op'[t].key] = L /\ list'[L].size = s /\ s >= 0
      BY <1>2, <1>6, <1>11, <1>13, <1>15, <2>1
    <3>6. Mine(t, l, i)' <=> l = L /\ i \in 1..from + n
      BY <1>3, <1>7, <3>2, <3>3, <3>5 DEF Mine
    <3>7. QED BY <3>4, <3>6
  <2>5. Counted(t)'
    BY <2>1 DEF Counted
  <2>6. DeepFor(t)'
    BY <2>1 DEF DeepFor
  <2>7. DeepOwn(K)'
    <3>1. ASSUME NEW l \in Lists, NEW i \in Nat, InOwn(K, l, i)' PROVE Deep(l, i, list[l].size)'
      <4>1. l = L /\ list'[L].size = s /\ i \in 1..from + n
        BY <1>2, <1>7, <1>11, <1>15, <2>1, <3>1 DEF InOwn
      <4>2. CASE i \in from + 1..from + n
        <5>1. Deep(L, i, s)
          BY <1>18, <4>2
        <5>2. QED BY <1>2, <1>16, <4>1, <5>1 DEF Deep
      <4>3. CASE i \in 1..from
        <5>1. op[t].old = L
          BY <1>2, <1>3, <1>4, <1>21, <4>3, Filling
        <5>2. Mine(t, L, i)
          BY <2>4, <4>1
        <5>3. Len(disk[list[L].at[i]]) >= PageSize
          BY <1>20, <2>1, <4>3, <5>1, <5>2
        <5>4. QED BY <1>2, <1>16, <4>1, <5>3 DEF Deep
      <4>4. QED BY <2>2, <4>1, <4>2, <4>3
    <3>2. QED BY <3>1 DEF DeepOwn
  <2>8. \A l \in Lists, i \in Nat : Mine(t, l, i) => list'[l].at[i] = list[l].at[i]
    BY <1>16
  <2>9. QED BY <1>2, <1>3, <1>7, <1>13, <1>15, <1>17, <2>4, <2>5, <2>6, <2>7, <2>8, WriterKeeps
<1>22. CASE op[t].old \notin {None, L}
  <2>1. PICK o \in Lists : o = op[t].old /\ o # None /\ o # L /\ mapping[K] = o /\ op'[t].pc = "release" /\ op'[t].k = from
    BY <1>2, <1>3, <1>14, <1>22, Filling
  <2>2. PICK z \in Int : z = list[o].size /\ from * PageSize <= z
    <3>1. Sharing(op[t]) /\ list[o].size \in Int
      BY <1>2, <1>3, <1>9, <1>22, <2>1, Filling
    <3>2. QED BY <1>4, <2>1, <3>1 DEF Sharing
  <2>3. z \in Nat /\ Pages(z) \in Nat /\ from <= Pages(z)
    <3>1. PageSize \in Nat \ {0} /\ from * PageSize \in Nat
      BY <1>4, StoreAssumption
    <3>2. z \in Nat
      BY <2>2, <3>1
    <3>3. PICK q \in Nat : q = Pages(z) /\ z <= q * PageSize
      BY <3>2, PagesBound
    <3>4. from * PageSize <= q * PageSize
      <4>1. q * PageSize \in Int /\ from * PageSize \in Int
        BY <1>4, <3>1, <3>3
      <4>2. QED BY <2>2, <3>3, <4>1
    <3>5. from <= q
      BY <1>4, <3>1, <3>3, <3>4, TimesOrder
    <3>6. QED BY <3>2, <3>3, <3>5
  <2>4. ASSUME NEW l \in Lists, NEW i \in Nat
        PROVE  /\ Mine(t, l, i) <=> \/ l = L /\ i \in from + 1..from + n
                                    \/ l = o /\ i \in 1..Pages(z)
               /\ Mine(t, l, i)' <=> \/ l = L /\ i \in 1..from + n
                                     \/ l = o /\ i \in from + 1..Pages(z)
    <3>1. Fills(t, l, i) <=> l = L /\ i \in from + 1..from + n
      BY <1>2, <1>3, <1>4 DEF Fills
    <3>2. ~Releasing(t) /\ Releasing(t)'
      BY <1>2, <2>1 DEF Releasing
    <3>3. list[o].size >= 0
      BY <2>2, <2>3
    <3>4. Mine(t, l, i) <=> \/ l = L /\ i \in from + 1..from + n
                            \/ l = o /\ i \in 1..Pages(z)
      BY <1>3, <2>1, <2>2, <3>1, <3>2, <3>3 DEF Mine
    <3>5. list'[L].size = s /\ s >= 0 /\ list'[o].size = z
      BY <1>6, <1>11, <1>15, <2>1, <2>2
    <3>6. Fills(t, l, i)' <=> \/ l = L /\ i \in 1..from + n
                              \/ l = o /\ i \in from + 1..Pages(z)
      BY <1>3, <1>7, <1>13, <2>1, <3>5 DEF Fills
    <3>7. QED BY <3>2, <3>4, <3>6 DEF Mine
  <2>5. \A i \in 1..from : i \in Nat /\ list[L].at[i] = list[o].at[i]
    BY <1>2, <1>3, <1>4, <1>22, <2>1, Numbers DEF Counted
  <2>6. \A l, i : Uses(K, l, i)' <=> Mine(t, l, i)'
    BY <1>7, <1>13, WriterPlacesNext
  <2>7. \A i \in Nat : i \in 1..from => i \in 1..Pages(z) /\ i \in 1..from + n
    BY <1>4, <2>3
  <2>8. \A i \in Nat : /\ i \in from + 1..Pages(z) => i \in 1..Pages(z)
                       /\ i \in 1..Pages(z) => i \in from + 1..Pages(z) \/ i \in 1..from
                       /\ i \in 1..from + n <=> i \in 1..from \/ i \in from + 1..from + n
                       /\ ~(i \in 1..from /\ i \in from + 1..Pages(z))
    <3>1. PICK q \in Nat : q = Pages(z) /\ from <= q
      BY <2>3
    <3>2. \A i \in Nat : /\ i \in from + 1..q => i \in 1..q
                         /\ i \in 1..q => i \in from + 1..q \/ i \in 1..from
                         /\ ~(i \in 1..from /\ i \in from + 1..q)
      BY <1>4, <3>1
    <3>3. \A i \in Nat : i \in 1..from + n <=> i \in 1..from \/ i \in from + 1..from + n
      BY <1>4
    <3>4. QED BY <3>1, <3>2, <3>3
  <2>9. \A l \in Lists, i \in Nat : Uses(K, l, i)' =>
          \E m \in Lists : Uses(K, m, i) /\ list[m].at[i] = list'[l].at[i] /\ (m = l \/ (l = L /\ m = o /\ i \in 1..from))
    <3>1. ASSUME NEW l \in Lists, NEW i \in Nat, Uses(K, l, i)'
          PROVE  \E m \in Lists : Uses(K, m, i) /\ list[m].at[i] = list'[l].at[i] /\ (m = l \/ (l = L /\ m = o /\ i \in 1..from))
      <4>1. Mine(t, l, i)'
        BY <2>6, <3>1
      <4>2. CASE l = o /\ i \in from + 1..Pages(z)
        <5>1. Mine(t, l, i)
          BY <2>4, <2>8, <4>2
        <5>2. QED BY <1>16, <1>19, <5>1
      <4>3. CASE l = L /\ i \in from + 1..from + n
        <5>1. Mine(t, l, i)
          BY <2>4, <4>3
        <5>2. QED BY <1>16, <1>19, <5>1
      <4>4. CASE l = L /\ i \in 1..from
        <5>1. Mine(t, o, i)
          BY <2>4, <2>7, <4>4
        <5>2. QED BY <1>16, <1>19, <2>5, <4>4, <5>1
      <4>5. QED BY <2>4, <2>8, <4>1, <4>2, <4>3, <4>4
    <3>2. QED BY <3>1
  <2>10. \A m \in Lists, i \in Nat : Uses(K, m, i) =>
           \E l \in Lists : Uses(K, l, i)' /\ list[m].at[i] = list'[l].at[i]
    <3>1. ASSUME NEW m \in Lists, NEW i \in Nat, Uses(K, m, i)
          PROVE  \E l \in Lists : Uses(K, l, i)' /\ list[m].at[i] = list'[l].at[i]
      <4>1. Mine(t, m, i)
        BY <1>19, <3>1
      <4>2. CASE m = L /\ i \in from + 1..from + n
        <5>1. Mine(t, L, i)'
          BY <2>4, <2>8, <4>2
        <5>2. QED BY <1>16, <2>6, <4>2, <5>1
      <4>3. CASE m = o /\ i \in from + 1..Pages(z)
        <5>1. Mine(t, o, i)'
          BY <2>4, <4>3
        <5>2. QED BY <1>16, <2>6, <4>3, <5>1
      <4>4. CASE m = o /\ i \in 1..from
        <5>1. Mine(t, L, i)'
          BY <2>4, <2>7, <4>4
        <5>2. QED BY <1>16, <2>5, <2>6, <4>4, <5>1
      <4>5. QED BY <2>4, <2>8, <4>1, <4>2, <4>3, <4>4
    <3>2. QED BY <3>1
  <2>11. \A l, m \in Lists : \A i, h \in Nat :
           Uses(K, l, i)' /\ Uses(K, m, h)' /\ list'[l].at[i] = list'[m].at[h] => l = m /\ i = h
    <3>1. ASSUME NEW l \in Lists, NEW m \in Lists, NEW i \in Nat, NEW h \in Nat,
                 Uses(K, l, i)', Uses(K, m, h)', list'[l].at[i] = list'[m].at[h]
          PROVE  l = m /\ i = h
      <4>1. PICK x \in Lists : Uses(K, x, i) /\ list[x].at[i] = list'[l].at[i] /\ (x = l \/ (l = L /\ x = o /\ i \in 1..from))
        BY <2>9, <3>1
      <4>2. PICK y \in Lists : Uses(K, y, h) /\ list[y].at[h] = list'[m].at[h] /\ (y = m \/ (m = L /\ y = o /\ h \in 1..from))
        BY <2>9, <3>1
      <4>3. x = y /\ i = h
        BY <1>8, <3>1, <4>1, <4>2 DEF Parted, UsedOnce
      <4>4. ~(l = L /\ m = o /\ i \in 1..from) /\ ~(m = L /\ l = o /\ i \in 1..from)
        BY <2>1, <2>4, <2>6, <2>8, <3>1, <4>3
      <4>5. QED BY <4>1, <4>2, <4>3, <4>4
    <3>2. QED BY <3>1
  <2>12. Parted'
    <3>1. \A j \in Keys, l \in Lists, i \in Nat : j # K => (Uses(j, l, i)' <=> Uses(j, l, i))
      BY <1>8, <1>17, OthersUse
    <3>2. \A j \in Keys, l \in Lists, i \in Nat : j # K /\ Uses(j, l, i) => list'[l].at[i] = list[l].at[i]
      BY <1>16
    <3>3. \A l \in Lists, i \in Nat : Uses(K, l, i)' =>
            \E m \in Lists, h \in Nat : Uses(K, m, h) /\ list[m].at[h] = list'[l].at[i]
      BY <2>9
    <3>4. \A m \in Lists, h \in Nat : Uses(K, m, h) =>
            \E l \in Lists, i \in Nat : Uses(K, l, i)' /\ list[m].at[h] = list'[l].at[i]
      BY <2>10
    <3>5. free' = free
      BY <1>2
    <3>6. QED BY <1>8, <2>11, <3>1, <3>2, <3>3, <3>4, <3>5, PartedMoved
  <2>13. Counted(t)'
    <3>1. list'[L].size >= 0
      BY <1>6, <1>11, <1>15
    <3>2. QED BY <1>13, <2>1, <3>1 DEF Counted
  <2>14. DeepFor(t)'
    <3>1. ASSUME NEW i \in Nat, i \in 1..from + n PROVE Deep(L, i, s)'
      <4>1. CASE i \in from + 1..from + n
        <5>1. Deep(L, i, s)
          BY <1>18, <4>1
        <5>2. QED BY <1>2, <1>16, <5>1 DEF Deep
      <4>2. CASE i \in 1..from
        <5>1. Mine(t, o, i)
          BY <2>4, <2>7, <4>2
        <5>2. Len(disk[list[o].at[i]]) >= PageSize
          BY <1>20, <2>1, <4>2, <5>1
        <5>3. list'[L].at[i] = list[o].at[i]
          BY <1>16, <2>5, <4>2
        <5>4. QED BY <1>2, <5>2, <5>3 DEF Deep
      <4>3. QED BY <2>8, <3>1, <4>1, <4>2
    <3>2. list'[L].size = s
      BY <1>11, <1>15
    <3>3. QED BY <1>7, <1>13, <2>1, <3>1, <3>2 DEF DeepFor
  <2>15. DeepOwn(K)'
    BY <1>13, <2>1 DEF DeepOwn, InOwn, Settled, Releasing
  <2>16. QED BY <1>2, <1>3, <1>7, <1>15, <1>17, <2>12, <2>13, <2>14, <2>15, WriterStep
<1>23. QED BY <1>21, <1>22

(* What a writer that releases a list has.                                 *)
LEMMA Releases ==
  ASSUME BlockSafe, NEW t \in Threads, op[t].pc \in {"release", "swap", "keep", "forget", "unmap"}
  PROVE  /\ op[t].key \in Keys /\ op[t].call \in {"put", "merge", "delete"}
         /\ op[t].old \in Lists /\ op[t].old # None /\ op[t].new \in Lists \cup {None} /\ op[t].new # op[t].old
         /\ op[t].pc \in {"release", "swap"} => mapping[op[t].key] = op[t].old
         /\ op[t].pc \in {"swap", "keep"} => op[t].new # None
         /\ op[t].pc = "keep" => mapping[op[t].key] = op[t].new
         /\ op[t].pc \in {"forget", "unmap"} => op[t].new = None
         /\ op[t].pc \in {"release", "swap", "keep"} /\ op[t].new # None => list[op[t].new].size >= 0
<1>1. ListSafe /\ Counted(t) /\ Staged(t) /\ op[t].old \in Lists \cup {None} /\ op[t].new \in Lists \cup {None}
  BY Numbers, FrameOf
<1>2. op[t].pc \in {"release", "swap", "keep"} /\ op[t].new # None => list[op[t].new].size >= 0
  BY <1>1 DEF Counted
<1>3. QED BY <1>1, <1>2 DEF Staged, Fits, Calls

(* A step of a writer that changes no list: all that is left to say is     *)
(* which places it has before and after.                                   *)
LEMMA WriterMoves ==
  ASSUME BlockSafe, ListSafe', NEW t \in Threads, NEW K \in Keys, UNCHANGED <<list, free, disk>>,
         \A u \in Threads : u # t => op'[u] = op[u],
         \A k \in Keys : k # K => mapping'[k] = mapping[k],
         op[t].key = K, op[t].call # "get", op'[t].key = K, op'[t].call # "get",
         op'[t].from \in Nat, op'[t].k \in Nat, op'[t].n \in Nat,
         \A l \in Lists, i \in Nat : Mine(t, l, i)' <=> Mine(t, l, i),
         Counted(t)', DeepFor(t)', DeepOwn(K)'
  PROVE  BlockSafe'
<1>1. Within(t, K, None)
  BY DEF Within
<1>2. BlocksTyped'
  BY TypedStep DEF BlockSafe
<1>3. \A l \in Lists, i \in Nat : Mine(t, l, i) => list'[l].at[i] = list[l].at[i]
  OBVIOUS
<1>4. QED BY <1>1, <1>2, <1>3, WriterKeeps

LEMMA DeleteBlocks == ASSUME BlockSafe, ListSafe', NEW t \in Threads, Delete(t) PROVE BlockSafe'
<1>1. PICK W : op \in [Threads -> Frames(W)]
  BY OpFrames, Numbers
<1>2. /\ op[t].pc = "called" /\ op[t].call = "delete" /\ UNCHANGED <<mapping, list, free, disk>>
      /\ list[mapping[op[t].key]].size >= 0
      /\ op' = [op EXCEPT ![t].pc = "release", ![t].old = mapping[op[t].key]]
  BY DEF Delete, Called, At
<1>3. PICK K \in Keys, o \in Lists : K = op[t].key /\ o = mapping[K] /\ o # None
  BY <1>2, Numbers, FrameOf, StoreAssumption DEF Staged, Fits
<1>4. \A u \in Threads : u # t => op'[u] = op[u]
  BY <1>1, <1>2
<1>5. /\ op'[t].pc = "release" /\ op'[t].new = op[t].new /\ op'[t].old = o /\ op'[t].key = K
      /\ op'[t].call = op[t].call /\ op'[t].from = op[t].from /\ op'[t].k = op[t].k /\ op'[t].n = op[t].n
  BY <1>1, <1>2, <1>3 DEF Frames
<1>6. op[t].k = 0 /\ op[t].new = None
  BY <1>2, Numbers, FrameOf DEF Counted, Staged, Fits
<1>7. \A l \in Lists, i \in Nat : Mine(t, l, i)' <=> Mine(t, l, i)
  <2>1. ASSUME NEW l \in Lists, NEW i \in Nat
        PROVE ~Fills(t, l, i) /\ (Fills(t, l, i)' <=> l = o /\ i \in 1..Pages(list[o].size))
    <3>1. ~Fills(t, l, i)
      BY <1>2 DEF Fills
    <3>2. op'[t].k + 1 = 1
      BY <1>5, <1>6
    <3>3. QED BY <1>2, <1>5, <1>6, <3>1, <3>2 DEF Fills
  <2>2. ~Releasing(t) /\ Releasing(t)'
    BY <1>2, <1>5 DEF Releasing
  <2>3. QED BY <1>2, <1>3, <2>1, <2>2 DEF Mine
<1>8. Counted(t)'
  BY <1>5, <1>6 DEF Counted
<1>9. DeepFor(t)'
  BY <1>5, <1>6 DEF DeepFor
<1>10. DeepOwn(K)'
  BY <1>5 DEF DeepOwn, InOwn, Settled, Releasing
<1>11. op'[t].from \in Nat /\ op'[t].k \in Nat /\ op'[t].n \in Nat
  BY <1>5, Numbers
<1>12. QED BY <1>2, <1>3, <1>4, <1>5, <1>7, <1>8, <1>9, <1>10, <1>11, WriterMoves

LEMMA SwapBlocks == ASSUME BlockSafe, ListSafe', NEW t \in Threads, Swap(t) PROVE BlockSafe'
<1>1. PICK W : op \in [Threads -> Frames(W)]
  BY OpFrames, Numbers
<1>2. op[t].pc = "swap" /\ UNCHANGED <<list, free, disk>>
  BY DEF Swap, At
<1>3. PICK K \in Keys, L \in Lists : K = op[t].key /\ L = op[t].new /\ L # None /\ mapping[K] = op[t].old
  BY <1>2, Releases
<1>4. mapping' = [mapping EXCEPT ![K] = L] /\ op' = [op EXCEPT ![t].pc = "keep"]
  BY <1>2, <1>3 DEF Swap, To
<1>5. \A u \in Threads : u # t => op'[u] = op[u]
  BY <1>1, <1>4
<1>6. /\ op'[t].pc = "keep" /\ op'[t].new = L /\ op'[t].key = K
      /\ op'[t].call = op[t].call /\ op'[t].from = op[t].from /\ op'[t].k = op[t].k /\ op'[t].n = op[t].n
  BY <1>1, <1>3, <1>4 DEF Frames
<1>7. \A l \in Lists, i \in Nat : Mine(t, l, i)' <=> Mine(t, l, i)
  <2>1. \A l \in Lists, i \in Nat : Fills(t, l, i)' <=> Fills(t, l, i)
    BY <1>2, <1>3, <1>6 DEF Fills
  <2>2. Releasing(t) /\ Releasing(t)'
    BY <1>2, <1>6 DEF Releasing
  <2>3. QED BY <2>1, <2>2 DEF Mine
<1>8. \A k \in Keys : k # K => mapping'[k] = mapping[k]
  BY <1>4 DEF BlockSafe, ListSafe, Shaped
<1>9. Counted(t)'
  BY <1>2, <1>3, <1>6, Releases DEF Counted
<1>10. DeepFor(t)'
  <2>1. DeepFor(t)
    BY DEF BlockSafe, Deeper
  <2>2. QED BY <1>2, <1>3, <1>6, <2>1 DEF DeepFor, Deep
<1>11. DeepOwn(K)'
  BY <1>6 DEF DeepOwn, InOwn, Settled, Releasing
<1>12. op[t].call # "get" /\ op'[t].from \in Nat /\ op'[t].k \in Nat /\ op'[t].n \in Nat
  BY <1>2, <1>6, Numbers, Releases
<1>13. QED BY <1>2, <1>3, <1>5, <1>6, <1>7, <1>8, <1>9, <1>10, <1>11, <1>12, WriterMoves

LEMMA KeepBlocks == ASSUME BlockSafe, ListSafe', NEW t \in Threads, Keep(t) PROVE BlockSafe'
<1>1. PICK W : op \in [Threads -> Frames(W)]
  BY OpFrames, Numbers
<1>2. op[t].pc = "keep" /\ UNCHANGED <<mapping, list, free, disk>> /\ op' = [op EXCEPT ![t].pc = "done"]
  BY DEF Keep, At, To
<1>3. PICK K \in Keys, L \in Lists : K = op[t].key /\ L = op[t].new /\ L # None /\ mapping[K] = L
  BY <1>2, Releases
<1>4. \A u \in Threads : u # t => op'[u] = op[u]
  BY <1>1, <1>2
<1>5. /\ op'[t].pc = "done" /\ op'[t].new = L /\ op'[t].key = K
      /\ op'[t].call = op[t].call /\ op'[t].from = op[t].from /\ op'[t].k = op[t].k /\ op'[t].n = op[t].n
  BY <1>1, <1>2, <1>3 DEF Frames
<1>6. list[L].size >= 0
  BY <1>2, <1>3, Releases
<1>7. \A l \in Lists, i \in Nat : Mine(t, l, i)' <=> Mine(t, l, i)
  <2>1. \A l \in Lists, i \in Nat : ~Fills(t, l, i)' /\ (Fills(t, l, i) <=> l = L /\ i \in 1..Pages(list[L].size))
    BY <1>2, <1>3, <1>5, <1>6 DEF Fills
  <2>2. Releasing(t) /\ ~Releasing(t)'
    BY <1>2, <1>5 DEF Releasing
  <2>3. QED BY <1>2, <1>3, <1>5, <1>6, <2>1, <2>2 DEF Mine
<1>8. Counted(t)' /\ DeepFor(t)'
  BY <1>5 DEF Counted, DeepFor
<1>9. DeepOwn(K)'
  <2>1. DeepFor(t)
    BY DEF BlockSafe, Deeper
  <2>2. \A i \in Nat : i \in 1..Pages(list[L].size) => Deep(L, i, list[L].size)
    BY <1>2, <1>3, <2>1 DEF DeepFor
  <2>3. QED BY <1>2, <1>3, <2>2 DEF DeepOwn, InOwn, Deep
<1>10. op[t].call # "get" /\ op'[t].from \in Nat /\ op'[t].k \in Nat /\ op'[t].n \in Nat
  BY <1>2, <1>5, Numbers, Releases
<1>11. QED BY <1>2, <1>3, <1>4, <1>5, <1>7, <1>8, <1>9, <1>10, WriterMoves

LEMMA ForgetBlocks == ASSUME BlockSafe, ListSafe', NEW t \in Threads, Forget(t) \/ Unmap(t) PROVE BlockSafe'
<1>1. PICK W : op \in [Threads -> Frames(W)]
  BY OpFrames, Numbers
<1>2. op[t].pc \in {"forget", "unmap"} /\ UNCHANGED <<list, free, disk>>
  BY DEF Forget, Unmap, At
<1>3. PICK K \in Keys : K = op[t].key /\ op[t].new = None /\ op[t].call # "get"
  BY <1>2, Releases
<1>4. PICK l \in {"unmap", "done"} : op' = [op EXCEPT ![t].pc = l] /\ (l = "done" => mapping' = [mapping EXCEPT ![K] = None])
  BY <1>3 DEF Forget, Unmap, To, At
<1>5. \A k \in Keys : k # K => mapping'[k] = mapping[k]
  BY <1>3 DEF Forget, Unmap, BlockSafe, ListSafe, Shaped
<1>6. l = "done" => mapping'[K] = None
  BY <1>4 DEF BlockSafe, ListSafe, Shaped
<1>7. \A u \in Threads : u # t => op'[u] = op[u]
  BY <1>1, <1>4
<1>8. /\ op'[t].pc = l /\ op'[t].new = None /\ op'[t].key = K
      /\ op'[t].call = op[t].call /\ op'[t].from = op[t].from /\ op'[t].k = op[t].k /\ op'[t].n = op[t].n
  BY <1>1, <1>3, <1>4 DEF Frames
<1>9. \A m \in Lists, i \in Nat : ~Mine(t, m, i)' /\ ~Mine(t, m, i)
  <2>1. \A m \in Lists, i \in Nat : ~Fills(t, m, i)' /\ ~Fills(t, m, i)
    BY <1>2, <1>8 DEF Fills
  <2>2. Releasing(t) /\ (l = "unmap" => Releasing(t)')
    BY <1>2, <1>8 DEF Releasing
  <2>3. QED BY <1>6, <1>8, <2>1, <2>2 DEF Mine
<1>10. Counted(t)' /\ DeepFor(t)'
  BY <1>8 DEF Counted, DeepFor
<1>11. DeepOwn(K)'
  BY <1>6, <1>8 DEF DeepOwn, InOwn, Settled, Releasing
<1>12. op'[t].from \in Nat /\ op'[t].k \in Nat /\ op'[t].n \in Nat
  BY <1>8, Numbers
<1>13. QED BY <1>2, <1>3, <1>5, <1>7, <1>8, <1>9, <1>10, <1>11, <1>12, WriterMoves

LEMMA ReleaseBlocks == ASSUME BlockSafe, ListSafe', NEW t \in Threads, Release(t) PROVE BlockSafe'
<1>1. PICK W : op \in [Threads -> Frames(W)]
  BY OpFrames, Numbers
<1>2. op[t].pc = "release" /\ UNCHANGED <<mapping, list, buffer, disk>>
  BY DEF Release, At
<1>3. PICK K \in Keys, o \in Lists : K = op[t].key /\ o = op[t].old /\ o # None /\ op[t].new # o /\ op[t].call # "get"
  BY <1>2, Releases
<1>4. PICK k \in Nat : k = op[t].k
  BY Numbers
<1>5. BlocksTyped /\ ListSafe /\ Parted /\ DeepFor(t) /\ IsABag(free)
  BY DEF BlockSafe, Deeper, BlocksTyped
<1>6. CASE k < Pages(list[o].size)
  <2>1. PICK p \in Nat : p = k + 1
    BY <1>4
  <2>2. free' = Push(free, list[o].at[p]) /\ op' = [op EXCEPT ![t].k = p]
    BY <1>3, <1>4, <1>6, <2>1 DEF Release
  <2>3. \A u \in Threads : u # t => op'[u] = op[u]
    BY <1>1, <2>2
  <2>4. /\ op'[t].pc = "release" /\ op'[t].new = op[t].new /\ op'[t].old = o /\ op'[t].key = K
        /\ op'[t].call = op[t].call /\ op'[t].from = op[t].from /\ op'[t].k = p /\ op'[t].n = op[t].n
    BY <1>1, <1>2, <1>3, <2>2 DEF Frames
  <2>5. Pages(list[o].size) \in Int
    <3>1. list[o].size \in Int /\ PageSize \in Nat \ {0}
      BY <1>5, StoreAssumption DEF BlocksTyped
    <3>2. QED BY <3>1 DEF Pages
  <2>6. p \in k + 1..Pages(list[o].size)
    BY <1>4, <1>6, <2>1, <2>5
  <2>7. \A l \in Lists, i \in Nat : Mine(t, l, i)' <=> Mine(t, l, i) /\ ~(l = o /\ i = p)
    <3>1. \A i \in Nat : i \in p + 1..Pages(list[o].size) <=> i \in k + 1..Pages(list[o].size) /\ i # p
      BY <1>4, <2>1, <2>5
    <3>2. \A l \in Lists, i \in Nat : Fills(t, l, i)' <=> Fills(t, l, i) /\ ~(l = o /\ i = p)
      BY <1>2, <1>3, <1>4, <2>4, <3>1 DEF Fills
    <3>3. Releasing(t) /\ Releasing(t)'
      BY <1>2, <2>4 DEF Releasing
    <3>4. QED BY <3>2, <3>3 DEF Mine
  <2>8. Within(t, K, None)
    BY <1>2, <1>3, <2>3, <2>4 DEF Within
  <2>9. \A l, i : Uses(K, l, i) <=> Mine(t, l, i)
    BY <1>2, <1>3, <1>5, WriterAlone
  <2>10. \A l, i : Uses(K, l, i)' <=> Mine(t, l, i)'
    BY <1>3, <2>4, WriterPlacesNext
  <2>11. Uses(K, o, p)
    <3>1. Fills(t, o, p)
      BY <1>2, <1>3, <1>4, <2>6 DEF Fills
    <3>2. QED BY <2>9, <3>1 DEF Mine
  <2>12. Parted'
    <3>1. \A j \in Keys, l \in Lists, i \in Nat : Uses(j, l, i)' <=> Uses(j, l, i) /\ ~(j = K /\ l = o /\ i = p)
      <4>1. \A j \in Keys, l \in Lists, i \in Nat : j # K => (Uses(j, l, i)' <=> Uses(j, l, i))
        BY <1>5, <2>8, OthersUse
      <4>2. QED BY <2>7, <2>9, <2>10, <4>1
    <3>2. QED BY <1>2, <1>5, <2>2, <2>11, <3>1, PartedLess
  <2>13. BlocksTyped'
    <3>1. list[o].at[p] \in Blocks
      BY <1>5, <2>11 DEF Parted, InUse
    <3>2. IsABag(free') /\ Free' \subseteq Blocks
      BY <1>5, <2>2, <3>1, Pushed DEF BlocksTyped, Free
    <3>3. \A u \in Threads : op'[u].from \in Nat /\ op'[u].k \in Nat /\ op'[u].n \in Nat
      BY <1>5, <2>3, <2>4 DEF BlocksTyped
    <3>4. QED BY <1>2, <1>5, <3>2, <3>3 DEF BlocksTyped
  <2>14. Counted(t)'
    BY <1>2, <2>4, Numbers DEF Counted
  <2>15. DeepFor(t)'
    BY <1>2, <1>5, <2>4 DEF DeepFor, Deep
  <2>16. DeepOwn(K)'
    BY <2>4 DEF DeepOwn, InOwn, Settled, Releasing
  <2>17. QED BY <1>2, <1>3, <2>8, <2>12, <2>13, <2>14, <2>15, <2>16, WriterStep
<1>7. CASE ~(k < Pages(list[o].size))
  <2>1. PICK l \in {"forget", "swap"} :
          /\ l = (IF op[t].new = None THEN "forget" ELSE "swap")
          /\ free' = free /\ op' = [op EXCEPT ![t].pc = l]
    BY <1>3, <1>4, <1>7 DEF Release, To
  <2>2. \A u \in Threads : u # t => op'[u] = op[u]
    BY <1>1, <2>1
  <2>3. /\ op'[t].pc = l /\ op'[t].new = op[t].new /\ op'[t].old = o /\ op'[t].key = K
        /\ op'[t].call = op[t].call /\ op'[t].from = op[t].from /\ op'[t].k = k /\ op'[t].n = op[t].n
    BY <1>1, <1>3, <1>4, <2>1 DEF Frames
  <2>4. \A i \in Nat : i \notin k + 1..Pages(list[o].size)
    <3>1. list[o].size \in Int /\ PageSize \in Nat \ {0}
      BY <1>5, StoreAssumption DEF BlocksTyped
    <3>2. Pages(list[o].size) \in Int
      BY <3>1 DEF Pages
    <3>3. QED BY <1>4, <1>7, <3>2
  <2>5. \A m \in Lists, i \in Nat : Mine(t, m, i)' <=> Mine(t, m, i)
    <3>1. \A m \in Lists, i \in Nat : Fills(t, m, i)' <=> Fills(t, m, i)
      <4>1. \A m \in Lists, i \in Nat : Fills(t, m, i) <=>
              m = op[t].new /\ m # None /\ list[m].size >= 0 /\ i \in 1..Pages(list[m].size)
        BY <1>2, <1>3, <1>4, <2>4 DEF Fills
      <4>2. \A m \in Lists, i \in Nat : Fills(t, m, i)' <=>
              m = op[t].new /\ m # None /\ list[m].size >= 0 /\ i \in 1..Pages(list[m].size)
        BY <1>2, <2>1, <2>3 DEF Fills
      <4>3. QED BY <4>1, <4>2
    <3>2. Releasing(t) /\ Releasing(t)'
      BY <1>2, <2>1, <2>3 DEF Releasing
    <3>3. QED BY <3>1, <3>2 DEF Mine
  <2>6. Counted(t)'
    BY <1>2, <2>1, <2>3, Numbers DEF Counted
  <2>7. DeepFor(t)'
    BY <1>2, <1>5, <2>1, <2>3 DEF DeepFor, Deep
  <2>8. DeepOwn(K)'
    BY <2>1, <2>3 DEF DeepOwn, InOwn, Settled, Releasing
  <2>9. op'[t].from \in Nat /\ op'[t].k \in Nat /\ op'[t].n \in Nat
    BY <1>4, <2>3, Numbers
  <2>10. QED BY <1>2, <1>3, <2>1, <2>2, <2>3, <2>5, <2>6, <2>7, <2>8, <2>9, WriterMoves
<1>8. QED BY <1>6, <1>7

-----------------------------------------------------------------------------
LEMMA BlockStep == ASSUME Restarts = FALSE, BlockSafe, [Next]_vars PROVE BlockSafe'
<1>1. ListSafe'
  BY ListStep DEF BlockSafe
<1>2. CASE UNCHANGED vars
  <2>1. UNCHANGED <<mapping, list, buffer, free, disk, op>>
    BY <1>2 DEF vars
  <2>2. BlocksTyped' /\ \A t \in Threads : Counted(t)'
    BY <2>1 DEF BlockSafe, BlocksTyped, Free, Counted, Sharing
  <2>3. \A k, l, i : (InOwn(k, l, i)' <=> InOwn(k, l, i)) /\ (Uses(k, l, i)' <=> Uses(k, l, i))
    BY <2>1 DEF InOwn, Settled, Releasing, Uses, Fills
  <2>4. Parted'
    BY <2>1, <2>3, PartedSame DEF BlockSafe
  <2>5. Deeper'
    BY <2>1, <2>3 DEF BlockSafe, Deeper, DeepOwn, DeepFor, Deep
  <2>6. QED BY <1>1, <2>2, <2>4, <2>5 DEF BlockSafe
<1>3. ASSUME NEW t \in Threads, Step(t) PROVE BlockSafe'
  <2>1. CASE Refuse(t) \/ Get(t) \/ ReadBlock(t) \/ ReadEnd(t) \/ Return(t)
    BY <1>1, <2>1, ReaderBlocks
  <2>2. CASE PutFirst(t) \/ Put(t) \/ Merge(t) \/ Delete(t) \/ Spare(t)
    BY <1>1, <2>2, PutFirstBlocks, PutBlocks, MergeBlocks, DeleteBlocks, SpareBlocks
  <2>3. CASE GetBlock(t) \/ GotBlocks(t) \/ WriteBlock(t) \/ SetSize(t)
    BY <1>1, <2>3, GetBlockBlocks, GotBlocksBlocks, WriteBlockBlocks, SetSizeBlocks
  <2>4. CASE Release(t) \/ Swap(t) \/ Keep(t) \/ Forget(t) \/ Unmap(t)
    BY <1>1, <2>4, ReleaseBlocks, SwapBlocks, KeepBlocks, ForgetBlocks
  <2>5. QED BY <1>3, <2>1, <2>2, <2>3, <2>4 DEF Step
<1>4. ASSUME NEW t \in Threads, NEW o \in Calls, NEW k \in Keys, NEW v \in Inputs, Call(t, o, k, v) PROVE BlockSafe'
  BY <1>1, <1>4, CallBlocks
<1>5. ~Restart
  BY DEF Restart
<1>6. QED BY <1>2, <1>3, <1>4, <1>5 DEF Next, Calls

(* The blocks of a key are those at the places it uses. *)
LEMMA OwnedPlaces ==
  ASSUME BlockSafe, NEW k \in Keys, NEW b
  PROVE  b \in OwnedBy(k) <=> \E l \in Lists, i \in Nat : Uses(k, l, i) /\ list[l].at[i] = b
<1>1. ListSafe /\ \A t \in Threads : Counted(t) /\ Staged(t) /\ op[t].from \in Nat /\ op[t].k \in Nat /\ op[t].n \in Nat
  <2>1. ListSafe
    BY DEF BlockSafe
  <2>2. QED BY <2>1, Numbers, FrameOf
<1>2. \A l \in Lists : list[l].size \in Int /\ Pages(list[l].size) \in Int
  <2>1. PageSize \in Nat \ {0}
    BY StoreAssumption
  <2>2. QED BY <2>1 DEF BlockSafe, BlocksTyped, Pages
<1>3. ASSUME NEW l \in Lists
      PROVE  b \in UsedBy(l) <=> \E i \in Nat : list[l].size >= 0 /\ i \in 1..Pages(list[l].size) /\ list[l].at[i] = b
  <2>1. list[l].size < 0 <=> ~(list[l].size >= 0)
    BY <1>2
  <2>2. \A i \in 1..Pages(list[l].size) : i \in Nat
    BY <1>2
  <2>3. QED BY <2>1, <2>2 DEF UsedBy
<1>4. ASSUME NEW t \in Threads
      PROVE  b \in Kept(t) \cup Filled(t) <=> \E l \in Lists, i \in Nat : Fills(t, l, i) /\ list[l].at[i] = b
  <2>1. op[t].old \in Lists \cup {None} /\ op[t].new \in Lists \cup {None}
    BY <1>1, FrameOf
  <2>2. CASE op[t].pc = "blocks"
    <3>1. op[t].new \in Lists
      BY <1>1, <2>1, <2>2 DEF Staged, Fits
    <3>2. \A i : i \in 1..op[t].k => op[t].from + i \in Nat /\ op[t].from + i \in op[t].from + 1..op[t].from + op[t].k
      BY <1>1
    <3>3. \A i \in op[t].from + 1..op[t].from + op[t].k : i - op[t].from \in 1..op[t].k /\ i = op[t].from + (i - op[t].from)
      BY <1>1
    <3>4. Kept(t) = {} /\ Filled(t) = {list[op[t].new].at[op[t].from + i] : i \in 1..op[t].k}
      BY <2>2 DEF Kept, Filled, At
    <3>5. QED BY <2>2, <3>1, <3>2, <3>3, <3>4 DEF Fills
  <2>3. CASE op[t].pc = "write"
    <3>1. op[t].new \in Lists
      BY <1>1, <2>1, <2>3 DEF Staged, Fits
    <3>2. \A i : i \in 1..op[t].n => op[t].from + i \in Nat /\ op[t].from + i \in op[t].from + 1..op[t].from + op[t].n
      BY <1>1
    <3>3. \A i \in op[t].from + 1..op[t].from + op[t].n : i - op[t].from \in 1..op[t].n /\ i = op[t].from + (i - op[t].from)
      BY <1>1
    <3>4. Kept(t) = {} /\ Filled(t) = {list[op[t].new].at[op[t].from + i] : i \in 1..op[t].n}
      BY <2>3 DEF Kept, Filled, At
    <3>5. QED BY <2>3, <3>1, <3>2, <3>3, <3>4 DEF Fills
  <2>4. CASE op[t].pc \in {"release", "swap", "keep"}
    <3>1. op[t].old \in Lists /\ op[t].new # op[t].old
      BY <2>4, Releases
    <3>2. b \in Kept(t) <=> op[t].pc = "release" /\ \E i \in Nat : i \in op[t].k + 1..Pages(list[op[t].old].size)
                                                                 /\ list[op[t].old].at[i] = b
      <4>1. \A i \in op[t].k + 1..Pages(list[op[t].old].size) : i \in Nat
        BY <1>1, <1>2, <3>1
      <4>2. QED BY <4>1 DEF Kept, At
    <3>3. b \in Filled(t) <=> op[t].new # None /\ b \in UsedBy(op[t].new)
      BY <2>4 DEF Filled
    <3>4. op[t].new # None => (b \in UsedBy(op[t].new) <=> \E i \in Nat :
            list[op[t].new].size >= 0 /\ i \in 1..Pages(list[op[t].new].size) /\ list[op[t].new].at[i] = b)
      BY <1>3, <2>1
    <3>5. QED BY <2>1, <2>4, <3>1, <3>2, <3>3, <3>4 DEF Fills
  <2>5. CASE op[t].pc \notin {"blocks", "write", "release", "swap", "keep"}
    BY <2>5 DEF Kept, Filled, Fills, At
  <2>6. QED BY <2>2, <2>3, <2>4, <2>5
<1>5. mapping[k] \in Lists \cup {None}
  BY <1>1 DEF ListSafe, Shaped
<1>6. \A t \in Threads : op[t].call = "get" => ~Releasing(t) /\ \A l, i : ~Fills(t, l, i)
  BY <1>1 DEF Staged, Fits, Releasing, Fills
<1>7. CASE Settled(k)
  <2>1. ~(\E t \in Writer(k) : Releasing(t))
    BY <1>7 DEF Settled, Writer
  <2>2. b \in OwnedBy(k) <=> (mapping[k] # None /\ b \in UsedBy(mapping[k])) \/ \E t \in Writer(k) : b \in Filled(t)
    BY <2>1 DEF OwnedBy
  <2>3. \A t \in Writer(k) : t \in Threads /\ Kept(t) = {}
    BY <2>1 DEF Writer, Kept, Releasing, At
  <2>4. (mapping[k] # None /\ b \in UsedBy(mapping[k])) <=> \E l \in Lists, i \in Nat : InOwn(k, l, i) /\ list[l].at[i] = b
    BY <1>3, <1>5, <1>7 DEF InOwn
  <2>5. (\E t \in Writer(k) : b \in Filled(t)) <=>
          \E t \in Threads : op[t].key = k /\ \E l \in Lists, i \in Nat : Fills(t, l, i) /\ list[l].at[i] = b
    BY <1>4, <1>6, <2>3 DEF Writer
  <2>6. QED BY <2>2, <2>4, <2>5 DEF Uses
<1>8. CASE ~Settled(k)
  <2>1. PICK u \in Threads : op[u].key = k /\ Releasing(u)
    BY <1>8 DEF Settled
  <2>2. u \in Writer(k)
    BY <1>6, <2>1 DEF Writer
  <2>3. b \in OwnedBy(k) <=> \E t \in Writer(k) : b \in Kept(t) \cup Filled(t)
    BY <2>1, <2>2 DEF OwnedBy
  <2>4. (\E t \in Writer(k) : b \in Kept(t) \cup Filled(t)) <=>
          \E t \in Threads : op[t].key = k /\ \E l \in Lists, i \in Nat : Fills(t, l, i) /\ list[l].at[i] = b
    BY <1>4, <1>6 DEF Writer
  <2>5. \A l, i : ~InOwn(k, l, i)
    BY <1>8 DEF InOwn
  <2>6. QED BY <2>3, <2>4, <2>5 DEF Uses
<1>9. QED BY <1>7, <1>8

LEMMA BlocksApart == ASSUME BlockSafe PROVE BlocksOwned
<1>1. Parted /\ Free \subseteq Blocks
  BY DEF BlockSafe, BlocksTyped
<1>2. \A b \in BagToSet(free) : free[b] = 1
  BY <1>1 DEF Parted, FreeOnce, Free
<1>3. \A k \in Keys : \A b : b \in OwnedBy(k) <=> \E l \in Lists, i \in Nat : Uses(k, l, i) /\ list[l].at[i] = b
  BY OwnedPlaces
<1>4. BagToSet(free) \cup UNION {OwnedBy(k) : k \in Keys} = Blocks
  <2>1. \A b \in Blocks : b \in Free \/ \E k \in Keys : b \in OwnedBy(k)
    BY <1>1, <1>3 DEF Parted, NoneLost
  <2>2. \A k \in Keys : OwnedBy(k) \subseteq Blocks
    BY <1>1, <1>3 DEF Parted, InUse
  <2>3. QED BY <1>1, <2>1, <2>2 DEF Free
<1>5. \A k \in Keys : OwnedBy(k) \cap BagToSet(free) = {}
  BY <1>1, <1>3 DEF Parted, InUse, Free
<1>6. \A k, j \in Keys : k # j => OwnedBy(k) \cap OwnedBy(j) = {}
  BY <1>1, <1>3 DEF Parted, UsedOnce
<1>7. QED BY <1>2, <1>4, <1>5, <1>6 DEF BlocksOwned

(* As long as the program runs, no block is lost, none is free twice or    *)
(* while a key uses it, and no two keys share one: blocks are taken, given *)
(* back and shared with a key's next list by any number of threads, with   *)
(* readers beside them or without.  A restart breaks this.                 *)
THEOREM BlocksStayOwned == ASSUME Restarts = FALSE PROVE Spec => []BlocksOwned
<1>1. Init => BlockSafe
  BY BlocksInit
<1>2. BlockSafe /\ [Next]_vars => BlockSafe'
  BY BlockStep
<1>3. BlockSafe => BlocksOwned
  BY BlocksApart
<1>4. QED BY <1>1, <1>2, <1>3, PTL DEF Spec

-----------------------------------------------------------------------------
(* Values.  With the callers' locks a writer is alone with its key.        *)
Excluding ==
  \A t, u \in Threads :
    t # u /\ op[t].key = op[u].key /\ op[t].key # None => op[t].call = "get" /\ op[u].call = "get"

(* What a get has read are the first records of its key.                   *)
ReadSoFar(t) ==
  LET o == op[t] IN
  o.pc = "read" =>
    /\ o.old # None /\ o.old = mapping[o.key] /\ list[o.old].size >= 0
    /\ o.k # 0 /\ o.value \in Seq(Records)
    /\ Len(o.value) = IF (o.k - 1) * PageSize < list[o.old].size THEN (o.k - 1) * PageSize ELSE list[o.old].size
    /\ \A i \in 1..Len(o.value) : o.value[i] = RecordAt(o.old, i)

(* What a writer is about to write, behind the blocks that it shares.      *)
Told(t) ==
  LET o == op[t]
      shared == o.from * PageSize IN
  o.pc \in {"spare", "blocks", "write"} =>
    /\ o.arg \in Seq(Records)
    /\ o.call = "put" => o.from = 0 /\ o.value = o.arg
    /\ o.call = "merge" =>
         /\ o.old # None
         /\ Len(o.value) = list[o.old].size - shared + Len(o.arg)
         /\ \A i \in 1..Len(o.value) :
              o.value[i] = IF shared + i <= list[o.old].size THEN RecordAt(o.old, shared + i)
                           ELSE o.arg[shared + i - list[o.old].size]

Written(t) ==
  op[t].pc = "write" => \A i \in 1..op[t].k : disk[list[op[t].new].at[op[t].from + i]] = Page(op[t].value, i)

Short == \A b \in Blocks : Len(disk[b]) <= PageSize

Blank(t) == op[t].pc = "called" => op[t].value = << >>

Knows(t) == Blank(t) /\ ReadSoFar(t) /\ Told(t) /\ Written(t)

ValueSafe == BlockSafe /\ Excluding /\ Short /\ \A t \in Threads : Knows(t)

-----------------------------------------------------------------------------
(* Places of records. *)
LEMMA PlaceUnique ==
  ASSUME NEW p \in Nat, NEW q \in Nat, NEW r \in 1..PageSize, NEW s \in 1..PageSize, p * PageSize + r = q * PageSize + s
  PROVE  p = q /\ r = s
<1>1. PICK z \in Nat \ {0} : z = PageSize
  BY StoreAssumption
<1>2. PICK x \in Nat, y \in Nat : x = p * z /\ y = q * z
  BY <1>1
<1>3. (p + 1) * z = x + z /\ (q + 1) * z = y + z
  BY <1>1, <1>2
<1>4. x + r = y + s /\ r \in 1..z /\ s \in 1..z
  BY <1>1, <1>2
<1>5. ~((p + 1) * z <= y) /\ ~((q + 1) * z <= x)
  BY <1>1, <1>2, <1>3, <1>4
<1>6. ~(p + 1 <= q) /\ ~(q + 1 <= p)
  BY <1>1, <1>2, <1>5, TimesOrder
<1>7. p = q
  BY <1>6
<1>8. x = y
  BY <1>2, <1>7
<1>9. QED BY <1>1, <1>4, <1>7, <1>8

LEMMA PlaceOf ==
  ASSUME NEW i \in Nat \ {0}
  PROVE  \E p \in Nat, r \in 1..PageSize :
           /\ i = p * PageSize + r
           /\ \A l : RecordAt(l, i) = disk[list[l].at[p + 1]][r]
           /\ \A l : RecordAt(l, i)' = disk'[list'[l].at[p + 1]][r]
<1>1. PICK z \in Nat \ {0} : z = PageSize
  BY StoreAssumption
<1>2. PICK j \in Nat : j = i - 1
  OBVIOUS
<1>3. PICK p \in Nat, s \in 0..(z - 1) : p = j \div z /\ s = j % z /\ j = z * p + s
  BY <1>1, Divided
<1>4. PICK r \in 1..z : r = s + 1
  BY <1>1, <1>3
<1>5. z * p = p * z
  BY <1>1, <1>3
<1>6. PICK x \in Nat : x = p * z
  BY <1>1
<1>7. i = x + r
  BY <1>2, <1>3, <1>4, <1>5, <1>6
<1>8. ((i - 1) \div PageSize) + 1 = p + 1 /\ ((i - 1) % PageSize) + 1 = r
  BY <1>1, <1>2, <1>3, <1>4
<1>9. /\ \A l : RecordAt(l, i) = disk[list[l].at[p + 1]][r]
      /\ \A l : RecordAt(l, i)' = disk'[list'[l].at[p + 1]][r]
  BY <1>8 DEF RecordAt
<1>10. QED BY <1>1, <1>6, <1>7, <1>9

LEMMA PlaceAt ==
  ASSUME NEW p \in Nat, NEW r \in 1..PageSize
  PROVE  /\ p * PageSize + r \in Nat \ {0}
         /\ \A l : RecordAt(l, p * PageSize + r) = disk[list[l].at[p + 1]][r]
         /\ \A l : RecordAt(l, p * PageSize + r)' = disk'[list'[l].at[p + 1]][r]
<1>1. PICK z \in Nat \ {0} : z = PageSize
  BY StoreAssumption
<1>2. PICK x \in Nat : x = p * z
  BY <1>1
<1>3. PICK i \in Nat \ {0} : i = x + r
  BY <1>1, <1>2
<1>4. i = p * PageSize + r
  BY <1>1, <1>2, <1>3
<1>5. PICK q \in Nat, s \in 1..PageSize :
        /\ i = q * PageSize + s
        /\ \A l : RecordAt(l, i) = disk[list[l].at[q + 1]][s]
        /\ \A l : RecordAt(l, i)' = disk'[list'[l].at[q + 1]][s]
  BY PlaceOf
<1>6. p = q /\ r = s
  BY <1>4, <1>5, PlaceUnique
<1>7. QED BY <1>4, <1>5, <1>6

(* The block of a record is one of the blocks of the value. *)
LEMMA PlaceWithin ==
  ASSUME NEW n \in Nat, NEW i \in 1..n, NEW p \in Nat, NEW r \in 1..PageSize, i = p * PageSize + r
  PROVE  p + 1 \in 1..Pages(n)
<1>1. PICK z \in Nat \ {0} : z = PageSize
  BY StoreAssumption
<1>2. PICK q \in Nat : q = Pages(n)
  BY PagesBound
<1>3. PICK x \in Nat, y \in Nat : x = p * z /\ y = q * z
  <2>1. p * z \in Nat /\ q * z \in Nat
    BY <1>1, <1>2
  <2>2. QED BY <2>1
<1>a. n <= y
  BY <1>1, <1>2, <1>3, PagesBound
<1>4. x < y
  BY <1>1, <1>a, <1>3
<1>5. p < q
  BY <1>1, <1>3, <1>4, TimesOrder
<1>6. QED BY <1>2, <1>5

-----------------------------------------------------------------------------
(* A list and its records stay. *)
Stays(l) == list'[l].size = list[l].size /\ \A i \in 1..list[l].size : RecordAt(l, i)' = RecordAt(l, i)

LEMMA SameContents == ASSUME NEW l, l # None => Stays(l) PROVE Contents(l)' = Contents(l)
<1>1. CASE l = None
  BY <1>1 DEF Contents
<1>2. CASE l # None
  <2>1. list'[l].size = list[l].size /\ \A i \in 1..list[l].size : RecordAt(l, i)' = RecordAt(l, i)
    BY <1>2 DEF Stays
  <2>2. [i \in 1..list'[l].size |-> RecordAt(l, i)'] = [i \in 1..list[l].size |-> RecordAt(l, i)]
    BY <2>1
  <2>3. QED BY <1>2, <2>1, <2>2 DEF Contents
<1>3. QED BY <1>1, <1>2

(* Whose value it is. *)
Changes(u, k) == u \in Threads /\ op[u].key = k /\ op[u].call # "get" /\ Releasing(u)

LEMMA OneChanges == ASSUME ListSafe, NEW k \in Keys, NEW t, NEW u, Changes(t, k), Changes(u, k) PROVE t = u
BY StoreAssumption DEF ListSafe, Alone, Changes

LEMMA ValueOfChange == ASSUME ListSafe, NEW k \in Keys, NEW t, Changes(t, k) PROVE ValueOf(k) = Contents(op[t].new)
<1>1. t \in Writer(k) /\ Releasing(t)
  BY DEF Changes, Writer
<1>2. PICK u : u = CHOOSE v \in Writer(k) : Releasing(v)
  OBVIOUS
<1>3. u \in Writer(k) /\ Releasing(u)
  BY <1>1, <1>2
<1>4. u = t
  BY <1>3, OneChanges DEF Changes, Writer
<1>5. QED BY <1>1, <1>2, <1>4 DEF ValueOf

LEMMA ValueOfOwn == ASSUME NEW k \in Keys, \A u : ~Changes(u, k) PROVE ValueOf(k) = Contents(mapping[k])
BY DEF ValueOf, Changes, Writer

LEMMA Values ==
  ListSafe => \A k \in Keys :
    /\ \A t : Changes(t, k) => ValueOf(k) = Contents(op[t].new)
    /\ (\A u : ~Changes(u, k)) => ValueOf(k) = Contents(mapping[k])
BY ValueOfChange, ValueOfOwn

LEMMA ValuesNext ==
  (ListSafe => \A k \in Keys :
    /\ \A t : Changes(t, k) => ValueOf(k) = Contents(op[t].new)
    /\ (\A u : ~Changes(u, k)) => ValueOf(k) = Contents(mapping[k]))'
BY Values, PTL

LEMMA SettledKey ==
  ASSUME ListSafe, NEW k \in Keys
  PROVE  Settled(k) <=> \A u : ~Changes(u, k)
<1>1. \A u \in Threads : Releasing(u) => op[u].call # "get"
  BY FrameOf DEF Releasing, Staged, Fits
<1>2. QED BY <1>1 DEF Settled, Changes

(* A list stays with its records if the blocks behind them do. *)
LEMMA ListStays ==
  ASSUME BlocksTyped, NEW l \in Lists, list'[l].size = list[l].size,
         list[l].size >= 0 => \A i \in 1..Pages(list[l].size) : disk'[list'[l].at[i]] = disk[list[l].at[i]]
  PROVE  Stays(l)
<1>1. PICK n \in Int : n = list[l].size
  BY DEF BlocksTyped
<1>2. ASSUME NEW i \in 1..n PROVE RecordAt(l, i)' = RecordAt(l, i)
  <2>1. n \in Nat /\ i \in Nat \ {0}
    BY <1>1, <1>2
  <2>2. PICK p \in Nat, r \in 1..PageSize :
           /\ i = p * PageSize + r
           /\ \A m : RecordAt(m, i) = disk[list[m].at[p + 1]][r]
           /\ \A m : RecordAt(m, i)' = disk'[list'[m].at[p + 1]][r]
    BY <2>1, PlaceOf
  <2>3. p + 1 \in 1..Pages(n)
    BY <1>2, <2>1, <2>2, PlaceWithin
  <2>4. disk'[list'[l].at[p + 1]] = disk[list[l].at[p + 1]]
    BY <1>1, <2>1, <2>3
  <2>5. QED BY <2>2, <2>4
<1>3. QED BY <1>1, <1>2 DEF Stays

(* What a step at one key leaves of the others. *)
DiskBut(K) == \A k \in Keys, l \in Lists, i \in Nat :
  k # K /\ Uses(k, l, i) => disk'[list[l].at[i]] = disk[list[l].at[i]]

LEMMA OthersStay ==
  ASSUME BlockSafe, NEW t, NEW K, NEW L, Within(t, K, L), DiskBut(K), NEW k \in Keys, k # K
  PROVE  /\ (\A u : ~Changes(u, k)) /\ mapping[k] # None => Stays(mapping[k])
         /\ \A u : Changes(u, k) /\ op[u].new # None => Stays(op[u].new)
<1>1. ListSafe /\ BlocksTyped /\ k # None
  BY StoreAssumption DEF BlockSafe
<1>2. ASSUME \A u : ~Changes(u, k), mapping[k] # None PROVE Stays(mapping[k])
  <2>1. PICK l \in Lists : l = mapping[k]
    BY <1>1, <1>2 DEF ListSafe, Shaped
  <2>2. Settled(k) /\ l # None
    BY <1>1, <1>2, <2>1, SettledKey
  <2>3. list'[l] = list[l]
    <3>1. Owns(k, l)
      BY <2>1, <2>2 DEF Settled, Releasing, Owns, Gone
    <3>2. QED BY <2>1, <3>1 DEF Within
  <2>4. list[l].size >= 0 => \A i \in 1..Pages(list[l].size) : InOwn(k, l, i)
    BY <2>1, <2>2 DEF InOwn
  <2>5. list[l].size >= 0 => \A i \in 1..Pages(list[l].size) : i \in Nat /\ Uses(k, l, i)
    BY <2>4 DEF Uses
  <2>6. list[l].size >= 0 => \A i \in 1..Pages(list[l].size) : disk'[list[l].at[i]] = disk[list[l].at[i]]
    BY <2>1, <2>5 DEF DiskBut
  <2>7. QED BY <1>1, <2>1, <2>3, <2>6, ListStays
<1>3. ASSUME NEW u, Changes(u, k), op[u].new # None PROVE Stays(op[u].new)
  <2>1. u \in Threads /\ op[u].key = k /\ u # t /\ Releasing(u)
    BY <1>1, <1>3 DEF Changes, Within
  <2>2. PICK l \in Lists : l = op[u].new
    BY <1>1, <1>3, <2>1, FrameOf
  <2>3. op[u].pc \in {"release", "swap", "keep"}
    BY <1>1, <1>3, <2>1, FrameOf DEF Staged, Fits, Releasing
  <2>4. list'[l] = list[l]
    BY <2>1, <2>2 DEF Within
  <2>5. list[l].size >= 0 => \A i \in 1..Pages(list[l].size) : i \in Nat /\ Uses(k, l, i)
    BY <1>3, <2>1, <2>2, <2>3 DEF Uses, Fills
  <2>6. list[l].size >= 0 => \A i \in 1..Pages(list[l].size) : disk'[list[l].at[i]] = disk[list[l].at[i]]
    BY <2>5 DEF DiskBut
  <2>7. QED BY <1>1, <2>2, <2>4, <2>6, ListStays
<1>4. QED BY <1>2, <1>3

(* Their values. *)
LEMMA OthersValues ==
  ASSUME BlockSafe, ListSafe', NEW t, NEW K, NEW L, Within(t, K, L), DiskBut(K)
  PROVE  \A k \in Keys : k # K => ValueOf(k)' = ValueOf(k)
<1> SUFFICES ASSUME NEW k \in Keys, k # K PROVE ValueOf(k)' = ValueOf(k)
  OBVIOUS
<1>1. ListSafe /\ k # None
  BY StoreAssumption DEF BlockSafe
<1>2. \A u : Changes(u, k)' <=> Changes(u, k)
  BY <1>1 DEF Within, Changes, Releasing
<1>3. CASE \A u : ~Changes(u, k)
  <2>1. PICK l : l = mapping[k] /\ l = mapping'[k]
    BY DEF Within
  <2>2. ValueOf(k) = Contents(l)
    BY <1>1, <1>3, <2>1, Values
  <2>3. ValueOf(k)' = Contents(l)'
    BY <1>2, <1>3, <2>1, ValuesNext
  <2>4. l # None => Stays(l)
    BY <1>3, <2>1, OthersStay
  <2>5. Contents(l)' = Contents(l)
    BY <2>4, SameContents
  <2>6. QED BY <2>2, <2>3, <2>5
<1>4. CASE \E u : Changes(u, k)
  <2>1. PICK u : Changes(u, k)
    BY <1>4
  <2>2. u # t /\ op'[u] = op[u]
    BY <1>1, <2>1 DEF Within, Changes
  <2>3. PICK l : l = op[u].new
    OBVIOUS
  <2>4. ValueOf(k) = Contents(l)
    BY <1>1, <2>1, <2>3, Values
  <2>5. ValueOf(k)' = Contents(l)'
    BY <1>2, <2>1, <2>2, <2>3, ValuesNext
  <2>6. l # None => Stays(l)
    BY <2>1, <2>3, OthersStay
  <2>7. Contents(l)' = Contents(l)
    BY <2>6, SameContents
  <2>8. QED BY <2>4, <2>5, <2>7
<1>5. QED BY <1>3, <1>4

LEMMA OldOfWriter ==
  ASSUME ListSafe, NEW t \in Threads, op[t].pc \in {"spare", "blocks", "write"}, op[t].old # None
  PROVE  op[t].key \in Keys /\ op[t].old = mapping[op[t].key] /\ op[t].old \in Lists /\ op[t].call \in {"put", "merge"}
BY FrameOf DEF Staged, Fits

LEMMA QuietKey ==
  ASSUME ListSafe, Excluding, NEW t \in Threads, op[t].pc # "idle", ~Releasing(t)
  PROVE  op[t].key \in Keys /\ \A u : ~Changes(u, op[t].key)
<1>1. op[t].key \in Keys /\ op[t].key # None
  BY FrameOf, StoreAssumption
<1>2. QED BY <1>1 DEF Excluding, Changes

(* The records that a Told writer has shared or not are on its old list.   *)
LEMMA ToldStays ==
  ASSUME BlockSafe, NEW t \in Threads, Told(t),
         op'[t].pc \in {"spare", "blocks", "write"} => op[t].pc \in {"spare", "blocks", "write"},
         op'[t].call = op[t].call, op'[t].arg = op[t].arg, op'[t].value = op[t].value, op'[t].from = op[t].from,
         op'[t].old = op[t].old,
         op[t].pc \in {"spare", "blocks", "write"} /\ op[t].old # None => Stays(op[t].old)
  PROVE  Told(t)'
<1>1. CASE op[t].pc \notin {"spare", "blocks", "write"} \/ op[t].call # "merge"
  BY <1>1 DEF Told
<1>2. CASE op[t].pc \in {"spare", "blocks", "write"} /\ op[t].call = "merge"
  <2>1. PICK o : o = op[t].old /\ o # None
    BY <1>2 DEF Told
  <2>2. list'[o].size = list[o].size /\ \A i \in 1..list[o].size : RecordAt(o, i)' = RecordAt(o, i)
    BY <1>2, <2>1 DEF Stays
  <2>3. PICK g \in Nat : g = op[t].from * PageSize
    <3>1. PICK z \in Nat \ {0}, f \in Nat : z = PageSize /\ f = op[t].from
      BY Numbers, StoreAssumption
    <3>2. f * z \in Nat
      BY <3>1
    <3>3. QED BY <3>1, <3>2
  <2>4. \A i \in 1..Len(op[t].value) : g + i <= list[o].size => RecordAt(o, g + i)' = RecordAt(o, g + i)
    <3>1. ASSUME NEW i \in 1..Len(op[t].value), g + i <= list[o].size PROVE g + i \in 1..list[o].size
      <4>1. PICK n \in Int : n = list[o].size
        BY <1>2, <2>1, Numbers, OldOfWriter DEF BlockSafe, BlocksTyped
      <4>2. i \in Int /\ i >= 1
        <5>1. PICK m \in Nat : m = Len(op[t].value)
          BY <1>2, Numbers DEF Counted
        <5>2. QED BY <5>1
      <4>3. QED BY <2>3, <3>1, <4>1, <4>2
    <3>2. QED BY <2>2, <3>1
  <2>5. QED BY <1>2, <2>1, <2>2, <2>3, <2>4 DEF Told
<1>3. QED BY <1>1, <1>2

LEMMA ReadStays ==
  ASSUME BlockSafe, NEW t \in Threads, ReadSoFar(t), op'[t] = op[t],
         op[t].pc = "read" => mapping'[op[t].key] = mapping[op[t].key] /\ Stays(op[t].old)
  PROVE  ReadSoFar(t)'
<1>1. CASE op[t].pc # "read"
  BY <1>1 DEF ReadSoFar
<1>2. CASE op[t].pc = "read"
  <2>1. PICK o \in Lists : o = op[t].old /\ o # None
    BY <1>2, Numbers, FrameOf DEF ReadSoFar
  <2>2. list'[o].size = list[o].size /\ \A i \in 1..list[o].size : RecordAt(o, i)' = RecordAt(o, i)
    BY <1>2, <2>1 DEF Stays
  <2>3. PICK n \in Int, m \in Nat, g \in Int : n = list[o].size /\ m = Len(op[t].value) /\ g = (op[t].k - 1) * PageSize
    <3>1. list[o].size \in Int
      BY <2>1 DEF BlockSafe, BlocksTyped
    <3>2. Len(op[t].value) \in Nat
      BY <1>2 DEF ReadSoFar
    <3>3. (op[t].k - 1) * PageSize \in Int
      BY Numbers, StoreAssumption
    <3>4. QED BY <3>1, <3>2, <3>3
  <2>4. m = IF g < n THEN g ELSE n
    BY <1>2, <2>1, <2>3 DEF ReadSoFar
  <2>5. m <= n
    BY <2>3, <2>4
  <2>6. \A i \in 1..m : i \in 1..n
    BY <2>3, <2>5
  <2>7. \A i \in 1..m : op[t].value[i] = RecordAt(o, i)'
    BY <1>2, <2>1, <2>2, <2>3, <2>6 DEF ReadSoFar
  <2>8. QED BY <1>2, <2>1, <2>2, <2>3, <2>7 DEF ReadSoFar
<1>3. QED BY <1>1, <1>2

LEMMA OthersKnow ==
  ASSUME ValueSafe, NEW t, NEW K, NEW L, Within(t, K, L), DiskBut(K),
         NEW u \in Threads, u # t, op[u].key # K
  PROVE  Knows(u)'
<1>1. BlockSafe /\ ListSafe /\ Excluding /\ Knows(u) /\ op'[u] = op[u]
  BY DEF ValueSafe, BlockSafe, Knows, Within
<1>2. ReadSoFar(u)'
  <2>1. ASSUME op[u].pc = "read" PROVE mapping'[op[u].key] = mapping[op[u].key] /\ Stays(op[u].old)
    <3>1. op[u].key \in Keys /\ \A v : ~Changes(v, op[u].key)
      BY <1>1, <2>1, QuietKey DEF Releasing
    <3>2. op[u].old = mapping[op[u].key] /\ op[u].old # None
      BY <1>1, <2>1 DEF Knows, ReadSoFar
    <3>3. Stays(op[u].old)
      BY <1>1, <3>1, <3>2, OthersStay
    <3>4. QED BY <3>1, <3>3 DEF Within
  <2>2. QED BY <1>1, <2>1, ReadStays DEF Knows
<1>3. Told(u)'
  <2>1. ASSUME op[u].pc \in {"spare", "blocks", "write"}, op[u].old # None PROVE Stays(op[u].old)
    <3>1. op[u].key \in Keys /\ \A v : ~Changes(v, op[u].key)
      BY <1>1, <2>1, QuietKey DEF Releasing
    <3>2. op[u].old = mapping[op[u].key]
      BY <1>1, <2>1, OldOfWriter
    <3>3. QED BY <1>1, <2>1, <3>1, <3>2, OthersStay
  <2>2. QED BY <1>1, <2>1, ToldStays DEF Knows
<1>4. Written(u)'
  <2>1. CASE op[u].pc # "write"
    BY <1>1, <2>1 DEF Written
  <2>2. CASE op[u].pc = "write"
    <3>1. op[u].key \in Keys /\ op[u].new \in Lists /\ op[u].k <= op[u].n
      BY <1>1, <2>2, Filling
    <3>2. list'[op[u].new] = list[op[u].new]
      BY <3>1 DEF Within
    <3>3. ASSUME NEW i \in 1..op[u].k
          PROVE  disk'[list'[op[u].new].at[op[u].from + i]] = Page(op[u].value, i)
      <4>1. PICK f \in Nat, k \in Nat, n \in Nat : f = op[u].from /\ k = op[u].k /\ n = op[u].n
        BY <1>1, Numbers
      <4>2. f + i \in Nat /\ f + i \in f + 1..f + n
        BY <3>1, <3>3, <4>1
      <4>3. Fills(u, op[u].new, f + i)
        BY <2>2, <4>1, <4>2 DEF Fills
      <4>4. Uses(op[u].key, op[u].new, f + i)
        BY <4>3 DEF Uses
      <4>5. disk'[list[op[u].new].at[f + i]] = disk[list[op[u].new].at[f + i]]
        BY <3>1, <4>2, <4>4 DEF DiskBut
      <4>6. disk[list[op[u].new].at[f + i]] = Page(op[u].value, i)
        BY <1>1, <2>2, <3>3, <4>1 DEF Knows, Written
      <4>7. QED BY <3>2, <4>1, <4>5, <4>6
    <3>4. QED BY <1>1, <2>2, <3>3 DEF Written
  <2>3. QED BY <2>1, <2>2
<1>5. Blank(u)'
  BY <1>1 DEF Blank, Knows
<1>6. QED BY <1>2, <1>3, <1>4, <1>5 DEF Knows

-----------------------------------------------------------------------------
(* Steps of one thread: what the others call and know. *)
Alike(t) == \A u \in Threads : u # t => op'[u] = op[u]

LEMMA NewStore ==
  ASSUME NEW K \in Keys, NEW v, ValueOf(K)' = v, \A k \in Keys : k # K => ValueOf(k)' = ValueOf(k)
  PROVE  [k \in Keys |-> ValueOf(k)]' = [[k \in Keys |-> ValueOf(k)] EXCEPT ![K] = v]
OBVIOUS

LEMMA SameStore ==
  ASSUME \A k \in Keys : ValueOf(k)' = ValueOf(k)
  PROVE  [k \in Keys |-> ValueOf(k)]' = [k \in Keys |-> ValueOf(k)]
OBVIOUS

LEMMA NewCall ==
  ASSUME NEW t \in Threads, NEW c, CallOf(t)' = c, \A u \in Threads : u # t => CallOf(u)' = CallOf(u)
  PROVE  [u \in Threads |-> CallOf(u)]' = [[u \in Threads |-> CallOf(u)] EXCEPT ![t] = c]
OBVIOUS

LEMMA OthersCalls ==
  ASSUME NEW t \in Threads, Alike(t)
  PROVE  \A u \in Threads : u # t => CallOf(u)' = CallOf(u)
BY DEF Alike, CallOf, Releasing, At

LEMMA Stutters ==
  ASSUME NEW t \in Threads, Alike(t), CallOf(t)' = CallOf(t), \A k \in Keys : ValueOf(k)' = ValueOf(k)
  PROVE  UNCHANGED KV!kv
<1>1. \A u \in Threads : CallOf(u)' = CallOf(u)
  BY OthersCalls
<1>2. [u \in Threads |-> CallOf(u)]' = [u \in Threads |-> CallOf(u)]
  BY <1>1
<1>3. QED BY <1>2, SameStore DEF KV!kv

(* Between two steps of a call that is not over.                           *)
LEMMA CallGoesOn ==
  ASSUME NEW t \in Threads, op'[t].call = op[t].call, op'[t].key = op[t].key, op'[t].arg = op[t].arg,
         op[t].pc \notin {"idle", "failed", "done"}, op'[t].pc \notin {"idle", "failed", "done"},
         Releasing(t)' <=> Releasing(t)
  PROVE  CallOf(t)' = CallOf(t)
BY DEF CallOf, At

LEMMA CallTakesEffect ==
  ASSUME NEW t \in Threads, op'[t].call = op[t].call, op'[t].key = op[t].key, op'[t].arg = op[t].arg,
         op[t].pc \notin {"idle", "failed", "done"}, ~Releasing(t),
         op'[t].pc = "done" \/ (op'[t].pc \notin {"idle", "failed", "done"} /\ Releasing(t)'),
         op[t].call # "get"
  PROVE  /\ CallOf(t).state = "called" /\ CallOf(t).op = op[t].call /\ CallOf(t).key = op[t].key
         /\ CallOf(t).value = op[t].arg
         /\ CallOf(t)' = [CallOf(t) EXCEPT !.state = "done"]
BY DEF CallOf, At

LEMMA ExcludingStands ==
  ASSUME Excluding, NEW t \in Threads, Alike(t),
         op'[t].key = None \/ (op'[t].key = op[t].key /\ op'[t].call = op[t].call)
  PROVE  Excluding'
BY DEF Excluding, Alike

LEMMA KnowsNothing ==
  ASSUME NEW t \in Threads, op'[t].pc \notin {"called", "read", "spare", "blocks", "write"}
  PROVE  Knows(t)'
BY DEF Knows, Blank, ReadSoFar, Told, Written

LEMMA QuietSafe ==
  ASSUME ValueSafe, BlockSafe', NEW t \in Threads, UNCHANGED <<mapping, list, disk>>, Alike(t), Excluding', Knows(t)'
  PROVE  ValueSafe'
<1>1. ASSUME NEW u \in Threads, u # t PROVE Knows(u)'
  <2>1. op'[u] = op[u] /\ Knows(u)
    BY <1>1 DEF ValueSafe, Alike
  <2>2. \A l : Stays(l)
    BY DEF Stays, RecordAt
  <2>3. ReadSoFar(u)' /\ Told(u)'
    BY <2>1, <2>2, ReadStays, ToldStays DEF Knows, ValueSafe
  <2>4. Blank(u)' /\ Written(u)'
    BY <2>1 DEF Knows, Blank, Written
  <2>5. QED BY <2>3, <2>4 DEF Knows
<1>2. Short'
  BY DEF ValueSafe, Short
<1>3. QED BY <1>1, <1>2 DEF ValueSafe

LEMMA QuietValues ==
  ASSUME ListSafe, ListSafe', NEW t \in Threads, UNCHANGED <<mapping, list, disk>>, Alike(t),
         \A k \in Keys : Changes(t, k)' <=> Changes(t, k),
         Releasing(t) => op'[t].new = op[t].new
  PROVE  \A k \in Keys : ValueOf(k)' = ValueOf(k)
<1> SUFFICES ASSUME NEW k \in Keys PROVE ValueOf(k)' = ValueOf(k)
  OBVIOUS
<1>1. \A l : Contents(l)' = Contents(l)
  BY DEF Contents, RecordAt
<1>2. \A u : Changes(u, k)' <=> Changes(u, k)
  BY DEF Changes, Alike, Releasing
<1>3. CASE \A u : ~Changes(u, k)
  BY <1>1, <1>2, <1>3, Values, ValuesNext
<1>4. CASE \E u : Changes(u, k)
  <2>1. PICK u : Changes(u, k)
    BY <1>4
  <2>2. op'[u].new = op[u].new
    BY <2>1 DEF Changes, Alike
  <2>3. ValueOf(k) = Contents(op[u].new) /\ ValueOf(k)' = Contents(op[u].new)'
    BY <1>2, <2>1, Values, ValuesNext
  <2>4. QED BY <1>1, <2>2, <2>3
<1>5. QED BY <1>3, <1>4

-----------------------------------------------------------------------------
(* Each step of the store is a step of the map or of nothing in it.        *)
Mapped == [KV!Next]_(KV!kv)

LEMMA RefuseValues == ASSUME ValueSafe, BlockSafe', NEW t \in Threads, Refuse(t) PROVE ValueSafe' /\ Mapped
<1>1. PICK W : op \in [Threads -> Frames(W)]
  BY OpFrames DEF ValueSafe, BlockSafe
<1>2. /\ op[t].pc = "called" /\ op[t].call \in {"put", "merge", "delete"} /\ UNCHANGED <<mapping, list, disk>>
      /\ op' = [op EXCEPT ![t].pc = "failed"]
  BY DEF Refuse, To, At
<1>3. Alike(t)
  BY <1>1, <1>2 DEF Alike
<1>4. /\ op'[t].pc = "failed" /\ op'[t].call = op[t].call /\ op'[t].key = op[t].key /\ op'[t].arg = op[t].arg
      /\ op'[t].new = op[t].new
  BY <1>1, <1>2 DEF Frames
<1>5. ListSafe /\ ListSafe' /\ ~Releasing(t) /\ ~Releasing(t)'
  BY <1>2, <1>4 DEF ValueSafe, BlockSafe, Releasing
<1>6. ValueSafe'
  BY <1>2, <1>3, <1>4, ExcludingStands, KnowsNothing, QuietSafe DEF ValueSafe
<1>7. \A k \in Keys : ValueOf(k)' = ValueOf(k)
  BY <1>2, <1>3, <1>5, QuietValues DEF Changes
<1>8. CallOf(t).state = "called" /\ CallOf(t)' = [CallOf(t) EXCEPT !.state = "failed"]
  BY <1>2, <1>4, <1>5 DEF CallOf, At
<1>9. KV!Fail(t)
  BY <1>3, <1>7, <1>8, OthersCalls, NewCall, SameStore DEF KV!Fail
<1>10. QED BY <1>6, <1>9 DEF Mapped, KV!Next

LEMMA ReturnValues == ASSUME ValueSafe, BlockSafe', NEW t \in Threads, Return(t) PROVE ValueSafe' /\ Mapped
<1>1. PICK W : op \in [Threads -> Frames(W)]
  BY OpFrames DEF ValueSafe, BlockSafe
<1>2. /\ op[t].pc \in {"done", "failed"} /\ UNCHANGED <<mapping, list, disk>>
      /\ op' = [op EXCEPT ![t] = Idle]
  BY DEF Return
<1>3. Alike(t) /\ op'[t] = Idle
  BY <1>1, <1>2 DEF Alike
<1>4. op'[t].pc = "idle" /\ op'[t].call = "none" /\ op'[t].key = None /\ op'[t].arg = None
  BY <1>3 DEF Idle
<1>5. ListSafe /\ ListSafe' /\ ~Releasing(t) /\ ~Releasing(t)'
  BY <1>2, <1>4 DEF ValueSafe, BlockSafe, Releasing
<1>6. ValueSafe'
  BY <1>2, <1>3, <1>4, ExcludingStands, KnowsNothing, QuietSafe DEF ValueSafe
<1>7. \A k \in Keys : ValueOf(k)' = ValueOf(k)
  BY <1>2, <1>3, <1>5, QuietValues DEF Changes
<1>8. CallOf(t).state \in {"done", "failed"} /\ CallOf(t)' = KV!Resting
  BY <1>2, <1>4, <1>5 DEF CallOf, At, KV!Resting
<1>9. KV!Return(t)
  BY <1>3, <1>7, <1>8, OthersCalls, NewCall, SameStore DEF KV!Return
<1>10. QED BY <1>6, <1>9 DEF Mapped, KV!Next

LEMMA CallValues ==
  ASSUME Locking = "all", ValueSafe, BlockSafe', NEW t \in Threads, NEW o \in Calls, NEW k \in Keys, NEW v \in Inputs,
         Call(t, o, k, v)
  PROVE  ValueSafe' /\ Mapped
<1>1. PICK W : op \in [Threads -> Frames(W)]
  BY OpFrames DEF ValueSafe, BlockSafe
<1>2. PICK a \in Inputs \cup {None} : a = IF o \in {"put", "merge"} THEN v ELSE None
  OBVIOUS
<1>3. PICK f : f = [Idle EXCEPT !.pc = "called", !.call = o, !.key = k, !.arg = a]
  OBVIOUS
<1>4. /\ op[t].pc = "idle" /\ UNCHANGED <<mapping, list, disk>> /\ op' = [op EXCEPT ![t] = f]
      /\ \A u \in Threads : op[u].key = k => ~Excludes(op[u].call, o)
  BY <1>2, <1>3 DEF Call, At
<1>5. Alike(t) /\ op'[t] = f
  BY <1>1, <1>4 DEF Alike
<1>6. f.pc = "called" /\ f.call = o /\ f.key = k /\ f.arg = a /\ f.value = << >>
  BY <1>3 DEF Idle
<1>7. ListSafe /\ ListSafe' /\ ~Releasing(t) /\ ~Releasing(t)'
  BY <1>4, <1>5, <1>6 DEF ValueSafe, BlockSafe, Releasing
<1>8. Excluding'
  <2>1. \A u \in Threads : op[u].key = k => {op[u].call, o} = {"get"}
    BY <1>4 DEF Excludes
  <2>2. \A u \in Threads : op[u].key = k => op[u].call = "get" /\ o = "get"
    BY <2>1
  <2>3. \A u \in Threads : u # t => op'[u] = op[u]
    BY <1>5 DEF Alike
  <2>4. QED BY <1>5, <1>6, <2>2, <2>3 DEF ValueSafe, Excluding
<1>9. Knows(t)'
  BY <1>5, <1>6 DEF Knows, Blank, ReadSoFar, Told, Written
<1>10. ValueSafe'
  BY <1>4, <1>5, <1>8, <1>9, QuietSafe
<1>11. \A j \in Keys : ValueOf(j)' = ValueOf(j)
  BY <1>4, <1>5, <1>7, QuietValues DEF Changes
<1>12. /\ CallOf(t).state = "idle"
       /\ CallOf(t)' = [op |-> o, key |-> k, value |-> a, state |-> "called", answer |-> None]
  BY <1>4, <1>5, <1>6, <1>7 DEF CallOf, At
<1>13. KV!Invoke(t, o, k, a)
  BY <1>5, <1>11, <1>12, OthersCalls, NewCall, SameStore DEF KV!Invoke
<1>14. KV!Next
  BY <1>13 DEF KV!Next, Calls
<1>15. QED BY <1>10, <1>14 DEF Mapped

(* Sequences of records. *)
LEMMA FirstPart ==
  ASSUME NEW s \in Seq(Records), NEW m \in Nat, m <= Len(s)
  PROVE  /\ SubSeq(s, 1, m) \in Seq(Records) /\ Len(SubSeq(s, 1, m)) = m
         /\ \A r \in 1..m : SubSeq(s, 1, m)[r] = s[r]
<1>1. SubSeq(s, 1, m) \in Seq(Records) /\ Len(SubSeq(s, 1, m)) = m
  OBVIOUS
<1>2. ASSUME NEW r \in 1..m PROVE SubSeq(s, 1, m)[r] = s[r]
  <2>1. r \in 1..((m - 1) + 1) /\ r + 1 - 1 = r
    OBVIOUS
  <2>2. QED BY <2>1
<1>3. QED BY <1>1, <1>2

LEMMA Joined ==
  ASSUME NEW s \in Seq(Records), NEW v \in Seq(Records)
  PROVE  /\ s \o v \in Seq(Records) /\ Len(s \o v) = Len(s) + Len(v)
         /\ \A i \in 1..Len(s) : (s \o v)[i] = s[i]
         /\ \A i \in 1..Len(v) : (s \o v)[Len(s) + i] = v[i]
<1>1. s \o v \in Seq(Records) /\ Len(s \o v) = Len(s) + Len(v)
  OBVIOUS
<1>2. \A i \in 1..Len(s) : (s \o v)[i] = s[i]
  OBVIOUS
<1>3. \A i \in 1..Len(v) : (s \o v)[Len(s) + i] = v[i]
  OBVIOUS
<1>4. QED BY <1>1, <1>2, <1>3

(* What a get reads of a block. *)
LEMMA ChunkOf ==
  ASSUME BlocksTyped, Short, NEW l \in Lists, NEW k \in Nat \ {0}, NEW g \in Nat, g = (k - 1) * PageSize,
         g < list[l].size, list[l].at[k] \in Blocks, Deep(l, k, list[l].size)
  PROVE  /\ Chunk(l, k) \in Seq(Records)
         /\ Len(Chunk(l, k)) = IF g + PageSize < list[l].size THEN PageSize ELSE list[l].size - g
         /\ \A r \in 1..Len(Chunk(l, k)) : Chunk(l, k)[r] = RecordAt(l, g + r)
<1>1. PICK z \in Nat \ {0} : z = PageSize
  BY StoreAssumption
<1>2. PICK n \in Nat : n = list[l].size
  <2>1. list[l].size \in Int
    BY DEF BlocksTyped
  <2>2. QED BY <2>1
<1>3. PICK s \in Seq(Records) : s = disk[list[l].at[k]]
  BY DEF BlocksTyped
<1>4. PICK d \in Nat : d = Len(s)
  OBVIOUS
<1>5. d <= z /\ (d >= z \/ d >= n - g)
  BY <1>1, <1>2, <1>3, <1>4 DEF Short, Deep
<1>6. PICK m \in Nat : m = IF n - g < d THEN n - g ELSE d
  <2>1. n - g \in Nat
    BY <1>2
  <2>2. QED BY <1>4, <2>1
<1>7. Chunk(l, k) = SubSeq(s, 1, m)
  BY <1>2, <1>3, <1>4, <1>6 DEF Chunk
<1>8. m <= d
  BY <1>2, <1>4, <1>6
<1>9. /\ SubSeq(s, 1, m) \in Seq(Records) /\ Len(SubSeq(s, 1, m)) = m
      /\ \A r \in 1..m : SubSeq(s, 1, m)[r] = s[r]
  BY <1>4, <1>8, FirstPart
<1>10. m = IF g + z < n THEN z ELSE n - g
  BY <1>1, <1>2, <1>4, <1>5, <1>6, SMTT(30)
<1>11. ASSUME NEW r \in 1..m PROVE s[r] = RecordAt(l, g + r)
  <2>1. r \in 1..z
    BY <1>1, <1>4, <1>5, <1>8, <1>11
  <2>2. PICK p \in Nat : p = k - 1
    OBVIOUS
  <2>3. p + 1 = k /\ r \in 1..PageSize /\ p * PageSize = g
    BY <1>1, <2>1, <2>2
  <2>4. \A x : RecordAt(x, p * PageSize + r) = disk[list[x].at[p + 1]][r]
    BY <2>3, PlaceAt
  <2>5. QED BY <1>3, <2>3, <2>4
<1>12. QED BY <1>1, <1>2, <1>7, <1>9, <1>10, <1>11

(* The records of a key that no writer changes. *)
LEMMA OwnRecords ==
  ASSUME BlockSafe, NEW k \in Keys, \A u : ~Changes(u, k), mapping[k] # None, list[mapping[k]].size >= 0,
         NEW i \in 1..Pages(list[mapping[k]].size)
  PROVE  list[mapping[k]].at[i] \in Blocks /\ Deep(mapping[k], i, list[mapping[k]].size)
<1>1. PICK l \in Lists : l = mapping[k]
  BY DEF BlockSafe, ListSafe, Shaped
<1>2. PICK n \in Nat : n = list[l].size
  BY <1>1 DEF BlockSafe, BlocksTyped
<1>3. i \in Nat
  <2>1. PICK p \in Nat : p = Pages(n)
    BY PagesBound
  <2>2. QED BY <1>1, <1>2, <2>1
<1>4. InOwn(k, l, i)
  BY <1>1, SettledKey DEF InOwn, BlockSafe
<1>5. Uses(k, l, i)
  BY <1>4 DEF Uses
<1>6. QED BY <1>1, <1>3, <1>4, <1>5 DEF BlockSafe, Parted, InUse, Deeper, DeepOwn

LEMMA GetValues == ASSUME ValueSafe, BlockSafe', NEW t \in Threads, Get(t) PROVE ValueSafe' /\ Mapped
<1>1. PICK W : op \in [Threads -> Frames(W)]
  BY OpFrames DEF ValueSafe, BlockSafe
<1>2. /\ op[t].pc = "called" /\ op[t].call = "get" /\ UNCHANGED <<mapping, list, disk>>
      /\ mapping[op[t].key] # None /\ list[mapping[op[t].key]].size >= 0
      /\ op' = [op EXCEPT ![t].pc = "read", ![t].old = mapping[op[t].key], ![t].k = 1]
  BY DEF Get, Called, At
<1>3. Alike(t)
  BY <1>1, <1>2 DEF Alike
<1>4. /\ op'[t].pc = "read" /\ op'[t].call = op[t].call /\ op'[t].key = op[t].key /\ op'[t].arg = op[t].arg
      /\ op'[t].value = op[t].value /\ op'[t].k = 1 /\ op'[t].old = mapping[op[t].key]
  BY <1>1, <1>2 DEF Frames
<1>5. ListSafe /\ ListSafe' /\ ~Releasing(t) /\ ~Releasing(t)'
  BY <1>2, <1>4 DEF ValueSafe, BlockSafe, Releasing
<1>6. Knows(t)'
  <2>1. op[t].value = << >>
    BY <1>2 DEF ValueSafe, Knows, Blank
  <2>2. PICK l \in Lists : l = mapping[op[t].key]
    BY <1>2, <1>5, FrameOf
  <2>3. PICK n \in Nat : n = list[l].size
    BY <1>2, <2>2 DEF ValueSafe, BlockSafe, BlocksTyped
  <2>4. (op'[t].k - 1) * PageSize = 0
    BY <1>4, StoreAssumption
  <2>5. 0 = IF 0 < n THEN 0 ELSE n
    BY <2>3
  <2>6. op'[t].value \in Seq(Records) /\ Len(op'[t].value) = 0 /\ 1..0 = {}
    BY <1>4, <2>1
  <2>7. op'[t].old = l /\ l # None /\ l = mapping'[op'[t].key] /\ list'[l].size = n /\ op'[t].k # 0
    BY <1>2, <1>4, <2>2, <2>3
  <2>9. ReadSoFar(t)'
    BY <2>3, <2>4, <2>5, <2>6, <2>7 DEF ReadSoFar
  <2>10. QED BY <1>4, <2>9 DEF Knows, Blank, Told, Written
<1>7. ValueSafe'
  BY <1>2, <1>3, <1>4, <1>6, ExcludingStands, QuietSafe DEF ValueSafe
<1>8. \A k \in Keys : ValueOf(k)' = ValueOf(k)
  BY <1>2, <1>3, <1>5, QuietValues DEF Changes
<1>9. CallOf(t)' = CallOf(t)
  BY <1>2, <1>4, <1>5, CallGoesOn
<1>10. QED BY <1>3, <1>7, <1>8, <1>9, Stutters DEF Mapped

LEMMA ReadBlockValues == ASSUME ValueSafe, BlockSafe', NEW t \in Threads, ReadBlock(t) PROVE ValueSafe' /\ Mapped
<1>1. PICK W : op \in [Threads -> Frames(W)]
  BY OpFrames DEF ValueSafe, BlockSafe
<1>2. BlockSafe /\ ListSafe /\ BlocksTyped /\ Short /\ Excluding /\ ReadSoFar(t)
  BY DEF ValueSafe, BlockSafe, Knows
<1>3. /\ op[t].pc = "read" /\ UNCHANGED <<mapping, list, disk>>
      /\ (op[t].k - 1) * PageSize < list[op[t].old].size
  BY DEF ReadBlock, At
<1>4. PICK l \in Lists, K \in Keys : l = op[t].old /\ K = op[t].key /\ l = mapping[K] /\ l # None /\ list[l].size >= 0
  BY <1>2, <1>3, FrameOf DEF ReadSoFar
<1>5. PICK k \in Nat \ {0} : k = op[t].k
  BY <1>2, <1>3, Numbers DEF ReadSoFar
<1>6. PICK z \in Nat \ {0} : z = PageSize
  BY StoreAssumption
<1>7. PICK g \in Nat : g = (k - 1) * PageSize
  <2>1. PICK p \in Nat : p = k - 1
    BY <1>5
  <2>2. p * z \in Nat
    BY <1>6
  <2>3. QED BY <1>6, <2>1, <2>2
<1>8. PICK n \in Nat : n = list[l].size /\ g < n
  BY <1>2, <1>3, <1>4, <1>5, <1>7 DEF BlocksTyped
<1>9. PICK c : c = Chunk(l, k)
  OBVIOUS
<1>10. PICK v \in Seq(Records) : v = op[t].value /\ Len(v) = g /\ \A i \in 1..g : v[i] = RecordAt(l, i)
  BY <1>2, <1>3, <1>4, <1>5, <1>7, <1>8 DEF ReadSoFar
<1>11. op' = [op EXCEPT ![t].value = v \o c, ![t].k = k + 1]
  BY <1>4, <1>5, <1>9, <1>10 DEF ReadBlock
<1>12. Alike(t)
  BY <1>1, <1>11 DEF Alike
<1>13. /\ op'[t].pc = "read" /\ op'[t].call = op[t].call /\ op'[t].key = op[t].key /\ op'[t].arg = op[t].arg
       /\ op'[t].value = v \o c /\ op'[t].k = k + 1 /\ op'[t].old = l
  BY <1>1, <1>3, <1>4, <1>11 DEF Frames
<1>14. ListSafe' /\ ~Releasing(t) /\ ~Releasing(t)'
  BY <1>3, <1>13 DEF BlockSafe, Releasing
<1>15. list[l].at[k] \in Blocks /\ Deep(l, k, n)
  <2>1. k \in 1..Pages(n)
    <3>1. PICK p \in Nat : p = k - 1
      BY <1>5
    <3>2. PICK i \in 1..n : i = g + 1
      BY <1>7, <1>8
    <3>3. i = p * PageSize + 1 /\ 1 \in 1..PageSize
      BY <1>6, <1>7, <3>1, <3>2
    <3>4. p + 1 \in 1..Pages(n)
      BY <1>8, <3>2, <3>3, PlaceWithin
    <3>5. QED BY <1>5, <3>1, <3>4
  <2>2. \A u : ~Changes(u, K)
    BY <1>2, <1>3, <1>4, <1>14, QuietKey
  <2>3. QED BY <1>2, <1>4, <1>8, <2>1, <2>2, OwnRecords
<1>16. PICK m \in Nat : /\ c \in Seq(Records) /\ Len(c) = m /\ m = IF g + z < n THEN z ELSE n - g
                        /\ \A r \in 1..m : c[r] = RecordAt(l, g + r)
  <2>1. c \in Seq(Records) /\ (Len(c) = IF g + z < n THEN z ELSE n - g) /\ \A r \in 1..Len(c) : c[r] = RecordAt(l, g + r)
    <3>1. /\ c \in Seq(Records) /\ Len(c) = IF g + PageSize < list[l].size THEN PageSize ELSE list[l].size - g
          /\ \A r \in 1..Len(c) : c[r] = RecordAt(l, g + r)
      BY <1>2, <1>7, <1>8, <1>9, <1>15, ChunkOf
    <3>2. QED BY <1>6, <1>8, <3>1
  <2>a. c \in Seq(Records)
    BY <2>1
  <2>2. PICK m \in Nat : m = Len(c)
    BY <2>a
  <2>3. QED BY <2>1, <2>2
<1>17. v \o c \in Seq(Records) /\ Len(v \o c) = g + m
  BY <1>10, <1>16, Joined
<1>18. ASSUME NEW i \in 1..(g + m) PROVE (v \o c)[i] = RecordAt(l, i)
  <2>1. CASE i <= g
    <3>1. (v \o c)[i] = v[i] /\ i \in 1..g
      BY <1>10, <1>16, <1>18, <2>1, Joined
    <3>2. QED BY <1>10, <3>1
  <2>2. CASE i > g
    <3>1. PICK r \in 1..m : r = i - g /\ i = g + r
      BY <1>16, <1>18, <2>2
    <3>2. (v \o c)[i] = c[r]
      BY <1>10, <1>16, <3>1, Joined, SMTT(30)
    <3>3. QED BY <1>16, <3>1, <3>2
  <2>3. i <= g \/ i > g
    <3>1. i \in Int
      BY <1>16, <1>18
    <3>2. QED BY <1>7, <3>1
  <2>4. QED BY <2>1, <2>2, <2>3
<1>19. g + m = IF g + z < n THEN g + z ELSE n
  BY <1>6, <1>8, <1>16
<1>20. (k + 1 - 1) * PageSize = g + z
  <2>1. (k - 1) * z + z = k * z /\ (k + 1) - 1 = k
    BY <1>5, <1>6
  <2>2. QED BY <1>5, <1>6, <1>7, <2>1
<1>21. ReadSoFar(t)'
  <2>1. op'[t].k # 0
    BY <1>5, <1>13
  <2>2. \A i : RecordAt(l, i)' = RecordAt(l, i)
    BY <1>3 DEF RecordAt
  <2>3. QED BY <1>3, <1>4, <1>6, <1>8, <1>13, <1>17, <1>18, <1>19, <1>20, <2>1, <2>2 DEF ReadSoFar
<1>22. Knows(t)'
  BY <1>13, <1>21 DEF Knows, Blank, Told, Written
<1>23. ValueSafe'
  BY <1>2, <1>3, <1>12, <1>13, <1>22, ExcludingStands, QuietSafe
<1>24. \A j \in Keys : ValueOf(j)' = ValueOf(j)
  BY <1>2, <1>3, <1>12, <1>14, QuietValues DEF Changes
<1>25. CallOf(t)' = CallOf(t)
  BY <1>3, <1>13, <1>14, CallGoesOn
<1>26. QED BY <1>12, <1>23, <1>24, <1>25, Stutters DEF Mapped

(* The value of a key that no writer changes. *)
LEMMA OwnContents ==
  ASSUME BlockSafe, Short, NEW k \in Keys, \A u : ~Changes(u, k), mapping[k] # None, list[mapping[k]].size >= 0
  PROVE  /\ Contents(mapping[k]) \in Seq(Records) /\ Len(Contents(mapping[k])) = list[mapping[k]].size
         /\ \A i \in 1..list[mapping[k]].size : Contents(mapping[k])[i] = RecordAt(mapping[k], i)
<1>1. PICK l \in Lists : l = mapping[k]
  BY DEF BlockSafe, ListSafe, Shaped
<1>2. PICK n \in Nat : n = list[l].size
  BY <1>1 DEF BlockSafe, BlocksTyped
<1>3. Contents(l) = [i \in 1..n |-> RecordAt(l, i)]
  BY <1>1, <1>2 DEF Contents
<1>4. ASSUME NEW i \in 1..n PROVE RecordAt(l, i) \in Records
  <2>1. i \in Nat \ {0}
    BY <1>4
  <2>2. PICK p \in Nat, r \in 1..PageSize : i = p * PageSize + r /\ \A m : RecordAt(m, i) = disk[list[m].at[p + 1]][r]
    BY <2>1, PlaceOf
  <2>3. p + 1 \in 1..Pages(n)
    BY <1>2, <1>4, <2>2, PlaceWithin
  <2>4. list[l].at[p + 1] \in Blocks /\ Deep(l, p + 1, n)
    BY <1>1, <1>2, <2>3, OwnRecords
  <2>5. PICK s \in Seq(Records) : s = disk[list[l].at[p + 1]]
    BY <2>4 DEF BlockSafe, BlocksTyped
  <2>6. PICK z \in Nat \ {0} : z = PageSize
    BY StoreAssumption
  <2>7. PICK g \in Nat : g = p * PageSize
    <3>1. p * z \in Nat
      BY <2>6
    <3>2. QED BY <2>6, <3>1
  <2>8. PICK d \in Nat : d = Len(s)
    OBVIOUS
  <2>9. (p + 1) - 1 = p
    OBVIOUS
  <2>10. d >= z \/ d >= n - g
    BY <2>4, <2>5, <2>6, <2>7, <2>8, <2>9 DEF Deep
  <2>11. i = g + r /\ r \in 1..z
    BY <2>2, <2>6, <2>7
  <2>12. r \in 1..d
    BY <1>2, <1>4, <2>6, <2>7, <2>8, <2>10, <2>11
  <2>13. s[r] \in Records
    BY <2>8, <2>12
  <2>14. QED BY <2>2, <2>5, <2>13
<1>5. Contents(l) \in Seq(Records) /\ Len(Contents(l)) = n
  BY <1>3, <1>4
<1>6. QED BY <1>1, <1>2, <1>3, <1>5

(* Two sequences of the same records. *)
LEMMA SameRecords ==
  ASSUME NEW s \in Seq(Records), NEW v \in Seq(Records), Len(s) = Len(v), \A i \in 1..Len(s) : s[i] = v[i]
  PROVE  s = v
OBVIOUS

(* The record of a call that is answered. *)
LEMMA Answered ==
  ASSUME NEW v, NEW c,
         c = [op |-> c.op, key |-> c.key, value |-> c.value, state |-> c.state, answer |-> c.answer]
  PROVE  [c EXCEPT !.state = "done", !.answer = v]
           = [op |-> c.op, key |-> c.key, value |-> c.value, state |-> "done", answer |-> v]
<1>1. PICK W : W = {c.op, c.key, c.value, "done", c.answer, v}
  OBVIOUS
<1>a. c.op \in W /\ c.key \in W /\ c.value \in W /\ "done" \in W /\ c.answer \in W /\ v \in W
  BY <1>1
<1>2. PICK d : d = [c EXCEPT !.state = "done"]
  OBVIOUS
<1>3. d = [op |-> c.op, key |-> c.key, value |-> c.value, state |-> "done", answer |-> c.answer]
  BY <1>2
<1>4. d \in [op : W, key : W, value : W, state : W, answer : W]
  BY <1>a, <1>3
<1>5. [d EXCEPT !.answer = v] = [op |-> d.op, key |-> d.key, value |-> d.value, state |-> d.state, answer |-> v]
  BY <1>a, <1>4
<1>6. [c EXCEPT !.state = "done", !.answer = v] = [d EXCEPT !.answer = v]
  BY <1>2
<1>7. QED BY <1>3, <1>5, <1>6

LEMMA ReadEndValues == ASSUME ValueSafe, BlockSafe', NEW t \in Threads, ReadEnd(t) PROVE ValueSafe' /\ Mapped
<1>1. PICK W : op \in [Threads -> Frames(W)]
  BY OpFrames DEF ValueSafe, BlockSafe
<1>2. BlockSafe /\ ListSafe /\ BlocksTyped /\ Short /\ Excluding /\ ReadSoFar(t)
  BY DEF ValueSafe, BlockSafe, Knows
<1>3. /\ op[t].pc = "read" /\ op[t].call = "get" /\ UNCHANGED <<mapping, list, disk>>
      /\ (op[t].k - 1) * PageSize >= list[op[t].old].size
      /\ op' = [op EXCEPT ![t].pc = "done"]
  BY <1>2, FrameOf DEF ReadEnd, At, To, Staged, Fits
<1>4. PICK l \in Lists, K \in Keys : l = op[t].old /\ K = op[t].key /\ l = mapping[K] /\ l # None /\ list[l].size >= 0
  BY <1>2, <1>3, FrameOf DEF ReadSoFar
<1>5. PICK g \in Int, n \in Nat : g = (op[t].k - 1) * PageSize /\ n = list[l].size
  <2>1. PICK z \in Nat, p \in Int : z = PageSize /\ p = op[t].k - 1
    BY <1>2, Numbers, StoreAssumption, SMTT(30)
  <2>2. p * z \in Int
    BY <2>1
  <2>3. list[l].size \in Nat
    BY <1>2, <1>4 DEF BlocksTyped
  <2>4. QED BY <2>1, <2>2, <2>3
<1>6. Alike(t)
  BY <1>1, <1>3 DEF Alike
<1>7. /\ op'[t].pc = "done" /\ op'[t].call = op[t].call /\ op'[t].key = op[t].key /\ op'[t].arg = op[t].arg
      /\ op'[t].value = op[t].value
  BY <1>1, <1>3 DEF Frames
<1>8. ListSafe' /\ ~Releasing(t) /\ ~Releasing(t)'
  BY <1>3, <1>7 DEF BlockSafe, Releasing
<1>9. ValueSafe'
  BY <1>2, <1>3, <1>6, <1>7, ExcludingStands, KnowsNothing, QuietSafe
<1>10. \A k \in Keys : ValueOf(k)' = ValueOf(k)
  BY <1>2, <1>3, <1>6, <1>8, QuietValues DEF Changes
<1>11. \A u : ~Changes(u, K)
  BY <1>2, <1>3, <1>4, <1>8, QuietKey
<1>12. ValueOf(K) = Contents(l)
  BY <1>2, <1>4, <1>11, Values
<1>13. op[t].value = Contents(l)
  <2>1. g >= n
    BY <1>3, <1>4, <1>5
  <2>2. op[t].value \in Seq(Records) /\ Len(op[t].value) = n /\ \A i \in 1..n : op[t].value[i] = RecordAt(l, i)
    BY <1>2, <1>3, <1>4, <1>5, <2>1 DEF ReadSoFar
  <2>3. Contents(l) \in Seq(Records) /\ Len(Contents(l)) = n /\ \A i \in 1..n : Contents(l)[i] = RecordAt(l, i)
    BY <1>2, <1>4, <1>5, <1>11, OwnContents
  <2>4. QED BY <2>2, <2>3, SameRecords
<1>14. ValueOf(K) # None
  <2>1. Contents(l) \in Seq(Records)
    BY <1>2, <1>4, <1>11, OwnContents
  <2>2. QED BY <1>12, <2>1, ValueAssumption
<1>15. /\ CallOf(t).state = "called" /\ CallOf(t).op = "get" /\ CallOf(t).key = K
       /\ CallOf(t)' = [CallOf(t) EXCEPT !.state = "done", !.answer = ValueOf(K)]
  <2>1. ~Releasing(t)
    BY <1>8
  <2>2. CallOf(t) = [op |-> "get", key |-> K, value |-> op[t].arg, state |-> "called", answer |-> None]
    BY <1>3, <1>4, <2>1 DEF CallOf, At
  <2>3. CallOf(t)' = [op |-> "get", key |-> K, value |-> op[t].arg, state |-> "done", answer |-> op[t].value]
    BY <1>3, <1>4, <1>7 DEF CallOf, At
  <2>4. op[t].value = ValueOf(K)
    BY <1>12, <1>13
  <2>5. PICK c : c = CallOf(t)
    OBVIOUS
  <2>6. PICK v : v = ValueOf(K)
    OBVIOUS
  <2>7. PICK a : a = op[t].arg
    OBVIOUS
  <2>a. c = [op |-> "get", key |-> K, value |-> a, state |-> "called", answer |-> None]
    BY <2>2, <2>5, <2>7
  <2>8. CallOf(t)' = [c EXCEPT !.state = "done", !.answer = v]
    <3>1. c.op = "get" /\ c.key = K /\ c.value = a /\ c.state = "called" /\ c.answer = None
      BY <2>a
    <3>2. c = [op |-> c.op, key |-> c.key, value |-> c.value, state |-> c.state, answer |-> c.answer]
      BY <2>a
    <3>3. [c EXCEPT !.state = "done", !.answer = v]
            = [op |-> c.op, key |-> c.key, value |-> c.value, state |-> "done", answer |-> v]
      BY <3>2, Answered
    <3>4. QED BY <2>3, <2>4, <2>6, <2>7, <3>1, <3>3
  <2>9. CallOf(t).state = "called" /\ CallOf(t).op = "get" /\ CallOf(t).key = K
    BY <2>2
  <2>10. QED BY <2>5, <2>6, <2>8, <2>9
<1>16. KV!Get(t)
  <2>1. UNCHANGED [k \in Keys |-> ValueOf(k)]
    BY <1>10
  <2>2. [k \in Keys |-> ValueOf(k)][CallOf(t).key] = ValueOf(K)
    BY <1>15
  <2>3. \A u \in Threads : u # t => CallOf(u)' = CallOf(u)
    BY <1>6, OthersCalls
  <2>4. PICK m : m = [u \in Threads |-> CallOf(u)]
    OBVIOUS
  <2>5. [u \in Threads |-> CallOf(u)]' = [m EXCEPT ![t].state = "done", ![t].answer = ValueOf(K)]
    BY <1>15, <2>3, <2>4
  <2>6. KV!Called(t, "get")
    BY <1>15 DEF KV!Called
  <2>7. QED BY <1>14, <1>15, <2>1, <2>2, <2>4, <2>5, <2>6 DEF KV!Get
<1>17. QED BY <1>9, <1>16 DEF Mapped, KV!Next

-----------------------------------------------------------------------------
(* Steps of a writer.  With the locks, no other thread is at its key.      *)
LEMMA WriterSafe ==
  ASSUME ValueSafe, BlockSafe', NEW t, NEW K, NEW L, Within(t, K, L), DiskBut(K), op[t].key = K, op[t].call # "get",
         op'[t].key = K, op'[t].call = op[t].call, Short', Knows(t)'
  PROVE  ValueSafe'
<1>1. t \in Threads /\ K # None /\ Excluding /\ Alike(t)
  BY StoreAssumption DEF Within, ValueSafe, Alike
<1>2. Excluding'
  BY <1>1, ExcludingStands
<1>3. \A u \in Threads : u # t => op[u].key # K
  BY <1>1 DEF Excluding
<1>4. \A u \in Threads : Knows(u)'
  BY <1>3, OthersKnow
<1>5. QED BY <1>2, <1>4 DEF ValueSafe

(* The value of a writer's key. *)
LEMMA WriterValue ==
  ListSafe => \A t \in Threads, k \in Keys :
    op[t].key = k /\ op[t].call # "get" =>
      ValueOf(k) = IF Releasing(t) THEN Contents(op[t].new) ELSE Contents(mapping[k])
<1> SUFFICES ASSUME ListSafe, NEW t \in Threads, NEW k \in Keys, op[t].key = k, op[t].call # "get"
             PROVE  ValueOf(k) = IF Releasing(t) THEN Contents(op[t].new) ELSE Contents(mapping[k])
  OBVIOUS
<1>1. CASE Releasing(t)
  BY <1>1, Values DEF Changes
<1>2. CASE ~Releasing(t)
  <2>1. \A u : ~Changes(u, k)
    BY <1>2, StoreAssumption DEF ListSafe, Alone, Changes
  <2>2. QED BY <1>2, <2>1, Values
<1>3. QED BY <1>1, <1>2

LEMMA WriterValueNext ==
  (ListSafe => \A t \in Threads, k \in Keys :
    op[t].key = k /\ op[t].call # "get" =>
      ValueOf(k) = IF Releasing(t) THEN Contents(op[t].new) ELSE Contents(mapping[k]))'
BY WriterValue, PTL

(* A step of a writer that leaves the value alone. *)
LEMMA WriterStutters ==
  ASSUME ValueSafe, BlockSafe', NEW t, NEW K, NEW L, Within(t, K, L), DiskBut(K), op[t].key = K, op[t].call # "get",
         op'[t].key = K, op'[t].call = op[t].call, Short', Knows(t)',
         CallOf(t)' = CallOf(t), ValueOf(K)' = ValueOf(K)
  PROVE  ValueSafe' /\ Mapped
<1>1. ValueSafe'
  BY WriterSafe
<1>2. BlockSafe /\ ListSafe' /\ t \in Threads /\ Alike(t)
  BY DEF ValueSafe, BlockSafe, Within, Alike
<1>3. \A k \in Keys : ValueOf(k)' = ValueOf(k)
  BY <1>2, OthersValues
<1>4. QED BY <1>1, <1>2, <1>3, Stutters DEF Mapped

(* One before the value is complete. *)
LEMMA WriterGoesOn ==
  ASSUME ValueSafe, BlockSafe', NEW t, NEW K, NEW L, Within(t, K, L), DiskBut(K), op[t].key = K, op[t].call # "get",
         op'[t].key = K, op'[t].call = op[t].call, op'[t].arg = op[t].arg, Short', Knows(t)',
         op[t].pc \in {"called", "spare", "blocks", "write"}, op'[t].pc \in {"called", "spare", "blocks", "write"},
         NEW l, l = mapping[K], NEW m, m = mapping'[K], Contents(m)' = Contents(l)
  PROVE  ValueSafe' /\ Mapped
<1>1. ListSafe /\ ListSafe' /\ t \in Threads /\ K \in Keys
  BY DEF ValueSafe, BlockSafe, Within
<1>2. ~Releasing(t) /\ ~Releasing(t)'
  BY DEF Releasing
<1>3. CallOf(t)' = CallOf(t)
  BY <1>1, <1>2, CallGoesOn
<1>4. ValueOf(K) = Contents(l)
  BY <1>1, <1>2, WriterValue
<1>5. ValueOf(K)' = Contents(m)'
  BY <1>1, <1>2, WriterValueNext
<1>6. QED BY <1>3, <1>4, <1>5, WriterStutters

LEMMA DiskAlone == ASSUME disk' = disk, NEW K PROVE DiskBut(K) /\ (Short => Short')
BY DEF DiskBut, Short

(* The frame of a thread after a step, from the one before.                *)
LEMMA PutValues == ASSUME ValueSafe, BlockSafe', NEW t \in Threads, Put(t) PROVE ValueSafe' /\ Mapped
<1>1. PICK W : op \in [Threads -> Frames(W)]
  BY OpFrames DEF ValueSafe, BlockSafe
<1>2. BlockSafe /\ ListSafe /\ Short
  BY DEF ValueSafe, BlockSafe
<1>3. /\ op[t].pc = "called" /\ op[t].call = "put" /\ UNCHANGED <<mapping, list, disk>>
  BY DEF Put, Called, At
<1>4. PICK K \in Keys : K = op[t].key
  BY <1>2, <1>3, FrameOf
<1>5. PICK l : l = mapping[K]
  OBVIOUS
<1>6. PICK v \in Seq(Records) : v = op[t].arg
  BY <1>2, <1>3, Numbers, StoreAssumption DEF Counted
<1>0. PICK n : n = Pages(Len(v))
  OBVIOUS
<1>7. op[t].from = 0 /\ op[t].k = 0
  BY <1>2, <1>3, Numbers DEF Counted
<1>8. \/ op' = [op EXCEPT ![t].pc = "blocks", ![t].new = l, ![t].value = v, ![t].n = n]
      \/ op' = [op EXCEPT ![t].pc = "spare",  ![t].old = l, ![t].value = v, ![t].n = n]
  BY <1>0, <1>4, <1>5, <1>6 DEF Put
<1>9. Alike(t)
  BY <1>1, <1>8 DEF Alike
<1>10. /\ op'[t].pc \in {"blocks", "spare"} /\ op'[t].call = "put" /\ op'[t].key = K /\ op'[t].arg = v
       /\ op'[t].value = v /\ op'[t].from = 0
  <2>1. CASE op' = [op EXCEPT ![t].pc = "blocks", ![t].new = l, ![t].value = v, ![t].n = n]
    BY <1>1, <1>3, <1>4, <1>6, <1>7, <2>1 DEF Frames
  <2>2. CASE op' = [op EXCEPT ![t].pc = "spare",  ![t].old = l, ![t].value = v, ![t].n = n]
    BY <1>1, <1>3, <1>4, <1>6, <1>7, <2>2 DEF Frames
  <2>3. QED BY <1>8, <2>1, <2>2
<1>11. Knows(t)'
  BY <1>6, <1>10 DEF Knows, Blank, ReadSoFar, Told, Written
<1>12. Within(t, K, None)
  BY <1>3, <1>4, <1>9, <1>10 DEF Within, Alike
<1>13. Contents(l)' = Contents(l)
  BY <1>3 DEF Contents, RecordAt
<1>14. QED BY <1>2, <1>3, <1>4, <1>5, <1>6, <1>10, <1>11, <1>12, <1>13, DiskAlone, WriterGoesOn

LEMMA PutFirstValues == ASSUME ValueSafe, BlockSafe', NEW t \in Threads, PutFirst(t) PROVE ValueSafe' /\ Mapped
<1>1. /\ op[t].pc = "called" /\ op[t].call = "put" /\ mapping[op[t].key] = None
      /\ UNCHANGED <<free, disk, op>>
  BY DEF PutFirst, Called, At
<1>2. BlockSafe /\ ListSafe /\ BlocksTyped /\ Short /\ Knows(t)
  BY DEF ValueSafe, BlockSafe
<1>3. PICK K \in Keys : K = op[t].key
  BY <1>1, <1>2, FrameOf
<1>4. PICK l \in Lists : /\ l \in Spares \/ l \in Unused
                         /\ mapping' = [mapping EXCEPT ![K] = l]
                         /\ list' = [list EXCEPT ![l] = Fresh]
  BY <1>3 DEF PutFirst, Spares, BagIn
<1>5. l # None
  BY StoreAssumption
<1>6. list'[l] = Fresh /\ \A m \in Lists : m # l => list'[m] = list[m]
  BY <1>2, <1>4 DEF BlocksTyped
<1>7. \A k \in Keys : mapping'[k] = IF k = K THEN l ELSE mapping[k]
  BY <1>2, <1>4 DEF ListSafe, Shaped
<1>8. /\ \A k \in Keys : k # K => ~Owns(k, l)
      /\ \A u \in Threads : u # t => op[u].new # l
  <2>1. CASE l \in Spares
    BY <1>1, <1>2, <1>3, <1>5, <2>1, Exclusive
  <2>2. CASE l \in Unused
    BY <2>2 DEF Unused, Held, Owns
  <2>3. QED BY <1>4, <2>1, <2>2
<1>9. Within(t, K, l)
  BY <1>1, <1>3, <1>6, <1>7, <1>8 DEF Within
<1>10. Knows(t)'
  BY <1>1, <1>2 DEF Knows, Blank, ReadSoFar, Told, Written
<1>11. mapping'[K] = l /\ mapping[K] = None
  BY <1>1, <1>3, <1>7
<1>12. Contents(l)' = None
  BY <1>6 DEF Contents, Fresh
<1>13. Contents(None) = None
  BY DEF Contents
<1>14. QED BY <1>1, <1>2, <1>3, <1>9, <1>10, <1>11, <1>12, <1>13, DiskAlone, WriterGoesOn

(* What a merge writes: the rest of the value behind the full blocks, and  *)
(* what is added.                                                          *)
LEMMA TailRecords ==
  ASSUME NEW s \in Seq(Records), NEW v \in Seq(Records), NEW p \in Nat, p <= Len(s)
  PROVE  /\ SubSeq(s, 1, p) \o v \in Seq(Records) /\ Len(SubSeq(s, 1, p) \o v) = p + Len(v)
         /\ \A i \in 1..p : (SubSeq(s, 1, p) \o v)[i] = s[i]
         /\ \A i \in 1..Len(v) : (SubSeq(s, 1, p) \o v)[p + i] = v[i]
<1>1. PICK h \in Seq(Records) : h = SubSeq(s, 1, p) /\ Len(h) = p /\ \A i \in 1..p : h[i] = s[i]
  BY FirstPart
<1>2. /\ h \o v \in Seq(Records) /\ Len(h \o v) = Len(h) + Len(v)
      /\ \A i \in 1..Len(h) : (h \o v)[i] = h[i]
      /\ \A i \in 1..Len(v) : (h \o v)[Len(h) + i] = v[i]
  BY <1>1, Joined
<1>3. QED BY <1>1, <1>2

LEMMA MergeValues == ASSUME ValueSafe, BlockSafe', NEW t \in Threads, Merge(t) PROVE ValueSafe' /\ Mapped
<1>1. PICK W : op \in [Threads -> Frames(W)]
  BY OpFrames DEF ValueSafe, BlockSafe
<1>2. BlockSafe /\ ListSafe /\ BlocksTyped /\ Short /\ Excluding
  BY SMTT(30) DEF ValueSafe, BlockSafe
<1>3. UNCHANGED <<mapping, list, disk>> /\ op[t].pc = "called" /\ op[t].call = "merge"
  BY DEF Merge, Called, At
<1>4. PICK K \in Keys, l \in Lists : K = op[t].key /\ l = mapping[K] /\ l # None
  BY <1>2, <1>3, FrameOf, StoreAssumption DEF Staged, Fits
<1>5. PICK n \in Nat : n = list[l].size
  <2>1. list[l].size \in Int
    BY <1>2 DEF BlocksTyped
  <2>2. list[l].size >= 0
    BY <1>2, <1>3, <1>4, Numbers DEF Counted
  <2>3. QED BY <2>1, <2>2
<1>6. PICK v \in Seq(Records) : v = op[t].arg
  BY <1>2, <1>3, Numbers, StoreAssumption DEF Counted
<1>7. PICK q \in Nat : q = Len(v)
  BY <1>6
<1>8. PICK z \in Nat \ {0} : z = PageSize
  BY StoreAssumption
<1>9. PICK f \in Nat, p \in 0..(z - 1) : f = n \div z /\ p = n % z /\ n = z * f + p
  BY <1>8, Divided
<1>10. PICK g \in Nat : g = f * z /\ g = f * PageSize /\ n = g + p
  <2>1. f * z \in Nat /\ z * f = f * z
    BY <1>8, <1>9
  <2>2. QED BY <1>8, <1>9, <2>1
<1>11. PICK x : x = IF p # 0 THEN SubSeq(disk[list[l].at[f + 1]], 1, p) \o v ELSE v
  OBVIOUS
<1>12. PICK m : m = Pages(n + q) - f
  OBVIOUS
<1>13. op' = [op EXCEPT ![t] = [op[t] EXCEPT !.from = f, !.n = m,
              !.pc = IF p # 0 THEN "spare" ELSE "blocks",
              !.old = l,
              !.new = IF p # 0 THEN None ELSE l,
              !.value = x]]
  BY <1>4, <1>5, <1>6, <1>7, <1>8, <1>9, <1>11, <1>12 DEF Merge
<1>14. Alike(t)
  BY <1>1, <1>13 DEF Alike
<1>15. /\ op'[t].pc \in {"spare", "blocks"} /\ op'[t].call = "merge" /\ op'[t].key = K /\ op'[t].arg = v
       /\ op'[t].value = x /\ op'[t].from = f /\ op'[t].old = l
  <2>1. PICK o \in Frames(W) : o = op[t]
    BY <1>1
  <2>2. op'[t] = [o EXCEPT !.from = f, !.n = m,
              !.pc = IF p # 0 THEN "spare" ELSE "blocks",
              !.old = l,
              !.new = IF p # 0 THEN None ELSE l,
              !.value = x]
    BY <1>1, <1>13, <2>1
  <2>3. op'[t].pc = IF p # 0 THEN "spare" ELSE "blocks"
    BY <2>1, <2>2 DEF Frames
  <2>4. QED BY <1>3, <1>4, <1>6, <2>1, <2>2, <2>3 DEF Frames
<1>16. /\ Len(x) = p + q
       /\ \A i \in 1..p : x[i] = RecordAt(l, g + i)
       /\ \A i \in 1..q : x[p + i] = v[i]
  <2>1. CASE p = 0
    <3>1. x = v
      BY <1>11, <2>1
    <3>2. \A i \in 1..q : p + i = i
      BY <2>1
    <3>3. QED BY <1>7, <2>1, <3>1, <3>2
  <2>2. CASE p # 0
    <3>1. PICK r \in 1..n : r = g + p
      BY <1>9, <1>10, <2>2
    <3>2. p \in 1..PageSize /\ r = f * PageSize + p
      BY <1>8, <1>9, <1>10, <2>2, <3>1
    <3>3. f + 1 \in 1..Pages(n)
      BY <3>1, <3>2, PlaceWithin
    <3>4. \A u : ~Changes(u, K)
      BY <1>2, <1>3, <1>4, QuietKey DEF Releasing
    <3>5. list[l].at[f + 1] \in Blocks /\ Deep(l, f + 1, n)
      BY <1>2, <1>4, <1>5, <3>3, <3>4, OwnRecords
    <3>6. PICK s \in Seq(Records) : s = disk[list[l].at[f + 1]]
      BY <1>2, <3>5 DEF BlocksTyped
    <3>7. PICK d \in Nat : d = Len(s)
      OBVIOUS
    <3>8. (f + 1) - 1 = f
      OBVIOUS
    <3>9. d >= z \/ d >= n - g
      BY <1>8, <1>10, <3>5, <3>6, <3>7, <3>8 DEF Deep
    <3>10. p \in Nat /\ p <= d
      BY <1>8, <1>9, <1>10, <3>7, <3>9
    <3>11. /\ x = SubSeq(s, 1, p) \o v /\ Len(x) = p + q
           /\ \A i \in 1..p : x[i] = s[i]
           /\ \A i \in 1..q : x[p + i] = v[i]
      <4>1. x = SubSeq(s, 1, p) \o v /\ p <= Len(s)
        BY <1>11, <2>2, <3>6, <3>7, <3>10
      <4>2. p \in Nat /\ s \in Seq(Records) /\ v \in Seq(Records)
        BY <1>6, <3>6, <3>10
      <4>3. /\ Len(SubSeq(s, 1, p) \o v) = p + Len(v)
            /\ \A i \in 1..p : (SubSeq(s, 1, p) \o v)[i] = s[i]
            /\ \A i \in 1..Len(v) : (SubSeq(s, 1, p) \o v)[p + i] = v[i]
        BY <4>1, <4>2, TailRecords
      <4>4. QED BY <1>7, <4>1, <4>3
    <3>12. ASSUME NEW i \in 1..p PROVE s[i] = RecordAt(l, g + i)
      <4>1. i \in 1..PageSize
        BY <1>8, <1>9, <3>12
      <4>2. RecordAt(l, f * PageSize + i) = disk[list[l].at[f + 1]][i]
        BY <4>1, PlaceAt
      <4>3. QED BY <1>10, <3>6, <4>2
    <3>13. QED BY <3>11, <3>12
  <2>3. QED BY <2>1, <2>2
<1>17. Told(t)'
  <2>1. list'[l].size = n /\ f * PageSize = g
    BY <1>3, <1>5, <1>10
  <2>2. p + q = n - g + Len(v)
    BY <1>7, <1>9, <1>10
  <2>3. ASSUME NEW i \in 1..(p + q)
        PROVE  x[i] = IF g + i <= n THEN RecordAt(l, g + i)' ELSE v[g + i - n]
    <3>1. CASE i <= p
      <4>1. i \in 1..p /\ g + i <= n
        BY <1>9, <1>10, <2>3, <3>1
      <4>2. RecordAt(l, g + i)' = RecordAt(l, g + i)
        BY <1>3 DEF RecordAt
      <4>3. QED BY <1>16, <4>1, <4>2
    <3>2. CASE i > p
      <4>1. PICK j \in 1..q : j = i - p /\ i = p + j
        <5>1. p \in Nat
          BY <1>8, <1>9
        <5>2. i \in Int /\ i <= p + q
          BY <1>7, <2>3, <5>1
        <5>3. i - p \in 1..q /\ i = p + (i - p)
          BY <1>7, <3>2, <5>1, <5>2
        <5>4. QED BY <5>3
      <4>2. ~(g + i <= n) /\ g + i - n = j
        BY <1>9, <1>10, <2>3, <3>2, <4>1
      <4>3. QED BY <1>16, <4>1, <4>2
    <3>3. i <= p \/ i > p
      BY <1>9, <2>3
    <3>4. QED BY <3>1, <3>2, <3>3
  <2>4. QED BY <1>4, <1>6, <1>15, <1>16, <2>1, <2>2, <2>3 DEF Told
<1>18. Knows(t)'
  BY <1>15, <1>17 DEF Knows, Blank, ReadSoFar, Written
<1>19. Within(t, K, None)
  BY <1>3, <1>4, <1>14, <1>15 DEF Within, Alike
<1>20. Contents(l)' = Contents(l)
  BY <1>3 DEF Contents, RecordAt
<1>21. QED BY <1>2, <1>3, <1>4, <1>6, <1>15, <1>18, <1>19, <1>20, DiskAlone, WriterGoesOn

LEMMA GotBlocksValues == ASSUME ValueSafe, BlockSafe', NEW t \in Threads, GotBlocks(t) PROVE ValueSafe' /\ Mapped
<1>1. PICK W : op \in [Threads -> Frames(W)]
  BY OpFrames DEF ValueSafe, BlockSafe
<1>2. BlockSafe /\ ListSafe /\ Short /\ Told(t)
  BY DEF ValueSafe, BlockSafe, Knows
<1>3. /\ op[t].pc = "blocks" /\ op[t].k = op[t].n /\ UNCHANGED <<mapping, list, disk>>
      /\ op' = [op EXCEPT ![t].pc = "write", ![t].k = 0]
  BY DEF GotBlocks, At
<1>4. PICK K \in Keys : K = op[t].key /\ op[t].call # "get"
  BY <1>2, <1>3, Filling
<1>5. PICK l : l = mapping[K]
  OBVIOUS
<1>6. Alike(t)
  BY <1>1, <1>3 DEF Alike
<1>7. /\ op'[t].pc = "write" /\ op'[t].call = op[t].call /\ op'[t].key = K /\ op'[t].arg = op[t].arg
      /\ op'[t].value = op[t].value /\ op'[t].from = op[t].from /\ op'[t].old = op[t].old /\ op'[t].k = 0
  BY <1>1, <1>3, <1>4 DEF Frames
<1>8. Told(t)'
  <2>1. \A o, i : RecordAt(o, i)' = RecordAt(o, i)
    BY <1>3 DEF RecordAt
  <2>2. QED BY <1>2, <1>3, <1>7, <2>1 DEF Told
<1>9. Knows(t)'
  BY <1>7, <1>8 DEF Knows, Blank, ReadSoFar, Written
<1>10. Within(t, K, None)
  BY <1>3, <1>4, <1>6, <1>7 DEF Within, Alike
<1>11. Contents(l)' = Contents(l)
  BY <1>3 DEF Contents, RecordAt
<1>12. QED BY <1>2, <1>3, <1>4, <1>5, <1>7, <1>9, <1>10, <1>11, DiskAlone, WriterGoesOn

-----------------------------------------------------------------------------
(* The list of the key that a writer fills a list for: its places are used, *)
(* and where it is the one that is filled, they are in front.              *)
LEMMA OwnPlaces ==
  ASSUME BlockSafe, NEW t \in Threads, op[t].pc \in {"blocks", "write"}, NEW K \in Keys, K = op[t].key,
         NEW l \in Lists, l = mapping[K], list[l].size >= 0, NEW i \in 1..Pages(list[l].size)
  PROVE  /\ i \in Nat /\ i \in 1..BlockLimit /\ Uses(K, l, i)
         /\ l = op[t].new => i <= op[t].from
<1>1. ListSafe /\ BlocksTyped /\ op[t].call # "get" /\ l # None
  BY Filling, StoreAssumption DEF BlockSafe
<1>2. PICK n \in Nat : n = list[l].size
  BY <1>1 DEF BlocksTyped
<1>3. PICK p \in Nat : p = Pages(n) /\ p < BlockLimit
  <2>1. Pages(n) \in Nat
    BY PagesBound
  <2>2. list[l].size = -1 \/ Pages(n) < BlockLimit
    BY <1>1, <1>2 DEF BlocksTyped
  <2>3. QED BY <1>2, <2>1, <2>2
<1>4. i \in Nat /\ i \in 1..BlockLimit
  <2>1. BlockLimit \in Nat
    BY StoreAssumption
  <2>2. i \in 1..p
    BY <1>2, <1>3
  <2>3. QED BY <1>3, <2>1, <2>2
<1>5. Uses(K, l, i)
  <2>1. Mine(t, l, i)
    BY <1>1 DEF Mine, Releasing
  <2>2. QED BY <1>1, <2>1, WriterPlaces
<1>6. ASSUME l = op[t].new PROVE i <= op[t].from
  <2>1. op[t].old \in {None, l}
    BY <1>6, Filling
  <2>2. op[t].old # None
    BY <1>2, <1>6, Filling
  <2>3. PICK f \in Nat : f = op[t].from
    BY Numbers
  <2>4. list[l].size = f * PageSize
    BY <1>6, <2>1, <2>2, <2>3, Filling
  <2>5. Pages(f * PageSize) = f
    BY PagesOfFull
  <2>6. i \in 1..f
    BY <2>4, <2>5
  <2>7. QED BY <2>3, <2>6
<1>7. QED BY <1>4, <1>5, <1>6

LEMMA SpareValues == ASSUME ValueSafe, BlockSafe', NEW t \in Threads, Spare(t) PROVE ValueSafe' /\ Mapped
<1>1. PICK W : op \in [Threads -> Frames(W)]
  BY OpFrames DEF ValueSafe, BlockSafe
<1>2. BlockSafe /\ ListSafe /\ BlocksTyped /\ Short /\ Told(t)
  BY DEF ValueSafe, BlockSafe, Knows
<1>3. op[t].pc = "spare" /\ UNCHANGED <<mapping, free, disk>>
  BY DEF Spare, At
<1>4. PICK K \in Keys, o \in Lists : K = op[t].key /\ o = op[t].old /\ o # None /\ o = mapping[K]
  BY <1>2, <1>3, FrameOf DEF Staged, Fits
<1>5. op[t].call \in {"put", "merge"}
  BY <1>2, <1>3, FrameOf DEF Staged, Fits
<1>6. PICK l \in Spares :
        /\ list' = [list EXCEPT ![l].at = [i \in 1..BlockLimit |->
                     IF i <= op[t].from THEN list[o].at[i] ELSE list[l].at[i]]]
        /\ op' = [op EXCEPT ![t].pc = "blocks", ![t].new = l]
  BY <1>4 DEF Spare, Spares
<1>7. op' = [op EXCEPT ![t].pc = "blocks", ![t].new = l]
  BY <1>6
<1>8. l \in Lists /\ l # None
  BY <1>2, <1>6, StoreAssumption DEF ListSafe, Shaped, Spares
<1>9. Alike(t)
  BY <1>1, <1>7 DEF Alike
<1>10. /\ op'[t].pc = "blocks" /\ op'[t].old = o /\ op'[t].key = K /\ op'[t].call = op[t].call
       /\ op'[t].from = op[t].from /\ op'[t].value = op[t].value /\ op'[t].arg = op[t].arg
  <2>1. PICK f \in Frames(W) : f = op[t]
    BY <1>1
  <2>2. op'[t] = [f EXCEPT !.pc = "blocks", !.new = l]
    BY <1>1, <1>7, <2>1
  <2>3. QED BY <1>4, <2>1, <2>2 DEF Frames
<1>11. /\ \A k \in Keys : k # K => ~Owns(k, l)
       /\ \A u \in Threads : u # t => op[u].new # l
  BY <1>2, <1>3, <1>4, <1>5, <1>6, <1>8, Exclusive
<1>12. l # o
  <2>1. Owns(K, o)
    BY <1>2, <1>3, <1>4, <1>5, WriterAlone DEF Owns
  <2>2. QED BY <1>2, <1>6, <2>1 DEF ListSafe, Apart, OwnNotSpare
<1>13. \A m \in Lists : m # l => list'[m] = list[m]
  <2>1. PICK r : list' = [list EXCEPT ![l] = r]
    BY <1>6
  <2>2. QED BY <1>2, <2>1 DEF BlocksTyped
<1>14. Within(t, K, l)
  BY <1>3, <1>4, <1>9, <1>10, <1>11, <1>13 DEF Within, Alike
<1>15. Stays(o)
  <2>1. list'[o] = list[o]
    BY <1>12, <1>13
  <2>2. QED BY <1>3, <2>1 DEF Stays, RecordAt
<1>16. Told(t)'
  BY <1>2, <1>3, <1>4, <1>10, <1>15, ToldStays
<1>17. Knows(t)'
  BY <1>10, <1>16 DEF Knows, Blank, ReadSoFar, Written
<1>18. Contents(o)' = Contents(o)
  BY <1>15, SameContents
<1>19. mapping'[K] = o /\ op[t].call # "get"
  BY <1>3, <1>4, <1>5
<1>20. QED BY <1>2, <1>3, <1>4, <1>10, <1>14, <1>17, <1>18, <1>19, DiskAlone, WriterGoesOn

LEMMA GetBlockValues == ASSUME ValueSafe, BlockSafe', NEW t \in Threads, GetBlock(t) PROVE ValueSafe' /\ Mapped
<1>1. PICK W : op \in [Threads -> Frames(W)]
  BY OpFrames DEF ValueSafe, BlockSafe
<1>2. BlockSafe /\ ListSafe /\ BlocksTyped /\ Short /\ Told(t)
  BY DEF ValueSafe, BlockSafe, Knows
<1>3. /\ op[t].pc = "blocks" /\ op[t].k < op[t].n /\ UNCHANGED <<mapping, disk>>
      /\ op' = [op EXCEPT ![t].k = op[t].k + 1]
  BY DEF GetBlock, At
<1>4. PICK K \in Keys, L \in Lists : K = op[t].key /\ L = op[t].new /\ op[t].call # "get"
  BY <1>2, <1>3, Filling
<1>5. PICK from \in Nat, k \in Nat, n \in Nat : from = op[t].from /\ k = op[t].k /\ n = op[t].n
  BY <1>2, Numbers
<1>6. PICK p \in Nat : p = from + k + 1 /\ from < p
  BY <1>5
<1>7. PICK b : list' = [list EXCEPT ![L].at[p] = b]
  BY <1>4, <1>5, <1>6 DEF GetBlock
<1>8. Alike(t)
  BY <1>1, <1>3 DEF Alike
<1>9. /\ op'[t].pc = "blocks" /\ op'[t].old = op[t].old /\ op'[t].key = K /\ op'[t].call = op[t].call
      /\ op'[t].from = op[t].from /\ op'[t].value = op[t].value /\ op'[t].arg = op[t].arg
  BY <1>1, <1>3, <1>4 DEF Frames
<1>10. list \in [Lists -> [size : Int, at : [1..BlockLimit -> Blocks \cup {None}]]]
  BY <1>2 DEF BlocksTyped
<1>11. PICK a : a = [list[L].at EXCEPT ![p] = b]
  OBVIOUS
<1>12. \A i \in 1..BlockLimit : i # p => a[i] = list[L].at[i]
  BY <1>10, <1>11
<1>13. /\ \A m \in Lists : m # L => list'[m] = list[m]
       /\ list'[L].size = list[L].size /\ list'[L].at = a
  <2>1. list' = [list EXCEPT ![L].at = a]
    BY <1>7, <1>11
  <2>2. QED BY <1>10, <2>1
<1>14. Within(t, K, L)
  <2>1. /\ \A j \in Keys : j # K => ~Owns(j, L)
        /\ \A u \in Threads : u # t => op[u].new # L
    BY <1>2, <1>3, <1>4, Filling
  <2>2. QED BY <1>3, <1>4, <1>8, <1>9, <1>13, <2>1 DEF Within, Alike
<1>15. PICK l : l = mapping[K]
  OBVIOUS
<1>16. l # None => Stays(l)
  <2>1. ASSUME l # None PROVE Stays(l)
    <3>1. l \in Lists
      BY <1>2, <1>15, <2>1 DEF ListSafe, Shaped
    <3>2. list'[l].size = list[l].size
      BY <1>13, <3>1
    <3>3. ASSUME list[l].size >= 0, NEW i \in 1..Pages(list[l].size)
          PROVE  disk'[list'[l].at[i]] = disk[list[l].at[i]]
      <4>1. i \in Nat /\ i \in 1..BlockLimit /\ (l = L => i <= from)
        BY <1>2, <1>3, <1>4, <1>5, <1>15, <3>1, <3>3, OwnPlaces
      <4>2. l = L => i # p
        BY <1>5, <1>6, <4>1
      <4>3. list'[l].at[i] = list[l].at[i]
        BY <1>12, <1>13, <3>1, <4>1, <4>2
      <4>4. QED BY <1>3, <4>3
    <3>4. QED BY <1>2, <3>1, <3>2, <3>3, ListStays
  <2>2. QED BY <2>1
<1>17. Told(t)'
  <2>1. op[t].old # None => op[t].old = l
    BY <1>2, <1>3, <1>4, <1>15, OldOfWriter
  <2>2. QED BY <1>2, <1>3, <1>9, <1>16, <2>1, ToldStays
<1>18. Knows(t)'
  BY <1>9, <1>17 DEF Knows, Blank, ReadSoFar, Written
<1>19. Contents(l)' = Contents(l)
  BY <1>16, SameContents
<1>20. QED BY <1>2, <1>3, <1>4, <1>9, <1>14, <1>15, <1>18, <1>19, DiskAlone, WriterGoesOn

LEMMA PartOf ==
  ASSUME NEW s \in Seq(Records), NEW a \in Nat, NEW e \in Nat, 1 <= a, e <= Len(s), NEW r \in 1..(e - a + 1)
  PROVE  SubSeq(s, a, e)[r] = s[a + r - 1]
OBVIOUS

(* The records that go into the i-th block of a value. *)
LEMMA PageRecords ==
  ASSUME NEW v \in Seq(Records), NEW i \in Nat \ {0}, NEW c \in Nat, c = (i - 1) * PageSize
  PROVE  /\ Len(Page(v, i)) <= PageSize
         /\ \A r \in 1..PageSize : c + r <= Len(v) => Page(v, i)[r] = v[c + r]
<1>1. PICK z \in Nat \ {0} : z = PageSize
  BY StoreAssumption
<1>2. i * PageSize = c + z
  <2>1. PICK p \in Nat : p = i - 1
    OBVIOUS
  <2>2. (p + 1) * z = p * z + z /\ i = p + 1
    BY <1>1, <2>1
  <2>3. QED BY <1>1, <2>1, <2>2
<1>3. PICK m \in Nat : m = Len(v)
  OBVIOUS
<1>4. PICK e \in Nat : e = IF c + z < m THEN c + z ELSE m
  <2>1. (IF c + z < m THEN c + z ELSE m) \in Nat
    BY <1>1, <1>3
  <2>2. QED BY <2>1
<1>5. PICK s : s = Page(v, i) /\ s = SubSeq(v, c + 1, e)
  BY <1>2, <1>3, <1>4 DEF Page
<1>6. e <= Len(v) /\ c + 1 \in Nat /\ 1 <= c + 1
  BY <1>1, <1>3, <1>4
<1>7. Len(s) = (IF c + 1 <= e THEN e - (c + 1) + 1 ELSE 0) /\ s \in Seq(Records)
  BY <1>4, <1>5, <1>6, SMTT(30)
<1>8. PICK d \in Nat : d = Len(s)
  BY <1>7
<1>9. d <= z
  <2>1. d = IF c + 1 <= e THEN e - (c + 1) + 1 ELSE 0
    BY <1>7, <1>8
  <2>2. e <= c + z
    BY <1>1, <1>3, <1>4
  <2>3. QED BY <1>1, <1>4, <2>1, <2>2
<1>10. ASSUME NEW r \in 1..z, c + r <= m PROVE s[r] = v[c + r]
  <2>1. PICK a \in Nat : a = c + 1 /\ 1 <= a
    OBVIOUS
  <2>2. r \in 1..(e - a + 1) /\ a + r - 1 = c + r
    BY <1>1, <1>3, <1>4, <1>10, <2>1
  <2>3. s = SubSeq(v, a, e)
    BY <1>5, <2>1
  <2>4. SubSeq(v, a, e)[r] = v[a + r - 1]
    <3>1. e \in Nat /\ e <= Len(v)
      BY <1>4, <1>6
    <3>2. a \in Nat /\ 1 <= a
      BY <2>1
    <3>3. r \in 1..(e - a + 1)
      BY <2>2
    <3>4. QED BY <3>1, <3>2, <3>3, PartOf
  <2>5. QED BY <2>2, <2>3, <2>4
<1>11. QED BY <1>1, <1>3, <1>5, <1>8, <1>9, <1>10

LEMMA OtherPlace ==
  ASSUME NEW f \in Nat, NEW k \in Nat, NEW n \in Nat, NEW i \in 1..k, k < n
  PROVE  f + i \in Nat /\ f + i # f + (k + 1) /\ f + i \in f + 1..f + n
OBVIOUS

LEMMA WriteBlockValues == ASSUME ValueSafe, BlockSafe', NEW t \in Threads, WriteBlock(t) PROVE ValueSafe' /\ Mapped
<1>1. PICK W : op \in [Threads -> Frames(W)]
  BY OpFrames DEF ValueSafe, BlockSafe
<1>2. BlockSafe /\ ListSafe /\ BlocksTyped /\ Parted /\ Short /\ Told(t) /\ Written(t)
  BY DEF ValueSafe, BlockSafe, Knows
<1>3. /\ op[t].pc = "write" /\ op[t].k < op[t].n /\ UNCHANGED <<mapping, list>>
      /\ op' = [op EXCEPT ![t].k = op[t].k + 1]
  BY DEF WriteBlock, At
<1>4. PICK K \in Keys, L \in Lists : K = op[t].key /\ L = op[t].new /\ op[t].call # "get"
  BY <1>2, <1>3, Filling
<1>5. PICK from \in Nat, k \in Nat, n \in Nat : from = op[t].from /\ k = op[t].k /\ n = op[t].n
  BY <1>2, Numbers
<1>6. PICK p \in Nat : p = from + (k + 1) /\ from < p
  BY <1>5
<1>7. k < n /\ p \in from + 1..from + n
  BY <1>3, <1>5, <1>6
<1>8. PICK v \in Seq(Records) : v = op[t].value
  BY <1>2, <1>3, Filling
<1>9. PICK b : b = list[L].at[p]
  OBVIOUS
<1>10. PICK q : q = Page(v, k + 1)
  OBVIOUS
<1>11. disk' = [disk EXCEPT ![b] = q]
  BY <1>4, <1>5, <1>6, <1>8, <1>9, <1>10 DEF WriteBlock
<1>12. Alike(t)
  BY <1>1, <1>3 DEF Alike
<1>13. /\ op'[t].pc = "write" /\ op'[t].old = op[t].old /\ op'[t].key = K /\ op'[t].call = op[t].call
       /\ op'[t].from = op[t].from /\ op'[t].value = v /\ op'[t].arg = op[t].arg /\ op'[t].new = L
       /\ op'[t].k = k + 1
  BY <1>1, <1>3, <1>4, <1>5, <1>8 DEF Frames
<1>14. Fills(t, L, p) /\ Uses(K, L, p)
  BY <1>3, <1>4, <1>5, <1>7 DEF Fills, Uses
<1>15. b \in Blocks
  BY <1>2, <1>9, <1>14 DEF Parted, InUse
<1>16. disk \in [Blocks -> Seq(Records)]
  BY <1>2 DEF BlocksTyped
<1>17. \A j \in Keys, l \in Lists, i \in Nat :
         Uses(j, l, i) /\ ~(j = K /\ l = L /\ i = p) => disk'[list[l].at[i]] = disk[list[l].at[i]]
  <2>1. ASSUME NEW j \in Keys, NEW l \in Lists, NEW i \in Nat, Uses(j, l, i), ~(j = K /\ l = L /\ i = p)
        PROVE  list[l].at[i] \in Blocks /\ list[l].at[i] # b
    BY <1>2, <1>9, <1>14, <2>1 DEF Parted, InUse, UsedOnce
  <2>2. QED BY <1>11, <1>16, <2>1
<1>18. Within(t, K, None) /\ DiskBut(K)
  BY <1>3, <1>4, <1>12, <1>13, <1>17 DEF Within, Alike, DiskBut
<1>19. PICK l : l = mapping[K]
  OBVIOUS
<1>20. l # None => Stays(l)
  <2>1. ASSUME l # None PROVE Stays(l)
    <3>1. l \in Lists
      BY <1>2, <1>19, <2>1 DEF ListSafe, Shaped
    <3>2. ASSUME list[l].size >= 0, NEW i \in 1..Pages(list[l].size)
          PROVE  disk'[list'[l].at[i]] = disk[list[l].at[i]]
      <4>1. i \in Nat /\ Uses(K, l, i) /\ (l = L => i <= from)
        BY <1>2, <1>3, <1>4, <1>5, <1>19, <3>1, <3>2, OwnPlaces
      <4>2. l = L => i # p
        BY <1>5, <1>6, <4>1
      <4>3. QED BY <1>3, <1>17, <3>1, <4>1, <4>2
    <3>3. QED BY <1>2, <1>3, <3>1, <3>2, ListStays
  <2>2. QED BY <2>1
<1>21. Told(t)'
  <2>1. op[t].old # None => op[t].old = l
    BY <1>2, <1>3, <1>4, <1>19, OldOfWriter
  <2>2. QED BY <1>2, <1>3, <1>8, <1>13, <1>20, <2>1, ToldStays
<1>22. Written(t)'
  <2>1. ASSUME NEW i \in 1..(k + 1) PROVE disk'[list[L].at[from + i]] = Page(v, i)
    <3>1. CASE i = k + 1
      BY <1>6, <1>9, <1>10, <1>11, <1>15, <1>16, <3>1
    <3>2. CASE i # k + 1
      <4>1. i \in 1..k /\ from + i \in Nat /\ from + i # p /\ from + i \in from + 1..from + n
        <5>1. i \in 1..k
          BY <1>5, <2>1, <3>2
        <5>2. k < n
          BY <1>7
        <5>3. from + i \in Nat /\ from + i # from + (k + 1) /\ from + i \in from + 1..from + n
          BY <1>5, <5>1, <5>2, OtherPlace
        <5>4. QED BY <1>6, <5>1, <5>3
      <4>2. Uses(K, L, from + i)
        BY <1>3, <1>4, <1>5, <4>1 DEF Fills, Uses
      <4>3. disk'[list[L].at[from + i]] = disk[list[L].at[from + i]]
        BY <1>17, <4>1, <4>2
      <4>4. disk[list[L].at[from + i]] = Page(v, i)
        BY <1>2, <1>3, <1>4, <1>5, <1>8, <4>1 DEF Written
      <4>5. QED BY <4>3, <4>4
    <3>3. QED BY <3>1, <3>2
  <2>2. QED BY <1>3, <1>5, <1>13, <2>1 DEF Written
<1>23. Knows(t)'
  BY <1>13, <1>21, <1>22 DEF Knows, Blank, ReadSoFar
<1>24. Short'
  <2>1. PICK h \in Nat \ {0} : h = k + 1
    BY <1>5
  <2>2. PICK c \in Nat : c = (h - 1) * PageSize
    <3>1. PICK z \in Nat \ {0} : z = PageSize
      BY StoreAssumption
    <3>2. k * z \in Nat /\ h - 1 = k
      BY <1>5, <2>1, <3>1
    <3>3. QED BY <3>1, <3>2
  <2>3. Len(q) <= PageSize
    BY <1>10, <2>1, <2>2, PageRecords
  <2>4. \A x \in Blocks : disk'[x] = IF x = b THEN q ELSE disk[x]
    BY <1>11, <1>15, <1>16
  <2>5. QED BY <1>2, <2>3, <2>4 DEF Short
<1>25. Contents(l)' = Contents(l)
  BY <1>20, SameContents
<1>26. QED BY <1>3, <1>4, <1>13, <1>18, <1>19, <1>23, <1>24, <1>25, WriterGoesOn

-----------------------------------------------------------------------------
(* A writer that releases what is left of the old value, or is at its end. *)
LEMMA WriterIsDone ==
  ASSUME ValueSafe, BlockSafe', NEW t, NEW K, Within(t, K, None), UNCHANGED <<list, disk>>, op[t].key = K,
         op[t].call # "get", op'[t].key = K, op'[t].call = op[t].call, op'[t].arg = op[t].arg,
         op[t].pc \in {"release", "swap", "keep", "forget", "unmap"},
         op'[t].pc \in {"release", "swap", "keep", "forget", "unmap", "done"},
         Releasing(t)' => op'[t].new = op[t].new,
         ~Releasing(t)' => mapping'[K] = op[t].new
  PROVE  ValueSafe' /\ Mapped
<1>1. ListSafe /\ ListSafe' /\ Short /\ t \in Threads /\ K \in Keys
  BY DEF ValueSafe, BlockSafe, Within
<1>2. Releasing(t) /\ (Releasing(t)' <=> op'[t].pc # "done")
  BY DEF Releasing
<1>3. CallOf(t)' = CallOf(t)
  BY <1>2 DEF CallOf, At
<1>4. PICK l : l = op[t].new
  OBVIOUS
<1>5. ValueOf(K) = Contents(l)
  BY <1>1, <1>2, <1>4, WriterValue
<1>6. ValueOf(K)' = Contents(l)'
  <2>1. CASE Releasing(t)'
    <3>1. op'[t].new = l
      BY <1>4, <2>1
    <3>2. QED BY <1>1, <2>1, <3>1, WriterValueNext
  <2>2. CASE ~Releasing(t)'
    <3>1. mapping'[K] = l
      BY <1>4, <2>2
    <3>2. QED BY <1>1, <2>2, <3>1, WriterValueNext
  <2>3. QED BY <2>1, <2>2
<1>7. Contents(l)' = Contents(l)
  BY DEF Contents, RecordAt
<1>8. Knows(t)'
  BY <1>1, KnowsNothing
<1>9. DiskBut(K) /\ Short'
  BY <1>1, DiskAlone
<1>10. QED BY <1>3, <1>5, <1>6, <1>7, <1>8, <1>9, WriterStutters

LEMMA ReleaseValues ==
  ASSUME ValueSafe, BlockSafe', NEW t \in Threads, Release(t) \/ Keep(t) \/ Forget(t)
  PROVE  ValueSafe' /\ Mapped
<1>1. PICK W : op \in [Threads -> Frames(W)]
  BY OpFrames DEF ValueSafe, BlockSafe
<1>2. op[t].pc \in {"release", "keep", "forget"} /\ UNCHANGED <<mapping, list, disk>>
  BY DEF Release, Keep, Forget, At
<1>3. BlockSafe
  BY DEF ValueSafe
<1>4. PICK K \in Keys : K = op[t].key /\ op[t].call # "get" /\ (op[t].pc = "keep" => mapping[K] = op[t].new)
  BY <1>2, <1>3, Releases
<1>5. \/ op' = [op EXCEPT ![t].k = op[t].k + 1] /\ op[t].pc = "release"
      \/ \E p \in {"swap", "forget", "unmap"} : op' = [op EXCEPT ![t].pc = p]
      \/ op' = [op EXCEPT ![t].pc = "done"] /\ op[t].pc = "keep"
  BY DEF Release, Keep, Forget, At, To
<1>6. Alike(t)
  BY <1>1, <1>5 DEF Alike
<1>7. /\ op'[t].key = K /\ op'[t].call = op[t].call /\ op'[t].arg = op[t].arg /\ op'[t].new = op[t].new
      /\ op'[t].pc \in {"release", "swap", "forget", "unmap"} \/ (op'[t].pc = "done" /\ op[t].pc = "keep")
  <2>1. CASE op' = [op EXCEPT ![t].k = op[t].k + 1] /\ op[t].pc = "release"
    BY <1>1, <1>4, <2>1 DEF Frames
  <2>2. CASE \E p \in {"swap", "forget", "unmap"} : op' = [op EXCEPT ![t].pc = p]
    BY <1>1, <1>4, <2>2 DEF Frames
  <2>3. CASE op' = [op EXCEPT ![t].pc = "done"] /\ op[t].pc = "keep"
    BY <1>1, <1>4, <2>3 DEF Frames
  <2>4. QED BY <1>5, <2>1, <2>2, <2>3
<1>8. Within(t, K, None)
  BY <1>2, <1>4, <1>6, <1>7 DEF Within, Alike
<1>9. ~Releasing(t)' => mapping'[K] = op[t].new
  BY <1>2, <1>4, <1>7 DEF Releasing
<1>10. QED BY <1>2, <1>4, <1>7, <1>8, <1>9, WriterIsDone

LEMMA SwapValues == ASSUME ValueSafe, BlockSafe', NEW t \in Threads, Swap(t) PROVE ValueSafe' /\ Mapped
<1>1. PICK W : op \in [Threads -> Frames(W)]
  BY OpFrames DEF ValueSafe, BlockSafe
<1>2. op[t].pc = "swap" /\ UNCHANGED <<list, disk>>
  BY DEF Swap, At
<1>3. BlockSafe
  BY DEF ValueSafe
<1>4. PICK K \in Keys, L \in Lists : K = op[t].key /\ L = op[t].new /\ mapping[K] = op[t].old /\ op[t].call # "get"
  BY <1>2, <1>3, Releases
<1>5. mapping' = [mapping EXCEPT ![K] = L] /\ op' = [op EXCEPT ![t].pc = "keep"]
  BY <1>2, <1>4 DEF Swap, To
<1>6. Alike(t)
  BY <1>1, <1>5 DEF Alike
<1>7. /\ op'[t].key = K /\ op'[t].call = op[t].call /\ op'[t].arg = op[t].arg /\ op'[t].new = op[t].new
      /\ op'[t].pc = "keep"
  BY <1>1, <1>4, <1>5 DEF Frames
<1>8. Within(t, K, None)
  <2>1. \A k \in Keys : k # K => mapping'[k] = mapping[k]
    BY <1>3, <1>5 DEF BlockSafe, ListSafe, Shaped
  <2>2. QED BY <1>2, <1>4, <1>6, <1>7, <2>1 DEF Within, Alike
<1>9. Releasing(t)'
  BY <1>7 DEF Releasing
<1>10. QED BY <1>2, <1>4, <1>7, <1>8, <1>9, WriterIsDone

LEMMA UnmapValues == ASSUME ValueSafe, BlockSafe', NEW t \in Threads, Unmap(t) PROVE ValueSafe' /\ Mapped
<1>1. PICK W : op \in [Threads -> Frames(W)]
  BY OpFrames DEF ValueSafe, BlockSafe
<1>2. op[t].pc = "unmap" /\ UNCHANGED <<list, disk>>
  BY DEF Unmap, At
<1>3. BlockSafe
  BY DEF ValueSafe
<1>4. PICK K \in Keys : K = op[t].key /\ op[t].call # "get" /\ op[t].new = None
  BY <1>2, <1>3, Releases
<1>5. mapping' = [mapping EXCEPT ![K] = None] /\ op' = [op EXCEPT ![t].pc = "done"]
  BY <1>4 DEF Unmap, To
<1>6. Alike(t)
  BY <1>1, <1>5 DEF Alike
<1>7. /\ op'[t].key = K /\ op'[t].call = op[t].call /\ op'[t].arg = op[t].arg
      /\ op'[t].pc = "done"
  BY <1>1, <1>4, <1>5 DEF Frames
<1>8. \A k \in Keys : mapping'[k] = IF k = K THEN None ELSE mapping[k]
  BY <1>3, <1>5 DEF BlockSafe, ListSafe, Shaped
<1>9. Within(t, K, None)
  BY <1>2, <1>4, <1>6, <1>7, <1>8 DEF Within, Alike
<1>10. ~Releasing(t)' /\ mapping'[K] = op[t].new
  BY <1>4, <1>7, <1>8 DEF Releasing
<1>11. QED BY <1>2, <1>4, <1>7, <1>9, <1>10, WriterIsDone

-----------------------------------------------------------------------------
(* The steps at which an operation takes effect.                           *)
LEMMA EffectIs ==
  ASSUME NEW t \in Threads, Alike(t), NEW K \in Keys, NEW v, ValueOf(K)' = v,
         \A k \in Keys : k # K => ValueOf(k)' = ValueOf(k),
         CallOf(t).key = K, CallOf(t)' = [CallOf(t) EXCEPT !.state = "done"]
  PROVE  KV!Effect(t, v)
<1>1. [k \in Keys |-> ValueOf(k)]' = [[k \in Keys |-> ValueOf(k)] EXCEPT ![K] = v]
  BY NewStore
<1>2. \A u \in Threads : u # t => CallOf(u)' = CallOf(u)
  BY OthersCalls
<1>3. PICK c : c = [CallOf(t) EXCEPT !.state = "done"]
  OBVIOUS
<1>4. [u \in Threads |-> CallOf(u)]' = [[u \in Threads |-> CallOf(u)] EXCEPT ![t] = c]
  BY <1>2, <1>3, NewCall
<1>5. [u \in Threads |-> CallOf(u)][t] = CallOf(t)
  OBVIOUS
<1>6. QED BY <1>1, <1>3, <1>4, <1>5 DEF KV!Effect

LEMMA DeleteValues == ASSUME ValueSafe, BlockSafe', NEW t \in Threads, Delete(t) PROVE ValueSafe' /\ Mapped
<1>1. PICK W : op \in [Threads -> Frames(W)]
  BY OpFrames DEF ValueSafe, BlockSafe
<1>2. BlockSafe /\ ListSafe /\ ListSafe' /\ Short /\ Excluding
  BY DEF ValueSafe, BlockSafe
<1>3. /\ op[t].pc = "called" /\ op[t].call = "delete" /\ UNCHANGED <<mapping, list, disk>>
      /\ list[mapping[op[t].key]].size >= 0
      /\ op' = [op EXCEPT ![t].pc = "release", ![t].old = mapping[op[t].key]]
  BY DEF Delete, Called, At
<1>4. PICK K \in Keys, l \in Lists : K = op[t].key /\ l = mapping[K] /\ l # None
  BY <1>2, <1>3, FrameOf, StoreAssumption DEF Staged, Fits
<1>5. op[t].new = None
  BY <1>2, <1>3, FrameOf DEF Staged, Fits
<1>6. Alike(t)
  BY <1>1, <1>3 DEF Alike
<1>7. /\ op'[t].pc = "release" /\ op'[t].new = None /\ op'[t].key = K /\ op'[t].call = "delete"
      /\ op'[t].arg = op[t].arg
  BY <1>1, <1>3, <1>4, <1>5 DEF Frames
<1>8. Within(t, K, None)
  BY <1>3, <1>4, <1>6, <1>7 DEF Within, Alike
<1>9. ~Releasing(t) /\ Releasing(t)'
  BY <1>3, <1>7 DEF Releasing
<1>10. DiskBut(K) /\ Short'
  BY <1>2, <1>3, DiskAlone
<1>11. ValueSafe'
  BY <1>3, <1>4, <1>7, <1>8, <1>10, KnowsNothing, WriterSafe
<1>12. \A k \in Keys : k # K => ValueOf(k)' = ValueOf(k)
  BY <1>2, <1>8, <1>10, OthersValues
<1>13. ValueOf(K)' = None
  <2>1. ValueOf(K)' = Contents(op[t].new)'
    BY <1>2, <1>5, <1>7, <1>9, WriterValueNext
  <2>2. QED BY <1>3, <1>5, <1>7, <2>1, WriterValueNext DEF Contents
<1>14. ValueOf(K) # None
  <2>1. \A u : ~Changes(u, K)
    BY <1>2, <1>3, <1>4, <1>9, QuietKey
  <2>2. ValueOf(K) = Contents(l)
    BY <1>2, <1>4, <2>1, Values
  <2>3. Contents(l) \in Seq(Records)
    BY <1>2, <1>3, <1>4, <2>1, OwnContents
  <2>4. QED BY <2>2, <2>3, ValueAssumption
<1>15. /\ CallOf(t).state = "called" /\ CallOf(t).op = "delete" /\ CallOf(t).key = K
       /\ CallOf(t)' = [CallOf(t) EXCEPT !.state = "done"]
  BY <1>3, <1>4, <1>7, <1>9, CallTakesEffect
<1>16. KV!Effect(t, None)
  BY <1>4, <1>6, <1>12, <1>13, <1>15, EffectIs
<1>17. KV!Delete(t)
  BY <1>14, <1>15, <1>16 DEF KV!Delete, KV!Called
<1>18. QED BY <1>11, <1>17 DEF Mapped, KV!Next

(* The records behind the shared blocks are those of the value. *)
LEMMA WrittenRecords ==
  ASSUME BlockSafe, NEW t \in Threads, op[t].pc = "write", Written(t), op[t].k = op[t].n,
         NEW L \in Lists, L = op[t].new, NEW f \in Nat, f = op[t].from, NEW g \in Nat, g = f * PageSize,
         NEW v \in Seq(Records), v = op[t].value, NEW q \in Nat, q = Len(v), NEW j \in 1..q
  PROVE  RecordAt(L, g + j) = v[j]
<1>1. PICK p \in Nat, r \in 1..PageSize : j = p * PageSize + r
  <2>1. j \in Nat \ {0}
    OBVIOUS
  <2>2. QED BY <2>1, PlaceOf
<1>2. PICK n \in Nat : n = op[t].n
  BY Numbers
<1>3. p + 1 \in 1..n
  <2>1. p + 1 \in 1..Pages(q)
    BY <1>1, PlaceWithin
  <2>2. f + n = Pages(g + q)
    BY <1>2, Filling
  <2>3. Pages(g + q) = f + Pages(q)
    BY PagesSum
  <2>4. PICK m \in Nat : m = Pages(q)
    BY PagesBound
  <2>5. m = n
    BY <1>2, <2>2, <2>3, <2>4
  <2>6. QED BY <2>1, <2>4, <2>5
<1>4. PICK h \in Nat \ {0} : h = p + 1 /\ h - 1 = p
  <2>1. p + 1 \in Nat \ {0} /\ (p + 1) - 1 = p
    BY <1>1
  <2>2. QED BY <2>1
<1>5. disk[list[L].at[f + h]] = Page(v, h)
  BY <1>2, <1>3, <1>4 DEF Written
<1>6. PICK z \in Nat \ {0} : z = PageSize
  BY StoreAssumption
<1>7. PICK c \in Nat : c = p * z /\ c = (h - 1) * PageSize
  <2>1. p * z \in Nat
    BY <1>1, <1>6
  <2>2. QED BY <1>4, <1>6, <2>1
<1>8. j = c + r /\ r \in 1..z
  BY <1>1, <1>6, <1>7
<1>9. Page(v, h)[r] = v[j]
  <2>1. c + r <= Len(v)
    BY <1>7, <1>8
  <2>2. \A x \in 1..PageSize : c + x <= Len(v) => Page(v, h)[x] = v[c + x]
    <3>1. c \in Nat /\ c = (h - 1) * PageSize
      BY <1>7
    <3>2. h \in Nat \ {0}
      BY <1>4
    <3>3. QED BY <3>1, <3>2, PageRecords
  <2>3. r \in 1..PageSize
    BY <1>1
  <2>4. QED BY <1>8, <2>1, <2>2, <2>3
<1>10. PICK d \in Nat : d = f + p /\ d + 1 = f + h
  <2>1. f + p \in Nat /\ (f + p) + 1 = f + (p + 1)
    BY <1>1, SMTT(30)
  <2>2. QED BY <1>4, <2>1
<1>11. d * PageSize + r = g + j
  <2>1. (f + p) * z = f * z + p * z
    BY <1>1, <1>6
  <2>2. d * z = g + c
    BY <1>6, <1>7, <1>10, <2>1
  <2>3. g + c + r = g + (c + r)
    BY <1>7, <1>8
  <2>4. QED BY <1>6, <1>8, <2>2, <2>3
<1>12. RecordAt(L, d * PageSize + r) = disk[list[L].at[d + 1]][r]
  <2>1. d \in Nat
    BY <1>10
  <2>2. r \in 1..PageSize
    BY <1>1
  <2>3. \A l : RecordAt(l, d * PageSize + r) = disk[list[l].at[d + 1]][r]
    BY <2>1, <2>2, PlaceAt
  <2>4. QED BY <2>3
<1>13. QED BY <1>5, <1>9, <1>10, <1>11, <1>12

(* Those in the shared blocks are those of the old list. *)
LEMMA SharedRecords ==
  ASSUME BlockSafe, NEW t \in Threads, op[t].pc = "write", op[t].old # None,
         NEW L \in Lists, L = op[t].new, NEW f \in Nat, f = op[t].from, NEW g \in Nat, g = f * PageSize, NEW i \in 1..g
  PROVE  RecordAt(L, i) = RecordAt(op[t].old, i)
<1>1. CASE op[t].old = L
  BY <1>1
<1>2. CASE op[t].old # L
  <2>1. PICK p \in Nat, r \in 1..PageSize : i = p * PageSize + r /\ \A l : RecordAt(l, i) = disk[list[l].at[p + 1]][r]
    <3>1. i \in Nat \ {0}
      OBVIOUS
    <3>2. QED BY <3>1, PlaceOf
  <2>2. p + 1 \in 1..f
    <3>1. p + 1 \in 1..Pages(g)
      BY <2>1, PlaceWithin
    <3>2. Pages(g) = f
      BY PagesOfFull
    <3>3. QED BY <3>1, <3>2
  <2>3. list[L].at[p + 1] = list[op[t].old].at[p + 1]
    BY <1>2, <2>2, Numbers DEF Counted
  <2>4. QED BY <2>1, <2>3
<1>3. QED BY <1>1, <1>2

LEMMA WrittenList ==
  ASSUME BlockSafe, NEW t \in Threads, op[t].pc = "write", Written(t), op[t].k = op[t].n
  PROVE  \A j \in 1..Len(op[t].value) : RecordAt(op[t].new, op[t].from * PageSize + j) = op[t].value[j]
<1>1. PICK L \in Lists, v \in Seq(Records), f \in Nat : L = op[t].new /\ v = op[t].value /\ f = op[t].from
  BY Filling, Numbers
<1>2. PICK g \in Nat : g = f * PageSize
  <2>1. PICK z \in Nat \ {0} : z = PageSize
    BY StoreAssumption
  <2>2. f * z \in Nat
    BY <1>1, <2>1
  <2>3. QED BY <2>1, <2>2
<1>3. PICK q \in Nat : q = Len(v)
  BY <1>1
<1>4. ASSUME NEW j \in 1..q PROVE RecordAt(L, g + j) = v[j]
  BY <1>1, <1>2, <1>3, <1>4, WrittenRecords
<1>5. QED BY <1>1, <1>2, <1>3, <1>4

(* What stands in the new list at the end, for a Put and for a Merge.      *)
LEMMA PutWritten ==
  ASSUME BlockSafe, NEW t \in Threads, op[t].pc = "write", Written(t), Told(t), op[t].k = op[t].n, op[t].call = "put",
         NEW L \in Lists, L = op[t].new, NEW a, a = op[t].arg
  PROVE  /\ a \in Seq(Records) /\ op[t].from * PageSize + Len(op[t].value) = Len(a)
         /\ \A i \in 1..Len(a) : RecordAt(L, i) = a[i]
<1>1. a \in Seq(Records) /\ op[t].from = 0 /\ op[t].value = a
  BY DEF Told
<1>2. PICK q \in Nat : q = Len(a)
  BY <1>1
<1>3. 0 * PageSize = 0 /\ 0 + q = q
  BY <1>2, StoreAssumption
<1>4. ASSUME NEW i \in 1..q PROVE RecordAt(L, i) = a[i]
  <2>1. \A j \in 1..Len(op[t].value) : RecordAt(op[t].new, op[t].from * PageSize + j) = op[t].value[j]
    BY WrittenList
  <2>2. RecordAt(L, op[t].from * PageSize + i) = a[i]
    BY <1>1, <1>2, <1>4, <2>1
  <2>3. 0 * PageSize + i = i
    BY <1>2, <1>3, <1>4
  <2>4. QED BY <1>1, <2>2, <2>3
<1>5. QED BY <1>1, <1>2, <1>3, <1>4

LEMMA MergeWritten ==
  ASSUME BlockSafe, NEW t \in Threads, op[t].pc = "write", Written(t), Told(t), op[t].k = op[t].n, op[t].call = "merge",
         NEW c \in Seq(Records), Len(c) = list[op[t].old].size,
         \A i \in 1..list[op[t].old].size : c[i] = RecordAt(op[t].old, i)
  PROVE  /\ op[t].arg \in Seq(Records) /\ op[t].from * PageSize + Len(op[t].value) = Len(c \o op[t].arg)
         /\ \A i \in 1..Len(c \o op[t].arg) : RecordAt(op[t].new, i) = (c \o op[t].arg)[i]
<1>0. PICK L \in Lists : L = op[t].new
  BY Filling
<1>d. PICK o : o = op[t].old
  OBVIOUS
<1>e. PICK a : a = op[t].arg
  OBVIOUS
<1>1. a \in Seq(Records) /\ o # None
  BY <1>d, <1>e DEF Told
<1>2. PICK v \in Seq(Records) : v = op[t].value
  BY Filling
<1>3. PICK q \in Nat, d \in Nat, n \in Nat : q = Len(v) /\ d = Len(a) /\ n = Len(c)
  <2>1. Len(v) \in Nat
    BY <1>2
  <2>2. Len(a) \in Nat
    BY <1>1
  <2>3. Len(c) \in Nat
    OBVIOUS
  <2>4. QED BY <2>1, <2>2, <2>3
<1>4. PICK f \in Nat : f = op[t].from
  BY Numbers
<1>5. PICK g \in Nat : g = f * PageSize
  <2>1. PICK z \in Nat \ {0} : z = PageSize
    BY StoreAssumption
  <2>2. f * z \in Nat
    BY <1>4, <2>1
  <2>3. QED BY <2>1, <2>2
<1>6. g <= n
  <2>1. Sharing(op[t])
    BY <1>1, <1>d, Numbers DEF Counted
  <2>2. QED BY <1>3, <1>4, <1>5, <1>d, <2>1 DEF Sharing
<1>7. /\ q = n - g + d
      /\ \A j \in 1..q : v[j] = IF g + j <= n THEN RecordAt(o, g + j) ELSE a[g + j - n]
  <2>1. /\ Len(op[t].value) = list[op[t].old].size - op[t].from * PageSize + Len(op[t].arg)
        /\ \A j \in 1..Len(op[t].value) :
             op[t].value[j] = IF op[t].from * PageSize + j <= list[op[t].old].size
                              THEN RecordAt(op[t].old, op[t].from * PageSize + j)
                              ELSE op[t].arg[op[t].from * PageSize + j - list[op[t].old].size]
    BY DEF Told
  <2>2. list[o].size = n
    BY <1>3, <1>d
  <2>3. QED BY <1>2, <1>3, <1>4, <1>5, <1>d, <1>e, <2>1, <2>2
<1>a. n \in Nat /\ g \in Nat /\ q \in Nat /\ d \in Nat
  BY <1>3, <1>5
<1>b. q = n - g + d
  BY <1>7
<1>8. g + q = n + d
  BY <1>a, <1>b
<1>c. \A j \in 1..q : RecordAt(L, g + j) = v[j]
  <2>1. v = op[t].value /\ q = Len(v) /\ op[t].from * PageSize = g
    BY <1>2, <1>3, <1>4, <1>5
  <2>2. \A j \in 1..Len(op[t].value) : RecordAt(op[t].new, op[t].from * PageSize + j) = op[t].value[j]
    BY WrittenList
  <2>3. QED BY <1>0, <2>1, <2>2
<1>9. /\ Len(c \o a) = n + d
      /\ \A i \in 1..n : (c \o a)[i] = c[i]
      /\ \A i \in 1..d : (c \o a)[n + i] = a[i]
  BY <1>1, <1>3, Joined
<1>10. ASSUME NEW i \in 1..(n + d) PROVE RecordAt(L, i) = (c \o a)[i]
  <2>1. i \in Nat /\ i >= 1 /\ i <= n + d
    BY <1>a, <1>10
  <2>2. CASE i <= g
    <3>1. i \in 1..g /\ i \in 1..n
      BY <1>a, <1>6, <2>1, <2>2
    <3>2. RecordAt(L, i) = RecordAt(op[t].old, i)
      BY <1>0, <1>1, <1>4, <1>5, <1>d, <3>1, SharedRecords
    <3>3. c[i] = RecordAt(o, i)
      BY <1>3, <1>d, <3>1
    <3>4. QED BY <1>9, <1>d, <3>1, <3>2, <3>3
  <2>3. CASE i > g
    <3>1. PICK j \in 1..q : i = g + j
      <4>1. i - g \in 1..q /\ i = g + (i - g)
        BY <1>a, <1>8, <2>1, <2>3
      <4>2. QED BY <4>1
    <3>2. RecordAt(L, i) = v[j]
      BY <1>c, <3>1
    <3>3. CASE i <= n
      <4>1. v[j] = RecordAt(o, i) /\ i \in 1..n
        <5>1. i \in 1..n
          BY <1>a, <2>1, <3>3
        <5>2. g + j <= n
          BY <3>1, <3>3
        <5>3. v[j] = RecordAt(o, g + j)
          BY <1>7, <3>1, <5>2
        <5>4. QED BY <3>1, <5>1, <5>3
      <4>2. c[i] = RecordAt(o, i)
        BY <1>3, <1>d, <4>1
      <4>3. QED BY <1>9, <3>1, <3>2, <4>1, <4>2
    <3>4. CASE i > n
      <4>1. PICK h \in 1..d : i = n + h
        <5>1. i - n \in 1..d /\ i = n + (i - n)
          BY <1>a, <2>1, <3>4
        <5>2. QED BY <5>1
      <4>2. ~(g + j <= n) /\ g + j - n = h
        <5>1. h \in Int
          BY <1>a, <4>1
        <5>2. g + j = i /\ ~(i <= n)
          BY <1>a, <2>1, <3>1, <3>4
        <5>3. i - n = h
          BY <1>a, <2>1, <4>1, <5>1
        <5>4. QED BY <5>2, <5>3
      <4>3. v[j] = a[h]
        BY <1>7, <3>1, <4>2
      <4>4. (c \o a)[n + h] = a[h]
        BY <1>9, <4>1
      <4>5. QED BY <3>1, <3>2, <4>1, <4>3, <4>4
    <3>5. i <= n \/ i > n
      BY <1>a, <2>1
    <3>6. QED BY <3>3, <3>4, <3>5
  <2>4. i <= g \/ i > g
    BY <1>a, <2>1
  <2>5. QED BY <2>2, <2>3, <2>4
<1>11. QED BY <1>0, <1>d, <1>e, <1>1, <1>2, <1>3, <1>4, <1>5, <1>8, <1>9, <1>10

(* With its length, the list has what was written as its contents.         *)
LEMMA SizedContents ==
  ASSUME NEW L \in Lists, L # None, NEW w \in Seq(Records), list'[L].size = Len(w),
         \A i \in 1..Len(w) : RecordAt(L, i)' = w[i]
  PROVE  Contents(L)' = w
<1>1. PICK s \in Nat : s = Len(w)
  OBVIOUS
<1>2. Contents(L)' = [i \in 1..s |-> RecordAt(L, i)']
  BY <1>1 DEF Contents
<1>3. [i \in 1..s |-> RecordAt(L, i)'] = [i \in 1..s |-> w[i]]
  BY <1>1
<1>4. w = [i \in 1..s |-> w[i]]
  BY <1>1
<1>5. QED BY <1>2, <1>3, <1>4

(* The length completes the value: a Put or a Merge takes effect.          *)
LEMMA SetSizeValues == ASSUME ValueSafe, BlockSafe', NEW t \in Threads, SetSize(t) PROVE ValueSafe' /\ Mapped
<1>1. PICK W : op \in [Threads -> Frames(W)]
  BY OpFrames DEF ValueSafe, BlockSafe
<1>2. BlockSafe /\ ListSafe /\ ListSafe' /\ BlocksTyped /\ Short /\ Excluding /\ Told(t) /\ Written(t)
  BY DEF ValueSafe, BlockSafe, Knows
<1>3. /\ op[t].pc = "write" /\ op[t].k = op[t].n /\ UNCHANGED <<mapping, disk>>
      /\ list' = [list EXCEPT ![op[t].new].size = op[t].from * PageSize + Len(op[t].value)]
      /\ op' = [op EXCEPT ![t] = IF op[t].old \in {None, op[t].new} THEN [op[t] EXCEPT !.pc = "done"]
                                 ELSE [op[t] EXCEPT !.pc = "release", !.k = op[t].from]]
  BY DEF SetSize, At
<1>4. PICK K \in Keys, L \in Lists : /\ K = op[t].key /\ L = op[t].new /\ L # None
                                     /\ op[t].old \in {None, L} => mapping[K] = L
  BY <1>2, <1>3, Filling
<1>5. op[t].call \in {"put", "merge"} /\ op[t].call # "get"
  BY <1>2, <1>3, Filling
<1>6. PICK s \in Nat : s = op[t].from * PageSize + Len(op[t].value)
  <2>1. PICK v \in Seq(Records), f \in Nat : v = op[t].value /\ f = op[t].from
    BY <1>2, <1>3, Filling, Numbers
  <2>2. PICK z \in Nat : z = PageSize
    BY StoreAssumption
  <2>3. f * z \in Nat
    BY <2>1, <2>2
  <2>4. PICK q \in Nat : q = Len(v)
    BY <2>1
  <2>5. f * z + q \in Nat
    BY <2>3, <2>4
  <2>6. QED BY <2>1, <2>2, <2>4, <2>5
<1>7. /\ \A m \in Lists : m # L => list'[m] = list[m]
      /\ list'[L].size = s
      /\ \A m \in Lists : list'[m].at = list[m].at
  <2>1. list \in [Lists -> [size : Int, at : [1..BlockLimit -> Blocks \cup {None}]]]
    BY <1>2 DEF BlocksTyped
  <2>2. list' = [list EXCEPT ![L].size = s]
    BY <1>3, <1>4, <1>6
  <2>3. QED BY <2>1, <2>2
<1>8. Alike(t)
  BY <1>1, <1>3 DEF Alike
<1>9. /\ op'[t].key = K /\ op'[t].call = op[t].call /\ op'[t].arg = op[t].arg /\ op'[t].new = L
      /\ op[t].old \in {None, L} => op'[t].pc = "done"
      /\ op[t].old \notin {None, L} => op'[t].pc = "release"
  <2>1. op[t] \in Frames(W) /\ op'[t] = IF op[t].old \in {None, op[t].new} THEN [op[t] EXCEPT !.pc = "done"]
                                        ELSE [op[t] EXCEPT !.pc = "release", !.k = op[t].from]
    BY <1>1, <1>3
  <2>2. QED BY <1>4, <2>1 DEF Frames
<1>10. Within(t, K, L)
  <2>1. /\ \A j \in Keys : j # K => ~Owns(j, L)
        /\ \A u \in Threads : u # t => op[u].new # L
    BY <1>2, <1>3, <1>4, Filling
  <2>2. QED BY <1>3, <1>4, <1>7, <1>8, <1>9, <2>1 DEF Within, Alike
<1>11. ~Releasing(t) /\ (op'[t].pc = "done" => ~Releasing(t)') /\ (op'[t].pc = "release" => Releasing(t)')
  BY <1>3 DEF Releasing
<1>12. DiskBut(K) /\ Short'
  BY <1>2, <1>3, DiskAlone
<1>13. ValueSafe'
  BY <1>4, <1>5, <1>9, <1>10, <1>12, KnowsNothing, WriterSafe
<1>14. \A k \in Keys : k # K => ValueOf(k)' = ValueOf(k)
  BY <1>2, <1>10, <1>12, OthersValues
<1>15. \A m \in Lists : \A i : RecordAt(m, i)' = RecordAt(m, i)
  BY <1>3, <1>7 DEF RecordAt
<1>16. ValueOf(K)' = Contents(L)'
  <2>1. ValueOf(K)' = IF Releasing(t)' THEN Contents(op[t].new)' ELSE Contents(mapping[K])'
    BY <1>2, <1>5, <1>9, WriterValueNext
  <2>2. CASE op[t].old \in {None, L}
    <3>1. mapping'[K] = L /\ ~Releasing(t)'
      BY <1>3, <1>4, <1>9, <1>11, <2>2
    <3>2. QED BY <2>1, <3>1
  <2>3. CASE op[t].old \notin {None, L}
    <3>1. op'[t].new = L /\ Releasing(t)'
      BY <1>9, <1>11, <2>3
    <3>2. QED BY <2>1, <3>1
  <2>4. QED BY <2>2, <2>3
<1>17. /\ CallOf(t).state = "called" /\ CallOf(t).op = op[t].call /\ CallOf(t).key = K /\ CallOf(t).value = op[t].arg
       /\ CallOf(t)' = [CallOf(t) EXCEPT !.state = "done"]
  BY <1>3, <1>4, <1>5, <1>9, <1>11, CallTakesEffect
<1>18. PICK a : a = op[t].arg
  OBVIOUS
<1>19. CASE op[t].call = "put"
  <2>1. a \in Seq(Records) /\ s = Len(a) /\ \A i \in 1..Len(a) : RecordAt(L, i) = a[i]
    BY <1>2, <1>3, <1>4, <1>6, <1>18, <1>19, PutWritten
  <2>2. Contents(L)' = a
    BY <1>4, <1>7, <1>15, <2>1, SizedContents
  <2>3. KV!Effect(t, a)
    BY <1>4, <1>8, <1>14, <1>16, <1>17, <2>2, EffectIs
  <2>4. KV!Put(t)
    BY <1>17, <1>18, <1>19, <2>3 DEF KV!Put, KV!Called
  <2>5. QED BY <1>13, <2>4 DEF Mapped, KV!Next
<1>20. CASE op[t].call = "merge"
  <2>1. PICK o \in Lists : o = op[t].old /\ o = mapping[K] /\ o # None
    BY <1>2, <1>3, <1>4, <1>20, OldOfWriter DEF Told
  <2>2. list[o].size >= 0
    <3>1. PICK f \in Nat, z \in Nat : f = op[t].from /\ z = PageSize
      BY <1>2, Numbers, StoreAssumption
    <3>2. PICK g \in Nat : g = f * z
      BY <3>1
    <3>3. g <= list[o].size
      BY <1>2, <1>3, <2>1, <3>1, <3>2, Numbers DEF Counted, Sharing
    <3>4. list[o].size \in Int
      BY <1>2 DEF BlocksTyped
    <3>5. QED BY <3>2, <3>3, <3>4
  <2>3. \A u : ~Changes(u, K)
    BY <1>2, <1>3, <1>4, <1>11, QuietKey
  <2>4. PICK c \in Seq(Records) : /\ c = Contents(o) /\ Len(c) = list[o].size
                                  /\ \A i \in 1..list[o].size : c[i] = RecordAt(o, i)
    BY <1>2, <2>1, <2>2, <2>3, OwnContents
  <2>5. ValueOf(K) = c
    BY <1>2, <2>1, <2>3, <2>4, Values
  <2>6. a \in Seq(Records) /\ s = Len(c \o a) /\ \A i \in 1..Len(c \o a) : RecordAt(L, i) = (c \o a)[i]
    <3>1. op[t].pc = "write" /\ op[t].k = op[t].n
      BY <1>3
    <3>2. BlockSafe /\ Written(t) /\ Told(t)
      BY <1>2
    <3>3. Len(c) = list[op[t].old].size /\ \A i \in 1..list[op[t].old].size : c[i] = RecordAt(op[t].old, i)
      BY <2>1, <2>4
    <3>4. /\ op[t].arg \in Seq(Records) /\ op[t].from * PageSize + Len(op[t].value) = Len(c \o op[t].arg)
          /\ \A i \in 1..Len(c \o op[t].arg) : RecordAt(op[t].new, i) = (c \o op[t].arg)[i]
      <4>1. c \in Seq(Records)
        BY <2>4
      <4>2. QED BY <1>20, <3>1, <3>2, <3>3, <4>1, MergeWritten
    <3>5. QED BY <1>4, <1>6, <1>18, <3>4
  <2>7. Contents(L)' = c \o a
    <3>1. PICK w \in Seq(Records) : w = c \o a
      BY <2>4, <2>6, Joined
    <3>2. list'[L].size = Len(w) /\ \A i \in 1..Len(w) : RecordAt(L, i)' = w[i]
      BY <1>7, <1>15, <2>6, <3>1
    <3>3. Contents(L)' = w
      BY <1>4, <3>1, <3>2, SizedContents
    <3>4. QED BY <3>1, <3>3
  <2>8. KV!Effect(t, c \o a)
    BY <1>4, <1>8, <1>14, <1>16, <1>17, <2>7, EffectIs
  <2>9. c # None
    BY <2>4, ValueAssumption
  <2>10. [k \in Keys |-> ValueOf(k)][CallOf(t).key] = c /\ CallOf(t).value = a
    BY <1>17, <1>18, <2>5
  <2>11. KV!Merge(t)
    BY <1>17, <1>20, <2>8, <2>9, <2>10 DEF KV!Merge, KV!Called
  <2>12. QED BY <1>13, <2>11 DEF Mapped, KV!Next
<1>21. QED BY <1>5, <1>19, <1>20

LEMMA ValuesInit == Init => ValueSafe /\ KV!Init
<1> SUFFICES ASSUME Init PROVE ValueSafe /\ KV!Init
  OBVIOUS
<1>1. BlockSafe
  BY BlocksInit
<1>2. /\ op = [t \in Threads |-> Idle] /\ mapping = [k \in Keys |-> None]
      /\ disk = [b \in Blocks |-> << >>]
  BY DEF Init
<1>3. \A t \in Threads : op[t].pc = "idle" /\ op[t].key = None /\ op[t].call = "none" /\ op[t].arg = None
  BY <1>2 DEF Idle
<1>4. Excluding /\ \A t \in Threads : Knows(t)
  BY <1>3 DEF Excluding, Knows, Blank, ReadSoFar, Told, Written
<1>5. Short
  <2>1. Len(<< >>) = 0 /\ 0 <= PageSize
    BY StoreAssumption
  <2>2. QED BY <1>2, <2>1 DEF Short
<1>6. \A k \in Keys : ValueOf(k) = None
  <2>1. \A k \in Keys : \A u : ~Changes(u, k)
    BY <1>3 DEF Changes, Releasing
  <2>2. ListSafe /\ \A k \in Keys : mapping[k] = None
    BY <1>1, <1>2 DEF BlockSafe
  <2>3. Contents(None) = None
    BY DEF Contents
  <2>4. QED BY <2>1, <2>2, <2>3, Values
<1>7. \A t \in Threads : CallOf(t) = KV!Resting
  BY <1>3 DEF CallOf, At, Releasing, KV!Resting
<1>8. KV!Init
  BY <1>6, <1>7 DEF KV!Init
<1>9. QED BY <1>1, <1>4, <1>5, <1>8 DEF ValueSafe

LEMMA ValueStep ==
  ASSUME Restarts = FALSE, Locking = "all", ValueSafe, [Next]_vars
  PROVE  ValueSafe' /\ Mapped
<1>1. BlockSafe'
  BY BlockStep DEF ValueSafe
<1>2. CASE UNCHANGED vars
  <2>1. UNCHANGED <<mapping, list, buffer, free, disk, op>>
    BY <1>2 DEF vars
  <2>2. Excluding' /\ Short' /\ \A t \in Threads : Knows(t)'
    <3>1. \A l, i : RecordAt(l, i)' = RecordAt(l, i)
      BY <2>1 DEF RecordAt
    <3>2. QED BY <2>1, <3>1 DEF ValueSafe, Excluding, Short, Knows, Blank, ReadSoFar, Told, Written
  <2>3. \A k \in Keys : ValueOf(k)' = ValueOf(k)
    BY <2>1 DEF ValueOf, Contents, RecordAt, Writer, Releasing
  <2>4. \A t \in Threads : CallOf(t)' = CallOf(t)
    BY <2>1 DEF CallOf, At, Releasing
  <2>5. UNCHANGED KV!kv
    BY <2>3, <2>4 DEF KV!kv
  <2>6. QED BY <1>1, <2>2, <2>5 DEF ValueSafe, Mapped
<1>3. ASSUME NEW t \in Threads, Step(t) PROVE ValueSafe' /\ Mapped
  <2>1. CASE Refuse(t) \/ Get(t) \/ ReadBlock(t) \/ ReadEnd(t) \/ Return(t)
    BY <1>1, <2>1, RefuseValues, GetValues, ReadBlockValues, ReadEndValues, ReturnValues
  <2>2. CASE PutFirst(t) \/ Put(t) \/ Merge(t) \/ Delete(t) \/ Spare(t)
    BY <1>1, <2>2, PutFirstValues, PutValues, MergeValues, DeleteValues, SpareValues
  <2>3. CASE GetBlock(t) \/ GotBlocks(t) \/ WriteBlock(t) \/ SetSize(t)
    BY <1>1, <2>3, GetBlockValues, GotBlocksValues, WriteBlockValues, SetSizeValues
  <2>4. CASE Release(t) \/ Keep(t) \/ Forget(t) \/ Swap(t) \/ Unmap(t)
    BY <1>1, <2>4, ReleaseValues, SwapValues, UnmapValues
  <2>5. QED BY <1>3, <2>1, <2>2, <2>3, <2>4 DEF Step
<1>4. ASSUME NEW t \in Threads, NEW o \in Calls, NEW k \in Keys, NEW v \in Inputs, Call(t, o, k, v)
      PROVE  ValueSafe' /\ Mapped
  BY <1>1, <1>4, CallValues
<1>5. ~Restart
  BY DEF Restart
<1>6. QED BY <1>2, <1>3, <1>4, <1>5 DEF Next, Calls

(* With the callers' locks, and as long as the program runs, the block     *)
(* store implements the map from keys to values: whatever the number of    *)
(* threads, keys and blocks and however their steps interleave, a Put, a   *)
(* Merge or a Delete takes effect at one moment, and a Get answers with    *)
(* the value its key has at the moment it ends.                            *)
THEOREM StoresKeyValues == ASSUME Restarts = FALSE, Locking = "all" PROVE Spec => IsKeyValue
<1>1. Init => ValueSafe /\ KV!Init
  BY ValuesInit
<1>2. ValueSafe /\ [Next]_vars => ValueSafe' /\ [KV!Next]_(KV!kv)
  BY ValueStep DEF Mapped
<1>3. QED BY <1>1, <1>2, PTL DEF Spec, IsKeyValue, KV!Spec
=============================================================================
