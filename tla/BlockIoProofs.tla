--------------------------- MODULE BlockIoProofs ---------------------------
(***************************************************************************)
(* The requests of the I/O, for any number of clients, blocks and sub      *)
(* requests, any reads and writes, with refused requests and with reads    *)
(* that give up.                                                           *)
(***************************************************************************)
EXTENDS BlockIo, FiniteSetTheorems, WellFoundedInduction, TLAPS

-----------------------------------------------------------------------------
(* Numbers from 1 on, one after the other. *)
LEMMA LeastNumber ==
  ASSUME NEW T \in SUBSET Nat, T # {}
  PROVE  \E m \in T : \A k \in T : m <= k
<1> DEFINE Less == {p \in Nat \X Nat : p[1] < p[2]}
<1>1. IsWellFoundedOn(Less, Nat)
  BY NatLessThanWellFounded, Zenon DEF OpToRel
<1>2. PICK m \in T : \A k \in T : ~ (<<k, m>> \in Less)
  BY <1>1, WFMin, Zenon
<1>3. \A k \in T : ~(k < m)
  BY <1>2
<1>4. QED BY <1>3

LEMMA OneAfterOther ==
  ASSUME NEW n \in Nat, NEW S, 1 \in S, \A i \in 1..n - 1 : i \in S => i + 1 \in S
  PROVE  1..n \subseteq S
<1> SUFFICES ASSUME (1..n) \ S # {} PROVE FALSE
  OBVIOUS
<1>1. PICK m \in (1..n) \ S : \A k \in (1..n) \ S : m <= k
  <2>1. (1..n) \ S \in SUBSET Nat
    OBVIOUS
  <2>2. QED BY <2>1, LeastNumber
<1>2. m # 1 /\ m - 1 \in 1..n - 1
  BY <1>1
<1>3. m - 1 \notin (1..n) \ S
  BY <1>1, <1>2
<1>4. m - 1 \in S /\ (m - 1) + 1 = m
  BY <1>1, <1>2, <1>3
<1>5. QED BY <1>1, <1>2, <1>4

(* A sequence of sequences, one after the other: the recursion of          *)
(* FlattenSeq has a solution, and what it computes holds the elements of   *)
(* all of them.                                                            *)
Upto(q, f, n) == [i \in 1..n |-> IF i = 1 THEN q[i] ELSE f[i - 1] \o q[i]]

LEMMA FlattenSolved ==
  ASSUME NEW S, NEW q \in Seq(Seq(S)), Len(q) > 0
  PROVE  \E f : f = Upto(q, f, Len(q))
<1> DEFINE T == {n \in 1..Len(q) : \E f : f = Upto(q, f, n)}
<1>1. Len(q) \in Nat
  OBVIOUS
<1>2. 1 \in T
  <2>1. [i \in 1..1 |-> q[1]] = Upto(q, [i \in 1..1 |-> q[1]], 1)
    BY DEF Upto
  <2>2. QED BY <1>1, <2>1
<1>3. ASSUME NEW n \in 1..Len(q) - 1, n \in T
      PROVE  n + 1 \in T
  <2>1. PICK f : f = Upto(q, f, n)
    BY <1>3
  <2> DEFINE g == [i \in 1..n + 1 |-> IF i <= n THEN f[i] ELSE f[n] \o q[n + 1]]
  <2>2. n \in Nat \ {0} /\ n + 1 \in 1..Len(q)
    BY <1>1
  <2>3. ASSUME NEW i \in 1..n + 1
        PROVE  g[i] = IF i = 1 THEN q[i] ELSE g[i - 1] \o q[i]
    <3>1. CASE i = n + 1
      <4>1. i - 1 = n /\ n \in 1..n + 1 /\ n <= n /\ ~(i <= n) /\ i # 1
        BY <2>2, <3>1
      <4>2. g[i] = f[n] \o q[i] /\ g[n] = f[n]
        BY <3>1, <4>1
      <4>3. QED BY <4>1, <4>2
    <3>2. CASE i # n + 1
      <4>1. i \in 1..n /\ g[i] = f[i]
        BY <2>2, <3>2
      <4>2. i # 1 => i - 1 \in 1..n /\ g[i - 1] = f[i - 1]
        BY <2>2, <4>1
      <4>3. f[i] = IF i = 1 THEN q[i] ELSE f[i - 1] \o q[i]
        BY <2>1, <4>1 DEF Upto
      <4>4. QED BY <4>1, <4>2, <4>3
    <3>3. QED BY <3>1, <3>2
  <2>4. g = Upto(q, g, n + 1)
    BY <2>3 DEF Upto
  <2>5. QED BY <2>2, <2>4
<1>4. 1..Len(q) \subseteq T
  <2>1. \A n \in 1..Len(q) - 1 : n \in T => n + 1 \in T
    BY <1>3
  <2> HIDE DEF T
  <2>2. QED BY <1>1, <1>2, <2>1, OneAfterOther
<1>5. Len(q) \in 1..Len(q)
  BY <1>1
<1>6. QED BY <1>4, <1>5

LEMMA JoinedElements ==
  ASSUME NEW S, NEW p \in Seq(S), NEW q \in Seq(S)
  PROVE  p \o q \in Seq(S) /\ ToSet(p \o q) = ToSet(p) \cup ToSet(q)
<1>1. p \o q \in Seq(S) /\ Len(p) \in Nat /\ Len(q) \in Nat /\ Len(p \o q) = Len(p) + Len(q)
  OBVIOUS
<1>2. \A i \in 1..Len(p) : i \in DOMAIN (p \o q) /\ (p \o q)[i] = p[i]
  BY <1>1
<1>3. \A i \in 1..Len(q) : Len(p) + i \in DOMAIN (p \o q) /\ (p \o q)[Len(p) + i] = q[i]
  BY <1>1
<1>4. \A i \in DOMAIN (p \o q) : i \in 1..Len(p) \/ (i - Len(p) \in 1..Len(q) /\ (p \o q)[i] = q[i - Len(p)])
  BY <1>1
<1>5. DOMAIN p = 1..Len(p) /\ DOMAIN q = 1..Len(q)
  OBVIOUS
<1>6. \A i \in DOMAIN (p \o q) : (p \o q)[i] \in ToSet(p) \cup ToSet(q)
  <2>1. \A i \in DOMAIN (p \o q) : i \in 1..Len(p) => (p \o q)[i] \in ToSet(p)
    BY <1>2, <1>5 DEF ToSet
  <2>2. \A i \in DOMAIN (p \o q) : i - Len(p) \in 1..Len(q) /\ (p \o q)[i] = q[i - Len(p)] => (p \o q)[i] \in ToSet(q)
    BY <1>5 DEF ToSet
  <2>3. QED BY <1>4, <2>1, <2>2
<1>7. \A x \in ToSet(p) : \E i \in DOMAIN (p \o q) : (p \o q)[i] = x
  BY <1>2, <1>5 DEF ToSet
<1>8. \A x \in ToSet(q) : \E i \in DOMAIN (p \o q) : (p \o q)[i] = x
  BY <1>3, <1>5 DEF ToSet
<1>9. ToSet(p \o q) = {(p \o q)[i] : i \in DOMAIN (p \o q)}
  BY DEF ToSet
<1>10. QED BY <1>1, <1>6, <1>7, <1>8, <1>9

LEMMA FlattenElements ==
  ASSUME NEW S, NEW q \in Seq(Seq(S))
  PROVE  FlattenSeq(q) \in Seq(S) /\ ToSet(FlattenSeq(q)) = UNION {ToSet(q[j]) : j \in DOMAIN q}
<1>1. Len(q) \in Nat /\ DOMAIN q = 1..Len(q) /\ \A i \in 1..Len(q) : q[i] \in Seq(S)
  OBVIOUS
<1>2. CASE Len(q) = 0
  <2>1. FlattenSeq(q) = q /\ q = << >>
    BY <1>2 DEF FlattenSeq
  <2>2. QED BY <1>1, <1>2, <2>1 DEF ToSet
<1>3. CASE Len(q) # 0
  <2> DEFINE F == CHOOSE f : f = Upto(q, f, Len(q))
             Joined(i) == F[i] \in Seq(S) /\ ToSet(F[i]) = UNION {ToSet(q[j]) : j \in 1..i}
             T == {i \in 1..Len(q) : Joined(i)}
  <2>1. FlattenSeq(q) = F[Len(q)]
    BY <1>3 DEF FlattenSeq, Upto
  <2>2. F = Upto(q, F, Len(q))
    BY <1>1, <1>3, FlattenSolved
  <2> HIDE DEF F
  <2>3. \A i \in 1..Len(q) : F[i] = IF i = 1 THEN q[i] ELSE F[i - 1] \o q[i]
    BY <2>2 DEF Upto
  <2>4. 1 \in T
    <3>1. 1 \in 1..Len(q) /\ F[1] = q[1] /\ 1..1 = {1}
      BY <1>1, <1>3, <2>3
    <3>2. QED BY <1>1, <3>1
  <2>5. ASSUME NEW n \in 1..Len(q) - 1, n \in T
        PROVE  n + 1 \in T
    <3>1. n + 1 \in 1..Len(q) /\ n + 1 # 1 /\ (n + 1) - 1 = n /\ 1..n + 1 = (1..n) \cup {n + 1}
      BY <1>1
    <3>2. F[n + 1] = F[n] \o q[n + 1]
      BY <2>3, <3>1
    <3>3. F[n] \in Seq(S) /\ ToSet(F[n]) = UNION {ToSet(q[j]) : j \in 1..n}
      BY <2>5
    <3>4. F[n + 1] \in Seq(S) /\ ToSet(F[n + 1]) = ToSet(F[n]) \cup ToSet(q[n + 1])
      BY <1>1, <3>1, <3>2, <3>3, JoinedElements
    <3>5. ToSet(F[n + 1]) = UNION {ToSet(q[j]) : j \in 1..n + 1}
      BY <3>1, <3>3, <3>4
    <3>6. QED BY <3>1, <3>4, <3>5
  <2>6. 1..Len(q) \subseteq T
    <3>1. \A n \in 1..Len(q) - 1 : n \in T => n + 1 \in T
      BY <2>5
    <3> HIDE DEF T
    <3>2. QED BY <1>1, <2>4, <3>1, OneAfterOther
  <2>7. Joined(Len(q))
    <3>1. Len(q) \in 1..Len(q)
      BY <1>1, <1>3
    <3>2. Len(q) \in T
      BY <2>6, <3>1
    <3>3. QED BY <3>2
  <2>8. QED BY <1>1, <2>1, <2>7
<1>4. QED BY <1>2, <1>3

(* The pages of a request are its blocks, each beside its posting. *)
LEMMA PagesShape ==
  ASSUME NEW req \in Seq(Seq(Blocks))
  PROVE  /\ PagesOf(req) \in Seq((DOMAIN req) \X Blocks)
         /\ \A p \in DOMAIN req :
              {PagesOf(req)[i][2] : i \in {j \in DOMAIN PagesOf(req) : PagesOf(req)[j][1] = p}} = ToSet(req[p])
<1> DEFINE q == [p \in DOMAIN req |-> [i \in DOMAIN req[p] |-> <<p, req[p][i]>>]]
           S == (DOMAIN req) \X Blocks
<1>1. DOMAIN req = 1..Len(req) /\ Len(req) \in Nat /\ \A p \in DOMAIN req : req[p] \in Seq(Blocks)
  OBVIOUS
<1>2. ASSUME NEW p \in DOMAIN req
      PROVE  q[p] \in Seq(S) /\ ToSet(q[p]) = {<<p, req[p][i]>> : i \in DOMAIN req[p]}
  <2>1. DOMAIN req[p] = 1..Len(req[p]) /\ Len(req[p]) \in Nat /\ \A i \in DOMAIN req[p] : req[p][i] \in Blocks
    BY <1>1
  <2>2. q[p] = [i \in 1..Len(req[p]) |-> <<p, req[p][i]>>]
    BY <2>1
  <2>3. q[p] \in Seq(S)
    BY <2>1, <2>2
  <2>4. QED BY <2>1, <2>2, <2>3 DEF ToSet
<1>3. q \in Seq(Seq(S)) /\ DOMAIN q = DOMAIN req
  BY <1>1, <1>2
<1>4. PagesOf(req) = FlattenSeq(q)
  BY DEF PagesOf
<1> HIDE DEF q
<1>5. PagesOf(req) \in Seq(S) /\ ToSet(PagesOf(req)) = UNION {ToSet(q[p]) : p \in DOMAIN req}
  BY <1>3, <1>4, FlattenElements
<1>6. ASSUME NEW p \in DOMAIN req
      PROVE  {PagesOf(req)[i][2] : i \in {j \in DOMAIN PagesOf(req) : PagesOf(req)[j][1] = p}} = ToSet(req[p])
  <2> DEFINE pages == PagesOf(req)
             J == {j \in DOMAIN pages : pages[j][1] = p}
  <2> HIDE DEF pages
  <2>0. ToSet(pages) = {pages[j] : j \in DOMAIN pages} /\ ToSet(req[p]) = {req[p][i] : i \in DOMAIN req[p]}
    BY DEF ToSet
  <2>1. ASSUME NEW j \in J
        PROVE  pages[j][2] \in ToSet(req[p])
    <3>1. pages[j] \in ToSet(pages)
      BY <2>0
    <3>2. PICK o \in DOMAIN req : pages[j] \in ToSet(q[o])
      BY <1>5, <3>1 DEF pages
    <3>3. PICK i \in DOMAIN req[o] : pages[j] = <<o, req[o][i]>>
      BY <1>2, <3>2
    <3>4. o = p
      BY <3>3
    <3>5. QED BY <2>0, <3>3, <3>4
  <2>2. ASSUME NEW b \in ToSet(req[p])
        PROVE  \E j \in J : pages[j][2] = b
    <3>1. PICK i \in DOMAIN req[p] : req[p][i] = b
      BY <2>0
    <3>2. <<p, b>> \in ToSet(q[p])
      BY <1>2, <3>1
    <3>3. <<p, b>> \in ToSet(pages)
      BY <1>5, <3>2 DEF pages
    <3>4. PICK j \in DOMAIN pages : pages[j] = <<p, b>>
      BY <2>0, <3>3
    <3>5. pages[j][1] = p /\ pages[j][2] = b
      BY <3>4
    <3>6. j \in J
      BY <3>4, <3>5
    <3>7. QED BY <3>5, <3>6
  <2>3. {pages[i][2] : i \in J} = ToSet(req[p])
    BY <2>1, <2>2
  <2>4. QED BY <2>3 DEF pages
<1>7. QED BY <1>5, <1>6

-----------------------------------------------------------------------------
(* The inductive invariant. *)
Data == {<< >>} \cup (Blocks \X (0..1))
Subs == [op : {"none", "batch", "get", "write"}, block : Blocks \cup {"none"}, page : Nat, data : Data]
Calls == [pc : {"new", "idle", "clear", "move", "done", "exit", "gone"}, op : {"none", "batch", "get", "write"},
          req : Seq(Seq(Blocks)), next : Nat \ {0}, start : Nat \ {0}, got : Seq(Data), wait : Nat, value : 0..1]

IoTyped ==
  /\ sub \in [Clients -> [Slots -> Subs]]
  /\ unused \in [Clients -> SUBSET Slots] /\ inFlight \in [Clients -> Nat]
  /\ submitted \in Seq(Clients \X Slots) /\ device \subseteq Clients \X Slots
  /\ completed \in [Clients -> Seq(Slots)]
  /\ ssd \in [inflight : Nat, at : {"off", "loop", "reactor", "stopped"}]
  /\ disk \in [Blocks -> 0..1]
  /\ call \in [Clients -> Calls]

(* The SPDK thread has what the device has, and each request once. *)
Queued ==
  /\ IsInjective(submitted) /\ device \cap ToSet(submitted) = {}
  /\ IsFiniteSet(device) /\ Cardinality(device) <= ssd.inflight

(* The requests of a client that are complete or on their way. *)
Answered(t) == ToSet(completed[t])
Open(t) == Underway(t) \cup Answered(t)
Apart(t) ==
  /\ IsInjective(completed[t])
  /\ Underway(t) \cap Answered(t) = {}
  /\ unused[t] \cap Open(t) = {}

(* A client knows how many of its requests are not unused.  One that       *)
(* updates leaves none behind: its calls do not give up.                   *)
Counted(t) ==
  LET c == call[t] IN
  /\ IF c.pc \in {"new", "gone"} THEN unused[t] = {} /\ inFlight[t] = 0
                                 ELSE Cardinality(unused[t]) + inFlight[t] + c.wait = Depth
  /\ Cardinality(Underway(t)) + Len(completed[t]) <= inFlight[t] + c.wait
  /\ c.wait > 0 => c.pc = "move" /\ c.op = "write"
  /\ c.op = "batch" => t \notin Writers
  /\ c.op = "write" => t \in Writers
  /\ t \in Writers /\ (c.pc # "move" \/ c.op = "write") => inFlight[t] = 0

(* A request on its way is of the call that waits for it, and a completed  *)
(* one has the block that was asked for.  What an earlier call left behind *)
(* is no write, and is cleared before the next one submits.                *)
Owned(t) ==
  LET c == call[t] IN
  /\ \A i \in Open(t) :
       /\ sub[t][i].block \in Blocks
       /\ c.pc # "move" => sub[t][i].op # "write"
       /\ c.pc = "move" => /\ sub[t][i].op = c.op
                           /\ sub[t][i].page \in DOMAIN Pages(t) /\ sub[t][i].block = Pages(t)[sub[t][i].page][2]
                           /\ c.op = "write" => sub[t][i].data = <<sub[t][i].block, c.value>>
  /\ \A i \in Answered(t) : sub[t][i].data # << >> /\ sub[t][i].data[1] = sub[t][i].block

(* A page that was copied for the caller is the one that was asked for. *)
Copied(t) ==
  LET c == call[t] IN
  c.pc \in {"clear", "move", "done"} =>
    /\ DOMAIN c.got = DOMAIN Pages(t)
    /\ \A i \in DOMAIN c.got : c.got[i] = << >> \/ c.got[i][1] = Pages(t)[i][2]

ClientSafe(t) == Apart(t) /\ Counted(t) /\ Owned(t) /\ Copied(t)
IoSafe == IoTyped /\ Queued /\ \A t \in Clients : ClientSafe(t)

(* One client that updates: each page of a write was written or is on its  *)
(* way, and a write that was answered is on the disk.                      *)
OneWriter == \A t, u \in Writers : t = u
Written(t) ==
  LET c == call[t]
      onDisk(i) == disk[Pages(t)[i][2]] = c.value IN
  c.op = "write" =>
    /\ c.pc \in {"move", "done"} /\ Len(c.req) = 1
    /\ c.pc = "done" => \A i \in DOMAIN Pages(t) : onDisk(i)
    /\ c.pc = "move" => \A i \in DOMAIN Pages(t) : i < c.next => onDisk(i) \/ \E k \in Slots \ unused[t] : sub[t][k].page = i
    /\ c.pc = "move" => \A k \in Answered(t) : onDisk(sub[t][k].page)
WriteSafe == IoSafe /\ \A t \in Clients : Written(t)

-----------------------------------------------------------------------------
(* Facts about queues. *)
LEMMA AppendedElements ==
  ASSUME NEW S, NEW q \in Seq(S), NEW x \in S
  PROVE  /\ Append(q, x) \in Seq(S) /\ Len(Append(q, x)) = Len(q) + 1 /\ Len(q) \in Nat
         /\ ToSet(Append(q, x)) = ToSet(q) \cup {x}
         /\ IsInjective(q) /\ x \notin ToSet(q) => IsInjective(Append(q, x))
<1> DEFINE a == Append(q, x)
           n == Len(q) + 1
<1>1. a \in Seq(S) /\ Len(q) \in Nat /\ Len(a) = n /\ DOMAIN q = 1..Len(q) /\ DOMAIN a = 1..n
  OBVIOUS
<1>2. \A i \in DOMAIN q : i \in DOMAIN a /\ i # n /\ a[i] = q[i]
  BY <1>1
<1>3. \A i \in DOMAIN a : i \in DOMAIN q \/ i = n
  BY <1>1
<1>4. n \in DOMAIN a /\ a[n] = x
  BY <1>1
<1>5. ToSet(a) = {a[i] : i \in DOMAIN a} /\ ToSet(q) = {q[i] : i \in DOMAIN q}
  BY DEF ToSet
<1> HIDE DEF a, n
<1>6. ToSet(a) = ToSet(q) \cup {x}
  BY <1>2, <1>3, <1>4, <1>5
<1>7. ASSUME IsInjective(q), x \notin ToSet(q)
      PROVE  IsInjective(a)
  BY <1>2, <1>3, <1>4, <1>5, <1>7 DEF IsInjective
<1>8. QED BY <1>1, <1>6, <1>7 DEF a, n

LEMMA TailElements ==
  ASSUME NEW S, NEW q \in Seq(S), q # << >>, IsInjective(q)
  PROVE  /\ Tail(q) \in Seq(S) /\ Len(Tail(q)) = Len(q) - 1 /\ Len(q) \in Nat
         /\ Head(q) \in S /\ Head(q) \in ToSet(q)
         /\ ToSet(Tail(q)) = ToSet(q) \ {Head(q)} /\ IsInjective(Tail(q))
<1> DEFINE r == Tail(q)
<1>1. r \in Seq(S) /\ Len(q) \in Nat /\ Len(r) = Len(q) - 1 /\ DOMAIN q = 1..Len(q) /\ DOMAIN r = 1..Len(q) - 1
      /\ Head(q) = q[1] /\ 1 \in DOMAIN q
  OBVIOUS
<1>2. \A i \in DOMAIN r : i + 1 \in DOMAIN q /\ i + 1 # 1 /\ r[i] = q[i + 1] /\ i \in Nat
  BY <1>1
<1>3. \A i \in DOMAIN q : i # 1 => i - 1 \in DOMAIN r /\ r[i - 1] = q[i]
  BY <1>1, <1>2
<1>4. \A i, j \in DOMAIN q : q[i] = q[j] => i = j
  BY DEF IsInjective
<1>5. ToSet(r) = {r[i] : i \in DOMAIN r} /\ ToSet(q) = {q[i] : i \in DOMAIN q}
  BY DEF ToSet
<1> HIDE DEF r
<1>6. \A i \in DOMAIN r : r[i] \in ToSet(q) \ {q[1]}
  BY <1>1, <1>2, <1>4, <1>5
<1>7. \A x \in ToSet(q) \ {q[1]} : x \in ToSet(r)
  BY <1>1, <1>3, <1>5
<1>8. ASSUME NEW i \in DOMAIN r, NEW j \in DOMAIN r, r[i] = r[j]
      PROVE  i = j
  <2>1. i + 1 = j + 1
    BY <1>2, <1>4, <1>8
  <2>2. QED BY <1>2, <2>1
<1>9. QED BY <1>1, <1>5, <1>6, <1>7, <1>8 DEF IsInjective, r

LEMMA EmptyQueue ==
  ASSUME NEW S, NEW q \in Seq(S), Len(q) = 0
  PROVE  ToSet(q) = {}
BY DEF ToSet

(* Facts about the slots of a client. *)
LEMMA SlotsFinite ==
  ASSUME IoAssumption
  PROVE  /\ IsFiniteSet(Slots) /\ Cardinality(Slots) = Depth
         /\ \A A \in SUBSET Slots : IsFiniteSet(A) /\ Cardinality(A) \in Nat /\ Cardinality(A) <= Depth
                                    /\ (Cardinality(A) = 0 => A = {}) /\ (Cardinality(A) = Depth => A = Slots)
         /\ \A A, B \in SUBSET Slots : A \subseteq B => Cardinality(A) <= Cardinality(B)
         /\ \A A \in SUBSET Slots : \A x \in A : Cardinality(A \ {x}) = Cardinality(A) - 1
         /\ \A A \in SUBSET Slots : \A x \in Slots \ A : Cardinality(A \cup {x}) = Cardinality(A) + 1
<1>1. IsFiniteSet(Slots) /\ Cardinality(Slots) = Depth
  <2>1. \A n \in Nat : IsFiniteSet(1..n) /\ Cardinality(1..n) = n
    BY FS_Interval
  <2>2. QED BY <2>1 DEF Slots, IoAssumption
<1>2. \A A \in SUBSET Slots : IsFiniteSet(A) /\ Cardinality(A) <= Depth /\ (Cardinality(A) = Depth => A = Slots)
  BY <1>1, FS_Subset
<1>3. \A A \in SUBSET Slots : Cardinality(A) \in Nat
  BY <1>2, FS_CardinalityType
<1>4. \A A \in SUBSET Slots : Cardinality(A) = 0 => A = {}
  BY <1>2, FS_EmptySet
<1>5. \A A, B \in SUBSET Slots : A \subseteq B => Cardinality(A) <= Cardinality(B)
  BY <1>2, FS_Subset
<1>6. \A A \in SUBSET Slots : \A x \in A : Cardinality(A \ {x}) = Cardinality(A) - 1
  BY <1>2, FS_RemoveElement
<1>7. \A A \in SUBSET Slots : \A x \in Slots \ A : Cardinality(A \cup {x}) = Cardinality(A) + 1
  BY <1>2, FS_AddElement
<1>8. QED BY <1>1, <1>2, <1>3, <1>4, <1>5, <1>6, <1>7

(* A client whose slots and call stay as they are, and of whose requests   *)
(* no new one is on its way, stays safe.                                   *)
LEMMA ClientStays ==
  ASSUME IoAssumption, NEW t \in Clients, ClientSafe(t),
         sub'[t] = sub[t], unused'[t] = unused[t], inFlight'[t] = inFlight[t], inFlight[t] \in Nat,
         completed'[t] = completed[t], completed[t] \in Seq(Slots), call'[t] = call[t], call[t].wait \in Nat,
         Underway(t)' \subseteq Underway(t)
  PROVE  ClientSafe(t)'
<1>1. Apart(t)'
  BY DEF ClientSafe, Apart, Open, Answered
<1>2. Counted(t)'
  <2>1. Underway(t) \in SUBSET Slots /\ Underway(t)' \in SUBSET Slots
    BY DEF Underway
  <2>2. Cardinality(Underway(t)') <= Cardinality(Underway(t)) /\ Cardinality(Underway(t)') \in Nat
        /\ Cardinality(Underway(t)) \in Nat
    BY <2>1, SlotsFinite
  <2>3. Cardinality(Underway(t)) + Len(completed[t]) <= inFlight[t] + call[t].wait
    BY DEF ClientSafe, Counted
  <2>4. Len(completed[t]) \in Nat
    OBVIOUS
  <2>5. Cardinality(Underway(t)') + Len(completed[t]) <= inFlight[t] + call[t].wait
    BY <2>2, <2>3, <2>4
  <2>6. QED BY <2>5 DEF ClientSafe, Counted
<1>3. Owned(t)'
  BY DEF ClientSafe, Owned, Open, Answered, Pages
<1>4. Copied(t)'
  BY DEF ClientSafe, Copied, Pages
<1>5. QED BY <1>1, <1>2, <1>3, <1>4 DEF ClientSafe

LEMMA NoneOpen ==
  ASSUME IoAssumption, IoTyped, NEW t \in Clients, ClientSafe(t), inFlight[t] = 0, call[t].wait = 0
  PROVE  Open(t) = {} /\ Underway(t) = {} /\ Answered(t) = {} /\ completed[t] = << >>
<1>1. Cardinality(Underway(t)) + Len(completed[t]) <= 0
  BY DEF ClientSafe, Counted
<1>2. completed[t] \in Seq(Slots) /\ Len(completed[t]) \in Nat
  BY DEF IoTyped
<1>3. Underway(t) \in SUBSET Slots
  BY DEF Underway
<1>4. Cardinality(Underway(t)) \in Nat /\ (Cardinality(Underway(t)) = 0 => Underway(t) = {})
  BY <1>3, SlotsFinite
<1>5. Cardinality(Underway(t)) = 0 /\ Len(completed[t]) = 0
  BY <1>1, <1>2, <1>4
<1>6. completed[t] = << >> /\ Answered(t) = {}
  BY <1>2, <1>5, EmptyQueue DEF Answered
<1>7. QED BY <1>4, <1>5, <1>6 DEF Open

(* What the types say of one client. *)
LEMMA ClientTyped ==
  ASSUME IoTyped, NEW t \in Clients
  PROVE  /\ call[t] \in Calls /\ sub[t] \in [Slots -> Subs] /\ unused[t] \in SUBSET Slots /\ inFlight[t] \in Nat
         /\ completed[t] \in Seq(Slots) /\ Len(completed[t]) \in Nat
         /\ call[t].req \in Seq(Seq(Blocks)) /\ call[t].next \in Nat \ {0} /\ call[t].start \in Nat \ {0}
         /\ call[t].got \in Seq(Data) /\ call[t].wait \in Nat /\ call[t].value \in 0..1
         /\ call[t].pc \in {"new", "idle", "clear", "move", "done", "exit", "gone"}
         /\ call[t].op \in {"none", "batch", "get", "write"}
         /\ Underway(t) \in SUBSET Slots /\ Answered(t) \in SUBSET Slots
<1>1. call[t] \in Calls /\ sub[t] \in [Slots -> Subs] /\ unused[t] \in SUBSET Slots /\ inFlight[t] \in Nat
      /\ completed[t] \in Seq(Slots) /\ Len(completed[t]) \in Nat
  BY DEF IoTyped
<1>2. Underway(t) \in SUBSET Slots /\ Answered(t) \in SUBSET Slots
  BY <1>1 DEF Underway, Answered, ToSet
<1>3. QED BY <1>1, <1>2 DEF Calls

LEMMA PagesTyped ==
  ASSUME IoTyped, NEW t \in Clients
  PROVE  /\ DOMAIN Pages(t) = 1..Len(Pages(t)) /\ Len(Pages(t)) \in Nat
         /\ \A i \in DOMAIN Pages(t) : Pages(t)[i][2] \in Blocks /\ Pages(t)[i][1] \in DOMAIN call[t].req
         /\ \A p \in DOMAIN call[t].req :
              {Pages(t)[i][2] : i \in {j \in DOMAIN Pages(t) : Pages(t)[j][1] = p}} = ToSet(call[t].req[p])
<1>1. call[t].req \in Seq(Seq(Blocks))
  BY ClientTyped
<1>2. PagesOf(call[t].req) \in Seq((DOMAIN call[t].req) \X Blocks)
      /\ \A p \in DOMAIN call[t].req :
           {PagesOf(call[t].req)[i][2] : i \in {j \in DOMAIN PagesOf(call[t].req) : PagesOf(call[t].req)[j][1] = p}}
           = ToSet(call[t].req[p])
  BY <1>1, PagesShape
<1>3. Pages(t) \in Seq((DOMAIN call[t].req) \X Blocks)
  BY <1>2 DEF Pages
<1>4. \A i \in DOMAIN Pages(t) : Pages(t)[i] \in (DOMAIN call[t].req) \X Blocks
  BY <1>3
<1>5. DOMAIN Pages(t) = 1..Len(Pages(t)) /\ Len(Pages(t)) \in Nat
  BY <1>3
<1>6. QED BY <1>2, <1>4, <1>5 DEF Pages

(* A step that changes only the call of one client. *)
LEMMA OnlyCall ==
  ASSUME IoAssumption, IoSafe, NEW t \in Clients, UNCHANGED <<sub, unused, inFlight, submitted, device, completed, disk>>,
         NEW c \in Calls, call' = [call EXCEPT ![t] = c], Counted(t)', Owned(t)', Copied(t)',
         ssd' \in [inflight : Nat, at : {"off", "loop", "reactor", "stopped"}], ssd'.inflight = ssd.inflight
  PROVE  IoSafe'
<1>1. IoTyped'
  BY DEF IoSafe, IoTyped
<1>2. Queued'
  BY DEF IoSafe, Queued
<1>3. \A u \in Clients : Underway(u)' = Underway(u)
  BY DEF Underway
<1>4. ASSUME NEW u \in Clients
      PROVE  ClientSafe(u)'
  <2>1. CASE u = t
    BY <1>3, <2>1 DEF IoSafe, ClientSafe, Apart, Open, Answered
  <2>2. CASE u # t
    <3>1. call'[u] = call[u] /\ sub'[u] = sub[u] /\ unused'[u] = unused[u] /\ inFlight'[u] = inFlight[u]
          /\ completed'[u] = completed[u] /\ Underway(u)' \subseteq Underway(u)
      BY <1>3, <2>2 DEF IoSafe, IoTyped
    <3>2. inFlight[u] \in Nat /\ completed[u] \in Seq(Slots) /\ call[u].wait \in Nat /\ ClientSafe(u)
      BY ClientTyped DEF IoSafe
    <3>3. QED BY <3>1, <3>2, ClientStays
  <2>3. QED BY <2>1, <2>2
<1>5. QED BY <1>1, <1>2, <1>4 DEF IoSafe

(* A request that is complete is recycled. *)
LEMMA Recycled ==
  ASSUME IoAssumption, IoSafe, NEW t \in Clients, completed[t] # << >>, Recycle(t, Head(completed[t])),
         UNCHANGED <<submitted, device>>
  PROVE  LET k == Head(completed[t]) IN
         /\ k \in Answered(t) /\ k \in Slots
         /\ sub' \in [Clients -> [Slots -> Subs]] /\ unused' \in [Clients -> SUBSET Slots] /\ completed' \in [Clients -> Seq(Slots)]
         /\ \A u \in Clients \ {t} : sub'[u] = sub[u] /\ unused'[u] = unused[u] /\ completed'[u] = completed[u]
         /\ \A u \in Clients : Underway(u)' = Underway(u)
         /\ unused'[t] = unused[t] \cup {k}
         /\ Cardinality(unused'[t]) = Cardinality(unused[t]) + 1
         /\ Len(completed'[t]) = Len(completed[t]) - 1 /\ Len(completed[t]) >= 1
         /\ Open(t)' = Open(t) \ {k} /\ Answered(t)' = Answered(t) \ {k}
         /\ \A i \in Slots \ {k} : sub'[t][i] = sub[t][i]
         /\ Apart(t)'
<1> DEFINE k == Head(completed[t])
<1>1. Apart(t) /\ completed[t] \in Seq(Slots) /\ unused[t] \in SUBSET Slots
  BY ClientTyped DEF IoSafe, ClientSafe
<1>2. /\ Tail(completed[t]) \in Seq(Slots) /\ Len(Tail(completed[t])) = Len(completed[t]) - 1 /\ Len(completed[t]) \in Nat
      /\ k \in Slots /\ k \in Answered(t)
      /\ ToSet(Tail(completed[t])) = Answered(t) \ {k} /\ IsInjective(Tail(completed[t]))
  BY <1>1, TailElements DEF Apart, Answered
<1>3. sub \in [Clients -> [Slots -> Subs]] /\ unused \in [Clients -> SUBSET Slots] /\ completed \in [Clients -> Seq(Slots)]
  BY DEF IoSafe, IoTyped
<1>4. completed' = [completed EXCEPT ![t] = Tail(@)] /\ unused' = [unused EXCEPT ![t] = @ \cup {k}]
      /\ sub' = [sub EXCEPT ![t][k] = Nothing]
  BY DEF Recycle
<1> HIDE DEF k
<1>5. Nothing \in Subs
  BY DEF Nothing, Subs, Data
<1>6. sub' \in [Clients -> [Slots -> Subs]] /\ unused' \in [Clients -> SUBSET Slots] /\ completed' \in [Clients -> Seq(Slots)]
  BY <1>2, <1>3, <1>4, <1>5
<1>7. \A u \in Clients \ {t} : sub'[u] = sub[u] /\ unused'[u] = unused[u] /\ completed'[u] = completed[u]
  BY <1>3, <1>4
<1>8. completed'[t] = Tail(completed[t]) /\ unused'[t] = unused[t] \cup {k} /\ \A i \in Slots \ {k} : sub'[t][i] = sub[t][i]
  BY <1>3, <1>4
<1>9. k \notin unused[t] /\ k \notin Underway(t)
  BY <1>1, <1>2 DEF Apart, Open
<1>10. Cardinality(unused'[t]) = Cardinality(unused[t]) + 1
  BY <1>1, <1>2, <1>8, <1>9, SlotsFinite
<1>11. \A u \in Clients : Underway(u)' = Underway(u)
  BY DEF Underway
<1>12. Answered(t)' = Answered(t) \ {k} /\ Open(t)' = Open(t) \ {k}
  BY <1>2, <1>8, <1>9, <1>11 DEF Answered, Open
<1>13. Apart(t)'
  BY <1>1, <1>2, <1>8, <1>11, <1>12 DEF Apart
<1>14. Len(completed'[t]) = Len(completed[t]) - 1 /\ Len(completed[t]) >= 1
  BY <1>1, <1>2, <1>8
<1>15. QED BY <1>2, <1>6, <1>7, <1>8, <1>10, <1>11, <1>12, <1>13, <1>14 DEF k

-----------------------------------------------------------------------------
(* The steps of a client. *)
LEMMA SafeInitialize ==
  ASSUME IoAssumption, IoSafe, NEW t \in Clients, Initialize(t)
  PROVE  IoSafe'
<1>1. call[t].pc = "new" /\ call[t] \in Calls /\ ClientSafe(t) /\ call[t].wait \in Nat /\ inFlight[t] \in Nat
  BY ClientTyped DEF Initialize, At, IoSafe
<1>2. inFlight[t] = 0 /\ call[t].wait = 0
  BY <1>1 DEF ClientSafe, Counted
<1>3. Open(t) = {} /\ Underway(t) = {} /\ Answered(t) = {} /\ completed[t] = << >>
  BY <1>1, <1>2, NoneOpen DEF IoSafe
<1>4. call' = [call EXCEPT ![t].pc = "idle"] /\ unused' = [unused EXCEPT ![t] = Slots]
      /\ UNCHANGED <<sub, inFlight, submitted, device, completed, disk>>
      /\ ssd' = IF ssd.at = "off" THEN [ssd EXCEPT !.at = "loop"] ELSE ssd
  BY DEF Initialize
<1>5. ssd' \in [inflight : Nat, at : {"off", "loop", "reactor", "stopped"}] /\ ssd'.inflight = ssd.inflight
  BY <1>4 DEF IoSafe, IoTyped
<1>6. [call[t] EXCEPT !.pc = "idle"] \in Calls
  BY <1>1 DEF Calls
<1>7. IoTyped'
  BY <1>4, <1>5, <1>6 DEF IoSafe, IoTyped
<1>8. /\ call'[t].pc = "idle" /\ call'[t].op = call[t].op /\ call'[t].wait = call[t].wait /\ unused'[t] = Slots
      /\ \A u \in Clients \ {t} : call'[u] = call[u] /\ unused'[u] = unused[u]
  BY <1>1, <1>4 DEF IoSafe, IoTyped, Calls
<1>9. Queued'
  BY <1>4, <1>5 DEF IoSafe, Queued
<1>10. \A u \in Clients : Underway(u)' = Underway(u)
  BY <1>4 DEF Underway
<1>11. ClientSafe(t)'
  <2>1. Apart(t)'
    BY <1>1, <1>3, <1>4, <1>10 DEF ClientSafe, Apart, Open, Answered
  <2>2. Cardinality(Slots) + 0 + 0 = Depth
    BY SlotsFinite DEF IoAssumption
  <2>3. Counted(t)'
    BY <1>1, <1>2, <1>4, <1>8, <1>10, <2>2 DEF ClientSafe, Counted
  <2>4. Owned(t)' /\ Copied(t)'
    BY <1>3, <1>4, <1>8, <1>10 DEF Owned, Copied, Open, Answered
  <2>5. QED BY <2>1, <2>3, <2>4 DEF ClientSafe
<1>12. ASSUME NEW u \in Clients \ {t}
       PROVE  ClientSafe(u)'
  <2>1. inFlight[u] \in Nat /\ completed[u] \in Seq(Slots) /\ call[u].wait \in Nat /\ ClientSafe(u)
    BY ClientTyped DEF IoSafe
  <2>2. QED BY <1>4, <1>8, <1>10, <2>1, ClientStays
<1>13. QED BY <1>7, <1>9, <1>11, <1>12 DEF IoSafe

(* What a client asks for. *)
Asked(t, o, req, v) ==
  /\ req \in Seq(Seq(Blocks)) /\ v \in 0..1
  /\ o \in {"batch", "get", "write"} /\ (o = "batch" <=> t \in Readers)
  /\ o = "write" => t \in Writers /\ Len(req) = 1

Started(p, o, r, v, g) == [NoCall EXCEPT !.pc = p, !.op = o, !.req = r, !.value = v, !.got = g]

LEMMA CallStarted ==
  ASSUME NEW p \in {"clear", "move"}, NEW o \in {"batch", "get", "write"}, NEW r \in Seq(Seq(Blocks)),
         NEW v \in 0..1, NEW g \in Seq(Data)
  PROVE  LET c == Started(p, o, r, v, g) IN
         c \in Calls /\ c.pc = p /\ c.op = o /\ c.req = r /\ c.value = v /\ c.got = g /\ c.wait = 0 /\ c.next = 1
<1> DEFINE c == Started(p, o, r, v, g)
<1>1. /\ c.pc = p /\ c.op = o /\ c.req = r /\ c.next = 1 /\ c.start = 1 /\ c.got = g /\ c.wait = 0 /\ c.value = v
      /\ DOMAIN c = {"pc", "op", "req", "next", "start", "got", "wait", "value"} /\ c = [x \in DOMAIN c |-> c[x]]
  BY DEF Started, NoCall
<1> HIDE DEF c
<1>2. c = [pc |-> p, op |-> o, req |-> r, next |-> 1, start |-> 1, got |-> g, wait |-> 0, value |-> v]
  BY <1>1
<1>3. c \in Calls
  BY <1>2 DEF Calls
<1>4. QED BY <1>1, <1>3 DEF c

LEMMA SafeCall ==
  ASSUME IoAssumption, IoSafe, NEW t \in Clients, NEW o, NEW req, NEW v, Asked(t, o, req, v), Call(t, o, req, v)
  PROVE  IoSafe'
<1> DEFINE first == IF o = "write" THEN "move" ELSE "clear"
           none == [i \in DOMAIN PagesOf(req) |-> << >>]
           c == [NoCall EXCEPT !.pc = first, !.op = o, !.req = req, !.value = v, !.got = none]
<1>1. call[t].pc = "idle" /\ ClientSafe(t) /\ call[t].wait \in Nat /\ inFlight[t] \in Nat
  BY ClientTyped DEF Call, At, IoSafe
<1>2. call' = [call EXCEPT ![t] = c] /\ UNCHANGED <<sub, unused, inFlight, submitted, device, completed, ssd, disk>>
  BY DEF Call
<1>3. PagesOf(req) \in Seq((DOMAIN req) \X Blocks)
  BY PagesShape DEF Asked
<1>4. [i \in DOMAIN PagesOf(req) |-> << >>] \in Seq(Data)
  <2>1. DOMAIN PagesOf(req) = 1..Len(PagesOf(req)) /\ Len(PagesOf(req)) \in Nat
    BY <1>3
  <2>2. [i \in 1..Len(PagesOf(req)) |-> << >>] \in Seq(Data)
    BY <2>1 DEF Data
  <2>3. QED BY <2>1, <2>2
<1>5. c = Started(first, o, req, v, none) /\ first \in {"clear", "move"} /\ none \in Seq(Data)
      /\ o \in {"batch", "get", "write"} /\ req \in Seq(Seq(Blocks)) /\ v \in 0..1
  BY <1>4 DEF Started, Asked
<1> HIDE DEF c, none
<1>6. c \in Calls /\ c.pc = first /\ c.op = o /\ c.req = req /\ c.value = v /\ c.got = none /\ c.wait = 0
  <2> HIDE DEF first
  <2>1. QED BY <1>5, CallStarted
<1>7. call'[t] = c
  BY <1>2 DEF IoSafe, IoTyped
<1>8. call[t].wait = 0 /\ (t \in Writers => inFlight[t] = 0)
  BY <1>1 DEF ClientSafe, Counted
<1>9. Underway(t)' = Underway(t)
  BY <1>2 DEF Underway
<1>10. Counted(t)'
  <2>1. o = "batch" => t \notin Writers
    BY DEF Asked, IoAssumption
  <2>2. o = "write" => t \in Writers
    BY DEF Asked
  <2>3. QED BY <1>1, <1>2, <1>6, <1>7, <1>8, <1>9, <2>1, <2>2 DEF ClientSafe, Counted
<1>11. Owned(t)'
  <2>1. CASE o = "write"
    <3>1. Open(t) = {} /\ Answered(t) = {}
      BY <1>1, <1>8, <2>1, NoneOpen DEF IoSafe, Asked
    <3>2. QED BY <1>2, <1>9, <3>1 DEF Owned, Open, Answered
  <2>2. CASE o # "write"
    BY <1>1, <1>2, <1>6, <1>7, <1>9, <2>2 DEF ClientSafe, Owned, Open, Answered
  <2>3. QED BY <2>1, <2>2
<1>12. Copied(t)'
  BY <1>6, <1>7 DEF Copied, Pages, none
<1>13. QED BY <1>2, <1>6, <1>10, <1>11, <1>12, OnlyCall DEF IoSafe, IoTyped

(* A request is cleared for a call or for the end of the thread. *)
LEMMA SafeCleared ==
  ASSUME IoAssumption, IoSafe, NEW t \in Clients, call[t].pc \in {"clear", "exit"},
         inFlight[t] > 0, completed[t] # << >>, Recycle(t, Head(completed[t])),
         inFlight' = [inFlight EXCEPT ![t] = @ - 1], UNCHANGED <<call, submitted, device, ssd, disk>>
  PROVE  IoSafe'
<1> DEFINE k == Head(completed[t])
<1>1. ClientSafe(t) /\ inFlight[t] \in Nat /\ completed[t] \in Seq(Slots) /\ Len(completed[t]) \in Nat /\ call[t].wait \in Nat
      /\ unused[t] \in SUBSET Slots
  BY ClientTyped DEF IoSafe
<1>2. /\ sub' \in [Clients -> [Slots -> Subs]] /\ unused' \in [Clients -> SUBSET Slots] /\ completed' \in [Clients -> Seq(Slots)]
      /\ \A u \in Clients \ {t} : sub'[u] = sub[u] /\ unused'[u] = unused[u] /\ completed'[u] = completed[u]
      /\ \A u \in Clients : Underway(u)' = Underway(u)
      /\ Cardinality(unused'[t]) = Cardinality(unused[t]) + 1
      /\ Len(completed'[t]) = Len(completed[t]) - 1 /\ Len(completed[t]) >= 1
      /\ Open(t)' = Open(t) \ {k} /\ Answered(t)' = Answered(t) \ {k} /\ Open(t) \subseteq Slots
      /\ \A i \in Slots \ {k} : sub'[t][i] = sub[t][i]
      /\ Apart(t)'
  BY Recycled, ClientTyped DEF IoSafe, Open
<1>3. inFlight'[t] = inFlight[t] - 1 /\ inFlight' \in [Clients -> Nat] /\ \A u \in Clients \ {t} : inFlight'[u] = inFlight[u]
  BY <1>1 DEF IoSafe, IoTyped
<1>4. IoTyped'
  BY <1>2, <1>3 DEF IoSafe, IoTyped
<1>5. Queued'
  BY DEF IoSafe, Queued
<1> HIDE DEF k
<1>6. Counted(t)'
  <2>1. call[t].wait = 0 /\ ~(t \in Writers)
    BY <1>1 DEF ClientSafe, Counted
  <2>2. Cardinality(unused[t]) \in Nat /\ Cardinality(Underway(t)) \in Nat
    BY <1>1, SlotsFinite, ClientTyped DEF IoSafe
  <2>3. Cardinality(unused[t]) + inFlight[t] + call[t].wait = Depth
        /\ Cardinality(Underway(t)) + Len(completed[t]) <= inFlight[t] + call[t].wait
    BY <1>1 DEF ClientSafe, Counted
  <2>4. Cardinality(unused'[t]) + inFlight'[t] + call[t].wait = Depth
        /\ Cardinality(Underway(t)) + Len(completed'[t]) <= inFlight'[t] + call[t].wait
    <3>1. Cardinality(unused'[t]) = Cardinality(unused[t]) + 1 /\ Len(completed'[t]) = Len(completed[t]) - 1
          /\ inFlight'[t] = inFlight[t] - 1
      BY <1>2, <1>3
    <3>2. inFlight[t] \in Nat /\ Len(completed[t]) \in Nat
      BY <1>1
    <3>3. QED BY <2>1, <2>2, <2>3, <3>1, <3>2
  <2>5. QED BY <1>1, <1>2, <2>1, <2>4 DEF ClientSafe, Counted
<1>7. Owned(t)'
  <2>1. \A i \in Open(t)' : i \in Open(t) /\ sub'[t][i] = sub[t][i]
    BY <1>2
  <2>2. \A i \in Answered(t)' : i \in Answered(t) /\ sub'[t][i] = sub[t][i]
    BY <1>2 DEF Open
  <2>3. call'[t] = call[t] /\ call[t].pc # "move"
    OBVIOUS
  <2>4. QED BY <1>1, <2>1, <2>2, <2>3 DEF ClientSafe, Owned
<1>8. Copied(t)'
  BY <1>1 DEF ClientSafe, Copied, Pages
<1>9. ASSUME NEW u \in Clients \ {t}
      PROVE  ClientSafe(u)'
  <2>1. inFlight[u] \in Nat /\ completed[u] \in Seq(Slots) /\ call[u].wait \in Nat /\ ClientSafe(u)
    BY ClientTyped DEF IoSafe
  <2>2. QED BY <1>2, <1>3, <2>1, ClientStays
<1>10. QED BY <1>2, <1>4, <1>5, <1>6, <1>7, <1>8, <1>9 DEF IoSafe, ClientSafe

LEMMA SafeClear ==
  ASSUME IoAssumption, IoSafe, NEW t \in Clients, Clear(t)
  PROVE  IoSafe'
<1>1. call[t].pc = "clear" /\ ClientSafe(t) /\ call[t] \in Calls /\ inFlight[t] \in Nat
  BY ClientTyped DEF Clear, At, IoSafe
<1>2. CASE inFlight[t] > 0
  BY <1>1, <1>2, SafeCleared DEF Clear
<1>3. CASE ~(inFlight[t] > 0)
  <2> DEFINE c == [call[t] EXCEPT !.pc = "move"]
  <2>1. call' = [call EXCEPT ![t] = c] /\ UNCHANGED <<sub, unused, inFlight, submitted, device, completed, ssd, disk>>
    BY <1>3 DEF Clear
  <2>2. c \in Calls /\ c.pc = "move" /\ c.op = call[t].op /\ c.req = call[t].req /\ c.got = call[t].got
        /\ c.wait = call[t].wait /\ c.value = call[t].value
    BY <1>1 DEF Calls
  <2> HIDE DEF c
  <2>3. call'[t] = c
    BY <2>1 DEF IoSafe, IoTyped
  <2>4. inFlight[t] = 0
    BY <1>1, <1>3
  <2>5. call[t].wait = 0
    BY <1>1, ClientTyped DEF ClientSafe, Counted, IoSafe
  <2>6. Open(t) = {} /\ Answered(t) = {} /\ Underway(t)' = Underway(t)
    BY <1>1, <2>1, <2>4, <2>5, NoneOpen DEF IoSafe, Underway
  <2>7. Counted(t)'
    BY <1>1, <2>1, <2>2, <2>3, <2>4, <2>5, <2>6 DEF ClientSafe, Counted
  <2>8. Owned(t)'
    BY <2>1, <2>6 DEF Owned, Open, Answered
  <2>9. Copied(t)'
    BY <1>1, <2>2, <2>3 DEF ClientSafe, Copied, Pages
  <2>10. QED BY <2>1, <2>2, <2>7, <2>8, <2>9, OnlyCall DEF IoSafe, IoTyped
<1>4. QED BY <1>2, <1>3

LEMMA SafeExitClear ==
  ASSUME IoAssumption, IoSafe, NEW t \in Clients, ExitClear(t)
  PROVE  IoSafe'
<1>1. call[t].pc = "exit" /\ ClientSafe(t) /\ call[t] \in Calls /\ inFlight[t] \in Nat
  BY ClientTyped DEF ExitClear, At, IoSafe
<1>2. CASE inFlight[t] > 0
  BY <1>1, <1>2, SafeCleared DEF ExitClear
<1>3. CASE ~(inFlight[t] > 0)
  <2> DEFINE c == [call[t] EXCEPT !.pc = "gone"]
  <2>1. call' = [call EXCEPT ![t] = c] /\ unused' = [unused EXCEPT ![t] = {}]
        /\ UNCHANGED <<sub, inFlight, submitted, device, completed, ssd, disk>>
    BY <1>3 DEF ExitClear
  <2>2. c \in Calls /\ c.pc = "gone" /\ c.op = call[t].op /\ c.wait = call[t].wait
    BY <1>1 DEF Calls
  <2> HIDE DEF c
  <2>3. call'[t] = c /\ unused'[t] = {} /\ \A u \in Clients \ {t} : call'[u] = call[u] /\ unused'[u] = unused[u]
    BY <2>1 DEF IoSafe, IoTyped
  <2>4. inFlight[t] = 0
    BY <1>1, <1>3
  <2>5. call[t].wait = 0
    BY <1>1, ClientTyped DEF ClientSafe, Counted, IoSafe
  <2>6. Open(t) = {} /\ Answered(t) = {} /\ Underway(t) = {}
    BY <1>1, <2>4, <2>5, NoneOpen DEF IoSafe
  <2>7. \A u \in Clients : Underway(u)' = Underway(u)
    BY <2>1 DEF Underway
  <2>8. IoTyped'
    BY <2>1, <2>2 DEF IoSafe, IoTyped
  <2>9. Queued'
    BY <2>1 DEF IoSafe, Queued
  <2>10. ClientSafe(t)'
    <3>1. Apart(t)'
      BY <1>1, <2>1, <2>3, <2>7 DEF ClientSafe, Apart, Open, Answered
    <3>2. Counted(t)'
      BY <1>1, <2>1, <2>2, <2>3, <2>4, <2>5, <2>7 DEF ClientSafe, Counted
    <3>3. Owned(t)' /\ Copied(t)'
      BY <2>1, <2>2, <2>3, <2>6, <2>7 DEF Owned, Copied, Open, Answered
    <3>4. QED BY <3>1, <3>2, <3>3 DEF ClientSafe
  <2>11. ASSUME NEW u \in Clients \ {t}
         PROVE  ClientSafe(u)'
    <3>1. inFlight[u] \in Nat /\ completed[u] \in Seq(Slots) /\ call[u].wait \in Nat /\ ClientSafe(u)
      BY ClientTyped DEF IoSafe
    <3>2. QED BY <2>1, <2>3, <2>7, <3>1, ClientStays
  <2>12. QED BY <2>8, <2>9, <2>10, <2>11 DEF IoSafe
<1>4. QED BY <1>2, <1>3

LEMMA SafeFinish ==
  ASSUME IoAssumption, IoSafe, NEW t \in Clients, Finish(t)
  PROVE  IoSafe'
<1> DEFINE c == IF call[t].next > Len(Pages(t)) THEN [call[t] EXCEPT !.pc = "done"]
                                                ELSE [call[t] EXCEPT !.start = @ + Batch]
<1>1. call[t].pc = "move" /\ ClientSafe(t) /\ call[t] \in Calls /\ inFlight[t] \in Nat /\ call[t].wait \in Nat /\ Waiting(t) = 0
  BY ClientTyped DEF Finish, At, IoSafe
<1>2. call' = [call EXCEPT ![t] = c] /\ UNCHANGED <<sub, unused, inFlight, submitted, device, completed, ssd, disk>>
  <2>1. CASE call[t].next > Len(Pages(t))
    BY <2>1 DEF Finish
  <2>2. CASE ~(call[t].next > Len(Pages(t)))
    BY <2>2 DEF Finish
  <2>3. QED BY <2>1, <2>2
<1>3. /\ c \in Calls /\ c.pc \in {"move", "done"} /\ c.op = call[t].op /\ c.req = call[t].req /\ c.got = call[t].got
      /\ c.wait = call[t].wait /\ c.value = call[t].value
  <2>1. call[t].start + Batch \in Nat \ {0}
    BY <1>1 DEF Calls, IoAssumption
  <2>2. QED BY <1>1, <2>1 DEF Calls
<1> HIDE DEF c
<1>4. call'[t] = c
  BY <1>2 DEF IoSafe, IoTyped
<1>5. call[t].wait = 0 /\ (t \in Writers => inFlight[t] = 0)
  BY <1>1 DEF Waiting, ClientSafe, Counted
<1>6. Underway(t)' = Underway(t)
  BY <1>2 DEF Underway
<1>7. Counted(t)'
  <2>1. c.pc \notin {"new", "gone"} /\ Cardinality(unused[t]) + inFlight[t] + call[t].wait = Depth
        /\ Cardinality(Underway(t)) + Len(completed[t]) <= inFlight[t] + call[t].wait
        /\ (c.op = "batch" => t \notin Writers) /\ (c.op = "write" => t \in Writers)
    BY <1>1, <1>3 DEF ClientSafe, Counted
  <2>2. ~(c.wait > 0)
    BY <1>3, <1>5
  <2>3. QED BY <1>2, <1>3, <1>4, <1>5, <1>6, <2>1, <2>2 DEF Counted
<1>8. Owned(t)'
  <2>1. CASE c.op = "write"
    <3>1. t \in Writers
      BY <1>1, <1>3, <2>1 DEF ClientSafe, Counted
    <3>2. Open(t) = {} /\ Answered(t) = {}
      BY <1>1, <1>5, <3>1, NoneOpen DEF IoSafe
    <3>3. QED BY <1>2, <1>6, <3>2 DEF Owned, Open, Answered
  <2>2. CASE c.op # "write"
    BY <1>1, <1>2, <1>3, <1>4, <1>6, <2>2 DEF ClientSafe, Owned, Open, Answered, Pages
  <2>3. QED BY <2>1, <2>2
<1>9. Copied(t)'
  BY <1>1, <1>3, <1>4 DEF ClientSafe, Copied, Pages
<1>10. QED BY <1>2, <1>3, <1>7, <1>8, <1>9, OnlyCall DEF IoSafe, IoTyped

LEMMA SafeTimeout ==
  ASSUME IoAssumption, IoSafe, NEW t \in Clients, Timeout(t)
  PROVE  IoSafe'
<1> DEFINE c == [call[t] EXCEPT !.pc = "done"]
<1>1. call[t].pc = "move" /\ call[t].op = "batch" /\ ClientSafe(t) /\ call[t] \in Calls /\ inFlight[t] \in Nat /\ call[t].wait \in Nat
  BY ClientTyped DEF Timeout, At, IoSafe
<1>2. call' = [call EXCEPT ![t] = c] /\ UNCHANGED <<sub, unused, inFlight, submitted, device, completed, ssd, disk>>
  BY DEF Timeout
<1>3. /\ c \in Calls /\ c.pc = "done" /\ c.op = "batch" /\ c.req = call[t].req /\ c.got = call[t].got
      /\ c.wait = call[t].wait /\ c.value = call[t].value
  BY <1>1 DEF Calls
<1> HIDE DEF c
<1>4. call'[t] = c
  BY <1>2 DEF IoSafe, IoTyped
<1>5. call[t].wait = 0 /\ ~(t \in Writers)
  BY <1>1 DEF ClientSafe, Counted
<1>6. Underway(t)' = Underway(t)
  BY <1>2 DEF Underway
<1>7. Counted(t)'
  BY <1>1, <1>2, <1>3, <1>4, <1>5, <1>6 DEF ClientSafe, Counted
<1>8. Owned(t)'
  BY <1>1, <1>2, <1>3, <1>4, <1>6 DEF ClientSafe, Owned, Open, Answered, Pages
<1>9. Copied(t)'
  BY <1>1, <1>3, <1>4 DEF ClientSafe, Copied, Pages
<1>10. QED BY <1>2, <1>3, <1>7, <1>8, <1>9, OnlyCall DEF IoSafe, IoTyped

LEMMA SafeReturn ==
  ASSUME IoAssumption, IoSafe, NEW t \in Clients, Return(t)
  PROVE  IoSafe'
<1>1. call[t].pc = "done" /\ ClientSafe(t) /\ call[t] \in Calls /\ inFlight[t] \in Nat /\ call[t].wait \in Nat
  BY ClientTyped DEF Return, At, IoSafe
<1>2. call' = [call EXCEPT ![t] = NoCall] /\ UNCHANGED <<sub, unused, inFlight, submitted, device, completed, ssd, disk>>
  BY DEF Return
<1>3. NoCall \in Calls /\ NoCall.pc = "idle" /\ NoCall.op = "none" /\ NoCall.wait = 0
  <2>1. << >> \in Seq(Seq(Blocks)) /\ << >> \in Seq(Data) /\ 0 \in Nat /\ 1 \in Nat \ {0} /\ 0 \in 0..1
    OBVIOUS
  <2>2. QED BY <2>1 DEF NoCall, Calls
<1>4. call'[t] = NoCall
  BY <1>2 DEF IoSafe, IoTyped
<1>5. call[t].wait = 0 /\ (t \in Writers => inFlight[t] = 0)
  BY <1>1 DEF ClientSafe, Counted
<1>6. Underway(t)' = Underway(t)
  BY <1>2 DEF Underway
<1>7. Counted(t)'
  BY <1>1, <1>2, <1>3, <1>4, <1>5, <1>6 DEF ClientSafe, Counted
<1>8. Owned(t)'
  BY <1>1, <1>2, <1>3, <1>4, <1>6 DEF ClientSafe, Owned, Open, Answered
<1>9. Copied(t)'
  BY <1>3, <1>4 DEF Copied
<1>10. QED BY <1>2, <1>3, <1>7, <1>8, <1>9, OnlyCall DEF IoSafe, IoTyped

LEMMA SafeExit ==
  ASSUME IoAssumption, IoSafe, NEW t \in Clients, Exit(t)
  PROVE  IoSafe'
<1> DEFINE c == [call[t] EXCEPT !.pc = "exit"]
<1>1. call[t].pc = "idle" /\ ClientSafe(t) /\ call[t] \in Calls /\ inFlight[t] \in Nat /\ call[t].wait \in Nat
  BY ClientTyped DEF Exit, At, IoSafe
<1>2. call' = [call EXCEPT ![t] = c] /\ UNCHANGED <<sub, unused, inFlight, submitted, device, completed, ssd, disk>>
  BY DEF Exit
<1>3. c \in Calls /\ c.pc = "exit" /\ c.op = call[t].op /\ c.wait = call[t].wait
  BY <1>1 DEF Calls
<1> HIDE DEF c
<1>4. call'[t] = c
  BY <1>2 DEF IoSafe, IoTyped
<1>6. Underway(t)' = Underway(t)
  BY <1>2 DEF Underway
<1>7. Counted(t)'
  BY <1>1, <1>2, <1>3, <1>4, <1>6 DEF ClientSafe, Counted
<1>8. Owned(t)'
  BY <1>1, <1>2, <1>3, <1>4, <1>6 DEF ClientSafe, Owned, Open, Answered
<1>9. Copied(t)'
  BY <1>3, <1>4 DEF Copied
<1>10. QED BY <1>2, <1>3, <1>7, <1>8, <1>9, OnlyCall DEF IoSafe, IoTyped

(* The request that Submit takes is an unused one, for a page of the call. *)
LEMMA SubmitTakes ==
  ASSUME IoAssumption, IoSafe, NEW t \in Clients, Submit(t)
  PROVE  \E k \in unused[t] :
           LET i == call[t].next
               r == [op |-> call[t].op, block |-> Pages(t)[i][2], page |-> i,
                     data |-> IF call[t].op = "write" THEN <<Pages(t)[i][2], call[t].value>> ELSE << >>] IN
           /\ i \in DOMAIN Pages(t) /\ r \in Subs
           /\ unused' = [unused EXCEPT ![t] = @ \ {k}] /\ sub' = [sub EXCEPT ![t][k] = r]
           /\ submitted' = Append(submitted, <<t, k>>)
<1> DEFINE i == call[t].next
           k == CHOOSE u \in unused[t] : \A v \in unused[t] : u <= v
           r == [op |-> call[t].op, block |-> Pages(t)[i][2], page |-> i,
                 data |-> IF call[t].op = "write" THEN <<Pages(t)[i][2], call[t].value>> ELSE << >>]
<1>1. unused[t] \in SUBSET Nat /\ unused[t] # {}
  BY ClientTyped DEF Submit, IoSafe, Slots
<1>2. \E u \in unused[t] : \A v \in unused[t] : u <= v
  BY <1>1, LeastNumber
<1>3. k \in unused[t]
  BY <1>2
<1>4. i \in DOMAIN Pages(t)
  <2>1. i <= BatchEnd(t) /\ i \in Nat \ {0} /\ call[t].start \in Nat \ {0}
    BY ClientTyped DEF Submit, IoSafe
  <2>2. DOMAIN Pages(t) = 1..Len(Pages(t)) /\ Len(Pages(t)) \in Nat
    BY PagesTyped DEF IoSafe
  <2>3. call[t].start + Batch - 1 \in Int
    BY <2>1 DEF IoAssumption
  <2>4. BatchEnd(t) <= Len(Pages(t)) /\ BatchEnd(t) \in Int
    BY <2>2, <2>3 DEF BatchEnd
  <2>5. QED BY <2>1, <2>2, <2>4
<1>5. r \in Subs
  <2>1. Pages(t)[i][2] \in Blocks /\ i \in Nat
    BY <1>4, PagesTyped, ClientTyped DEF IoSafe
  <2>2. call[t].op \in {"none", "batch", "get", "write"} /\ call[t].value \in 0..1
    BY ClientTyped DEF IoSafe
  <2>3. (IF call[t].op = "write" THEN <<Pages(t)[i][2], call[t].value>> ELSE << >>) \in Data
    BY <2>1, <2>2 DEF Data
  <2>4. QED BY <2>1, <2>2, <2>3 DEF Subs
<1>6. unused' = [unused EXCEPT ![t] = @ \ {k}] /\ sub' = [sub EXCEPT ![t][k] = r]
      /\ submitted' = Append(submitted, <<t, k>>)
  BY DEF Submit
<1>7. QED BY <1>3, <1>4, <1>5, <1>6

LEMMA SafeSubmit ==
  ASSUME IoAssumption, IoSafe, NEW t \in Clients, Submit(t)
  PROVE  IoSafe'
<1> DEFINE i == call[t].next
           r == [op |-> call[t].op, block |-> Pages(t)[i][2], page |-> i,
                 data |-> IF call[t].op = "write" THEN <<Pages(t)[i][2], call[t].value>> ELSE << >>]
<1>1. /\ call[t].pc = "move" /\ ClientSafe(t) /\ call[t] \in Calls /\ inFlight[t] \in Nat /\ call[t].wait \in Nat
      /\ call[t].next \in Nat \ {0} /\ unused[t] \in SUBSET Slots /\ completed[t] \in Seq(Slots) /\ Len(completed[t]) \in Nat
      /\ Underway(t) \in SUBSET Slots
  BY ClientTyped DEF Submit, At, IoSafe
<1>2. PICK k \in unused[t] :
        /\ i \in DOMAIN Pages(t) /\ r \in Subs
        /\ unused' = [unused EXCEPT ![t] = @ \ {k}] /\ sub' = [sub EXCEPT ![t][k] = r]
        /\ submitted' = Append(submitted, <<t, k>>)
  BY SubmitTakes
<1>3. r.op = call[t].op /\ r.block = Pages(t)[i][2] /\ r.page = i
      /\ (call[t].op = "write" => r.data = <<r.block, call[t].value>>)
  OBVIOUS
<1> HIDE DEF r
<1>4. k \in Slots /\ <<t, k>> \in Clients \X Slots /\ k \notin Underway(t) /\ k \notin Answered(t) /\ k \notin Open(t)
  BY <1>1 DEF ClientSafe, Apart, Open
<1>5. UNCHANGED <<device, completed, ssd, disk>>
  BY DEF Submit
<1>6. /\ submitted' \in Seq(Clients \X Slots) /\ ToSet(submitted') = ToSet(submitted) \cup {<<t, k>>}
      /\ (<<t, k>> \notin ToSet(submitted) => IsInjective(submitted'))
  <2>1. submitted \in Seq(Clients \X Slots) /\ IsInjective(submitted)
    BY DEF IoSafe, IoTyped, Queued
  <2> DEFINE e == <<t, k>>
  <2>2. e \in Clients \X Slots /\ submitted' = Append(submitted, e)
    BY <1>2, <1>4
  <2> HIDE DEF e
  <2>3. /\ submitted' \in Seq(Clients \X Slots) /\ ToSet(submitted') = ToSet(submitted) \cup {e}
        /\ (e \notin ToSet(submitted) => IsInjective(submitted'))
    BY <2>1, <2>2, AppendedElements
  <2>4. QED BY <2>3 DEF e
<1>7. <<t, k>> \notin ToSet(submitted) /\ <<t, k>> \notin device
  BY <1>4 DEF Underway
<1>8. Queued'
  BY <1>5, <1>6, <1>7 DEF IoSafe, Queued
<1>9. \A u \in Clients \ {t} : Underway(u)' = Underway(u)
  BY <1>5, <1>6 DEF Underway
<1>10. Underway(t)' = Underway(t) \cup {k}
  BY <1>4, <1>5, <1>6 DEF Underway
<1>11. /\ sub' \in [Clients -> [Slots -> Subs]] /\ unused' \in [Clients -> SUBSET Slots]
       /\ unused'[t] = unused[t] \ {k} /\ sub'[t][k] = r /\ \A j \in Slots \ {k} : sub'[t][j] = sub[t][j]
       /\ \A u \in Clients \ {t} : unused'[u] = unused[u] /\ sub'[u] = sub[u]
  <2>1. sub \in [Clients -> [Slots -> Subs]] /\ unused \in [Clients -> SUBSET Slots]
    BY DEF IoSafe, IoTyped
  <2>2. QED BY <1>2, <1>4, <2>1
<1>12. \E c \in Calls :
         /\ call' = [call EXCEPT ![t] = c]
         /\ c.pc = "move" /\ c.op = call[t].op /\ c.req = call[t].req /\ c.got = call[t].got /\ c.value = call[t].value
         /\ \/ call[t].op = "write" /\ c.wait = call[t].wait + 1 /\ inFlight' = inFlight
            \/ call[t].op # "write" /\ c.wait = call[t].wait /\ inFlight' = [inFlight EXCEPT ![t] = @ + 1]
  <2>1. i + 1 \in Nat \ {0} /\ call[t].wait + 1 \in Nat
    BY <1>1
  <2>2. CASE call[t].op = "write"
    <3> DEFINE c == [call[t] EXCEPT !.next = @ + 1, !.wait = @ + 1]
    <3>1. call' = [call EXCEPT ![t].next = @ + 1, ![t].wait = @ + 1] /\ inFlight' = inFlight
      BY <2>2 DEF Submit
    <3>2. call \in [Clients -> Calls]
      BY DEF IoSafe, IoTyped
    <3>3. call' = [call EXCEPT ![t] = c]
      BY <3>1, <3>2
    <3>4. c \in Calls /\ c.pc = "move" /\ c.op = call[t].op /\ c.req = call[t].req /\ c.got = call[t].got
          /\ c.value = call[t].value /\ c.wait = call[t].wait + 1
      BY <1>1, <2>1 DEF Calls
    <3>5. QED BY <2>2, <3>1, <3>3, <3>4
  <2>3. CASE call[t].op # "write"
    <3> DEFINE c == [call[t] EXCEPT !.next = @ + 1]
    <3>1. call' = [call EXCEPT ![t] = c] /\ inFlight' = [inFlight EXCEPT ![t] = @ + 1]
      BY <2>3 DEF Submit
    <3>2. c \in Calls /\ c.pc = "move" /\ c.op = call[t].op /\ c.req = call[t].req /\ c.got = call[t].got
          /\ c.value = call[t].value /\ c.wait = call[t].wait
      BY <1>1, <2>1 DEF Calls
    <3>3. QED BY <2>3, <3>1, <3>2
  <2>4. QED BY <2>2, <2>3
<1>13. PICK c \in Calls :
         /\ call' = [call EXCEPT ![t] = c]
         /\ c.pc = "move" /\ c.op = call[t].op /\ c.req = call[t].req /\ c.got = call[t].got /\ c.value = call[t].value
         /\ \/ call[t].op = "write" /\ c.wait = call[t].wait + 1 /\ inFlight' = inFlight
            \/ call[t].op # "write" /\ c.wait = call[t].wait /\ inFlight' = [inFlight EXCEPT ![t] = @ + 1]
  BY <1>12
<1>14. /\ call'[t] = c /\ inFlight' \in [Clients -> Nat]
       /\ \A u \in Clients \ {t} : call'[u] = call[u] /\ inFlight'[u] = inFlight[u]
       /\ inFlight'[t] + c.wait = inFlight[t] + call[t].wait + 1
       /\ (call[t].op = "write" => inFlight'[t] = inFlight[t])
       /\ (call[t].op # "write" => c.wait = call[t].wait)
  <2>1. call \in [Clients -> Calls] /\ inFlight \in [Clients -> Nat]
    BY DEF IoSafe, IoTyped
  <2>2. call'[t] = c /\ \A u \in Clients \ {t} : call'[u] = call[u]
    BY <1>13, <2>1
  <2>3. CASE call[t].op = "write"
    <3>1. c.wait = call[t].wait + 1 /\ inFlight' = inFlight
      BY <1>13, <2>3
    <3>2. inFlight[t] + (call[t].wait + 1) = inFlight[t] + call[t].wait + 1
      BY <1>1
    <3>3. QED BY <2>1, <2>2, <2>3, <3>1, <3>2
  <2>4. CASE call[t].op # "write"
    <3>1. c.wait = call[t].wait /\ inFlight' = [inFlight EXCEPT ![t] = @ + 1]
      BY <1>13, <2>4
    <3>2. inFlight[t] + 1 \in Nat /\ (inFlight[t] + 1) + call[t].wait = inFlight[t] + call[t].wait + 1
      BY <1>1
    <3>3. inFlight' \in [Clients -> Nat] /\ inFlight'[t] = inFlight[t] + 1 /\ \A u \in Clients \ {t} : inFlight'[u] = inFlight[u]
      BY <2>1, <3>1, <3>2
    <3>4. QED BY <2>2, <2>4, <3>1, <3>2, <3>3
  <2>5. QED BY <2>3, <2>4
<1>15. IoTyped'
  BY <1>5, <1>6, <1>11, <1>13, <1>14 DEF IoSafe, IoTyped
<1>16. Apart(t)'
  BY <1>1, <1>4, <1>5, <1>10, <1>11 DEF ClientSafe, Apart, Open, Answered
<1>17. Counted(t)'
  <2>1. Cardinality(unused[t]) + inFlight[t] + call[t].wait = Depth
        /\ Cardinality(Underway(t)) + Len(completed[t]) <= inFlight[t] + call[t].wait
        /\ (call[t].op = "batch" => t \notin Writers) /\ (call[t].op = "write" => t \in Writers /\ inFlight[t] = 0)
    BY <1>1 DEF ClientSafe, Counted
  <2>2. Cardinality(unused'[t]) = Cardinality(unused[t]) - 1 /\ Cardinality(unused[t]) \in Nat
    BY <1>1, <1>11, SlotsFinite
  <2>3. Cardinality(Underway(t)') = Cardinality(Underway(t)) + 1 /\ Cardinality(Underway(t)) \in Nat
    BY <1>1, <1>4, <1>10, SlotsFinite
  <2>4. inFlight'[t] \in Nat /\ c.wait \in Nat
    BY <1>14 DEF Calls
  <2>5. Cardinality(unused'[t]) + inFlight'[t] + c.wait = Depth
        /\ Cardinality(Underway(t)') + Len(completed[t]) <= inFlight'[t] + c.wait
    <3>1. inFlight'[t] + c.wait = inFlight[t] + call[t].wait + 1
      BY <1>14
    <3>2. inFlight[t] \in Nat /\ call[t].wait \in Nat /\ Len(completed[t]) \in Nat
      BY <1>1
    <3> DEFINE a == Cardinality(unused[t])  a2 == Cardinality(unused'[t])
               b == Cardinality(Underway(t))  b2 == Cardinality(Underway(t)')
               f == inFlight[t]  f2 == inFlight'[t]  w == call[t].wait  w2 == c.wait  n == Len(completed[t])
    <3>3. /\ a \in Nat /\ b \in Nat /\ f \in Nat /\ f2 \in Nat /\ w \in Nat /\ w2 \in Nat /\ n \in Nat
          /\ a2 = a - 1 /\ b2 = b + 1 /\ f2 + w2 = f + w + 1 /\ a + f + w = Depth /\ b + n <= f + w
      BY <2>1, <2>2, <2>3, <2>4, <3>1, <3>2
    <3> HIDE DEF a, a2, b, b2, f, f2, w, w2, n
    <3>4. a2 + f2 + w2 = Depth /\ b2 + n <= f2 + w2
      BY <3>3
    <3>5. QED BY <3>4 DEF a2, b2, f2, w2, n
  <2>6. c.wait > 0 => c.op = "write"
    BY <1>1, <1>13, <1>14 DEF ClientSafe, Counted
  <2>7. c.op = "write" => inFlight'[t] = 0
    BY <1>13, <1>14, <2>1
  <2>8. QED BY <1>5, <1>13, <1>14, <2>1, <2>5, <2>6, <2>7 DEF Counted
<1>18. Pages(t)' = Pages(t)
  BY <1>13, <1>14 DEF Pages
<1>19. Owned(t)'
  <2>1. Open(t)' = Open(t) \cup {k} /\ Answered(t)' = Answered(t) /\ Open(t) \subseteq Slots /\ Answered(t) \subseteq Open(t)
    BY <1>5, <1>10, ClientTyped DEF Open, Answered, IoSafe
  <2>2. \A j \in Open(t) : sub'[t][j] = sub[t][j]
    BY <1>4, <1>11, <2>1
  <2>3. sub'[t][k].block \in Blocks /\ sub'[t][k].op = c.op /\ sub'[t][k].page \in DOMAIN Pages(t)
        /\ sub'[t][k].block = Pages(t)[sub'[t][k].page][2]
        /\ (c.op = "write" => sub'[t][k].data = <<sub'[t][k].block, c.value>>)
    BY <1>2, <1>3, <1>11, <1>13, PagesTyped DEF IoSafe
  <2>4. \A j \in Open(t)' :
          /\ sub'[t][j].block \in Blocks
          /\ sub'[t][j].op = c.op
          /\ sub'[t][j].page \in DOMAIN Pages(t) /\ sub'[t][j].block = Pages(t)[sub'[t][j].page][2]
          /\ c.op = "write" => sub'[t][j].data = <<sub'[t][j].block, c.value>>
    BY <1>1, <1>13, <2>1, <2>2, <2>3 DEF ClientSafe, Owned
  <2>5. \A j \in Answered(t)' : sub'[t][j].data # << >> /\ sub'[t][j].data[1] = sub'[t][j].block
    BY <1>1, <2>1, <2>2 DEF ClientSafe, Owned
  <2>6. QED BY <1>13, <1>14, <1>18, <2>4, <2>5 DEF Owned
<1>20. Copied(t)'
  BY <1>1, <1>13, <1>14, <1>18 DEF ClientSafe, Copied
<1>21. ASSUME NEW u \in Clients \ {t}
       PROVE  ClientSafe(u)'
  <2>1. inFlight[u] \in Nat /\ completed[u] \in Seq(Slots) /\ call[u].wait \in Nat /\ ClientSafe(u)
    BY ClientTyped DEF IoSafe
  <2>2. QED BY <1>5, <1>9, <1>11, <1>14, <2>1, ClientStays
<1>22. QED BY <1>8, <1>15, <1>16, <1>17, <1>19, <1>20, <1>21 DEF IoSafe, ClientSafe

(* What a completed request of the current call means for the call. *)
LEMMA CompleteTakes ==
  ASSUME IoAssumption, IoSafe, NEW t \in Clients, Complete(t)
  PROVE  LET k == Head(completed[t]) IN
         \E c \in Calls :
           /\ call' = [call EXCEPT ![t] = c]
           /\ c.pc = "move" /\ c.op = call[t].op /\ c.req = call[t].req /\ c.value = call[t].value /\ c.next = call[t].next
           /\ \/ call[t].op = "write" /\ c.wait = call[t].wait - 1 /\ inFlight' = inFlight /\ c.got = call[t].got
              \/ /\ call[t].op # "write" /\ c.wait = call[t].wait /\ inFlight[t] > 0
                 /\ inFlight' = [inFlight EXCEPT ![t] = @ - 1]
                 /\ DOMAIN c.got = DOMAIN call[t].got
                 /\ \A j \in DOMAIN c.got : c.got[j] = call[t].got[j] \/ c.got[j][1] = Pages(t)[j][2]
<1> DEFINE k == Head(completed[t])
           i == sub[t][k].page
           d == sub[t][k].data
<1>1. /\ call[t].pc = "move" /\ ClientSafe(t) /\ call[t] \in Calls /\ call[t].wait \in Nat /\ completed[t] # << >>
      /\ call[t].got \in Seq(Data) /\ sub[t] \in [Slots -> Subs] /\ inFlight[t] \in Nat /\ Waiting(t) > 0
  BY ClientTyped DEF Complete, At, IoSafe
<1>2. k \in Answered(t) /\ k \in Slots
  <2>1. Recycle(t, Head(completed[t])) /\ UNCHANGED <<submitted, device>>
    BY DEF Complete
  <2>2. QED BY <1>1, <2>1, Recycled
<1>3. call \in [Clients -> Calls]
  BY DEF IoSafe, IoTyped
<1>4. CASE call[t].op = "write"
  <2> DEFINE c == [call[t] EXCEPT !.wait = @ - 1]
  <2>1. call' = [call EXCEPT ![t] = c] /\ inFlight' = inFlight
    BY <1>4 DEF Complete
  <2>2. call[t].wait > 0
    BY <1>1, <1>4 DEF Waiting
  <2>3. call[t].wait - 1 \in Nat
    BY <1>1, <2>2
  <2>4. c \in Calls /\ c.pc = "move" /\ c.op = call[t].op /\ c.req = call[t].req /\ c.value = call[t].value
        /\ c.wait = call[t].wait - 1 /\ c.got = call[t].got /\ c.next = call[t].next
    BY <1>1, <2>3 DEF Calls
  <2>5. QED BY <1>4, <2>1, <2>4
<1>5. CASE call[t].op # "write"
  <2> DEFINE g == [call[t].got EXCEPT ![i] = d]
             c == [call[t] EXCEPT !.got = g]
  <2>1. call' = [call EXCEPT ![t] = c] /\ inFlight' = [inFlight EXCEPT ![t] = @ - 1]
    BY <1>5 DEF Complete
  <2>2. inFlight[t] > 0
    BY <1>1, <1>5 DEF Waiting
  <2>3. i \in DOMAIN Pages(t) /\ d \in Data /\ d[1] = Pages(t)[i][2]
    BY <1>1, <1>2 DEF ClientSafe, Owned, Open, Subs
  <2> HIDE DEF d, i
  <2>4. g \in Seq(Data) /\ DOMAIN g = DOMAIN call[t].got /\ \A j \in DOMAIN g : g[j] = call[t].got[j] \/ (j = i /\ g[j] = d)
    <3> DEFINE o == call[t].got
    <3>1. o \in Seq(Data) /\ DOMAIN o = 1..Len(o) /\ Len(o) \in Nat /\ \A j \in DOMAIN o : o[j] \in Data
      BY <1>1
    <3> HIDE DEF o
    <3>2. DOMAIN g = DOMAIN o /\ \A j \in DOMAIN g : g[j] = IF j = i THEN d ELSE o[j]
      BY DEF o
    <3>3. g = [j \in 1..Len(o) |-> g[j]] /\ \A j \in 1..Len(o) : g[j] \in Data
      BY <2>3, <3>1, <3>2
    <3>4. g \in Seq(Data)
      <4> HIDE DEF g
      <4>1. QED BY <3>1, <3>3
    <3>5. QED BY <3>2, <3>4 DEF o
  <2> HIDE DEF g
  <2>5. c \in Calls /\ c.pc = "move" /\ c.op = call[t].op /\ c.req = call[t].req /\ c.value = call[t].value
        /\ c.wait = call[t].wait /\ c.got = g /\ c.next = call[t].next
    BY <1>1, <2>4 DEF Calls
  <2>6. \A j \in DOMAIN c.got : c.got[j] = call[t].got[j] \/ c.got[j][1] = Pages(t)[j][2]
    BY <2>3, <2>4, <2>5
  <2> HIDE DEF c
  <2>7. QED BY <1>5, <2>1, <2>2, <2>4, <2>5, <2>6
<1>6. QED BY <1>4, <1>5

LEMMA SafeComplete ==
  ASSUME IoAssumption, IoSafe, NEW t \in Clients, Complete(t)
  PROVE  IoSafe'
<1> DEFINE k == Head(completed[t])
<1>1. /\ ClientSafe(t) /\ inFlight[t] \in Nat /\ completed[t] \in Seq(Slots) /\ Len(completed[t]) \in Nat /\ call[t].wait \in Nat
      /\ unused[t] \in SUBSET Slots /\ completed[t] # << >> /\ call[t].pc = "move"
      /\ Recycle(t, Head(completed[t])) /\ UNCHANGED <<submitted, device, ssd, disk>>
  BY ClientTyped DEF IoSafe, Complete, At
<1>2. /\ sub' \in [Clients -> [Slots -> Subs]] /\ unused' \in [Clients -> SUBSET Slots] /\ completed' \in [Clients -> Seq(Slots)]
      /\ \A u \in Clients \ {t} : sub'[u] = sub[u] /\ unused'[u] = unused[u] /\ completed'[u] = completed[u]
      /\ \A u \in Clients : Underway(u)' = Underway(u)
      /\ Cardinality(unused'[t]) = Cardinality(unused[t]) + 1
      /\ Len(completed'[t]) = Len(completed[t]) - 1 /\ Len(completed[t]) >= 1
      /\ Open(t)' = Open(t) \ {k} /\ Answered(t)' = Answered(t) \ {k} /\ Open(t) \subseteq Slots
      /\ \A i \in Slots \ {k} : sub'[t][i] = sub[t][i]
      /\ Apart(t)'
  BY <1>1, Recycled, ClientTyped DEF IoSafe, Open
<1>3. PICK c \in Calls :
        /\ call' = [call EXCEPT ![t] = c]
        /\ c.pc = "move" /\ c.op = call[t].op /\ c.req = call[t].req /\ c.value = call[t].value
        /\ \/ call[t].op = "write" /\ c.wait = call[t].wait - 1 /\ inFlight' = inFlight /\ c.got = call[t].got
           \/ /\ call[t].op # "write" /\ c.wait = call[t].wait /\ inFlight[t] > 0
              /\ inFlight' = [inFlight EXCEPT ![t] = @ - 1]
              /\ DOMAIN c.got = DOMAIN call[t].got
              /\ \A j \in DOMAIN c.got : c.got[j] = call[t].got[j] \/ c.got[j][1] = Pages(t)[j][2]
  BY CompleteTakes
<1> HIDE DEF k
<1>4. /\ call'[t] = c /\ inFlight' \in [Clients -> Nat] /\ c.wait \in Nat
      /\ \A u \in Clients \ {t} : call'[u] = call[u] /\ inFlight'[u] = inFlight[u]
      /\ inFlight'[t] + c.wait = inFlight[t] + call[t].wait - 1
      /\ (call[t].op = "write" => inFlight'[t] = inFlight[t])
      /\ (call[t].op # "write" => c.wait = call[t].wait)
  <2>1. call \in [Clients -> Calls] /\ inFlight \in [Clients -> Nat] /\ c.wait \in Nat
    BY DEF IoSafe, IoTyped, Calls
  <2>2. call'[t] = c /\ \A u \in Clients \ {t} : call'[u] = call[u]
    BY <1>3, <2>1
  <2>3. CASE call[t].op = "write"
    <3>1. c.wait = call[t].wait - 1 /\ inFlight' = inFlight
      BY <1>3, <2>3
    <3>2. inFlight[t] + (call[t].wait - 1) = inFlight[t] + call[t].wait - 1
      BY <1>1
    <3>3. QED BY <2>1, <2>2, <2>3, <3>1, <3>2
  <2>4. CASE call[t].op # "write"
    <3>1. c.wait = call[t].wait /\ inFlight[t] > 0 /\ inFlight' = [inFlight EXCEPT ![t] = @ - 1]
      BY <1>3, <2>4
    <3> DEFINE f == inFlight[t]  w == call[t].wait
    <3>0. f \in Nat /\ w \in Nat /\ f > 0
      BY <1>1, <3>1
    <3> HIDE DEF f, w
    <3>9. f - 1 \in Nat /\ (f - 1) + w = f + w - 1
      BY <3>0
    <3>2. inFlight[t] - 1 \in Nat /\ (inFlight[t] - 1) + call[t].wait = inFlight[t] + call[t].wait - 1
      BY <3>9 DEF f, w
    <3>3. inFlight' \in [Clients -> Nat] /\ inFlight'[t] = inFlight[t] - 1 /\ \A u \in Clients \ {t} : inFlight'[u] = inFlight[u]
      BY <2>1, <3>1, <3>2
    <3>4. QED BY <2>1, <2>2, <2>4, <3>1, <3>2, <3>3
  <2>5. QED BY <2>3, <2>4
<1>5. IoTyped'
  BY <1>1, <1>2, <1>3, <1>4 DEF IoSafe, IoTyped
<1>6. Queued'
  BY <1>1 DEF IoSafe, Queued
<1>7. Counted(t)'
  <2>1. Cardinality(unused[t]) + inFlight[t] + call[t].wait = Depth
        /\ Cardinality(Underway(t)) + Len(completed[t]) <= inFlight[t] + call[t].wait
        /\ (call[t].op = "batch" => t \notin Writers) /\ (call[t].op = "write" => t \in Writers /\ inFlight[t] = 0)
        /\ (call[t].wait > 0 => call[t].op = "write")
    BY <1>1 DEF ClientSafe, Counted
  <2>2. Cardinality(unused[t]) \in Nat /\ Cardinality(Underway(t)) \in Nat
    BY <1>1, SlotsFinite, ClientTyped DEF IoSafe
  <2>3. Cardinality(unused'[t]) + inFlight'[t] + c.wait = Depth
        /\ Cardinality(Underway(t)) + Len(completed'[t]) <= inFlight'[t] + c.wait
    <3> DEFINE a == Cardinality(unused[t])  a2 == Cardinality(unused'[t])  b == Cardinality(Underway(t))
               f == inFlight[t]  f2 == inFlight'[t]  w == call[t].wait  w2 == c.wait
               n == Len(completed[t])  n2 == Len(completed'[t])
    <3>1. /\ a \in Nat /\ b \in Nat /\ f \in Nat /\ f2 \in Nat /\ w \in Nat /\ w2 \in Nat /\ n \in Nat
          /\ a2 = a + 1 /\ n2 = n - 1 /\ f2 + w2 = f + w - 1 /\ a + f + w = Depth /\ b + n <= f + w
      BY <1>1, <1>2, <1>4, <2>1, <2>2
    <3> HIDE DEF a, a2, b, f, f2, w, w2, n, n2
    <3>2. a2 + f2 + w2 = Depth /\ b + n2 <= f2 + w2
      BY <3>1
    <3>3. QED BY <3>2 DEF a2, b, f2, w2, n2
  <2>4. c.wait > 0 => c.op = "write"
    BY <1>3, <1>4, <2>1
  <2>5. c.op = "write" => inFlight'[t] = 0
    BY <1>3, <1>4, <2>1
  <2>6. QED BY <1>2, <1>3, <1>4, <2>1, <2>3, <2>4, <2>5 DEF Counted
<1>8. Pages(t)' = Pages(t)
  BY <1>3, <1>4 DEF Pages
<1>9. Owned(t)'
  <2>1. \A i \in Open(t)' : i \in Open(t) /\ sub'[t][i] = sub[t][i]
    BY <1>2
  <2>2. \A i \in Answered(t)' : i \in Answered(t) /\ sub'[t][i] = sub[t][i]
    BY <1>2, <2>1 DEF Open
  <2>3. \A i \in Open(t)' :
          /\ sub'[t][i].block \in Blocks /\ sub'[t][i].op = c.op
          /\ sub'[t][i].page \in DOMAIN Pages(t) /\ sub'[t][i].block = Pages(t)[sub'[t][i].page][2]
          /\ c.op = "write" => sub'[t][i].data = <<sub'[t][i].block, c.value>>
    BY <1>1, <1>3, <2>1 DEF ClientSafe, Owned
  <2>4. \A i \in Answered(t)' : sub'[t][i].data # << >> /\ sub'[t][i].data[1] = sub'[t][i].block
    BY <1>1, <2>2 DEF ClientSafe, Owned
  <2>5. QED BY <1>3, <1>4, <1>8, <2>3, <2>4 DEF Owned
<1>10. Copied(t)'
  <2>1. DOMAIN call[t].got = DOMAIN Pages(t) /\ \A i \in DOMAIN call[t].got : call[t].got[i] = << >> \/ call[t].got[i][1] = Pages(t)[i][2]
    BY <1>1 DEF ClientSafe, Copied
  <2>2. DOMAIN c.got = DOMAIN call[t].got /\ \A j \in DOMAIN c.got : c.got[j] = call[t].got[j] \/ c.got[j][1] = Pages(t)[j][2]
    BY <1>3
  <2>3. QED BY <1>4, <1>8, <2>1, <2>2 DEF Copied
<1>11. ASSUME NEW u \in Clients \ {t}
       PROVE  ClientSafe(u)'
  <2>1. inFlight[u] \in Nat /\ completed[u] \in Seq(Slots) /\ call[u].wait \in Nat /\ ClientSafe(u)
    BY ClientTyped DEF IoSafe
  <2>2. QED BY <1>2, <1>4, <2>1, ClientStays
<1>12. QED BY <1>2, <1>5, <1>6, <1>7, <1>9, <1>10, <1>11 DEF IoSafe, ClientSafe

LEMMA SafeStop ==
  ASSUME IoAssumption, IoSafe,
         ssd' \in [inflight : Nat, at : {"off", "loop", "reactor", "stopped"}], ssd'.inflight = ssd.inflight,
         UNCHANGED <<sub, unused, inFlight, submitted, device, completed, disk, call>>
  PROVE  IoSafe'
<1>1. IoTyped' /\ Queued'
  BY DEF IoSafe, IoTyped, Queued
<1>2. ASSUME NEW t \in Clients
      PROVE  ClientSafe(t)'
  <2>1. inFlight[t] \in Nat /\ completed[t] \in Seq(Slots) /\ call[t].wait \in Nat /\ ClientSafe(t)
    BY ClientTyped DEF IoSafe
  <2>2. Underway(t)' \subseteq Underway(t)
    BY DEF Underway
  <2>3. QED BY <2>1, <2>2, ClientStays
<1>3. QED BY <1>1, <1>2 DEF IoSafe

-----------------------------------------------------------------------------
(* The steps of the SPDK thread. *)
LEMMA SafeLoopSubmit ==
  ASSUME IoAssumption, IoSafe, LoopSubmit
  PROVE  IoSafe'
<1> DEFINE h == Head(submitted)
<1>1. /\ submitted \in Seq(Clients \X Slots) /\ submitted # << >> /\ IsInjective(submitted) /\ device \cap ToSet(submitted) = {}
      /\ IsFiniteSet(device) /\ Cardinality(device) <= ssd.inflight /\ device \subseteq Clients \X Slots
  BY DEF IoSafe, IoTyped, Queued, LoopSubmit
<1>2. /\ submitted' = Tail(submitted) /\ ssd' = [ssd EXCEPT !.inflight = @ + 1]
      /\ device' \in {device, device \cup {h}} /\ UNCHANGED <<sub, unused, inFlight, completed, disk, call>>
  BY DEF LoopSubmit
<1>3. /\ submitted' \in Seq(Clients \X Slots) /\ h \in Clients \X Slots /\ h \in ToSet(submitted)
      /\ ToSet(submitted') = ToSet(submitted) \ {h} /\ IsInjective(submitted')
  BY <1>1, <1>2, TailElements
<1> HIDE DEF h
<1>4. ssd' \in [inflight : Nat, at : {"off", "loop", "reactor", "stopped"}] /\ ssd'.inflight = ssd.inflight + 1 /\ ssd.inflight \in Nat
  <2>1. ssd \in [inflight : Nat, at : {"off", "loop", "reactor", "stopped"}] /\ ssd.inflight \in Nat
    BY DEF IoSafe, IoTyped
  <2> DEFINE n == ssd.inflight + 1
  <2>2. n \in Nat /\ ssd' = [ssd EXCEPT !.inflight = n]
    BY <1>2, <2>1
  <2> HIDE DEF n
  <2>3. ssd' \in [inflight : Nat, at : {"off", "loop", "reactor", "stopped"}] /\ ssd'.inflight = n
    BY <2>1, <2>2
  <2>4. QED BY <2>1, <2>3 DEF n
<1>5. IoTyped'
  BY <1>1, <1>2, <1>3, <1>4 DEF IoSafe, IoTyped
<1>6. IsFiniteSet(device') /\ Cardinality(device') <= ssd.inflight + 1
  <2>1. Cardinality(device) \in Nat
    BY <1>1, FS_CardinalityType
  <2>2. CASE device' = device
    BY <1>1, <1>4, <2>1, <2>2
  <2>3. CASE device' = device \cup {h}
    <3>1. h \notin device
      BY <1>1, <1>3
    <3>2. IsFiniteSet(device \cup {h}) /\ Cardinality(device \cup {h}) = Cardinality(device) + 1
      BY <1>1, <3>1, FS_AddElement
    <3>3. QED BY <1>1, <1>4, <2>1, <2>3, <3>2
  <2>4. QED BY <1>2, <2>2, <2>3
<1>7. Queued'
  BY <1>1, <1>2, <1>3, <1>4, <1>6 DEF Queued
<1>8. ASSUME NEW t \in Clients
      PROVE  ClientSafe(t)'
  <2>1. inFlight[t] \in Nat /\ completed[t] \in Seq(Slots) /\ call[t].wait \in Nat /\ ClientSafe(t)
    BY ClientTyped DEF IoSafe
  <2>2. device' \cup ToSet(submitted') \subseteq device \cup ToSet(submitted)
    BY <1>2, <1>3
  <2>3. Underway(t)' \subseteq Underway(t)
    BY <2>2 DEF Underway
  <2>4. QED BY <1>2, <2>1, <2>3, ClientStays
<1>9. QED BY <1>5, <1>7, <1>8 DEF IoSafe

LEMMA SafeLoopEnds ==
  ASSUME IoAssumption, IoSafe, LoopEnds
  PROVE  IoSafe'
<1>1. ssd' = [ssd EXCEPT !.at = "reactor"] /\ UNCHANGED <<sub, unused, inFlight, submitted, device, completed, disk, call>>
  BY DEF LoopEnds
<1>2. ssd' \in [inflight : Nat, at : {"off", "loop", "reactor", "stopped"}] /\ ssd'.inflight = ssd.inflight
  BY <1>1 DEF IoSafe, IoTyped
<1>3. QED BY <1>1, <1>2, SafeStop

(* The device answers a request: a write has put its value on the disk, a  *)
(* read has the block.                                                     *)
LEMMA CallbackAnswers ==
  ASSUME IoAssumption, IoSafe, NEW t \in Clients, NEW s \in Slots, Callback(<<t, s>>)
  PROVE  /\ s \in Underway(t)
         /\ disk' \in [Blocks -> 0..1] /\ sub' \in [Clients -> [Slots -> Subs]]
         /\ \A u \in Clients : \A k \in Slots : <<u, k>> # <<t, s>> => sub'[u][k] = sub[u][k]
         /\ sub'[t][s].op = sub[t][s].op /\ sub'[t][s].block = sub[t][s].block /\ sub'[t][s].page = sub[t][s].page
         /\ sub'[t][s].data # << >> /\ sub'[t][s].data[1] = sub'[t][s].block
         /\ IF sub[t][s].op = "write"
              THEN /\ call[t].pc = "move" /\ call[t].op = "write" /\ sub' = sub
                   /\ disk' = [disk EXCEPT ![sub[t][s].block] = call[t].value]
              ELSE disk' = disk
<1> DEFINE x == sub[t][s]
           y == [x EXCEPT !.data = <<x.block, disk[x.block]>>]
<1>1. s \in Underway(t) /\ <<t, s>> \in device
  BY DEF Callback, Underway
<1>2. ClientSafe(t) /\ sub \in [Clients -> [Slots -> Subs]] /\ x \in Subs /\ disk \in [Blocks -> 0..1] /\ call[t].value \in 0..1
  BY ClientTyped DEF IoSafe, IoTyped
<1>3. s \in Open(t) /\ x.block \in Blocks /\ (x.op = "write" => call[t].pc = "move" /\ call[t].op = "write")
      /\ (x.op = "write" => x.data = <<x.block, call[t].value>>)
  BY <1>1, <1>2 DEF ClientSafe, Owned, Open
<1>4. CASE x.op = "write"
  <2>1. disk' = [disk EXCEPT ![x.block] = x.data[2]] /\ sub' = sub
    BY <1>4 DEF Callback
  <2>2. x.data[2] = call[t].value /\ x.data # << >> /\ x.data[1] = x.block
    BY <1>3, <1>4
  <2>3. disk' = [disk EXCEPT ![x.block] = call[t].value] /\ disk' \in [Blocks -> 0..1]
    BY <1>2, <2>1, <2>2
  <2>4. QED BY <1>1, <1>2, <1>3, <1>4, <2>1, <2>2, <2>3
<1>5. CASE x.op # "write"
  <2>1. sub' = [sub EXCEPT ![t][s].data = <<x.block, disk[x.block]>>] /\ disk' = disk
    BY <1>5 DEF Callback
  <2>2. <<x.block, disk[x.block]>> \in Data /\ <<x.block, disk[x.block]>> # << >> /\ <<x.block, disk[x.block]>>[1] = x.block
    BY <1>2, <1>3 DEF Data
  <2>3. y \in Subs /\ y.op = x.op /\ y.block = x.block /\ y.page = x.page /\ y.data = <<x.block, disk[x.block]>>
    BY <1>2, <2>2 DEF Subs
  <2>4. sub'[t][s] = y /\ sub' \in [Clients -> [Slots -> Subs]]
        /\ \A u \in Clients : \A k \in Slots : <<u, k>> # <<t, s>> => sub'[u][k] = sub[u][k]
    <3>1. sub' = [sub EXCEPT ![t] = [sub[t] EXCEPT ![s] = y]]
      BY <2>1
    <3> HIDE DEF y, x
    <3>2. sub[t] \in [Slots -> Subs]
      BY <1>2
    <3>3. [sub[t] EXCEPT ![s] = y] \in [Slots -> Subs] /\ [sub[t] EXCEPT ![s] = y][s] = y
          /\ \A k \in Slots : k # s => [sub[t] EXCEPT ![s] = y][k] = sub[t][k]
      BY <2>3, <3>2
    <3> DEFINE z == [sub[t] EXCEPT ![s] = y]
    <3> HIDE DEF z
    <3>4. sub' = [sub EXCEPT ![t] = z] /\ z \in [Slots -> Subs] /\ z[s] = y /\ \A k \in Slots : k # s => z[k] = sub[t][k]
      BY <3>1, <3>3 DEF z
    <3>5. sub'[t] = z /\ (\A u \in Clients : u # t => sub'[u] = sub[u]) /\ sub' \in [Clients -> [Slots -> Subs]]
      BY <1>2, <3>4
    <3>6. QED BY <3>4, <3>5
  <2> HIDE DEF y
  <2>5. QED BY <1>1, <1>2, <1>5, <2>1, <2>2, <2>3, <2>4
<1>6. QED BY <1>4, <1>5

LEMMA SafeCallback ==
  ASSUME IoAssumption, IoSafe, NEW t \in Clients, NEW s \in Slots, Callback(<<t, s>>)
  PROVE  IoSafe'
<1> DEFINE e == <<t, s>>
<1>1. /\ device' = device \ {e} /\ e \in device /\ completed' = [completed EXCEPT ![t] = Append(@, s)]
      /\ ssd' = [inflight |-> ssd.inflight - 1, at |-> "loop"] /\ UNCHANGED <<unused, inFlight, submitted, call>>
  BY DEF Callback
<1>2. /\ s \in Underway(t)
      /\ disk' \in [Blocks -> 0..1] /\ sub' \in [Clients -> [Slots -> Subs]]
      /\ \A u \in Clients : \A k \in Slots : <<u, k>> # <<t, s>> => sub'[u][k] = sub[u][k]
      /\ sub'[t][s].op = sub[t][s].op /\ sub'[t][s].block = sub[t][s].block /\ sub'[t][s].page = sub[t][s].page
      /\ sub'[t][s].data # << >> /\ sub'[t][s].data[1] = sub'[t][s].block
      /\ (sub[t][s].op = "write" => sub' = sub)
  BY CallbackAnswers
<1>3. /\ ClientSafe(t) /\ completed[t] \in Seq(Slots) /\ Len(completed[t]) \in Nat /\ Underway(t) \in SUBSET Slots
      /\ inFlight[t] \in Nat /\ call[t].wait \in Nat
  BY ClientTyped DEF IoSafe
<1>4. /\ submitted \in Seq(Clients \X Slots) /\ IsInjective(submitted) /\ device \cap ToSet(submitted) = {}
      /\ IsFiniteSet(device) /\ Cardinality(device) <= ssd.inflight /\ device \subseteq Clients \X Slots
      /\ ssd.inflight \in Nat /\ completed \in [Clients -> Seq(Slots)]
  BY DEF IoSafe, IoTyped, Queued
<1>5. IsFiniteSet(device') /\ Cardinality(device') <= ssd.inflight - 1 /\ ssd.inflight - 1 \in Nat
  <2>1. Cardinality(device) \in Nat /\ IsFiniteSet(device \ {e}) /\ Cardinality(device \ {e}) = Cardinality(device) - 1
        /\ Cardinality(device \ {e}) \in Nat
    BY <1>1, <1>4, FS_RemoveElement, FS_CardinalityType
  <2>2. QED BY <1>1, <1>4, <2>1
<1>6. ssd' \in [inflight : Nat, at : {"off", "loop", "reactor", "stopped"}] /\ ssd'.inflight = ssd.inflight - 1
  BY <1>1, <1>5
<1>7. Queued'
  BY <1>1, <1>4, <1>5, <1>6 DEF Queued
<1>8. s \notin Answered(t) /\ e \notin ToSet(submitted)
  BY <1>1, <1>2, <1>3, <1>4 DEF ClientSafe, Apart
<1>9. /\ completed'[t] = Append(completed[t], s) /\ completed'[t] \in Seq(Slots) /\ Len(completed'[t]) = Len(completed[t]) + 1
      /\ Answered(t)' = Answered(t) \cup {s} /\ IsInjective(completed'[t])
      /\ \A u \in Clients \ {t} : completed'[u] = completed[u]
  <2>1. completed'[t] = Append(completed[t], s) /\ \A u \in Clients \ {t} : completed'[u] = completed[u]
    BY <1>1, <1>4
  <2>2. IsInjective(completed[t]) /\ s \notin ToSet(completed[t])
    BY <1>3, <1>8 DEF ClientSafe, Apart, Answered
  <2>3. /\ Append(completed[t], s) \in Seq(Slots) /\ Len(Append(completed[t], s)) = Len(completed[t]) + 1
        /\ ToSet(Append(completed[t], s)) = ToSet(completed[t]) \cup {s} /\ IsInjective(Append(completed[t], s))
    BY <1>3, <2>2, AppendedElements
  <2>4. QED BY <2>1, <2>3 DEF Answered
<1>10. Underway(t)' = Underway(t) \ {s} /\ \A u \in Clients \ {t} : Underway(u)' = Underway(u)
  BY <1>1, <1>8 DEF Underway
<1>11. Open(t)' = Open(t) /\ Open(t) \subseteq Slots
  BY <1>2, <1>9, <1>10, ClientTyped DEF Open, IoSafe
<1>12. IoTyped'
  <2>1. completed' \in [Clients -> Seq(Slots)]
    BY <1>1, <1>4, <1>9
  <2>2. QED BY <1>1, <1>2, <1>4, <1>6, <2>1 DEF IoSafe, IoTyped
<1>13. Apart(t)'
  BY <1>1, <1>3, <1>9, <1>10, <1>11 DEF ClientSafe, Apart
<1>14. Counted(t)'
  <2>1. Cardinality(Underway(t)) \in Nat /\ Cardinality(Underway(t)') = Cardinality(Underway(t)) - 1
    BY <1>2, <1>3, <1>10, SlotsFinite
  <2>2. Cardinality(Underway(t)) + Len(completed[t]) <= inFlight[t] + call[t].wait
    BY <1>3 DEF ClientSafe, Counted
  <2>3. Cardinality(Underway(t)') + Len(completed'[t]) <= inFlight[t] + call[t].wait
    <3> DEFINE a == Cardinality(Underway(t))  a2 == Cardinality(Underway(t)')  n == Len(completed[t])  n2 == Len(completed'[t])
               w == inFlight[t] + call[t].wait
    <3>1. a \in Nat /\ a2 = a - 1 /\ n \in Nat /\ n2 = n + 1 /\ a + n <= w
      BY <1>3, <1>9, <2>1, <2>2
    <3> HIDE DEF a, a2, n, n2
    <3>2. a2 + n2 <= w
      BY <3>1
    <3>3. QED BY <3>2 DEF a2, n2
  <2>4. QED BY <1>1, <1>3, <2>3 DEF ClientSafe, Counted
<1>15. Pages(t)' = Pages(t)
  BY <1>1 DEF Pages
<1>16. Owned(t)'
  <2>1. \A i \in Open(t) : /\ sub'[t][i].op = sub[t][i].op /\ sub'[t][i].block = sub[t][i].block /\ sub'[t][i].page = sub[t][i].page
                           /\ sub[t][i].op = "write" => sub'[t][i].data = sub[t][i].data
    <3>1. \A i \in Slots : i # s => sub'[t][i] = sub[t][i]
      BY <1>2
    <3>2. QED BY <1>2, <1>11, <3>1
  <2>2. \A i \in Answered(t) : sub'[t][i] = sub[t][i]
    BY <1>2, <1>8, <1>11 DEF Open
  <2>3. \A i \in Answered(t)' : sub'[t][i].data # << >> /\ sub'[t][i].data[1] = sub'[t][i].block
    BY <1>2, <1>3, <1>9, <2>2 DEF ClientSafe, Owned
  <2>4. \A i \in Open(t)' :
          /\ sub'[t][i].block \in Blocks
          /\ call[t].pc # "move" => sub'[t][i].op # "write"
          /\ call[t].pc = "move" => /\ sub'[t][i].op = call[t].op
                                    /\ sub'[t][i].page \in DOMAIN Pages(t) /\ sub'[t][i].block = Pages(t)[sub'[t][i].page][2]
                                    /\ call[t].op = "write" => sub'[t][i].data = <<sub'[t][i].block, call[t].value>>
    BY <1>3, <1>11, <2>1 DEF ClientSafe, Owned
  <2>5. QED BY <1>1, <1>15, <2>3, <2>4 DEF Owned
<1>17. Copied(t)'
  BY <1>1, <1>3, <1>15 DEF ClientSafe, Copied
<1>18. ASSUME NEW u \in Clients \ {t}
       PROVE  ClientSafe(u)'
  <2>1. inFlight[u] \in Nat /\ completed[u] \in Seq(Slots) /\ call[u].wait \in Nat /\ ClientSafe(u)
    BY ClientTyped DEF IoSafe
  <2>2. sub'[u] = sub[u]
    <3>1. \A k \in Slots : sub'[u][k] = sub[u][k]
      BY <1>2
    <3>2. sub'[u] \in [Slots -> Subs] /\ sub[u] \in [Slots -> Subs]
      BY <1>2 DEF IoSafe, IoTyped
    <3>3. QED BY <3>1, <3>2
  <2>3. QED BY <1>1, <1>9, <1>10, <2>1, <2>2, ClientStays
<1>19. QED BY <1>7, <1>12, <1>13, <1>14, <1>16, <1>17, <1>18 DEF IoSafe, ClientSafe

-----------------------------------------------------------------------------
LEMMA InitSafe ==
  ASSUME IoAssumption, Init
  PROVE  IoSafe
<1>1. NoCall.op = "none" /\ NoCall.wait = 0 /\ [NoCall EXCEPT !.pc = "new"] \in Calls
      /\ [NoCall EXCEPT !.pc = "new"].pc = "new" /\ [NoCall EXCEPT !.pc = "new"].op = "none" /\ [NoCall EXCEPT !.pc = "new"].wait = 0
  <2>1. << >> \in Seq(Seq(Blocks)) /\ << >> \in Seq(Data) /\ 0 \in Nat /\ 1 \in Nat \ {0} /\ 0 \in 0..1
    OBVIOUS
  <2>2. [NoCall EXCEPT !.pc = "new"]
        = [pc |-> "new", op |-> "none", req |-> << >>, next |-> 1, start |-> 1, got |-> << >>, wait |-> 0, value |-> 0]
    BY DEF NoCall
  <2>3. QED BY <2>1, <2>2 DEF NoCall, Calls
<1>2. Nothing \in Subs
  BY DEF Nothing, Subs, Data
<1>3. IoTyped
  <2>1. << >> \in Seq(Clients \X Slots) /\ << >> \in Seq(Slots) /\ {} \in SUBSET Slots /\ 0 \in Nat /\ 0 \in 0..1
    OBVIOUS
  <2>2. QED BY <1>1, <1>2, <2>1 DEF Init, IoTyped
<1>4. ToSet(<< >>) = {} /\ IsInjective(<< >>) /\ Len(<< >>) = 0
  BY DEF ToSet, IsInjective
<1>5. IsFiniteSet({}) /\ Cardinality({}) = 0
  BY FS_EmptySet
<1>6. Queued
  <2>1. 0 <= 0
    OBVIOUS
  <2>2. QED BY <1>4, <1>5, <2>1 DEF Init, Queued
<1>7. ASSUME NEW t \in Clients
      PROVE  ClientSafe(t)
  <2>1. Underway(t) = {} /\ Answered(t) = {} /\ Open(t) = {} /\ completed[t] = << >> /\ unused[t] = {} /\ inFlight[t] = 0
    BY <1>4 DEF Init, Underway, Answered, Open
  <2>2. call[t].pc = "new" /\ call[t].op = "none" /\ call[t].wait = 0
    BY <1>1 DEF Init
  <2>3. 0 + 0 <= 0 + 0 /\ ~(0 > 0)
    OBVIOUS
  <2>4. Counted(t)
    BY <1>4, <1>5, <2>1, <2>2, <2>3 DEF Counted
  <2>5. QED BY <1>4, <2>1, <2>2, <2>4 DEF ClientSafe, Apart, Owned, Copied
<1>8. QED BY <1>3, <1>6, <1>7 DEF IoSafe

LEMMA AskAsks ==
  ASSUME IoAssumption, NEW t \in Clients, Ask(t)
  PROVE  Exit(t) \/ \E o, req, v : Asked(t, o, req, v) /\ Call(t, o, req, v)
<1>1. ASSUME NEW q \in Requests, t \in Readers, Call(t, "batch", q, 0)
      PROVE  Asked(t, "batch", q, 0)
  BY <1>1 DEF Asked, IoAssumption
<1>2. ASSUME NEW o \in Outputs, t \in Writers, NEW k \in {"get", "write"}, NEW v \in 0..1
      PROVE  Asked(t, k, <<o>>, v)
  <2>1. o \in Seq(Blocks) /\ ~(t \in Readers)
    BY <1>2 DEF IoAssumption
  <2>2. <<o>> \in Seq(Seq(Blocks)) /\ Len(<<o>>) = 1
    BY <2>1
  <2>3. QED BY <1>2, <2>1, <2>2 DEF Asked
<1>3. CASE t \in Readers /\ \E q \in Requests : Call(t, "batch", q, 0)
  BY <1>1, <1>3
<1>4. CASE t \in Writers /\ \E o \in Outputs : Call(t, "get", <<o>>, 0) \/ \E v \in 0..1 : Call(t, "write", <<o>>, v)
  <2>1. PICK o \in Outputs : Call(t, "get", <<o>>, 0) \/ \E v \in 0..1 : Call(t, "write", <<o>>, v)
    BY <1>4
  <2>2. CASE Call(t, "get", <<o>>, 0)
    <3>1. Asked(t, "get", <<o>>, 0)
      BY <1>2, <1>4
    <3>2. QED BY <2>2, <3>1
  <2>3. CASE \E v \in 0..1 : Call(t, "write", <<o>>, v)
    <3>1. PICK v \in 0..1 : Call(t, "write", <<o>>, v)
      BY <2>3
    <3>2. Asked(t, "write", <<o>>, v)
      BY <1>2, <1>4
    <3>3. QED BY <3>1, <3>2
  <2>4. QED BY <2>1, <2>2, <2>3
<1>5. QED BY <1>3, <1>4 DEF Ask

LEMMA StepSafe ==
  ASSUME IoAssumption, IoSafe, [Next]_vars
  PROVE  IoSafe'
<1>1. ssd \in [inflight : Nat, at : {"off", "loop", "reactor", "stopped"}]
  BY DEF IoSafe, IoTyped
<1>2. CASE Ssd
  BY <1>2, SafeLoopSubmit, SafeLoopEnds, SafeCallback DEF Ssd
<1>3. CASE Stop
  <2>1. ssd' = [ssd EXCEPT !.at = "stopped"] /\ UNCHANGED <<sub, unused, inFlight, submitted, device, completed, disk, call>>
    BY <1>3 DEF Stop
  <2>2. ssd' \in [inflight : Nat, at : {"off", "loop", "reactor", "stopped"}] /\ ssd'.inflight = ssd.inflight
    BY <1>1, <2>1
  <2>3. QED BY <2>1, <2>2, SafeStop
<1>4. ASSUME NEW t \in Clients, Move(t)
      PROVE  IoSafe'
  BY <1>4, SafeInitialize, SafeClear, SafeSubmit, SafeComplete, SafeFinish, SafeReturn, SafeExitClear DEF Move
<1>5. ASSUME NEW t \in Clients, Ask(t)
      PROVE  IoSafe'
  BY <1>5, AskAsks, SafeExit, SafeCall
<1>6. ASSUME NEW t \in Clients, Timeout(t)
      PROVE  IoSafe'
  BY <1>6, SafeTimeout
<1>7. CASE UNCHANGED vars
  BY <1>1, <1>7, SafeStop DEF vars
<1>8. QED BY <1>2, <1>3, <1>4, <1>5, <1>6, <1>7 DEF Next

LEMMA AlwaysSafe ==
  ASSUME IoAssumption
  PROVE  Spec => []IoSafe
<1>1. Init => IoSafe
  BY InitSafe
<1>2. IoSafe /\ [Next]_vars => IoSafe'
  BY StepSafe
<1>3. QED BY <1>1, <1>2, PTL DEF Spec

(* The counters of a client stay between 0 and m_ssdSpdkIoDepth, whichever *)
(* calls it makes and whichever give up, and each variable keeps its type. *)
THEOREM IoAlwaysTyped ==
  ASSUME IoAssumption
  PROVE  Spec => []TypeOK
<1>1. ASSUME IoSafe
      PROVE  TypeOK
  <2>1. ASSUME NEW t \in Clients
        PROVE  inFlight[t] \in 0..Depth /\ call[t].wait \in 0..Depth
    <3>1. ClientSafe(t) /\ inFlight[t] \in Nat /\ call[t].wait \in Nat /\ unused[t] \in SUBSET Slots
      BY <1>1, ClientTyped DEF IoSafe
    <3>2. Cardinality(unused[t]) \in Nat
      BY <3>1, SlotsFinite
    <3>3. CASE call[t].pc \in {"new", "gone"}
      BY <3>1, <3>3 DEF ClientSafe, Counted, IoAssumption
    <3>4. CASE call[t].pc \notin {"new", "gone"}
      BY <3>1, <3>2, <3>4 DEF ClientSafe, Counted, IoAssumption
    <3>5. QED BY <3>3, <3>4
  <2>2. ASSUME NEW t \in Clients
        PROVE  /\ unused[t] \subseteq Slots /\ completed[t] \in Seq(Slots)
               /\ call[t].pc \in {"new", "idle", "clear", "move", "done", "exit", "gone"}
    BY <1>1, ClientTyped DEF IoSafe
  <2>3. submitted \in Seq(Clients \X Slots) /\ device \subseteq Clients \X Slots
        /\ ssd.inflight \in Nat /\ ssd.at \in {"off", "loop", "reactor", "stopped"} /\ disk \in [Blocks -> 0..1]
    BY <1>1 DEF IoSafe, IoTyped
  <2>4. QED BY <2>1, <2>2, <2>3 DEF TypeOK
<1>2. QED BY <1>1, AlwaysSafe, PTL

(* A request is in one place: it is unused, in the queue of the SPDK       *)
(* thread, with the device or in its client's queue of completed ones, and *)
(* neither a client nor the SPDK thread counts too few of them, although a *)
(* read that gives up leaves its requests to the next call.                *)
THEOREM RequestsInOnePlace ==
  ASSUME IoAssumption
  PROVE  Spec => []RequestsKept
<1>1. ASSUME IoSafe
      PROVE  RequestsKept
  <2>1. IsInjective(submitted) /\ device \cap ToSet(submitted) = {} /\ Cardinality(device) <= ssd.inflight
    BY <1>1 DEF IoSafe, Queued
  <2>2. ASSUME NEW t \in Clients
        PROVE  /\ IsInjective(completed[t])
               /\ Underway(t) \cap ToSet(completed[t]) = {}
               /\ unused[t] \cap (Underway(t) \cup ToSet(completed[t])) = {}
               /\ Cardinality(Underway(t)) + Len(completed[t]) <= inFlight[t] + call[t].wait
    BY <1>1 DEF IoSafe, ClientSafe, Apart, Counted, Open, Answered
  <2>3. QED BY <2>1, <2>2 DEF RequestsKept
<1>2. QED BY <1>1, AlwaysSafe, PTL

(* A read returns of each posting its own blocks or nothing: an answer     *)
(* that is late for the read it was for never ends in the next one's       *)
(* buffer.                                                                 *)
THEOREM OwnBlocksRead ==
  ASSUME IoAssumption
  PROVE  Spec => []ReadsOwnBlocks
<1>1. ASSUME IoSafe
      PROVE  ReadsOwnBlocks
  <2>1. ASSUME NEW t \in Clients, At(t, "done"), NEW p \in DOMAIN call[t].req, Answer(t, p) # {}
        PROVE  {d[1] : d \in Answer(t, p)} = ToSet(call[t].req[p])
    <3> DEFINE mine == {i \in DOMAIN Pages(t) : Pages(t)[i][1] = p}
    <3>1. Answer(t, p) = {call[t].got[i] : i \in mine} /\ \A i \in mine : call[t].got[i] # << >>
      BY <2>1 DEF Answer
    <3>2. DOMAIN call[t].got = DOMAIN Pages(t) /\ \A i \in DOMAIN call[t].got : call[t].got[i] = << >> \/ call[t].got[i][1] = Pages(t)[i][2]
      BY <1>1, <2>1 DEF IoSafe, ClientSafe, Copied, At
    <3>3. {Pages(t)[i][2] : i \in mine} = ToSet(call[t].req[p])
      BY <1>1, <2>1, PagesTyped DEF IoSafe
    <3> HIDE DEF mine
    <3>4. \A i \in mine : call[t].got[i][1] = Pages(t)[i][2]
      BY <3>1, <3>2 DEF mine
    <3>5. QED BY <3>1, <3>3, <3>4
  <2>2. QED BY <2>1 DEF ReadsOwnBlocks
<1>2. QED BY <1>1, AlwaysSafe, PTL

-----------------------------------------------------------------------------
(* What a write has on the disk. *)
LEMMA WrittenStays ==
  ASSUME NEW t \in Clients, Written(t), sub'[t] = sub[t], unused'[t] = unused[t], completed'[t] = completed[t],
         call'[t] = call[t], disk' = disk
  PROVE  Written(t)'
BY DEF Written, Pages, Answered

LEMMA NoWrite ==
  ASSUME NEW t \in Clients, call'[t].op # "write"
  PROVE  Written(t)'
BY DEF Written

LEMMA WrittenSubmit ==
  ASSUME IoAssumption, WriteSafe, NEW t \in Clients, Submit(t)
  PROVE  \A u \in Clients : Written(u)'
<1> DEFINE i == call[t].next
           r == [op |-> call[t].op, block |-> Pages(t)[i][2], page |-> i,
                 data |-> IF call[t].op = "write" THEN <<Pages(t)[i][2], call[t].value>> ELSE << >>]
<1>1. IoSafe /\ Written(t) /\ call \in [Clients -> Calls] /\ sub \in [Clients -> [Slots -> Subs]] /\ unused \in [Clients -> SUBSET Slots]
  BY DEF WriteSafe, IoSafe, IoTyped
<1>2. PICK k \in unused[t] : unused' = [unused EXCEPT ![t] = @ \ {k}] /\ sub' = [sub EXCEPT ![t][k] = r]
  BY <1>1, SubmitTakes
<1>3. r.page = i
  OBVIOUS
<1> HIDE DEF r
<1>4. call[t].pc = "move" /\ UNCHANGED <<completed, disk>> /\ ClientSafe(t) /\ i \in Nat /\ k \in Slots
  BY <1>1, ClientTyped DEF Submit, At, IoSafe
<1>5. \A u \in Clients \ {t} : call'[u] = call[u] /\ sub'[u] = sub[u] /\ unused'[u] = unused[u]
  <2>1. \A u \in Clients \ {t} : call'[u] = call[u]
    <3>1. CASE call[t].op = "write"
      BY <1>1, <3>1 DEF Submit
    <3>2. CASE call[t].op # "write"
      BY <1>1, <3>2 DEF Submit
    <3>3. QED BY <3>1, <3>2
  <2>2. QED BY <1>1, <1>2, <2>1
<1>6. \A u \in Clients \ {t} : Written(u)'
  BY <1>4, <1>5, WrittenStays DEF WriteSafe
<1>7. unused'[t] = unused[t] \ {k} /\ sub'[t][k] = r /\ \A j \in Slots \ {k} : sub'[t][j] = sub[t][j]
  BY <1>1, <1>2, <1>4
<1>8. CASE call[t].op = "write"
  <2>1. /\ call'[t].pc = "move" /\ call'[t].op = "write" /\ call'[t].req = call[t].req /\ call'[t].value = call[t].value
        /\ call'[t].next = i + 1
    <3>1. call' = [call EXCEPT ![t].next = @ + 1, ![t].wait = @ + 1]
      BY <1>8 DEF Submit
    <3>2. call[t] \in Calls
      BY <1>1
    <3>3. QED BY <1>1, <1>4, <1>8, <3>1, <3>2 DEF Calls
  <2>2. Pages(t)' = Pages(t) /\ DOMAIN Pages(t) \subseteq Nat
    BY <1>1, <2>1, PagesTyped DEF Pages, IoSafe
  <2>3. \A j \in DOMAIN Pages(t) : j < i + 1 => j < i \/ j = i
    BY <1>4, <2>2
  <2>4. ASSUME NEW j \in DOMAIN Pages(t), j < i + 1
        PROVE  disk[Pages(t)[j][2]] = call[t].value \/ \E x \in Slots \ unused'[t] : sub'[t][x].page = j
    <3>1. CASE j < i
      BY <1>1, <1>4, <1>7, <1>8, <3>1 DEF Written
    <3>2. CASE j = i
      BY <1>3, <1>4, <1>7, <3>2
    <3>3. QED BY <2>3, <2>4, <3>1, <3>2
  <2>5. Answered(t)' = Answered(t) /\ \A x \in Answered(t) : sub'[t][x] = sub[t][x]
    <3>1. Answered(t)' = Answered(t)
      BY <1>4 DEF Answered
    <3>2. Answered(t) \subseteq Slots
      BY <1>1, ClientTyped DEF IoSafe
    <3>3. k \notin Answered(t)
      BY <1>4 DEF ClientSafe, Apart, Open
    <3>4. QED BY <1>7, <3>1, <3>2, <3>3
  <2>6. \A x \in Answered(t)' : disk[Pages(t)[sub'[t][x].page][2]] = call[t].value
    BY <1>1, <1>4, <1>8, <2>5 DEF Written
  <2>7. Len(call[t].req) = 1
    BY <1>1, <1>8 DEF Written
  <2>8. Written(t)'
    BY <1>4, <2>1, <2>2, <2>4, <2>6, <2>7 DEF Written
  <2>9. QED BY <1>6, <2>8
<1>9. CASE call[t].op # "write"
  <2>1. call'[t].op = call[t].op
    BY <1>1, <1>9 DEF Submit, Calls
  <2>2. QED BY <1>6, <1>9, <2>1, NoWrite
<1>10. QED BY <1>8, <1>9

LEMMA WrittenComplete ==
  ASSUME IoAssumption, WriteSafe, NEW t \in Clients, Complete(t)
  PROVE  \A u \in Clients : Written(u)'
<1> DEFINE k == Head(completed[t])
<1>1. IoSafe /\ Written(t) /\ call \in [Clients -> Calls]
  BY DEF WriteSafe, IoSafe, IoTyped
<1>2. completed[t] # << >> /\ Recycle(t, Head(completed[t])) /\ UNCHANGED <<submitted, device, ssd, disk>> /\ call[t].pc = "move"
  BY DEF Complete, At
<1>3. /\ k \in Answered(t) /\ k \in Slots
      /\ \A u \in Clients \ {t} : sub'[u] = sub[u] /\ unused'[u] = unused[u] /\ completed'[u] = completed[u]
      /\ unused'[t] = unused[t] \cup {k} /\ Answered(t)' = Answered(t) \ {k} /\ Answered(t) \subseteq Slots
      /\ \A i \in Slots \ {k} : sub'[t][i] = sub[t][i]
  BY <1>1, <1>2, Recycled, ClientTyped DEF IoSafe
<1>4. PICK c \in Calls :
        /\ call' = [call EXCEPT ![t] = c]
        /\ c.pc = "move" /\ c.op = call[t].op /\ c.req = call[t].req /\ c.value = call[t].value /\ c.next = call[t].next
  BY <1>1, CompleteTakes
<1> HIDE DEF k
<1>5. call'[t] = c /\ \A u \in Clients \ {t} : call'[u] = call[u]
  BY <1>1, <1>4
<1>6. \A u \in Clients \ {t} : Written(u)'
  BY <1>2, <1>3, <1>5, WrittenStays DEF WriteSafe
<1>7. Pages(t)' = Pages(t)
  BY <1>4, <1>5 DEF Pages
<1>8. CASE c.op = "write"
  <2>1. /\ \A i \in DOMAIN Pages(t) : i < call[t].next =>
             disk[Pages(t)[i][2]] = call[t].value \/ \E x \in Slots \ unused[t] : sub[t][x].page = i
        /\ \A x \in Answered(t) : disk[Pages(t)[sub[t][x].page][2]] = call[t].value
        /\ Len(call[t].req) = 1
    BY <1>1, <1>2, <1>4, <1>8 DEF Written
  <2>2. ASSUME NEW i \in DOMAIN Pages(t), i < call[t].next
        PROVE  disk[Pages(t)[i][2]] = call[t].value \/ \E x \in Slots \ unused'[t] : sub'[t][x].page = i
    <3>1. CASE disk[Pages(t)[i][2]] = call[t].value
      BY <3>1
    <3>2. CASE \E x \in Slots \ unused[t] : sub[t][x].page = i
      <4>1. PICK x \in Slots \ unused[t] : sub[t][x].page = i
        BY <3>2
      <4>2. CASE x = k
        BY <1>3, <2>1, <4>1, <4>2
      <4>3. CASE x # k
        BY <1>3, <4>1, <4>3
      <4>4. QED BY <4>2, <4>3
    <3>3. QED BY <2>1, <2>2, <3>1, <3>2
  <2>3. \A x \in Answered(t)' : disk[Pages(t)[sub'[t][x].page][2]] = call[t].value
    BY <1>3, <2>1
  <2>4. Written(t)'
    BY <1>2, <1>4, <1>5, <1>7, <2>1, <2>2, <2>3 DEF Written
  <2>5. QED BY <1>6, <2>4
<1>9. CASE c.op # "write"
  BY <1>5, <1>6, <1>9, NoWrite
<1>10. QED BY <1>8, <1>9

LEMMA WrittenFinish ==
  ASSUME IoAssumption, WriteSafe, NEW t \in Clients, Finish(t)
  PROVE  \A u \in Clients : Written(u)'
<1>1. IoSafe /\ ClientSafe(t) /\ Written(t) /\ call \in [Clients -> Calls] /\ call[t] \in Calls
  BY DEF WriteSafe, IoSafe, IoTyped
<1>2. UNCHANGED <<sub, unused, inFlight, submitted, device, completed, ssd, disk>> /\ call[t].pc = "move" /\ Waiting(t) = 0
  BY DEF Finish, At
<1>3. \A u \in Clients \ {t} : call'[u] = call[u]
  <2>1. CASE call[t].next > Len(Pages(t))
    BY <1>1, <2>1 DEF Finish
  <2>2. CASE ~(call[t].next > Len(Pages(t)))
    BY <1>1, <2>2 DEF Finish
  <2>3. QED BY <2>1, <2>2
<1>4. \A u \in Clients \ {t} : Written(u)'
  BY <1>2, <1>3, WrittenStays DEF WriteSafe
<1>5. CASE call[t].op # "write"
  <2>1. call'[t].op = call[t].op
    <3>1. CASE call[t].next > Len(Pages(t))
      BY <1>1, <3>1 DEF Finish, Calls
    <3>2. CASE ~(call[t].next > Len(Pages(t)))
      BY <1>1, <3>2 DEF Finish, Calls
    <3>3. QED BY <3>1, <3>2
  <2>2. QED BY <1>4, <1>5, <2>1, NoWrite
<1>6. CASE call[t].op = "write" /\ call[t].next > Len(Pages(t))
  <2>1. call'[t] = [call[t] EXCEPT !.pc = "done"]
    BY <1>1, <1>6 DEF Finish
  <2>2. call'[t].pc = "done" /\ call'[t].op = "write" /\ call'[t].req = call[t].req /\ call'[t].value = call[t].value
    BY <1>1, <1>6, <2>1 DEF Calls
  <2>3. unused[t] = Slots
    <3>1. call[t].wait = 0 /\ inFlight[t] = 0 /\ unused[t] \in SUBSET Slots
      <4>1. call[t].wait = 0
        BY <1>2, <1>6 DEF Waiting
      <4>2. t \in Writers
        BY <1>1, <1>6 DEF ClientSafe, Counted
      <4>3. inFlight[t] = 0
        BY <1>1, <1>6, <4>2 DEF ClientSafe, Counted
      <4>4. QED BY <1>1, <4>1, <4>3, ClientTyped DEF IoSafe
    <3>2. Cardinality(unused[t]) + 0 + 0 = Depth /\ Cardinality(unused[t]) \in Nat
      BY <1>1, <1>2, <3>1, SlotsFinite DEF ClientSafe, Counted
    <3>3. Cardinality(unused[t]) = Depth
      BY <3>2
    <3>4. QED BY <3>1, <3>3, SlotsFinite
  <2>4. \A i \in DOMAIN Pages(t) : i < call[t].next
    <3>1. DOMAIN Pages(t) = 1..Len(Pages(t)) /\ Len(Pages(t)) \in Nat /\ call[t].next \in Nat
      BY <1>1, PagesTyped, ClientTyped DEF IoSafe
    <3>2. QED BY <1>6, <3>1
  <2>5. (\A i \in DOMAIN Pages(t) : disk[Pages(t)[i][2]] = call[t].value) /\ Len(call[t].req) = 1
    BY <1>1, <1>2, <1>6, <2>3, <2>4 DEF Written
  <2>6. Pages(t)' = Pages(t)
    BY <2>2 DEF Pages
  <2>7. Written(t)'
    BY <1>2, <2>2, <2>5, <2>6 DEF Written
  <2>8. QED BY <1>4, <2>7
<1>7. CASE call[t].op = "write" /\ ~(call[t].next > Len(Pages(t)))
  <2>1. call'[t] = [call[t] EXCEPT !.start = @ + Batch]
    BY <1>1, <1>7 DEF Finish
  <2>2. /\ call'[t].pc = "move" /\ call'[t].op = "write" /\ call'[t].req = call[t].req /\ call'[t].value = call[t].value
        /\ call'[t].next = call[t].next
    BY <1>1, <1>2, <1>7, <2>1 DEF Calls
  <2>3. Pages(t)' = Pages(t)
    BY <2>2 DEF Pages
  <2>4. Written(t)'
    BY <1>1, <1>2, <1>7, <2>2, <2>3 DEF Written, Answered
  <2>5. QED BY <1>4, <2>4
<1>8. QED BY <1>5, <1>6, <1>7

LEMMA WrittenCall ==
  ASSUME IoAssumption, WriteSafe, NEW t \in Clients, NEW o, NEW req, NEW v, Asked(t, o, req, v), Call(t, o, req, v)
  PROVE  \A u \in Clients : Written(u)'
<1> DEFINE none == [i \in DOMAIN PagesOf(req) |-> << >>]
           c == [NoCall EXCEPT !.pc = IF o = "write" THEN "move" ELSE "clear", !.op = o, !.req = req, !.value = v, !.got = none]
<1>1. IoSafe /\ ClientSafe(t) /\ call \in [Clients -> Calls] /\ call[t].pc = "idle" /\ call[t].wait \in Nat
  BY ClientTyped DEF WriteSafe, IoSafe, IoTyped, Call, At
<1>2. call' = [call EXCEPT ![t] = c] /\ UNCHANGED <<sub, unused, inFlight, submitted, device, completed, ssd, disk>>
  BY DEF Call
<1>3. c.op = o /\ c.next = 1 /\ c.req = req /\ (o = "write" => c.pc = "move")
  BY DEF NoCall
<1> HIDE DEF c, none
<1>4. call'[t] = c /\ \A u \in Clients \ {t} : call'[u] = call[u]
  BY <1>1, <1>2
<1>5. \A u \in Clients \ {t} : Written(u)'
  BY <1>2, <1>4, WrittenStays DEF WriteSafe
<1>6. CASE o = "write"
  <2>1. call[t].wait = 0 /\ inFlight[t] = 0
    BY <1>1, <1>6 DEF ClientSafe, Counted, Asked
  <2>2. Answered(t)' = {}
    BY <1>1, <1>2, <2>1, NoneOpen DEF Answered, IoSafe
  <2>3. PagesOf(req) \in Seq((DOMAIN req) \X Blocks) /\ Len(req) = 1
    BY <1>6, PagesShape DEF Asked
  <2>4. Pages(t)' = PagesOf(req)
    BY <1>3, <1>4 DEF Pages
  <2>5. \A i \in DOMAIN PagesOf(req) : ~(i < 1)
    BY <2>3
  <2>6. Written(t)'
    BY <1>3, <1>4, <1>6, <2>2, <2>3, <2>4, <2>5 DEF Written
  <2>7. QED BY <1>5, <2>6
<1>7. CASE o # "write"
  BY <1>3, <1>4, <1>5, <1>7, NoWrite
<1>8. QED BY <1>6, <1>7

LEMMA WrittenCallback ==
  ASSUME IoAssumption, OneWriter, WriteSafe, NEW t \in Clients, NEW s \in Slots, Callback(<<t, s>>), NEW u \in Clients
  PROVE  Written(u)'
<1>1. IoSafe /\ ClientSafe(t) /\ ClientSafe(u) /\ Written(u) /\ disk \in [Blocks -> 0..1]
  BY DEF WriteSafe, IoSafe, IoTyped
<1>2. /\ UNCHANGED <<unused, inFlight, submitted, call>> /\ completed' = [completed EXCEPT ![t] = Append(@, s)]
      /\ completed \in [Clients -> Seq(Slots)]
  BY <1>1 DEF Callback, IoSafe, IoTyped
<1>3. /\ s \in Underway(t)
      /\ sub' \in [Clients -> [Slots -> Subs]]
      /\ \A w \in Clients : \A k \in Slots : <<w, k>> # <<t, s>> => sub'[w][k] = sub[w][k]
      /\ sub'[t][s].op = sub[t][s].op /\ sub'[t][s].block = sub[t][s].block /\ sub'[t][s].page = sub[t][s].page
      /\ IF sub[t][s].op = "write"
           THEN /\ call[t].pc = "move" /\ call[t].op = "write" /\ sub' = sub
                /\ disk' = [disk EXCEPT ![sub[t][s].block] = call[t].value]
           ELSE disk' = disk
  BY <1>1, CallbackAnswers
<1>4. SUFFICES ASSUME call[u].op = "write"
               PROVE  Written(u)'
  BY <1>2, NoWrite
<1>5. u \in Writers /\ call[u].pc \in {"move", "done"} /\ Len(call[u].req) = 1
  BY <1>1, <1>4 DEF ClientSafe, Counted, Written
<1>6. Pages(u)' = Pages(u)
  BY <1>2 DEF Pages
<1>7. CASE sub[t][s].op = "write"
  <2>1. u = t
    <3>1. t \in Writers
      BY <1>1, <1>3, <1>7 DEF ClientSafe, Counted
    <3>2. QED BY <1>5, <3>1 DEF OneWriter
  <2>2. call[t].pc = "move" /\ sub' = sub /\ disk' = [disk EXCEPT ![sub[t][s].block] = call[t].value]
    BY <1>3, <1>7
  <2>3. sub[t][s].block \in Blocks /\ sub[t][s].block = Pages(t)[sub[t][s].page][2]
    BY <1>1, <1>3, <2>2 DEF ClientSafe, Owned, Open
  <2>4. disk'[sub[t][s].block] = call[t].value /\ \A b \in Blocks : disk[b] = call[t].value => disk'[b] = call[t].value
    BY <1>1, <2>2, <2>3
  <2>5. Answered(t)' = Answered(t) \cup {s}
    <3>1. completed'[t] = Append(completed[t], s) /\ completed[t] \in Seq(Slots)
      BY <1>2
    <3>2. ToSet(Append(completed[t], s)) = ToSet(completed[t]) \cup {s}
      BY <3>1, AppendedElements
    <3>3. QED BY <3>1, <3>2 DEF Answered
  <2>6. \A i \in DOMAIN Pages(t) : Pages(t)[i][2] \in Blocks
    BY <1>1, PagesTyped DEF IoSafe
  <2>7. \A i \in DOMAIN Pages(t) : i < call[t].next =>
           disk'[Pages(t)[i][2]] = call[t].value \/ \E k \in Slots \ unused[t] : sub[t][k].page = i
    BY <1>1, <1>4, <2>1, <2>2, <2>4, <2>6 DEF Written
  <2>8. \A k \in Answered(t) \cup {s} : disk'[Pages(t)[sub[t][k].page][2]] = call[t].value
    <3>1. \A k \in Answered(t) : sub[t][k].page \in DOMAIN Pages(t)
      BY <1>1, <2>2 DEF ClientSafe, Owned, Open
    <3>2. \A k \in Answered(t) : disk[Pages(t)[sub[t][k].page][2]] = call[t].value
      BY <1>1, <1>4, <2>1, <2>2 DEF Written
    <3>3. QED BY <2>3, <2>4, <2>6, <3>1, <3>2
  <2>9. QED BY <1>2, <1>5, <1>6, <2>1, <2>2, <2>5, <2>7, <2>8 DEF Written
<1>8. CASE sub[t][s].op # "write"
  <2>1. u # t
    <3>1. s \in Open(t)
      BY <1>3 DEF Open
    <3>2. SUFFICES ASSUME u = t PROVE FALSE
      OBVIOUS
    <3>3. call[t].pc = "move"
      <4>1. call[t].pc # "done"
        <5>1. SUFFICES ASSUME call[t].pc = "done" PROVE FALSE
          OBVIOUS
        <5>2. call[t].wait = 0 /\ inFlight[t] = 0 /\ call[t].wait \in Nat
          BY <1>1, <1>5, <3>2, <5>1, ClientTyped DEF ClientSafe, Counted, IoSafe
        <5>3. Open(t) = {}
          BY <1>1, <5>2, NoneOpen DEF IoSafe
        <5>4. QED BY <3>1, <5>3
      <4>2. QED BY <1>5, <3>2, <4>1
    <3>4. sub[t][s].op = call[t].op
      BY <1>1, <3>1, <3>3 DEF ClientSafe, Owned
    <3>5. QED BY <1>4, <1>8, <3>2, <3>4
  <2>2. sub'[u] = sub[u]
    <3>1. \A k \in Slots : sub'[u][k] = sub[u][k]
      BY <1>3, <2>1
    <3>2. sub'[u] \in [Slots -> Subs] /\ sub[u] \in [Slots -> Subs]
      BY <1>1, <1>3, ClientTyped DEF IoSafe
    <3>3. QED BY <3>1, <3>2
  <2>3. completed'[u] = completed[u] /\ disk' = disk
    BY <1>2, <1>3, <1>8, <2>1
  <2>4. QED BY <1>1, <1>2, <2>2, <2>3, WrittenStays
<1>9. QED BY <1>7, <1>8

(* A step of a client that is no write changes nothing of one. *)
LEMMA OtherStep ==
  ASSUME IoAssumption, WriteSafe, NEW t \in Clients,
         Initialize(t) \/ Clear(t) \/ Return(t) \/ ExitClear(t) \/ Exit(t) \/ Timeout(t)
  PROVE  \A u \in Clients : Written(u)'
<1>1. /\ IoSafe /\ ClientSafe(t) /\ Written(t) /\ call \in [Clients -> Calls] /\ call[t] \in Calls
      /\ unused \in [Clients -> SUBSET Slots] /\ sub \in [Clients -> [Slots -> Subs]] /\ completed \in [Clients -> Seq(Slots)]
  BY DEF WriteSafe, IoSafe, IoTyped
<1>2. call[t].op = "write" => call[t].pc \in {"move", "done"}
  BY <1>1 DEF Written
<1>3. disk' = disk
  BY DEF Initialize, Clear, Return, ExitClear, Exit, Timeout
<1>4. \A u \in Clients \ {t} : call'[u] = call[u] /\ unused'[u] = unused[u] /\ sub'[u] = sub[u] /\ completed'[u] = completed[u]
  <2>1. CASE Initialize(t)
    BY <1>1, <2>1 DEF Initialize
  <2>2. CASE Clear(t)
    BY <1>1, <2>2 DEF Clear, Recycle
  <2>3. CASE Return(t) \/ Exit(t) \/ Timeout(t)
    BY <1>1, <2>3 DEF Return, Exit, Timeout
  <2>4. CASE ExitClear(t)
    BY <1>1, <2>4 DEF ExitClear, Recycle
  <2>5. QED BY <2>1, <2>2, <2>3, <2>4
<1>5. \A u \in Clients \ {t} : Written(u)'
  BY <1>3, <1>4, WrittenStays DEF WriteSafe
<1>6. call'[t].op # "write"
  <2>1. CASE Initialize(t)
    BY <1>1, <1>2, <2>1 DEF Initialize, At, Calls
  <2>2. CASE Clear(t)
    <3>1. call[t].op # "write"
      BY <1>2, <2>2 DEF Clear, At
    <3>2. call' = call \/ call' = [call EXCEPT ![t].pc = "move"]
      BY <2>2 DEF Clear
    <3>3. QED BY <1>1, <3>1, <3>2 DEF Calls
  <2>3. CASE Return(t)
    BY <1>1, <2>3 DEF Return, NoCall
  <2>4. CASE Exit(t)
    BY <1>1, <1>2, <2>4 DEF Exit, At, Calls
  <2>5. CASE Timeout(t)
    BY <1>1, <2>5 DEF Timeout, Calls
  <2>6. CASE ExitClear(t)
    <3>1. call[t].op # "write"
      BY <1>2, <2>6 DEF ExitClear, At
    <3>2. call' = call \/ call' = [call EXCEPT ![t].pc = "gone"]
      BY <2>6 DEF ExitClear
    <3>3. QED BY <1>1, <3>1, <3>2 DEF Calls
  <2>7. QED BY <2>1, <2>2, <2>3, <2>4, <2>5, <2>6
<1>7. QED BY <1>5, <1>6, NoWrite

LEMMA StepWritten ==
  ASSUME IoAssumption, OneWriter, WriteSafe, [Next]_vars
  PROVE  WriteSafe'
<1>1. IoSafe /\ IoSafe'
  BY StepSafe DEF WriteSafe
<1>2. CASE LoopSubmit \/ LoopEnds \/ Stop \/ UNCHANGED vars
  <2>1. UNCHANGED <<sub, unused, completed, disk, call>>
    BY <1>2 DEF LoopSubmit, LoopEnds, Stop, vars
  <2>2. \A u \in Clients : Written(u)'
    BY <2>1, WrittenStays DEF WriteSafe
  <2>3. QED BY <1>1, <2>2 DEF WriteSafe
<1>3. ASSUME NEW t \in Clients, NEW s \in Slots, Callback(<<t, s>>)
      PROVE  WriteSafe'
  BY <1>1, <1>3, WrittenCallback DEF WriteSafe
<1>4. ASSUME NEW t \in Clients, Move(t)
      PROVE  \A u \in Clients : Written(u)'
  BY <1>4, OtherStep, WrittenSubmit, WrittenComplete, WrittenFinish DEF Move
<1>5. ASSUME NEW t \in Clients, Ask(t)
      PROVE  \A u \in Clients : Written(u)'
  BY <1>5, AskAsks, WrittenCall, OtherStep
<1>6. ASSUME NEW t \in Clients, Timeout(t)
      PROVE  \A u \in Clients : Written(u)'
  BY <1>6, OtherStep
<1>7. QED BY <1>1, <1>2, <1>3, <1>4, <1>5, <1>6 DEF Next, Ssd, WriteSafe

(* What a write returned from is on the disk, every page of it, for one    *)
(* thread that writes, among any number that read.  (What several write    *)
(* are blocks of postings each of them has for itself, which the           *)
(* controller sees to and not the I/O.)                                    *)
THEOREM WritesReachDisk ==
  ASSUME IoAssumption, OneWriter
  PROVE  Spec => []WriteDone
<1>1. Init => WriteSafe
  <2>1. SUFFICES ASSUME Init PROVE WriteSafe
    OBVIOUS
  <2>2. \A t \in Clients : call[t].op = "none"
    BY <2>1 DEF Init, NoCall
  <2>3. \A t \in Clients : Written(t)
    BY <2>2 DEF Written
  <2>4. QED BY <2>1, <2>3, InitSafe DEF WriteSafe
<1>2. WriteSafe /\ [Next]_vars => WriteSafe'
  BY StepWritten
<1>3. ASSUME WriteSafe
      PROVE  WriteDone
  <2>1. ASSUME NEW t \in Clients, At(t, "done"), call[t].op = "write", NEW b \in ToSet(call[t].req[1])
        PROVE  disk[b] = call[t].value
    <3>1. IoSafe /\ Written(t) /\ call[t].req \in Seq(Seq(Blocks))
      BY <1>3, ClientTyped DEF WriteSafe, IoSafe
    <3>2. Len(call[t].req) = 1 /\ \A i \in DOMAIN Pages(t) : disk[Pages(t)[i][2]] = call[t].value
      BY <2>1, <3>1 DEF Written, At
    <3>3. 1 \in DOMAIN call[t].req
      BY <3>1, <3>2
    <3>4. {Pages(t)[i][2] : i \in {j \in DOMAIN Pages(t) : Pages(t)[j][1] = 1}} = ToSet(call[t].req[1])
      BY <3>1, <3>3, PagesTyped DEF IoSafe
    <3>5. PICK i \in DOMAIN Pages(t) : b = Pages(t)[i][2]
      BY <2>1, <3>4
    <3>6. QED BY <3>2, <3>5
  <2>2. QED BY <2>1 DEF WriteDone
<1>4. QED BY <1>1, <1>2, <1>3, PTL DEF Spec
=============================================================================
