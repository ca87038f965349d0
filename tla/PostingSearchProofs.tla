------------------------- MODULE PostingSearchProofs -------------------------
(***************************************************************************)
(* What a search reports, for any number of heads and vectors, any input   *)
(* and any number of updates meanwhile.                                    *)
(***************************************************************************)
EXTENDS PostingSearch, FiniteSetTheorems, TLAPS

-----------------------------------------------------------------------------
(* The order of results. *)
LEMMA BetterOrders ==
  ASSUME SearchAssumption
  PROVE  /\ \A v \in Vectors : ~Better(v, v)
         /\ \A v, w \in Vectors : v = w \/ Better(v, w) \/ Better(w, v)
         /\ \A u, v, w \in Vectors : Better(u, v) /\ Better(v, w) => Better(u, w)
         /\ \A v, w \in Vectors : Better(v, w) => ~Better(w, v)
BY DEF Better, SearchAssumption

(* Of a sequence without repetitions, as many elements stand before one as *)
(* are better, and each place is taken.                                    *)
Rank(q) == [j \in DOMAIN q |-> Cardinality({k \in DOMAIN q : Before(q, k, j)})]

LEMMA BeforeOrders ==
  ASSUME SearchAssumption, NEW q \in Seq(Vectors), IsInjective(q)
  PROVE  /\ \A i, j \in DOMAIN q : Before(q, i, j) <=> Better(q[i], q[j])
         /\ \A i, j \in DOMAIN q : i # j => Before(q, i, j) \/ Before(q, j, i)
<1>1. \A i \in DOMAIN q : q[i] \in Vectors
  OBVIOUS
<1>2. DOMAIN q = 1..Len(q) /\ Len(q) \in Nat
  OBVIOUS
<1>3. \A i, j \in DOMAIN q : q[i] = q[j] => i = j
  BY DEF IsInjective
<1>4. \A i, j \in DOMAIN q : i < j => i # j
  BY <1>2
<1>5. QED BY <1>1, <1>3, <1>4, BetterOrders DEF Before

LEMMA RanksApart ==
  ASSUME SearchAssumption, NEW q \in Seq(Vectors), IsInjective(q)
  PROVE  /\ Rank(q) \in Bijection(1..Len(q), 0..Len(q) - 1)
         /\ \A i, j \in DOMAIN q : Rank(q)[i] < Rank(q)[j] => Better(q[i], q[j])
<1> DEFINE D == 1..Len(q)
           B(j) == {k \in DOMAIN q : Before(q, k, j)}
<1>1. Len(q) \in Nat /\ DOMAIN q = D
  OBVIOUS
<1>2. IsFiniteSet(D) /\ Cardinality(D) = Len(q)
  BY <1>1, FS_Interval
<1>3. \A i \in D : q[i] \in Vectors
  OBVIOUS
<1>4. ASSUME NEW j \in D
      PROVE  IsFiniteSet(B(j)) /\ Cardinality(B(j)) \in 0..Len(q) - 1
  <2>1. B(j) \in SUBSET (D \ {j})
    BY <1>1, <1>3, BeforeOrders, BetterOrders
  <2>2. IsFiniteSet(D \ {j}) /\ Cardinality(D \ {j}) = Len(q) - 1
    BY <1>2, FS_RemoveElement
  <2>3. IsFiniteSet(B(j)) /\ Cardinality(B(j)) <= Len(q) - 1
    BY <2>1, <2>2, FS_Subset
  <2>4. Cardinality(B(j)) \in Nat
    BY <2>3, FS_CardinalityType
  <2>5. QED BY <1>1, <2>3, <2>4
<1>5. ASSUME NEW i \in D, NEW j \in D, Before(q, i, j)
      PROVE  Cardinality(B(i)) < Cardinality(B(j))
  <2>1. B(i) \in SUBSET B(j)
    BY <1>1, <1>3, <1>5, BeforeOrders, BetterOrders
  <2>2. i \in B(j) /\ i \notin B(i)
    BY <1>1, <1>3, <1>5, BeforeOrders, BetterOrders
  <2>3. Cardinality(B(i)) <= Cardinality(B(j)) /\ Cardinality(B(i)) # Cardinality(B(j))
    BY <1>4, <2>1, <2>2, FS_Subset
  <2>4. \A h \in D : Cardinality(B(h)) \in 0..Len(q) - 1
    BY <1>4
  <2>5. Cardinality(B(i)) \in 0..Len(q) - 1 /\ Cardinality(B(j)) \in 0..Len(q) - 1
    BY <2>4
  <2>6. QED BY <2>3, <2>5
<1>6. \A i, j \in D : Before(q, i, j) => Cardinality(B(i)) < Cardinality(B(j))
  BY <1>5
<1>7. Rank(q) \in [D -> 0..Len(q) - 1] /\ \A j \in D : Rank(q)[j] = Cardinality(B(j))
  BY <1>1, <1>4 DEF Rank
<1>8. \A j \in D : Rank(q)[j] \in Int
  BY <1>1, <1>7
<1>9. \A i, j \in D : Before(q, i, j) => Rank(q)[i] < Rank(q)[j]
  BY <1>6, <1>7
<1>10. \A i, j \in D : i # j => Rank(q)[i] # Rank(q)[j]
  BY <1>1, <1>8, <1>9, BeforeOrders
<1>11. Rank(q) \in Injection(D, 0..Len(q) - 1)
  BY <1>7, <1>10 DEF Injection, IsInjective
<1>12. IsFiniteSet(0..Len(q) - 1) /\ Cardinality(0..Len(q) - 1) = Len(q)
  BY <1>1, FS_Interval
<1>13. Rank(q) \in Surjection(D, 0..Len(q) - 1)
  BY <1>2, <1>11, <1>12, FS_Injection
<1>14. ASSUME NEW i \in D, NEW j \in D, Rank(q)[i] < Rank(q)[j]
       PROVE  Better(q[i], q[j])
  <2>1. i # j /\ ~Before(q, j, i)
    BY <1>8, <1>9, <1>14
  <2>2. QED BY <1>1, <2>1, BeforeOrders
<1>15. QED BY <1>1, <1>11, <1>13, <1>14 DEF Bijection

LEMMA PlaceTaken ==
  ASSUME SearchAssumption, NEW q \in Seq(Vectors), IsInjective(q), NEW i \in 1..Len(q)
  PROVE  Place(q, i) \in DOMAIN q /\ Rank(q)[Place(q, i)] = i - 1
<1>1. Len(q) \in Nat /\ DOMAIN q = 1..Len(q) /\ i - 1 \in 0..Len(q) - 1
  OBVIOUS
<1>2. \E j \in DOMAIN q : Rank(q)[j] = i - 1
  BY <1>1, RanksApart DEF Bijection, Surjection
<1>3. \E j \in DOMAIN q : Cardinality({k \in DOMAIN q : Before(q, k, j)}) = i - 1
  BY <1>2 DEF Rank
<1>4. Place(q, i) \in DOMAIN q /\ Cardinality({k \in DOMAIN q : Before(q, k, Place(q, i))}) = i - 1
  BY <1>3, Zenon DEF Place
<1>5. QED BY <1>4 DEF Rank


(* The best of a sequence: a vector is among them, or they are all taken   *)
(* by better ones.                                                         *)
Among(r, v) == \/ \E i \in DOMAIN r : r[i] = v
               \/ Len(r) = TopK /\ \A i \in DOMAIN r : Better(r[i], v)

LEMMA BestShape ==
  ASSUME SearchAssumption, NEW q \in Seq(Vectors), IsInjective(q)
  PROVE  /\ Best(q) \in Seq(Vectors) /\ IsInjective(Best(q))
         /\ Len(Best(q)) = IF Len(q) < TopK THEN Len(q) ELSE TopK
         /\ DOMAIN Best(q) = 1..Len(Best(q))
         /\ \A i \in DOMAIN Best(q) : i \in 1..Len(q) /\ Best(q)[i] = q[Place(q, i)]
<1> DEFINE n == IF Len(q) < TopK THEN Len(q) ELSE TopK
<1>1. Len(q) \in Nat /\ TopK \in Nat /\ n \in Nat /\ n <= Len(q)
  BY DEF SearchAssumption
<1>2. \A i \in 1..n : i \in 1..Len(q)
  BY <1>1
<1>3. \A i \in 1..n : q[Place(q, i)] \in Vectors
  BY <1>2, PlaceTaken
<1>4. Best(q) = [i \in 1..n |-> q[Place(q, i)]]
  BY DEF Best
<1>5. Best(q) \in Seq(Vectors) /\ Len(Best(q)) = n
  BY <1>1, <1>3, <1>4
<1>6. ASSUME NEW i \in 1..n, NEW j \in 1..n, q[Place(q, i)] = q[Place(q, j)]
      PROVE  i = j
  <2>1. Place(q, i) = Place(q, j)
    BY <1>2, <1>6, PlaceTaken DEF IsInjective
  <2>2. i - 1 = j - 1
    BY <1>2, <2>1, PlaceTaken
  <2>3. i \in Int /\ j \in Int
    OBVIOUS
  <2>4. QED BY <2>2, <2>3
<1>7. IsInjective(Best(q))
  BY <1>4, <1>6 DEF IsInjective
<1>8. DOMAIN Best(q) = 1..n
  BY <1>4
<1>9. QED BY <1>2, <1>4, <1>5, <1>7, <1>8

LEMMA BestAmong ==
  ASSUME SearchAssumption, NEW q \in Seq(Vectors), IsInjective(q), NEW j \in DOMAIN q
  PROVE  Among(Best(q), q[j])
<1>1. Len(q) \in Nat /\ TopK \in Nat /\ j \in 1..Len(q) /\ DOMAIN q = 1..Len(q)
  BY DEF SearchAssumption
<1>2. PICK r \in 0..Len(q) - 1 : Rank(q)[j] = r
  BY <1>1, RanksApart DEF Bijection, Surjection
<1>3. CASE r < Len(Best(q))
  <2>1. r + 1 \in 1..Len(q) /\ r + 1 \in DOMAIN Best(q) /\ (r + 1) - 1 = r
    BY <1>1, <1>2, <1>3, BestShape
  <2>2. Place(q, r + 1) \in 1..Len(q) /\ Rank(q)[Place(q, r + 1)] = Rank(q)[j]
    BY <1>1, <1>2, <2>1, PlaceTaken
  <2>3. Place(q, r + 1) = j
    BY <1>1, <2>2, RanksApart DEF Bijection, Injection, IsInjective
  <2>4. Best(q)[r + 1] = q[j]
    BY <2>1, <2>3, BestShape
  <2>5. QED BY <2>1, <2>4 DEF Among
<1>4. CASE ~(r < Len(Best(q)))
  <2>1. Len(Best(q)) = TopK
    BY <1>1, <1>2, <1>4, BestShape
  <2>2. ASSUME NEW i \in DOMAIN Best(q)
        PROVE  Better(Best(q)[i], q[j])
    <3>1. i \in 1..Len(q) /\ Best(q)[i] = q[Place(q, i)] /\ i \in 1..Len(Best(q)) /\ Len(Best(q)) \in Nat
      BY <1>1, <2>1, BestShape
    <3>2. i - 1 < r
      BY <1>2, <1>4, <3>1
    <3>3. Place(q, i) \in DOMAIN q /\ Rank(q)[Place(q, i)] < Rank(q)[j]
      BY <1>2, <3>1, <3>2, PlaceTaken
    <3>4. QED BY <3>1, <3>3, RanksApart
  <2>3. QED BY <2>1, <2>2 DEF Among
<1>5. QED BY <1>3, <1>4

(* The vectors of a set in some order. *)
LEMMA SetInOrder ==
  ASSUME NEW S, IsFiniteSet(S)
  PROVE  /\ SetToSeq(S) \in [1..Cardinality(S) -> S] /\ IsInjective(SetToSeq(S)) /\ Cardinality(S) \in Nat
         /\ \A v \in S : \E i \in 1..Cardinality(S) : SetToSeq(S)[i] = v
<1> DEFINE n == Cardinality(S)
<1>1. n \in Nat /\ ExistsBijection(1..n, S)
  BY FS_CardinalityType
<1>2. \E f \in [1..n -> S] : IsInjective(f)
  BY <1>1 DEF ExistsBijection, Bijection, Injection
<1>3. SetToSeq(S) \in [1..n -> S] /\ IsInjective(SetToSeq(S))
  BY <1>2, Zenon DEF SetToSeq
<1>4. SetToSeq(S) \in Injection(1..n, S)
  BY <1>3 DEF Injection
<1>5. Cardinality(1..n) = n
  BY <1>1, FS_Interval
<1>6. SetToSeq(S) \in Surjection(1..n, S)
  BY <1>4, <1>5, FS_Injection
<1>7. QED BY <1>1, <1>3, <1>6 DEF Surjection

LEMMA Offered ==
  ASSUME SearchAssumption, NEW r \in Seq(Vectors), IsInjective(r), NEW vs \in SUBSET Vectors, vs \cap ToSet(r) = {}
  PROVE  LET q == r \o SetToSeq(vs) IN
         q \in Seq(Vectors) /\ IsInjective(q) /\ ToSet(q) = ToSet(r) \cup vs
<1> DEFINE n == Cardinality(vs)
           t == SetToSeq(vs)
           q == r \o t
<1>1. IsFiniteSet(vs)
  BY FS_Subset DEF SearchAssumption
<1>2. t \in [1..n -> vs] /\ IsInjective(t) /\ n \in Nat /\ \A v \in vs : \E i \in 1..n : t[i] = v
  BY <1>1, SetInOrder
<1> HIDE DEF n, t
<1>3. t \in Seq(Vectors) /\ Len(t) = n /\ DOMAIN t = 1..n
  BY <1>2
<1>4. Len(r) \in Nat /\ DOMAIN r = 1..Len(r) /\ \A i \in DOMAIN r : r[i] \in ToSet(r)
  BY DEF ToSet
<1>5. q \in Seq(Vectors) /\ Len(q) = Len(r) + n /\ DOMAIN q = 1..Len(r) + n
  BY <1>3, <1>4, <1>2
<1>6. \A i \in 1..Len(r) : q[i] = r[i]
  BY <1>3, <1>4
<1>7. \A i \in 1..n : q[Len(r) + i] = t[i]
  BY <1>2, <1>3, <1>4
<1>8. \A i \in DOMAIN q : i \in 1..Len(r) \/ (i - Len(r) \in 1..n /\ i = Len(r) + (i - Len(r)))
  BY <1>2, <1>4, <1>5
<1>9. \A i \in DOMAIN q : (i \in 1..Len(r) /\ q[i] = r[i]) \/ (i - Len(r) \in 1..n /\ q[i] = t[i - Len(r)])
  BY <1>6, <1>7, <1>8
<1>10. ASSUME NEW i \in DOMAIN q, NEW j \in DOMAIN q, q[i] = q[j]
       PROVE  i = j
  <2>0. i \in Int /\ j \in Int /\ Len(r) \in Int
    BY <1>4, <1>5
  <2>1. CASE i \in 1..Len(r) /\ q[i] = r[i] /\ j \in 1..Len(r) /\ q[j] = r[j]
    BY <1>4, <1>10, <2>1 DEF IsInjective
  <2>2. CASE i - Len(r) \in 1..n /\ q[i] = t[i - Len(r)] /\ j - Len(r) \in 1..n /\ q[j] = t[j - Len(r)]
    <3>1. i - Len(r) = j - Len(r)
      BY <1>2, <1>3, <1>10, <2>2 DEF IsInjective
    <3>2. QED BY <2>0, <3>1
  <2>3. CASE i \in 1..Len(r) /\ q[i] = r[i] /\ j - Len(r) \in 1..n /\ q[j] = t[j - Len(r)]
    BY <1>2, <1>4, <1>10, <2>3
  <2>4. CASE j \in 1..Len(r) /\ q[j] = r[j] /\ i - Len(r) \in 1..n /\ q[i] = t[i - Len(r)]
    BY <1>2, <1>4, <1>10, <2>4
  <2>5. QED BY <1>9, <2>1, <2>2, <2>3, <2>4
<1>11. \A i \in DOMAIN q : q[i] \in ToSet(r) \cup vs
  BY <1>2, <1>4, <1>9
<1>12. \A v \in ToSet(r) : \E i \in DOMAIN q : q[i] = v
  BY <1>2, <1>4, <1>5, <1>6 DEF ToSet
<1>13. ASSUME NEW v \in vs
       PROVE  \E i \in DOMAIN q : q[i] = v
  <2>1. PICK i \in 1..n : t[i] = v
    BY <1>2
  <2>2. Len(r) + i \in DOMAIN q
    BY <1>2, <1>4, <1>5
  <2>3. QED BY <1>7, <2>1, <2>2
<1>14. ToSet(q) = ToSet(r) \cup vs
  BY <1>11, <1>12, <1>13 DEF ToSet
<1>15. QED BY <1>5, <1>10, <1>14 DEF IsInjective, t

(* The results after a list was added to them: what was among them still   *)
(* is, and so is what was added.                                           *)
Results(r) == r \in Seq(Vectors) /\ IsInjective(r) /\ Len(r) <= TopK

LEMMA PointsAdded ==
  ASSUME SearchAssumption, NEW r, Results(r), NEW vs \in SUBSET Vectors, vs \cap ToSet(r) = {}
  PROVE  /\ Results(AddPoints(r, vs))
         /\ ToSet(AddPoints(r, vs)) \subseteq ToSet(r) \cup vs
         /\ \A v \in ToSet(r) \cup vs : Among(AddPoints(r, vs), v)
<1> DEFINE q == r \o SetToSeq(vs)
<1>1. q \in Seq(Vectors) /\ IsInjective(q) /\ ToSet(q) = ToSet(r) \cup vs
  BY Offered DEF Results
<1> HIDE DEF q
<1>2. Best(q) \in Seq(Vectors) /\ IsInjective(Best(q)) /\ Len(Best(q)) <= TopK
  BY <1>1, BestShape DEF SearchAssumption
<1>3. \A i \in DOMAIN Best(q) : Best(q)[i] \in ToSet(q)
  BY <1>1, BestShape, PlaceTaken DEF ToSet
<1>4. ToSet(Best(q)) \subseteq ToSet(q)
  BY <1>3 DEF ToSet
<1>5. \A v \in ToSet(q) : Among(Best(q), v)
  BY <1>1, BestAmong DEF ToSet
<1>6. QED BY <1>1, <1>2, <1>4, <1>5 DEF AddPoints, Results, q

(* As many results as there are places. *)
LEMMA AsMany ==
  ASSUME NEW r, Results(r)
  PROVE  IsFiniteSet(ToSet(r)) /\ Cardinality(ToSet(r)) = Len(r)
<1>1. Len(r) \in Nat /\ DOMAIN r = 1..Len(r)
  BY DEF Results
<1>2. IsFiniteSet(1..Len(r)) /\ Cardinality(1..Len(r)) = Len(r)
  <2>1. \A n \in Nat : IsFiniteSet(1..n) /\ Cardinality(1..n) = n
    BY FS_Interval
  <2>2. QED BY <1>1, <2>1
<1>3. r \in [1..Len(r) -> ToSet(r)] /\ \A v \in ToSet(r) : \E i \in 1..Len(r) : r[i] = v
  BY <1>1 DEF ToSet, Results
<1>4. r \in Injection(1..Len(r), ToSet(r)) /\ r \in Surjection(1..Len(r), ToSet(r))
  BY <1>3 DEF Injection, Surjection, Results
<1>5. QED BY <1>2, <1>4, FS_Surjection

LEMMA StaysAmong ==
  ASSUME SearchAssumption, NEW r, Results(r), NEW vs \in SUBSET Vectors, vs \cap ToSet(r) = {},
         NEW v \in Vectors \ vs, Among(r, v)
  PROVE  Among(AddPoints(r, vs), v)
<1> DEFINE a == AddPoints(r, vs)
<1>1. CASE v \in ToSet(r)
  BY <1>1, PointsAdded
<1>2. CASE v \notin ToSet(r)
  <2>1. Len(r) = TopK /\ \A w \in ToSet(r) : Better(w, v)
    BY <1>2 DEF Among, ToSet
  <2>2. Results(a) /\ ToSet(a) \subseteq ToSet(r) \cup vs /\ \A w \in ToSet(r) : Among(a, w)
    BY PointsAdded
  <2>3. ToSet(r) \subseteq Vectors /\ ToSet(a) \subseteq Vectors
    BY <2>2 DEF Results, ToSet
  <2>4. CASE ToSet(r) \subseteq ToSet(a)
    <3>1. IsFiniteSet(ToSet(a)) /\ Cardinality(ToSet(r)) = TopK /\ Cardinality(ToSet(a)) = Len(a)
      BY <2>1, <2>2, AsMany
    <3>2. Cardinality(ToSet(r)) <= Cardinality(ToSet(a)) /\ (Cardinality(ToSet(a)) = Cardinality(ToSet(r)) => ToSet(a) = ToSet(r))
      BY <2>4, <3>1, FS_Subset
    <3>3. Len(a) <= TopK /\ Len(a) \in Nat /\ TopK \in Nat
      BY <2>2 DEF Results, SearchAssumption
    <3>4. Len(a) = TopK /\ ToSet(a) = ToSet(r)
      BY <3>1, <3>2, <3>3
    <3>5. \A i \in DOMAIN a : Better(a[i], v)
      BY <2>1, <3>4 DEF ToSet
    <3>6. QED BY <3>4, <3>5 DEF Among
  <2>5. CASE \E w \in ToSet(r) : w \notin ToSet(a)
    <3>1. PICK w \in ToSet(r) : w \notin ToSet(a)
      BY <2>5
    <3>2. Len(a) = TopK /\ \A i \in DOMAIN a : Better(a[i], w)
      BY <2>2, <3>1 DEF Among, ToSet
    <3>3. \A i \in DOMAIN a : a[i] \in Vectors
      BY <2>3 DEF ToSet
    <3>4. \A i \in DOMAIN a : Better(a[i], v)
      BY <2>1, <2>3, <3>1, <3>2, <3>3, BetterOrders
    <3>5. QED BY <3>2, <3>4 DEF Among
  <2>6. QED BY <2>4, <2>5
<1>3. QED BY <1>1, <1>2

-----------------------------------------------------------------------------
(* The inductive invariant of a search beside updates. *)
Steps == {"idle", "select", "filter", "get", "scan", "cache", "done"}
Frames == [pc : Steps, found : Seq(Heads), near : Nat, ids : Seq(Heads), filtered : Seq(Heads),
           lists : Seq(SUBSET Vectors), pi : Nat \ {0}, late : SUBSET Heads, up : BOOLEAN, live : Nat,
           seen : SUBSET Vectors, result : Seq(Vectors)]

WorldTyped ==
  /\ posting \in [Heads -> SUBSET Vectors] /\ cache \in [Heads -> SUBSET Vectors]
  /\ size \in [Heads -> Nat] /\ status \in [Heads -> {"normal", "splitting", "deleted"}]
  /\ index \subseteq Heads /\ listed \subseteq Heads
  /\ dead \subseteq Vectors /\ moved \subseteq Vectors /\ gone \subseteq dead

(* A retired head is marked, and a head with vectors has a length: the     *)
(* tests a search makes tell the heads it may leave out.                   *)
HeadsTold ==
  /\ \A h \in Heads : status[h] = "deleted" <=> h \notin index
  /\ \A h \in index : posting[h] # {} => size[h] > 0

(* What a posting holds and no update touched.  A head that left the index *)
(* while the search runs has none.                                         *)
Untouched(h) == posting[h] \ moved
Settled(q) == \A i \in DOMAIN q : q[i] \in index \/ Untouched(q[i]) = {}
Has(q, h) == Untouched(h) = {} \/ \E i \in DOMAIN q : q[i] = h

(* The heads: found, selected, left by the filter.  None with an untouched *)
(* vector is dropped on the way, the nearest one not by the selection.     *)
Selecting ==
  /\ Settled(s.found) /\ Settled(s.ids)
  /\ s.pc # "idle" => s.near >= 1 /\ Len(s.found) >= 1
  /\ s.pc # "idle" /\ (s.pc = "select" => s.pi > 1) /\ (Disk \/ ExcludeHead) => Has(s.ids, s.found[1])
Later == {"get", "scan", "cache", "done"}
Filtering ==
  /\ s.pc \in {"idle", "select"} => s.filtered = << >>
  /\ s.pc = "filter" => Len(s.filtered) < s.pi /\ s.pi <= Len(s.ids) + 1
  /\ s.pc = "filter" => \A i \in 1..s.pi - 1 : Has(s.filtered, s.ids[i])
  /\ s.pc \in Later => Len(s.filtered) <= Len(s.ids)
  /\ s.pc \in Later => \A i \in DOMAIN s.ids : Has(s.filtered, s.ids[i])

(* The postings read in time hold what is untouched in them.               *)
Reading ==
  /\ s.pc \in {"idle", "select", "filter"} => s.lists = << >>
  /\ s.pc = "get" => s.pi = 1
  /\ Len(s.lists) <= Len(s.filtered)
  /\ s.pc \in {"scan", "cache", "done"} => Len(s.lists) = Len(s.filtered)
  /\ \A j \in DOMAIN s.lists : s.filtered[j] \in s.late \/ Untouched(s.filtered[j]) \subseteq s.lists[j]

(* The lists scanned were seen but for the deleted vectors.                *)
Scanning ==
  /\ s.pc \in {"scan", "cache"} => s.pi <= Len(s.lists)
  /\ s.pc = "scan" => \A j \in 1..s.pi - 1 : s.lists[j] \subseteq s.seen \cup dead
  /\ s.pc = "cache" => \A j \in 1..s.pi : s.lists[j] \subseteq s.seen \cup dead
  /\ s.pc = "done" => \A j \in DOMAIN s.lists : s.lists[j] \subseteq s.seen \cup dead

(* The results are the best of what was seen. *)
Seen ==
  /\ Results(s.result)
  /\ ToSet(s.result) \subseteq s.seen \ gone
  /\ \A v \in s.seen : Among(s.result, v)

SearchSafe ==
  /\ WorldTyped /\ s \in Frames
  /\ HeadsTold /\ Selecting /\ Filtering /\ Reading /\ Scanning /\ Seen

LEMMA InitSafe ==
  ASSUME SearchAssumption, Init
  PROVE  SearchSafe
<1>1. << >> \in Seq(Heads) /\ << >> \in Seq(Vectors) /\ << >> \in Seq(SUBSET Vectors) /\ Len(<< >>) = 0 /\ DOMAIN << >> = {}
  OBVIOUS
<1>2. s \in Frames /\ s.pc = "idle" /\ s.found = << >> /\ s.ids = << >> /\ s.filtered = << >> /\ s.lists = << >>
      /\ s.seen = {} /\ s.result = << >>
  BY <1>1 DEF Init, NoSearch, Frames, Steps
<1>3. \A h \in Heads : IsFiniteSet(Posted[h]) /\ Cardinality(Posted[h]) \in Nat /\ (Posted[h] # {} => Cardinality(Posted[h]) > 0)
  <2>1. ASSUME NEW h \in Heads
        PROVE  IsFiniteSet(Posted[h]) /\ Cardinality(Posted[h]) \in Nat /\ (Posted[h] # {} => Cardinality(Posted[h]) > 0)
    <3>1. IsFiniteSet(Posted[h])
      BY FS_Subset DEF SearchAssumption
    <3>2. QED BY <3>1, FS_CardinalityType, FS_EmptySet
  <2>2. QED BY <2>1
<1>4. WorldTyped
  BY <1>3 DEF Init, WorldTyped, SearchAssumption
<1>5. HeadsTold
  BY <1>3 DEF Init, HeadsTold
<1>6. Selecting /\ Filtering /\ Reading /\ Scanning
  BY <1>1, <1>2 DEF Selecting, Settled, Filtering, Reading, Scanning, Later
<1>7. Seen
  <2>1. Results(<< >>) /\ ToSet(<< >>) = {}
    BY <1>1 DEF Results, IsInjective, ToSet, SearchAssumption
  <2>2. QED BY <1>2, <2>1 DEF Seen
<1>8. QED BY <1>2, <1>4, <1>5, <1>6, <1>7 DEF SearchSafe

(* Updates touch what they move: a posting gains nothing untouched, and a  *)
(* head that is retired keeps nothing untouched.                           *)
LEMMA SizeOf ==
  ASSUME SearchAssumption, NEW S \in SUBSET Vectors
  PROVE  Cardinality(S) \in Nat /\ (S # {} => Cardinality(S) > 0)
<1>1. IsFiniteSet(S)
  BY FS_Subset DEF SearchAssumption
<1>2. QED BY <1>1, FS_CardinalityType, FS_EmptySet

LEMMA UpdatesTouch ==
  ASSUME SearchAssumption, WorldTyped, HeadsTold, Updates
  PROVE  /\ WorldTyped' /\ HeadsTold'
         /\ dead \subseteq dead' /\ UNCHANGED <<gone, s>>
         /\ \A h \in Heads : Untouched(h)' \subseteq Untouched(h)
         /\ \A h \in index : h \in index' \/ Untouched(h)' = {}
<1>1. ASSUME NEW h \in Heads, NEW v \in Vectors, AppendVector(h, v)
      PROVE  /\ WorldTyped' /\ HeadsTold'
             /\ dead \subseteq dead' /\ UNCHANGED <<gone, s>>
             /\ \A g \in Heads : Untouched(g)' \subseteq Untouched(g)
             /\ index' = index
  <2>1. CASE status[h] = "normal"
    BY <1>1, <2>1 DEF AppendVector, Update, WorldTyped, HeadsTold, Untouched
  <2>2. CASE status[h] # "normal"
    BY <1>1, <2>2 DEF AppendVector, Update, WorldTyped, HeadsTold, Untouched
  <2>3. QED BY <2>1, <2>2
<1>2. ASSUME NEW h \in Heads, Split(h)
      PROVE  /\ WorldTyped' /\ HeadsTold'
             /\ dead \subseteq dead' /\ UNCHANGED <<gone, s>>
             /\ \A g \in Heads : Untouched(g)' \subseteq Untouched(g)
             /\ index' = index
  BY <1>2 DEF Split, Update, WorldTyped, HeadsTold, Untouched
<1>3. ASSUME NEW h \in Heads, Drain(h)
      PROVE  /\ WorldTyped' /\ HeadsTold'
             /\ dead \subseteq dead' /\ UNCHANGED <<gone, s>>
             /\ \A g \in Heads : Untouched(g)' \subseteq Untouched(g)
             /\ index' = index
  <2>1. posting[h] \cup cache[h] \in SUBSET Vectors
    BY DEF WorldTyped
  <2>2. Cardinality(posting[h] \cup cache[h]) \in Nat
        /\ (posting[h] \cup cache[h] # {} => Cardinality(posting[h] \cup cache[h]) > 0)
    BY <2>1, SizeOf
  <2>3. WorldTyped'
    BY <1>3, <2>1, <2>2 DEF Drain, Update, WorldTyped
  <2>4. HeadsTold'
    BY <1>3, <2>2 DEF Drain, Update, WorldTyped, HeadsTold
  <2>5. \A g \in Heads : Untouched(g)' \subseteq Untouched(g)
    BY <1>3 DEF Drain, Update, WorldTyped, Untouched
  <2>6. QED BY <1>3, <2>3, <2>4, <2>5 DEF Drain
<1>4. ASSUME NEW h \in Heads, NEW g \in Heads, Retire(h, g)
      PROVE  /\ WorldTyped' /\ HeadsTold'
             /\ dead \subseteq dead' /\ UNCHANGED <<gone, s>>
             /\ \A f \in Heads : Untouched(f)' \subseteq Untouched(f)
             /\ \A f \in index : f \in index' \/ Untouched(f)' = {}
  <2> DEFINE all == posting[g] \cup posting[h] \cup cache[h]
  <2>1. all \in SUBSET Vectors /\ h # g
    BY <1>4 DEF WorldTyped, Retire
  <2>2. Cardinality(all) \in Nat /\ (all # {} => Cardinality(all) > 0)
    BY <2>1, SizeOf
  <2>3. WorldTyped'
    BY <1>4, <2>1, <2>2 DEF Retire, Update, WorldTyped
  <2>4. posting' = [posting EXCEPT ![g] = all] /\ size' = [size EXCEPT ![h] = 0, ![g] = Cardinality(all)]
    BY <1>4, <2>1 DEF Retire, WorldTyped
  <2>5. \A f \in index' : posting'[f] # {} => size'[f] > 0
    BY <1>4, <2>1, <2>2, <2>4 DEF Retire, WorldTyped, HeadsTold
  <2>6. \A f \in Heads : status'[f] = "deleted" <=> f \notin index'
    BY <1>4 DEF Retire, WorldTyped, HeadsTold
  <2>7. \A f \in Heads : Untouched(f)' \subseteq Untouched(f)
    BY <1>4, <2>4 DEF Retire, Update, WorldTyped, Untouched
  <2>8. Untouched(h)' = {} /\ index' = index \ {h}
    BY <1>4, <2>1, <2>4 DEF Retire, Update, WorldTyped, Untouched
  <2>9. QED BY <1>4, <2>3, <2>5, <2>6, <2>7, <2>8 DEF Retire, HeadsTold
<1>5. ASSUME NEW v \in Vectors, Delete(v)
      PROVE  /\ WorldTyped' /\ HeadsTold'
             /\ dead \subseteq dead' /\ UNCHANGED <<gone, s>>
             /\ \A g \in Heads : Untouched(g)' \subseteq Untouched(g)
             /\ index' = index
  BY <1>5 DEF Delete, Update, WorldTyped, HeadsTold, Untouched
<1>6. QED BY <1>1, <1>2, <1>3, <1>4, <1>5, Zenon DEF Updates

LEMMA SafeUpdates ==
  ASSUME SearchAssumption, SearchSafe, Updates
  PROVE  SearchSafe'
<1>1. /\ WorldTyped' /\ HeadsTold'
      /\ dead \subseteq dead' /\ gone' = gone /\ s' = s
      /\ \A h \in Heads : Untouched(h)' \subseteq Untouched(h)
      /\ \A h \in index : h \in index' \/ Untouched(h)' = {}
  BY UpdatesTouch DEF SearchSafe
<1>2. s \in Frames
  BY DEF SearchSafe
<1>3. ASSUME NEW q \in Seq(Heads), Settled(q)
      PROVE  Settled(q)'
  <2>1. \A i \in DOMAIN q : q[i] \in Heads
    OBVIOUS
  <2>2. QED BY <1>1, <1>3, <2>1 DEF Settled
<1>4. ASSUME NEW q, NEW h \in Heads, Has(q, h)
      PROVE  Has(q, h)'
  BY <1>1, <1>4 DEF Has
<1>5. s.found \in Seq(Heads) /\ s.ids \in Seq(Heads) /\ s.filtered \in Seq(Heads) /\ s.lists \in Seq(SUBSET Vectors)
  BY <1>2 DEF Frames
<1>6. Selecting'
  <2>1. Settled(s.found)' /\ Settled(s.ids)'
    BY <1>1, <1>3, <1>5 DEF SearchSafe, Selecting
  <2>2. s.pc # "idle" => s.found[1] \in Heads
    BY <1>5 DEF SearchSafe, Selecting
  <2>3. QED BY <1>1, <1>4, <2>1, <2>2 DEF SearchSafe, Selecting
<1>7. Filtering'
  <2>1. \A i \in DOMAIN s.ids : s.ids[i] \in Heads
    BY <1>5
  <2>2. s.pc = "filter" => \A i \in 1..s.pi - 1 : i \in DOMAIN s.ids
    <3>1. s.pi \in Nat /\ DOMAIN s.ids = 1..Len(s.ids) /\ Len(s.ids) \in Nat
      BY <1>2, <1>5 DEF Frames
    <3>2. QED BY <3>1 DEF SearchSafe, Filtering
  <2>3. QED BY <1>1, <1>4, <2>1, <2>2 DEF SearchSafe, Filtering
<1>8. Reading'
  <2>1. \A j \in DOMAIN s.lists : s.filtered[j] \in Heads
    BY <1>5 DEF SearchSafe, Reading
  <2>2. QED BY <1>1, <2>1 DEF SearchSafe, Reading
<1>9. Scanning'
  BY <1>1 DEF SearchSafe, Scanning
<1>10. Seen'
  BY <1>1 DEF SearchSafe, Seen, Results, Among
<1>11. QED BY <1>1, <1>2, <1>6, <1>7, <1>8, <1>9, <1>10 DEF SearchSafe

-----------------------------------------------------------------------------
(* The steps of the search. *)
LEMMA SafeSearchHeads ==
  ASSUME SearchAssumption, SearchSafe, SearchHeads
  PROVE  SearchSafe'
<1>0. PICK q \in Orders(index) : \E near \in 1..Len(q) :
        s' = [NoSearch EXCEPT !.pc = "select", !.found = q, !.near = near]
  BY DEF SearchHeads
<1>1. PICK near \in 1..Len(q) :
        s' = [NoSearch EXCEPT !.pc = "select", !.found = q, !.near = near]
  BY <1>0
<1>2. IsFiniteSet(index) /\ index \subseteq Heads
  BY FS_Subset DEF SearchSafe, WorldTyped, SearchAssumption
<1>3. Cardinality(index) \in Nat
  BY <1>2, FS_CardinalityType
<1>4. q \in Seq(Heads) /\ \A i \in DOMAIN q : q[i] \in index
  BY <1>2, <1>3 DEF Orders
<1>5. near \in Nat /\ near >= 1 /\ Len(q) >= 1
  BY <1>4
<1>6. << >> \in Seq(Heads) /\ << >> \in Seq(Vectors) /\ << >> \in Seq(SUBSET Vectors) /\ Len(<< >>) = 0 /\ DOMAIN << >> = {}
  OBVIOUS
<1>7. /\ s' \in Frames /\ s'.pc = "select" /\ s'.found = q /\ s'.near = near /\ s'.ids = << >> /\ s'.filtered = << >>
      /\ s'.lists = << >> /\ s'.pi = 1 /\ s'.seen = {} /\ s'.result = << >>
  <2>1. s' = [pc |-> "select", found |-> q, near |-> near, ids |-> << >>, filtered |-> << >>, lists |-> << >>,
              pi |-> 1, late |-> {}, up |-> FALSE, live |-> 0, seen |-> {}, result |-> << >>]
    BY <1>1 DEF NoSearch
  <2>2. {} \in SUBSET Vectors /\ 1 \in Nat \ {0} /\ 0 \in Nat /\ "select" \in Steps
    BY DEF Steps
  <2>3. s' \in Frames
    BY <1>4, <1>5, <1>6, <2>1, <2>2 DEF Frames
  <2>4. QED BY <2>1, <2>3
<1>8. UNCHANGED <<posting, size, cache, status, index, dead, updates, listed>> /\ gone' = dead /\ moved' = {}
  BY DEF SearchHeads
<1>9. WorldTyped' /\ HeadsTold'
  BY <1>8 DEF SearchSafe, WorldTyped, HeadsTold
<1>10. Selecting'
  BY <1>4, <1>5, <1>6, <1>7, <1>8 DEF Selecting, Settled
<1>11. Filtering' /\ Reading' /\ Scanning'
  BY <1>6, <1>7 DEF Filtering, Reading, Scanning, Later
<1>12. Seen'
  <2>1. Results(<< >>) /\ ToSet(<< >>) = {}
    BY <1>6 DEF Results, IsInjective, ToSet, SearchAssumption
  <2>2. QED BY <1>7, <2>1 DEF Seen
<1>13. QED BY <1>7, <1>9, <1>10, <1>11, <1>12 DEF SearchSafe

(* The steps of the search leave the world alone. *)
LEMMA WorldStays ==
  ASSUME SearchSafe, UNCHANGED <<world, gone>>, listed' \subseteq Heads
  PROVE  /\ WorldTyped' /\ HeadsTold'
         /\ \A h : Untouched(h)' = Untouched(h)
         /\ dead' = dead /\ index' = index /\ gone' = gone
BY DEF SearchSafe, WorldTyped, HeadsTold, Untouched, world

LEMMA SafeSelect ==
  ASSUME SearchAssumption, SearchSafe, Select
  PROVE  SearchSafe'
<1> DEFINE h == s.found[s.pi]
           keep == Near(s.pi) /\ size[h] > 0
<1>1. s \in Frames /\ s.pc = "select" /\ s.pi <= Len(s.found)
  BY DEF SearchSafe, Select, At
<1>2. s' = [s EXCEPT !.pi = @ + 1, !.ids = IF keep THEN Append(@, h) ELSE @]
  BY DEF Select
<1>3. s.found \in Seq(Heads) /\ s.ids \in Seq(Heads) /\ s.pi \in Nat \ {0} /\ s.near \in Nat
  BY <1>1 DEF Frames
<1>4. s.pi \in DOMAIN s.found /\ h \in Heads
  BY <1>1, <1>3
<1>5. s' \in Frames
  <2>1. (IF keep THEN Append(s.ids, h) ELSE s.ids) \in Seq(Heads) /\ s.pi + 1 \in Nat \ {0}
    BY <1>3, <1>4
  <2>2. QED BY <1>1, <1>2, <2>1 DEF Frames
<1>6. /\ s'.pc = "select" /\ s'.found = s.found /\ s'.near = s.near /\ s'.late = s.late /\ s'.filtered = s.filtered /\ s'.lists = s.lists
      /\ s'.pi = s.pi + 1 /\ s'.seen = s.seen /\ s'.result = s.result
      /\ s'.ids = IF keep THEN Append(s.ids, h) ELSE s.ids
  BY <1>1, <1>2 DEF Frames
<1>7. /\ WorldTyped' /\ HeadsTold'
      /\ \A g : Untouched(g)' = Untouched(g)
      /\ dead' = dead /\ index' = index /\ gone' = gone
  BY WorldStays DEF Select, SearchSafe, WorldTyped
<1>8. Settled(s.found)' /\ Settled(s.ids)'
  <2>1. h \in index \/ Untouched(h) = {}
    BY <1>4 DEF SearchSafe, Selecting, Settled
  <2>2. Settled(s.found) /\ Settled(s.ids)
    BY DEF SearchSafe, Selecting
  <2>3. ASSUME keep
        PROVE  \A i \in DOMAIN s'.ids : s'.ids[i] = h \/ (i \in DOMAIN s.ids /\ s'.ids[i] = s.ids[i])
    BY <1>3, <1>4, <1>6, <2>3
  <2>4. \A i \in DOMAIN s'.ids : s'.ids[i] \in index \/ Untouched(s'.ids[i]) = {}
    <3>1. CASE keep
      BY <2>1, <2>2, <2>3, <3>1 DEF Settled
    <3>2. CASE ~keep
      BY <1>6, <2>2, <3>2 DEF Settled
    <3>3. QED BY <3>1, <3>2
  <2>5. QED BY <1>6, <1>7, <2>2, <2>4 DEF Settled
<1>9. Disk \/ ExcludeHead => Has(s.ids, s.found[1])'
  <2>1. CASE s.pi > 1
    <3>1. Disk \/ ExcludeHead => Has(s.ids, s.found[1])
      BY <1>1, <2>1 DEF SearchSafe, Selecting
    <3>2. \A i \in DOMAIN s.ids : i \in DOMAIN s'.ids /\ s'.ids[i] = s.ids[i]
      BY <1>3, <1>4, <1>6
    <3>3. QED BY <1>6, <1>7, <3>1, <3>2 DEF Has
  <2>2. CASE s.pi = 1 /\ keep
    <3>1. Len(s.ids) + 1 \in DOMAIN s'.ids /\ s'.ids[Len(s.ids) + 1] = s.found[1]
      BY <1>3, <1>4, <1>6, <2>2
    <3>2. QED BY <1>6, <3>1 DEF Has
  <2>3. CASE s.pi = 1 /\ ~keep
    <3>1. s.near >= 1
      BY <1>1 DEF SearchSafe, Selecting
    <3>2. Disk \/ ExcludeHead => ~(size[s.found[1]] > 0)
      BY <1>3, <2>3, <3>1 DEF Near
    <3>3. s.found[1] \in index \/ Untouched(s.found[1]) = {}
      BY <1>4, <2>3 DEF SearchSafe, Selecting, Settled
    <3>4. Disk \/ ExcludeHead => Untouched(s.found[1]) = {}
      BY <3>2, <3>3 DEF SearchSafe, HeadsTold, Untouched
    <3>5. QED BY <1>6, <1>7, <3>4 DEF Has
  <2>4. QED BY <1>3, <2>1, <2>2, <2>3
<1>10. Selecting'
  BY <1>1, <1>6, <1>8, <1>9 DEF SearchSafe, Selecting
<1>11. Filtering' /\ Scanning'
  BY <1>1, <1>6, <1>7 DEF SearchSafe, Filtering, Scanning, Later
<1>12. Reading'
  BY <1>1, <1>6, <1>7 DEF SearchSafe, Reading
<1>13. Seen'
  BY <1>6, <1>7 DEF SearchSafe, Seen, Results, Among
<1>14. QED BY <1>5, <1>7, <1>10, <1>11, <1>12, <1>13 DEF SearchSafe

LEMMA SafeSelected ==
  ASSUME SearchAssumption, SearchSafe, Selected
  PROVE  SearchSafe'
<1>1. s \in Frames /\ s.pc = "select" /\ s.pi > Len(s.found)
  BY DEF SearchSafe, Selected, At
<1>2. s' = [s EXCEPT !.pc = "filter", !.pi = 1]
  BY DEF Selected
<1>3. s' \in Frames
  <2>1. "filter" \in Steps /\ 1 \in Nat \ {0}
    BY DEF Steps
  <2>2. QED BY <1>1, <1>2, <2>1 DEF Frames
<1>4. /\ s'.pc = "filter" /\ s'.pi = 1 /\ s'.found = s.found /\ s'.near = s.near /\ s'.late = s.late /\ s'.ids = s.ids
      /\ s'.filtered = s.filtered /\ s'.lists = s.lists /\ s'.seen = s.seen /\ s'.result = s.result
  BY <1>1, <1>2 DEF Frames
<1>5. /\ WorldTyped' /\ HeadsTold'
      /\ \A g : Untouched(g)' = Untouched(g)
      /\ dead' = dead /\ index' = index /\ gone' = gone
  BY WorldStays DEF Selected, SearchSafe, WorldTyped
<1>6. s.pi > 1
  <2>1. Len(s.found) >= 1 /\ Len(s.found) \in Nat /\ s.pi \in Nat
    BY <1>1 DEF SearchSafe, Selecting, Frames
  <2>2. QED BY <1>1, <2>1
<1>7. Selecting'
  BY <1>1, <1>4, <1>5, <1>6 DEF SearchSafe, Selecting, Settled, Has
<1>8. Filtering'
  <2>1. s.filtered = << >> /\ Len(<< >>) = 0 /\ Len(s.ids) \in Nat
    BY <1>1 DEF SearchSafe, Filtering, Frames
  <2>2. QED BY <1>4, <2>1 DEF Filtering, Later
<1>9. Reading' /\ Scanning'
  BY <1>1, <1>4, <1>5 DEF SearchSafe, Reading, Scanning
<1>10. Seen'
  BY <1>4, <1>5 DEF SearchSafe, Seen, Results, Among
<1>11. QED BY <1>3, <1>5, <1>7, <1>8, <1>9, <1>10 DEF SearchSafe

LEMMA SafeFilter ==
  ASSUME SearchAssumption, SearchSafe, Filter
  PROVE  SearchSafe'
<1> DEFINE h == s.ids[s.pi]
           keep == status[h] # "deleted" /\ h \in index /\ size[h] > 0
<1>1. s \in Frames /\ s.pc = "filter" /\ s.pi <= Len(s.ids)
  BY DEF SearchSafe, Filter, At
<1>2. s' = [s EXCEPT !.pi = @ + 1, !.filtered = IF keep THEN Append(@, h) ELSE @]
  BY DEF Filter
<1>3. s.ids \in Seq(Heads) /\ s.filtered \in Seq(Heads) /\ s.pi \in Nat \ {0}
  BY <1>1 DEF Frames
<1>4. s.pi \in DOMAIN s.ids /\ h \in Heads
  BY <1>1, <1>3
<1>5. s' \in Frames
  <2>1. (IF keep THEN Append(s.filtered, h) ELSE s.filtered) \in Seq(Heads) /\ s.pi + 1 \in Nat \ {0}
    BY <1>3, <1>4
  <2>2. QED BY <1>1, <1>2, <2>1 DEF Frames
<1>6. /\ s'.pc = "filter" /\ s'.pi = s.pi + 1 /\ s'.found = s.found /\ s'.near = s.near /\ s'.late = s.late /\ s'.ids = s.ids
      /\ s'.lists = s.lists /\ s'.seen = s.seen /\ s'.result = s.result
      /\ s'.filtered = IF keep THEN Append(s.filtered, h) ELSE s.filtered
  BY <1>1, <1>2 DEF Frames
<1>7. /\ WorldTyped' /\ HeadsTold'
      /\ \A g : Untouched(g)' = Untouched(g)
      /\ dead' = dead /\ index' = index /\ gone' = gone
  BY WorldStays DEF Filter, SearchSafe, WorldTyped
<1>8. Selecting'
  BY <1>1, <1>6, <1>7 DEF SearchSafe, Selecting, Settled, Has
<1>9. Untouched(h) = {} \/ \E j \in DOMAIN s'.filtered : s'.filtered[j] = h
  <2>1. CASE keep
    <3>1. Len(s.filtered) + 1 \in DOMAIN s'.filtered /\ s'.filtered[Len(s.filtered) + 1] = h
      BY <1>3, <1>4, <1>6, <2>1
    <3>2. QED BY <3>1
  <2>2. CASE ~keep
    <3>1. h \in index \/ Untouched(h) = {}
      BY <1>4 DEF SearchSafe, Selecting, Settled
    <3>2. Untouched(h) = {}
      BY <1>4, <2>2, <3>1 DEF SearchSafe, HeadsTold, Untouched
    <3>3. QED BY <3>2
  <2>3. QED BY <2>1, <2>2
<1>10. Filtering'
  <2>1. \A i \in DOMAIN s.filtered : i \in DOMAIN s'.filtered /\ s'.filtered[i] = s.filtered[i]
    BY <1>3, <1>4, <1>6
  <2>2. \A i \in 1..s.pi - 1 : Has(s.filtered, s.ids[i])
    BY <1>1 DEF SearchSafe, Filtering
  <2>3. Len(s'.filtered) <= Len(s.filtered) + 1 /\ Len(s.filtered) < s.pi /\ Len(s.filtered) \in Nat /\ Len(s'.filtered) \in Nat
    BY <1>1, <1>3, <1>4, <1>6 DEF SearchSafe, Filtering
  <2>4. ASSUME NEW i \in 1..s'.pi - 1
        PROVE  Untouched(s.ids[i]) = {} \/ \E j \in DOMAIN s'.filtered : s'.filtered[j] = s.ids[i]
    <3>1. i \in 1..s.pi - 1 \/ i = s.pi
      BY <1>3, <1>6
    <3>2. CASE i \in 1..s.pi - 1
      BY <2>1, <2>2, <3>2 DEF Has
    <3>3. CASE i = s.pi
      BY <1>9, <3>3
    <3>4. QED BY <3>1, <3>2, <3>3
  <2>5. \A i \in 1..s'.pi - 1 : Has(s'.filtered, s.ids[i])
    BY <2>4 DEF Has
  <2>6. \A i \in 1..s'.pi - 1 : Has(s.filtered, s.ids[i])'
    BY <1>6, <1>7, <2>5 DEF Has
  <2>7. s'.pi <= Len(s'.ids) + 1 /\ Len(s'.filtered) < s'.pi
    <3>1. Len(s.ids) \in Nat /\ s.pi \in Nat
      BY <1>3
    <3>2. QED BY <1>1, <1>6, <2>3, <3>1
  <2>8. QED BY <1>6, <2>6, <2>7 DEF Filtering, Later
<1>11. Reading' /\ Scanning'
  <2>1. s.lists = << >> /\ Len(s'.filtered) \in Nat /\ Len(<< >>) = 0 /\ DOMAIN << >> = {}
    BY <1>1, <1>3, <1>4, <1>6 DEF SearchSafe, Reading
  <2>2. QED BY <1>6, <2>1 DEF Reading, Scanning
<1>12. Seen'
  BY <1>6, <1>7 DEF SearchSafe, Seen, Results, Among
<1>13. QED BY <1>5, <1>7, <1>8, <1>10, <1>11, <1>12 DEF SearchSafe

LEMMA SafeFiltered ==
  ASSUME SearchAssumption, SearchSafe, Filtered
  PROVE  SearchSafe'
<1>1. s \in Frames /\ s.pc = "filter" /\ s.pi > Len(s.ids)
  BY DEF SearchSafe, Filtered, At
<1>2. s' = [s EXCEPT !.pc = "get", !.pi = 1]
  BY DEF Filtered
<1>3. s' \in Frames
  <2>1. "get" \in Steps /\ 1 \in Nat \ {0}
    BY DEF Steps
  <2>2. QED BY <1>1, <1>2, <2>1 DEF Frames
<1>4. /\ s'.pc = "get" /\ s'.pi = 1 /\ s'.found = s.found /\ s'.near = s.near /\ s'.late = s.late /\ s'.ids = s.ids
      /\ s'.filtered = s.filtered /\ s'.lists = s.lists /\ s'.seen = s.seen /\ s'.result = s.result
  BY <1>1, <1>2 DEF Frames
<1>5. /\ WorldTyped' /\ HeadsTold'
      /\ \A g : Untouched(g)' = Untouched(g)
      /\ dead' = dead /\ index' = index /\ gone' = gone
  BY WorldStays DEF Filtered, SearchSafe, WorldTyped
<1>6. s.ids \in Seq(Heads) /\ s.filtered \in Seq(Heads) /\ s.pi \in Nat \ {0}
  BY <1>1 DEF Frames
<1>7. Selecting'
  BY <1>1, <1>4, <1>5 DEF SearchSafe, Selecting, Settled, Has
<1>8. Filtering'
  <2>1. Len(s.filtered) < s.pi /\ s.pi <= Len(s.ids) + 1 /\ \A i \in 1..s.pi - 1 : Has(s.filtered, s.ids[i])
    BY <1>1 DEF SearchSafe, Filtering
  <2>2. Len(s.filtered) \in Nat /\ Len(s.ids) \in Nat /\ DOMAIN s.ids = 1..Len(s.ids)
    BY <1>6
  <2>3. Len(s.filtered) <= Len(s.ids) /\ \A i \in DOMAIN s.ids : Has(s.filtered, s.ids[i])
    <3>1. Len(s.filtered) <= Len(s.ids)
      BY <1>6, <2>1, <2>2
    <3>2. s.pi - 1 = Len(s.ids)
      <4>1. s.pi > Len(s.ids) /\ s.pi <= Len(s.ids) + 1
        BY <1>1, <2>1
      <4>2. s.pi \in Nat /\ Len(s.ids) \in Nat
        BY <1>6
      <4>3. QED BY <4>1, <4>2
    <3>3. QED BY <2>1, <2>2, <3>1, <3>2
  <2>4. \A i \in DOMAIN s'.ids : Has(s.filtered, s.ids[i])'
    BY <1>4, <1>5, <2>3 DEF Has
  <2>5. QED BY <1>4, <2>3, <2>4 DEF Filtering, Later
<1>9. Reading' /\ Scanning'
  <2>1. s.lists = << >> /\ Len(s.filtered) \in Nat /\ Len(<< >>) = 0 /\ DOMAIN << >> = {}
    BY <1>1, <1>6 DEF SearchSafe, Reading
  <2>2. QED BY <1>4, <2>1 DEF Reading, Scanning
<1>10. Seen'
  BY <1>4, <1>5 DEF SearchSafe, Seen, Results, Among
<1>11. QED BY <1>3, <1>5, <1>7, <1>8, <1>9, <1>10 DEF SearchSafe

LEMMA SafeMultiGet ==
  ASSUME SearchAssumption, SearchSafe, MultiGet
  PROVE  SearchSafe'
<1> DEFINE g == s.filtered[Len(s.lists) + 1]
<1>1. s \in Frames /\ s.pc = "get" /\ Len(s.lists) < Len(s.filtered)
  BY DEF SearchSafe, MultiGet, At
<1>2. PICK list, late :
        /\ s' = [s EXCEPT !.lists = Append(@, list), !.late = late]
        /\ (list = posting[g] /\ late = s.late) \/ (list = {} /\ late = s.late \cup {g})
  <2>1. CASE s' = [s EXCEPT !.lists = Append(@, posting[g])]
    <3>1. s' = [s EXCEPT !.lists = Append(@, posting[g]), !.late = s.late]
      BY <1>1, <2>1 DEF Frames
    <3>2. QED BY <3>1
  <2>2. CASE s' = [s EXCEPT !.lists = Append(@, {}), !.late = @ \cup {g}]
    BY <2>2
  <2>3. QED BY <2>1, <2>2 DEF MultiGet
<1>3. s.filtered \in Seq(Heads) /\ s.lists \in Seq(SUBSET Vectors)
  BY <1>1 DEF Frames
<1>4. Len(s.lists) + 1 \in DOMAIN s.filtered /\ g \in Heads
  BY <1>1, <1>3
<1>5. /\ list \in SUBSET Vectors /\ late \in SUBSET Heads /\ s.late \subseteq late
      /\ g \in late \/ list = posting[g]
  <2>1. posting[g] \in SUBSET Vectors /\ s.late \in SUBSET Heads
    BY <1>1, <1>4 DEF SearchSafe, WorldTyped, Frames
  <2>2. QED BY <1>2, <1>4, <2>1
<1>6. Append(s.lists, list) \in Seq(SUBSET Vectors)
  BY <1>3, <1>5
<1>7. s' \in Frames
  BY <1>1, <1>2, <1>5, <1>6 DEF Frames
<1>8. /\ s'.pc = "get" /\ s'.pi = s.pi /\ s'.found = s.found /\ s'.near = s.near /\ s'.late = late /\ s'.ids = s.ids
      /\ s'.filtered = s.filtered /\ s'.seen = s.seen /\ s'.result = s.result
      /\ s'.lists = Append(s.lists, list)
  BY <1>1, <1>2 DEF Frames
<1>9. /\ WorldTyped' /\ HeadsTold'
      /\ \A h : Untouched(h)' = Untouched(h)
      /\ dead' = dead /\ index' = index /\ gone' = gone
  BY WorldStays DEF MultiGet, SearchSafe, WorldTyped
<1>10. Selecting'
  BY <1>1, <1>8, <1>9 DEF SearchSafe, Selecting, Settled, Has
<1>11. Filtering'
  BY <1>1, <1>8, <1>9 DEF SearchSafe, Filtering, Later, Has
<1>12. Reading'
  <2>1. Len(s'.lists) = Len(s.lists) + 1 /\ Len(s.lists) \in Nat /\ Len(s.filtered) \in Nat
    BY <1>3, <1>6, <1>8
  <2>2. \A j \in DOMAIN s'.lists : (j \in DOMAIN s.lists /\ s'.lists[j] = s.lists[j])
                                   \/ (s.filtered[j] = g /\ s'.lists[j] = list)
    BY <1>3, <1>5, <1>8, <2>1
  <2>3. \A j \in DOMAIN s'.lists : s.filtered[j] \in late \/ Untouched(s.filtered[j]) \subseteq s'.lists[j]
    BY <1>5, <2>2 DEF SearchSafe, Reading, Untouched
  <2>4. \A j \in DOMAIN s'.lists : s'.filtered[j] \in s'.late \/ Untouched(s'.filtered[j]) \subseteq s'.lists[j]
    BY <1>8, <2>3
  <2>5. posting' = posting /\ moved' = moved
    BY DEF MultiGet, world
  <2>6. \A j \in DOMAIN s'.lists : s'.filtered[j] \in s'.late \/ posting'[s'.filtered[j]] \ moved' \subseteq s'.lists[j]
    BY <2>4, <2>5 DEF Untouched
  <2>7. s'.pi = 1
    BY <1>1, <1>8 DEF SearchSafe, Reading
  <2>8. Len(s'.lists) <= Len(s'.filtered)
    BY <1>1, <1>8, <2>1
  <2>9. QED BY <1>8, <2>6, <2>7, <2>8 DEF Reading, Untouched
<1>13. Scanning'
  BY <1>8 DEF Scanning
<1>14. Seen'
  BY <1>8, <1>9 DEF SearchSafe, Seen, Results, Among
<1>15. QED BY <1>7, <1>9, <1>10, <1>11, <1>12, <1>13, <1>14 DEF SearchSafe

LEMMA SafeGot ==
  ASSUME SearchAssumption, SearchSafe, Got
  PROVE  SearchSafe'
<1>1. s \in Frames /\ s.pc = "get" /\ Len(s.lists) = Len(s.filtered)
  BY DEF SearchSafe, Got, At
<1>2. s' = [s EXCEPT !.pc = IF Len(s.lists) = 0 THEN "done" ELSE "scan"]
  BY DEF Got
<1>3. s' \in Frames
  BY <1>1, <1>2 DEF Frames, Steps
<1>4. /\ s'.pc = (IF Len(s.lists) = 0 THEN "done" ELSE "scan")
      /\ s'.pi = s.pi /\ s'.found = s.found /\ s'.near = s.near /\ s'.late = s.late /\ s'.ids = s.ids
      /\ s'.filtered = s.filtered /\ s'.lists = s.lists /\ s'.seen = s.seen /\ s'.result = s.result
  BY <1>1, <1>2 DEF Frames
<1>5. /\ WorldTyped' /\ HeadsTold'
      /\ \A g : Untouched(g)' = Untouched(g)
      /\ dead' = dead /\ index' = index /\ gone' = gone
  BY WorldStays DEF Got, SearchSafe, WorldTyped
<1>6. Selecting'
  BY <1>1, <1>4, <1>5 DEF SearchSafe, Selecting, Settled, Has
<1>7. Filtering'
  BY <1>1, <1>4, <1>5 DEF SearchSafe, Filtering, Later, Has
<1>8. Reading'
  BY <1>1, <1>4, <1>5 DEF SearchSafe, Reading
<1>9. Scanning'
  <2>1. s.pi = 1 /\ Len(s.lists) \in Nat /\ DOMAIN s.lists = 1..Len(s.lists)
    BY <1>1 DEF SearchSafe, Reading, Frames
  <2>2. QED BY <1>4, <2>1 DEF Scanning
<1>10. Seen'
  BY <1>4, <1>5 DEF SearchSafe, Seen, Results, Among
<1>11. QED BY <1>3, <1>5, <1>6, <1>7, <1>8, <1>9, <1>10 DEF SearchSafe

(* A list is offered: the results are the best of what was seen, now with  *)
(* the list, and hold nothing that was deleted before the search.          *)
LEMMA ListSeen ==
  ASSUME SearchAssumption, Seen, s \in Frames, NEW list \in SUBSET Vectors, list \cap gone = {}
  PROVE  LET r == AddPoints(s.result, list \ s.seen) IN
         /\ Results(r)
         /\ ToSet(r) \subseteq (s.seen \cup list) \ gone
         /\ \A v \in s.seen \cup list : Among(r, v)
<1> DEFINE r == AddPoints(s.result, list \ s.seen)
<1>1. Results(s.result) /\ ToSet(s.result) \subseteq s.seen \ gone /\ \A v \in s.seen : Among(s.result, v)
  BY DEF Seen
<1>2. list \ s.seen \in SUBSET Vectors /\ (list \ s.seen) \cap ToSet(s.result) = {} /\ s.seen \subseteq Vectors
  BY <1>1 DEF Frames
<1>3. Results(r) /\ ToSet(r) \subseteq ToSet(s.result) \cup (list \ s.seen)
      /\ \A v \in ToSet(s.result) \cup (list \ s.seen) : Among(r, v)
  BY <1>1, <1>2, PointsAdded
<1>4. ASSUME NEW v \in s.seen
      PROVE  Among(r, v)
  <2>1. v \in Vectors \ (list \ s.seen) /\ Among(s.result, v)
    BY <1>1, <1>2
  <2>2. QED BY <1>1, <1>2, <2>1, StaysAmong
<1>5. QED BY <1>1, <1>3, <1>4

LEMMA SafeScan ==
  ASSUME SearchAssumption, SearchSafe, Scan
  PROVE  SearchSafe'
<1> DEFINE list == s.lists[s.pi] \ dead
           r == AddPoints(s.result, list \ s.seen)
<1>1. s \in Frames /\ s.pc = "scan"
  BY DEF SearchSafe, Scan, At
<1>2. s' = [s EXCEPT !.pc = "cache", !.live = Cardinality(list), !.seen = @ \cup list, !.result = r]
  BY DEF Scan
<1>3. s.lists \in Seq(SUBSET Vectors) /\ s.pi \in Nat \ {0} /\ s.pi <= Len(s.lists)
  BY <1>1 DEF SearchSafe, Scanning, Frames
<1>4. s.pi \in DOMAIN s.lists /\ list \in SUBSET Vectors
  BY <1>3
<1>5. list \cap gone = {}
  BY DEF SearchSafe, WorldTyped
<1>6. Results(r) /\ ToSet(r) \subseteq (s.seen \cup list) \ gone /\ \A v \in s.seen \cup list : Among(r, v)
  BY <1>1, <1>4, <1>5, ListSeen DEF SearchSafe
<1> HIDE DEF r
<1>7. s' \in Frames
  <2>1. "cache" \in Steps /\ Cardinality(list) \in Nat /\ r \in Seq(Vectors)
    BY <1>4, <1>6, SizeOf DEF Steps, Results
  <2>2. s.seen \cup list \in SUBSET Vectors
    BY <1>1, <1>4 DEF Frames
  <2>3. QED BY <1>1, <1>2, <2>1, <2>2 DEF Frames
<1>8. /\ s'.pc = "cache" /\ s'.pi = s.pi /\ s'.found = s.found /\ s'.near = s.near /\ s'.late = s.late /\ s'.ids = s.ids
      /\ s'.filtered = s.filtered /\ s'.lists = s.lists /\ s'.seen = s.seen \cup list /\ s'.result = r
  BY <1>1, <1>2 DEF Frames
<1>9. /\ WorldTyped' /\ HeadsTold'
      /\ \A g : Untouched(g)' = Untouched(g)
      /\ dead' = dead /\ index' = index /\ gone' = gone
  BY WorldStays DEF Scan, SearchSafe, WorldTyped
<1>10. Selecting'
  BY <1>1, <1>8, <1>9 DEF SearchSafe, Selecting, Settled, Has
<1>11. Filtering'
  BY <1>1, <1>8, <1>9 DEF SearchSafe, Filtering, Later, Has
<1>12. Reading'
  BY <1>1, <1>8, <1>9 DEF SearchSafe, Reading
<1>13. Scanning'
  <2>1. \A j \in 1..s.pi - 1 : s.lists[j] \subseteq s.seen \cup dead
    BY <1>1 DEF SearchSafe, Scanning
  <2>2. \A j \in 1..s.pi : j \in 1..s.pi - 1 \/ j = s.pi
    BY <1>3
  <2>3. \A j \in 1..s.pi : s.lists[j] \subseteq s.seen \cup list \cup dead
    BY <2>1, <2>2
  <2>4. QED BY <1>3, <1>8, <1>9, <2>3 DEF Scanning
<1>14. Seen'
  BY <1>6, <1>8, <1>9 DEF Seen, Results, Among
<1>15. QED BY <1>7, <1>9, <1>10, <1>11, <1>12, <1>13, <1>14 DEF SearchSafe

LEMMA SafeScanCache ==
  ASSUME SearchAssumption, SearchSafe, ScanCache
  PROVE  SearchSafe'
<1> DEFINE h == s.ids[s.pi]
           up(vs) == s.up \/ vs # cache[h] \ dead
<1>0. PICK list \in SUBSET (cache[h] \ dead) :
        s' = [s EXCEPT !.pc = AfterCache, !.pi = @ + 1, !.up = up(list),
                       !.seen = @ \cup list, !.result = AddPoints(@, list \ s.seen)]
  BY DEF ScanCache
<1> DEFINE r == AddPoints(s.result, list \ s.seen)
<1>1. s \in Frames /\ s.pc = "cache"
  BY DEF SearchSafe, ScanCache, At
<1>2. s' = [s EXCEPT !.pc = AfterCache, !.pi = @ + 1, !.up = up(list), !.seen = @ \cup list, !.result = r]
  BY <1>0
<1>3. s.ids \in Seq(Heads) /\ s.lists \in Seq(SUBSET Vectors) /\ s.pi \in Nat \ {0} /\ s.pi <= Len(s.lists)
  BY <1>1 DEF SearchSafe, Scanning, Frames
<1>4. h \in Heads
  <2>1. Len(s.lists) = Len(s.filtered) /\ Len(s.filtered) <= Len(s.ids)
    BY <1>1 DEF SearchSafe, Reading, Filtering, Later
  <2>2. Len(s.ids) \in Nat /\ Len(s.lists) \in Nat
    BY <1>3
  <2>3. s.pi \in 1..Len(s.ids)
    BY <1>3, <2>1, <2>2
  <2>4. QED BY <1>3, <2>3
<1>5. list \in SUBSET Vectors /\ list \cap gone = {}
  BY <1>0, <1>4 DEF SearchSafe, WorldTyped
<1>6. Results(r) /\ ToSet(r) \subseteq (s.seen \cup list) \ gone /\ \A v \in s.seen \cup list : Among(r, v)
  BY <1>1, <1>5, ListSeen DEF SearchSafe
<1> HIDE DEF r
<1>7. s' \in Frames
  <2>1. AfterCache \in Steps /\ s.pi + 1 \in Nat \ {0} /\ r \in Seq(Vectors)
    BY <1>3, <1>6 DEF Steps, Results, AfterCache
  <2>2. s.seen \cup list \in SUBSET Vectors
    BY <1>1, <1>5 DEF Frames
  <2>3. up(list) \in BOOLEAN
    BY <1>1 DEF Frames
  <2>4. QED BY <1>1, <1>2, <2>1, <2>2, <2>3 DEF Frames
<1>8. /\ s'.pc = (IF s.pi = Len(s.lists) THEN "done" ELSE "scan")
      /\ s'.pi = s.pi + 1 /\ s'.found = s.found /\ s'.near = s.near /\ s'.late = s.late /\ s'.ids = s.ids
      /\ s'.filtered = s.filtered /\ s'.lists = s.lists /\ s'.seen = s.seen \cup list /\ s'.result = r
  BY <1>1, <1>2 DEF Frames, AfterCache
<1>9. listed' \subseteq Heads
  BY <1>4 DEF ScanCache, SearchSafe, WorldTyped
<1>10. /\ WorldTyped' /\ HeadsTold'
       /\ \A g : Untouched(g)' = Untouched(g)
       /\ dead' = dead /\ index' = index /\ gone' = gone
  BY <1>9, WorldStays DEF ScanCache
<1>11. Selecting'
  BY <1>1, <1>8, <1>10 DEF SearchSafe, Selecting, Settled, Has
<1>12. Filtering'
  BY <1>1, <1>8, <1>10 DEF SearchSafe, Filtering, Later, Has
<1>13. Reading'
  BY <1>1, <1>8, <1>10 DEF SearchSafe, Reading
<1>14. Scanning'
  <2>1. \A j \in 1..s.pi : s.lists[j] \subseteq s.seen \cup dead
    BY <1>1 DEF SearchSafe, Scanning
  <2>2. (s.pi + 1) - 1 = s.pi /\ DOMAIN s.lists = 1..Len(s.lists) /\ Len(s.lists) \in Nat
    BY <1>3
  <2>3. CASE s.pi = Len(s.lists)
    BY <1>8, <1>10, <2>1, <2>2, <2>3 DEF Scanning
  <2>4. CASE s.pi # Len(s.lists)
    <3>1. s'.pi <= Len(s'.lists)
      BY <1>3, <1>8, <2>2, <2>4
    <3>2. \A j \in 1..s'.pi - 1 : s'.lists[j] \subseteq s'.seen \cup dead'
      BY <1>8, <1>10, <2>1, <2>2
    <3>3. QED BY <1>8, <2>4, <3>1, <3>2 DEF Scanning
  <2>5. QED BY <2>3, <2>4
<1>15. Seen'
  BY <1>6, <1>8, <1>10 DEF Seen, Results, Among
<1>16. QED BY <1>7, <1>10, <1>11, <1>12, <1>13, <1>14, <1>15 DEF SearchSafe

-----------------------------------------------------------------------------
(* No operation reads an element that is not there, and each leaves the    *)
(* invariant standing.                                                     *)
LEMMA SafeAlways ==
  ASSUME SearchAssumption
  PROVE  Spec => []SearchSafe
<1>1. Init => SearchSafe
  BY InitSafe
<1>2. SearchSafe /\ [Next]_vars => SearchSafe'
  <2>1. ASSUME SearchSafe, UNCHANGED vars
        PROVE  SearchSafe'
    BY <2>1 DEF vars, world, SearchSafe, WorldTyped, HeadsTold, Selecting, Settled, Has, Untouched, Filtering, Reading,
                Scanning, Seen, Results, Among
  <2>2. ASSUME SearchSafe, Search
        PROVE  SearchSafe'
    BY <2>2, SafeSearchHeads, SafeSelect, SafeSelected, SafeFilter, SafeFiltered, SafeMultiGet, SafeGot, SafeScan,
       SafeScanCache DEF Search
  <2>3. QED BY <2>1, <2>2, SafeUpdates DEF Next
<1>3. QED BY <1>1, <1>2, PTL DEF Spec

(* Every variable keeps its type; there are never more results than were   *)
(* asked for, and never more lists than selected heads, so that the cache  *)
(* of each list read has a head (PostingSearch).                           *)
THEOREM SearchTyped ==
  ASSUME SearchAssumption
  PROVE  Spec => []TypeOK
<1>1. SearchSafe => TypeOK
  <2>1. SUFFICES ASSUME SearchSafe PROVE TypeOK
    OBVIOUS
  <2>2. s \in Frames /\ WorldTyped /\ Results(s.result)
    BY <2>1 DEF SearchSafe, Seen
  <2>3. s.ids \in Seq(Heads) /\ Len(s.ids) \in Nat /\ Len(s.lists) \in Nat /\ Len(s.filtered) \in Nat
    BY <2>2 DEF Frames
  <2>4. Len(s.lists) <= Len(s.ids)
    <3>1. CASE s.pc \in {"idle", "select", "filter"}
      <4>1. s.lists = << >> /\ Len(<< >>) = 0
        BY <2>1, <3>1 DEF SearchSafe, Reading
      <4>2. QED BY <2>3, <4>1
    <3>2. CASE s.pc \in Later
      <4>1. Len(s.lists) <= Len(s.filtered) /\ Len(s.filtered) <= Len(s.ids)
        BY <2>1, <3>2 DEF SearchSafe, Reading, Filtering
      <4>2. QED BY <2>3, <4>1
    <3>3. QED BY <2>2, <3>1, <3>2 DEF Frames, Steps, Later
  <2>5. QED BY <2>2, <2>3, <2>4 DEF TypeOK, WorldTyped, Results
<1>2. QED BY <1>1, SafeAlways, PTL

(* A vector that several postings or a cache hold is reported once: the    *)
(* results repeat none (PostingSearch).                                    *)
THEOREM ReportedOnce ==
  ASSUME SearchAssumption
  PROVE  Spec => []NoneTwice
<1>1. SearchSafe => NoneTwice
  BY DEF SearchSafe, Seen, Results, NoneTwice
<1>2. QED BY <1>1, SafeAlways, PTL

(* A vector whose deletion ended before the search began is in no result,  *)
(* whatever is deleted, moved or split while it runs (PostingSearch).      *)
THEOREM DeletedHidden ==
  ASSUME SearchAssumption
  PROVE  Spec => []DeletedNotReported
<1>1. SearchSafe => DeletedNotReported
  BY DEF SearchSafe, Seen, DeletedNotReported, ToSet
<1>2. QED BY <1>1, SafeAlways, PTL

(* What a search has seen at its end: the untouched vectors of a posting   *)
(* that the selection holds, if it was read in time, or that holds none.   *)
LEMMA SeenAtEnd ==
  ASSUME SearchSafe, At("done"), NEW h \in Heads, Has(s.ids, h), InTime(h), NEW v \in posting[h] \cap Stays
  PROVE  Reported(v)
<1>1. s \in Frames /\ s.pc = "done" /\ v \in Untouched(h) /\ v \notin dead
  BY DEF SearchSafe, At, Stays, Untouched
<1>2. Has(s.filtered, h)
  BY <1>1 DEF SearchSafe, Filtering, Later, Has
<1>3. PICK j \in DOMAIN s.filtered : s.filtered[j] = h
  BY <1>1, <1>2 DEF Has
<1>4. j \in DOMAIN s.lists
  BY <1>1 DEF SearchSafe, Reading, Frames
<1>5. v \in s.lists[j]
  BY <1>1, <1>3, <1>4 DEF SearchSafe, Reading, InTime
<1>6. v \in s.seen
  BY <1>1, <1>4, <1>5 DEF SearchSafe, Scanning
<1>7. QED BY <1>6 DEF SearchSafe, Seen, Among, Reported

(* At its end a search has reported, or has as many better results as were *)
(* asked for, every vector of a posting it selected and read in time that  *)
(* no update touched meanwhile: the filter and the scans lose none of      *)
(* them, and no read that comes too late costs a vector of another posting *)
(* (PostingSearch).                                                        *)
THEOREM SelectedReported ==
  ASSUME SearchAssumption
  PROVE  Spec => []PostedReported
<1>1. SearchSafe => PostedReported
  <2>1. SUFFICES ASSUME SearchSafe, At("done"), NEW i \in DOMAIN s.ids, InTime(s.ids[i]),
                        NEW v \in posting[s.ids[i]] \cap Stays
                 PROVE  Reported(v)
    BY DEF PostedReported
  <2>2. s.ids[i] \in Heads /\ Has(s.ids, s.ids[i])
    BY <2>1 DEF SearchSafe, Frames, Has
  <2>3. QED BY <2>1, <2>2, SeenAtEnd
<1>2. QED BY <1>1, SafeAlways, PTL

(* The posting of the nearest head found is searched, where its distance   *)
(* is not replaced before the selection and its read comes in time: a head *)
(* that stays in the index loses no untouched vector, whatever was split,  *)
(* merged or deleted beside the search (PostingSearch).                    *)
THEOREM NearestReported ==
  ASSUME SearchAssumption, Disk \/ ExcludeHead
  PROVE  Spec => []NearestSearched
<1>1. SearchSafe => NearestSearched
  <2>1. SUFFICES ASSUME SearchSafe, At("done"), InTime(s.found[1]), NEW v \in posting[s.found[1]] \cap Stays
                 PROVE  Reported(v)
    BY DEF NearestSearched
  <2>2. s.found[1] \in Heads /\ Has(s.ids, s.found[1])
    BY <2>1 DEF SearchSafe, Selecting, Frames, At
  <2>3. QED BY <2>1, <2>2, SeenAtEnd
<1>2. QED BY <1>1, SafeAlways, PTL
=============================================================================
