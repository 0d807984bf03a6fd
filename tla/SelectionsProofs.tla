-------------------------- MODULE SelectionsProofs --------------------------
(***************************************************************************)
(* What a selection consists of: the elements at the chosen places, each   *)
(* at its rank among them.                                                 *)
(***************************************************************************)
EXTENDS Selections, FiniteSets, FiniteSetTheorems, SequenceTheorems,
        WellFoundedInduction, TLAPS

(* The number of chosen places up to n *)
Rank(places, n) == Cardinality(places \cap (1 .. n))

LEMMA RankOfNone == ASSUME NEW places PROVE Rank(places, 0) = 0
<1>1. places \cap (1 .. 0) = {}
  OBVIOUS
<1> QED
  BY <1>1, FS_EmptySet DEF Rank

LEMMA RankIsNatural ==
  ASSUME NEW places, NEW n \in Nat
  PROVE  Rank(places, n) \in Nat
<1>1. IsFiniteSet(1 .. n)
  BY FS_Interval
<1>2. places \cap (1 .. n) \in SUBSET (1 .. n)
  OBVIOUS
<1> QED
  BY <1>1, <1>2, FS_Subset, FS_CardinalityType DEF Rank

LEMMA RankOfNext ==
  ASSUME NEW places, NEW n \in Nat
  PROVE  Rank(places, n + 1) = IF n + 1 \in places THEN Rank(places, n) + 1
                                                   ELSE Rank(places, n)
<1>1. IsFiniteSet(places \cap (1 .. n))
  <2>1. IsFiniteSet(1 .. n)
    BY FS_Interval
  <2>2. places \cap (1 .. n) \in SUBSET (1 .. n)
    OBVIOUS
  <2> QED
    BY <2>1, <2>2, FS_Subset
<1>2. CASE n + 1 \in places
  <2>1. places \cap (1 .. n + 1) = (places \cap (1 .. n)) \cup {n + 1}
    BY <1>2
  <2>2. n + 1 \notin places \cap (1 .. n)
    OBVIOUS
  <2> QED
    BY <1>1, <1>2, <2>1, <2>2, FS_AddElement DEF Rank
<1>3. CASE n + 1 \notin places
  <2>1. places \cap (1 .. n + 1) = places \cap (1 .. n)
    BY <1>3
  <2> QED
    BY <1>3, <2>1 DEF Rank
<1> QED
  BY <1>2, <1>3

Less == {ss \in Nat \X Nat : ss[1] < ss[2]}

(* The order of the naturals is well-founded. *)
LEMMA LessIsWellFounded == IsWellFoundedOn(Less, Nat)
BY NatLessThanWellFounded DEF OpToRel, Less

LEMMA Smallest ==
  ASSUME NEW S \in SUBSET Nat, S # {}
  PROVE  \E n \in S : \A k \in S : n <= k
<1>1. PICK n \in S : \A k \in S : ~ (<<k, n>> \in Less)
  BY LessIsWellFounded, WFMin, Zenon
<1>2. ASSUME NEW k \in S PROVE n <= k
  <2>1. k \in Nat /\ n \in Nat /\ <<k, n>> \notin Less
    BY <1>1
  <2>2. ~ (k < n)
    BY <2>1 DEF Less
  <2> QED
    BY <2>1, <2>2
<1> QED
  BY <1>2

(* Induction, for a set of numbers *)
LEMMA Induction ==
  ASSUME NEW S, 0 \in S, NEW m \in Nat,
         \A n \in 0 .. m - 1 : n \in S => n + 1 \in S
  PROVE  \A n \in 0 .. m : n \in S
<1> DEFINE Bad == {n \in 0 .. m : n \notin S}
<1> SUFFICES ASSUME Bad # {} PROVE FALSE
  OBVIOUS
<1>1. Bad \in SUBSET Nat
  OBVIOUS
<1>2. PICK n \in Bad : \A k \in Bad : n <= k
  <2> HIDE DEF Bad
  <2> QED
    BY <1>1, Smallest
<1>3. n # 0 /\ n - 1 \in 0 .. m - 1 /\ n = (n - 1) + 1
  OBVIOUS
<1>4. n - 1 \in S
  BY <1>2, <1>3
<1> QED
  BY <1>3, <1>4

(* Places that follow each other have ranks that do. *)
LEMMA RanksGrow ==
  ASSUME NEW places, NEW i \in Nat, NEW j \in Nat, i <= j
  PROVE  /\ Rank(places, i) <= Rank(places, j)
         /\ i < j /\ j \in places => Rank(places, i) < Rank(places, j)
<1> DEFINE S == {n \in Nat : Rank(places, i) <= Rank(places, i + n)}
<1>1. 0 \in S
  BY RankIsNatural
<1>2. ASSUME NEW n \in Nat, n \in S PROVE n + 1 \in S
  <2>1. i + n \in Nat /\ (i + n) + 1 = i + (n + 1)
    OBVIOUS
  <2>2. /\ Rank(places, i) \in Nat /\ Rank(places, i + n) \in Nat
        /\ Rank(places, i + (n + 1)) =
             IF i + (n + 1) \in places THEN Rank(places, i + n) + 1
                                       ELSE Rank(places, i + n)
    BY <2>1, RankIsNatural, RankOfNext
  <2> QED
    BY <1>2, <2>2
<1>3. \A n \in Nat : n \in S
  <2> SUFFICES ASSUME NEW m \in Nat PROVE m \in S
    OBVIOUS
  <2> HIDE DEF S
  <2>1. \A n \in 0 .. m - 1 : n \in S => n + 1 \in S
    BY <1>2
  <2>2. \A n \in 0 .. m : n \in S
    BY <1>1, <2>1, Induction
  <2> QED
    BY <2>2
<1>4. Rank(places, i) <= Rank(places, j)
  <2>1. j - i \in Nat /\ i + (j - i) = j
    OBVIOUS
  <2> QED
    BY <1>3, <2>1
<1>5. ASSUME i < j, j \in places PROVE Rank(places, i) < Rank(places, j)
  <2>1. PICK k \in Nat : k = j - 1
    BY <1>5
  <2>2. k - i \in Nat /\ i + (k - i) = k /\ j = k + 1
    BY <1>5, <2>1
  <2>3. Rank(places, i) <= Rank(places, k)
    BY <1>3, <2>2
  <2>4. Rank(places, j) = Rank(places, k) + 1
    BY <1>5, <2>2, RankOfNext
  <2> QED
    BY <2>3, <2>4, RankIsNatural
<1> QED
  BY <1>4, <1>5

-----------------------------------------------------------------------------
(* The recursion has a solution. *)

SelectNext(seq, places, upTo, n) ==
  IF n = 0 THEN <<>>
  ELSE IF n \in places THEN Append(upTo[n - 1], seq[n]) ELSE upTo[n - 1]

Solves(seq, places, f, m) ==
  \A n \in 0 .. m : f[n] = SelectNext(seq, places, f, n)

LEMMA UpToExists ==
  ASSUME NEW T, NEW seq \in Seq(T), NEW places, NEW m \in 0 .. Len(seq)
  PROVE  \E f \in [0 .. m -> Seq(T)] : Solves(seq, places, f, m)
<1> DEFINE S == {k \in 0 .. m : \E f \in [0 .. k -> Seq(T)] :
                                   Solves(seq, places, f, k)}
<1>0. Len(seq) \in Nat /\ m \in Nat
  BY LenProperties
<1>1. 0 \in S
  <2> DEFINE f == [n \in 0 .. 0 |-> <<>>]
  <2>1. f \in [0 .. 0 -> Seq(T)]
    BY EmptySeq
  <2>2. Solves(seq, places, f, 0)
    BY DEF Solves, SelectNext
  <2> HIDE DEF f
  <2> QED
    BY <1>0, <2>1, <2>2
<1>2. ASSUME NEW k \in 0 .. m - 1, k \in S PROVE k + 1 \in S
  <2>1. PICK f \in [0 .. k -> Seq(T)] : Solves(seq, places, f, k)
    BY <1>2
  <2>2. k + 1 \in 1 .. Len(seq) /\ k + 1 \in 0 .. m
    BY <1>0
  <2>3. PICK x \in Seq(T) :
          x = IF k + 1 \in places THEN Append(f[k], seq[k + 1]) ELSE f[k]
    <3>1. f[k] \in Seq(T)
      OBVIOUS
    <3>2. seq[k + 1] \in T
      BY <2>2, ElementOfSeq
    <3>3. Append(f[k], seq[k + 1]) \in Seq(T)
      BY <3>1, <3>2, AppendProperties
    <3> QED
      BY <3>1, <3>3
  <2> DEFINE g == [n \in 0 .. k + 1 |-> IF n = k + 1 THEN x ELSE f[n]]
  <2>4. g \in [0 .. k + 1 -> Seq(T)]
    OBVIOUS
  <2>5. ASSUME NEW n \in 0 .. k + 1 PROVE g[n] = SelectNext(seq, places, g, n)
    <3>1. CASE n = k + 1
      <4>1. g[n] = x /\ g[n - 1] = f[k] /\ n # 0
        BY <3>1
      <4> QED
        BY <2>3, <3>1, <4>1 DEF SelectNext
    <3>2. CASE n # k + 1
      <4>1. n \in 0 .. k /\ f[n] = SelectNext(seq, places, f, n)
        BY <2>1, <3>2 DEF Solves
      <4>2. g[n] = f[n] /\ (n # 0 => g[n - 1] = f[n - 1])
        BY <4>1
      <4> QED
        BY <4>1, <4>2 DEF SelectNext
    <3> QED
      BY <3>1, <3>2
  <2>6. Solves(seq, places, g, k + 1)
    BY <2>5 DEF Solves
  <2> HIDE DEF g
  <2> QED
    BY <2>2, <2>4, <2>6
<1>3. \A n \in 0 .. m : n \in S
  <2> HIDE DEF S
  <2> QED
    BY <1>1, <1>2, Induction
<1> QED
  BY <1>3

LEMMA SelectedIsLast ==
  ASSUME NEW T, NEW seq \in Seq(T), NEW places
  PROVE  \E f \in [0 .. Len(seq) -> Seq(T)] :
           /\ Solves(seq, places, f, Len(seq))
           /\ Selected(seq, places) = f[Len(seq)]
<1> DEFINE Solution(f) ==
             f = [n \in 0 .. Len(seq) |-> SelectNext(seq, places, f, n)]
           f == CHOOSE f : Solution(f)
<1>1. Len(seq) \in 0 .. Len(seq)
  BY LenProperties
<1>2. \E g : Solution(g)
  <2>1. PICK g \in [0 .. Len(seq) -> Seq(T)] :
          Solves(seq, places, g, Len(seq))
    BY <1>1, UpToExists
  <2> QED
    BY <2>1 DEF Solves
<1>3. Solution(f)
  <2> HIDE DEF Solution
  <2> QED
    BY <1>2
<1>4. Selected(seq, places) = f[Len(seq)]
  BY DEF Selected, SelectNext
<1> HIDE DEF f
<1>5. \A n \in 0 .. Len(seq) : f[n] = SelectNext(seq, places, f, n)
  BY <1>3
<1> DEFINE S == {n \in 0 .. Len(seq) : f[n] \in Seq(T)}
<1>6. 0 \in S
  <2>1. 0 \in 0 .. Len(seq)
    BY <1>1
  <2>2. f[0] = <<>>
    BY <1>5, <2>1 DEF SelectNext
  <2> QED
    BY <2>1, <2>2, EmptySeq
<1>7. ASSUME NEW n \in 0 .. Len(seq) - 1, n \in S PROVE n + 1 \in S
  <2>1. n + 1 \in 1 .. Len(seq) /\ n + 1 \in 0 .. Len(seq)
        /\ (n + 1) - 1 = n
    BY <1>1
  <2>2. f[n + 1] = IF n + 1 \in places THEN Append(f[n], seq[n + 1]) ELSE f[n]
    <3>1. n + 1 # 0 /\ f[n + 1] = SelectNext(seq, places, f, n + 1)
      BY <1>5, <2>1
    <3> QED
      BY <2>1, <3>1 DEF SelectNext
  <2>3. f[n] \in Seq(T) /\ seq[n + 1] \in T
    BY <1>7, <2>1, ElementOfSeq
  <2>4. Append(f[n], seq[n + 1]) \in Seq(T)
    BY <2>3, AppendProperties
  <2> QED
    BY <2>1, <2>2, <2>3, <2>4
<1>8. \A n \in 0 .. Len(seq) : n \in S
  <2>1. Len(seq) \in Nat
    BY LenProperties
  <2> HIDE DEF S
  <2> QED
    BY <1>6, <1>7, <2>1, Induction
<1>9. f \in [0 .. Len(seq) -> Seq(T)]
  BY <1>3, <1>8
<1> QED
  BY <1>4, <1>5, <1>9 DEF Solves

-----------------------------------------------------------------------------
(* What is selected *)

(* q consists of what is selected from the first n elements. *)
Consists(seq, places, q, n) ==
  /\ Len(q) = Rank(places, n)
  /\ \A i \in 1 .. n : i \in places =>
       /\ Rank(places, i) \in 1 .. Len(q)
       /\ q[Rank(places, i)] = seq[i]
  /\ \A j \in 1 .. Len(q) :
       \E i \in 1 .. n : i \in places /\ Rank(places, i) = j

LEMMA ConsistsOfMore ==
  ASSUME NEW T, NEW seq \in Seq(T), NEW places, NEW q \in Seq(T),
         NEW n \in 0 .. Len(seq) - 1, Consists(seq, places, q, n)
  PROVE  Consists(seq, places,
           IF n + 1 \in places THEN Append(q, seq[n + 1]) ELSE q, n + 1)
<1>1. n \in Nat /\ n + 1 \in 1 .. Len(seq) /\ Len(q) \in Nat
  BY LenProperties
<1>2. /\ Len(q) = Rank(places, n)
      /\ Rank(places, n + 1) = IF n + 1 \in places THEN Len(q) + 1 ELSE Len(q)
  BY <1>1, RankOfNext DEF Consists
<1>3. CASE n + 1 \notin places
  <2>1. \A i \in 1 .. n + 1 : i \in places => i \in 1 .. n
    BY <1>1, <1>3
  <2> QED
    BY <1>1, <1>2, <1>3, <2>1 DEF Consists
<1>4. CASE n + 1 \in places
  <2>1. PICK r \in Seq(T) : r = Append(q, seq[n + 1])
    <3>1. seq[n + 1] \in T
      BY <1>1, ElementOfSeq
    <3> QED
      BY <3>1, AppendProperties
  <2>2. /\ Len(r) = Len(q) + 1 /\ r[Len(q) + 1] = seq[n + 1]
        /\ \A j \in 1 .. Len(q) : r[j] = q[j]
    <3>1. seq[n + 1] \in T
      BY <1>1, ElementOfSeq
    <3> QED
      BY <2>1, <3>1, AppendProperties
  <2>3. ASSUME NEW i \in 1 .. n + 1, i \in places
        PROVE  Rank(places, i) \in 1 .. Len(r) /\ r[Rank(places, i)] = seq[i]
    <3>1. CASE i = n + 1
      BY <1>1, <1>2, <1>4, <2>2, <3>1
    <3>2. CASE i # n + 1
      <4>1. i \in 1 .. n
        BY <1>1, <3>2
      <4>2. Rank(places, i) \in 1 .. Len(q) /\ q[Rank(places, i)] = seq[i]
        BY <2>3, <4>1 DEF Consists
      <4> QED
        BY <1>1, <2>2, <4>2
    <3> QED
      BY <3>1, <3>2
  <2>4. ASSUME NEW j \in 1 .. Len(r)
        PROVE  \E i \in 1 .. n + 1 : i \in places /\ Rank(places, i) = j
    <3>1. CASE j = Len(q) + 1
      BY <1>1, <1>2, <1>4, <3>1
    <3>2. CASE j # Len(q) + 1
      <4>1. j \in 1 .. Len(q)
        BY <1>1, <2>2, <3>2
      <4>2. PICK i \in 1 .. n : i \in places /\ Rank(places, i) = j
        BY <4>1 DEF Consists
      <4> QED
        BY <1>1, <4>2
    <3> QED
      BY <3>1, <3>2
  <2>5. Consists(seq, places, r, n + 1)
    BY <1>2, <1>4, <2>2, <2>3, <2>4 DEF Consists
  <2> QED
    BY <1>4, <2>1, <2>5
<1> QED
  BY <1>3, <1>4

(* A selection is a sequence of what is selected. *)
LEMMA SelectedElements ==
  ASSUME NEW T, NEW seq \in Seq(T), NEW places
  PROVE  /\ Selected(seq, places) \in Seq(T)
         /\ Consists(seq, places, Selected(seq, places), Len(seq))
<1>1. PICK f \in [0 .. Len(seq) -> Seq(T)] :
        /\ Solves(seq, places, f, Len(seq))
        /\ Selected(seq, places) = f[Len(seq)]
  BY SelectedIsLast
<1>2. Len(seq) \in Nat
  BY LenProperties
<1> DEFINE S == {n \in 0 .. Len(seq) : Consists(seq, places, f[n], n)}
<1>3. 0 \in S
  <2>1. f[0] = <<>>
    BY <1>1, <1>2 DEF Solves, SelectNext
  <2>2. Len(f[0]) = 0
    BY <2>1
  <2>3. Consists(seq, places, f[0], 0)
    BY <2>2, RankOfNone DEF Consists
  <2> QED
    BY <1>2, <2>3
<1>4. ASSUME NEW n \in 0 .. Len(seq) - 1, n \in S PROVE n + 1 \in S
  <2>1. n + 1 \in 0 .. Len(seq) /\ n + 1 # 0 /\ (n + 1) - 1 = n
        /\ n \in 0 .. Len(seq)
    BY <1>2
  <2>2. f[n + 1] = IF n + 1 \in places THEN Append(f[n], seq[n + 1]) ELSE f[n]
    <3>1. f[n + 1] = SelectNext(seq, places, f, n + 1)
      BY <1>1, <2>1 DEF Solves
    <3> QED
      BY <2>1, <3>1 DEF SelectNext
  <2>3. f[n] \in Seq(T) /\ Consists(seq, places, f[n], n)
    BY <1>4, <2>1
  <2>4. Consists(seq, places, f[n + 1], n + 1)
    BY <2>2, <2>3, ConsistsOfMore
  <2> QED
    BY <2>1, <2>4
<1>5. \A n \in 0 .. Len(seq) : n \in S
  <2> HIDE DEF S
  <2> QED
    BY <1>2, <1>3, <1>4, Induction
<1> QED
  BY <1>1, <1>2, <1>5
=============================================================================
