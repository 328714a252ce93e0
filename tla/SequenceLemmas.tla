--------------------------- MODULE SequenceLemmas ---------------------------
(***************************************************************************)
(* Facts about sequences that the proofs of Registry need: which members a *)
(* sequence has, in which order, and what becomes of that when one is      *)
(* taken from its front and others are put there; and what FlattenSeq and  *)
(* SetToSeq of the community modules return.                               *)
(*                                                                         *)
(* FlattenSeq is recursive, so that what it returns is found by induction. *)
(* The induction theorems of the library take an operator; SetInduction    *)
(* takes a set, and follows from the order of the naturals being well      *)
(* founded.                                                                *)
(***************************************************************************)
EXTENDS Integers, Sequences, FiniteSets, SequencesExt, TLAPS, FiniteSetTheorems, WellFoundedInduction

(* q has a member of K; has no others; before, or behind, every member of K there is one of L; *)
(* q has at most one member of K; has them all at its front.                                  *)
Some(q, K) == \E i \in DOMAIN q : q[i] \in K
All(q, K) == \A i \in DOMAIN q : q[i] \in K
Preceded(q, K, L) == \A i \in DOMAIN q : q[i] \in K => \E j \in DOMAIN q : j < i /\ q[j] \in L
Followed(q, K, L) == \A i \in DOMAIN q : q[i] \in K => \E j \in DOMAIN q : i < j /\ q[j] \in L
Single(q, K) == \A i, j \in DOMAIN q : q[i] \in K /\ q[j] \in K => i = j
Grouped(q, K) == \A i, j \in DOMAIN q : i < j /\ q[j] \in K => q[i] \in K

(* Induction, for sets: the least number outside of S would follow one that is in it. *)
LEMMA SetInduction ==
  ASSUME NEW S, 0 \in S, \A n \in Nat : n \in S => n + 1 \in S
  PROVE  \A n \in Nat : n \in S
<1> DEFINE R == OpToRel(<, Nat)
           T == Nat \ S
<1> SUFFICES ASSUME T # {} PROVE FALSE
  OBVIOUS
<1>1. IsWellFoundedOn(R, Nat)
  BY NatLessThanWellFounded
<1>2. \A i, j \in Nat : i < j => <<i, j>> \in R
  BY DEF OpToRel
<1>3. T \subseteq Nat
  OBVIOUS
<1> HIDE DEF R
<1>4. PICK x \in T : \A y \in T : ~(<<y, x>> \in R)
  BY <1>1, <1>3, WFMin
<1>5. x # 0 /\ x \in Nat /\ x - 1 \in Nat /\ x - 1 < x
  OBVIOUS
<1>6. x - 1 \notin T
  BY <1>2, <1>4, <1>5
<1>7. (x - 1) + 1 \in S
  BY <1>5, <1>6
<1> QED
  BY <1>5, <1>7

(* The members of two sequences, one after the other. *)
LEMMA RangeOfConcat ==
  ASSUME NEW D, NEW a \in Seq(D), NEW b \in Seq(D), NEW x
  PROVE  x \in Range(a \o b) <=> x \in Range(a) \/ x \in Range(b)
<1>1. /\ \A i \in DOMAIN a : i \in DOMAIN (a \o b) /\ (a \o b)[i] = a[i]
      /\ \A i \in DOMAIN b : Len(a) + i \in DOMAIN (a \o b) /\ (a \o b)[Len(a) + i] = b[i]
  OBVIOUS
<1>2. \A i \in DOMAIN (a \o b) : \/ i \in DOMAIN a /\ (a \o b)[i] = a[i]
                                 \/ i - Len(a) \in DOMAIN b /\ (a \o b)[i] = b[i - Len(a)]
  OBVIOUS
<1>3. \A s, y : y \in Range(s) <=> \E i \in DOMAIN s : s[i] = y
  BY DEF Range
<1>4. (\E i \in DOMAIN (a \o b) : (a \o b)[i] = x)
        <=> (\E i \in DOMAIN a : a[i] = x) \/ \E i \in DOMAIN b : b[i] = x
  BY <1>1, <1>2, Zenon
<1> QED
  BY <1>3, <1>4, Zenon

Flat(n, ss, f) ==
  f = [i \in 1..n |-> IF i = 1 THEN ss[i] ELSE f[i - 1] \o ss[i]]
Upto(ss, k, f) == k # 0 => f[1] = ss[1] /\ \A i \in 2..k : f[i] = f[i - 1] \o ss[i]

(* The function FlattenSeq is defined by exists, and is what FlattenSeq returns. *)
LEMMA FlatExists ==
  ASSUME NEW D, NEW n \in Nat, NEW ss \in [1..n -> Seq(D)]
  PROVE  \E f \in [1..n -> Seq(D)] : Upto(ss, n, f)
<1> DEFINE S == {k \in Nat : k \in 0..n => \E f \in [1..k -> Seq(D)] : Upto(ss, k, f)}
<1>1. 0 \in S
  <2>1. [i \in 1..0 |-> << >>] \in [1..0 -> Seq(D)]
    OBVIOUS
  <2>2. Upto(ss, 0, [i \in 1..0 |-> << >>])
    BY DEF Upto
  <2> QED
    BY <2>1, <2>2
<1>2. ASSUME NEW k \in Nat, k \in S PROVE k + 1 \in S
  <2> SUFFICES ASSUME k + 1 \in 0..n PROVE \E f \in [1..(k + 1) -> Seq(D)] : Upto(ss, k + 1, f)
    OBVIOUS
  <2>1. ss[k + 1] \in Seq(D)
    OBVIOUS
  <2>2. PICK f \in [1..k -> Seq(D)] : Upto(ss, k, f)
    BY <1>2
  <2>3. CASE k = 0
    <3> DEFINE g == [i \in 1..(k + 1) |-> ss[i]]
    <3>1. g \in [1..(k + 1) -> Seq(D)]
      BY <2>1, <2>3
    <3>2. Upto(ss, k + 1, g)
      BY <2>3 DEF Upto
    <3> QED BY <3>1, <3>2
  <2>4. CASE k # 0
    <3> DEFINE g == [i \in 1..(k + 1) |-> IF i = k + 1 THEN f[k] \o ss[k + 1] ELSE f[i]]
    <3>1. k \in 1..k
      BY <2>4
    <3>2. f[k] \in Seq(D)
      BY <2>2, <3>1
    <3>3. f[k] \o ss[k + 1] \in Seq(D)
      BY <2>1, <3>2
    <3>4. \A i \in 1..(k + 1) : i # k + 1 => f[i] \in Seq(D)
      BY <2>2
    <3>5. g \in [1..(k + 1) -> Seq(D)]
      BY <3>3, <3>4
    <3>6. g[1] = ss[1]
      BY <2>2, <2>4 DEF Upto
    <3>7. ASSUME NEW i \in 2..(k + 1) PROVE g[i] = g[i - 1] \o ss[i]
      <4>1. CASE i = k + 1
        <5>1. g[k + 1] = f[k] \o ss[k + 1]
          <6>1. k + 1 \in 1..(k + 1)
            OBVIOUS
          <6> QED BY <6>1
        <5>2. g[k] = f[k]
          BY <3>1
        <5>3. i - 1 = k
          BY <4>1
        <5> HIDE DEF g
        <5> QED BY <5>1, <5>2, <5>3, <4>1
      <4>2. CASE i # k + 1
        <5>1. g[i] = f[i] /\ g[i - 1] = f[i - 1] /\ i \in 2..k
          BY <4>2
        <5>2. f[i] = f[i - 1] \o ss[i]
          BY <5>1, <2>2, <2>4 DEF Upto
        <5> QED BY <5>1, <5>2
      <4> QED BY <4>1, <4>2
    <3> HIDE DEF g
    <3>8. Upto(ss, k + 1, g)
      BY <3>6, <3>7 DEF Upto
    <3> QED BY <3>5, <3>8
  <2> QED BY <2>3, <2>4
<1>3. n \in S
  <2> HIDE DEF S
  <2> QED BY <1>1, <1>2, SetInduction
<1> QED
  BY <1>3

LEMMA FlatUnfolds ==
  ASSUME NEW D, NEW n \in Nat, n # 0, NEW ss \in [1..n -> Seq(D)]
  PROVE  \E f \in [1..n -> Seq(D)] : Upto(ss, n, f) /\ FlattenSeq(ss) = f[n]
<1>1. PICK f \in [1..n -> Seq(D)] : Upto(ss, n, f)
  BY FlatExists
<1>2. f = [i \in 1..n |-> IF i = 1 THEN ss[i] ELSE f[i - 1] \o ss[i]]
  <2>1. \A i \in 1..n : i = 1 \/ i \in 2..n
    OBVIOUS
  <2>2. \A i \in 1..n : f[i] = (IF i = 1 THEN ss[i] ELSE f[i - 1] \o ss[i])
    BY <1>1, <2>1 DEF Upto
  <2> QED BY <2>2
<1> DEFINE F == CHOOSE g : Flat(n, ss, g)
<1>3. Flat(n, ss, f)
  BY <1>2 DEF Flat
<1>4. Flat(n, ss, F)
  BY <1>3
<1>5. Len(ss) = n
  OBVIOUS
<1>6. FlattenSeq(ss) = F[n]
  BY <1>5 DEF FlattenSeq, Flat
<1> HIDE DEF F
<1>7. \A i \in 1..n : F[i] = (IF i = 1 THEN ss[i] ELSE F[i - 1] \o ss[i])
  BY <1>4 DEF Flat
<1>8. F = [i \in 1..n |-> F[i]]
  BY <1>4, Zenon DEF Flat
<1> DEFINE S == {k \in Nat : k \in 1..n => F[k] = f[k]}
<1>9. \A k \in Nat : k \in S
  <2>1. 0 \in S
    OBVIOUS
  <2>2. ASSUME NEW k \in Nat, k \in S PROVE k + 1 \in S
    <3>1. CASE k = 0
      BY <3>1, <1>7, <1>2
    <3>2. CASE k # 0 /\ k + 1 \in 1..n
      <4>1. F[k] = f[k] /\ k \in 1..n /\ k + 1 # 1 /\ (k + 1) - 1 = k
        BY <2>2, <3>2
      <4>2. F[k + 1] = F[k] \o ss[k + 1]
        BY <1>7, <3>2, <4>1
      <4>3. f[k + 1] = f[k] \o ss[k + 1]
        <5>1. k + 1 \in 2..n
          BY <3>2
        <5>2. \A i \in 2..n : f[i] = f[i - 1] \o ss[i]
          BY <1>1 DEF Upto
        <5>3. f[k + 1] = f[(k + 1) - 1] \o ss[k + 1]
          BY <5>1, <5>2
        <5>4. (k + 1) - 1 = k
          OBVIOUS
        <5> QED BY <5>3, <5>4, Zenon
      <4>4. F[k + 1] = f[k + 1]
        BY <4>1, <4>2, <4>3, Zenon
      <4> QED BY <4>4
    <3> QED BY <3>1, <3>2
  <2> HIDE DEF S
  <2> QED BY <2>1, <2>2, SetInduction
<1>10. F[n] = f[n]
  BY <1>9
<1> QED
  BY <1>1, <1>6, <1>10
(* FlattenSeq has the elements of all the sequences, and no others. *)
LEMMA FlattenHas ==
  ASSUME NEW D, NEW n \in Nat, NEW ss \in [1..n -> Seq(D)]
  PROVE  /\ FlattenSeq(ss) \in Seq(D)
         /\ \A x : x \in Range(FlattenSeq(ss)) <=> \E i \in 1..n : x \in Range(ss[i])
<1>0. Len(ss) = n /\ ss \in Seq(Seq(D))
  OBVIOUS
<1>1. CASE n = 0
  <2>1. FlattenSeq(ss) = << >> /\ ss = << >>
    BY <1>0, <1>1 DEF FlattenSeq
  <2> QED BY <2>1, <1>1 DEF Range
<1>2. CASE n # 0
  <2>1. PICK f \in [1..n -> Seq(D)] : Upto(ss, n, f) /\ FlattenSeq(ss) = f[n]
    BY <1>2, FlatUnfolds
  <2> DEFINE Has(i) == \A x : x \in Range(f[i]) <=> \E b \in 1..i : x \in Range(ss[b])
             S == {k \in Nat : k \in 1..n => Has(k)}
  <2>2. f[1] = ss[1] /\ \A i \in 2..n : f[i] = f[i - 1] \o ss[i]
    BY <2>1, <1>2 DEF Upto
  <2>4. 0 \in S
    OBVIOUS
  <2>5. ASSUME NEW k \in Nat, k \in S PROVE k + 1 \in S
    <3> SUFFICES ASSUME k + 1 \in 1..n PROVE Has(k + 1)
      OBVIOUS
    <3>1. CASE k = 0
      <4>1. f[1] = ss[1]
        BY <2>2
      <4>2. \A b : b \in 1..(k + 1) <=> b = 1
        BY <3>1
      <4> QED BY <4>1, <4>2, <3>1
    <3>2. CASE k # 0
      <4>0. k + 1 \in 2..n /\ (k + 1) - 1 = k /\ k \in 1..n
        BY <3>2
      <4>1. f[k + 1] = f[k] \o ss[k + 1] /\ ss[k + 1] \in Seq(D) /\ f[k] \in Seq(D)
        <5>1. f[k + 1] = f[(k + 1) - 1] \o ss[k + 1]
          BY <2>2, <4>0
        <5>2. f[k + 1] = f[k] \o ss[k + 1]
          BY <5>1, <4>0, Zenon
        <5> QED BY <5>2, <4>0
      <4>2. Has(k)
        BY <2>5, <4>0
      <4>3. ASSUME NEW x
            PROVE x \in Range(f[k + 1]) <=> x \in Range(f[k]) \/ x \in Range(ss[k + 1])
        BY <4>1, RangeOfConcat
      <4>4. \A b : b \in 1..(k + 1) <=> (b \in 1..k \/ b = k + 1)
        OBVIOUS
      <4> HIDE DEF S
      <4> QED
        BY <4>2, <4>3, <4>4, Zenon
    <3> QED BY <3>1, <3>2
  <2>6. n \in S
    <3> HIDE DEF S
    <3> QED BY <2>4, <2>5, SetInduction
  <2>7. Has(n)
    BY <2>6, <1>2
  <2> QED BY <2>1, <2>7, <1>2
<1> QED BY <1>1, <1>2

(* Where the members of a concatenation, and those of a tail, come from. *)
LEMMA ConcatIs ==
  ASSUME NEW T, NEW a \in Seq(T), NEW b \in Seq(T)
  PROVE  /\ a \o b \in Seq(T)
         /\ \A i \in DOMAIN a : i \in Int /\ 1 <= i /\ i <= Len(a) /\ i \in DOMAIN (a \o b) /\ (a \o b)[i] = a[i]
         /\ \A i \in DOMAIN b : i \in Int /\ 1 <= i /\ Len(a) + i \in DOMAIN (a \o b) /\ (a \o b)[Len(a) + i] = b[i]
         /\ \A i \in DOMAIN (a \o b) : i \in Int /\ (i \in DOMAIN a \/ \E j \in DOMAIN b : i = Len(a) + j)
         /\ Len(a) \in Nat
<1>1. /\ a \o b \in Seq(T) /\ Len(a) \in Nat
      /\ \A i \in DOMAIN a : i \in Int /\ 1 <= i /\ i <= Len(a) /\ i \in DOMAIN (a \o b) /\ (a \o b)[i] = a[i]
      /\ \A i \in DOMAIN b : i \in Int /\ 1 <= i /\ Len(a) + i \in DOMAIN (a \o b) /\ (a \o b)[Len(a) + i] = b[i]
  OBVIOUS
<1>2. ASSUME NEW i \in DOMAIN (a \o b)
      PROVE  i \in Int /\ (i \in DOMAIN a \/ \E j \in DOMAIN b : i = Len(a) + j)
  <2>1. i \in Int /\ (i \in DOMAIN a \/ (i - Len(a) \in DOMAIN b /\ i = Len(a) + (i - Len(a))))
    OBVIOUS
  <2> QED BY <2>1
<1> QED BY <1>1, <1>2

LEMMA TailIs ==
  ASSUME NEW T, NEW q \in Seq(T), q # << >>
  PROVE  /\ Tail(q) \in Seq(T) /\ Head(q) \in T /\ q = <<Head(q)>> \o Tail(q)
         /\ 1 \in DOMAIN q /\ q[1] = Head(q)
         /\ \A i \in DOMAIN Tail(q) : i \in Int /\ 1 <= i /\ i + 1 \in DOMAIN q /\ Tail(q)[i] = q[i + 1]
         /\ \A i \in DOMAIN q : i \in Int /\ 1 <= i /\ (i = 1 \/ (i - 1 \in DOMAIN Tail(q) /\ Tail(q)[i - 1] = q[i]))
<1>1. /\ Tail(q) \in Seq(T) /\ Head(q) \in T
      /\ 1 \in DOMAIN q /\ q[1] = Head(q)
      /\ \A i \in DOMAIN Tail(q) : i \in Int /\ 1 <= i /\ i + 1 \in DOMAIN q /\ Tail(q)[i] = q[i + 1]
      /\ \A i \in DOMAIN q : i \in Int /\ 1 <= i /\ (i = 1 \/ (i - 1 \in DOMAIN Tail(q) /\ Tail(q)[i - 1] = q[i]))
  OBVIOUS
<1>2. q = <<Head(q)>> \o Tail(q)
  OBVIOUS
<1> QED BY <1>1, <1>2

(* What holds of a concatenation, and of a tail. *)
LEMMA SomeConcat ==
  ASSUME NEW T, NEW a \in Seq(T), NEW b \in Seq(T), NEW K
  PROVE  Some(a \o b, K) <=> Some(a, K) \/ Some(b, K)
<1>1. Some(a \o b, K) => Some(a, K) \/ Some(b, K)
  BY ConcatIs DEF Some
<1>2. Some(a, K) => Some(a \o b, K)
  BY ConcatIs DEF Some
<1>3. ASSUME NEW i \in DOMAIN b, b[i] \in K PROVE Some(a \o b, K)
  <2>0. \A x \in DOMAIN b : Len(a) + x \in DOMAIN (a \o b) /\ (a \o b)[Len(a) + x] = b[x]
    BY ConcatIs
  <2>1. Len(a) + i \in DOMAIN (a \o b) /\ (a \o b)[Len(a) + i] = b[i]
    BY <2>0, Zenon
  <2> QED BY <1>3, <2>1, Zenon DEF Some
<1> QED BY <1>1, <1>2, <1>3 DEF Some

LEMMA SomeTail ==
  ASSUME NEW T, NEW q \in Seq(T), q # << >>, NEW K
  PROVE  Some(q, K) <=> Head(q) \in K \/ Some(Tail(q), K)
<1>1. Some(Tail(q), K) => Some(q, K)
  BY TailIs DEF Some
<1>2. Some(q, K) => Head(q) \in K \/ Some(Tail(q), K)
  BY TailIs DEF Some
<1>3. Head(q) \in K => Some(q, K)
  BY TailIs DEF Some
<1> QED BY <1>1, <1>2, <1>3

LEMMA PrecededConcat ==
  ASSUME NEW T, NEW a \in Seq(T), NEW b \in Seq(T), NEW K, NEW L,
         Preceded(a, K, L), Some(a, L) \/ Preceded(b, K, L)
  PROVE  Preceded(a \o b, K, L)
<1> DEFINE q == a \o b
<1> SUFFICES ASSUME NEW i \in DOMAIN q, q[i] \in K
             PROVE  \E j \in DOMAIN q : j < i /\ q[j] \in L
  BY DEF Preceded
<1>1. CASE i \in DOMAIN a
  <2>1. PICK j \in DOMAIN a : j < i /\ a[j] \in L
    BY <1>1, ConcatIs DEF Preceded
  <2> QED BY <2>1, ConcatIs
<1>2. ASSUME NEW k \in DOMAIN b, i = Len(a) + k PROVE \E j \in DOMAIN q : j < i /\ q[j] \in L
  <2>0. b[k] \in K
    BY <1>2, ConcatIs
  <2>1. CASE Some(a, L)
    <3>1. PICK j \in DOMAIN a : a[j] \in L
      BY <2>1 DEF Some
    <3>2. j \in DOMAIN q /\ q[j] = a[j] /\ j < i
      BY <1>2, ConcatIs
    <3> QED BY <3>1, <3>2
  <2>2. CASE Preceded(b, K, L)
    <3>1. PICK j \in DOMAIN b : j < k /\ b[j] \in L
      BY <2>0, <2>2 DEF Preceded
    <3>2. Len(a) + j \in DOMAIN q /\ q[Len(a) + j] = b[j] /\ j \in Int /\ k \in Int /\ Len(a) \in Nat
      BY <1>2, <3>1, ConcatIs
    <3>3. Len(a) + j < i
      BY <1>2, <3>1, <3>2
    <3> QED BY <3>1, <3>2, <3>3
  <2> QED BY <2>1, <2>2
<1> QED BY <1>1, <1>2, ConcatIs

LEMMA PrecededTail ==
  ASSUME NEW T, NEW q \in Seq(T), q # << >>, NEW K, NEW L, Preceded(q, K, L), Head(q) \notin L
  PROVE  Preceded(Tail(q), K, L)
<1> SUFFICES ASSUME NEW i \in DOMAIN Tail(q), Tail(q)[i] \in K
             PROVE  \E j \in DOMAIN Tail(q) : j < i /\ Tail(q)[j] \in L
  BY DEF Preceded
<1>1. i + 1 \in DOMAIN q /\ q[i + 1] \in K /\ i \in Int
  BY TailIs
<1>2. PICK j \in DOMAIN q : j < i + 1 /\ q[j] \in L
  BY <1>1 DEF Preceded
<1>3. j # 1
  BY <1>2, TailIs
<1>4. j - 1 \in DOMAIN Tail(q) /\ Tail(q)[j - 1] \in L /\ j - 1 < i
  BY <1>1, <1>2, <1>3, TailIs
<1> QED BY <1>4

LEMMA PrecededHead ==
  ASSUME NEW T, NEW q \in Seq(T), q # << >>, NEW K, NEW L, Preceded(q, K, L)
  PROVE  Head(q) \notin K
BY TailIs DEF Preceded

LEMMA FollowedConcat ==
  ASSUME NEW T, NEW a \in Seq(T), NEW b \in Seq(T), NEW K, NEW L, Followed(a, K, L), Followed(b, K, L)
  PROVE  Followed(a \o b, K, L)
<1> DEFINE q == a \o b
<1> SUFFICES ASSUME NEW i \in DOMAIN q, q[i] \in K
             PROVE  \E j \in DOMAIN q : i < j /\ q[j] \in L
  BY DEF Followed
<1>1. CASE i \in DOMAIN a
  <2>1. PICK j \in DOMAIN a : i < j /\ a[j] \in L
    BY <1>1, ConcatIs DEF Followed
  <2> QED BY <2>1, ConcatIs
<1>2. ASSUME NEW k \in DOMAIN b, i = Len(a) + k PROVE \E j \in DOMAIN q : i < j /\ q[j] \in L
  <2>0. b[k] \in K
    BY <1>2, ConcatIs
  <2>1. PICK j \in DOMAIN b : k < j /\ b[j] \in L
    BY <2>0 DEF Followed
  <2>2. Len(a) + j \in DOMAIN q /\ q[Len(a) + j] = b[j] /\ j \in Int /\ k \in Int /\ Len(a) \in Nat
    BY <1>2, <2>1, ConcatIs
  <2>3. i < Len(a) + j
    BY <1>2, <2>1, <2>2
  <2> QED BY <2>1, <2>2, <2>3
<1> QED BY <1>1, <1>2, ConcatIs

LEMMA FollowedTail ==
  ASSUME NEW T, NEW q \in Seq(T), q # << >>, NEW K, NEW L, Followed(q, K, L)
  PROVE  Followed(Tail(q), K, L) /\ (Head(q) \in K => Some(Tail(q), L))
<1>1. ASSUME NEW i \in DOMAIN Tail(q), Tail(q)[i] \in K
      PROVE  \E j \in DOMAIN Tail(q) : i < j /\ Tail(q)[j] \in L
  <2>1. i + 1 \in DOMAIN q /\ q[i + 1] \in K /\ i \in Int /\ 1 <= i
    BY <1>1, TailIs
  <2>2. PICK j \in DOMAIN q : i + 1 < j /\ q[j] \in L
    BY <2>1 DEF Followed
  <2>3. j - 1 \in DOMAIN Tail(q) /\ Tail(q)[j - 1] \in L /\ i < j - 1
    BY <2>1, <2>2, TailIs
  <2> QED BY <2>3
<1>2. ASSUME Head(q) \in K PROVE Some(Tail(q), L)
  <2>1. PICK j \in DOMAIN q : 1 < j /\ q[j] \in L
    BY <1>2, TailIs DEF Followed
  <2>2. j - 1 \in DOMAIN Tail(q) /\ Tail(q)[j - 1] \in L
    BY <2>1, TailIs
  <2> QED BY <2>2 DEF Some
<1> QED BY <1>1, <1>2 DEF Followed

LEMMA SingleConcat ==
  ASSUME NEW T, NEW a \in Seq(T), NEW b \in Seq(T), NEW K, Single(a, K), Single(b, K),
         ~(Some(a, K) /\ Some(b, K))
  PROVE  Single(a \o b, K)
<1> SUFFICES ASSUME NEW i \in DOMAIN (a \o b), NEW j \in DOMAIN (a \o b),
                    (a \o b)[i] \in K, (a \o b)[j] \in K
             PROVE  i = j
  BY DEF Single
<1>1. CASE i \in DOMAIN a /\ j \in DOMAIN a
  BY <1>1, ConcatIs DEF Single
<1>2. ASSUME NEW k \in DOMAIN b, NEW l \in DOMAIN b, i = Len(a) + k, j = Len(a) + l PROVE i = j
  <2>0. \A x \in DOMAIN b : Len(a) + x \in DOMAIN (a \o b) /\ (a \o b)[Len(a) + x] = b[x]
    BY ConcatIs
  <2>1. b[k] \in K /\ b[l] \in K
    <3>1. (a \o b)[Len(a) + k] = b[k] /\ (a \o b)[Len(a) + l] = b[l]
      BY <2>0, Zenon
    <3> QED BY <1>2, <3>1
  <2> QED BY <1>2, <2>1 DEF Single
<1>3. CASE Some(a, K)
  <2>1. \A k \in DOMAIN b : b[k] \notin K
    BY <1>3 DEF Some
  <2> QED BY <1>1, <2>1, ConcatIs
<1>4. CASE ~Some(a, K)
  <2>1. \A k \in DOMAIN a : a[k] \notin K
    BY <1>4 DEF Some
  <2>2. i \notin DOMAIN a /\ j \notin DOMAIN a
    BY <2>1, ConcatIs
  <2> QED BY <1>2, <2>2, ConcatIs
<1> QED BY <1>3, <1>4

LEMMA SingleTail ==
  ASSUME NEW T, NEW q \in Seq(T), q # << >>, NEW K, Single(q, K)
  PROVE  Single(Tail(q), K) /\ (Head(q) \in K => ~Some(Tail(q), K))
<1>1. ASSUME NEW i \in DOMAIN Tail(q), NEW j \in DOMAIN Tail(q), Tail(q)[i] \in K, Tail(q)[j] \in K
      PROVE  i = j
  <2>1. i \in Int /\ j \in Int /\ i + 1 \in DOMAIN q /\ j + 1 \in DOMAIN q /\ q[i + 1] \in K /\ q[j + 1] \in K
    BY <1>1, TailIs
  <2>2. i + 1 = j + 1
    BY <2>1 DEF Single
  <2> QED BY <2>1, <2>2
<1>2. ASSUME Head(q) \in K, NEW i \in DOMAIN Tail(q), Tail(q)[i] \in K PROVE FALSE
  <2>1. i \in Int /\ 1 <= i /\ i + 1 \in DOMAIN q /\ q[i + 1] \in K /\ 1 \in DOMAIN q /\ q[1] \in K
    BY <1>2, TailIs
  <2>2. i + 1 = 1
    BY <2>1 DEF Single
  <2> QED BY <2>1, <2>2
<1> QED BY <1>1, <1>2 DEF Single, Some

LEMMA GroupedConcat ==
  ASSUME NEW T, NEW a \in Seq(T), NEW b \in Seq(T), NEW K, Grouped(a, K), Grouped(b, K),
         Some(b, K) => All(a, K)
  PROVE  Grouped(a \o b, K)
<1> SUFFICES ASSUME NEW i \in DOMAIN (a \o b), NEW j \in DOMAIN (a \o b), i < j, (a \o b)[j] \in K
             PROVE  (a \o b)[i] \in K
  BY DEF Grouped
<1>1. CASE j \in DOMAIN a
  <2>1. i \in DOMAIN a
    BY <1>1, ConcatIs
  <2> QED BY <1>1, <2>1, ConcatIs DEF Grouped
<1>2. ASSUME NEW l \in DOMAIN b, j = Len(a) + l PROVE (a \o b)[i] \in K
  <2>1. b[l] \in K
    BY <1>2, ConcatIs
  <2>2. CASE i \in DOMAIN a
    BY <2>1, <2>2, ConcatIs DEF Some, All
  <2>3. ASSUME NEW k \in DOMAIN b, i = Len(a) + k PROVE (a \o b)[i] \in K
    <3>1. k < l
      BY <1>2, <2>3, ConcatIs
    <3>2. b[k] \in K
      BY <3>1, <2>1 DEF Grouped
    <3> QED BY <3>2, <2>3, ConcatIs
  <2> QED BY <2>2, <2>3, ConcatIs
<1> QED BY <1>1, <1>2, ConcatIs

LEMMA GroupedTail ==
  ASSUME NEW T, NEW q \in Seq(T), q # << >>, NEW K, Grouped(q, K)
  PROVE  Grouped(Tail(q), K) /\ (Head(q) \notin K => ~Some(Tail(q), K))
<1>1. ASSUME NEW i \in DOMAIN Tail(q), NEW j \in DOMAIN Tail(q), i < j, Tail(q)[j] \in K
      PROVE  Tail(q)[i] \in K
  <2>1. i + 1 \in DOMAIN q /\ j + 1 \in DOMAIN q /\ q[j + 1] \in K /\ i + 1 < j + 1 /\ Tail(q)[i] = q[i + 1]
    BY <1>1, TailIs
  <2> QED BY <2>1 DEF Grouped
<1>2. ASSUME Head(q) \notin K, NEW i \in DOMAIN Tail(q), Tail(q)[i] \in K PROVE FALSE
  <2>1. 1 \in DOMAIN q /\ i + 1 \in DOMAIN q /\ q[i + 1] \in K /\ 1 < i + 1 /\ q[1] = Head(q)
    BY <1>2, TailIs
  <2> QED BY <1>2, <2>1 DEF Grouped
<1> QED BY <1>1, <1>2 DEF Grouped, Some

LEMMA SomeRange ==
  ASSUME NEW q, NEW K
  PROVE  Some(q, K) <=> \E x \in Range(q) : x \in K
BY DEF Some, Range

(* SetToSeq enumerates a finite set, without repetition. *)
LEMMA SetToSeqIs ==
  ASSUME NEW S, IsFiniteSet(S)
  PROVE  /\ SetToSeq(S) \in Seq(S) /\ Len(SetToSeq(S)) = Cardinality(S)
         /\ Range(SetToSeq(S)) = S
         /\ \A i, j \in DOMAIN SetToSeq(S) : SetToSeq(S)[i] = SetToSeq(S)[j] => i = j
<1> DEFINE n == Cardinality(S)
           q == SetToSeq(S)
<1>1. n \in Nat /\ ExistsBijection(1..n, S)
  BY FS_CardinalityType
<1>2. PICK f \in [1..n -> S] : IsInjective(f)
  BY <1>1 DEF ExistsBijection, Bijection, Injection, IsInjective
<1>3. q \in [1..n -> S] /\ IsInjective(q)
  BY <1>2 DEF SetToSeq
<1> HIDE DEF q
<1>4. q \in Seq(S) /\ Len(q) = n
  BY <1>1, <1>3
<1>5. \A i, j \in DOMAIN q : q[i] = q[j] => i = j
  BY <1>3 DEF IsInjective
<1>6. q \in Injection(1..n, S)
  BY <1>3 DEF Injection
<1>7. IsFiniteSet(1..n) /\ Cardinality(1..n) = n
  BY <1>1, FS_Interval
<1>8. q \in Surjection(1..n, S)
  BY <1>6, <1>7, FS_Injection
<1>9. Range(q) = S
  BY <1>3, <1>8 DEF Surjection, Range
<1> QED BY <1>4, <1>5, <1>9 DEF q

(* The shortest sequences. *)
LEMMA Nothing ==
  /\ \A K : ~Some(<< >>, K) /\ All(<< >>, K) /\ Single(<< >>, K) /\ Grouped(<< >>, K)
  /\ \A K, L : Preceded(<< >>, K, L) /\ Followed(<< >>, K, L)
BY DEF Some, All, Single, Grouped, Preceded, Followed

LEMMA OneThing ==
  ASSUME NEW x
  PROVE  /\ \A K : Some(<<x>>, K) <=> x \in K
         /\ \A K : All(<<x>>, K) <=> x \in K
         /\ \A K : Single(<<x>>, K) /\ Grouped(<<x>>, K)
         /\ \A K, L : x \notin K => Preceded(<<x>>, K, L) /\ Followed(<<x>>, K, L)
<1>1. \A i \in DOMAIN <<x>> : i = 1 /\ <<x>>[i] = x
  OBVIOUS
<1>2. 1 \in DOMAIN <<x>> /\ <<x>>[1] = x
  OBVIOUS
<1> DEFINE q == <<x>>
<1> HIDE DEF q
<1>3. (\A i \in DOMAIN q : i = 1 /\ q[i] = x) /\ 1 \in DOMAIN q /\ q[1] = x
  BY <1>1, <1>2 DEF q
<1>4. ~(1 < 1)
  OBVIOUS
<1>5. \A K : (Some(q, K) <=> x \in K) /\ (All(q, K) <=> x \in K) /\ Single(q, K)
  BY <1>3 DEF Some, All, Single
<1>6. \A K : Grouped(q, K)
  BY <1>3, <1>4 DEF Grouped
<1>7. \A K, L : x \notin K => Preceded(q, K, L) /\ Followed(q, K, L)
  BY <1>3 DEF Preceded, Followed
<1> QED BY <1>5, <1>6, <1>7 DEF q

LEMMA WithoutSome ==
  ASSUME NEW q, NEW K, ~Some(q, K)
  PROVE  /\ Single(q, K) /\ Grouped(q, K)
         /\ \A L : Preceded(q, K, L) /\ Followed(q, K, L)
BY DEF Some, Single, Grouped, Preceded, Followed

=============================================================================
