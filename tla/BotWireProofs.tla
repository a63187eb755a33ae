---------------------------- MODULE BotWireProofs ----------------------------
(***************************************************************************)
(* Proof that the client reads what the server wrote, and the server what  *)
(* the client meant, for every answer, account and limit on lengths.       *)
(***************************************************************************)
EXTENDS FrameDecoderProofs, FiniteSetTheorems, WellFoundedInduction

-----------------------------------------------------------------------------
(* Induction over the natural numbers                                      *)

Earlier == {s \in Nat \X Nat : s[1] < s[2]}

LEMMA SmallestNumber ==
  ASSUME NEW T \in SUBSET Nat, T # {}
  PROVE  \E x \in T : \A y \in T : x <= y
<1>1. IsWellFoundedOn(OpToRel(<, Nat), Nat)
  BY NatLessThanWellFounded
<1>2. OpToRel(<, Nat) = Earlier
  BY DEF OpToRel, Earlier
<1>3. \E x \in T : \A y \in T : ~(<<y, x>> \in Earlier)
  BY <1>1, <1>2, WFMin
<1>4. PICK x \in T : \A y \in T : ~(<<y, x>> \in Earlier)
  BY <1>3
<1>5. x \in Nat /\ \A y \in T : y \in Nat
  OBVIOUS
<1>6. \A y \in T : ~(y < x)
  <2> SUFFICES ASSUME NEW y \in T, y < x PROVE FALSE
    OBVIOUS
  <2>1. <<y, x>> \in Earlier
    BY <1>5 DEF Earlier
  <2> QED BY <1>4, <2>1
<1> QED
  BY <1>5, <1>6

LEMMA SetInduction ==
  ASSUME NEW T, 0 \in T, \A n \in Nat : n \in T => n + 1 \in T
  PROVE  Nat \subseteq T
<1> DEFINE S == Nat \ T
<1> SUFFICES ASSUME S # {} PROVE FALSE
  OBVIOUS
<1>1. PICK x \in S : \A y \in S : x <= y
  BY SmallestNumber
<1>2. x # 0 /\ x \in Nat
  BY <1>1
<1>3. x - 1 \in Nat /\ x - 1 + 1 = x /\ ~(x <= x - 1)
  BY <1>2
<1>4. x - 1 \notin S
  BY <1>1, <1>3
<1> QED
  BY <1>2, <1>3, <1>4

-----------------------------------------------------------------------------
(* One sequence behind the other                                           *)

UpTo(s) ==
  CHOOSE f : f = [i \in 1 .. Len(s) |-> IF i = 1 THEN s[i] ELSE f[i - 1] \o s[i]]
(* The first n of them. *)
FlatTo(s, n) == IF n = 0 THEN <<>> ELSE UpTo(s)[n]
(* What is before the i-th. *)
Offset(s, i) == Len(FlatTo(s, i - 1))

LEMMA UpToExists ==
  ASSUME NEW L \in Nat, NEW s
  PROVE  \E f : f = [i \in 1 .. L |-> IF i = 1 THEN s[i] ELSE f[i - 1] \o s[i]]
<1> DEFINE T == {n \in Nat : \E f : f = [i \in 1 .. n |-> IF i = 1 THEN s[i] ELSE f[i - 1] \o s[i]]}
<1>1. 0 \in T
  <2> DEFINE f == [i \in 1 .. 0 |-> s[i]]
  <2>1. f = [i \in 1 .. 0 |-> IF i = 1 THEN s[i] ELSE f[i - 1] \o s[i]]
    OBVIOUS
  <2> HIDE DEF f
  <2> QED BY <2>1
<1>2. ASSUME NEW n \in Nat, n \in T PROVE n + 1 \in T
  <2>1. PICK f : f = [i \in 1 .. n |-> IF i = 1 THEN s[i] ELSE f[i - 1] \o s[i]]
    BY <1>2
  <2> DEFINE g == [i \in 1 .. n + 1 |->
                     IF i <= n THEN f[i] ELSE IF i = 1 THEN s[i] ELSE f[i - 1] \o s[i]]
  <2>2. ASSUME NEW i \in 1 .. n + 1
        PROVE  g[i] = IF i = 1 THEN s[i] ELSE g[i - 1] \o s[i]
    <3>1. CASE i <= n
      <4>1. i \in 1 .. n /\ g[i] = f[i]
        BY <3>1
      <4>2. f[i] = IF i = 1 THEN s[i] ELSE f[i - 1] \o s[i]
        BY <2>1, <4>1
      <4>3. i # 1 => i - 1 \in 1 .. n + 1 /\ i - 1 <= n /\ g[i - 1] = f[i - 1]
        BY <4>1
      <4> HIDE DEF g
      <4> QED BY <4>1, <4>2, <4>3
    <3>2. CASE ~(i <= n)
      <4>1. g[i] = IF i = 1 THEN s[i] ELSE f[i - 1] \o s[i]
        BY <3>2
      <4>2. i # 1 => i - 1 \in 1 .. n + 1 /\ i - 1 <= n /\ g[i - 1] = f[i - 1]
        OBVIOUS
      <4> HIDE DEF g
      <4> QED BY <4>1, <4>2
    <3> QED BY <3>1, <3>2
  <2>3. g = [i \in 1 .. n + 1 |-> IF i = 1 THEN s[i] ELSE g[i - 1] \o s[i]]
    <3>1. DOMAIN g = 1 .. n + 1 /\ g = [i \in 1 .. n + 1 |-> g[i]]
      OBVIOUS
    <3> HIDE DEF g
    <3> QED BY <2>2, <3>1
  <2>4. \E h : h = [i \in 1 .. n + 1 |-> IF i = 1 THEN s[i] ELSE h[i - 1] \o s[i]]
    <3> HIDE DEF g
    <3> QED BY Zenon, <2>3
  <2>5. n + 1 \in Nat
    OBVIOUS
  <2> QED BY Zenon, <2>4, <2>5
<1> HIDE DEF T
<1>3. L \in T
  BY <1>1, <1>2, SetInduction
<1> QED
  BY <1>3 DEF T

LEMMA FlatToIs ==
  ASSUME NEW S, NEW s \in Seq(Seq(S)), NEW n \in 0 .. Len(s)
  PROVE  /\ n > 0 => FlatTo(s, n) = FlatTo(s, n - 1) \o s[n]
         /\ FlatTo(s, 0) = <<>>
<1> DEFINE f == UpTo(s)
<1>1. f = [i \in 1 .. Len(s) |-> IF i = 1 THEN s[i] ELSE f[i - 1] \o s[i]]
  <2>1. \E g : g = [i \in 1 .. Len(s) |-> IF i = 1 THEN s[i] ELSE g[i - 1] \o s[i]]
    <3>1. Len(s) \in Nat BY LenProperties
    <3> QED BY <3>1, UpToExists
  <2> QED BY Zenon, <2>1 DEF UpTo
<1> HIDE DEF f
<1>2. ASSUME n > 0 PROVE FlatTo(s, n) = FlatTo(s, n - 1) \o s[n]
  <2>1. n \in 1 .. Len(s) /\ Len(s) \in Nat
    BY <1>2, LenProperties
  <2>2. f[n] = IF n = 1 THEN s[n] ELSE f[n - 1] \o s[n]
    BY <1>1, <2>1
  <2>3. s[n] \in Seq(S)
    BY <2>1, ElementOfSeq
  <2>4. CASE n = 1
    <3>1. <<>> \o s[n] = s[n]
      BY <2>3
    <3> QED BY <2>2, <2>4, <3>1 DEF FlatTo, f
  <2>5. CASE n # 1
    <3>1. n # 0 /\ n - 1 # 0
      BY <2>1, <2>5
    <3>2. FlatTo(s, n) = f[n] /\ FlatTo(s, n - 1) = f[n - 1]
      BY <3>1 DEF FlatTo, f
    <3> QED BY <2>2, <2>5, <3>2
  <2> QED BY <2>4, <2>5
<1> QED
  BY <1>2 DEF FlatTo

LEMMA FlattenIsFlatTo ==
  ASSUME NEW S, NEW s \in Seq(Seq(S))
  PROVE  FlattenSeq(s) = FlatTo(s, Len(s))
<1>1. FlattenSeq(s) = IF Len(s) = 0 THEN s ELSE UpTo(s)[Len(s)]
  BY Zenon DEF FlattenSeq, UpTo
<1>2. Len(s) = 0 => s = <<>>
  BY EmptySeq
<1> QED
  BY <1>1, <1>2 DEF FlatTo

LEMMA FlatToGrows ==
  ASSUME NEW S, NEW s \in Seq(Seq(S)), NEW n \in 0 .. Len(s)
  PROVE  /\ FlatTo(s, n) \in Seq(S)
         /\ \A m \in 0 .. n :
              /\ Len(FlatTo(s, m)) <= Len(FlatTo(s, n))
              /\ \A k \in 1 .. Len(FlatTo(s, m)) : FlatTo(s, n)[k] = FlatTo(s, m)[k]
         /\ \A q \in 1 .. Len(FlatTo(s, n)) :
              \E i \in 1 .. n : \E k \in 1 .. Len(s[i]) : q = Offset(s, i) + k
<1> DEFINE P(j) ==
      /\ FlatTo(s, j) \in Seq(S)
      /\ \A m \in 0 .. j :
           /\ FlatTo(s, m) \in Seq(S)
           /\ Len(FlatTo(s, m)) <= Len(FlatTo(s, j))
           /\ \A k \in 1 .. Len(FlatTo(s, m)) : FlatTo(s, j)[k] = FlatTo(s, m)[k]
      /\ \A q \in 1 .. Len(FlatTo(s, j)) :
           \E i \in 1 .. j : \E k \in 1 .. Len(s[i]) : q = Offset(s, i) + k
      T == {j \in Nat : j <= Len(s) => P(j)}
<1>0. Len(s) \in Nat /\ \A i \in 1 .. Len(s) : s[i] \in Seq(S)
  BY LenProperties, ElementOfSeq
<1>1. 0 \in T
  <2>1. FlatTo(s, 0) = <<>> BY DEF FlatTo
  <2>2. <<>> \in Seq(S) /\ Len(<<>>) = 0 BY EmptySeq
  <2>3. \A m \in 0 .. 0 : m = 0 OBVIOUS
  <2>4. 1 .. 0 = {} OBVIOUS
  <2>5. P(0)
    <3>1. FlatTo(s, 0) \in Seq(S) /\ 1 .. Len(FlatTo(s, 0)) = {}
      BY <2>1, <2>2, <2>4
    <3>2. \A m \in 0 .. 0 :
            /\ FlatTo(s, m) \in Seq(S)
            /\ Len(FlatTo(s, m)) <= Len(FlatTo(s, 0))
            /\ \A k \in 1 .. Len(FlatTo(s, m)) : FlatTo(s, 0)[k] = FlatTo(s, m)[k]
      <4> SUFFICES ASSUME NEW m \in 0 .. 0
                   PROVE  /\ FlatTo(s, m) \in Seq(S)
                          /\ Len(FlatTo(s, m)) <= Len(FlatTo(s, 0))
                          /\ \A k \in 1 .. Len(FlatTo(s, m)) : FlatTo(s, 0)[k] = FlatTo(s, m)[k]
        OBVIOUS
      <4>1. FlatTo(s, m) = <<>>
        BY Zenon, <2>1, <2>3
      <4>2. 0 <= 0
        OBVIOUS
      <4> QED BY <2>1, <2>2, <2>4, <4>1, <4>2
    <3>3. \A q \in 1 .. Len(FlatTo(s, 0)) :
            \E i \in 1 .. 0 : \E k \in 1 .. Len(s[i]) : q = Offset(s, i) + k
      BY <3>1
    <3> QED BY <3>1, <3>2, <3>3
  <2> QED BY <2>5
<1>2. ASSUME NEW j \in Nat, j \in T PROVE j + 1 \in T
  <2> SUFFICES ASSUME j + 1 <= Len(s) PROVE P(j + 1)
    OBVIOUS
  <2> DEFINE A == FlatTo(s, j)
             B == FlatTo(s, j + 1)
             e == s[j + 1]
  <2>1. P(j)
    BY <1>0, <1>2
  <2>2. B = A \o e
    <3>1. PICK m \in 0 .. Len(s) : m = j + 1
      BY <1>0
    <3>2. m > 0 /\ m - 1 = j
      BY <3>1
    <3>3. FlatTo(s, m) = FlatTo(s, m - 1) \o s[m]
      BY <3>2, FlatToIs
    <3> QED BY Zenon, <3>1, <3>2, <3>3
  <2>3. A \in Seq(S) /\ e \in Seq(S)
    <3>1. j + 1 \in 1 .. Len(s)
      BY <1>0
    <3> QED BY <1>0, <2>1, <3>1
  <2>4. /\ B \in Seq(S)
        /\ Len(B) = Len(A) + Len(e)
        /\ \A i \in 1 .. Len(A) : B[i] = A[i]
        /\ Len(A) \in Nat /\ Len(e) \in Nat
    <3> HIDE DEF A, B, e
    <3> QED BY <2>2, <2>3, CellsConcat, LenProperties
  <2>5. ASSUME NEW m \in 0 .. j + 1
        PROVE  /\ FlatTo(s, m) \in Seq(S)
               /\ Len(FlatTo(s, m)) <= Len(B)
               /\ \A k \in 1 .. Len(FlatTo(s, m)) : B[k] = FlatTo(s, m)[k]
    <3>1. CASE m = j + 1
      BY <2>4, <3>1
    <3>2. CASE m # j + 1
      <4>1. m \in 0 .. j BY <3>2
      <4>2. /\ FlatTo(s, m) \in Seq(S)
            /\ Len(FlatTo(s, m)) <= Len(A)
            /\ \A k \in 1 .. Len(FlatTo(s, m)) : A[k] = FlatTo(s, m)[k]
        BY <2>1, <4>1
      <4>3. Len(FlatTo(s, m)) \in Nat BY <4>2, LenProperties
      <4> HIDE DEF A, B, e
      <4> QED BY <2>4, <4>2, <4>3
    <3> QED BY <3>1, <3>2
  <2>6. ASSUME NEW q \in 1 .. Len(B)
        PROVE  \E i \in 1 .. j + 1 : \E k \in 1 .. Len(s[i]) : q = Offset(s, i) + k
    <3>1. CASE q <= Len(A)
      <4>1. q \in 1 .. Len(A) BY <2>4, <3>1
      <4>2. PICK i \in 1 .. j : \E k \in 1 .. Len(s[i]) : q = Offset(s, i) + k
        BY <2>1, <4>1
      <4>3. i \in 1 .. j + 1 OBVIOUS
      <4> QED BY <4>2, <4>3
    <3>2. CASE q > Len(A)
      <4>1. q - Len(A) \in 1 .. Len(e) /\ q = Len(A) + (q - Len(A))
        BY <2>4, <3>2
      <4>2. Offset(s, j + 1) = Len(A)
        <5>1. j + 1 - 1 = j OBVIOUS
        <5> QED BY <5>1 DEF Offset
      <4>3. j + 1 \in 1 .. j + 1 OBVIOUS
      <4> QED BY <4>1, <4>2, <4>3
    <3> QED BY <2>4, <3>1, <3>2
  <2> QED BY <2>4, <2>5, <2>6
<1> HIDE DEF T
<1>3. n \in T
  <2>1. n \in Nat BY <1>0
  <2>2. Nat \subseteq T BY <1>1, <1>2, SetInduction
  <2> QED BY <2>1, <2>2
<1>4. n <= Len(s) BY <1>0
<1> HIDE DEF P
<1>5. P(n) BY <1>3, <1>4 DEF T
<1> QED
  BY <1>5 DEF P

(* Where the sequences are when they are written one behind the other.     *)
LEMMA FlattenParts ==
  ASSUME NEW S, NEW s \in Seq(Seq(S))
  PROVE  /\ FlattenSeq(s) \in Seq(S)
         /\ Offset(s, 1) = 0 /\ Len(FlattenSeq(s)) = Offset(s, Len(s) + 1)
         /\ \A i \in 1 .. Len(s) :
              /\ Offset(s, i) \in Nat /\ Offset(s, i + 1) = Offset(s, i) + Len(s[i])
              /\ Offset(s, i + 1) <= Len(FlattenSeq(s))
              /\ \A j \in 1 .. i - 1 : Offset(s, j + 1) <= Offset(s, i)
              /\ \A k \in 1 .. Len(s[i]) : FlattenSeq(s)[Offset(s, i) + k] = s[i][k]
         /\ \A q \in 1 .. Len(FlattenSeq(s)) :
              \E i \in 1 .. Len(s) : \E k \in 1 .. Len(s[i]) : q = Offset(s, i) + k
<1> DEFINE L == Len(s)
<1>0. L \in Nat /\ \A i \in 1 .. L : s[i] \in Seq(S)
  BY LenProperties, ElementOfSeq
<1>1. FlattenSeq(s) = FlatTo(s, L)
  BY FlattenIsFlatTo
<1>2. L \in 0 .. L /\ 1 - 1 = 0 /\ L + 1 - 1 = L
  BY <1>0
<1>3. FlatTo(s, 0) = <<>> /\ Len(<<>>) = 0
  BY EmptySeq DEF FlatTo
<1>4. ASSUME NEW i \in 1 .. L
      PROVE  /\ Offset(s, i) \in Nat /\ Offset(s, i + 1) = Offset(s, i) + Len(s[i])
             /\ Offset(s, i + 1) <= Len(FlattenSeq(s))
             /\ \A j \in 1 .. i - 1 : Offset(s, j + 1) <= Offset(s, i)
             /\ \A k \in 1 .. Len(s[i]) : FlattenSeq(s)[Offset(s, i) + k] = s[i][k]
  <2>1. i \in 0 .. L /\ i - 1 \in 0 .. L /\ i + 1 - 1 = i /\ i > 0
    BY <1>0
  <2>2. FlatTo(s, i) = FlatTo(s, i - 1) \o s[i]
    BY <2>1, FlatToIs
  <2>3. FlatTo(s, i - 1) \in Seq(S) /\ s[i] \in Seq(S)
    BY <1>0, <2>1, FlatToGrows
  <2>4. /\ Len(FlatTo(s, i)) = Len(FlatTo(s, i - 1)) + Len(s[i])
        /\ \A k \in 1 .. Len(s[i]) : FlatTo(s, i)[Len(FlatTo(s, i - 1)) + k] = s[i][k]
        /\ Len(FlatTo(s, i - 1)) \in Nat /\ Len(s[i]) \in Nat
    BY <2>2, <2>3, CellsConcat, LenProperties
  <2>5. Offset(s, i) = Len(FlatTo(s, i - 1)) /\ Offset(s, i + 1) = Len(FlatTo(s, i))
    BY <2>1 DEF Offset
  <2>6. /\ Len(FlatTo(s, i)) <= Len(FlattenSeq(s))
        /\ \A k \in 1 .. Len(FlatTo(s, i)) : FlattenSeq(s)[k] = FlatTo(s, i)[k]
    <3>1. \A m \in 0 .. L :
            /\ Len(FlatTo(s, m)) <= Len(FlatTo(s, L))
            /\ \A k \in 1 .. Len(FlatTo(s, m)) : FlatTo(s, L)[k] = FlatTo(s, m)[k]
      BY <1>2, FlatToGrows
    <3> QED BY <1>1, <2>1, <3>1
  <2>7. ASSUME NEW j \in 1 .. i - 1 PROVE Offset(s, j + 1) <= Offset(s, i)
    <3>1. j \in 0 .. i - 1 /\ j + 1 - 1 = j BY <2>1
    <3>2. Len(FlatTo(s, j)) <= Len(FlatTo(s, i - 1))
      BY <2>1, <3>1, FlatToGrows
    <3> QED BY <2>5, <3>1, <3>2 DEF Offset
  <2>8. ASSUME NEW k \in 1 .. Len(s[i])
        PROVE  FlattenSeq(s)[Offset(s, i) + k] = s[i][k]
    <3>1. Offset(s, i) + k \in 1 .. Len(FlatTo(s, i))
      BY <2>4, <2>5
    <3> QED BY <2>4, <2>5, <2>6, <3>1
  <2> QED BY <2>4, <2>5, <2>6, <2>7, <2>8
<1>5. /\ FlattenSeq(s) \in Seq(S)
      /\ \A q \in 1 .. Len(FlattenSeq(s)) :
           \E i \in 1 .. L : \E k \in 1 .. Len(s[i]) : q = Offset(s, i) + k
  BY <1>1, <1>2, FlatToGrows
<1>6. Offset(s, 1) = 0 /\ Len(FlattenSeq(s)) = Offset(s, L + 1)
  BY <1>1, <1>2, <1>3 DEF Offset
<1> QED
  BY <1>4, <1>5, <1>6

-----------------------------------------------------------------------------
(* The members of a set of numbers in order                                *)

LEMMA UpToCounts ==
  ASSUME NEW k \in Nat
  PROVE  IsFiniteSet(1 .. k) /\ Cardinality(1 .. k) = k
<1>1. 1 \in Int /\ k \in Int
  OBVIOUS
<1>2. /\ IsFiniteSet(1 .. k)
      /\ Cardinality(1 .. k) = IF 1 > k THEN 0 ELSE k - 1 + 1
  BY <1>1, FS_Interval
<1> QED
  BY <1>2

(* A set that is counted off has that many members. *)
LEMMA CountedOff ==
  ASSUME NEW k \in Nat, NEW p, \A i, j \in 1 .. k : p[i] = p[j] => i = j,
         NEW S, S = {p[i] : i \in 1 .. k}
  PROVE  IsFiniteSet(S) /\ Cardinality(S) = k
<1> DEFINE f == [i \in 1 .. k |-> p[i]]
<1>1. f \in Bijection(1 .. k, S)
  BY DEF Bijection, Injection, Surjection, IsInjective
<1>2. ExistsBijection(1 .. k, S)
  BY <1>1 DEF ExistsBijection
<1> QED
  BY <1>2, UpToCounts, FS_Bijection

Increases(p, c) == \A i, j \in 1 .. c : i < j => p[i] < p[j]

LEMMA InOrderIs ==
  ASSUME NEW c \in Nat, NEW p \in [1 .. c -> Nat], Increases(p, c),
         NEW S, S = {p[i] : i \in 1 .. c}
  PROVE  InOrder(S) = p
<1>1. ASSUME NEW i \in 1 .. c, NEW j \in 1 .. c
      PROVE  /\ p[i] = p[j] => i = j
             /\ p[i] <= p[j] <=> i <= j
  <2>1. p[i] \in Nat /\ p[j] \in Nat
    OBVIOUS
  <2>2. (i < j => p[i] < p[j]) /\ (j < i => p[j] < p[i])
    BY DEF Increases
  <2> QED BY <2>1, <2>2
<1>2. Cardinality(S) = c
  BY <1>1, CountedOff
<1>3. ASSUME NEW k \in 1 .. c
      PROVE  Cardinality({m \in S : m <= p[k]}) = k
  <2>1. k \in Nat /\ \A i \in 1 .. k : i \in 1 .. c /\ i <= k
    OBVIOUS
  <2>2. \A i \in 1 .. c : i <= k => i \in 1 .. k
    OBVIOUS
  <2> DEFINE U == {m \in S : m <= p[k]}
  <2>3. U = {p[i] : i \in 1 .. k}
    BY <1>1, <2>1, <2>2
  <2>4. \A i, j \in 1 .. k : p[i] = p[j] => i = j
    BY <1>1, <2>1
  <2> HIDE DEF U
  <2>5. Cardinality(U) = k
    BY <2>1, <2>3, <2>4, CountedOff
  <2> QED BY <2>5 DEF U
<1>4. ASSUME NEW k \in 1 .. c
      PROVE  (CHOOSE n \in S : Cardinality({m \in S : m <= n}) = k) = p[k]
  <2>1. p[k] \in S /\ Cardinality({m \in S : m <= p[k]}) = k
    BY <1>3
  <2>2. \A n \in S : Cardinality({m \in S : m <= n}) = k => n = p[k]
    BY <1>3
  <2> DEFINE Q(n) == Cardinality({m \in S : m <= n}) = k
  <2>3. Q(p[k]) /\ \A n \in S : Q(n) => n = p[k]
    BY <2>1, <2>2
  <2> HIDE DEF Q
  <2>4. (CHOOSE n \in S : Q(n)) = p[k]
    BY <2>1, <2>3
  <2> QED BY <2>4 DEF Q
<1>5. InOrder(S) = [k \in 1 .. c |-> CHOOSE n \in S : Cardinality({m \in S : m <= n}) = k]
  BY <1>2 DEF InOrder
<1>6. InOrder(S) = [k \in 1 .. c |-> p[k]]
  BY <1>4, <1>5
<1> QED
  BY <1>6

(* A set of numbers with a greatest one can be counted off. *)
LEMMA Enumerated ==
  ASSUME NEW n \in Nat, NEW S \in SUBSET (1 .. n)
  PROVE  \E c \in Nat : \E p \in [1 .. c -> 1 .. n] : Increases(p, c) /\ S = {p[i] : i \in 1 .. c}
<1> DEFINE P(U, m) == \E c \in Nat : \E p \in [1 .. c -> 1 .. m] :
                        Increases(p, c) /\ U = {p[i] : i \in 1 .. c}
           T == {m \in Nat : \A U \in SUBSET (1 .. m) : P(U, m)}
<1>1. 0 \in T
  <2> SUFFICES ASSUME NEW U \in SUBSET (1 .. 0) PROVE P(U, 0)
    OBVIOUS
  <2> DEFINE p == [i \in 1 .. 0 |-> i]
  <2>1. 1 .. 0 = {}
    OBVIOUS
  <2>2. p \in [1 .. 0 -> 1 .. 0] /\ Increases(p, 0) /\ U = {p[i] : i \in 1 .. 0}
    BY <2>1 DEF Increases
  <2> QED BY <2>2
<1>2. ASSUME NEW m \in Nat, m \in T PROVE m + 1 \in T
  <2> SUFFICES ASSUME NEW U \in SUBSET (1 .. m + 1) PROVE P(U, m + 1)
    <3> HIDE DEF P
    <3> QED OBVIOUS
  <2> DEFINE V == U \ {m + 1}
  <2>1. V \in SUBSET (1 .. m)
    <3>1. ASSUME NEW x \in 1 .. m + 1, x # m + 1 PROVE x \in 1 .. m
      <4>1. x \in Int /\ m + 1 \in Int /\ 1 <= x /\ x <= m + 1
        OBVIOUS
      <4>2. x < m + 1
        BY <3>1, <4>1
      <4> QED BY <4>1, <4>2
    <3>2. \A x \in V : x \in 1 .. m
      BY <3>1
    <3> QED BY <3>2
  <2>0. PICK c \in Nat : \E p \in [1 .. c -> 1 .. m] :
          Increases(p, c) /\ V = {p[i] : i \in 1 .. c}
    BY <1>2, <2>1
  <2>2. PICK p \in [1 .. c -> 1 .. m] : Increases(p, c) /\ V = {p[i] : i \in 1 .. c}
    BY <2>0
  <2>3. CASE m + 1 \notin U
    <3>1. U = V /\ p \in [1 .. c -> 1 .. m + 1]
      BY <2>3
    <3> QED BY <2>2, <3>1
  <2>4. CASE m + 1 \in U
    <3> DEFINE q == [i \in 1 .. c + 1 |-> IF i = c + 1 THEN m + 1 ELSE p[i]]
    <3>1. /\ \A i \in 1 .. c : i \in 1 .. c + 1 /\ q[i] = p[i] /\ p[i] \in 1 .. m
          /\ c + 1 \in 1 .. c + 1 /\ q[c + 1] = m + 1
          /\ \A i \in 1 .. c + 1 : i \in 1 .. c \/ i = c + 1
      OBVIOUS
    <3>2. q \in [1 .. c + 1 -> 1 .. m + 1]
      OBVIOUS
    <3> HIDE DEF q
    <3>3. Increases(q, c + 1)
      <4> SUFFICES ASSUME NEW i \in 1 .. c + 1, NEW j \in 1 .. c + 1, i < j PROVE q[i] < q[j]
        BY DEF Increases
      <4>1. i \in 1 .. c
        BY <3>1
      <4>2. CASE j \in 1 .. c
        BY <2>2, <3>1, <4>1, <4>2 DEF Increases
      <4>3. CASE j = c + 1
        BY <3>1, <4>1, <4>3
      <4> QED BY <3>1, <4>2, <4>3
    <3>4. U = {q[i] : i \in 1 .. c + 1}
      <4>1. U = V \cup {m + 1}
        BY <2>4
      <4> HIDE DEF V
      <4>2. \A x \in U : \E i \in 1 .. c + 1 : x = q[i]
        BY <2>2, <3>1, <4>1
      <4>3. \A i \in 1 .. c + 1 : q[i] \in U
        BY <2>2, <3>1, <4>1
      <4> QED BY <4>2, <4>3
    <3>5. c + 1 \in Nat
      OBVIOUS
    <3> QED BY <3>2, <3>3, <3>4, <3>5
  <2> QED BY <2>3, <2>4
<1> HIDE DEF T
<1>3. n \in T
  BY <1>1, <1>2, SetInduction
<1>4. P(S, n)
  BY <1>3 DEF T
<1> QED
  BY <1>4

LEMMA InOrderEnumerates ==
  ASSUME NEW n \in Nat, NEW S \in SUBSET (1 .. n)
  PROVE  \E c \in Nat :
           /\ InOrder(S) \in [1 .. c -> S]
           /\ Increases(InOrder(S), c)
           /\ S = {InOrder(S)[i] : i \in 1 .. c}
<1>0. PICK c \in Nat :
        \E p \in [1 .. c -> 1 .. n] : Increases(p, c) /\ S = {p[i] : i \in 1 .. c}
  BY Enumerated
<1>1. PICK p \in [1 .. c -> 1 .. n] : Increases(p, c) /\ S = {p[i] : i \in 1 .. c}
  BY <1>0
<1>2. p \in [1 .. c -> Nat]
  OBVIOUS
<1>3. InOrder(S) = p
  BY <1>1, <1>2, InOrderIs
<1>4. p \in [1 .. c -> S]
  BY <1>1
<1> QED
  BY <1>1, <1>3, <1>4

-----------------------------------------------------------------------------
(* Parsing a body                                                          *)

(* A field is parsed by what is behind it. *)
LEMMA ParseLooksAhead ==
  ASSUME NEW body \in Seq(Cell), NEW o \in 1 .. Len(body) + 1, NEW f, NEW g,
         \A q \in 1 .. Len(body) + 1 : q > o => f[q] = g[q]
  PROVE  ParseFrom(body, f, o) = ParseFrom(body, g, o)
<1> DEFINE L    == Len(body)
           left == L - (o - 1)
           next == o + TlvHeaderSize + body[o + 1]
<1>0. L \in Nat /\ o \in Nat /\ 1 <= o /\ o <= L + 1
  BY LenProperties
<1>1. CASE left < TlvHeaderSize
  <2>1. left = 0 \/ left \in 1 .. TlvHeaderSize - 1
    BY <1>0, <1>1 DEF TlvHeaderSize
  <2>2. ~(left >= TlvHeaderSize)
    BY <1>0, <1>1 DEF TlvHeaderSize
  <2> HIDE DEF left
  <2> QED BY <2>1, <2>2 DEF ParseFrom, left
<1>2. CASE left >= TlvHeaderSize
  <2>1. o + 1 \in 1 .. L
    BY <1>0, <1>2 DEF TlvHeaderSize
  <2>2. body[o + 1] \in Nat
    BY <2>1, ElementOfSeq DEF Cell
  <2>3. CASE body[o + 1] > MaxValueLength \/ body[o + 1] > left - TlvHeaderSize
    BY <1>2, <2>3 DEF ParseFrom
  <2>4. CASE ~(body[o + 1] > MaxValueLength \/ body[o + 1] > left - TlvHeaderSize)
    <3>1. next \in 1 .. L + 1 /\ next > o
      BY <1>0, <1>2, <2>2, <2>4 DEF TlvHeaderSize
    <3>2. f[next] = g[next]
      BY <3>1
    <3> QED BY <3>2 DEF ParseFrom
  <2> QED BY <2>3, <2>4
<1> QED
  BY <1>0, <1>1, <1>2 DEF TlvHeaderSize

Parsed(body) == CHOOSE f : f = [o \in 1 .. Len(body) + 1 |-> ParseFrom(body, f, o)]

LEMMA ParsedExists ==
  ASSUME NEW body \in Seq(Cell)
  PROVE  \E f : f = [o \in 1 .. Len(body) + 1 |-> ParseFrom(body, f, o)]
<1> DEFINE L    == Len(body)
           D(n) == {o \in 1 .. L + 1 : o + n > L + 1}
           P(n) == \E f : f = [o \in D(n) |-> ParseFrom(body, f, o)]
           T    == {n \in Nat : P(n)}
<1>0. L \in Nat
  BY LenProperties
<1>1. 0 \in T
  <2> DEFINE f == [o \in D(0) |-> 0]
  <2>1. D(0) = {}
    BY <1>0
  <2>2. f = [o \in D(0) |-> ParseFrom(body, f, o)]
    BY <2>1
  <2>3. P(0)
    <3> HIDE DEF f, D
    <3> QED BY Zenon, <2>2
  <2> QED BY <2>3
<1>2. ASSUME NEW n \in Nat, n \in T PROVE n + 1 \in T
  <2>1. PICK f : f = [o \in D(n) |-> ParseFrom(body, f, o)]
    BY <1>2
  <2> DEFINE g == [o \in D(n + 1) |-> IF o \in D(n) THEN f[o] ELSE ParseFrom(body, f, o)]
  <2>2. ASSUME NEW o \in D(n + 1) PROVE g[o] = ParseFrom(body, f, o)
    <3> HIDE DEF D
    <3> QED BY <2>1
  <2>3. ASSUME NEW o \in D(n + 1) PROVE ParseFrom(body, g, o) = ParseFrom(body, f, o)
    <3>1. ASSUME NEW q \in 1 .. L + 1, q > o PROVE g[q] = f[q]
      <4>1. q \in D(n) /\ q \in D(n + 1)
        BY <1>0, <3>1
      <4> HIDE DEF D
      <4> QED BY <4>1
    <3>2. o \in 1 .. L + 1
      OBVIOUS
    <3> HIDE DEF g, D
    <3> QED BY <3>1, <3>2, ParseLooksAhead
  <2>4. g = [o \in D(n + 1) |-> ParseFrom(body, g, o)]
    <3>1. g = [o \in D(n + 1) |-> g[o]]
      OBVIOUS
    <3> HIDE DEF g, D
    <3> QED BY <2>2, <2>3, <3>1
  <2>5. P(n + 1)
    <3> HIDE DEF g, D
    <3> QED BY Zenon, <2>4
  <2> HIDE DEF P
  <2> QED BY <2>5
<1>3. L + 1 \in T
  <2>1. L + 1 \in Nat
    BY <1>0
  <2> HIDE DEF T
  <2> QED BY <1>1, <1>2, <2>1, SetInduction
<1>4. D(L + 1) = 1 .. L + 1
  BY <1>0
<1>5. P(L + 1)
  BY <1>3
<1> HIDE DEF D
<1> QED
  BY <1>4, <1>5

LEMMA ParsedIs ==
  ASSUME NEW body \in Seq(Cell)
  PROVE  /\ ParseTlvMap(body) = Parsed(body)[1]
         /\ \A o \in 1 .. Len(body) + 1 : Parsed(body)[o] = ParseFrom(body, Parsed(body), o)
<1>1. ParseTlvMap(body) = Parsed(body)[1]
  BY Zenon DEF ParseTlvMap, Parsed
<1> DEFINE f == Parsed(body)
<1>2. f = [o \in 1 .. Len(body) + 1 |-> ParseFrom(body, f, o)]
  BY Zenon, ParsedExists DEF Parsed
<1> HIDE DEF f
<1>3. \A o \in 1 .. Len(body) + 1 : f[o] = ParseFrom(body, f, o)
  BY <1>2
<1> QED
  BY <1>1, <1>3 DEF f

(* Fields that can be written, and the cells they become.                  *)
WireField == [type : Cell, value : {v \in Seq(Cell) : Len(v) <= MaxValueLength}]
CellsOf(fs) == [i \in DOMAIN fs |-> Append_Value(fs[i].type, fs[i].value)]
(* Where a field starts. *)
Start(fs, i) == Offset(CellsOf(fs), i) + 1

LEMMA Pair ==
  ASSUME NEW S, NEW x \in S, NEW y \in S
  PROVE  <<x, y>> \in Seq(S) /\ Len(<<x, y>>) = 2 /\ <<x, y>>[1] = x /\ <<x, y>>[2] = y
OBVIOUS

LEMMA CellConcat ==
  ASSUME NEW s \in Seq(Cell), NEW t \in Seq(Cell)
  PROVE  /\ s \o t \in Seq(Cell) /\ Len(s \o t) = Len(s) + Len(t)
         /\ \A i \in 1 .. Len(s) : (s \o t)[i] = s[i]
         /\ \A i \in 1 .. Len(t) : (s \o t)[Len(s) + i] = t[i]
BY CellsConcat

LEMMA CellPart ==
  ASSUME NEW s \in Seq(Cell), NEW m \in Nat, NEW k \in Nat, m + k <= Len(s)
  PROVE  LET u == SubSeq(s, m + 1, m + k) IN
         u \in Seq(Cell) /\ Len(u) = k /\ \A i \in 1 .. k : u[i] = s[m + i]
<1>1. m + k \in Nat /\ m <= m + k /\ m + k - m = k
  OBVIOUS
<1>2. PICK n \in Nat : n = m + k
  BY <1>1
<1>3. /\ SubSeq(s, m + 1, n) \in Seq(Cell) /\ Len(SubSeq(s, m + 1, n)) = n - m
      /\ \A i \in 1 .. n - m : SubSeq(s, m + 1, n)[i] = s[m + i]
  BY <1>1, <1>2, CellsPart
<1>4. n - m = k
  BY <1>2
<1>5. /\ SubSeq(s, m + 1, n) \in Seq(Cell) /\ Len(SubSeq(s, m + 1, n)) = k
      /\ \A i \in 1 .. k : SubSeq(s, m + 1, n)[i] = s[m + i]
  BY Zenon, <1>3, <1>4
<1> QED
  BY Zenon, <1>2, <1>5

LEMMA FieldCells ==
  ASSUME NEW type \in Cell, NEW v \in Seq(Cell)
  PROVE  /\ Append_Value(type, v) \in Seq(Cell)
         /\ Len(Append_Value(type, v)) = 2 + Len(v) /\ Len(v) \in Nat
         /\ Append_Value(type, v)[1] = type /\ Append_Value(type, v)[2] = Len(v)
         /\ \A k \in 1 .. Len(v) : Append_Value(type, v)[2 + k] = v[k]
<1>1. Len(v) \in Cell /\ Len(v) \in Nat
  BY LenProperties DEF Cell
<1>2. PICK h : h = <<type, Len(v)>>
  OBVIOUS
<1>3. h \in Seq(Cell) /\ Len(h) = 2 /\ h[1] = type /\ h[2] = Len(v)
  BY Zenon, <1>1, <1>2, Pair
<1>4. Append_Value(type, v) = h \o v
  BY <1>2 DEF Append_Value
<1>5. /\ h \o v \in Seq(Cell) /\ Len(h \o v) = Len(h) + Len(v)
      /\ \A i \in 1 .. Len(h) : (h \o v)[i] = h[i]
      /\ \A i \in 1 .. Len(v) : (h \o v)[Len(h) + i] = v[i]
  <2>1. h \in Seq(Cell) /\ v \in Seq(Cell)
    BY <1>3
  <2> QED BY ONLY <2>1, CellConcat, Zenon
<1>6. 1 \in 1 .. 2 /\ 2 \in 1 .. 2
  OBVIOUS
<1> QED
  BY <1>1, <1>3, <1>4, <1>5, <1>6

LEMMA CellsOfFields ==
  ASSUME NEW fs \in Seq(WireField)
  PROVE  /\ Body(fs) = FlattenSeq(CellsOf(fs))
         /\ CellsOf(fs) \in Seq(Seq(Cell)) /\ Len(CellsOf(fs)) = Len(fs)
         /\ \A i \in 1 .. Len(fs) :
              /\ fs[i] = [type |-> fs[i].type, value |-> fs[i].value]
              /\ fs[i].type \in Cell /\ fs[i].value \in Seq(Cell)
              /\ Len(fs[i].value) \in Nat /\ Len(fs[i].value) <= MaxValueLength
              /\ CellsOf(fs)[i] = Append_Value(fs[i].type, fs[i].value)
<1>0. DOMAIN fs = 1 .. Len(fs) /\ Len(fs) \in Nat
  BY LenProperties
<1>1. ASSUME NEW i \in 1 .. Len(fs)
      PROVE  /\ fs[i] = [type |-> fs[i].type, value |-> fs[i].value]
             /\ fs[i].type \in Cell /\ fs[i].value \in Seq(Cell)
             /\ Len(fs[i].value) \in Nat /\ Len(fs[i].value) <= MaxValueLength
  <2>1. fs[i] \in WireField
    BY ElementOfSeq
  <2> QED BY <2>1, LenProperties DEF WireField
<1>2. ASSUME NEW i \in 1 .. Len(fs)
      PROVE  /\ CellsOf(fs)[i] = Append_Value(fs[i].type, fs[i].value)
             /\ Append_Value(fs[i].type, fs[i].value) \in Seq(Cell)
  <2>1. CellsOf(fs)[i] = Append_Value(fs[i].type, fs[i].value)
    BY <1>0 DEF CellsOf
  <2>2. Append_Value(fs[i].type, fs[i].value) \in Seq(Cell)
    BY <1>1, FieldCells
  <2> QED BY <2>1, <2>2
<1>3. CellsOf(fs) \in Seq(Seq(Cell)) /\ Len(CellsOf(fs)) = Len(fs)
  <2>1. CellsOf(fs) = [i \in 1 .. Len(fs) |-> Append_Value(fs[i].type, fs[i].value)]
    BY <1>0 DEF CellsOf
  <2>2. CellsOf(fs) \in [1 .. Len(fs) -> Seq(Cell)]
    BY <1>2, <2>1
  <2> QED BY <1>0, <2>2, SeqDef, LenProperties
<1>4. Body(fs) = FlattenSeq(CellsOf(fs))
  BY DEF Body, CellsOf
<1> QED
  BY <1>1, <1>2, <1>3, <1>4

(* Where the cells of a field are in a body. *)
LEMMA FieldInBody ==
  ASSUME NEW fs \in Seq(WireField), NEW i \in 1 .. Len(fs)
  PROVE  LET b == Body(fs)
             o == Start(fs, i)
             v == fs[i].value
         IN /\ o \in Nat /\ 1 <= o /\ o + 2 + Len(v) <= Len(b) + 1
            /\ Start(fs, i + 1) = o + 2 + Len(v)
            /\ b[o] = fs[i].type /\ b[o + 1] = Len(v)
            /\ SubSeq(b, o + 2, o + 2 + Len(v) - 1) = v
<1>1. PICK c : c = CellsOf(fs)
  OBVIOUS
<1>2. PICK b : b = Body(fs)
  OBVIOUS
<1>3. PICK v : v = fs[i].value
  OBVIOUS
<1>4. PICK m : m = Offset(c, i)
  OBVIOUS
<1>5. /\ c \in Seq(Seq(Cell)) /\ Len(c) = Len(fs) /\ b = FlattenSeq(c)
      /\ v \in Seq(Cell) /\ fs[i].type \in Cell /\ Len(v) \in Nat
      /\ c[i] = Append_Value(fs[i].type, v)
  BY <1>1, <1>2, <1>3, CellsOfFields
<1>6. /\ Len(c[i]) = 2 + Len(v)
      /\ c[i][1] = fs[i].type /\ c[i][2] = Len(v)
      /\ \A k \in 1 .. Len(v) : c[i][2 + k] = v[k]
  <2>1. v \in Seq(Cell) /\ fs[i].type \in Cell
    BY <1>5
  <2>2. LET w == Append_Value(fs[i].type, v) IN
        /\ Len(w) = 2 + Len(v)
        /\ w[1] = fs[i].type /\ w[2] = Len(v)
        /\ \A k \in 1 .. Len(v) : w[2 + k] = v[k]
    BY ONLY <2>1, FieldCells, Zenon
  <2> QED BY Zenon, <1>5, <2>2
<1>7. /\ b \in Seq(Cell) /\ Offset(c, i) \in Nat
      /\ Offset(c, i + 1) = Offset(c, i) + Len(c[i]) /\ Offset(c, i + 1) <= Len(b)
      /\ \A k \in 1 .. Len(c[i]) : b[Offset(c, i) + k] = c[i][k]
  <2>1. i \in 1 .. Len(c)
    BY <1>5
  <2> QED BY <1>5, <2>1, FlattenParts
<1>8. /\ m \in Nat /\ Len(b) \in Nat /\ m + 2 + Len(v) <= Len(b)
      /\ Offset(c, i + 1) = m + 2 + Len(v)
      /\ \A k \in 1 .. 2 + Len(v) : b[m + k] = c[i][k]
  <2>1. m \in Nat /\ Len(b) \in Nat /\ Len(v) \in Nat
    BY <1>4, <1>5, <1>7, LenProperties
  <2>2. \A k \in 1 .. 2 + Len(v) : b[m + k] = c[i][k]
    BY Zenon, <1>4, <1>6, <1>7
  <2>3. Offset(c, i + 1) = m + (2 + Len(v)) /\ Offset(c, i + 1) <= Len(b)
    BY Zenon, <1>4, <1>6, <1>7
  <2> QED BY <2>1, <2>2, <2>3
<1>9. Start(fs, i) = m + 1 /\ Start(fs, i + 1) = m + 2 + Len(v) + 1
  BY <1>1, <1>4, <1>8 DEF Start
<1>10. b[m + 1] = fs[i].type /\ b[m + 2] = Len(v)
  <2>1. 1 \in 1 .. 2 + Len(v) /\ 2 \in 1 .. 2 + Len(v)
    BY <1>5
  <2> QED BY <1>6, <1>8, <2>1
<1>11. SubSeq(b, m + 2 + 1, m + 2 + Len(v)) = v
  <2>1. PICK u : u = SubSeq(b, m + 2 + 1, m + 2 + Len(v))
    OBVIOUS
  <2>2. /\ m + 2 \in Nat /\ m + 2 + Len(v) \in Nat /\ m + 2 <= m + 2 + Len(v)
        /\ m + 2 + Len(v) - (m + 2) = Len(v)
    BY <1>5, <1>8
  <2>3. u \in Seq(Cell) /\ Len(u) = Len(v) /\ \A k \in 1 .. Len(v) : u[k] = b[m + 2 + k]
    <3>1. b \in Seq(Cell) /\ m + 2 \in Nat /\ Len(v) \in Nat /\ m + 2 + Len(v) <= Len(b)
      BY <1>5, <1>7, <1>8
    <3> QED BY Zenon, <2>1, <3>1, CellPart
  <2>4. ASSUME NEW k \in 1 .. Len(v) PROVE u[k] = v[k]
    <3>1. 2 + k \in 1 .. 2 + Len(v) /\ m + 2 + k = m + (2 + k)
      BY <1>5, <1>8
    <3> QED BY <1>6, <1>8, <2>3, <3>1
  <2>5. u = v
    BY <1>5, <2>3, <2>4, SeqEqual
  <2> QED BY <2>1, <2>5
<1>12. /\ m + 1 \in Nat /\ 1 <= m + 1 /\ m + 1 + 2 + Len(v) <= Len(b) + 1
       /\ m + 2 + Len(v) + 1 = m + 1 + 2 + Len(v)
       /\ m + 1 + 1 = m + 2 /\ m + 1 + 2 = m + 2 + 1
       /\ m + 1 + 2 + Len(v) - 1 = m + 2 + Len(v)
  BY <1>5, <1>8
<1> QED
  BY <1>2, <1>3, <1>9, <1>10, <1>11, <1>12

(* A field is parsed when those behind it are. *)
LEMMA FieldIsParsed ==
  ASSUME NEW fs \in Seq(WireField), NEW i \in 1 .. Len(fs), NEW p, NEW rest,
         Body(fs) \in Seq(Cell), p[Start(fs, i + 1)] = [ok |-> TRUE, fields |-> rest]
  PROVE  ParseFrom(Body(fs), p, Start(fs, i)) = [ok |-> TRUE, fields |-> <<fs[i]>> \o rest]
<1>1. PICK b : b = Body(fs)
  OBVIOUS
<1>2. PICK o : o = Start(fs, i)
  OBVIOUS
<1>3. PICK v : v = fs[i].value
  OBVIOUS
<1>4. /\ o \in Nat /\ 1 <= o /\ o + 2 + Len(v) <= Len(b) + 1
      /\ Start(fs, i + 1) = o + 2 + Len(v)
      /\ b[o] = fs[i].type /\ b[o + 1] = Len(v)
      /\ SubSeq(b, o + 2, o + 2 + Len(v) - 1) = v
  BY <1>1, <1>2, <1>3, FieldInBody
<1>5. /\ fs[i] = [type |-> fs[i].type, value |-> v]
      /\ Len(v) \in Nat /\ Len(v) <= MaxValueLength
  BY <1>3, CellsOfFields
<1>6. PICK left : left = Len(b) - (o - 1)
  OBVIOUS
<1>7. Len(b) \in Nat
  BY <1>1, LenProperties
<1>8. /\ left \in Nat /\ left # 0 /\ left \notin 1 .. 2 - 1 /\ left >= 2
      /\ ~(Len(v) > MaxValueLength) /\ ~(Len(v) > left - 2)
  BY <1>4, <1>5, <1>6, <1>7, LengthAssumption
<1>9. o + TlvHeaderSize + b[o + 1] = o + 2 + Len(v)
  BY <1>4 DEF TlvHeaderSize
<1>10. SubSeq(b, o + TlvHeaderSize, o + TlvHeaderSize + b[o + 1] - 1) = v
  BY <1>4, <1>9 DEF TlvHeaderSize
<1>11. ParseFrom(b, p, o)
         = [ok |-> TRUE,
            fields |-> <<[type |-> b[o],
                          value |-> SubSeq(b, o + TlvHeaderSize, o + TlvHeaderSize + b[o + 1] - 1)]>>
                       \o rest]
  <2>1. /\ left \in Nat /\ left # 0 /\ left \notin 1 .. TlvHeaderSize - 1 /\ left >= TlvHeaderSize
        /\ ~(b[o + 1] > MaxValueLength) /\ ~(b[o + 1] > left - TlvHeaderSize)
    BY <1>4, <1>8 DEF TlvHeaderSize
  <2>2. p[o + TlvHeaderSize + b[o + 1]] = [ok |-> TRUE, fields |-> rest]
    BY <1>4, <1>9
  <2>3. p[o + TlvHeaderSize + b[o + 1]].ok /\ p[o + TlvHeaderSize + b[o + 1]].fields = rest
    BY <2>2
  <2> QED BY <1>6, <2>1, <2>3 DEF ParseFrom
<1> QED
  BY <1>1, <1>2, <1>4, <1>5, <1>10, <1>11

(* What is written of fields is parsed as them.                            *)
LEMMA ParsedAsWritten ==
  ASSUME NEW fs \in Seq(WireField)
  PROVE  ParseTlvMap(Body(fs)) = [ok |-> TRUE, fields |-> fs] /\ Body(fs) \in Seq(Cell)
<1>1. PICK N : N = Len(fs)
  OBVIOUS
<1>2. PICK b : b = Body(fs)
  OBVIOUS
<1>3. PICK p : p = Parsed(b)
  OBVIOUS
<1>0. N \in Nat /\ DOMAIN fs = 1 .. N
  BY <1>1, LenProperties
<1>4. b \in Seq(Cell) /\ Start(fs, 1) = 1 /\ Start(fs, N + 1) = Len(b) + 1 /\ Len(b) \in Nat
  <2>1. PICK c : c = CellsOf(fs)
    OBVIOUS
  <2>2. c \in Seq(Seq(Cell)) /\ Len(c) = N /\ b = FlattenSeq(c)
    BY <1>1, <1>2, <2>1, CellsOfFields
  <2>3. b \in Seq(Cell) /\ Offset(c, 1) = 0 /\ Len(b) = Offset(c, N + 1)
    BY <2>2, FlattenParts
  <2> QED BY <2>1, <2>3, LenProperties DEF Start
<1>5. /\ ParseTlvMap(b) = p[1]
      /\ \A o \in 1 .. Len(b) + 1 : p[o] = ParseFrom(b, p, o)
  BY <1>3, <1>4, ParsedIs
<1> DEFINE P(n) == n <= N => p[Start(fs, N + 1 - n)]
                               = [ok |-> TRUE, fields |-> SubSeq(fs, N + 1 - n, N)]
           T    == {n \in Nat : P(n)}
<1>6. 0 \in T
  <2>1. N + 1 - 0 = N + 1 /\ Len(b) + 1 \in 1 .. Len(b) + 1
    BY <1>0, <1>4
  <2>2. p[Len(b) + 1] = [ok |-> TRUE, fields |-> <<>>]
    <3>1. p[Len(b) + 1] = ParseFrom(b, p, Len(b) + 1)
      BY <1>5, <2>1
    <3>2. PICK left : left = Len(b) - (Len(b) + 1 - 1)
      OBVIOUS
    <3>3. left = 0 /\ ~(left >= 2) /\ left \notin 1 .. 2 - 1
      BY <1>4, <3>2
    <3> QED BY <3>1, <3>2, <3>3 DEF ParseFrom, TlvHeaderSize
  <2>3. SubSeq(fs, N + 1, N) = <<>>
    <3>1. N \in Nat /\ N <= N /\ N <= Len(fs) /\ N - N = 0
      BY <1>0, <1>1
    <3>2. SubSeq(fs, N + 1, N) \in Seq(WireField) /\ Len(SubSeq(fs, N + 1, N)) = N - N
      BY <3>1, CellsPart
    <3> QED BY <3>1, <3>2, EmptySeq
  <2> QED BY <1>4, <2>1, <2>2, <2>3
<1>7. ASSUME NEW n \in Nat, n \in T PROVE n + 1 \in T
  <2> SUFFICES ASSUME n + 1 <= N
               PROVE  p[Start(fs, N + 1 - (n + 1))]
                        = [ok |-> TRUE, fields |-> SubSeq(fs, N + 1 - (n + 1), N)]
    OBVIOUS
  <2>1. PICK i \in 1 .. N : i = N + 1 - (n + 1)
    BY <1>0
  <2>2. i + 1 = N + 1 - n /\ n <= N /\ i \in 1 .. Len(fs)
    BY <1>0, <1>1, <2>1
  <2>3. p[Start(fs, i + 1)] = [ok |-> TRUE, fields |-> SubSeq(fs, i + 1, N)]
    BY <1>7, <2>2
  <2>4. PICK o : o = Start(fs, i)
    OBVIOUS
  <2>5. ParseFrom(b, p, o) = [ok |-> TRUE, fields |-> <<fs[i]>> \o SubSeq(fs, i + 1, N)]
    BY <1>2, <1>4, <2>2, <2>3, <2>4, FieldIsParsed
  <2>6. o \in 1 .. Len(b) + 1
    <3>1. PICK k : k = Len(fs[i].value)
      OBVIOUS
    <3>2. o \in Nat /\ 1 <= o /\ o + 2 + k <= Len(b) + 1 /\ k \in Nat
      BY <1>2, <2>2, <2>4, <3>1, FieldInBody, CellsOfFields
    <3> QED BY ONLY <1>4, <3>2
  <2>7. <<fs[i]>> \o SubSeq(fs, i + 1, N) = SubSeq(fs, i, N)
    BY <1>0, <1>1, <2>2
  <2>8. p[o] = [ok |-> TRUE, fields |-> SubSeq(fs, i, N)]
    BY Zenon, <1>5, <2>5, <2>6, <2>7
  <2> QED BY <2>1, <2>4, <2>8
<1> HIDE DEF T
<1>8. N \in T
  <2>1. Nat \subseteq T
    BY <1>6, <1>7, SetInduction
  <2> QED BY <1>0, <2>1
<1>9. p[1] = [ok |-> TRUE, fields |-> SubSeq(fs, 1, N)]
  <2>1. N + 1 - N = 1 /\ N <= N
    BY <1>0
  <2> QED BY <1>4, <1>8, <2>1 DEF T
<1>10. SubSeq(fs, 1, N) = fs
  BY <1>1
<1> QED
  BY <1>2, <1>4, <1>5, <1>9, <1>10
-----------------------------------------------------------------------------
(* The values of a type                                                    *)

(* They are those at the positions of the type, when these are counted     *)
(* off.                                                                    *)
Places(fs, f) == {i \in DOMAIN fs : fs[i].type = f}
CountsOff(p, c, S) == p \in [1 .. c -> Nat] /\ Increases(p, c) /\ S = {p[j] : j \in 1 .. c}

LEMMA ValuesAt ==
  ASSUME NEW fs, NEW f, NEW c \in Nat, NEW p, CountsOff(p, c, Places(fs, f))
  PROVE  ValuesOf(fs, f) = [j \in 1 .. c |-> fs[p[j]].value]
<1>1. InOrder(Places(fs, f)) = p
  BY InOrderIs DEF CountsOff
<1>2. DOMAIN p = 1 .. c
  BY DEF CountsOff
<1> QED
  BY Zenon, <1>1, <1>2 DEF ValuesOf, Places

LEMMA NoValue ==
  ASSUME NEW S, NEW fs \in Seq(S), NEW f, \A q \in 1 .. Len(fs) : fs[q].type # f
  PROVE  ValuesOf(fs, f) = <<>>
<1>1. PICK p : p = [j \in 1 .. 0 |-> 1]
  OBVIOUS
<1>2. PICK places : places = Places(fs, f)
  OBVIOUS
<1>3. DOMAIN fs = 1 .. Len(fs)
  BY LenProperties
<1>4. places = {p[j] : j \in 1 .. 0}
  BY <1>2, <1>3 DEF Places
<1>5. p \in [1 .. 0 -> Nat] /\ Increases(p, 0) /\ 0 \in Nat
  BY <1>1 DEF Increases
<1>6. ValuesOf(fs, f) = [j \in 1 .. 0 |-> fs[p[j]].value]
  <2>1. CountsOff(p, 0, Places(fs, f))
    BY <1>2, <1>4, <1>5 DEF CountsOff
  <2> QED BY <1>5, <2>1, ValuesAt
<1> QED
  BY <1>6

LEMMA OneValue ==
  ASSUME NEW S, NEW fs \in Seq(S), NEW f, NEW q \in 1 .. Len(fs),
         \A r \in 1 .. Len(fs) : fs[r].type = f <=> r = q
  PROVE  ValuesOf(fs, f) = <<fs[q].value>>
<1>1. PICK p : p = [j \in 1 .. 1 |-> q]
  OBVIOUS
<1>2. PICK places : places = Places(fs, f)
  OBVIOUS
<1>3. DOMAIN fs = 1 .. Len(fs) /\ Len(fs) \in Nat
  BY LenProperties
<1>4. places = {p[j] : j \in 1 .. 1}
  <2>1. \A x : x \in places <=> x = q
    BY <1>2, <1>3 DEF Places
  <2>2. \A j \in 1 .. 1 : p[j] = q
    BY <1>1
  <2>3. 1 \in 1 .. 1
    OBVIOUS
  <2>4. \A x : x \in {p[j] : j \in 1 .. 1} <=> x = q
    BY <2>2, <2>3
  <2> QED BY <2>1, <2>4
<1>5. p \in [1 .. 1 -> Nat] /\ Increases(p, 1) /\ 1 \in Nat
  BY <1>1, <1>3 DEF Increases
<1>6. ValuesOf(fs, f) = [j \in 1 .. 1 |-> fs[p[j]].value]
  <2>1. CountsOff(p, 1, Places(fs, f))
    BY <1>2, <1>4, <1>5 DEF CountsOff
  <2> QED BY <1>5, <2>1, ValuesAt
<1>7. ValuesOf(fs, f) = [j \in 1 .. 1 |-> fs[q].value]
  BY <1>1, <1>6
<1> QED
  BY <1>7

LEMMA AllValues ==
  ASSUME NEW S, NEW fs \in Seq(S), NEW f, \A q \in 1 .. Len(fs) : fs[q].type = f
  PROVE  ValuesOf(fs, f) = [q \in 1 .. Len(fs) |-> fs[q].value]
<1>1. PICK p : p = [j \in 1 .. Len(fs) |-> j]
  OBVIOUS
<1>2. PICK places : places = Places(fs, f)
  OBVIOUS
<1>3. DOMAIN fs = 1 .. Len(fs) /\ Len(fs) \in Nat
  BY LenProperties
<1>4. places = {p[j] : j \in 1 .. Len(fs)}
  BY <1>1, <1>2, <1>3 DEF Places
<1>5. p \in [1 .. Len(fs) -> Nat] /\ Increases(p, Len(fs))
  BY <1>1, <1>3 DEF Increases
<1>6. ValuesOf(fs, f) = [j \in 1 .. Len(fs) |-> fs[p[j]].value]
  <2>1. CountsOff(p, Len(fs), Places(fs, f))
    BY <1>2, <1>4, <1>5 DEF CountsOff
  <2> QED BY <1>3, <2>1, ValuesAt
<1> QED
  BY <1>1, <1>6

-----------------------------------------------------------------------------
(* The fields of an answer                                                 *)

WireRow(row) ==
  /\ DOMAIN row \in SUBSET (1 .. ClientMessageId)
  /\ \A f \in DOMAIN row : row[f] \in Seq(Cell) /\ Len(row[f]) <= MaxValueLength

LEMMA RowIsWireRow ==
  ASSUME NEW type, NEW row, RowOf(type, row)
  PROVE  WireRow(row)
<1>1. FieldsOfType(type) \cup OptionalOf(type) \subseteq 1 .. ClientMessageId
  BY DEF FieldsOfType, OptionalOf, ReceiptFields, FriendFields, RequestFields, MessageFields,
         MessageId, ConversationType, ConversationId, SenderId, ReceiverId, MessageText,
         TimestampMs, FriendId, Username, Nickname, OnlineStatus, FriendRequestStatus,
         DeliveryStatus, UserId, ClientMessageId
<1>2. DOMAIN row \in SUBSET (1 .. ClientMessageId)
  BY <1>1 DEF RowOf
<1> QED
  BY <1>2 DEF RowOf, WireRow

(* A row is written as one field of each of its types. *)
LEMMA FieldsOfRow ==
  ASSUME NEW row, WireRow(row), NEW fs, fs = RowFields(row)
  PROVE  /\ fs \in Seq(WireField)
         /\ \A k \in 1 .. Len(fs) :
              /\ fs[k].type \in DOMAIN row /\ fs[k].value = row[fs[k].type]
              /\ \A j \in 1 .. Len(fs) : fs[j].type = fs[k].type => j = k
         /\ \A f \in DOMAIN row : \E k \in 1 .. Len(fs) : fs[k].type = f
<1>1. PICK D : D = DOMAIN row
  OBVIOUS
<1>2. PICK t : t = InOrder(D)
  OBVIOUS
<1>3. ClientMessageId \in Nat
  BY DEF ClientMessageId
<1>4. PICK c \in Nat : t \in [1 .. c -> D] /\ Increases(t, c) /\ D = {t[i] : i \in 1 .. c}
  <2>1. D \in SUBSET (1 .. ClientMessageId)
    BY <1>1 DEF WireRow
  <2>2. \E c \in Nat :
          /\ InOrder(D) \in [1 .. c -> D]
          /\ Increases(InOrder(D), c)
          /\ D = {InOrder(D)[i] : i \in 1 .. c}
    BY <1>3, <2>1, InOrderEnumerates
  <2> QED BY Zenon, <1>2, <2>2
<1>5. DOMAIN t = 1 .. c
  BY <1>4
<1>6. fs = [i \in 1 .. c |-> Field(t[i], row[t[i]])]
  BY Zenon, <1>1, <1>2, <1>5 DEF RowFields
<1>7. D \subseteq Cell
  BY <1>1, <1>3 DEF WireRow, Cell
<1>8. \A i \in 1 .. c : /\ t[i] \in D /\ fs[i] \in WireField
                        /\ fs[i].type = t[i] /\ fs[i].value = row[t[i]]
  BY <1>1, <1>4, <1>6, <1>7 DEF WireRow, WireField, Field
<1>9. fs \in Seq(WireField) /\ Len(fs) = c
  <2>1. fs \in [1 .. c -> WireField]
    BY <1>6, <1>8
  <2> QED BY <1>4, <2>1, SeqDef, LenProperties
<1>10. ASSUME NEW j \in 1 .. c, NEW k \in 1 .. c, t[j] = t[k] PROVE j = k
  <2>1. t[j] \in Nat /\ t[k] \in Nat
    BY <1>7, <1>8 DEF Cell
  <2>2. Increases(t, c)
    BY <1>4
  <2>3. (j < k => t[j] < t[k]) /\ (k < j => t[k] < t[j])
    BY <2>2 DEF Increases
  <2> QED BY <1>10, <2>1, <2>3
<1>11. ASSUME NEW f \in D PROVE \E k \in 1 .. c : fs[k].type = f
  <2>1. f \in {t[i] : i \in 1 .. c}
    BY <1>4
  <2>2. PICK k \in 1 .. c : f = t[k]
    BY <2>1
  <2> QED BY <1>8, <2>2
<1> QED
  BY <1>1, <1>8, <1>9, <1>10, <1>11

WireRows(rows) ==
  /\ DOMAIN rows = 1 .. Len(rows) /\ Len(rows) \in Nat
  /\ \A i \in 1 .. Len(rows) : WireRow(rows[i])

Parts(rows)     == [i \in DOMAIN rows |-> RowFields(rows[i])]
Having(rows, f) == {n \in DOMAIN rows : f \in DOMAIN rows[n]}

LEMMA RowsAreParts ==
  ASSUME NEW rows, WireRows(rows)
  PROVE  /\ Parts(rows) \in Seq(Seq(WireField)) /\ Len(Parts(rows)) = Len(rows)
         /\ \A i \in 1 .. Len(rows) : Parts(rows)[i] = RowFields(rows[i])
         /\ FlattenSeq(Parts(rows)) \in Seq(WireField)
<1>1. Parts(rows) = [i \in 1 .. Len(rows) |-> RowFields(rows[i])]
  BY DEF Parts, WireRows
<1>2. \A i \in 1 .. Len(rows) : RowFields(rows[i]) \in Seq(WireField)
  BY FieldsOfRow DEF WireRows
<1>3. Parts(rows) \in [1 .. Len(rows) -> Seq(WireField)]
  BY <1>1, <1>2
<1>4. Parts(rows) \in Seq(Seq(WireField)) /\ Len(Parts(rows)) = Len(rows)
  <2>1. Len(rows) \in Nat
    BY DEF WireRows
  <2> QED BY <1>3, <2>1, SeqDef, LenProperties
<1>5. FlattenSeq(Parts(rows)) \in Seq(WireField)
  BY <1>4, FlattenParts
<1> QED
  BY <1>1, <1>4, <1>5

(* The values of a type are those of the rows that have it, in the order   *)
(* of these.                                                               *)
LEMMA ValuesOfRows ==
  ASSUME NEW rows, WireRows(rows), NEW f, NEW H, H = Having(rows, f),
         NEW V, V = ValuesOf(FlattenSeq(Parts(rows)), f)
  PROVE  \E c \in Nat : \E among \in [1 .. c -> H] :
           CountsOff(among, c, H) /\ V = [j \in 1 .. c |-> rows[among[j]][f]]
<1>1. PICK N : N = Len(rows)
  OBVIOUS
<1>3. PICK parts : parts = Parts(rows)
  OBVIOUS
<1>4. PICK fs : fs = FlattenSeq(parts)
  OBVIOUS
<1>5. /\ N \in Nat /\ DOMAIN rows = 1 .. N
      /\ \A i \in 1 .. N : WireRow(rows[i])
  BY <1>1 DEF WireRows
<1>6. /\ parts \in Seq(Seq(WireField)) /\ Len(parts) = N
      /\ \A i \in 1 .. N : parts[i] = RowFields(rows[i])
      /\ fs \in Seq(WireField)
  BY <1>1, <1>3, <1>4, RowsAreParts
<1>7. ASSUME NEW i \in 1 .. N
      PROVE  /\ parts[i] \in Seq(WireField) /\ Len(parts[i]) \in Nat
             /\ \A k \in 1 .. Len(parts[i]) :
                  /\ parts[i][k].type \in DOMAIN rows[i]
                  /\ parts[i][k].value = rows[i][parts[i][k].type]
                  /\ \A j \in 1 .. Len(parts[i]) : parts[i][j].type = parts[i][k].type => j = k
             /\ \A g \in DOMAIN rows[i] : \E k \in 1 .. Len(parts[i]) : parts[i][k].type = g
  <2>1. WireRow(rows[i]) /\ parts[i] = RowFields(rows[i])
    BY <1>5, <1>6
  <2>2. parts[i] \in Seq(WireField)
    BY <2>1, FieldsOfRow
  <2>3. PICK row : row = rows[i]
    OBVIOUS
  <2>4. PICK part : part = parts[i]
    OBVIOUS
  <2>5. WireRow(row) /\ part = RowFields(row)
    BY <2>1, <2>3, <2>4
  <2>6. /\ \A k \in 1 .. Len(part) :
             /\ part[k].type \in DOMAIN row /\ part[k].value = row[part[k].type]
             /\ \A j \in 1 .. Len(part) : part[j].type = part[k].type => j = k
        /\ \A g \in DOMAIN row : \E k \in 1 .. Len(part) : part[k].type = g
    BY ONLY <2>5, FieldsOfRow
  <2>7. Len(part) \in Nat
    BY <2>2, <2>4, LenProperties
  <2> QED BY Zenon, <2>2, <2>3, <2>4, <2>6, <2>7
<1>8. /\ Len(fs) \in Nat
      /\ \A i \in 1 .. N :
           /\ Offset(parts, i) \in Nat
           /\ Offset(parts, i + 1) = Offset(parts, i) + Len(parts[i])
           /\ Offset(parts, i + 1) <= Len(fs)
           /\ \A j \in 1 .. i - 1 : Offset(parts, j + 1) <= Offset(parts, i)
           /\ \A k \in 1 .. Len(parts[i]) : fs[Offset(parts, i) + k] = parts[i][k]
      /\ \A q \in 1 .. Len(fs) :
           \E i \in 1 .. N : \E k \in 1 .. Len(parts[i]) : q = Offset(parts, i) + k
  <2>1. Len(fs) \in Nat
    BY <1>6, LenProperties
  <2>2. /\ \A i \in 1 .. Len(parts) :
             /\ Offset(parts, i) \in Nat
             /\ Offset(parts, i + 1) = Offset(parts, i) + Len(parts[i])
             /\ Offset(parts, i + 1) <= Len(fs)
             /\ \A j \in 1 .. i - 1 : Offset(parts, j + 1) <= Offset(parts, i)
             /\ \A k \in 1 .. Len(parts[i]) : fs[Offset(parts, i) + k] = parts[i][k]
        /\ \A q \in 1 .. Len(fs) :
             \E i \in 1 .. Len(parts) : \E k \in 1 .. Len(parts[i]) : q = Offset(parts, i) + k
    <3>1. parts \in Seq(Seq(WireField))
      BY <1>6
    <3> QED BY ONLY <1>4, <3>1, FlattenParts
  <2> QED BY Zenon, <1>6, <2>1, <2>2
<1>9. H \in SUBSET (1 .. N) /\ \A i \in 1 .. N : i \in H <=> f \in DOMAIN rows[i]
  BY <1>5 DEF Having
<1>10. PICK c \in Nat : /\ InOrder(H) \in [1 .. c -> H] /\ Increases(InOrder(H), c)
                        /\ H = {InOrder(H)[i] : i \in 1 .. c}
  <2>1. N \in Nat /\ H \in SUBSET (1 .. N)
    BY <1>5, <1>9
  <2> QED BY ONLY <2>1, InOrderEnumerates
<1>11. PICK t : t = InOrder(H)
  OBVIOUS
<1>12. t \in [1 .. c -> H] /\ Increases(t, c) /\ H = {t[i] : i \in 1 .. c}
  BY Zenon, <1>10, <1>11
<1>13. PICK place : place = [i \in H |-> CHOOSE k \in 1 .. Len(parts[i]) : parts[i][k].type = f]
  OBVIOUS
<1>14. ASSUME NEW i \in H
       PROVE  /\ place[i] \in 1 .. Len(parts[i]) /\ parts[i][place[i]].type = f
              /\ parts[i][place[i]].value = rows[i][f]
              /\ \A k \in 1 .. Len(parts[i]) : parts[i][k].type = f => k = place[i]
  <2>1. i \in 1 .. N /\ f \in DOMAIN rows[i]
    BY <1>9
  <2>2. \E k \in 1 .. Len(parts[i]) : parts[i][k].type = f
    BY <1>7, <2>1
  <2>3. place[i] = CHOOSE k \in 1 .. Len(parts[i]) : parts[i][k].type = f
    BY <1>13
  <2>4. place[i] \in 1 .. Len(parts[i]) /\ parts[i][place[i]].type = f
    BY Zenon, <2>2, <2>3
  <2> QED BY <1>7, <2>1, <2>4
<1>15. PICK p : p = [j \in 1 .. c |-> Offset(parts, t[j]) + place[t[j]]]
  OBVIOUS
<1>16. ASSUME NEW j \in 1 .. c
       PROVE  /\ t[j] \in H /\ t[j] \in 1 .. N
              /\ p[j] = Offset(parts, t[j]) + place[t[j]]
              /\ p[j] \in 1 .. Len(fs) /\ fs[p[j]].type = f /\ fs[p[j]].value = rows[t[j]][f]
              /\ Offset(parts, t[j]) < p[j] /\ p[j] <= Offset(parts, t[j] + 1)
  <2>1. PICK i \in H : i = t[j]
    BY <1>12
  <2>2. i \in 1 .. N /\ p[j] = Offset(parts, i) + place[i]
    BY <1>9, <1>15, <2>1
  <2>3. /\ Offset(parts, i) \in Nat /\ Len(parts[i]) \in Nat
        /\ place[i] \in 1 .. Len(parts[i]) /\ Offset(parts, i) + Len(parts[i]) <= Len(fs)
        /\ Offset(parts, i + 1) = Offset(parts, i) + Len(parts[i])
    <3>1. /\ Offset(parts, i) \in Nat
          /\ Offset(parts, i + 1) = Offset(parts, i) + Len(parts[i])
          /\ Offset(parts, i + 1) <= Len(fs)
      BY <1>8, <2>2
    <3>2. Len(parts[i]) \in Nat /\ place[i] \in 1 .. Len(parts[i])
      BY <1>7, <1>14, <2>2
    <3> QED BY Zenon, <3>1, <3>2
  <2>4. fs[p[j]] = parts[i][place[i]]
    BY <1>8, <2>2, <2>3
  <2>5. /\ p[j] \in 1 .. Len(fs) /\ Offset(parts, i) < p[j] /\ p[j] <= Offset(parts, i + 1)
    <3>1. Len(fs) \in Nat
      BY <1>8
    <3> QED BY ONLY <2>2, <2>3, <3>1
  <2> QED BY <1>14, <2>1, <2>2, <2>4, <2>5
<1>17. CountsOff(p, c, Places(fs, f))
  <2>1. p \in [1 .. c -> Nat]
    BY <1>8, <1>15, <1>16
  <2>2. Increases(p, c)
    <3> SUFFICES ASSUME NEW i \in 1 .. c, NEW j \in 1 .. c, i < j PROVE p[i] < p[j]
      BY DEF Increases
    <3>1. PICK m \in 1 .. N : m = t[i]
      BY <1>16
    <3>2. PICK n \in 1 .. N : n = t[j]
      BY <1>16
    <3>3. m < n
      BY <1>12, <3>1, <3>2 DEF Increases
    <3>4. m \in 1 .. n - 1
      BY <3>3
    <3>5. Offset(parts, m + 1) <= Offset(parts, n)
      BY <1>8, <3>4
    <3>6. p[i] <= Offset(parts, m + 1) /\ Offset(parts, n) < p[j]
      BY <1>16, <3>1, <3>2
    <3>7. /\ p[i] \in Nat /\ p[j] \in Nat /\ Offset(parts, n) \in Nat
          /\ Offset(parts, m + 1) \in Nat
      BY <1>7, <1>8, <2>1
    <3> QED BY ONLY <3>5, <3>6, <3>7
  <2>3. DOMAIN fs = 1 .. Len(fs)
    BY <1>6, LenProperties
  <2>4. ASSUME NEW q \in Places(fs, f) PROVE \E j \in 1 .. c : q = p[j]
    <3>1. q \in 1 .. Len(fs) /\ fs[q].type = f
      BY <2>3 DEF Places
    <3>2. PICK i \in 1 .. N : \E k \in 1 .. Len(parts[i]) : q = Offset(parts, i) + k
      BY <1>8, <3>1
    <3>3. PICK k \in 1 .. Len(parts[i]) : q = Offset(parts, i) + k
      BY <3>2
    <3>4. parts[i][k].type = f
      BY <1>8, <3>1, <3>3
    <3>5. i \in H /\ k = place[i]
      BY <1>7, <1>9, <1>14, <3>4
    <3>6. i \in {t[j] : j \in 1 .. c}
      BY <1>12, <3>5
    <3>7. PICK j \in 1 .. c : i = t[j]
      BY <3>6
    <3> QED BY <1>16, <3>3, <3>5, <3>7
  <2>5. \A j \in 1 .. c : p[j] \in Places(fs, f)
    BY <1>16, <2>3 DEF Places
  <2>6. Places(fs, f) = {p[j] : j \in 1 .. c}
    BY <2>4, <2>5
  <2> QED BY <2>1, <2>2, <2>6 DEF CountsOff
<1>18. ValuesOf(fs, f) = [j \in 1 .. c |-> fs[p[j]].value]
  BY <1>17, ValuesAt
<1>19. ValuesOf(fs, f) = [j \in 1 .. c |-> rows[t[j]][f]]
  BY <1>16, <1>18
<1>20. CountsOff(t, c, H)
  <2>1. t \in [1 .. c -> Nat]
    <3>1. H \subseteq Nat
      BY <1>9
    <3> QED BY ONLY <1>12, <3>1
  <2> QED BY <1>12, <2>1 DEF CountsOff
<1> QED
  BY Zenon, <1>3, <1>4, <1>12, <1>19, <1>20

LEMMA LenOf ==
  ASSUME NEW c \in Nat, NEW S, NEW s \in [1 .. c -> S]
  PROVE  s \in Seq(S) /\ Len(s) = c
BY SeqDef, LenProperties

LEMMA SeqOfNone == \A s : DOMAIN s = {} /\ s = [x \in DOMAIN s |-> s[x]] => s = <<>>
OBVIOUS

(* A column has as many values as there are rows exactly when every row    *)
(* has one, and then it lists theirs.                                      *)
LEMMA Column ==
  ASSUME NEW rows, WireRows(rows), NEW f, NEW V, V = ValuesOf(FlattenSeq(Parts(rows)), f)
  PROVE  /\ Len(V) \in Nat
         /\ V = <<>> <=> Having(rows, f) = {}
         /\ Len(V) = Len(rows) <=> Having(rows, f) = DOMAIN rows
         /\ Having(rows, f) = DOMAIN rows => V = [n \in 1 .. Len(rows) |-> rows[n][f]]
<1>1. PICK N : N = Len(rows)
  OBVIOUS
<1>2. PICK H : H = Having(rows, f)
  OBVIOUS
<1>3. N \in Nat /\ DOMAIN rows = 1 .. N /\ H \in SUBSET (1 .. N)
  BY <1>1, <1>2 DEF WireRows, Having
<1>4. PICK c \in Nat : \E t \in [1 .. c -> H] :
        CountsOff(t, c, H) /\ V = [j \in 1 .. c |-> rows[t[j]][f]]
  BY <1>2, ValuesOfRows
<1>5. PICK t \in [1 .. c -> H] : CountsOff(t, c, H) /\ V = [j \in 1 .. c |-> rows[t[j]][f]]
  BY <1>4
<1>6. Len(V) = c
  <2>1. V \in [1 .. c -> {rows[n][f] : n \in H}]
    BY <1>5
  <2> QED BY <2>1, LenOf
<1>7. t \in [1 .. c -> Nat] /\ Increases(t, c) /\ H = {t[j] : j \in 1 .. c}
  BY <1>5 DEF CountsOff
<1>8. IsFiniteSet(H) /\ Cardinality(H) = c
  <2>1. \A i, j \in 1 .. c : t[i] = t[j] => i = j
    <3> SUFFICES ASSUME NEW i \in 1 .. c, NEW j \in 1 .. c, t[i] = t[j] PROVE i = j
      OBVIOUS
    <3>1. t[i] \in Nat /\ t[j] \in Nat
      BY <1>7
    <3>2. (i < j => t[i] < t[j]) /\ (j < i => t[j] < t[i])
      BY <1>7 DEF Increases
    <3> QED BY <3>1, <3>2
  <2> QED BY <1>7, <2>1, CountedOff
<1>9. V = <<>> <=> H = {}
  <2>1. c = 0 <=> H = {}
    BY <1>8, FS_EmptySet
  <2>2. c = 0 => V = <<>>
    <3> SUFFICES ASSUME c = 0 PROVE V = <<>>
      OBVIOUS
    <3>1. DOMAIN V = {} /\ V = [x \in DOMAIN V |-> V[x]]
      BY <1>5
    <3> QED BY <3>1, SeqOfNone
  <2>3. V = <<>> => c = 0
    BY <1>6, EmptySeq
  <2> QED BY <2>1, <2>2, <2>3
<1>10. IsFiniteSet(1 .. N) /\ Cardinality(1 .. N) = N
  BY <1>3, UpToCounts
<1>11. c = N => H = 1 .. N
  <2>1. Cardinality(1 .. N) = Cardinality(H) => 1 .. N = H
    BY <1>3, <1>10, FS_Subset
  <2> QED BY <1>8, <1>10, <2>1
<1>12. ASSUME H = 1 .. N PROVE c = N /\ V = [n \in 1 .. N |-> rows[n][f]]
  <2>1. c = N
    BY <1>8, <1>10, <1>12
  <2>2. PICK p : p = [j \in 1 .. N |-> j]
    OBVIOUS
  <2>3. p \in [1 .. N -> Nat] /\ Increases(p, N) /\ H = {p[j] : j \in 1 .. N}
    BY <1>3, <1>12, <2>2 DEF Increases
  <2>4. InOrder(H) = p
    BY <1>3, <2>3, InOrderIs
  <2>5. InOrder(H) = t
    BY <1>7, InOrderIs
  <2> QED BY <1>5, <2>1, <2>2, <2>4, <2>5
<1> QED
  BY <1>1, <1>2, <1>3, <1>6, <1>9, <1>11, <1>12
-----------------------------------------------------------------------------
(* What the parsers make of the rows                                       *)

Copy(rows) == [i \in 1 .. Len(rows) |-> [f \in DOMAIN rows[i] |-> rows[i][f]]]
LegibleRows(rows) ==
  \A i \in 1 .. Len(rows) : \A f \in DOMAIN rows[i] : Legible(f, rows[i][f])

WellRead(read, rows) ==
  read = Refused \/ (read = Rows(Copy(rows)) /\ LegibleRows(rows))

Full(rows, columns) ==
  /\ \A i \in 1 .. Len(rows) : columns \subseteq DOMAIN rows[i] /\ DOMAIN rows[i] = DOMAIN rows[1]
  /\ LegibleRows(rows)

LEMMA FirstRowIsRead ==
  ASSUME NEW rows, WireRows(rows), Len(rows) = 1, NEW columns, NEW optional,
         DOMAIN rows[1] \subseteq columns \cup optional,
         NEW fs, fs = FlattenSeq(Parts(rows)), NEW read, read = FirstRow(fs, columns, optional)
  PROVE  /\ WellRead(read, rows)
         /\ Full(rows, columns) => read.ok
<1>1. PICK row : row = rows[1]
  OBVIOUS
<1>2. DOMAIN rows = 1 .. 1 /\ 1 \in 1 .. 1 /\ \A i \in 1 .. 1 : i = 1
  BY DEF WireRows
<1>3. ASSUME NEW f
      PROVE  /\ f \in DOMAIN row => ValuesOf(fs, f) # <<>> /\ GetFirst(fs, f) = row[f]
             /\ f \notin DOMAIN row => ValuesOf(fs, f) = <<>>
  <2>1. PICK V : V = ValuesOf(fs, f)
    OBVIOUS
  <2>2. PICK H : H = Having(rows, f)
    OBVIOUS
  <2>3. /\ V = <<>> <=> H = {}
        /\ H = DOMAIN rows => V = [n \in 1 .. Len(rows) |-> rows[n][f]]
    BY <2>1, <2>2, Column
  <2>4. CASE f \in DOMAIN row
    <3>1. H = DOMAIN rows /\ H # {}
      BY <1>1, <1>2, <2>2, <2>4 DEF Having
    <3>2. V = [n \in 1 .. 1 |-> rows[n][f]] /\ V # <<>>
      BY <2>3, <3>1
    <3>3. V[1] = row[f]
      BY <1>1, <1>2, <3>2
    <3> QED BY <2>1, <2>4, <3>2, <3>3 DEF GetFirst
  <2>5. CASE f \notin DOMAIN row
    <3>1. H = {}
      BY <1>1, <1>2, <2>2, <2>5 DEF Having
    <3> QED BY <2>1, <2>3, <2>5, <3>1
  <2> QED BY <2>4, <2>5
<1>4. PICK given : given = {f \in optional : ValuesOf(fs, f) # <<>>}
  OBVIOUS
<1>5. \A f : f \in given <=> f \in optional /\ f \in DOMAIN row
  BY <1>3, <1>4
<1> DEFINE ok == \A f \in columns \cup given :
                   ValuesOf(fs, f) # <<>> /\ Legible(f, GetFirst(fs, f))
<1>6. read = IF ok THEN Rows(<<[f \in columns \cup given |-> GetFirst(fs, f)]>>) ELSE Refused
  BY Zenon, <1>4 DEF FirstRow
<1>7. Copy(rows) = <<[f \in DOMAIN row |-> row[f]]>>
  <2>1. Copy(rows) = [i \in 1 .. 1 |-> [f \in DOMAIN row |-> row[f]]]
    BY <1>1, <1>2 DEF Copy
  <2> QED BY <2>1
<1>8. LegibleRows(rows) <=> \A f \in DOMAIN row : Legible(f, row[f])
  BY <1>1, <1>2 DEF LegibleRows
<1>9. ASSUME ok PROVE read = Rows(Copy(rows)) /\ LegibleRows(rows)
  <2>1. columns \cup given = DOMAIN row
    BY <1>1, <1>3, <1>5, <1>9
  <2>2. \A f \in DOMAIN row : GetFirst(fs, f) = row[f]
    BY <1>3
  <2>3. LegibleRows(rows)
    BY <1>8, <1>9, <2>1, <2>2
  <2>4. read = Rows(<<[f \in DOMAIN row |-> GetFirst(fs, f)]>>)
    BY <1>6, <1>9, <2>1
  <2>5. [f \in DOMAIN row |-> GetFirst(fs, f)] = [f \in DOMAIN row |-> row[f]]
    BY <2>2
  <2> QED BY Zenon, <1>7, <2>3, <2>4, <2>5
<1>10. ASSUME Full(rows, columns) PROVE ok
  <2>1. columns \subseteq DOMAIN row /\ \A f \in DOMAIN row : Legible(f, row[f])
    BY <1>1, <1>2, <1>8, <1>10 DEF Full
  <2> QED BY <1>3, <1>5, <2>1
<1> HIDE DEF ok
<1>11. ok => read.ok
  BY <1>6 DEF Rows
<1> QED
  BY <1>6, <1>9, <1>10, <1>11 DEF WellRead

LEMMA RowsAreRead ==
  ASSUME NEW rows, WireRows(rows), NEW columns, NEW key, NEW optional,
         \A i \in 1 .. Len(rows) : /\ key \in DOMAIN rows[i]
                                   /\ DOMAIN rows[i] \subseteq columns \cup optional,
         NEW fs, fs = FlattenSeq(Parts(rows)), NEW read, read = RowsOf(fs, columns, key, optional)
  PROVE  /\ WellRead(read, rows)
         /\ Full(rows, columns) => read.ok
<1>1. PICK N : N = Len(rows)
  OBVIOUS
<1>2. N \in Nat /\ DOMAIN rows = 1 .. N
  BY <1>1 DEF WireRows
<1>3. ASSUME NEW f
      PROVE  LET V == ValuesOf(fs, f) IN
             /\ V = <<>> <=> \A i \in 1 .. N : f \notin DOMAIN rows[i]
             /\ Len(V) = N <=> \A i \in 1 .. N : f \in DOMAIN rows[i]
             /\ Len(V) = N => V = [n \in 1 .. N |-> rows[n][f]]
  <2>1. PICK V : V = ValuesOf(fs, f)
    OBVIOUS
  <2>2. PICK H : H = Having(rows, f)
    OBVIOUS
  <2>3. /\ V = <<>> <=> H = {}
        /\ Len(V) = N <=> H = DOMAIN rows
        /\ H = DOMAIN rows => V = [n \in 1 .. N |-> rows[n][f]]
    BY <1>1, <2>1, <2>2, Column
  <2>4. /\ H = {} <=> \A i \in 1 .. N : f \notin DOMAIN rows[i]
        /\ H = DOMAIN rows <=> \A i \in 1 .. N : f \in DOMAIN rows[i]
    BY <1>2, <2>2 DEF Having
  <2> QED BY <2>1, <2>3, <2>4
<1>4. Len(ValuesOf(fs, key)) = N
  BY <1>1, <1>3
<1>5. PICK given : given = {f \in optional : ValuesOf(fs, f) # <<>>}
  OBVIOUS
<1>6. PICK column : column = [f \in columns \cup given |-> ValuesOf(fs, f)]
  OBVIOUS
<1> DEFINE ok == \A f \in DOMAIN column : ColumnLegible(column[f], f) /\ Len(column[f]) = N
<1>7. read = IF ok THEN Rows([i \in 1 .. N |-> [f \in DOMAIN column |-> column[f][i]]])
             ELSE Refused
  BY Zenon, <1>4, <1>5, <1>6 DEF RowsOf
<1>8. \A f : f \in given <=> f \in optional /\ \E i \in 1 .. N : f \in DOMAIN rows[i]
  BY <1>3, <1>5
<1>9. DOMAIN column = columns \cup given /\ \A f \in DOMAIN column : column[f] = ValuesOf(fs, f)
  BY <1>6
<1>10. ASSUME ok PROVE read = Rows(Copy(rows)) /\ LegibleRows(rows)
  <2>1. \A f \in DOMAIN column : /\ column[f] = [n \in 1 .. N |-> rows[n][f]]
                                  /\ \A i \in 1 .. N : f \in DOMAIN rows[i]
    BY <1>3, <1>9, <1>10
  <2>2. ASSUME NEW i \in 1 .. N
        PROVE  /\ DOMAIN rows[i] = DOMAIN column
               /\ \A f \in DOMAIN column : column[f][i] = rows[i][f] /\ Legible(f, rows[i][f])
    <3>1. DOMAIN rows[i] \subseteq DOMAIN column
      BY <1>1, <1>8, <1>9
    <3>2. DOMAIN column \subseteq DOMAIN rows[i]
      BY <2>1
    <3>3. \A f \in DOMAIN column : column[f][i] = rows[i][f] /\ i \in DOMAIN column[f]
      BY <2>1
    <3>4. \A f \in DOMAIN column : Legible(f, column[f][i])
      BY <1>10, <3>3 DEF ColumnLegible
    <3> QED BY <3>1, <3>2, <3>3, <3>4
  <2>3. LegibleRows(rows)
    BY <1>1, <2>2 DEF LegibleRows
  <2>4. \A i \in 1 .. N : [f \in DOMAIN column |-> column[f][i]] = [f \in DOMAIN rows[i] |-> rows[i][f]]
    BY <2>2
  <2>5. [i \in 1 .. N |-> [f \in DOMAIN column |-> column[f][i]]] = Copy(rows)
    BY <1>1, <2>4 DEF Copy
  <2> QED BY <1>7, <1>10, <2>3, <2>5
<1>11. ASSUME Full(rows, columns) PROVE ok
  <2> SUFFICES ASSUME NEW f \in DOMAIN column
               PROVE  ColumnLegible(column[f], f) /\ Len(column[f]) = N
    OBVIOUS
  <2>1. \A i \in 1 .. N : f \in DOMAIN rows[i] /\ Legible(f, rows[i][f])
    <3>1. CASE f \in columns
      BY <1>1, <1>11, <3>1 DEF Full, LegibleRows
    <3>2. CASE f \in given
      <4>1. PICK i \in 1 .. N : f \in DOMAIN rows[i]
        BY <1>8, <3>2
      <4>2. \A j \in 1 .. N : DOMAIN rows[j] = DOMAIN rows[1]
        BY <1>1, <1>11 DEF Full
      <4>3. \A j \in 1 .. N : f \in DOMAIN rows[j]
        BY <4>1, <4>2
      <4> QED BY <1>1, <1>11, <4>3 DEF Full, LegibleRows
    <3> QED BY <1>9, <3>1, <3>2
  <2>2. Len(column[f]) = N /\ column[f] = [n \in 1 .. N |-> rows[n][f]]
    BY <1>3, <1>9, <2>1
  <2>3. ColumnLegible(column[f], f)
    BY <2>1, <2>2 DEF ColumnLegible
  <2> QED BY <2>2, <2>3
<1> HIDE DEF ok
<1>12. ok => read.ok
  BY <1>7 DEF Rows
<1> QED
  BY <1>7, <1>10, <1>11, <1>12 DEF WellRead

(* The bodies of packets are parsed as the fields the server wrote.        *)
LEMMA AnswerOnWire ==
  ASSUME NEW a \in Answer, NEW p, p = OnWire(PacketOf(a))
  PROVE  /\ WireRows(a.rows) /\ FieldsOf(a) = FlattenSeq(Parts(a.rows))
         /\ p.header.type = a.type
         /\ ParseTlvMap(p.body) = [ok |-> TRUE, fields |-> FieldsOf(a)]
<1>1. a.rows \in Seq(Range(a.rows)) /\ \A i \in DOMAIN a.rows : RowOf(a.type, a.rows[i])
  BY AnswerAssumption
<1>2. DOMAIN a.rows = 1 .. Len(a.rows) /\ Len(a.rows) \in Nat
  BY <1>1, LenProperties
<1>3. \A i \in 1 .. Len(a.rows) : WireRow(a.rows[i])
  BY <1>1, <1>2, RowIsWireRow
<1>4. WireRows(a.rows)
  BY <1>2, <1>3 DEF WireRows
<1>5. FieldsOf(a) = FlattenSeq(Parts(a.rows))
  BY DEF FieldsOf, Parts
<1>6. FieldsOf(a) \in Seq(WireField)
  BY <1>4, <1>5, RowsAreParts
<1>7. p.header.type = a.type /\ p.body = Body(FieldsOf(a))
  BY DEF OnWire, PacketOf, MakePacket
<1> QED
  BY <1>4, <1>5, <1>6, <1>7, ParsedAsWritten

LEMMA FriendTypesAre ==
  ASSUME NEW type
  PROVE  /\ type \in PushTypes \cup ReceiptTypes =>
              type \notin FriendTypes /\ type \notin {OfflineResponse, HistoryResponse}
         /\ type \in {OfflineResponse, HistoryResponse} => type \notin FriendTypes
         /\ type \in PushTypes => type \notin ReceiptTypes
         /\ type \in ReceiptTypes => type \notin MessageTypes
         /\ type \in FriendTypes =>
              type \notin MessageTypes \cup ReceiptTypes /\ type \notin {OfflineResponse, HistoryResponse}
         /\ type = ListFriendsResponse =>
              /\ type # FriendRequestsResponse
              /\ type \notin {AcceptFriendResponse, RejectFriendResponse, FriendAcceptedPush}
         /\ type = FriendRequestsResponse =>
              type \notin {AcceptFriendResponse, RejectFriendResponse, FriendAcceptedPush}
BY DEF PushTypes, ReceiptTypes, FriendTypes, MessageTypes, OfflineResponse, HistoryResponse,
       ListFriendsResponse, FriendRequestsResponse, AcceptFriendResponse, RejectFriendResponse,
       FriendAcceptedPush, PrivateMessageResponse, PrivateMessagePush, GroupMessagePush,
       DeliveryReceiptPush, ReadReceiptPush

(* The parser that a packet goes to. *)
LEMMA ParserOf ==
  ASSUME NEW p, NEW type, type = p.header.type, NEW fs,
         ParseTlvMap(p.body) = [ok |-> TRUE, fields |-> fs], NEW read, read = ReadPacket(p)
  PROVE  /\ type \in PushTypes \cup ReceiptTypes =>
              read = FirstRow(fs, FieldsOfType(type), OptionalOf(type))
         /\ type \in {OfflineResponse, HistoryResponse} => read = ParseOfflineMessages(fs)
         /\ type = ListFriendsResponse => read = ParseFriends(fs)
         /\ type = FriendRequestsResponse => read = ParseFriendRequests(fs)
         /\ type \in {AcceptFriendResponse, RejectFriendResponse, FriendAcceptedPush} =>
              read = ParseFriendAction(fs)
<1>1. PICK body : body = ParseTlvMap(p.body)
  OBVIOUS
<1>2. body.ok /\ body.fields = fs
  BY <1>1
<1>3. read = CASE ~body.ok -> Refused
       [] body.ok /\ type \in {PrivateMessageResponse, PrivateMessagePush, GroupMessagePush} ->
            ParseIncomingMessage(body.fields)
       [] body.ok /\ type \in {DeliveryReceiptPush, ReadReceiptPush} ->
            ParseReceipt(type, body.fields)
       [] body.ok /\ type \in {OfflineResponse, HistoryResponse} ->
            ParseOfflineMessages(body.fields)
       [] body.ok /\ type = ListFriendsResponse -> ParseFriends(body.fields)
       [] body.ok /\ type = FriendRequestsResponse -> ParseFriendRequests(body.fields)
       [] body.ok /\ type \in {AcceptFriendResponse, RejectFriendResponse, FriendAcceptedPush} ->
            ParseFriendAction(body.fields)
  BY Zenon, <1>1 DEF ReadPacket
<1>5. ASSUME type \in PushTypes PROVE read = FirstRow(fs, FieldsOfType(type), OptionalOf(type))
  <2>1. /\ type \notin ReceiptTypes /\ type \notin FriendTypes /\ type # ListFriendsResponse
        /\ type # FriendRequestsResponse /\ type \notin {OfflineResponse, HistoryResponse}
        /\ type \notin {AcceptFriendResponse, RejectFriendResponse, FriendAcceptedPush}
    BY <1>5, FriendTypesAre DEF FriendTypes
  <2>2. read = ParseIncomingMessage(fs)
    BY <1>2, <1>3, <1>5, <2>1 DEF PushTypes, ReceiptTypes
  <2>3. FieldsOfType(type) = MessageFields
    BY <2>1 DEF FieldsOfType
  <2>4. OptionalOf(type) = {ClientMessageId}
    BY <1>5 DEF OptionalOf, MessageTypes
  <2> QED BY <2>2, <2>3, <2>4 DEF ParseIncomingMessage
<1>6. ASSUME type \in ReceiptTypes PROVE read = FirstRow(fs, FieldsOfType(type), OptionalOf(type))
  <2>1. /\ type \notin PushTypes /\ type \notin FriendTypes /\ type # ListFriendsResponse
        /\ type # FriendRequestsResponse /\ type \notin {OfflineResponse, HistoryResponse}
        /\ type \notin {AcceptFriendResponse, RejectFriendResponse, FriendAcceptedPush}
        /\ type \notin MessageTypes
    BY <1>6, FriendTypesAre DEF FriendTypes, MessageTypes
  <2>2. read = ParseReceipt(type, fs)
    BY <1>2, <1>3, <1>6, <2>1 DEF PushTypes, ReceiptTypes
  <2>3. FieldsOfType(type) = ReceiptFields(type)
    BY <1>6, <2>1 DEF FieldsOfType
  <2>4. OptionalOf(type) = {}
    BY <2>1 DEF OptionalOf
  <2> QED BY <2>2, <2>3, <2>4 DEF ParseReceipt
<1>7. ASSUME type \in {OfflineResponse, HistoryResponse} PROVE read = ParseOfflineMessages(fs)
  <2>1. /\ type \notin PushTypes /\ type \notin ReceiptTypes /\ type # ListFriendsResponse
        /\ type # FriendRequestsResponse
        /\ type \notin {AcceptFriendResponse, RejectFriendResponse, FriendAcceptedPush}
    BY <1>7, FriendTypesAre DEF FriendTypes
  <2> QED BY <1>2, <1>3, <1>7, <2>1 DEF PushTypes, ReceiptTypes
<1>8. ASSUME type \in FriendTypes
      PROVE  /\ type = ListFriendsResponse => read = ParseFriends(fs)
             /\ type = FriendRequestsResponse => read = ParseFriendRequests(fs)
             /\ type \in {AcceptFriendResponse, RejectFriendResponse, FriendAcceptedPush} =>
                  read = ParseFriendAction(fs)
  <2>1. /\ type \notin PushTypes /\ type \notin ReceiptTypes
        /\ type \notin {OfflineResponse, HistoryResponse}
    BY <1>8, FriendTypesAre DEF MessageTypes
  <2> QED BY <1>2, <1>3, <2>1, FriendTypesAre DEF PushTypes, ReceiptTypes
<1> QED
  BY <1>5, <1>6, <1>7, <1>8 DEF FriendTypes

LEMMA FirstOfRowsIsMeant ==
  ASSUME NEW a \in Answer, a.type \notin FriendTypes
  PROVE  Meaning(a) = Copy(a.rows)
<1>1. /\ DOMAIN a.rows = 1 .. Len(a.rows)
      /\ \A i \in DOMAIN a.rows : RowOf(a.type, a.rows[i])
  BY AnswerAssumption, LenProperties
<1>2. OnlineStatus \notin FieldsOfType(a.type) \cup OptionalOf(a.type)
  <2>1. OnlineStatus \notin ReceiptFields(a.type) \cup MessageFields \cup {ClientMessageId}
    BY DEF ReceiptFields, MessageFields, OnlineStatus, ClientMessageId, MessageId, ConversationId,
           DeliveryStatus, UserId, ReceiverId, ConversationType, SenderId, MessageText, TimestampMs
  <2>2. FieldsOfType(a.type) \in {ReceiptFields(a.type), MessageFields}
    <3>1. a.type # ListFriendsResponse
      BY DEF FriendTypes
    <3> QED BY <3>1 DEF FieldsOfType
  <2> QED BY <2>1, <2>2 DEF OptionalOf
<1>3. \A i \in DOMAIN a.rows : \A f \in DOMAIN a.rows[i] : f # OnlineStatus
  BY <1>1, <1>2 DEF RowOf
<1>4. Meaning(a) = [i \in DOMAIN a.rows |-> [f \in DOMAIN a.rows[i] |-> a.rows[i][f]]]
  BY <1>3 DEF Meaning
<1> QED
  BY <1>1, <1>4 DEF Copy

LEMMA CompleteIsFull ==
  ASSUME NEW a \in Answer, Complete(a)
  PROVE  Full(a.rows, FieldsOfType(a.type))
<1>1. DOMAIN a.rows = 1 .. Len(a.rows)
  BY AnswerAssumption, LenProperties
<1> QED
  BY <1>1 DEF Complete, Full, LegibleRows

(* What a reader finds, with what was written. *)
Found(read, a) ==
  /\ read.ok => read.rows \in {<<>>, Meaning(a)}
  /\ read.rows # <<>> => read.ok /\ read.rows = Meaning(a) /\ LegibleRows(a.rows)
  /\ Complete(a) => read.ok /\ read.rows = Meaning(a)

LEMMA WellReadIsFound ==
  ASSUME NEW a, NEW read, WellRead(read, a.rows), Meaning(a) = Copy(a.rows),
         Complete(a) => read.ok
  PROVE  Found(read, a)
<1>1. Refused.rows = <<>> /\ ~Refused.ok
  BY DEF Refused
<1>2. Rows(Copy(a.rows)).ok /\ Rows(Copy(a.rows)).rows = Copy(a.rows)
  BY DEF Rows
<1>3. CASE read = Refused
  BY <1>1, <1>3 DEF Found
<1>4. CASE read = Rows(Copy(a.rows)) /\ LegibleRows(a.rows)
  BY <1>2, <1>4 DEF Found
<1> QED
  BY <1>3, <1>4 DEF WellRead

(* Without rows nothing is read. *)
LEMMA NoRowsAreFound ==
  ASSUME NEW a \in Answer, Len(a.rows) = 0, NEW read, read = Rows(<<>>)
  PROVE  Found(read, a)
<1>1. DOMAIN a.rows = {}
  <2>1. a.rows \in Seq(Range(a.rows))
    BY AnswerAssumption
  <2>2. 1 .. 0 = {}
    OBVIOUS
  <2> QED BY <2>1, <2>2, LenProperties
<1>2. DOMAIN Meaning(a) = {} /\ Meaning(a) = [i \in DOMAIN Meaning(a) |-> Meaning(a)[i]]
  BY <1>1 DEF Meaning
<1>3. Meaning(a) = <<>>
  BY <1>2, SeqOfNone
<1> QED
  BY <1>3 DEF Found, Rows

(* The rows are not empty when the key is there. *)
LEMMA KeyIsThere ==
  ASSUME NEW a \in Answer, NEW fs, fs = FieldsOf(a)
  PROVE  ValuesOf(fs, KeyOf(a.type)) = <<>> <=> Len(a.rows) = 0
<1>1. PICK rows : rows = a.rows
  OBVIOUS
<1>2. WireRows(rows) /\ fs = FlattenSeq(Parts(rows))
  BY <1>1, AnswerOnWire
<1>3. PICK f : f = KeyOf(a.type)
  OBVIOUS
<1>4. PICK V : V = ValuesOf(fs, f)
  OBVIOUS
<1>5. V = <<>> <=> Having(rows, f) = {}
  BY <1>2, <1>4, Column
<1>6. DOMAIN rows = 1 .. Len(rows) /\ Len(rows) \in Nat
  BY <1>2 DEF WireRows
<1>7. Having(rows, f) = 1 .. Len(rows)
  <2>1. \A i \in DOMAIN rows : f \in DOMAIN rows[i]
    BY <1>1, <1>3, AnswerAssumption DEF RowOf
  <2> QED BY <1>6, <2>1 DEF Having
<1>8. 1 .. Len(rows) = {} <=> Len(rows) = 0
  BY <1>6
<1> QED
  BY <1>1, <1>3, <1>4, <1>5, <1>7, <1>8

LEMMA MessageIsFound ==
  ASSUME NEW a \in Answer, NEW read, NEW fs, fs = FieldsOf(a),
         \/ /\ a.type \in PushTypes \cup ReceiptTypes
            /\ read = FirstRow(fs, FieldsOfType(a.type), OptionalOf(a.type))
         \/ a.type \in {OfflineResponse, HistoryResponse} /\ read = ParseOfflineMessages(fs)
  PROVE  Found(read, a)
<1>1. PICK rows : rows = a.rows
  OBVIOUS
<1>2. /\ WireRows(rows) /\ fs = FlattenSeq(Parts(rows))
      /\ DOMAIN rows = 1 .. Len(rows) /\ Len(rows) \in Nat
  BY <1>1, AnswerOnWire DEF WireRows
<1>3. a.type \notin FriendTypes
  BY FriendTypesAre
<1>4. Meaning(a) = Copy(rows)
  BY <1>1, <1>3, FirstOfRowsIsMeant
<1>5. PICK columns : columns = FieldsOfType(a.type)
  OBVIOUS
<1>6. PICK optional : optional = OptionalOf(a.type)
  OBVIOUS
<1>7. \A i \in 1 .. Len(rows) : /\ KeyOf(a.type) \in DOMAIN rows[i]
                               /\ DOMAIN rows[i] \subseteq columns \cup optional
  BY <1>1, <1>2, <1>5, <1>6, AnswerAssumption DEF RowOf
<1>8. Complete(a) => Full(rows, columns)
  BY <1>1, <1>5, CompleteIsFull
<1>9. CASE a.type \in PushTypes \cup ReceiptTypes
  <2>1. a.type \notin {OfflineResponse, HistoryResponse}
    BY <1>9, FriendTypesAre
  <2>2. read = FirstRow(fs, columns, optional)
    BY <1>5, <1>6, <2>1
  <2>3. Len(rows) = 1 /\ DOMAIN rows[1] \subseteq columns \cup optional
    <3>1. Len(rows) = 1
      BY <1>1, <1>9, AnswerAssumption
    <3> QED BY <1>7, <3>1
  <2>4. WellRead(read, rows) /\ (Full(rows, columns) => read.ok)
    BY <1>2, <2>2, <2>3, FirstRowIsRead
  <2> QED BY <1>1, <1>4, <1>8, <2>4, WellReadIsFound
<1>10. CASE a.type \in {OfflineResponse, HistoryResponse}
  <2>1. a.type \notin PushTypes \cup ReceiptTypes
    BY <1>10, FriendTypesAre
  <2>2. columns = MessageFields /\ optional = {ClientMessageId} /\ KeyOf(a.type) = MessageId
    <3>1. a.type # ListFriendsResponse
      BY <1>3 DEF FriendTypes
    <3> QED BY <1>3, <1>5, <1>6, <1>10, <2>1, <3>1 DEF FieldsOfType, OptionalOf, KeyOf, MessageTypes
  <2>3. CASE Len(rows) = 0
    <3>1. read = Rows(<<>>)
      BY <1>1, <2>1, <2>2, <2>3, KeyIsThere DEF ParseOfflineMessages
    <3> QED BY <1>1, <2>3, <3>1, NoRowsAreFound
  <2>4. CASE Len(rows) # 0
    <3>1. ValuesOf(fs, MessageId) # <<>>
      BY <1>1, <2>2, <2>4, KeyIsThere
    <3>2. read = RowsOf(fs, columns, KeyOf(a.type), optional)
      BY <2>1, <2>2, <3>1 DEF ParseOfflineMessages
    <3>3. WellRead(read, rows) /\ (Full(rows, columns) => read.ok)
      BY <1>2, <1>7, <3>2, RowsAreRead
    <3> QED BY <1>1, <1>4, <1>8, <3>3, WellReadIsFound
  <2> QED BY <2>3, <2>4
<1> QED
  BY <1>9, <1>10

Online(rows) == [i \in DOMAIN rows |-> OnlineOrNot(rows[i])]

LEMMA FriendsAreMeant ==
  ASSUME NEW a \in Answer
  PROVE  Online(Copy(a.rows)) = Meaning(a)
<1>1. PICK rows : rows = a.rows
  OBVIOUS
<1>2. PICK N : N = Len(rows)
  OBVIOUS
<1>3. DOMAIN rows = 1 .. N
  BY <1>1, <1>2, AnswerAssumption, LenProperties
<1>4. PICK copy : copy = Copy(rows)
  OBVIOUS
<1>5. copy = [i \in 1 .. N |-> [f \in DOMAIN rows[i] |-> rows[i][f]]]
  BY <1>2, <1>4 DEF Copy
<1>6. PICK new : new = Online(copy)
  OBVIOUS
<1>7. ASSUME NEW i \in 1 .. N
      PROVE  OnlineOrNot(copy[i])
               = [f \in DOMAIN rows[i] |->
                    IF f = OnlineStatus THEN Uint64(IF rows[i][f][1] = 0 THEN 0 ELSE 1)
                    ELSE rows[i][f]]
  <2>1. PICK row : row = rows[i]
    OBVIOUS
  <2>2. copy[i] = [f \in DOMAIN row |-> row[f]]
    BY <1>5, <2>1
  <2>3. OnlineOrNot(copy[i])
          = [f \in DOMAIN row |->
               IF f = OnlineStatus THEN Uint64(IF row[f][1] = 0 THEN 0 ELSE 1) ELSE row[f]]
    BY <2>2 DEF OnlineOrNot
  <2> QED BY <2>1, <2>3
<1>8. new = Meaning(a)
  BY <1>1, <1>3, <1>5, <1>6, <1>7 DEF Meaning, Online
<1> QED
  BY <1>1, <1>4, <1>6, <1>8

LEMMA NoFriends == Online(<<>>) = <<>>
<1>1. DOMAIN Online(<<>>) = {} /\ Online(<<>>) = [i \in DOMAIN Online(<<>>) |-> Online(<<>>)[i]]
  BY DEF Online
<1> QED
  BY <1>1, SeqOfNone

LEMMA FriendRowsAreFound ==
  ASSUME NEW a \in Answer, a.type \in FriendTypes, NEW fs, fs = FieldsOf(a),
         NEW read, read = ParseFriendRows(fs, FieldsOfType(a.type))
  PROVE  Found(read, a)
<1>1. PICK rows : rows = a.rows
  OBVIOUS
<1>2. /\ WireRows(rows) /\ fs = FlattenSeq(Parts(rows))
      /\ DOMAIN rows = 1 .. Len(rows) /\ Len(rows) \in Nat
  BY <1>1, AnswerOnWire DEF WireRows
<1>3. PICK columns : columns = FieldsOfType(a.type)
  OBVIOUS
<1>4. KeyOf(a.type) = FriendId /\ OptionalOf(a.type) = {}
  BY FriendTypesAre DEF KeyOf, OptionalOf
<1>5. \A i \in 1 .. Len(rows) : FriendId \in DOMAIN rows[i] /\ DOMAIN rows[i] \subseteq columns \cup {}
  BY <1>1, <1>2, <1>3, <1>4, AnswerAssumption DEF RowOf
<1>6. Complete(a) => Full(rows, columns)
  BY <1>1, <1>3, CompleteIsFull
<1>7. ValuesOf(fs, FriendId) = <<>> <=> Len(rows) = 0
  BY <1>1, <1>4, KeyIsThere
<1>8. CASE Len(rows) = 0
  <2>1. read = Rows(<<>>)
    BY <1>7, <1>8 DEF ParseFriendRows
  <2> QED BY <1>1, <1>8, <2>1, NoRowsAreFound
<1>9. CASE Len(rows) # 0
  <2>1. PICK first : first = RowsOf(fs, columns, FriendId, {})
    OBVIOUS
  <2>2. WellRead(first, rows) /\ (Full(rows, columns) => first.ok)
    BY <1>2, <1>5, <2>1, RowsAreRead
  <2>3. read = [first EXCEPT !.rows = Online(first.rows)]
    <3>1. ValuesOf(fs, FriendId) # <<>>
      BY <1>7, <1>9
    <3>2. read = ParseFriendRows(fs, columns)
      BY <1>3
    <3>3. read = [RowsOf(fs, columns, FriendId, {}) EXCEPT
                    !.rows = Online(RowsOf(fs, columns, FriendId, {}).rows)]
      BY <3>1, <3>2 DEF ParseFriendRows, Online
    <3> QED BY Zenon, <2>1, <3>3
  <2>4. CASE first = Refused
    <3>1. read = Refused
      BY <2>3, <2>4, NoFriends DEF Refused
    <3>2. ~Complete(a)
      BY <1>6, <2>2, <2>4 DEF Refused
    <3> QED BY <3>1, <3>2 DEF Found, Refused
  <2>5. CASE first = Rows(Copy(rows)) /\ LegibleRows(rows)
    <3>1. read = Rows(Meaning(a))
      <4>1. Online(first.rows) = Meaning(a)
        BY <1>1, <2>5, FriendsAreMeant DEF Rows
      <4> QED BY <2>3, <2>5, <4>1 DEF Rows
    <3> QED BY <1>1, <2>5, <3>1 DEF Found, Rows
  <2> QED BY <2>2, <2>4, <2>5 DEF WellRead
<1> QED
  BY <1>8, <1>9

(* Every answer is read as it is meant, or refused. *)
LEMMA AnswerIsFound ==
  ASSUME NEW a \in Answer, NEW p, p = OnWire(PacketOf(a)), NEW read, read = ReadPacket(p)
  PROVE  Found(read, a)
<1>1. PICK fs : fs = FieldsOf(a)
  OBVIOUS
<1>2. p.header.type = a.type /\ ParseTlvMap(p.body) = [ok |-> TRUE, fields |-> fs]
  BY <1>1, AnswerOnWire
<1>3. PICK type : type = a.type
  OBVIOUS
<1>4. /\ type \in PushTypes \cup ReceiptTypes =>
           read = FirstRow(fs, FieldsOfType(type), OptionalOf(type))
      /\ type \in {OfflineResponse, HistoryResponse} => read = ParseOfflineMessages(fs)
      /\ type = ListFriendsResponse => read = ParseFriends(fs)
      /\ type = FriendRequestsResponse => read = ParseFriendRequests(fs)
      /\ type \in {AcceptFriendResponse, RejectFriendResponse, FriendAcceptedPush} =>
           read = ParseFriendAction(fs)
  BY <1>2, <1>3, ParserOf
<1>5. CASE type \in PushTypes \cup ReceiptTypes \cup {OfflineResponse, HistoryResponse}
  BY <1>1, <1>3, <1>4, <1>5, MessageIsFound
<1>6. CASE type \in {ListFriendsResponse, FriendRequestsResponse}
  <2>1. read = ParseFriendRows(fs, FieldsOfType(type)) /\ type \in FriendTypes
    BY <1>4, <1>6, FriendTypesAre DEF ParseFriends, ParseFriendRequests, FieldsOfType, FriendTypes,
       ReceiptTypes
  <2> QED BY <1>1, <1>3, <2>1, FriendRowsAreFound
<1>7. CASE type \in {AcceptFriendResponse, RejectFriendResponse, FriendAcceptedPush}
  <2>1. type \in FriendTypes /\ type # ListFriendsResponse /\ type # FriendRequestsResponse
    BY <1>7, FriendTypesAre DEF FriendTypes
  <2>2. FieldsOfType(type) = RequestFields
    BY <2>1, FriendTypesAre DEF FieldsOfType
  <2>3. PICK first : first = ParseFriendRows(fs, RequestFields)
    OBVIOUS
  <2>4. Found(first, a)
    BY <1>1, <1>3, <2>1, <2>2, <2>3, FriendRowsAreFound
  <2>5. read = IF first.ok /\ Len(first.rows) = 1 THEN first ELSE Refused
    BY <1>4, <1>7, <2>3 DEF ParseFriendAction, ParseFriendRequests
  <2>6. ASSUME Complete(a) PROVE Len(Meaning(a)) = 1
    <3>1. Len(a.rows) = 1
      BY <1>3, <2>1, <2>6 DEF Complete
    <3>2. DOMAIN a.rows = 1 .. 1
      BY <3>1, AnswerAssumption, LenProperties
    <3>3. Meaning(a) \in [1 .. 1 -> {Meaning(a)[i] : i \in 1 .. 1}]
      BY <3>2 DEF Meaning
    <3> QED BY <3>3, LenOf
  <2>7. ~Refused.ok /\ Refused.rows = <<>>
    BY DEF Refused
  <2> QED BY <2>4, <2>5, <2>6, <2>7 DEF Found
<1> QED
  BY <1>3, <1>5, <1>6, <1>7, AnswerAssumption DEF FriendTypes, MessageTypes
-----------------------------------------------------------------------------
(* What is read                                                            *)

LEMMA AnswersInit == Init => AnswersAreSent
<1>1. <<>> \in Seq(Answer) /\ Len(<<>>) = 0 /\ 1 .. 0 = {}
  BY EmptySeq
<1> QED
  BY <1>1 DEF Init, FrameInit, AnswersAreSent

LEMMA AnswersStep == AnswersAreSent /\ FrameInv /\ [Next]_vars => AnswersAreSent'
<1> SUFFICES ASSUME AnswersAreSent, FrameInv, [Next]_vars PROVE AnswersAreSent'
  OBVIOUS
<1>1. ASSUME UNCHANGED <<answers, sent>> PROVE AnswersAreSent'
  BY <1>1 DEF AnswersAreSent
<1>2. ASSUME NEW a \in Answer, ServerSays(a) PROVE AnswersAreSent'
  <2>1. answers' = Append(answers, a) /\ sent' = Append(sent, PacketOf(a))
    BY <1>2 DEF ServerSays, PeerSends
  <2>2. sent \in Seq(Packet) /\ PacketOf(a) \in Packet
    BY AnswerAssumption DEF FrameInv, DecoderTypeOK
  <2>3. answers \in Seq(Answer) /\ Len(answers) = Len(sent)
        /\ \A i \in 1 .. Len(sent) : sent[i] = PacketOf(answers[i])
    BY DEF AnswersAreSent
  <2>4. /\ sent' \in Seq(Packet) /\ Len(sent') = Len(sent) + 1
        /\ \A i \in 1 .. Len(sent) : sent'[i] = sent[i]
        /\ sent'[Len(sent) + 1] = PacketOf(a)
    BY <2>1, <2>2, CellsAppend
  <2>5. /\ answers' \in Seq(Answer) /\ Len(answers') = Len(answers) + 1
        /\ \A i \in 1 .. Len(answers) : answers'[i] = answers[i]
        /\ answers'[Len(answers) + 1] = a
    BY <2>1, <2>3, CellsAppend
  <2>6. Len(sent) \in Nat /\ \A i \in 1 .. Len(sent) + 1 : i \in 1 .. Len(sent) \/ i = Len(sent) + 1
    BY <2>2, LenProperties
  <2>7. ASSUME NEW i \in 1 .. Len(sent) + 1 PROVE sent'[i] = PacketOf(answers'[i])
    <3>1. CASE i \in 1 .. Len(sent)
      BY <2>3, <2>4, <2>5, <3>1
    <3>2. CASE i = Len(sent) + 1
      BY <2>3, <2>4, <2>5, <3>2
    <3> QED BY <2>6, <3>1, <3>2
  <2> QED BY <2>3, <2>4, <2>5, <2>7 DEF AnswersAreSent
<1>3. ASSUME DecoderSteps PROVE AnswersAreSent'
  <2>1. UNCHANGED <<answers, sent>>
    BY <1>3 DEF DecoderSteps, PeerSendsForeign, ReadAny, Read, DecodeFrame, TakeFrame, RefuseHeader,
       FeedReturns, ConnectionEnds, streamVars, decoderVars
  <2> QED BY <1>1, <2>1
<1>4. ASSUME ReconnectAnew PROVE AnswersAreSent'
  <2>1. answers' = <<>> /\ sent' = <<>>
    BY <1>4 DEF ReconnectAnew, Reconnect
  <2>2. <<>> \in Seq(Answer) /\ Len(<<>>) = 0 /\ 1 .. 0 = {}
    BY EmptySeq
  <2> QED BY <2>1, <2>2 DEF AnswersAreSent
<1>5. ASSUME NEW i \in DOMAIN delivered, AckOffline(i) PROVE AnswersAreSent'
  BY <1>1, <1>5 DEF AckOffline, Asks, wireVars, streamVars
<1>6. ASSUME NEW i \in DOMAIN delivered, NEW n \in DOMAIN Reading(i).rows,
             AboutMessage(i, n) \/ AnswerFriend(i, n)
      PROVE  AnswersAreSent'
  BY <1>1, <1>6 DEF AboutMessage, AnswerFriend, Asks, wireVars, streamVars
<1>7. ASSUME UNCHANGED vars PROVE AnswersAreSent'
  BY <1>1, <1>7 DEF vars, wireVars, streamVars
<1> QED
  BY <1>2, <1>3, <1>4, <1>5, <1>6, <1>7 DEF Next

(* What the client finds in a packet. *)
LEMMA DeliveredIsFound ==
  ASSUME FrameInv, AnswersAreSent, NEW i \in DOMAIN delivered
  PROVE  answers[i] \in Answer /\ delivered[i] = OnWire(PacketOf(answers[i])) /\ Found(Reading(i), answers[i])
<1>1. /\ Len(delivered) <= Len(sent) /\ sent \in Seq(Packet) /\ delivered \in Seq(WirePacket)
      /\ \A j \in 1 .. Len(delivered) : delivered[j] = OnWire(sent[j])
  BY DEF FrameInv, TakenInOrder, DecoderTypeOK
<1>2. i \in 1 .. Len(delivered) /\ i \in 1 .. Len(sent)
  <2>1. DOMAIN delivered = 1 .. Len(delivered) /\ Len(delivered) \in Nat /\ Len(sent) \in Nat
    BY <1>1, LenProperties
  <2> QED BY <1>1, <2>1
<1>3. answers \in Seq(Answer) /\ Len(answers) = Len(sent) /\ sent[i] = PacketOf(answers[i])
  BY <1>2 DEF AnswersAreSent
<1>4. answers[i] \in Answer
  BY <1>2, <1>3, ElementOfSeq
<1>5. delivered[i] = OnWire(PacketOf(answers[i]))
  BY <1>1, <1>2, <1>3
<1> QED
  BY <1>4, <1>5, AnswerIsFound DEF Reading

LEMMA FoundIsWhatWasSent == FrameInv /\ AnswersAreSent => ReadIsWhatWasSent
<1> SUFFICES ASSUME FrameInv, AnswersAreSent, NEW i \in DOMAIN delivered
             PROVE  Found(Reading(i), answers[i])
  BY DEF ReadIsWhatWasSent, Found
<1> QED
  BY DeliveredIsFound

LEMMA WireFrames == Spec => []FrameInv
<1>1. Init => FrameInit
  BY DEF Init
<1>2. [Next]_vars => [FrameNext]_wireVars
  BY WireStepIsFrameStep
<1>3. Spec => FrameSpec
  BY <1>1, <1>2, PTL DEF Spec, FrameSpec
<1> QED
  BY <1>3, FrameInvariant

LEMMA WireAnswers == Spec => []AnswersAreSent
<1>1. AnswersAreSent /\ FrameInv /\ [Next]_vars => AnswersAreSent'
  BY AnswersStep
<1> QED
  BY AnswersInit, <1>1, WireFrames, PTL DEF Spec

(* Whatever the server says in whatever packets, and however these are cut *)
(* by the reads, the client reads the rows that were written: all of a     *)
(* response, each value in its row, or none (parsers.py, codec.py).        *)
THEOREM ReadIsWhatWasSentSafe == Spec => []ReadIsWhatWasSent
<1>1. FrameInv /\ AnswersAreSent => ReadIsWhatWasSent
  BY FoundIsWhatWasSent
<1> QED
  BY <1>1, WireFrames, WireAnswers, PTL
-----------------------------------------------------------------------------
(* What is asked                                                           *)

Text == {v \in Seq(Cell) : Len(v) <= MaxValueLength}

LEMMA NumbersAreTexts == \A n \in Nat : Uint64(n) \in Text
<1> SUFFICES ASSUME NEW n \in Nat PROVE Uint64(n) \in Text
  OBVIOUS
<1>1. <<n>> \in Seq(Nat) /\ Len(<<n>>) = 1
  OBVIOUS
<1> QED
  BY <1>1, RequestAssumption DEF Uint64, Text, Cell

(* A body whose fields have one type each. *)
SaysOnce(body, fs) ==
  /\ ParseTlvMap(body) = [ok |-> TRUE, fields |-> fs]
  /\ \A q \in 1 .. Len(fs) : ValuesOf(fs, fs[q].type) = <<fs[q].value>>
  /\ \A f : (\A q \in 1 .. Len(fs) : fs[q].type # f) => ValuesOf(fs, f) = <<>>

LEMMA BodySaysOnce ==
  ASSUME NEW fs \in Seq(WireField),
         \A j, k \in 1 .. Len(fs) : fs[j].type = fs[k].type => j = k
  PROVE  SaysOnce(Body(fs), fs)
<1>1. ParseTlvMap(Body(fs)) = [ok |-> TRUE, fields |-> fs]
  BY ParsedAsWritten
<1>2. ASSUME NEW q \in 1 .. Len(fs) PROVE ValuesOf(fs, fs[q].type) = <<fs[q].value>>
  <2>1. \A r \in 1 .. Len(fs) : fs[r].type = fs[q].type <=> r = q
    OBVIOUS
  <2>2. PICK f : f = fs[q].type
    OBVIOUS
  <2> QED BY <2>1, <2>2, OneValue
<1>3. ASSUME NEW f, \A q \in 1 .. Len(fs) : fs[q].type # f PROVE ValuesOf(fs, f) = <<>>
  BY <1>3, NoValue
<1> QED
  BY <1>1, <1>2, <1>3 DEF SaysOnce

(* What is read of a field in a body. *)
Tells(b, f, values) == ParseTlvMap(b).ok /\ ValuesOf(ParseTlvMap(b).fields, f) = values

LEMMA FieldIsWireField ==
  ASSUME NEW t \in Nat, NEW v \in Text
  PROVE  Field(t, v) \in WireField /\ Field(t, v).type = t /\ Field(t, v).value = v
BY DEF Field, WireField, Text, Cell

LEMMA OneFieldSays ==
  ASSUME NEW t \in Nat, NEW v \in Text, NEW b, b = Body(<<Field(t, v)>>)
  PROVE  Tells(b, t, <<v>>)
<1>1. PICK x \in WireField : x = Field(t, v) /\ x.type = t /\ x.value = v
  BY FieldIsWireField
<1>2. PICK fs : fs = <<x>>
  OBVIOUS
<1>3. fs \in Seq(WireField) /\ Len(fs) = 1 /\ fs[1] = x
  BY <1>2
<1>4. SaysOnce(b, fs)
  <2>1. \A j, k \in 1 .. Len(fs) : fs[j].type = fs[k].type => j = k
    BY <1>3
  <2> QED BY <1>1, <1>2, <1>3, <2>1, BodySaysOnce
<1>5. 1 \in 1 .. Len(fs)
  BY <1>3
<1> QED
  BY <1>1, <1>3, <1>4, <1>5 DEF SaysOnce, Tells

LEMMA TwoFieldsSay ==
  ASSUME NEW t1 \in Nat, NEW v1 \in Text, NEW t2 \in Nat, NEW v2 \in Text, t1 # t2,
         NEW b, b = Body(<<Field(t1, v1), Field(t2, v2)>>), NEW f, f # t1, f # t2
  PROVE  Tells(b, t1, <<v1>>) /\ Tells(b, t2, <<v2>>) /\ Tells(b, f, <<>>)
<1>1. PICK x \in WireField : x = Field(t1, v1) /\ x.type = t1 /\ x.value = v1
  BY FieldIsWireField
<1>2. PICK y \in WireField : y = Field(t2, v2) /\ y.type = t2 /\ y.value = v2
  BY FieldIsWireField
<1>3. PICK fs : fs = <<x, y>>
  OBVIOUS
<1>4. fs \in Seq(WireField) /\ Len(fs) = 2 /\ fs[1] = x /\ fs[2] = y
  BY <1>3
<1>5. \A q \in 1 .. Len(fs) : q = 1 \/ q = 2
  BY <1>4
<1>6. SaysOnce(b, fs)
  <2>1. \A j, k \in 1 .. Len(fs) : fs[j].type = fs[k].type => j = k
    BY <1>1, <1>2, <1>4, <1>5
  <2> QED BY <1>1, <1>2, <1>3, <1>4, <2>1, BodySaysOnce
<1>7. 1 \in 1 .. Len(fs) /\ 2 \in 1 .. Len(fs)
  BY <1>4
<1>8. ValuesOf(fs, f) = <<>>
  <2>1. \A q \in 1 .. Len(fs) : fs[q].type # f
    BY <1>1, <1>2, <1>4, <1>5
  <2> QED BY <1>6, <2>1 DEF SaysOnce
<1> QED
  BY <1>1, <1>2, <1>4, <1>6, <1>7, <1>8 DEF SaysOnce, Tells

LEMMA ThreeFieldsSay ==
  ASSUME NEW t1 \in Nat, NEW v1 \in Text, NEW t2 \in Nat, NEW v2 \in Text,
         NEW t3 \in Nat, NEW v3 \in Text, t1 # t2, t1 # t3, t2 # t3,
         NEW b, b = Body(<<Field(t1, v1), Field(t2, v2), Field(t3, v3)>>)
  PROVE  /\ Tells(b, t1, <<v1>>) /\ Tells(b, t2, <<v2>>) /\ Tells(b, t3, <<v3>>)
         /\ \A f : f # t1 /\ f # t2 /\ f # t3 => Tells(b, f, <<>>)
<1>1. PICK x \in WireField : x = Field(t1, v1) /\ x.type = t1 /\ x.value = v1
  BY FieldIsWireField
<1>2. PICK y \in WireField : y = Field(t2, v2) /\ y.type = t2 /\ y.value = v2
  BY FieldIsWireField
<1>3. PICK z \in WireField : z = Field(t3, v3) /\ z.type = t3 /\ z.value = v3
  BY FieldIsWireField
<1>4. PICK fs : fs = <<x, y, z>>
  OBVIOUS
<1>5. fs \in Seq(WireField) /\ Len(fs) = 3 /\ fs[1] = x /\ fs[2] = y /\ fs[3] = z
  BY <1>4
<1>6. \A q \in 1 .. Len(fs) : q = 1 \/ q = 2 \/ q = 3
  BY <1>5
<1>7. SaysOnce(b, fs)
  <2>1. \A j, k \in 1 .. Len(fs) : fs[j].type = fs[k].type => j = k
    BY <1>1, <1>2, <1>3, <1>5, <1>6
  <2> QED BY <1>1, <1>2, <1>3, <1>4, <1>5, <2>1, BodySaysOnce
<1>8. 1 \in 1 .. Len(fs) /\ 2 \in 1 .. Len(fs) /\ 3 \in 1 .. Len(fs)
  BY <1>5
<1>9. ASSUME NEW f, f # t1 /\ f # t2 /\ f # t3 PROVE ValuesOf(fs, f) = <<>>
  <2>1. \A q \in 1 .. Len(fs) : fs[q].type # f
    BY <1>1, <1>2, <1>3, <1>5, <1>6, <1>9
  <2> QED BY <1>7, <2>1 DEF SaysOnce
<1>10. \A q \in 1 .. Len(fs) : ValuesOf(fs, fs[q].type) = <<fs[q].value>>
  BY <1>7 DEF SaysOnce
<1>11. ValuesOf(fs, t1) = <<v1>>
  BY Zenon, <1>1, <1>5, <1>8, <1>10
<1>12. ValuesOf(fs, t2) = <<v2>>
  BY Zenon, <1>2, <1>5, <1>8, <1>10
<1>13. ValuesOf(fs, t3) = <<v3>>
  BY Zenon, <1>3, <1>5, <1>8, <1>10
<1>14. ParseTlvMap(b).ok /\ ParseTlvMap(b).fields = fs
  BY <1>7 DEF SaysOnce
<1> QED
  BY Zenon, <1>9, <1>11, <1>12, <1>13, <1>14 DEF Tells

LEMMA FourFieldsSay ==
  ASSUME NEW t1 \in Nat, NEW v1 \in Text, NEW t2 \in Nat, NEW v2 \in Text,
         NEW t3 \in Nat, NEW v3 \in Text, NEW t4 \in Nat, NEW v4 \in Text,
         t1 # t2, t1 # t3, t1 # t4, t2 # t3, t2 # t4, t3 # t4,
         NEW b, b = Body(<<Field(t1, v1), Field(t2, v2), Field(t3, v3), Field(t4, v4)>>)
  PROVE  /\ Tells(b, t1, <<v1>>) /\ Tells(b, t2, <<v2>>)
         /\ Tells(b, t3, <<v3>>) /\ Tells(b, t4, <<v4>>)
<1>1. PICK x \in WireField : x = Field(t1, v1) /\ x.type = t1 /\ x.value = v1
  BY FieldIsWireField
<1>2. PICK y \in WireField : y = Field(t2, v2) /\ y.type = t2 /\ y.value = v2
  BY FieldIsWireField
<1>3. PICK z \in WireField : z = Field(t3, v3) /\ z.type = t3 /\ z.value = v3
  BY FieldIsWireField
<1>4. PICK w \in WireField : w = Field(t4, v4) /\ w.type = t4 /\ w.value = v4
  BY FieldIsWireField
<1>5. PICK fs : fs = <<x, y, z, w>>
  OBVIOUS
<1>6. fs \in Seq(WireField) /\ Len(fs) = 4 /\ fs[1] = x /\ fs[2] = y /\ fs[3] = z /\ fs[4] = w
  BY <1>5
<1>7. \A q \in 1 .. Len(fs) : q = 1 \/ q = 2 \/ q = 3 \/ q = 4
  BY <1>6
<1>8. SaysOnce(b, fs)
  <2>1. \A j, k \in 1 .. Len(fs) : fs[j].type = fs[k].type => j = k
    BY <1>1, <1>2, <1>3, <1>4, <1>6, <1>7
  <2> QED BY <1>1, <1>2, <1>3, <1>4, <1>5, <1>6, <2>1, BodySaysOnce
<1>9. 1 \in 1 .. Len(fs) /\ 2 \in 1 .. Len(fs) /\ 3 \in 1 .. Len(fs) /\ 4 \in 1 .. Len(fs)
  BY <1>6
<1>10. \A q \in 1 .. Len(fs) : ValuesOf(fs, fs[q].type) = <<fs[q].value>>
  BY <1>8 DEF SaysOnce
<1>11. ValuesOf(fs, t1) = <<v1>>
  BY Zenon, <1>1, <1>6, <1>9, <1>10
<1>12. ValuesOf(fs, t2) = <<v2>>
  BY Zenon, <1>2, <1>6, <1>9, <1>10
<1>13. ValuesOf(fs, t3) = <<v3>>
  BY Zenon, <1>3, <1>6, <1>9, <1>10
<1>14. ValuesOf(fs, t4) = <<v4>>
  BY Zenon, <1>4, <1>6, <1>9, <1>10
<1>15. ParseTlvMap(b).ok /\ ParseTlvMap(b).fields = fs
  BY <1>8 DEF SaysOnce
<1> QED
  BY Zenon, <1>11, <1>12, <1>13, <1>14, <1>15 DEF Tells

(* The server reads in r what it is meant to say. *)
Right(r, rows) ==
  LET read == ParseTlvMap(r.body) IN
  read.ok /\ \A m \in Meant(r, rows) : ValuesOf(read.fields, m.field) = m.values

LEMMA Asked ==
  ASSUME NEW kind, NEW to, NEW row, NEW numbers, NEW body, NEW r \in Ask(kind, to, row, numbers, body)
  PROVE  r.kind = kind /\ r.to = to /\ r.row = row /\ r.body = body
BY DEF Ask

LEMMA MeantIs ==
  ASSUME NEW r, NEW rows, NEW row, row = rows[r.row]
  PROVE  /\ r.kind = "login" =>
              Meant(r, rows) = {Says(Username, <<Account.name>>), Says(Password, <<Account.password>>)}
                                 \cup {Says(Nickname, <<>>)}
         /\ r.kind = "register" =>
              Meant(r, rows) = {Says(Username, <<Account.name>>), Says(Password, <<Account.password>>)}
                                 \cup {Says(Nickname, IF Account.nickname = <<>> THEN <<>>
                                                     ELSE <<Account.nickname>>)}
         /\ r.kind = "pull" => Meant(r, rows) = {Says(Limit, <<Uint64(PageLimit)>>)}
         /\ r.kind = "ack" => Meant(r, rows) = {Says(MessageId, [n \in DOMAIN rows |-> rows[n][MessageId]])}
         /\ r.kind = "delivery" => Meant(r, rows) = {Says(MessageId, <<row[MessageId]>>)}
         /\ r.kind = "read" => Meant(r, rows) = {Says(ConversationId, <<row[ConversationId]>>),
                                                Says(MessageId, <<row[MessageId]>>)}
         /\ r.kind = "history" =>
              Meant(r, rows) = {Says(ConversationId, <<row[ConversationId]>>),
                                Says(MessageId, IF row[MessageId] = Uint64(0) THEN <<>>
                                                ELSE <<row[MessageId]>>)}
         /\ r.kind = "newest" => Meant(r, rows) = {Says(ConversationId, <<row[ConversationId]>>),
                                                  Says(MessageId, <<>>)}
         /\ r.kind = "reply" =>
              Meant(r, rows) = {Says(ReceiverId, <<row[SenderId]>>), Says(MessageText, <<ReplyText>>),
                                Says(ClientMessageId, <<ClientId>>)}
         /\ r.kind = "friend" => Meant(r, rows) = {Says(TargetUserId, <<row[FriendId]>>)}
<1>1. ASSUME r.kind = "login"
      PROVE  Meant(r, rows) = {Says(Username, <<Account.name>>), Says(Password, <<Account.password>>)}
                                \cup {Says(Nickname, <<>>)}
  BY Zenon, <1>1 DEF Meant
<1>2. ASSUME r.kind = "register"
      PROVE  Meant(r, rows) = {Says(Username, <<Account.name>>), Says(Password, <<Account.password>>)}
                                 \cup {Says(Nickname, IF Account.nickname = <<>> THEN <<>>
                                                     ELSE <<Account.nickname>>)}
  BY Zenon, <1>2 DEF Meant
<1>3. ASSUME r.kind = "pull" PROVE Meant(r, rows) = {Says(Limit, <<Uint64(PageLimit)>>)}
  BY Zenon, <1>3 DEF Meant
<1>4. ASSUME r.kind = "ack"
      PROVE  Meant(r, rows) = {Says(MessageId, [n \in DOMAIN rows |-> rows[n][MessageId]])}
  BY Zenon, <1>4 DEF Meant
<1>5. ASSUME r.kind = "delivery" PROVE Meant(r, rows) = {Says(MessageId, <<row[MessageId]>>)}
  BY Zenon, <1>5 DEF Meant
<1>6. ASSUME r.kind = "read"
      PROVE  Meant(r, rows) = {Says(ConversationId, <<row[ConversationId]>>),
                               Says(MessageId, <<row[MessageId]>>)}
  BY Zenon, <1>6 DEF Meant
<1>7. ASSUME r.kind = "history"
      PROVE  Meant(r, rows) = {Says(ConversationId, <<row[ConversationId]>>),
                                Says(MessageId, IF row[MessageId] = Uint64(0) THEN <<>>
                                                ELSE <<row[MessageId]>>)}
  BY Zenon, <1>7 DEF Meant
<1>8. ASSUME r.kind = "newest"
      PROVE  Meant(r, rows) = {Says(ConversationId, <<row[ConversationId]>>), Says(MessageId, <<>>)}
  BY Zenon, <1>8 DEF Meant
<1>9. ASSUME r.kind = "reply"
      PROVE  Meant(r, rows) = {Says(ReceiverId, <<row[SenderId]>>), Says(MessageText, <<ReplyText>>),
                               Says(ClientMessageId, <<ClientId>>)}
  BY Zenon, <1>9 DEF Meant
<1>10. ASSUME r.kind = "friend" PROVE Meant(r, rows) = {Says(TargetUserId, <<row[FriendId]>>)}
  BY Zenon, <1>10 DEF Meant
<1> QED
  BY <1>1, <1>2, <1>3, <1>4, <1>5, <1>6, <1>7, <1>8, <1>9, <1>10

(* The numbers of the field types. *)
LEMMA TypesAre ==
  /\ Username = 1 /\ Password = 2 /\ Nickname = 4 /\ TargetUserId = 21
  /\ ConversationType = 40 /\ ConversationId = 41 /\ MessageId = 42 /\ MessageText = 43
  /\ ReceiverId = 45 /\ Limit = 48 /\ ClientMessageId = 51
BY DEF Username, Password, Nickname, TargetUserId, ConversationType, ConversationId, MessageId,
       MessageText, ReceiverId, Limit, ClientMessageId

LEMMA Joined ==
  /\ \A x, y : <<x, y>> \o <<>> = <<x, y>>
  /\ \A x, y, z : <<x, y>> \o <<z>> = <<x, y, z>>
  /\ \A x, y, z, w : <<x, y, z>> \o <<w>> = <<x, y, z, w>>
<1>1. \A x, y : <<x, y>> \o <<>> = <<x, y>>
  OBVIOUS
<1>2. ASSUME NEW x, NEW y, NEW z PROVE <<x, y>> \o <<z>> = <<x, y, z>>
  <2>1. <<x, y>> \in Seq({x, y, z}) /\ <<z>> \in Seq({x, y, z}) /\ <<x, y, z>> \in Seq({x, y, z})
    OBVIOUS
  <2>2. PICK s \in Seq({x, y, z}) : s = <<x, y>> \o <<z>>
    BY ONLY <2>1, CellsConcat
  <2>3. Len(s) = 3 /\ s[1] = x /\ s[2] = y /\ s[3] = z
    BY <2>2
  <2>4. \A k \in 1 .. 3 : s[k] = <<x, y, z>>[k]
    BY <2>3
  <2> QED BY <2>1, <2>2, <2>3, <2>4, SeqEqual
<1>3. ASSUME NEW x, NEW y, NEW z, NEW w PROVE <<x, y, z>> \o <<w>> = <<x, y, z, w>>
  <2>1. /\ <<x, y, z>> \in Seq({x, y, z, w}) /\ <<w>> \in Seq({x, y, z, w})
        /\ <<x, y, z, w>> \in Seq({x, y, z, w})
    OBVIOUS
  <2>2. PICK s \in Seq({x, y, z, w}) : s = <<x, y, z>> \o <<w>>
    BY ONLY <2>1, CellsConcat
  <2>3. Len(s) = 4 /\ s[1] = x /\ s[2] = y /\ s[3] = z /\ s[4] = w
    BY <2>2
  <2>4. \A k \in 1 .. 4 : s[k] = <<x, y, z, w>>[k]
    BY <2>3
  <2> QED BY <2>1, <2>2, <2>3, <2>4, SeqEqual
<1> QED
  BY <1>1, <1>2, <1>3

LEMMA RightIs ==
  ASSUME NEW r, NEW rows, Meant(r, rows) # {},
         \A m \in Meant(r, rows) : Tells(r.body, m.field, m.values)
  PROVE  Right(r, rows)
BY DEF Right, Tells

LEMMA HelloIsRight == \A r \in Hello : \A rows : Right(r, rows)
<1> SUFFICES ASSUME NEW r \in Hello, NEW rows PROVE Right(r, rows)
  OBVIOUS
<1>1. Account.name \in Text /\ Account.password \in Text /\ Account.nickname \in Text
  BY RequestAssumption DEF Text
<1>2. PICK name \in Text : name = Account.name
  BY <1>1
<1>3. PICK password \in Text : password = Account.password
  BY <1>1
<1>4. PICK nickname \in Text : nickname = Account.nickname
  BY <1>1
<1>5. PICK b : b = r.body
  OBVIOUS
<1>6. Username \in Nat /\ Password \in Nat /\ Nickname \in Nat
      /\ Username # Password /\ Username # Nickname /\ Password # Nickname
  BY TypesAre
<1> DEFINE login == <<Field(Username, name), Field(Password, password)>>
           says  == {Says(Username, <<name>>), Says(Password, <<password>>)}
<1>7. ASSUME b = Body(login)
      PROVE  Tells(b, Username, <<name>>) /\ Tells(b, Password, <<password>>) /\ Tells(b, Nickname, <<>>)
  <2>1. b = Body(<<Field(Username, name), Field(Password, password)>>)
    BY <1>7
  <2> HIDE DEF login, says
  <2> QED BY <1>6, <2>1, TwoFieldsSay
<1>8. ASSUME r \in Ask("login", 0, 0, {}, LoginBody(Account.name, Account.password))
      PROVE  Right(r, rows)
  <2>1. r.kind = "login" /\ b = Body(login)
    BY <1>2, <1>3, <1>5, <1>8, Asked DEF LoginBody, LoginFields
  <2>2. Meant(r, rows) = says \cup {Says(Nickname, <<>>)}
    BY <1>2, <1>3, <2>1, MeantIs
  <2> QED
    <3>1. \A m \in Meant(r, rows) : Tells(r.body, m.field, m.values)
      BY <1>5, <1>7, <2>1, <2>2 DEF Says
    <3>2. Meant(r, rows) # {}
      BY <1>5, <1>7, <2>1, <2>2
    <3> QED BY <3>1, <3>2, RightIs
<1>9. ASSUME r \in Ask("register", 0, 0, {},
                      RegisterBody(Account.name, Account.password, Account.nickname))
      PROVE  Right(r, rows)
  <2>1. /\ r.kind = "register"
        /\ b = Body(login \o (IF nickname = <<>> THEN <<>> ELSE <<Field(Nickname, nickname)>>))
    BY <1>2, <1>3, <1>4, <1>5, <1>9, Asked DEF RegisterBody, LoginFields
  <2>2. Meant(r, rows) = says \cup {Says(Nickname, IF nickname = <<>> THEN <<>> ELSE <<nickname>>)}
    BY <1>2, <1>3, <1>4, <2>1, MeantIs
  <2>3. CASE nickname = <<>>
    <3>1. b = Body(login)
      BY <2>1, <2>3, Joined
    <3> QED
      <4>1. \A m \in Meant(r, rows) : Tells(r.body, m.field, m.values)
        BY <1>5, <1>7, <2>2, <2>3, <3>1 DEF Says
      <4>2. Meant(r, rows) # {}
        BY <1>5, <1>7, <2>2, <2>3, <3>1
      <4> QED BY <4>1, <4>2, RightIs
  <2>4. CASE nickname # <<>>
    <3>1. b = Body(<<Field(Username, name), Field(Password, password), Field(Nickname, nickname)>>)
      BY <2>1, <2>4, Joined
    <3>2. /\ Tells(b, Username, <<name>>) /\ Tells(b, Password, <<password>>)
          /\ Tells(b, Nickname, <<nickname>>)
      BY <1>6, <3>1, ThreeFieldsSay
    <3> QED
      <4>1. \A m \in Meant(r, rows) : Tells(r.body, m.field, m.values)
        BY <1>5, <2>2, <2>4, <3>2 DEF Says
      <4>2. Meant(r, rows) # {}
        BY <1>5, <2>2, <2>4, <3>2
      <4> QED BY <4>1, <4>2, RightIs
  <2> QED BY <2>3, <2>4
<1>10. ASSUME r \in Ask("pull", 0, 0, {}, OfflineRequestBody(PageLimit)) PROVE Right(r, rows)
  <2>1. PICK limit \in Text : limit = Uint64(PageLimit)
    BY NumbersAreTexts, RequestAssumption
  <2>2. r.kind = "pull" /\ b = Body(<<Field(Limit, limit)>>)
    BY <1>5, <1>10, <2>1, Asked DEF OfflineRequestBody, IdField
  <2>3. Tells(b, Limit, <<limit>>)
    BY <2>2, TypesAre, OneFieldSays
  <2>4. Meant(r, rows) = {Says(Limit, <<limit>>)}
    BY <2>1, <2>2, MeantIs
  <2> QED
    <3>1. \A m \in Meant(r, rows) : Tells(r.body, m.field, m.values)
      BY <1>5, <2>3, <2>4 DEF Says
    <3>2. Meant(r, rows) # {}
      BY <1>5, <2>3, <2>4
    <3> QED BY <3>1, <3>2, RightIs
<1> QED
  BY <1>8, <1>9, <1>10 DEF Hello

(* The numbers that are read are those that were written. *)
NumberField(f) == f \notin StringFields /\ f # OnlineStatus

LEMMA NumberIsMeant ==
  ASSUME NEW a \in Answer, NEW read, Found(read, a), NEW n \in DOMAIN read.rows,
         NEW f, f \in DOMAIN read.rows[n], NumberField(f)
  PROVE  /\ read.rows[n][f][1] \in Nat
         /\ a.rows[n][f] = Uint64(read.rows[n][f][1])
<1>1. PICK rows : rows = a.rows
  OBVIOUS
<1>2. read.rows # <<>>
  BY EmptySeq
<1>3. read.rows = Meaning(a) /\ LegibleRows(rows)
  BY <1>1, <1>2 DEF Found
<1>4. n \in DOMAIN rows
  BY <1>1, <1>3 DEF Meaning
<1>5. read.rows[n] = [g \in DOMAIN rows[n] |->
                        IF g = OnlineStatus THEN Uint64(IF rows[n][g][1] = 0 THEN 0 ELSE 1)
                        ELSE rows[n][g]]
  BY <1>1, <1>3, <1>4 DEF Meaning
<1>6. f \in DOMAIN rows[n] /\ read.rows[n][f] = rows[n][f]
  <2>1. f \in DOMAIN rows[n]
    BY Zenon, <1>5
  <2>2. f # OnlineStatus
    BY DEF NumberField
  <2> QED BY <1>5, <2>1, <2>2
<1>7. WireRows(rows)
  <2>1. PICK p : p = OnWire(PacketOf(a))
    OBVIOUS
  <2> QED BY <1>1, <2>1, AnswerOnWire
<1>8. rows[n][f] \in Seq(Cell) /\ n \in 1 .. Len(rows)
  BY <1>4, <1>6, <1>7 DEF WireRows, WireRow
<1>9. Len(rows[n][f]) = 1
  <2>1. Legible(f, rows[n][f])
    BY <1>3, <1>6, <1>8 DEF LegibleRows
  <2> QED BY <2>1 DEF Legible, IsUint64, NumberField
<1>10. PICK v \in Seq(Nat) : v = rows[n][f]
  BY <1>8 DEF Cell
<1>11. Len(v) = 1 /\ 1 \in 1 .. Len(v)
  <2>1. Len(v) = 1
    BY Zenon, <1>9, <1>10
  <2> QED BY <2>1
<1>12. v[1] \in Nat
  BY <1>11, ElementOfSeq
<1>13. v = <<v[1]>>
  <2>1. \A k \in 1 .. 1 : v[k] = <<v[1]>>[k]
    OBVIOUS
  <2>2. <<v[1]>> \in Seq(Nat) /\ Len(<<v[1]>>) = 1
    BY <1>12
  <2> QED BY <1>11, <2>1, <2>2, SeqEqual
<1> QED
  BY <1>1, <1>6, <1>10, <1>12, <1>13 DEF Uint64

LEMMA NumberOfRow ==
  ASSUME FrameInv, AnswersAreSent, NEW i \in DOMAIN delivered, NEW n \in DOMAIN Reading(i).rows,
         NEW f, f \in DOMAIN Reading(i).rows[n], NumberField(f)
  PROVE  /\ Number(i, n, f) \in Nat
         /\ answers[i].rows[n][f] = Uint64(Number(i, n, f))
<1>1. answers[i] \in Answer /\ Found(Reading(i), answers[i])
  BY DeliveredIsFound
<1>2. PICK read : read = Reading(i)
  OBVIOUS
<1>3. Found(read, answers[i]) /\ n \in DOMAIN read.rows /\ f \in DOMAIN read.rows[n]
  BY <1>1, <1>2
<1>4. /\ read.rows[n][f][1] \in Nat
      /\ answers[i].rows[n][f] = Uint64(read.rows[n][f][1])
  BY <1>1, <1>3, NumberIsMeant
<1> QED
  BY <1>2, <1>4 DEF Number

(* A body that is one field. *)
LEMMA OneFieldIsRight ==
  ASSUME NEW r, NEW rows, NEW t \in Nat, NEW v \in Text, r.body = Body(<<Field(t, v)>>),
         Meant(r, rows) = {Says(t, <<v>>)}
  PROVE  Right(r, rows)
<1>1. PICK b : b = r.body
  OBVIOUS
<1>2. b = Body(<<Field(t, v)>>)
  BY <1>1
<1>3. Tells(b, t, <<v>>)
  BY <1>2, OneFieldSays
<1>4. \A m \in Meant(r, rows) : Tells(r.body, m.field, m.values)
  BY <1>1, <1>3 DEF Says
<1>5. Meant(r, rows) # {}
  OBVIOUS
<1> QED
  BY <1>4, <1>5, RightIs

(* Requests about a message with the given numbers. *)
LEMMA DeliveryIsRight ==
  ASSUME NEW i, NEW n, NEW rows, NEW id \in Nat, rows[n][MessageId] = Uint64(id),
         NEW r \in Ask("delivery", i, n, {id}, DeliveryAckBody(id))
  PROVE  Right(r, rows)
<1>1. r.kind = "delivery" /\ r.row = n /\ r.body = DeliveryAckBody(id)
  BY Asked
<1>2. PICK v \in Text : v = Uint64(id)
  BY NumbersAreTexts
<1>3. PICK row : row = rows[n]
  OBVIOUS
<1>4. Meant(r, rows) = {Says(MessageId, <<v>>)}
  <2>1. row = rows[r.row]
    BY <1>1, <1>3
  <2>2. Meant(r, rows) = {Says(MessageId, <<row[MessageId]>>)}
    BY Zenon, <1>1, <2>1 DEF Meant
  <2> QED BY <1>2, <1>3, <2>2
<1>5. r.body = Body(<<Field(MessageId, v)>>) /\ MessageId \in Nat
  BY <1>1, <1>2, TypesAre DEF DeliveryAckBody, IdField
<1> QED
  BY <1>4, <1>5, OneFieldIsRight

LEMMA FriendIsRight ==
  ASSUME NEW i, NEW n, NEW rows, NEW id \in Nat, rows[n][FriendId] = Uint64(id),
         NEW r \in Ask("friend", i, n, {id}, FriendActionBody(id))
  PROVE  Right(r, rows)
<1>1. r.kind = "friend" /\ r.row = n /\ r.body = FriendActionBody(id)
  BY Asked
<1>2. PICK v \in Text : v = Uint64(id)
  BY NumbersAreTexts
<1>3. PICK row : row = rows[n]
  OBVIOUS
<1>4. Meant(r, rows) = {Says(TargetUserId, <<v>>)}
  <2>1. row = rows[r.row]
    BY <1>1, <1>3
  <2>2. Meant(r, rows) = {Says(TargetUserId, <<row[FriendId]>>)}
    BY Zenon, <1>1, <2>1 DEF Meant
  <2> QED BY <1>2, <1>3, <2>2
<1>5. r.body = Body(<<Field(TargetUserId, v)>>) /\ TargetUserId \in Nat
  BY <1>1, <1>2, TypesAre DEF FriendActionBody, IdField
<1> QED
  BY <1>4, <1>5, OneFieldIsRight

LEMMA ReadIsRight ==
  ASSUME NEW i, NEW n, NEW rows, NEW id \in Nat, rows[n][MessageId] = Uint64(id),
         NEW conv \in Nat, rows[n][ConversationId] = Uint64(conv),
         NEW r \in Ask("read", i, n, {conv, id}, ReadAckBody(conv, id))
  PROVE  Right(r, rows)
<1>1. r.kind = "read" /\ r.row = n /\ r.body = ReadAckBody(conv, id)
  BY Asked
<1>2. PICK v \in Text : v = Uint64(id)
  BY NumbersAreTexts
<1>3. PICK c \in Text : c = Uint64(conv)
  BY NumbersAreTexts
<1>4. PICK one \in Text : one = Uint64(1)
  BY NumbersAreTexts
<1>5. PICK row : row = rows[n]
  OBVIOUS
<1>6. Meant(r, rows) = {Says(ConversationId, <<c>>), Says(MessageId, <<v>>)}
  <2>1. row = rows[r.row]
    BY <1>1, <1>5
  <2>2. Meant(r, rows) = {Says(ConversationId, <<row[ConversationId]>>), Says(MessageId, <<row[MessageId]>>)}
    BY Zenon, <1>1, <2>1 DEF Meant
  <2> QED BY <1>2, <1>3, <1>5, <2>2
<1>7. PICK b : b = r.body
  OBVIOUS
<1>8. b = Body(<<Field(ConversationType, one), Field(ConversationId, c), Field(MessageId, v)>>)
  BY <1>1, <1>2, <1>3, <1>4, <1>7 DEF ReadAckBody, IdField
<1>9. Tells(b, ConversationId, <<c>>) /\ Tells(b, MessageId, <<v>>)
  <2>1. /\ ConversationType \in Nat /\ ConversationId \in Nat /\ MessageId \in Nat
        /\ ConversationType # ConversationId /\ ConversationType # MessageId
        /\ ConversationId # MessageId
    BY TypesAre
  <2> QED BY <1>8, <2>1, ThreeFieldsSay
<1>10. \A m \in Meant(r, rows) : Tells(r.body, m.field, m.values)
  BY <1>6, <1>7, <1>9 DEF Says
<1>11. Meant(r, rows) # {}
  BY <1>6
<1> QED
  BY <1>10, <1>11, RightIs

LEMMA ReplyIsRight ==
  ASSUME NEW i, NEW n, NEW rows, NEW sender \in Nat, rows[n][SenderId] = Uint64(sender),
         NEW numbers,
         NEW r \in Ask("reply", i, n, numbers, PrivateMessageBody(sender, ReplyText, ClientId))
  PROVE  Right(r, rows)
<1>1. r.kind = "reply" /\ r.row = n /\ r.body = PrivateMessageBody(sender, ReplyText, ClientId)
  BY Asked
<1>2. PICK v \in Text : v = Uint64(sender)
  BY NumbersAreTexts
<1>3. PICK text \in Text : text = ReplyText
  BY RequestAssumption DEF Text
<1>4. PICK client \in Text : client = ClientId
  BY RequestAssumption DEF Text
<1>5. PICK row : row = rows[n]
  OBVIOUS
<1>6. Meant(r, rows) = {Says(ReceiverId, <<v>>), Says(MessageText, <<text>>),
                        Says(ClientMessageId, <<client>>)}
  <2>1. row = rows[r.row]
    BY <1>1, <1>5
  <2>2. Meant(r, rows) = {Says(ReceiverId, <<row[SenderId]>>), Says(MessageText, <<ReplyText>>),
                          Says(ClientMessageId, <<ClientId>>)}
    BY Zenon, <1>1, <2>1 DEF Meant
  <2> QED BY <1>2, <1>3, <1>4, <1>5, <2>2
<1>7. PICK b : b = r.body
  OBVIOUS
<1>8. b = Body(<<Field(ReceiverId, v), Field(MessageText, text), Field(ClientMessageId, client)>>)
  BY <1>1, <1>2, <1>3, <1>4, <1>7 DEF PrivateMessageBody, IdField
<1>9. /\ Tells(b, ReceiverId, <<v>>) /\ Tells(b, MessageText, <<text>>)
      /\ Tells(b, ClientMessageId, <<client>>)
  <2>1. /\ ReceiverId \in Nat /\ MessageText \in Nat /\ ClientMessageId \in Nat
        /\ ReceiverId # MessageText /\ ReceiverId # ClientMessageId
        /\ MessageText # ClientMessageId
    BY TypesAre
  <2> QED BY <1>8, <2>1, ThreeFieldsSay
<1>10. \A m \in Meant(r, rows) : Tells(r.body, m.field, m.values)
  BY <1>6, <1>7, <1>9 DEF Says
<1>11. Meant(r, rows) # {}
  BY <1>6
<1> QED
  BY <1>10, <1>11, RightIs

(* A request for history names a message, or, without one, says none. *)
LEMMA HistorySays ==
  ASSUME NEW type \in Nat, NEW conv \in Nat, NEW before \in Nat,
         NEW c, c = Uint64(conv), NEW v, v = Uint64(before),
         NEW b, b = HistoryRequestBody(type, conv, before, PageLimit)
  PROVE  /\ Tells(b, ConversationId, <<c>>)
         /\ Tells(b, MessageId, IF before = 0 THEN <<>> ELSE <<v>>)
<1>1. PICK t \in Text : t = Uint64(type)
  BY NumbersAreTexts
<1>2. c \in Text /\ v \in Text
  BY NumbersAreTexts
<1>3. PICK limit \in Text : limit = Uint64(PageLimit)
  BY NumbersAreTexts, RequestAssumption
<1>4. /\ ConversationType \in Nat /\ ConversationId \in Nat /\ MessageId \in Nat /\ Limit \in Nat
      /\ ConversationType # ConversationId /\ ConversationType # MessageId
      /\ ConversationType # Limit /\ ConversationId # MessageId /\ ConversationId # Limit
      /\ MessageId # Limit
  BY TypesAre
<1>5. PICK x : x = Field(ConversationType, t)
  OBVIOUS
<1>6. PICK y : y = Field(ConversationId, c)
  OBVIOUS
<1>7. PICK z : z = Field(MessageId, v)
  OBVIOUS
<1>8. PICK w : w = Field(Limit, limit)
  OBVIOUS
<1>9. b = Body(<<x, y>> \o (IF before = 0 THEN <<>> ELSE <<z>>) \o <<w>>)
  BY Zenon, <1>1, <1>3, <1>5, <1>6, <1>7, <1>8 DEF HistoryRequestBody, IdField
<1>10. CASE before = 0
  <2>1. b = Body(<<x, y>> \o <<>> \o <<w>>)
    BY Zenon, <1>9, <1>10
  <2>2. <<x, y>> \o <<>> \o <<w>> = <<x, y, w>>
    BY Zenon, Joined
  <2>3. b = Body(<<Field(ConversationType, t), Field(ConversationId, c), Field(Limit, limit)>>)
    BY Zenon, <1>5, <1>6, <1>8, <2>1, <2>2
  <2>4. Tells(b, ConversationId, <<c>>)
    BY <1>2, <1>4, <2>3, ThreeFieldsSay
  <2>5. Tells(b, MessageId, <<>>)
    BY <1>2, <1>4, <2>3, ThreeFieldsSay
  <2> QED BY <1>10, <2>4, <2>5
<1>11. CASE before # 0
  <2>1. b = Body(<<x, y>> \o <<z>> \o <<w>>)
    BY Zenon, <1>9, <1>11
  <2>2. <<x, y>> \o <<z>> \o <<w>> = <<x, y, z, w>>
    <3>1. <<x, y>> \o <<z>> = <<x, y, z>>
      BY Zenon, Joined
    <3>2. <<x, y, z>> \o <<w>> = <<x, y, z, w>>
      BY Zenon, Joined
    <3> QED BY Zenon, <3>1, <3>2
  <2>3. b = Body(<<Field(ConversationType, t), Field(ConversationId, c), Field(MessageId, v),
                   Field(Limit, limit)>>)
    BY Zenon, <1>5, <1>6, <1>7, <1>8, <2>1, <2>2
  <2>4. Tells(b, ConversationId, <<c>>) /\ Tells(b, MessageId, <<v>>)
    BY <1>2, <1>4, <2>3, FourFieldsSay
  <2> QED BY <1>11, <2>4
<1> QED
  BY <1>10, <1>11

LEMMA HistoryIsRight ==
  ASSUME NEW i, NEW n, NEW rows, NEW id \in Nat, rows[n][MessageId] = Uint64(id),
         NEW conv \in Nat, rows[n][ConversationId] = Uint64(conv), NEW type \in Nat,
         NEW r \in Ask("history", i, n, {type, conv}, HistoryRequestBody(type, conv, id, PageLimit))
  PROVE  Right(r, rows)
<1>1. r.kind = "history" /\ r.row = n /\ r.body = HistoryRequestBody(type, conv, id, PageLimit)
  BY Asked
<1>2. PICK v : v = Uint64(id)
  OBVIOUS
<1>3. PICK c : c = Uint64(conv)
  OBVIOUS
<1>4. PICK b : b = r.body
  OBVIOUS
<1>5. PICK given : given = IF id = 0 THEN <<>> ELSE <<v>>
  OBVIOUS
<1>6. Meant(r, rows) = {Says(ConversationId, <<c>>), Says(MessageId, given)}
  <2>1. Meant(r, rows) = {Says(ConversationId, <<rows[n][ConversationId]>>),
                          Says(MessageId, IF rows[n][MessageId] = Uint64(0) THEN <<>>
                                          ELSE <<rows[n][MessageId]>>)}
    BY Zenon, <1>1 DEF Meant
  <2>2. v = Uint64(0) <=> id = 0
    BY <1>2 DEF Uint64
  <2>3. rows[n][ConversationId] = c /\ rows[n][MessageId] = v
    BY <1>2, <1>3
  <2> QED BY Zenon, <1>5, <2>1, <2>2, <2>3
<1>7. Tells(b, ConversationId, <<c>>) /\ Tells(b, MessageId, given)
  <2>1. b = HistoryRequestBody(type, conv, id, PageLimit)
    BY <1>1, <1>4
  <2>2. /\ Tells(b, ConversationId, <<c>>)
        /\ Tells(b, MessageId, IF id = 0 THEN <<>> ELSE <<v>>)
    BY <1>2, <1>3, <2>1, HistorySays
  <2> QED BY Zenon, <1>5, <2>2
<1>8. \A m \in Meant(r, rows) : Tells(r.body, m.field, m.values)
  BY <1>4, <1>6, <1>7 DEF Says
<1>9. Meant(r, rows) # {}
  BY <1>6
<1> QED
  BY <1>8, <1>9, RightIs

LEMMA NewestIsRight ==
  ASSUME NEW i, NEW n, NEW rows,
         NEW conv \in Nat, rows[n][ConversationId] = Uint64(conv), NEW type \in Nat,
         NEW r \in Ask("newest", i, n, {type, conv}, HistoryRequestBody(type, conv, 0, PageLimit))
  PROVE  Right(r, rows)
<1>1. r.kind = "newest" /\ r.row = n /\ r.body = HistoryRequestBody(type, conv, 0, PageLimit)
  BY Asked
<1>2. PICK c : c = Uint64(conv)
  OBVIOUS
<1>3. PICK b : b = r.body
  OBVIOUS
<1>4. Meant(r, rows) = {Says(ConversationId, <<c>>), Says(MessageId, <<>>)}
  <2>1. Meant(r, rows) = {Says(ConversationId, <<rows[n][ConversationId]>>), Says(MessageId, <<>>)}
    BY Zenon, <1>1 DEF Meant
  <2>2. rows[n][ConversationId] = c
    BY <1>2
  <2> QED BY Zenon, <2>1, <2>2
<1>5. Tells(b, ConversationId, <<c>>) /\ Tells(b, MessageId, <<>>)
  <2>1. PICK before \in Nat : before = 0
    OBVIOUS
  <2>2. b = HistoryRequestBody(type, conv, before, PageLimit)
    BY <1>1, <1>3, <2>1
  <2>3. PICK v : v = Uint64(before)
    OBVIOUS
  <2>4. /\ Tells(b, ConversationId, <<c>>)
        /\ Tells(b, MessageId, IF before = 0 THEN <<>> ELSE <<v>>)
    BY <1>2, <2>2, <2>3, HistorySays
  <2> QED BY Zenon, <2>1, <2>4
<1>6. \A m \in Meant(r, rows) : Tells(r.body, m.field, m.values)
  BY <1>3, <1>4, <1>5 DEF Says
<1>7. Meant(r, rows) # {}
  BY <1>4
<1> QED
  BY <1>6, <1>7, RightIs

(* An acknowledgement holds one field for every id, in their order. *)
LEMMA AckIsRight ==
  ASSUME NEW i, NEW rows, NEW ids \in Seq(Nat), NEW numbers,
         DOMAIN rows = DOMAIN ids, \A n \in DOMAIN ids : rows[n][MessageId] = Uint64(ids[n]),
         NEW r \in Ask("ack", i, 0, numbers, OfflineAckBody(ids))
  PROVE  Right(r, rows)
<1>1. r.kind = "ack" /\ r.body = OfflineAckBody(ids)
  BY Asked
<1>2. PICK N \in Nat : N = Len(ids) /\ DOMAIN ids = 1 .. N
  BY LenProperties
<1>3. PICK fs : fs = [k \in 1 .. N |-> IdField(MessageId, ids[k])]
  OBVIOUS
<1>4. \A k \in 1 .. N :
        /\ fs[k] \in WireField /\ fs[k].type = MessageId /\ fs[k].value = Uint64(ids[k])
  <2> SUFFICES ASSUME NEW k \in 1 .. N
               PROVE  /\ fs[k] \in WireField /\ fs[k].type = MessageId
                      /\ fs[k].value = Uint64(ids[k])
    OBVIOUS
  <2>1. ids[k] \in Nat
    BY <1>2, ElementOfSeq
  <2>2. PICK v \in Text : v = Uint64(ids[k])
    BY <2>1, NumbersAreTexts
  <2>3. fs[k] = Field(MessageId, v)
    BY <1>3, <2>2 DEF IdField
  <2>4. MessageId \in Nat
    BY TypesAre
  <2> QED BY <2>2, <2>3, <2>4, FieldIsWireField
<1>5. fs \in Seq(WireField) /\ Len(fs) = N
  <2>1. fs \in [1 .. N -> WireField]
    BY <1>3, <1>4
  <2> QED BY <2>1, SeqDef, LenProperties
<1>6. PICK b : b = r.body
  OBVIOUS
<1>7. b = Body(fs)
  BY <1>1, <1>2, <1>3, <1>6 DEF OfflineAckBody
<1>8. PICK values : values = [k \in 1 .. N |-> fs[k].value]
  OBVIOUS
<1>9. Tells(b, MessageId, values)
  <2>1. ParseTlvMap(b) = [ok |-> TRUE, fields |-> fs]
    BY <1>5, <1>7, ParsedAsWritten
  <2>2. PICK f : f = MessageId
    OBVIOUS
  <2>3. \A q \in 1 .. Len(fs) : fs[q].type = f
    BY <1>4, <1>5, <2>2
  <2>4. ValuesOf(fs, f) = [q \in 1 .. Len(fs) |-> fs[q].value]
    BY <1>5, <2>3, AllValues
  <2>5. ValuesOf(fs, MessageId) = values
    BY Zenon, <1>5, <1>8, <2>2, <2>4
  <2> QED BY <2>1, <2>5 DEF Tells
<1>10. Meant(r, rows) = {Says(MessageId, values)}
  <2>1. Meant(r, rows) = {Says(MessageId, [n \in DOMAIN rows |-> rows[n][MessageId]])}
    BY Zenon, <1>1 DEF Meant
  <2>2. \A k \in 1 .. N : rows[k][MessageId] = fs[k].value
    BY <1>2, <1>4
  <2>3. DOMAIN rows = 1 .. N
    BY <1>2
  <2>4. [n \in DOMAIN rows |-> rows[n][MessageId]] = values
    BY <1>8, <2>2, <2>3
  <2> QED BY Zenon, <2>1, <2>4
<1>11. \A m \in Meant(r, rows) : Tells(r.body, m.field, m.values)
  BY <1>6, <1>9, <1>10 DEF Says
<1>12. Meant(r, rows) # {}
  BY <1>10
<1> QED
  BY <1>11, <1>12, RightIs

(* Every request says what it is meant to. *)
AllRight == \A r \in requests : Right(r, answers[r.to].rows)

LEMMA RightIsMeant == RequestsSayWhatIsMeant <=> AllRight
BY DEF RequestsSayWhatIsMeant, AllRight, Right

LEMMA MessageNumbers ==
  ASSUME NEW f \in {MessageId, ConversationId, ConversationType, SenderId, FriendId}
  PROVE  NumberField(f)
BY DEF NumberField, StringFields, Username, Password, Nickname, MessageText, ClientMessageId,
       OnlineStatus, MessageId, ConversationId, ConversationType, SenderId, FriendId

LEMMA AckStep ==
  ASSUME FrameInv, AnswersAreSent, NEW i \in DOMAIN delivered, AckOffline(i)
  PROVE  AllRight'
<1>1. PICK a \in Answer : /\ a = answers[i] /\ delivered[i] = OnWire(PacketOf(a))
                           /\ Found(Reading(i), a)
  BY DeliveredIsFound
<1>2. PICK read : read = Reading(i)
  OBVIOUS
<1>3. PICK rows : rows = a.rows
  OBVIOUS
<1>4. PICK ids : ids = [n \in DOMAIN read.rows |-> Number(i, n, MessageId)]
  OBVIOUS
<1>5. /\ delivered[i].header.type = OfflineResponse /\ read.rows # <<>>
      /\ requests' = Ask("ack", i, 0, Range(ids), OfflineAckBody(ids)) /\ answers' = answers
  BY <1>2, <1>4 DEF AckOffline, Asks
<1>6. a.type = OfflineResponse /\ WireRows(rows)
  <2>1. PICK p : p = OnWire(PacketOf(a))
    OBVIOUS
  <2>2. p.header.type = a.type /\ WireRows(a.rows)
    BY <2>1, AnswerOnWire
  <2> QED BY <1>1, <1>3, <1>5, <2>1, <2>2
<1>7. read.rows = Meaning(a)
  BY <1>1, <1>2, <1>5 DEF Found
<1>8. DOMAIN read.rows = DOMAIN rows /\ DOMAIN rows = 1 .. Len(rows) /\ Len(rows) \in Nat
  BY <1>3, <1>6, <1>7 DEF Meaning, WireRows
<1>9. ASSUME NEW n \in DOMAIN read.rows
      PROVE  ids[n] \in Nat /\ rows[n][MessageId] = Uint64(ids[n])
  <2>1. MessageId \in DOMAIN rows[n]
    <3>1. KeyOf(a.type) = MessageId
      BY <1>6, FriendTypesAre DEF KeyOf
    <3>2. RowOf(a.type, rows[n])
      BY <1>3, <1>8, <1>9, AnswerAssumption
    <3> QED BY <3>1, <3>2 DEF RowOf
  <2>2. DOMAIN read.rows[n] = DOMAIN rows[n]
    BY <1>3, <1>7, <1>8, <1>9 DEF Meaning
  <2>3. MessageId \in DOMAIN Reading(i).rows[n] /\ n \in DOMAIN Reading(i).rows
    BY <1>2, <1>9, <2>1, <2>2
  <2>4. NumberField(MessageId)
    BY MessageNumbers
  <2>5. /\ Number(i, n, MessageId) \in Nat
        /\ answers[i].rows[n][MessageId] = Uint64(Number(i, n, MessageId))
    BY <2>3, <2>4, NumberOfRow
  <2>6. ids[n] = Number(i, n, MessageId)
    BY <1>4, <1>9
  <2> QED BY <1>1, <1>3, <2>5, <2>6
<1>10. ids \in Seq(Nat) /\ DOMAIN ids = DOMAIN rows
  <2>1. ids \in [1 .. Len(rows) -> Nat]
    BY <1>4, <1>8, <1>9
  <2> QED BY <1>8, <2>1, SeqDef
<1>11. ASSUME NEW r \in requests' PROVE Right(r, answers'[r.to].rows)
  <2>1. r \in Ask("ack", i, 0, Range(ids), OfflineAckBody(ids))
    BY <1>5, <1>11
  <2>2. r.to = i
    BY <2>1, Asked
  <2>3. \A n \in DOMAIN ids : rows[n][MessageId] = Uint64(ids[n])
    BY <1>8, <1>9, <1>10
  <2>4. DOMAIN rows = DOMAIN ids
    BY <1>10
  <2>5. PICK numbers : numbers = Range(ids)
    OBVIOUS
  <2>6. r \in Ask("ack", i, 0, numbers, OfflineAckBody(ids))
    BY <2>1, <2>5
  <2>7. Right(r, rows)
    BY <1>10, <2>3, <2>4, <2>6, AckIsRight
  <2> QED BY <1>1, <1>3, <1>5, <2>2, <2>7
<1> QED
  BY <1>11 DEF AllRight

LEMMA MessageStep ==
  ASSUME FrameInv, AnswersAreSent, NEW i \in DOMAIN delivered,
         NEW n \in DOMAIN Reading(i).rows, AboutMessage(i, n)
  PROVE  AllRight'
<1>1. PICK rows : rows = answers[i].rows
  OBVIOUS
<1>2. MessageFields \subseteq DOMAIN Reading(i).rows[n]
  BY DEF AboutMessage
<1>3. ASSUME NEW f \in {MessageId, ConversationId, ConversationType, SenderId}
      PROVE  Number(i, n, f) \in Nat /\ rows[n][f] = Uint64(Number(i, n, f))
  <2>1. f \in DOMAIN Reading(i).rows[n]
    BY <1>2, <1>3 DEF MessageFields
  <2>2. NumberField(f)
    BY MessageNumbers
  <2> QED BY <1>1, <2>1, <2>2, NumberOfRow
<1>4. PICK id \in Nat : id = Number(i, n, MessageId) /\ rows[n][MessageId] = Uint64(id)
  BY <1>3
<1>5. PICK conv \in Nat : conv = Number(i, n, ConversationId) /\ rows[n][ConversationId] = Uint64(conv)
  BY <1>3
<1>6. PICK type \in Nat : type = Number(i, n, ConversationType)
  BY <1>3
<1>7. PICK sender \in Nat : sender = Number(i, n, SenderId) /\ rows[n][SenderId] = Uint64(sender)
  BY <1>3
<1>8. /\ answers' = answers
      /\ requests' =
           Ask("delivery", i, n, {id}, DeliveryAckBody(id))
             \cup Ask("read", i, n, {conv, id}, ReadAckBody(conv, id))
             \cup Ask("history", i, n, {type, conv}, HistoryRequestBody(type, conv, id, PageLimit))
             \cup Ask("newest", i, n, {type, conv}, HistoryRequestBody(type, conv, 0, PageLimit))
             \cup Ask("reply", i, n, {sender, Len(ReplyText), Len(ClientId)},
                      PrivateMessageBody(sender, ReplyText, ClientId))
  BY <1>4, <1>5, <1>6, <1>7 DEF AboutMessage, Asks
<1>9. ASSUME NEW r \in requests' PROVE Right(r, answers'[r.to].rows)
  <2>1. CASE r \in Ask("delivery", i, n, {id}, DeliveryAckBody(id))
    <3>1. r.to = i
      BY <2>1, Asked
    <3>2. Right(r, rows)
      BY <1>4, <2>1, DeliveryIsRight
    <3> QED BY <1>1, <1>8, <3>1, <3>2
  <2>2. CASE r \in Ask("read", i, n, {conv, id}, ReadAckBody(conv, id))
    <3>1. r.to = i
      BY <2>2, Asked
    <3>2. Right(r, rows)
      BY <1>4, <1>5, <2>2, ReadIsRight
    <3> QED BY <1>1, <1>8, <3>1, <3>2
  <2>3. CASE r \in Ask("history", i, n, {type, conv}, HistoryRequestBody(type, conv, id, PageLimit))
    <3>1. r.to = i
      BY <2>3, Asked
    <3>2. Right(r, rows)
      BY <1>4, <1>5, <2>3, HistoryIsRight
    <3> QED BY <1>1, <1>8, <3>1, <3>2
  <2>4. CASE r \in Ask("newest", i, n, {type, conv}, HistoryRequestBody(type, conv, 0, PageLimit))
    <3>1. r.to = i
      BY <2>4, Asked
    <3>2. Right(r, rows)
      BY <1>5, <2>4, NewestIsRight
    <3> QED BY <1>1, <1>8, <3>1, <3>2
  <2>5. CASE r \in Ask("reply", i, n, {sender, Len(ReplyText), Len(ClientId)},
                       PrivateMessageBody(sender, ReplyText, ClientId))
    <3>1. r.to = i
      BY <2>5, Asked
    <3>2. PICK numbers : numbers = {sender, Len(ReplyText), Len(ClientId)}
      OBVIOUS
    <3>3. r \in Ask("reply", i, n, numbers, PrivateMessageBody(sender, ReplyText, ClientId))
      BY <2>5, <3>2
    <3>4. Right(r, rows)
      BY <1>7, <3>3, ReplyIsRight
    <3> QED BY <1>1, <1>8, <3>1, <3>4
  <2> QED BY <1>8, <1>9, <2>1, <2>2, <2>3, <2>4, <2>5
<1> QED
  BY <1>9 DEF AllRight

LEMMA FriendStep ==
  ASSUME FrameInv, AnswersAreSent, NEW i \in DOMAIN delivered,
         NEW n \in DOMAIN Reading(i).rows, AnswerFriend(i, n)
  PROVE  AllRight'
<1>1. PICK rows : rows = answers[i].rows
  OBVIOUS
<1>2. FriendId \in DOMAIN Reading(i).rows[n]
  BY DEF AnswerFriend, RequestFields, FriendFields
<1>3. NumberField(FriendId)
  BY MessageNumbers
<1>4. PICK id \in Nat : id = Number(i, n, FriendId) /\ rows[n][FriendId] = Uint64(id)
  BY <1>1, <1>2, <1>3, NumberOfRow
<1>5. answers' = answers /\ requests' = Ask("friend", i, n, {id}, FriendActionBody(id))
  BY <1>4 DEF AnswerFriend, Asks
<1>6. ASSUME NEW r \in requests' PROVE Right(r, answers'[r.to].rows)
  <2>1. r \in Ask("friend", i, n, {id}, FriendActionBody(id))
    BY <1>5, <1>6
  <2>2. r.to = i
    BY <2>1, Asked
  <2>3. Right(r, rows)
    BY <1>4, <2>1, FriendIsRight
  <2> QED BY <1>1, <1>5, <2>2, <2>3
<1> QED
  BY <1>6 DEF AllRight

LEMMA RightInit == Init => AllRight
BY HelloIsRight DEF Init, AllRight

LEMMA RightStep == AllRight /\ AnswersAreSent /\ FrameInv /\ [Next]_vars => AllRight'
<1> SUFFICES ASSUME AllRight, AnswersAreSent, FrameInv, [Next]_vars PROVE AllRight'
  OBVIOUS
<1>1. ASSUME requests' = {} PROVE AllRight'
  BY <1>1 DEF AllRight
<1>2. ASSUME NEW a \in Answer, ServerSays(a) PROVE AllRight'
  BY <1>1, <1>2 DEF ServerSays
<1>3. CASE DecoderSteps
  BY <1>1, <1>3 DEF DecoderSteps
<1>4. CASE ReconnectAnew
  BY <1>4, HelloIsRight DEF ReconnectAnew, AllRight
<1>5. ASSUME NEW i \in DOMAIN delivered, AckOffline(i) PROVE AllRight'
  BY <1>5, AckStep
<1>6. ASSUME NEW i \in DOMAIN delivered, NEW n \in DOMAIN Reading(i).rows, AboutMessage(i, n)
      PROVE  AllRight'
  BY <1>6, MessageStep
<1>7. ASSUME NEW i \in DOMAIN delivered, NEW n \in DOMAIN Reading(i).rows, AnswerFriend(i, n)
      PROVE  AllRight'
  BY <1>7, FriendStep
<1>8. CASE UNCHANGED vars
  BY <1>8 DEF vars, AllRight, Right
<1> QED
  BY <1>2, <1>3, <1>4, <1>5, <1>6, <1>7, <1>8 DEF Next

(* Whatever the client asks, and whatever it has read before, the server   *)
(* reads in the request what the client meant, and an acknowledgement, a   *)
(* page of history, a reply or an answer to a friend names the message or  *)
(* the friend the server wrote (builders.py, client.py).                   *)
THEOREM RequestsSayWhatIsMeantSafe == Spec => []RequestsSayWhatIsMeant
<1>1. AllRight => RequestsSayWhatIsMeant
  BY RightIsMeant
<1>2. AllRight /\ AnswersAreSent /\ FrameInv /\ [Next]_vars => AllRight'
  BY RightStep
<1> QED
  BY <1>1, <1>2, RightInit, WireFrames, WireAnswers, PTL DEF Spec
=============================================================================
