---------------------------- MODULE CommonLemmas ----------------------------
(***************************************************************************)
(* Facts on which proofs about several components rest: induction up to a  *)
(* bound, quotients and remainders, and sequences.                         *)
(***************************************************************************)
EXTENDS Integers, Sequences, NaturalsInduction, WellFoundedInduction, TLAPS

(* A non-empty set of naturals has a smallest element.                     *)
LEMMA SmallestOfNat ==
    ASSUME NEW T \in SUBSET Nat, T # {}
    PROVE  \E x \in T : \A y \in T : x <= y
<1>1. \E x \in T : \A y \in T : ~(<<y, x>> \in OpToRel(<, Nat))
  BY WFMin, NatLessThanWellFounded
<1>2. PICK x \in T : \A y \in T : ~(<<y, x>> \in OpToRel(<, Nat))
  BY <1>1
<1>3. ASSUME NEW y \in T PROVE x <= y
  <2>1. x \in Nat /\ y \in Nat
    OBVIOUS
  <2>2. ~(<<y, x>> \in OpToRel(<, Nat))
    BY <1>2
  <2>3. ~(y < x)
    BY <2>1, <2>2 DEF OpToRel
  <2>. QED
    BY <2>1, <2>3
<1>. QED
  BY <1>3

(* A set of naturals with 0 and the successor of each of its elements has  *)
(* every natural up to a bound.                                            *)
LEMMA InductionUpTo ==
    ASSUME NEW n \in Nat, NEW T, 0 \in T, \A k \in 0 .. n - 1 : k \in T => k + 1 \in T
    PROVE  \A k \in 0 .. n : k \in T
<1>. SUFFICES ASSUME NEW j \in 0 .. n, j \notin T PROVE FALSE
  OBVIOUS
<1>. DEFINE U == {k \in Nat : k \in 0 .. n /\ k \notin T}
<1>1. U \in SUBSET Nat /\ j \in U
  OBVIOUS
<1>2. PICK m \in U : \A k \in U : m <= k
  BY <1>1, SmallestOfNat, Zenon
<1>3. m # 0 /\ m \in 1 .. n /\ m \notin T
  OBVIOUS
<1>4. m - 1 \in 0 .. n - 1 /\ (m - 1) + 1 = m
  BY <1>3
<1>5. m - 1 \notin T
  BY <1>3, <1>4
<1>6. m - 1 \in U
  BY <1>4, <1>5
<1>7. m <= m - 1
  BY <1>2, <1>6
<1>. QED
  BY <1>3, <1>7

(* A non-empty set of numbers of an interval has a smallest and a largest  *)
(* element.                                                                *)
LEMMA ExtremesOfInterval ==
    ASSUME NEW a \in Int, NEW b \in Int, NEW P \in SUBSET (a .. b), P # {}
    PROVE  /\ \E x \in P : \A y \in P : x <= y
           /\ \E x \in P : \A y \in P : x >= y
<1>1. \E x \in P : \A y \in P : x <= y
  <2>. DEFINE T == {p - a : p \in P}
  <2>1. T \in SUBSET Nat /\ T # {}
    OBVIOUS
  <2>2. PICK u \in T : \A v \in T : u <= v
    BY <2>1, SmallestOfNat, Zenon
  <2>3. PICK x \in P : u = x - a
    OBVIOUS
  <2>4. ASSUME NEW y \in P PROVE x <= y
    <3>1. x - a <= y - a
      BY <2>2, <2>3
    <3>. QED
      BY <3>1
  <2>. QED
    BY <2>4
<1>2. \E x \in P : \A y \in P : x >= y
  <2>. DEFINE T == {b - p : p \in P}
  <2>1. T \in SUBSET Nat /\ T # {}
    OBVIOUS
  <2>2. PICK u \in T : \A v \in T : u <= v
    BY <2>1, SmallestOfNat, Zenon
  <2>3. PICK x \in P : u = b - x
    OBVIOUS
  <2>4. ASSUME NEW y \in P PROVE x >= y
    <3>1. b - x <= b - y
      BY <2>2, <2>3
    <3>. QED
      BY <3>1
  <2>. QED
    BY <2>4
<1>. QED
  BY <1>1, <1>2
-----------------------------------------------------------------------------
(* A name for %, under which the provers instantiate RemainderOfSum.       *)
Rem(x, c) == x % c

(* Quotient and remainder.                                                 *)
LEMMA Division ==
    ASSUME NEW x \in Nat, NEW c \in Nat \ {0}
    PROVE  x \div c \in Nat /\ x % c \in 0 .. c - 1 /\ x = c * (x \div c) + (x % c)
BY SMT

(* A remainder is determined by any such decomposition.                    *)
LEMMA RemainderUnique ==
    ASSUME NEW x \in Int, NEW q \in Int, NEW c \in Nat \ {0}, NEW r \in 0 .. c - 1, x = c * q + r
    PROVE  x % c = r
BY SMT

(* A positive multiple of c is at least c.                                 *)
LEMMA MultipleIsLarge ==
    ASSUME NEW a \in Int, NEW c \in Nat \ {0}, a > 0
    PROVE  c * a >= c
BY SMT

(* Multiplication distributes over sum and difference.                     *)
LEMMA Distributes ==
    ASSUME NEW a \in Int, NEW b \in Int, NEW c \in Int
    PROVE  /\ c * a \in Int /\ c * b \in Int
           /\ c * (a + b) = c * a + c * b
           /\ c * (a - b) = c * a - c * b
BY SMT

(* Multiplication is associative.                                          *)
LEMMA Associates ==
    ASSUME NEW a \in Int, NEW b \in Int, NEW c \in Int
    PROVE  (c * a) * b = c * (a * b) /\ a * b \in Int
BY SMT

(* Numbers with the same remainder lie at least the divisor apart.         *)
LEMMA SameRemainderApart ==
    ASSUME NEW a \in Nat, NEW b \in Nat, NEW c \in Nat \ {0}, a < b, a % c = b % c
    PROVE  a + c <= b
<1>1. PICK r \in 0 .. c - 1 : r = a % c
  BY SMT
<1>2. PICK p \in Nat : a = c * p + r
  BY <1>1, Division, Zenon
<1>3. PICK q \in Nat : b = c * q + r
  <2>1. r = b % c
    BY <1>1
  <2>. QED
    BY <2>1, Division, Zenon
<1>4. /\ c * (q - p) = c * q - c * p /\ c * p \in Int /\ c * q \in Int
      /\ c * (p - q) = c * p - c * q
  BY Distributes
<1>5. q > p
  <2>1. CASE q = p
    BY <1>2, <1>3, <2>1
  <2>2. CASE p > q
    <3>1. c * (p - q) >= c
      BY <2>2, MultipleIsLarge
    <3>. QED
      BY <1>2, <1>3, <1>4, <3>1
  <2>. QED
    BY <2>1, <2>2
<1>6. c * (q - p) >= c
  BY <1>5, MultipleIsLarge
<1>. QED
  BY <1>2, <1>3, <1>4, <1>6

(* Reducing a number modulo a multiple of c, and adding, does not change   *)
(* the remainder modulo c.                                                 *)
LEMMA RemainderOfSum ==
    ASSUME NEW x \in Nat, NEW k \in Nat, NEW c \in Nat \ {0},
           NEW m \in Nat \ {0}, Rem(m, c) = 0
    PROVE  Rem(Rem(x, m) + k, c) = Rem(x + k, c)
<1>1. PICK s \in Nat : s = x % m
  BY SMT
<1>2. PICK q \in Nat : x = m * q + s
  BY <1>1, Division, Zenon
<1>3. PICK y \in Nat : y = s + k
  BY SMT
<1>4. PICK r \in 0 .. c - 1 : r = y % c
  BY SMT
<1>5. PICK e \in Nat : y = c * e + r
  BY <1>4, Division, Zenon
<1>11. PICK d \in Nat : m = c * d
  <2>1. m % c = 0
    BY DEF Rem
  <2>2. PICK d \in Nat : m = c * d + (m % c)
    BY Division, Zenon
  <2>. QED
    BY <2>1, <2>2
<1>6. PICK f \in Int : f = d * q
  BY SMT
<1>7. m * q = c * f
  BY <1>6, <1>11, Associates
<1>8. c * (f + e) = c * f + c * e /\ c * f \in Int /\ c * e \in Int
  BY Distributes
<1>9. x + k = c * (f + e) + r
  BY <1>2, <1>3, <1>5, <1>7, <1>8
<1>10. (x + k) % c = r
  <2>1. f + e \in Int /\ x + k \in Int
    OBVIOUS
  <2>. QED
    BY <1>9, <2>1, RemainderUnique, Zenon
<1>. QED
  BY <1>1, <1>3, <1>4, <1>10 DEF Rem
-----------------------------------------------------------------------------
(* What being a sequence over S means for its length and elements.         *)
LEMMA SeqElements ==
    ASSUME NEW S, NEW s \in Seq(S)
    PROVE  /\ Len(s) \in Nat
           /\ s \in [1 .. Len(s) -> S]
           /\ DOMAIN s = 1 .. Len(s)
           /\ \A i \in 1 .. Len(s) : s[i] \in S
OBVIOUS

(* Sequences of equal length and equal elements are equal.                 *)
LEMMA SeqExtensional ==
    ASSUME NEW S, NEW s \in Seq(S), NEW t \in Seq(S),
           Len(s) = Len(t), \A i \in 1 .. Len(s) : s[i] = t[i]
    PROVE  s = t
OBVIOUS

(* Only the empty sequence has length zero: an emptied level is the one    *)
(* whose count has come to zero.                                           *)
LEMMA EmptyIffLenZero ==
    ASSUME NEW S, NEW s \in Seq(S)
    PROVE  s = <<>> <=> Len(s) = 0
OBVIOUS

(* A sequence with an element added at its end, elementwise.               *)
LEMMA AppendElements ==
    ASSUME NEW S, NEW s \in Seq(S), NEW e \in S
    PROVE  /\ Append(s, e) \in Seq(S)
           /\ Append(s, e) # <<>>
           /\ Len(Append(s, e)) = Len(s) + 1
           /\ Len(s) + 1 \in 1 .. Len(Append(s, e))
           /\ Append(s, e)[Len(s) + 1] = e
           /\ \A i \in 1 .. Len(s) : i \in 1 .. Len(Append(s, e)) /\ Append(s, e)[i] = s[i]
           /\ \A i \in 1 .. Len(Append(s, e)) : i \in 1 .. Len(s) \/ i = Len(s) + 1
OBVIOUS

(* Concatenation, elementwise.                                             *)
LEMMA ConcatElements ==
    ASSUME NEW S, NEW a \in Seq(S), NEW b \in Seq(S)
    PROVE  /\ a \o b \in Seq(S)
           /\ Len(a \o b) = Len(a) + Len(b)
           /\ \A i \in 1 .. Len(a) : (a \o b)[i] = a[i]
           /\ \A i \in 1 .. Len(b) : (a \o b)[Len(a) + i] = b[i]
OBVIOUS

(* A sequence without its i-th element, as WithoutAt of module OrderBook   *)
(* and RemoveAt of SequencesExt give it.                                   *)
Cut(s, i) == SubSeq(s, 1, i - 1) \o SubSeq(s, i + 1, Len(s))

(* It, elementwise.                                                        *)
LEMMA CutElements ==
    ASSUME NEW S, NEW s \in Seq(S), NEW i \in 1 .. Len(s)
    PROVE  /\ Cut(s, i) \in Seq(S)
           /\ Len(Cut(s, i)) = Len(s) - 1
           /\ \A j \in 1 .. Len(s) - 1 : Cut(s, i)[j] = IF j < i THEN s[j] ELSE s[j + 1]
<1>. DEFINE a == SubSeq(s, 1, i - 1)
            b == SubSeq(s, i + 1, Len(s))
<1>1. /\ a \in Seq(S) /\ Len(a) = i - 1
      /\ \A j \in 1 .. i - 1 : a[j] = s[j]
  OBVIOUS
<1>2. /\ b \in Seq(S) /\ Len(b) = Len(s) - i
      /\ \A j \in 1 .. Len(s) - i : b[j] = s[j + i]
  OBVIOUS
<1>3. Cut(s, i) = a \o b
  BY DEF Cut
<1>. HIDE DEF a, b
<1>4. /\ a \o b \in Seq(S)
      /\ Len(a \o b) = Len(a) + Len(b)
      /\ \A j \in 1 .. Len(a) : (a \o b)[j] = a[j]
      /\ \A j \in 1 .. Len(b) : (a \o b)[Len(a) + j] = b[j]
  <2>1. a \in Seq(S) /\ b \in Seq(S)
    BY <1>1, <1>2
  <2>. QED
    BY <2>1, ConcatElements
<1>5. ASSUME NEW j \in 1 .. Len(s) - 1
      PROVE  (a \o b)[j] = IF j < i THEN s[j] ELSE s[j + 1]
  <2>1. CASE j < i
    BY <1>1, <1>4, <2>1
  <2>2. CASE j >= i
    <3>1. PICK k \in 1 .. Len(s) - i : k = j - (i - 1)
      BY <2>2
    <3>2. (a \o b)[Len(a) + k] = s[k + i]
      BY <1>2, <1>4, <3>1
    <3>3. Len(a) + k = j /\ k + i = j + 1 /\ ~(j < i)
      BY <1>1, <2>2, <3>1
    <3>. QED
      BY <3>2, <3>3
  <2>3. j < i \/ j >= i
    OBVIOUS
  <2>. QED
    BY <2>1, <2>2, <2>3, Zenon
<1>. QED
  BY <1>1, <1>2, <1>3, <1>4, <1>5

(* No element of s comes twice.                                            *)
Distinct(s) == \A j, k \in 1 .. Len(s) : s[j] = s[k] => j = k

(* A sequence of distinct numbers below n has no more than n of them.      *)
DistinctFit(n) == \A s \in Seq(0 .. n - 1) : Distinct(s) => Len(s) <= n

(* A sequence is one over every set that holds its elements.               *)
LEMMA SeqOver ==
    ASSUME NEW S, NEW T, NEW s \in Seq(S), \A i \in 1 .. Len(s) : s[i] \in T
    PROVE  s \in Seq(T)
OBVIOUS

(* What is left of distinct elements is distinct, and the one left out is  *)
(* not among it.                                                           *)
LEMMA CutDistinct ==
    ASSUME NEW S, NEW s \in Seq(S), Distinct(s), NEW i \in 1 .. Len(s)
    PROVE  Distinct(Cut(s, i)) /\ \A j \in 1 .. Len(s) - 1 : Cut(s, i)[j] # s[i]
<1>. DEFINE At(j) == IF j < i THEN j ELSE j + 1
<1>1. /\ Len(Cut(s, i)) = Len(s) - 1 /\ Len(s) \in Nat
      /\ \A j \in 1 .. Len(s) - 1 : Cut(s, i)[j] = s[At(j)]
  BY CutElements, SeqElements
<1>2. \A j \in 1 .. Len(s) - 1 : At(j) \in 1 .. Len(s) /\ At(j) # i
  BY <1>1
<1>3. \A j, k \in 1 .. Len(s) - 1 : At(j) = At(k) => j = k
  BY <1>1
<1>. HIDE DEF At
<1>4. ASSUME NEW j \in 1 .. Len(s) - 1, NEW k \in 1 .. Len(s) - 1, Cut(s, i)[j] = Cut(s, i)[k]
      PROVE  j = k
  <2>1. s[At(j)] = s[At(k)]
    BY <1>1, <1>4, Zenon
  <2>2. At(j) = At(k)
    BY <1>2, <2>1 DEF Distinct
  <2>. QED
    BY <1>3, <2>2
<1>5. ASSUME NEW j \in 1 .. Len(s) - 1 PROVE Cut(s, i)[j] # s[i]
  BY <1>1, <1>2 DEF Distinct
<1>. QED
  BY <1>1, <1>4, <1>5 DEF Distinct

(* The pigeonhole principle.                                               *)
LEMMA Pigeonhole == \A n \in Nat : DistinctFit(n)
<1>. DEFINE T == {m \in Nat : DistinctFit(m)}
<1>1. 0 \in T
  <2>1. ASSUME NEW s \in Seq(0 .. 0 - 1) PROVE Len(s) <= 0
    <3>1. Len(s) \in Nat /\ \A i \in 1 .. Len(s) : s[i] \in 0 .. 0 - 1
      BY SeqElements
    <3>. QED
      BY <3>1
  <2>. QED
    BY <2>1 DEF DistinctFit
<1>2. ASSUME NEW m \in Nat, m \in T PROVE m + 1 \in T
  <2>. SUFFICES ASSUME NEW s \in Seq(0 .. (m + 1) - 1), Distinct(s) PROVE Len(s) <= m + 1
    BY DEF DistinctFit
  <2>1. Len(s) \in Nat /\ \A i \in 1 .. Len(s) : s[i] \in 0 .. m
    BY SeqElements
  <2>2. CASE \A i \in 1 .. Len(s) : s[i] # m
    <3>1. \A i \in 1 .. Len(s) : s[i] \in 0 .. m - 1
      BY <2>1, <2>2
    <3>2. s \in Seq(0 .. m - 1)
      <4>. DEFINE S == 0 .. (m + 1) - 1
                  R == 0 .. m - 1
      <4>1. s \in Seq(S) /\ \A i \in 1 .. Len(s) : s[i] \in R
        BY <3>1
      <4>. HIDE DEF S, R
      <4>2. s \in Seq(R)
        BY <4>1, SeqOver
      <4>. QED
        BY <4>2, Zenon DEF R
    <3>. QED
      BY <1>2, <2>1, <3>2 DEF DistinctFit
  <2>3. CASE \E i \in 1 .. Len(s) : s[i] = m
    <3>1. PICK i \in 1 .. Len(s) : s[i] = m
      BY <2>3
    <3>. DEFINE t == Cut(s, i)
    <3>2. t \in Seq(0 .. (m + 1) - 1) /\ Len(t) = Len(s) - 1
      BY CutElements
    <3>3. Distinct(t) /\ \A j \in 1 .. Len(s) - 1 : t[j] # m
      BY <3>1, CutDistinct
    <3>. HIDE DEF t
    <3>4. \A j \in 1 .. Len(t) : t[j] \in 0 .. (m + 1) - 1
      BY <3>2, SeqElements, Zenon
    <3>5. ASSUME NEW j \in 1 .. Len(t) PROVE t[j] \in 0 .. m - 1
      <4>1. j \in 1 .. Len(s) - 1
        BY <3>2
      <4>2. t[j] # m /\ t[j] \in 0 .. (m + 1) - 1
        BY <3>3, <3>4, <4>1
      <4>3. \A x \in 0 .. (m + 1) - 1 : x # m => x \in 0 .. m - 1
        OBVIOUS
      <4>. QED
        BY <4>2, <4>3
    <3>6. t \in Seq(0 .. m - 1)
      <4>. DEFINE A == 0 .. (m + 1) - 1
                  B == 0 .. m - 1
      <4>1. t \in Seq(A) /\ \A j \in 1 .. Len(t) : t[j] \in B
        BY <3>2, <3>5
      <4>. HIDE DEF A, B
      <4>2. t \in Seq(B)
        BY <4>1, SeqOver
      <4>. QED
        BY <4>2 DEF B
    <3>7. Len(t) <= m
      BY <1>2, <3>3, <3>6 DEF DistinctFit
    <3>. QED
      BY <2>1, <3>2, <3>7
  <2>. QED
    BY <2>2, <2>3
<1>3. ASSUME NEW n \in Nat PROVE n \in T
  <2>1. \A k \in 0 .. n - 1 : k \in T => k + 1 \in T
    BY <1>2
  <2>. HIDE DEF T
  <2>2. \A k \in 0 .. n : k \in T
    BY <1>1, <2>1, InductionUpTo, Zenon
  <2>. QED
    BY <2>2
<1>. QED
  BY <1>3
=============================================================================
