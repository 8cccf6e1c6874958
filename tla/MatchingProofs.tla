--------------------------- MODULE MatchingProofs ---------------------------
(***************************************************************************)
(* The safety of the matching engine for all ids, traders, prices,         *)
(* quantities and arena capacities: the facts MCMatching checks on a small *)
(* instance, from one inductive invariant.  First the invariant of the     *)
(* book and its preservation by insert_order, cancel_order and             *)
(* reduce_front_quantity, then that of the matching loop over it.          *)
(***************************************************************************)
EXTENDS Matching, CommonLemmas, FiniteSetTheorems

(* A non-empty set of prices has a best one on either side: the `CHOOSE`   *)
(* of BestOf, which stands for the first or last key of a BTreeMap, is     *)
(* never vacuous.                                                          *)
LEMMA BestExists ==
    ASSUME NEW s \in Side, NEW P \in SUBSET Prices, P # {}
    PROVE  \E p \in P : \A q \in P : q = p \/ Better(s, p, q)
<1>1. CASE s = "Ask"
  <2>. DEFINE T == {p - MinPrice : p \in P}
  <2>1. T \in SUBSET Nat /\ T # {}
    BY OrdersAssumption DEF Prices
  <2>2. PICK x \in T : \A y \in T : x <= y
    BY <2>1, SmallestOfNat, Zenon
  <2>3. PICK p \in P : x = p - MinPrice
    OBVIOUS
  <2>4. ASSUME NEW q \in P PROVE q = p \/ p < q
    <3>1. q - MinPrice \in T
      OBVIOUS
    <3>2. p - MinPrice <= q - MinPrice
      BY <2>2, <2>3, <3>1
    <3>. QED
      BY <3>2, OrdersAssumption DEF Prices
  <2>. QED
    BY <1>1, <2>4 DEF Better
<1>2. CASE s = "Bid"
  <2>. DEFINE T == {MaxPrice - p : p \in P}
  <2>1. T \in SUBSET Nat /\ T # {}
    BY OrdersAssumption DEF Prices
  <2>2. PICK x \in T : \A y \in T : x <= y
    BY <2>1, SmallestOfNat, Zenon
  <2>3. PICK p \in P : x = MaxPrice - p
    OBVIOUS
  <2>4. ASSUME NEW q \in P PROVE q = p \/ p > q
    <3>1. MaxPrice - q \in T
      OBVIOUS
    <3>2. MaxPrice - p <= MaxPrice - q
      BY <2>2, <2>3, <3>1
    <3>. QED
      BY <3>2, OrdersAssumption DEF Prices
  <2>. QED
    BY <1>2, <2>4 DEF Better
<1>. QED
  BY <1>1, <1>2 DEF Side

(* What BestOf returns.                                                    *)
LEMMA BestOfSet ==
    ASSUME NEW s \in Side, NEW P \in SUBSET Prices
    PROVE  /\ P = {} => BestOf(s, P) = NoPrice
           /\ P # {} => /\ BestOf(s, P) \in P
                        /\ \A q \in P : ~Better(s, q, BestOf(s, P))
<1>1. CASE P = {}
  BY <1>1 DEF BestOf
<1>2. CASE P # {}
  <2>. DEFINE c == CHOOSE p \in P : \A q \in P : q = p \/ Better(s, p, q)
  <2>1. c \in P /\ \A q \in P : q = c \/ Better(s, c, q)
    BY <1>2, BestExists
  <2>2. BestOf(s, P) = c
    BY <1>2 DEF BestOf
  <2>. HIDE DEF c
  <2>3. ASSUME NEW q \in P PROVE ~Better(s, q, c)
    <3>1. q \in Int /\ c \in Int
      BY <2>1, OrdersAssumption DEF Prices
    <3>2. q = c \/ Better(s, c, q)
      BY <2>1
    <3>. QED
      BY <3>1, <3>2 DEF Better
  <2>. QED
    BY <1>2, <2>1, <2>2, <2>3
<1>. QED
  BY <1>1, <1>2

-----------------------------------------------------------------------------
(* The sequence without its i-th element, elementwise.                     *)
LEMMA WithoutAtElements ==
    ASSUME NEW S, NEW q \in Seq(S), NEW i \in 1 .. Len(q)
    PROVE  /\ WithoutAt(q, i) \in Seq(S)
           /\ Len(WithoutAt(q, i)) = Len(q) - 1
           /\ \A j \in 1 .. Len(q) - 1 :
                 WithoutAt(q, i)[j] = IF j < i THEN q[j] ELSE q[j + 1]
BY CutElements, Zenon DEF WithoutAt, Cut

(* The sequence with its i-th element replaced, elementwise.               *)
LEMMA ElementReplaced ==
    ASSUME NEW S, NEW q \in Seq(S), NEW i \in 1 .. Len(q), NEW e \in S
    PROVE  /\ [q EXCEPT ![i] = e] \in Seq(S)
           /\ Len([q EXCEPT ![i] = e]) = Len(q)
           /\ \A j \in 1 .. Len(q) : [q EXCEPT ![i] = e][j] = IF j = i THEN e ELSE q[j]
OBVIOUS

-----------------------------------------------------------------------------
(* The invariant of the book.  The count stays in range only because it is *)
(* the size of the index, and the index shrinks with a removal only        *)
(* because it is exact: none of the conjuncts is inductive alone.          *)
BookInv(b) ==
    /\ b \in Book
    /\ IsFiniteSet(b.index)
    /\ CountIsIndexSizeIn(b)
    /\ BestIsBestIn(b)
    /\ IndexIsExactIn(b)

(* A new engine starts with a book that satisfies the invariant.           *)
LEMMA EmptyBookInv == BookInv(EmptyBook)
<1>1. EmptyBook \in Book
  BY OrdersAssumption DEF EmptyBook, Book
<1>2. IsFiniteSet({}) /\ Cardinality({}) = 0
  BY FS_EmptySet
<1>3. \A s \in Side : Levels(EmptyBook, s) = {}
  BY DEF EmptyBook, Levels
<1>4. BestIsBestIn(EmptyBook)
  BY <1>3, Zenon DEF BestIsBestIn, EmptyBook
<1>5. IndexIsExactIn(EmptyBook)
  BY DEF IndexIsExactIn, OrdersAreIndexed, IndexedOrdersRest, IdsRestOnce, EmptyBook
<1>. QED
  BY <1>1, <1>2, <1>4, <1>5 DEF BookInv, CountIsIndexSizeIn, EmptyBook
-----------------------------------------------------------------------------
(* insert_order                                                            *)

(* An insert touches one level, at its end.                                *)
LEMMA InsertedQueues ==
    ASSUME NEW b \in Book, NEW o \in Order
    PROVE  /\ Inserted(b, o).queue \in [Side -> [Prices -> Seq(Order)]]
           /\ \A s \in Side, p \in Prices :
                 Inserted(b, o).queue[s][p] =
                   IF s = o.side /\ p = o.price THEN Append(b.queue[s][p], o)
                   ELSE b.queue[s][p]
<1>1. o.side \in Side /\ o.price \in Prices /\ b.queue \in [Side -> [Prices -> Seq(Order)]]
  BY Zenon DEF Order, Book
<1>2. Inserted(b, o).queue = [b.queue EXCEPT ![o.side][o.price] = Append(@, o)]
  BY DEF Inserted
<1>3. Append(b.queue[o.side][o.price], o) \in Seq(Order)
  BY <1>1, AppendElements
<1>. QED
  BY <1>1, <1>2, <1>3

(* The orders at rest in c are those of b and, last in its level, o.       *)
OneMore(b, c, o) ==
    /\ \A s \in Side, p \in Prices : \A i \in 1 .. Len(b.queue[s][p]) :
          /\ i \in 1 .. Len(c.queue[s][p])
          /\ c.queue[s][p][i] = b.queue[s][p][i]
    /\ \A s \in Side, p \in Prices : \A i \in 1 .. Len(c.queue[s][p]) :
          \/ /\ i \in 1 .. Len(b.queue[s][p])
             /\ c.queue[s][p][i] = b.queue[s][p][i]
          \/ /\ s = o.side /\ p = o.price
             /\ i = Len(b.queue[o.side][o.price]) + 1
             /\ c.queue[s][p][i] = o
    /\ \E i \in 1 .. Len(c.queue[o.side][o.price]) : c.queue[o.side][o.price][i] = o

(* insert_order appends the order to its level and moves no other.         *)
LEMMA InsertedElements ==
    ASSUME NEW b \in Book, NEW o \in Order
    PROVE  OneMore(b, Inserted(b, o), o)
<1>. DEFINE c == Inserted(b, o)
            old == b.queue[o.side][o.price]
            new == Append(old, o)
<1>1. o.side \in Side /\ o.price \in Prices /\ b.queue \in [Side -> [Prices -> Seq(Order)]]
  BY Zenon DEF Order, Book
<1>2. /\ Len(old) + 1 \in 1 .. Len(new)
      /\ new[Len(old) + 1] = o
      /\ \A i \in 1 .. Len(old) : i \in 1 .. Len(new) /\ new[i] = old[i]
      /\ \A i \in 1 .. Len(new) : i \in 1 .. Len(old) \/ i = Len(old) + 1
  BY <1>1, AppendElements
<1>. HIDE DEF c
<1>3. /\ c.queue[o.side][o.price] = new
      /\ \A s \in Side, p \in Prices : s # o.side \/ p # o.price => c.queue[s][p] = b.queue[s][p]
  <2>1. \A s \in Side, p \in Prices :
           c.queue[s][p] = IF s = o.side /\ p = o.price THEN Append(b.queue[s][p], o)
                           ELSE b.queue[s][p]
    BY InsertedQueues DEF c
  <2>. QED
    BY <1>1, <2>1, Zenon
<1>. HIDE DEF new
<1>4. ASSUME NEW s \in Side, NEW p \in Prices, NEW i \in 1 .. Len(b.queue[s][p])
      PROVE  i \in 1 .. Len(c.queue[s][p]) /\ c.queue[s][p][i] = b.queue[s][p][i]
  <2>1. CASE s = o.side /\ p = o.price
    BY <1>2, <1>3, <2>1, Zenon
  <2>2. CASE s # o.side \/ p # o.price
    BY <1>3, <2>2, Zenon
  <2>. QED
    BY <2>1, <2>2
<1>5. ASSUME NEW s \in Side, NEW p \in Prices, NEW i \in 1 .. Len(c.queue[s][p])
      PROVE  \/ i \in 1 .. Len(b.queue[s][p]) /\ c.queue[s][p][i] = b.queue[s][p][i]
             \/ s = o.side /\ p = o.price /\ i = Len(old) + 1 /\ c.queue[s][p][i] = o
  <2>1. CASE s = o.side /\ p = o.price
    <3>1. i \in 1 .. Len(new) /\ c.queue[s][p] = new /\ b.queue[s][p] = old
      BY <1>3, <2>1
    <3>. QED
      BY <1>2, <2>1, <3>1, Zenon
  <2>2. CASE s # o.side \/ p # o.price
    <3>1. c.queue[s][p] = b.queue[s][p]
      BY <1>3, <2>2
    <3>. QED
      BY <3>1
  <2>. QED
    BY <2>1, <2>2
<1>6. /\ Len(old) + 1 \in 1 .. Len(c.queue[o.side][o.price])
      /\ c.queue[o.side][o.price][Len(old) + 1] = o
  BY <1>2, <1>3, Zenon
<1>7. OneMore(b, c, o)
  BY <1>4, <1>5, <1>6, Zenon DEF OneMore
<1>. QED
  BY <1>7 DEF c

(* The keys of the maps after an insert.                                   *)
LEMMA InsertedLevels ==
    ASSUME NEW b \in Book, NEW o \in Order, NEW s \in Side
    PROVE  Levels(Inserted(b, o), s) =
             IF s = o.side THEN Levels(b, s) \cup {o.price} ELSE Levels(b, s)
<1>1. o.side \in Side /\ o.price \in Prices /\ b.queue \in [Side -> [Prices -> Seq(Order)]]
  BY Zenon DEF Order, Book
<1>2. Append(b.queue[o.side][o.price], o) # <<>>
  BY <1>1, AppendElements
<1>3. \A p \in Prices : Inserted(b, o).queue[s][p] # <<>> <=>
         b.queue[s][p] # <<>> \/ (s = o.side /\ p = o.price)
  <2>1. \A p \in Prices : Inserted(b, o).queue[s][p] =
           IF s = o.side /\ p = o.price THEN Append(b.queue[s][p], o) ELSE b.queue[s][p]
    BY InsertedQueues
  <2>. QED
    BY <1>2, <2>1, Zenon
<1>. QED
  BY <1>1, <1>3 DEF Levels

(* One order more, with a new id, and the id added to the index.           *)
LEMMA OneMoreIndex ==
    ASSUME NEW b, NEW c, NEW o, IndexIsExactIn(b), OneMore(b, c, o),
           o.side \in Side, o.price \in Prices,
           o.id \notin b.index, c.index = b.index \cup {o.id}
    PROVE  IndexIsExactIn(c)
<1>1. OrdersAreIndexed(b) /\ IndexedOrdersRest(b) /\ IdsRestOnce(b)
  BY DEF IndexIsExactIn
<1>2. ASSUME NEW s \in Side, NEW p \in Prices, NEW i \in 1 .. Len(c.queue[s][p])
       PROVE  \/ /\ i \in 1 .. Len(b.queue[s][p])
                 /\ c.queue[s][p][i] = b.queue[s][p][i]
              \/ /\ s = o.side /\ p = o.price
                 /\ i = Len(b.queue[o.side][o.price]) + 1
                 /\ c.queue[s][p][i] = o
  BY Zenon DEF OneMore
<1>3. OrdersAreIndexed(c)
  <2>1. SUFFICES ASSUME NEW s \in Side, NEW p \in Prices, NEW i \in 1 .. Len(c.queue[s][p])
                 PROVE  /\ c.queue[s][p][i].id \in c.index
                        /\ c.queue[s][p][i].side = s
                        /\ c.queue[s][p][i].price = p
    BY Zenon DEF OrdersAreIndexed
  <2>2. CASE i \in 1 .. Len(b.queue[s][p]) /\ c.queue[s][p][i] = b.queue[s][p][i]
    <3>1. /\ b.queue[s][p][i].id \in b.index
          /\ b.queue[s][p][i].side = s
          /\ b.queue[s][p][i].price = p
      BY <1>1, <2>2 DEF OrdersAreIndexed
    <3>. QED
      BY <2>2, <3>1
  <2>3. CASE s = o.side /\ p = o.price /\ c.queue[s][p][i] = o
    BY <2>3
  <2>. QED
    BY <1>2, <2>2, <2>3, Zenon
<1>4. IndexedOrdersRest(c)
  <2>1. SUFFICES ASSUME NEW id \in c.index
                 PROVE  \E s \in Side, p \in Prices :
                           \E i \in 1 .. Len(c.queue[s][p]) : c.queue[s][p][i].id = id
    BY DEF IndexedOrdersRest
  <2>2. CASE id = o.id
    <3>1. PICK i \in 1 .. Len(c.queue[o.side][o.price]) : c.queue[o.side][o.price][i] = o
      BY Zenon DEF OneMore
    <3>2. c.queue[o.side][o.price][i].id = id
      BY <2>2, <3>1
    <3>. QED
      BY <3>2
  <2>3. CASE id \in b.index
    <3>1. PICK s \in Side, p \in Prices :
             \E i \in 1 .. Len(b.queue[s][p]) : b.queue[s][p][i].id = id
      BY <1>1, <2>3 DEF IndexedOrdersRest
    <3>2. PICK i \in 1 .. Len(b.queue[s][p]) : b.queue[s][p][i].id = id
      BY <3>1
    <3>3. i \in 1 .. Len(c.queue[s][p]) /\ c.queue[s][p][i] = b.queue[s][p][i]
      BY DEF OneMore
    <3>4. c.queue[s][p][i].id = id
      BY <3>2, <3>3
    <3>. QED
      BY <3>3, <3>4, Zenon
  <2>. QED
    BY <2>2, <2>3
<1>5. IdsRestOnce(c)
  <2>1. SUFFICES ASSUME NEW s \in Side, NEW t \in Side, NEW p \in Prices, NEW q \in Prices,
                        NEW i \in 1 .. Len(c.queue[s][p]), NEW j \in 1 .. Len(c.queue[t][q]),
                        c.queue[s][p][i].id = c.queue[t][q][j].id
                 PROVE  s = t /\ p = q /\ i = j
    BY Zenon DEF IdsRestOnce
  <2>2. ASSUME NEW u \in Side, NEW r \in Prices, NEW k \in 1 .. Len(b.queue[u][r])
        PROVE  b.queue[u][r][k].id # o.id
    BY <1>1 DEF OrdersAreIndexed
  <2>3. CASE /\ i \in 1 .. Len(b.queue[s][p]) /\ c.queue[s][p][i] = b.queue[s][p][i]
             /\ j \in 1 .. Len(b.queue[t][q]) /\ c.queue[t][q][j] = b.queue[t][q][j]
    <3>1. b.queue[s][p][i].id = b.queue[t][q][j].id
      BY <2>1, <2>3
    <3>. QED
      BY <1>1, <2>3, <3>1 DEF IdsRestOnce
  <2>4. CASE /\ i \in 1 .. Len(b.queue[s][p]) /\ c.queue[s][p][i] = b.queue[s][p][i]
             /\ c.queue[t][q][j] = o
    <3>1. b.queue[s][p][i].id = o.id
      BY <2>1, <2>4
    <3>. QED
      BY <2>2, <2>4, <3>1
  <2>5. CASE /\ j \in 1 .. Len(b.queue[t][q]) /\ c.queue[t][q][j] = b.queue[t][q][j]
             /\ c.queue[s][p][i] = o
    <3>1. b.queue[t][q][j].id = o.id
      BY <2>1, <2>5
    <3>. QED
      BY <2>2, <2>5, <3>1
  <2>6. \/ i \in 1 .. Len(b.queue[s][p]) /\ c.queue[s][p][i] = b.queue[s][p][i]
        \/ s = o.side /\ p = o.price
           /\ i = Len(b.queue[o.side][o.price]) + 1 /\ c.queue[s][p][i] = o
    BY <1>2
  <2>7. \/ j \in 1 .. Len(b.queue[t][q]) /\ c.queue[t][q][j] = b.queue[t][q][j]
        \/ t = o.side /\ q = o.price
           /\ j = Len(b.queue[o.side][o.price]) + 1 /\ c.queue[t][q][j] = o
    BY <1>2
  <2>. QED
    BY <2>3, <2>4, <2>5, <2>6, <2>7, Zenon
<1>. QED
  BY <1>3, <1>4, <1>5 DEF IndexIsExactIn

(* insert_order preserves the invariant when it succeeds.                  *)
LEMMA InsertedInv ==
    ASSUME NEW b, BookInv(b), NEW o \in Order, InsertCode(b, o) = "Ok"
    PROVE  BookInv(Inserted(b, o))
<1>. DEFINE c == Inserted(b, o)
<1>0. b \in Book
  BY DEF BookInv
<1>1. /\ o.id \in Ids /\ o.side \in Side /\ o.price \in Prices
      /\ b.queue \in [Side -> [Prices -> Seq(Order)]]
      /\ b.best \in [Side -> Prices \cup {NoPrice}]
      /\ b.index \in SUBSET Ids /\ b.count \in 0 .. Capacity
  BY <1>0, Zenon DEF Order, Book
<1>2. o.id \notin b.index /\ b.count # Capacity
  BY DEF InsertCode
<1>3. /\ c.index = b.index \cup {o.id}
      /\ c.count = b.count + 1
      /\ c.best = BestAfterInsert(b, o)
  BY DEF Inserted
<1>4. /\ c.queue \in [Side -> [Prices -> Seq(Order)]]
      /\ \A s \in Side, p \in Prices :
            c.queue[s][p] = IF s = o.side /\ p = o.price THEN Append(b.queue[s][p], o)
                            ELSE b.queue[s][p]
  BY <1>0, InsertedQueues
<1>5. /\ c.best \in [Side -> Prices \cup {NoPrice}]
      /\ \A s \in Side : c.best[s] =
            IF s = o.side /\ (b.best[s] = NoPrice \/ Better(s, o.price, b.best[s]))
            THEN o.price ELSE b.best[s]
  BY <1>1, <1>3 DEF BestAfterInsert
<1>6. c \in Book
  <2>1. c = [queue |-> c.queue, best |-> c.best, index |-> c.index, count |-> c.count]
    BY DEF Inserted
  <2>2. c.count \in 0 .. Capacity
    BY <1>1, <1>2, <1>3, OrdersAssumption
  <2>3. c.index \in SUBSET Ids
    BY <1>1, <1>3
  <2>. HIDE DEF c
  <2>. QED
    BY <2>1, <2>2, <2>3, <1>4, <1>5 DEF Book
<1>7. IsFiniteSet(c.index) /\ CountIsIndexSizeIn(c)
  <2>1. IsFiniteSet(b.index) /\ b.count = Cardinality(b.index)
    BY DEF BookInv, CountIsIndexSizeIn
  <2>2. /\ IsFiniteSet(b.index \cup {o.id})
        /\ Cardinality(b.index \cup {o.id}) = Cardinality(b.index) + 1
    BY <1>2, <2>1, FS_AddElement, Zenon
  <2>. QED
    BY <1>3, <2>1, <2>2 DEF CountIsIndexSizeIn
<1>8. BestIsBestIn(c)
  <2>1. SUFFICES ASSUME NEW s \in Side
                 PROVE  \/ c.best[s] = NoPrice /\ Levels(c, s) = {}
                        \/ /\ c.best[s] \in Levels(c, s)
                           /\ \A p \in Levels(c, s) : ~Better(s, p, c.best[s])
    BY DEF BestIsBestIn
  <2>2. Levels(c, s) = IF s = o.side THEN Levels(b, s) \cup {o.price} ELSE Levels(b, s)
    BY <1>0, InsertedLevels
  <2>3. \/ b.best[s] = NoPrice /\ Levels(b, s) = {}
        \/ /\ b.best[s] \in Levels(b, s)
           /\ \A p \in Levels(b, s) : ~Better(s, p, b.best[s])
    BY DEF BookInv, BestIsBestIn
  <2>4. Levels(b, s) \subseteq Prices
    BY DEF Levels
  <2>5. \A p \in Prices : p \in Int /\ p # NoPrice
    BY OrdersAssumption DEF Prices
  <2>. HIDE DEF c
  <2>6. CASE s # o.side
    BY <1>5, <2>2, <2>3, <2>6
  <2>7. CASE s = o.side
    <3>1. CASE b.best[s] = NoPrice
      BY <1>1, <1>5, <2>2, <2>3, <2>4, <2>5, <2>7, <3>1 DEF Better
    <3>2. CASE b.best[s] # NoPrice
      <4>1. b.best[s] \in Int /\ o.price \in Int /\ \A p \in Levels(b, s) : p \in Int
        BY <1>1, <2>3, <2>4, <2>5, <3>2
      <4>2. c.best[s] = IF Better(s, o.price, b.best[s]) THEN o.price ELSE b.best[s]
        BY <1>5, <2>7, <3>2
      <4>. QED
        BY <2>2, <2>3, <2>7, <3>2, <4>1, <4>2 DEF Better
    <3>. QED
      BY <3>1, <3>2
  <2>. QED
    BY <2>6, <2>7
<1>. HIDE DEF c
<1>9. IndexIsExactIn(c)
  <2>1. OneMore(b, c, o)
    BY <1>0, InsertedElements DEF c
  <2>. QED
    BY <1>1, <1>2, <1>3, <2>1, OneMoreIndex DEF BookInv
<1>. QED
  BY <1>6, <1>7, <1>8, <1>9 DEF BookInv, c
-----------------------------------------------------------------------------
(* cancel_order and reduce_front_quantity                                  *)

(* Where the order at place j of a level of c was in b, when c is b without *)
(* the i-th order of level (s, p).                                         *)
PlaceBefore(s, p, i, t, q, j) == IF s = t /\ p = q /\ j >= i THEN j + 1 ELSE j

(* The orders at rest in c are those of b but for the i-th of level (s, p), *)
(* in the same order.                                                      *)
OneLess(b, c, s, p, i) ==
    /\ \A t \in Side, q \in Prices : \A j \in 1 .. Len(c.queue[t][q]) :
          /\ PlaceBefore(s, p, i, t, q, j) \in 1 .. Len(b.queue[t][q])
          /\ c.queue[t][q][j] = b.queue[t][q][PlaceBefore(s, p, i, t, q, j)]
    /\ \A t \in Side, q \in Prices : \A k \in 1 .. Len(b.queue[t][q]) :
          \/ s = t /\ p = q /\ k = i
          \/ \E j \in 1 .. Len(c.queue[t][q]) : c.queue[t][q][j] = b.queue[t][q][k]

(* One order less, and its id dropped from the index.                      *)
LEMMA OneLessIndex ==
    ASSUME NEW b, NEW c, NEW s \in Side, NEW p \in Prices, NEW i \in 1 .. Len(b.queue[s][p]),
           IndexIsExactIn(b), OneLess(b, c, s, p, i),
           c.index = b.index \ {b.queue[s][p][i].id}
    PROVE  IndexIsExactIn(c)
<1>1. OrdersAreIndexed(b) /\ IndexedOrdersRest(b) /\ IdsRestOnce(b)
  BY DEF IndexIsExactIn
<1>2. ASSUME NEW t \in Side, NEW q \in Prices, NEW j \in 1 .. Len(c.queue[t][q])
      PROVE  /\ PlaceBefore(s, p, i, t, q, j) \in 1 .. Len(b.queue[t][q])
             /\ c.queue[t][q][j] = b.queue[t][q][PlaceBefore(s, p, i, t, q, j)]
  BY DEF OneLess
<1>3. OrdersAreIndexed(c)
  <2>1. SUFFICES ASSUME NEW t \in Side, NEW q \in Prices, NEW j \in 1 .. Len(c.queue[t][q])
                 PROVE  /\ c.queue[t][q][j].id \in c.index
                        /\ c.queue[t][q][j].side = t
                        /\ c.queue[t][q][j].price = q
    BY Zenon DEF OrdersAreIndexed
  <2>. DEFINE k == PlaceBefore(s, p, i, t, q, j)
  <2>2. k \in 1 .. Len(b.queue[t][q]) /\ c.queue[t][q][j] = b.queue[t][q][k]
    BY <1>2
  <2>3. ~(s = t /\ p = q /\ k = i)
    BY DEF PlaceBefore
  <2>. HIDE DEF k
  <2>4. b.queue[t][q][k].id # b.queue[s][p][i].id
    BY <1>1, <2>2, <2>3 DEF IdsRestOnce
  <2>5. /\ b.queue[t][q][k].id \in b.index
        /\ b.queue[t][q][k].side = t
        /\ b.queue[t][q][k].price = q
    BY <1>1, <2>2 DEF OrdersAreIndexed
  <2>. QED
    BY <2>2, <2>4, <2>5, Zenon
<1>4. IndexedOrdersRest(c)
  <2>1. SUFFICES ASSUME NEW id \in c.index
                 PROVE  \E t \in Side, q \in Prices :
                           \E j \in 1 .. Len(c.queue[t][q]) : c.queue[t][q][j].id = id
    BY DEF IndexedOrdersRest
  <2>2. PICK t \in Side, q \in Prices :
           \E k \in 1 .. Len(b.queue[t][q]) : b.queue[t][q][k].id = id
    BY <1>1, Zenon DEF IndexedOrdersRest
  <2>3. PICK k \in 1 .. Len(b.queue[t][q]) : b.queue[t][q][k].id = id
    BY <2>2
  <2>4. ~(s = t /\ p = q /\ k = i)
    BY <2>3
  <2>5. PICK j \in 1 .. Len(c.queue[t][q]) : c.queue[t][q][j] = b.queue[t][q][k]
    BY <2>4 DEF OneLess
  <2>6. c.queue[t][q][j].id = id
    BY <2>3, <2>5
  <2>. QED
    BY <2>6
<1>5. IdsRestOnce(c)
  <2>1. SUFFICES ASSUME NEW t \in Side, NEW u \in Side, NEW q \in Prices, NEW r \in Prices,
                        NEW j \in 1 .. Len(c.queue[t][q]), NEW k \in 1 .. Len(c.queue[u][r]),
                        c.queue[t][q][j].id = c.queue[u][r][k].id
                 PROVE  t = u /\ q = r /\ j = k
    BY DEF IdsRestOnce
  <2>. DEFINE jb == PlaceBefore(s, p, i, t, q, j)
              kb == PlaceBefore(s, p, i, u, r, k)
  <2>2. /\ jb \in 1 .. Len(b.queue[t][q]) /\ c.queue[t][q][j] = b.queue[t][q][jb]
        /\ kb \in 1 .. Len(b.queue[u][r]) /\ c.queue[u][r][k] = b.queue[u][r][kb]
    BY <1>2
  <2>3. t = u /\ q = r /\ jb = kb
    <3>. HIDE DEF jb, kb
    <3>1. b.queue[t][q][jb].id = b.queue[u][r][kb].id
      BY <2>1, <2>2, Zenon
    <3>2. \A x \in 1 .. Len(b.queue[t][q]), y \in 1 .. Len(b.queue[u][r]) :
             b.queue[t][q][x].id = b.queue[u][r][y].id => t = u /\ q = r /\ x = y
      BY <1>1 DEF IdsRestOnce
    <3>. QED
      BY <2>2, <3>1, <3>2, Zenon
  <2>. QED
    BY <2>3 DEF PlaceBefore
<1>. QED
  BY <1>3, <1>4, <1>5 DEF IndexIsExactIn

(* A removal touches one level.                                            *)
LEMMA UnlinkedQueues ==
    ASSUME NEW b \in Book, NEW s \in Side, NEW p \in Prices, NEW i \in 1 .. Len(b.queue[s][p])
    PROVE  /\ Unlinked(b, s, p, i).queue \in [Side -> [Prices -> Seq(Order)]]
           /\ \A t \in Side, q \in Prices :
                 Unlinked(b, s, p, i).queue[t][q] =
                   IF t = s /\ q = p THEN WithoutAt(b.queue[s][p], i) ELSE b.queue[t][q]
<1>1. b.queue \in [Side -> [Prices -> Seq(Order)]]
  BY DEF Book
<1>2. Unlinked(b, s, p, i).queue = [b.queue EXCEPT ![s][p] = WithoutAt(b.queue[s][p], i)]
  BY DEF Unlinked
<1>3. WithoutAt(b.queue[s][p], i) \in Seq(Order)
  <2>1. b.queue[s][p] \in Seq(Order)
    BY <1>1
  <2>. QED
    BY <2>1, WithoutAtElements
<1>. QED
  BY <1>1, <1>2, <1>3

(* The orders that rest after a removal.                                   *)
LEMMA UnlinkedElements ==
    ASSUME NEW b \in Book, NEW s \in Side, NEW p \in Prices, NEW i \in 1 .. Len(b.queue[s][p])
    PROVE  OneLess(b, Unlinked(b, s, p, i), s, p, i)
<1>. DEFINE c == Unlinked(b, s, p, i)
            old == b.queue[s][p]
            new == WithoutAt(old, i)
<1>1. old \in Seq(Order)
  BY DEF Book
<1>2. /\ Len(old) \in Nat
      /\ Len(new) = Len(old) - 1
      /\ \A j \in 1 .. Len(old) - 1 : new[j] = IF j < i THEN old[j] ELSE old[j + 1]
  BY <1>1, WithoutAtElements, SeqElements, Zenon
<1>3. \A t \in Side, q \in Prices :
         c.queue[t][q] = IF t = s /\ q = p THEN new ELSE b.queue[t][q]
  BY UnlinkedQueues
<1>. HIDE DEF c, new, old
<1>4. ASSUME NEW j \in 1 .. Len(new)
      PROVE  LET k == IF j >= i THEN j + 1 ELSE j IN k \in 1 .. Len(old) /\ new[j] = old[k]
  <2>1. i \in Nat /\ j \in 1 .. Len(old) - 1
    BY <1>2 DEF old
  <2>2. CASE j >= i
    BY <1>2, <2>1, <2>2
  <2>3. CASE ~(j >= i)
    BY <1>2, <2>1, <2>3
  <2>. QED
    BY <2>2, <2>3
<1>5. ASSUME NEW k \in 1 .. Len(old), k # i
      PROVE  \E j \in 1 .. Len(new) : new[j] = old[k]
  <2>1. CASE k < i
    <3>1. k \in 1 .. Len(new) /\ new[k] = old[k]
      BY <1>2, <2>1 DEF old
    <3>. QED
      BY <3>1
  <2>2. CASE k > i
    <3>1. k - 1 \in 1 .. Len(new) /\ new[k - 1] = old[k]
      BY <1>2, <2>2 DEF old
    <3>. QED
      BY <3>1
  <2>. QED
    BY <1>5, <2>1, <2>2 DEF old
<1>6. ASSUME NEW t \in Side, NEW q \in Prices, NEW j \in 1 .. Len(c.queue[t][q])
      PROVE  /\ PlaceBefore(s, p, i, t, q, j) \in 1 .. Len(b.queue[t][q])
             /\ c.queue[t][q][j] = b.queue[t][q][PlaceBefore(s, p, i, t, q, j)]
  <2>1. CASE t = s /\ q = p
    <3>1. c.queue[t][q] = new /\ b.queue[t][q] = old
      BY <1>3, <2>1 DEF old
    <3>2. PlaceBefore(s, p, i, t, q, j) = IF j >= i THEN j + 1 ELSE j
      BY <2>1 DEF PlaceBefore
    <3>. QED
      BY <1>4, <3>1, <3>2
  <2>2. CASE ~(t = s /\ q = p)
    <3>1. c.queue[t][q] = b.queue[t][q]
      BY <1>3, <2>2
    <3>2. PlaceBefore(s, p, i, t, q, j) = j
      BY <2>2 DEF PlaceBefore
    <3>. QED
      BY <3>1, <3>2
  <2>. QED
    BY <2>1, <2>2
<1>7. ASSUME NEW t \in Side, NEW q \in Prices, NEW k \in 1 .. Len(b.queue[t][q])
      PROVE  \/ s = t /\ p = q /\ k = i
             \/ \E j \in 1 .. Len(c.queue[t][q]) : c.queue[t][q][j] = b.queue[t][q][k]
  <2>1. CASE t = s /\ q = p
    <3>1. c.queue[t][q] = new /\ b.queue[t][q] = old
      BY <1>3, <2>1 DEF old
    <3>. QED
      BY <1>5, <2>1, <3>1, Zenon
  <2>2. CASE ~(t = s /\ q = p)
    <3>1. c.queue[t][q] = b.queue[t][q]
      BY <1>3, <2>2
    <3>. QED
      BY <3>1
  <2>. QED
    BY <2>1, <2>2
<1>8. OneLess(b, c, s, p, i)
  BY <1>6, <1>7, Zenon DEF OneLess
<1>. QED
  BY <1>8 DEF c

(* A level leaves the map exactly when its last order does.                *)
LEMMA UnlinkedLevels ==
    ASSUME NEW b \in Book, NEW s \in Side, NEW p \in Prices, NEW i \in 1 .. Len(b.queue[s][p]),
           NEW t \in Side
    PROVE  Levels(Unlinked(b, s, p, i), t) =
             IF t = s /\ Len(b.queue[s][p]) = 1 THEN Levels(b, t) \ {p} ELSE Levels(b, t)
<1>. DEFINE c == Unlinked(b, s, p, i)
            old == b.queue[s][p]
            new == WithoutAt(old, i)
<1>1. old \in Seq(Order)
  BY DEF Book
<1>2. new \in Seq(Order) /\ Len(new) = Len(old) - 1 /\ Len(old) \in Nat
  BY <1>1, WithoutAtElements, SeqElements
<1>3. \A q \in Prices : c.queue[t][q] = IF t = s /\ q = p THEN new ELSE b.queue[t][q]
  BY UnlinkedQueues
<1>. HIDE DEF c, new
<1>4. old # <<>> /\ (new # <<>> <=> Len(old) # 1)
  <2>1. /\ old = <<>> <=> Len(old) = 0
        /\ new = <<>> <=> Len(new) = 0
    BY <1>1, <1>2, EmptyIffLenZero, Zenon
  <2>2. Len(old) # 0
    BY <1>2
  <2>. QED
    BY <1>2, <2>1, <2>2
<1>. HIDE DEF old
<1>5. \A q \in Prices : c.queue[t][q] # <<>> <=>
         b.queue[t][q] # <<>> /\ ~(t = s /\ q = p /\ Len(old) = 1)
  <2>1. SUFFICES ASSUME NEW q \in Prices
                 PROVE  c.queue[t][q] # <<>> <=>
                          b.queue[t][q] # <<>> /\ ~(t = s /\ q = p /\ Len(old) = 1)
    OBVIOUS
  <2>2. CASE t = s /\ q = p
    <3>1. c.queue[t][q] = new /\ b.queue[t][q] = old
      BY <1>3, <2>2 DEF old
    <3>. QED
      BY <1>4, <2>2, <3>1
  <2>3. CASE ~(t = s /\ q = p)
    <3>1. c.queue[t][q] = b.queue[t][q]
      BY <1>3, <2>3
    <3>. QED
      BY <2>3, <3>1
  <2>. QED
    BY <2>2, <2>3
<1>6. Levels(c, t) = IF t = s /\ Len(old) = 1 THEN Levels(b, t) \ {p} ELSE Levels(b, t)
  BY <1>5 DEF Levels
<1>. QED
  BY <1>6 DEF c, old

(* A removal, by a cancel or by the fill of a whole maker, preserves the   *)
(* invariant.                                                              *)
LEMMA UnlinkedInv ==
    ASSUME NEW b, BookInv(b), NEW s \in Side, NEW p \in Prices,
           NEW i \in 1 .. Len(b.queue[s][p])
    PROVE  BookInv(Unlinked(b, s, p, i))
<1>. DEFINE c == Unlinked(b, s, p, i)
            id == b.queue[s][p][i].id
<1>0. b \in Book
  BY DEF BookInv
<1>1. /\ b.best \in [Side -> Prices \cup {NoPrice}]
      /\ b.index \in SUBSET Ids /\ b.count \in 0 .. Capacity
  BY <1>0 DEF Book
<1>2. id \in b.index
  BY DEF BookInv, IndexIsExactIn, OrdersAreIndexed
<1>3. /\ c.index = b.index \ {id}
      /\ c.count = b.count - 1
      /\ c.best = IF Len(b.queue[s][p]) = 1
                  THEN [b.best EXCEPT ![s] = BestOf(s, Levels(b, s) \ {p})] ELSE b.best
  BY DEF Unlinked
<1>4. c.queue \in [Side -> [Prices -> Seq(Order)]]
  BY <1>0, UnlinkedQueues
<1>5. ASSUME NEW t \in Side
      PROVE  Levels(c, t) = IF t = s /\ Len(b.queue[s][p]) = 1
                            THEN Levels(b, t) \ {p} ELSE Levels(b, t)
  BY <1>0, UnlinkedLevels
<1>6. IndexIsExactIn(c)
  <2>1. OneLess(b, c, s, p, i)
    BY <1>0, UnlinkedElements
  <2>. HIDE DEF c
  <2>. QED
    BY <1>3, <2>1, OneLessIndex, Zenon DEF BookInv
<1>7. c = [queue |-> c.queue, best |-> c.best, index |-> c.index, count |-> c.count]
  BY DEF Unlinked
<1>. HIDE DEF c, id
<1>8. IsFiniteSet(c.index) /\ CountIsIndexSizeIn(c) /\ c.count \in 0 .. Capacity
  <2>1. IsFiniteSet(b.index) /\ b.count = Cardinality(b.index)
    BY DEF BookInv, CountIsIndexSizeIn
  <2>2. /\ IsFiniteSet(c.index) /\ Cardinality(c.index) = Cardinality(b.index) - 1
        /\ Cardinality(c.index) \in Nat
    BY <1>2, <1>3, <2>1, FS_RemoveElement, FS_CardinalityType
  <2>. QED
    BY <1>1, <1>3, <2>1, <2>2, OrdersAssumption DEF CountIsIndexSizeIn
<1>9. ASSUME NEW t \in Side
      PROVE  \/ b.best[t] = NoPrice /\ Levels(b, t) = {}
             \/ /\ b.best[t] \in Levels(b, t)
                /\ \A q \in Levels(b, t) : ~Better(t, q, b.best[t])
  BY DEF BookInv, BestIsBestIn
<1>10. CASE Len(b.queue[s][p]) # 1
  <2>1. c.best = b.best /\ \A t \in Side : Levels(c, t) = Levels(b, t)
    BY <1>3, <1>5, <1>10
  <2>2. BestIsBestIn(c)
    BY <1>9, <2>1 DEF BestIsBestIn
  <2>3. c \in Book
    BY <1>1, <1>3, <1>4, <1>7, <1>8, <2>1 DEF Book
  <2>. QED
    BY <1>6, <1>8, <2>2, <2>3 DEF BookInv, c
<1>11. CASE Len(b.queue[s][p]) = 1
  <2>. DEFINE P == Levels(b, s) \ {p}
  <2>1. P \in SUBSET Prices
    BY DEF Levels
  <2>2. /\ P = {} => BestOf(s, P) = NoPrice
        /\ P # {} => BestOf(s, P) \in P /\ \A q \in P : ~Better(s, q, BestOf(s, P))
    BY <2>1, BestOfSet, Zenon
  <2>3. c.best = [b.best EXCEPT ![s] = BestOf(s, P)]
    BY <1>3, <1>11
  <2>4. Levels(c, s) = P /\ \A t \in Side : t # s => Levels(c, t) = Levels(b, t)
    BY <1>5, <1>11
  <2>. HIDE DEF P
  <2>5. BestOf(s, P) \in Prices \cup {NoPrice}
    BY <2>1, <2>2
  <2>6. /\ c.best \in [Side -> Prices \cup {NoPrice}]
        /\ c.best[s] = BestOf(s, P)
        /\ \A t \in Side : t # s => c.best[t] = b.best[t]
    BY <1>1, <2>3, <2>5
  <2>7. BestIsBestIn(c)
    <3>1. SUFFICES ASSUME NEW t \in Side
                   PROVE  \/ c.best[t] = NoPrice /\ Levels(c, t) = {}
                          \/ /\ c.best[t] \in Levels(c, t)
                             /\ \A q \in Levels(c, t) : ~Better(t, q, c.best[t])
      BY DEF BestIsBestIn
    <3>2. CASE t = s
      BY <2>2, <2>4, <2>6, <3>2
    <3>3. CASE t # s
      BY <1>9, <2>4, <2>6, <3>3
    <3>. QED
      BY <3>2, <3>3
  <2>8. c \in Book
    BY <1>1, <1>3, <1>4, <1>7, <1>8, <2>6, Zenon DEF Book
  <2>. QED
    BY <1>6, <1>8, <2>7, <2>8 DEF BookInv, c
<1>. QED
  BY <1>10, <1>11
-----------------------------------------------------------------------------
(* The front of a sequence of orders with a new quantity.                  *)
LEMMA FrontQtyWritten ==
    ASSUME NEW old \in Seq(Order), old # <<>>, NEW n \in 1 .. MaxQty
    PROVE  LET new == [old EXCEPT ![1] = [old[1] EXCEPT !.qty = n]]
           IN  /\ new \in Seq(Order)
               /\ Len(new) = Len(old)
               /\ \A i \in 1 .. Len(old) : /\ new[i].id = old[i].id
                                           /\ new[i].side = old[i].side
                                           /\ new[i].price = old[i].price
<1>. DEFINE front == [old[1] EXCEPT !.qty = n]
            new == [old EXCEPT ![1] = front]
<1>1. Len(old) \in Nat /\ 1 \in 1 .. Len(old) /\ \A i \in 1 .. Len(old) : old[i] \in Order
  BY EmptyIffLenZero, SeqElements
<1>2. old[1] \in Order
  BY <1>1
<1>3. /\ front \in Order
      /\ front.id = old[1].id /\ front.side = old[1].side /\ front.price = old[1].price
  BY <1>2 DEF Order
<1>. HIDE DEF front
<1>4. new \in Seq(Order) /\ Len(new) = Len(old) /\ new[1] = front
      /\ \A i \in 1 .. Len(old) : i # 1 => new[i] = old[i]
  BY <1>1, <1>3, ElementReplaced
<1>. HIDE DEF new
<1>5. \A i \in 1 .. Len(old) : /\ new[i].id = old[i].id
                              /\ new[i].side = old[i].side
                              /\ new[i].price = old[i].price
  BY <1>3, <1>4
<1>. QED
  BY <1>4, <1>5 DEF new, front

(* The two books hold the same orders at the same places, quantities apart. *)
SamePlaces(b, c) ==
    /\ c.index = b.index
    /\ \A s \in Side, p \in Prices :
          /\ Len(c.queue[s][p]) = Len(b.queue[s][p])
          /\ \A i \in 1 .. Len(b.queue[s][p]) :
                /\ c.queue[s][p][i].id = b.queue[s][p][i].id
                /\ c.queue[s][p][i].side = b.queue[s][p][i].side
                /\ c.queue[s][p][i].price = b.queue[s][p][i].price

(* A change of quantities alone, a partial fill, leaves the index exact.   *)
LEMMA SamePlacesIndex ==
    ASSUME NEW b, NEW c, IndexIsExactIn(b), SamePlaces(b, c)
    PROVE  IndexIsExactIn(c)
<1>1. OrdersAreIndexed(b) /\ IndexedOrdersRest(b) /\ IdsRestOnce(b)
  BY DEF IndexIsExactIn
<1>2. OrdersAreIndexed(c)
  <2>1. SUFFICES ASSUME NEW s \in Side, NEW p \in Prices, NEW i \in 1 .. Len(c.queue[s][p])
                 PROVE  /\ c.queue[s][p][i].id \in c.index
                        /\ c.queue[s][p][i].side = s
                        /\ c.queue[s][p][i].price = p
    BY DEF OrdersAreIndexed
  <2>2. i \in 1 .. Len(b.queue[s][p])
    BY DEF SamePlaces
  <2>3. /\ b.queue[s][p][i].id \in b.index
        /\ b.queue[s][p][i].side = s
        /\ b.queue[s][p][i].price = p
    BY <1>1, <2>2 DEF OrdersAreIndexed
  <2>. QED
    BY <2>2, <2>3, Zenon DEF SamePlaces
<1>3. IndexedOrdersRest(c)
  <2>1. SUFFICES ASSUME NEW id \in c.index
                 PROVE  \E s \in Side, p \in Prices :
                           \E i \in 1 .. Len(c.queue[s][p]) : c.queue[s][p][i].id = id
    BY DEF IndexedOrdersRest
  <2>2. PICK s \in Side, p \in Prices :
           \E i \in 1 .. Len(b.queue[s][p]) : b.queue[s][p][i].id = id
    BY <1>1 DEF IndexedOrdersRest, SamePlaces
  <2>3. PICK i \in 1 .. Len(b.queue[s][p]) : b.queue[s][p][i].id = id
    BY <2>2
  <2>4. i \in 1 .. Len(c.queue[s][p]) /\ c.queue[s][p][i].id = id
    BY <2>3, Zenon DEF SamePlaces
  <2>. QED
    BY <2>4
<1>4. IdsRestOnce(c)
  <2>1. SUFFICES ASSUME NEW s \in Side, NEW t \in Side, NEW p \in Prices, NEW q \in Prices,
                        NEW i \in 1 .. Len(c.queue[s][p]), NEW j \in 1 .. Len(c.queue[t][q]),
                        c.queue[s][p][i].id = c.queue[t][q][j].id
                 PROVE  s = t /\ p = q /\ i = j
    BY Zenon DEF IdsRestOnce
  <2>2. i \in 1 .. Len(b.queue[s][p]) /\ j \in 1 .. Len(b.queue[t][q])
    BY Zenon DEF SamePlaces
  <2>3. b.queue[s][p][i].id = b.queue[t][q][j].id
    BY <2>1, <2>2, Zenon DEF SamePlaces
  <2>. QED
    BY <1>1, <2>2, <2>3 DEF IdsRestOnce
<1>. QED
  BY <1>2, <1>3, <1>4 DEF IndexIsExactIn

(* What reduce_front_quantity leaves when it succeeds satisfies the        *)
(* invariant, and no level appears.                                        *)
LEMMA ReducedInv ==
    ASSUME NEW b, BookInv(b), NEW s \in Side, NEW p \in Prices, b.queue[s][p] # <<>>,
           NEW n \in 1 .. b.queue[s][p][1].qty
    PROVE  /\ BookInv(Reduced(b, s, p, n))
           /\ \A t \in Side : Levels(Reduced(b, s, p, n), t) \subseteq Levels(b, t)
<1>. DEFINE old == b.queue[s][p]
            new == [old EXCEPT ![1] = [old[1] EXCEPT !.qty = old[1].qty - n]]
<1>1. /\ b \in Book
      /\ b.queue \in [Side -> [Prices -> Seq(Order)]]
      /\ b.best \in [Side -> Prices \cup {NoPrice}]
      /\ b.index \in SUBSET Ids /\ b.count \in 0 .. Capacity
  BY DEF BookInv, Book
<1>2. old \in Seq(Order) /\ old # <<>>
  BY <1>1
<1>3. 1 \in 1 .. Len(old) /\ old[1] \in Order
  <2>. HIDE DEF old
  <2>. QED
    BY <1>2, EmptyIffLenZero, SeqElements
<1>4. old[1].qty \in 1 .. MaxQty
  BY <1>3 DEF Order
<1>5. CASE old[1].qty = n
  <2>1. Reduced(b, s, p, n) = Unlinked(b, s, p, 1)
    BY <1>5 DEF Reduced
  <2>. QED
    BY <1>1, <1>3, <2>1, UnlinkedInv, UnlinkedLevels
<1>6. CASE old[1].qty # n
  <2>. DEFINE c == [b EXCEPT !.queue = [b.queue EXCEPT ![s][p] = new]]
  <2>1. Reduced(b, s, p, n) = c
    BY <1>1, <1>6 DEF Reduced
  <2>2. old[1].qty - n \in 1 .. MaxQty
    <3>1. old[1].qty \in Int /\ n \in 1 .. old[1].qty /\ old[1].qty <= MaxQty
      BY <1>4
    <3>. HIDE DEF old
    <3>. QED
      BY <1>6, <3>1, OrdersAssumption
  <2>. HIDE DEF old
  <2>3. /\ new \in Seq(Order) /\ Len(new) = Len(old)
        /\ \A i \in 1 .. Len(old) : /\ new[i].id = old[i].id
                                    /\ new[i].side = old[i].side
                                    /\ new[i].price = old[i].price
    BY <1>2, <2>2, FrontQtyWritten
  <2>. HIDE DEF new
  <2>4. /\ c.queue = [b.queue EXCEPT ![s][p] = new]
        /\ c.best = b.best /\ c.index = b.index /\ c.count = b.count
    BY <1>1 DEF Book
  <2>5. c \in Book
    BY <1>1, <2>3, Zenon DEF Book
  <2>. HIDE DEF c
  <2>6. \A t \in Side, r \in Prices :
           c.queue[t][r] = IF t = s /\ r = p THEN new ELSE b.queue[t][r]
    BY <1>1, <2>4
  <2>7. SamePlaces(b, c)
    <3>1. SUFFICES ASSUME NEW t \in Side, NEW r \in Prices
                   PROVE  /\ Len(c.queue[t][r]) = Len(b.queue[t][r])
                          /\ \A i \in 1 .. Len(b.queue[t][r]) :
                                /\ c.queue[t][r][i].id = b.queue[t][r][i].id
                                /\ c.queue[t][r][i].side = b.queue[t][r][i].side
                                /\ c.queue[t][r][i].price = b.queue[t][r][i].price
      BY <2>4, Zenon DEF SamePlaces
    <3>2. CASE t = s /\ r = p
      <4>1. c.queue[t][r] = new /\ b.queue[t][r] = old
        BY <2>6, <3>2 DEF old
      <4>. QED
        BY <2>3, <4>1
    <3>3. CASE ~(t = s /\ r = p)
      <4>1. c.queue[t][r] = b.queue[t][r]
        BY <2>6, <3>3
      <4>. QED
        BY <4>1
    <3>. QED
      BY <3>2, <3>3, Zenon
  <2>8. new # <<>>
    BY <1>2, <2>3, EmptyIffLenZero
  <2>9. \A t \in Side : Levels(c, t) = Levels(b, t)
    <3>1. \A t \in Side, r \in Prices : c.queue[t][r] # <<>> <=> b.queue[t][r] # <<>>
      BY <1>2, <2>6, <2>8, Zenon DEF old
    <3>. QED
      BY <3>1 DEF Levels
  <2>10. IndexIsExactIn(c)
    BY <2>7, SamePlacesIndex DEF BookInv
  <2>11. BookInv(c)
    BY <2>4, <2>5, <2>9, <2>10 DEF BookInv, BestIsBestIn, CountIsIndexSizeIn
  <2>. QED
    BY <2>1, <2>9, <2>11
<1>. QED
  BY <1>5, <1>6
-----------------------------------------------------------------------------
(* A taker that has traded and has quantity left found room in the arena:  *)
(* it has emptied a maker's slot.                                          *)
RoomAfterTrade ==
    pc = "match" /\ fills # <<>> /\ taker.qty > 0 => book.count < Capacity

(* A call that runs has no answer yet.                                     *)
PendingWhileMatching == pc = "match" => result.status = "Pending"

(* The inductive invariant.  NotCrossed needs the cached best prices to be *)
(* right when the remainder is put to rest, these need the book to be well *)
(* typed, and its count stays in range only because the index is exact.    *)
MatchInv ==
    /\ MatchTypeOK
    /\ BookInv(book)
    /\ NotCrossed
    /\ PendingWhileMatching
    /\ RoomAfterTrade
    /\ ArenaFullMeansNoTrade
-----------------------------------------------------------------------------
(* The loop of a bid reads the asks, that of an ask the bids.              *)
LEMMA OppositeSides ==
    \A s \in Side : Opposite(s) \in Side /\ Opposite(s) # s /\ Opposite(Opposite(s)) = s
BY DEF Side, Opposite

(* No level appears: the book stays uncrossed.                             *)
LEMMA FewerLevelsNotCrossed ==
    ASSUME NEW b, NEW c, NotCrossedIn(b), \A s \in Side : Levels(c, s) \subseteq Levels(b, s)
    PROVE  NotCrossedIn(c)
BY DEF NotCrossedIn, Side

(* The maker the loop meets is a resting order of the opposite side, and   *)
(* the quantity it trades is positive and within both orders.              *)
LEMMA MakerRests ==
    ASSUME MatchTypeOK, BookInv(book), pc = "match", MeetsMaker
    PROVE  /\ taker \in OrderRequest
           /\ Opposite(taker.side) \in Side
           /\ BestOpposite \in Prices
           /\ book.queue[Opposite(taker.side)][BestOpposite] # <<>>
           /\ Maker \in Order
           /\ FillQty \in 1 .. Maker.qty
           /\ FillQty \in 1 .. taker.qty
           /\ FillQty = taker.qty \/ FillQty = Maker.qty
<1>. DEFINE s == Opposite(taker.side)
            p == BestOpposite
            level == book.queue[s][p]
<1>1. taker \in OrderRequest
  BY DEF MatchTypeOK
<1>2. s \in Side
  BY <1>1, OppositeSides DEF OrderRequest
<1>3. book.queue \in [Side -> [Prices -> Seq(Order)]] /\ book.best \in [Side -> Prices \cup {NoPrice}]
  BY DEF BookInv, Book
<1>4. p \in Prices
  BY <1>2, <1>3 DEF MeetsMaker, BestOpposite
<1>5. level # <<>> /\ taker.qty > 0
  BY DEF MeetsMaker
<1>6. level \in Seq(Order)
  BY <1>2, <1>3, <1>4
<1>7. Maker = level[1]
  BY DEF Maker
<1>. HIDE DEF level, s, p
<1>8. Maker \in Order
  BY <1>5, <1>6, <1>7, EmptyIffLenZero, SeqElements
<1>9. Maker.qty \in 1 .. MaxQty /\ taker.qty \in 0 .. MaxQty
  BY <1>1, <1>8 DEF Order, OrderRequest
<1>10. /\ FillQty \in 1 .. Maker.qty
       /\ FillQty \in 1 .. taker.qty
       /\ FillQty = taker.qty \/ FillQty = Maker.qty
  BY <1>5, <1>9, OrdersAssumption DEF FillQty
<1>. QED
  BY <1>1, <1>2, <1>4, <1>5, <1>8, <1>10 DEF level, s, p

(* An order that crosses nothing on the opposite side can rest: the loop   *)
(* ends with quantity left only when the cached best price says so.        *)
LEMMA RestNotCrossed ==
    ASSUME NEW b, BookInv(b), NotCrossedIn(b), NEW o \in Order,
           \/ b.best[Opposite(o.side)] = NoPrice
           \/ ~Crosses(o, b.best[Opposite(o.side)])
    PROVE  NotCrossedIn(Inserted(b, o))
<1>. DEFINE c == Inserted(b, o)
            t == Opposite(o.side)
<1>1. o.side \in Side /\ o.price \in Int /\ b \in Book /\ t \in Side
  BY OppositeSides, OrdersAssumption DEF Order, Prices, BookInv
<1>2. \A s \in Side : Levels(c, s) =
         IF s = o.side THEN Levels(b, s) \cup {o.price} ELSE Levels(b, s)
  BY <1>1, InsertedLevels
<1>3. \/ b.best[t] = NoPrice /\ Levels(b, t) = {}
      \/ /\ b.best[t] \in Levels(b, t)
         /\ \A q \in Levels(b, t) : ~Better(t, q, b.best[t])
  BY <1>1 DEF BookInv, BestIsBestIn
<1>4. \A s \in Side : \A q \in Levels(b, s) : q \in Int /\ q # NoPrice
  BY OrdersAssumption DEF Levels, Prices
<1>. HIDE DEF c
<1>5. ASSUME NEW q \in Levels(b, t)
      PROVE  IF o.side = "Bid" THEN o.price < q ELSE q < o.price
  <2>1. b.best[t] \in Int /\ b.best[t] # NoPrice /\ ~Better(t, q, b.best[t]) /\ q \in Int
    BY <1>1, <1>3, <1>4
  <2>2. ~Crosses(o, b.best[t])
    BY <2>1
  <2>. HIDE DEF t
  <2>3. t = IF o.side = "Bid" THEN "Ask" ELSE "Bid"
    BY DEF t, Opposite
  <2>. QED
    BY <1>1, <2>1, <2>2, <2>3 DEF Better, Crosses
<1>6. CASE o.side = "Bid"
  <2>1. t = "Ask" /\ Levels(c, "Bid") = Levels(b, "Bid") \cup {o.price}
        /\ Levels(c, "Ask") = Levels(b, "Ask")
    BY <1>2, <1>6 DEF Side, Opposite
  <2>. QED
    BY <1>5, <1>6, <2>1 DEF NotCrossedIn, c
<1>7. CASE o.side = "Ask"
  <2>1. t = "Bid" /\ Levels(c, "Ask") = Levels(b, "Ask") \cup {o.price}
        /\ Levels(c, "Bid") = Levels(b, "Bid")
    BY <1>2, <1>7 DEF Side, Opposite
  <2>. QED
    BY <1>5, <1>7, <2>1 DEF NotCrossedIn, c
<1>. QED
  BY <1>1, <1>6, <1>7 DEF Side
-----------------------------------------------------------------------------
(* The engine starts with an empty book.                                   *)
LEMMA MatchInvInit == MatchInit => MatchInv
<1>. SUFFICES ASSUME MatchInit PROVE MatchInv
  OBVIOUS
<1>1. BookInv(book)
  BY EmptyBookInv DEF MatchInit
<1>2. NotCrossed
  BY DEF MatchInit, NotCrossed, NotCrossedIn, Levels, EmptyBook, Side
<1>3. <<>> \in Seq(Fill)
  OBVIOUS
<1>4. MatchTypeOK
  BY <1>1, <1>3 DEF MatchInit, MatchTypeOK, BookInv, Answer
<1>. QED
  BY <1>1, <1>2, <1>4
  DEF MatchInv, MatchInit, PendingWhileMatching, RoomAfterTrade, ArenaFullMeansNoTrade, Answer

(* An iteration that trades preserves the invariant: the maker is reduced  *)
(* or removed, the taker and the fill stay in range, and a taker with      *)
(* quantity left has freed a slot.                                         *)
LEMMA FillMakerInv ==
    ASSUME MatchInv, FillMaker
    PROVE  MatchInv'
<1>. DEFINE s == Opposite(taker.side)
            p == BestOpposite
            n == FillQty
            f == [taker |-> taker.id, maker |-> Maker.id, price |-> Maker.price,
                  qty |-> n, makerFullyFilled |-> n = Maker.qty]
<1>1. /\ MatchTypeOK /\ BookInv(book) /\ NotCrossedIn(book) /\ PendingWhileMatching
      /\ pc = "match" /\ MeetsMaker
  BY DEF MatchInv, FillMaker, NotCrossed
<1>2. /\ taker \in OrderRequest /\ s \in Side /\ p \in Prices
      /\ book.queue[s][p] # <<>> /\ Maker \in Order /\ Maker = book.queue[s][p][1]
      /\ n \in 1 .. Maker.qty /\ n \in 1 .. taker.qty /\ (n = taker.qty \/ n = Maker.qty)
  BY <1>1, MakerRests DEF Maker
<1>3. /\ book' = Reduced(book, s, p, n) /\ fills' = Append(fills, f)
      /\ taker' = [taker EXCEPT !.qty = @ - n]
      /\ pc' = pc /\ result' = result /\ entry' = entry
  BY DEF FillMaker
<1>. HIDE DEF s, p, n
<1>4. /\ BookInv(book')
      /\ \A t \in Side : Levels(book', t) \subseteq Levels(book, t)
  BY <1>1, <1>2, <1>3, ReducedInv
<1>5. NotCrossed'
  BY <1>1, <1>4, FewerLevelsNotCrossed DEF NotCrossed
<1>6. Maker.qty \in 1 .. MaxQty /\ taker.qty \in 0 .. MaxQty /\ MaxQty \in Int
  BY <1>2, OrdersAssumption DEF Order, OrderRequest
<1>7. f \in Fill
  <2>1. n \in 1 .. MaxQty
    BY <1>2, <1>6
  <2>. QED
    BY <1>2, <2>1 DEF Fill, Order, OrderRequest
<1>. HIDE DEF f
<1>8. fills' \in Seq(Fill)
  BY <1>1, <1>3, <1>7, AppendElements DEF MatchTypeOK
<1>9. taker' \in OrderRequest /\ taker'.qty = taker.qty - n
  <2>1. taker.qty - n \in 0 .. MaxQty
    BY <1>2, <1>6
  <2>. QED
    BY <1>2, <1>3, <2>1 DEF OrderRequest
<1>10. MatchTypeOK'
  BY <1>1, <1>3, <1>4, <1>8, <1>9 DEF MatchTypeOK, BookInv
<1>11. RoomAfterTrade'
  <2>1. SUFFICES ASSUME taker'.qty > 0 PROVE book'.count < Capacity
    BY DEF RoomAfterTrade
  <2>2. n = Maker.qty
    BY <1>2, <1>6, <1>9, <2>1
  <2>3. book' = Unlinked(book, s, p, 1)
    BY <1>2, <1>3, <2>2 DEF Reduced
  <2>4. book'.count = book.count - 1
    BY <2>3 DEF Unlinked
  <2>. QED
    BY <1>1, <2>4, OrdersAssumption DEF BookInv, Book
<1>12. PendingWhileMatching' /\ ArenaFullMeansNoTrade'
  BY <1>1, <1>3 DEF PendingWhileMatching, ArenaFullMeansNoTrade
<1>. QED
  BY <1>4, <1>5, <1>10, <1>11, <1>12 DEF MatchInv

(* add_order ends with a fully filled taker or a prevented self-trade: the *)
(* fills are handed back and the book stays as it is.                      *)
LEMMA ReturnOkInv ==
    ASSUME MatchInv, pc = "match", NEW status \in OrderStatus, ReturnOk(status), UNCHANGED book
    PROVE  MatchInv'
<1>1. MatchTypeOK /\ BookInv(book) /\ NotCrossed
  BY DEF MatchInv
<1>2. /\ pc' = "idle" /\ taker' = NoOrder /\ entry' = EmptyBook /\ fills' = <<>>
      /\ result'.status = status /\ result'.fills = fills
  BY DEF ReturnOk, Return, Answer
<1>3. <<>> \in Seq(Fill)
  OBVIOUS
<1>4. MatchTypeOK'
  BY <1>1, <1>2, <1>3 DEF MatchTypeOK
<1>5. NotCrossed'
  BY <1>1 DEF NotCrossed
<1>. QED
  BY <1>1, <1>2, <1>4, <1>5
  DEF MatchInv, PendingWhileMatching, RoomAfterTrade, ArenaFullMeansNoTrade

(* The remainder is put to rest only when it crosses nothing, so the book  *)
(* stays uncrossed with one order more.                                    *)
LEMMA RestRemainderInv ==
    ASSUME MatchInv, RestRemainder
    PROVE  MatchInv'
<1>. DEFINE status == IF fills = <<>> THEN "Resting" ELSE "PartiallyFilled"
<1>1. /\ MatchTypeOK /\ BookInv(book) /\ NotCrossedIn(book)
      /\ pc = "match" /\ taker.qty > 0 /\ ~MeetsMaker
      /\ InsertCode(book, taker) = "Ok" /\ book' = Inserted(book, taker)
  BY DEF MatchInv, NotCrossed, RestRemainder
<1>2. taker \in Order
  BY <1>1, OrdersAssumption DEF MatchTypeOK, OrderRequest, Order
<1>3. BookInv(book')
  BY <1>1, <1>2, InsertedInv
<1>4. \/ book.best[Opposite(taker.side)] = NoPrice
      \/ ~Crosses(taker, book.best[Opposite(taker.side)])
  <2>1. SUFFICES ASSUME BestOpposite # NoPrice PROVE ~Crosses(taker, BestOpposite)
    BY DEF BestOpposite
  <2>2. Opposite(taker.side) \in Side
    BY <1>2, OppositeSides DEF Order
  <2>3. BestOpposite \in Levels(book, Opposite(taker.side))
    BY <1>1, <2>1, <2>2 DEF BookInv, BestIsBestIn, BestOpposite
  <2>. QED
    BY <1>1, <2>1, <2>3 DEF MeetsMaker, Levels
<1>5. NotCrossed'
  BY <1>1, <1>2, <1>4, RestNotCrossed DEF NotCrossed
<1>6. /\ pc' = "idle" /\ taker' = NoOrder /\ entry' = EmptyBook /\ fills' = <<>>
      /\ result'.status \in OrderStatus /\ result'.fills = fills
  BY DEF RestRemainder, ReturnOk, Return, Answer, OrderStatus
<1>7. <<>> \in Seq(Fill)
  OBVIOUS
<1>8. MatchTypeOK'
  BY <1>1, <1>3, <1>6, <1>7 DEF MatchTypeOK, BookInv
<1>. QED
  BY <1>3, <1>5, <1>6, <1>8
  DEF MatchInv, PendingWhileMatching, RoomAfterTrade, ArenaFullMeansNoTrade

(* insert_order refuses the remainder: a duplicate id, or a full arena, and*)
(* then nothing has traded.                                                *)
LEMMA RefuseRemainderInv ==
    ASSUME MatchInv, RefuseRemainder
    PROVE  MatchInv'
<1>1. /\ MatchTypeOK /\ BookInv(book) /\ NotCrossed /\ RoomAfterTrade
      /\ pc = "match" /\ taker.qty > 0 /\ book' = book /\ fills' = fills
  BY DEF MatchInv, RefuseRemainder, ReturnErr
<1>2. InsertCode(book, taker) \in {"DuplicateOrderId", "ArenaFull"}
  BY DEF RefuseRemainder, InsertCode
<1>3. /\ pc' = "idle" /\ taker' = NoOrder /\ entry' = EmptyBook
      /\ result'.status = InsertCode(book, taker) /\ result'.fills = <<>>
  BY DEF RefuseRemainder, ReturnErr, Return, Answer
<1>4. <<>> \in Seq(Fill)
  OBVIOUS
<1>5. MatchTypeOK'
  BY <1>1, <1>2, <1>3, <1>4 DEF MatchTypeOK, BookErrors
<1>6. ArenaFullMeansNoTrade'
  <2>1. SUFFICES ASSUME InsertCode(book, taker) = "ArenaFull" PROVE fills = <<>>
    BY <1>1, <1>3 DEF ArenaFullMeansNoTrade
  <2>2. book.count = Capacity
    BY <2>1 DEF InsertCode
  <2>. QED
    BY <1>1, <2>2, OrdersAssumption DEF RoomAfterTrade
<1>7. NotCrossed'
  BY <1>1 DEF NotCrossed
<1>. QED
  BY <1>1, <1>3, <1>5, <1>6, <1>7 DEF MatchInv, PendingWhileMatching, RoomAfterTrade

(* cancel_order takes one resting order out of the book.                   *)
LEMMA CancelInv ==
    ASSUME MatchInv, NEW id \in Ids, Cancel(id)
    PROVE  MatchInv'
<1>1. /\ MatchTypeOK /\ BookInv(book) /\ NotCrossedIn(book) /\ pc = "idle"
      /\ book' \in Cancelled(book, id)
      /\ pc' = pc /\ taker' = taker /\ fills' = fills /\ entry' = entry
      /\ result'.status = "Ok" /\ result'.fills = <<>>
  BY DEF MatchInv, NotCrossed, Cancel, Answer
<1>2. PICK x \in Side \X Prices \X (1 .. Capacity) :
         /\ x[3] <= Len(book.queue[x[1]][x[2]])
         /\ book' = Unlinked(book, x[1], x[2], x[3])
  BY <1>1 DEF Cancelled
<1>3. /\ x[1] \in Side /\ x[2] \in Prices /\ book.queue[x[1]][x[2]] \in Seq(Order)
      /\ x[3] \in 1 .. Capacity
  BY <1>1, <1>2 DEF BookInv, Book
<1>4. x[3] \in 1 .. Len(book.queue[x[1]][x[2]])
  BY <1>2, <1>3, SeqElements
<1>5. BookInv(book')
  BY <1>1, <1>2, <1>3, <1>4, UnlinkedInv
<1>6. \A t \in Side : Levels(book', t) \subseteq Levels(book, t)
  BY <1>1, <1>2, <1>3, <1>4, UnlinkedLevels DEF BookInv
<1>7. NotCrossed'
  BY <1>1, <1>6, FewerLevelsNotCrossed DEF NotCrossed
<1>8. <<>> \in Seq(Fill)
  OBVIOUS
<1>9. MatchTypeOK'
  BY <1>1, <1>5, <1>8 DEF MatchTypeOK, BookInv
<1>. QED
  BY <1>1, <1>5, <1>7, <1>9
  DEF MatchInv, PendingWhileMatching, RoomAfterTrade, ArenaFullMeansNoTrade
-----------------------------------------------------------------------------
(* Every step of the engine preserves the invariant.                       *)
LEMMA MatchInvNext == MatchInv /\ [MatchNext]_matchVars => MatchInv'
<1>. SUFFICES ASSUME MatchInv, [MatchNext]_matchVars PROVE MatchInv'
  OBVIOUS
<1>1. ASSUME NEW o \in OrderRequest, RejectZero(o) PROVE MatchInv'
  <2>1. /\ book' = book /\ pc' = pc /\ taker' = taker /\ fills' = fills /\ entry' = entry
        /\ pc = "idle" /\ result'.status = "ZeroQuantity" /\ result'.fills = <<>>
    BY <1>1 DEF RejectZero, Answer
  <2>2. <<>> \in Seq(Fill)
    OBVIOUS
  <2>3. MatchTypeOK'
    BY <2>1, <2>2 DEF MatchInv, MatchTypeOK
  <2>. QED
    BY <2>1, <2>3
    DEF MatchInv, NotCrossed, PendingWhileMatching, RoomAfterTrade, ArenaFullMeansNoTrade
<1>2. ASSUME NEW o \in OrderRequest, StartAddOrder(o) PROVE MatchInv'
  <2>1. /\ book' = book /\ pc' = "match" /\ taker' = o /\ fills' = <<>> /\ entry' = book
        /\ result'.status = "Pending" /\ result'.fills = <<>>
    BY <1>2 DEF StartAddOrder, Pending
  <2>2. <<>> \in Seq(Fill)
    OBVIOUS
  <2>3. MatchTypeOK'
    BY <2>1, <2>2 DEF MatchInv, MatchTypeOK
  <2>. QED
    BY <2>1, <2>3
    DEF MatchInv, NotCrossed, PendingWhileMatching, RoomAfterTrade, ArenaFullMeansNoTrade
<1>3. CASE FillMaker
  BY <1>3, FillMakerInv
<1>4. CASE CancelSelfTrade
  BY <1>4, ReturnOkInv DEF CancelSelfTrade, OrderStatus
<1>5. CASE FinishFilled
  BY <1>5, ReturnOkInv DEF FinishFilled, OrderStatus
<1>6. CASE RestRemainder
  BY <1>6, RestRemainderInv
<1>7. CASE RefuseRemainder
  BY <1>7, RefuseRemainderInv
<1>8. ASSUME NEW id \in Ids, Cancel(id) PROVE MatchInv'
  BY <1>8, CancelInv
<1>9. ASSUME NEW id \in Ids, CancelUnknown(id) PROVE MatchInv'
  <2>1. /\ book' = book /\ pc' = pc /\ taker' = taker /\ fills' = fills /\ entry' = entry
        /\ pc = "idle" /\ result'.status = "OrderNotFound" /\ result'.fills = <<>>
    BY <1>9 DEF CancelUnknown, Answer
  <2>2. <<>> \in Seq(Fill)
    OBVIOUS
  <2>3. MatchTypeOK'
    BY <2>1, <2>2 DEF MatchInv, MatchTypeOK, BookErrors
  <2>. QED
    BY <2>1, <2>3
    DEF MatchInv, NotCrossed, PendingWhileMatching, RoomAfterTrade, ArenaFullMeansNoTrade
<1>10. CASE UNCHANGED matchVars
  BY <1>10 DEF matchVars, MatchInv, MatchTypeOK, NotCrossed, PendingWhileMatching,
               RoomAfterTrade, ArenaFullMeansNoTrade
<1>. QED
  BY <1>1, <1>2, <1>3, <1>4, <1>5, <1>6, <1>7, <1>8, <1>9, <1>10 DEF MatchNext

(* The invariant holds in every reachable state of the engine.             *)
THEOREM MatchInvariance == MatchSpec => []MatchInv
<1>1. MatchInit => MatchInv
  BY MatchInvInit
<1>2. MatchInv /\ [MatchNext]_matchVars => MatchInv'
  BY MatchInvNext
<1>. QED
  BY <1>1, <1>2, PTL DEF MatchSpec

(* The book, the locals of add_order and its answers keep their types: no  *)
(* order of quantity zero rests, arena.count stays within the capacity.    *)
THEOREM TypeCorrectness == MatchSpec => []MatchTypeOK
<1>1. MatchInv => MatchTypeOK
  BY DEF MatchInv
<1>. QED
  BY <1>1, MatchInvariance, PTL

(* No bid rests at or above an ask, between two iterations of the loop or  *)
(* after a call.                                                           *)
THEOREM NeverCrossed == MatchSpec => []NotCrossed
<1>1. MatchInv => NotCrossed
  BY DEF MatchInv
<1>. QED
  BY <1>1, MatchInvariance, PTL

(* best_bid and best_ask are the best keys of their maps, so the loop,     *)
(* which reads nothing else, misses no crossing price.                     *)
THEOREM CachedBestIsRight == MatchSpec => []BestIsBest
<1>1. MatchInv => BestIsBest
  BY DEF MatchInv, BookInv, BestIsBest
<1>. QED
  BY <1>1, MatchInvariance, PTL

(* order_index has exactly the ids at rest, each of them once.             *)
THEOREM IndexExactness == MatchSpec => []IndexIsExact
<1>1. MatchInv => IndexIsExact
  BY DEF MatchInv, BookInv, IndexIsExact
<1>. QED
  BY <1>1, MatchInvariance, PTL

(* The debug_assert_eq! of book.rs (89, 136, 216) never fires.             *)
THEOREM CountAssertion == MatchSpec => []CountIsIndexSize
<1>1. MatchInv => CountIsIndexSize
  BY DEF MatchInv, BookInv, CountIsIndexSize
<1>. QED
  BY <1>1, MatchInvariance, PTL

(* An order refused for want of an arena slot has not traded.              *)
THEOREM ArenaFullIsClean == MatchSpec => []ArenaFullMeansNoTrade
<1>1. MatchInv => ArenaFullMeansNoTrade
  BY DEF MatchInv
<1>. QED
  BY <1>1, MatchInvariance, PTL
=============================================================================
