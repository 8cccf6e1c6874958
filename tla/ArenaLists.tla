----------------------------- MODULE ArenaLists -----------------------------
(***************************************************************************)
(* The lists that the links of module Arena stand for: the free list and   *)
(* the lists of the price levels.                                          *)
(*                                                                         *)
(* First what a walk along `next` meets, given a list; then what each      *)
(* operation of src/src/arena.rs does to a list, by the links it writes;   *)
(* then where every slot is, and what the move of a slot from one list to  *)
(* another does to that; last the queues of orders that the lists stand    *)
(* for, and the sums of their quantities.                                  *)
(***************************************************************************)
EXTENDS Arena, CommonLemmas
-----------------------------------------------------------------------------
(* c is the list of slots that starts at head: every slot's next is the    *)
(* slot behind it, and that of the last is ARENA_NULL.                     *)
IsList(st, c, head) ==
    /\ c \in Seq(Slots)
    /\ \A j, k \in 1 .. Len(c) : c[j] = c[k] => j = k
    /\ head = IF Len(c) = 0 THEN ARENA_NULL ELSE c[1]
    /\ \A k \in 1 .. Len(c) : st[c[k]].next = IF k = Len(c) THEN ARENA_NULL ELSE c[k + 1]

(* A list has no more elements than the arena has slots.                   *)
LEMMA ListIsShort ==
    ASSUME NEW c \in Seq(Slots), \A j, k \in 1 .. Len(c) : c[j] = c[k] => j = k
    PROVE  Len(c) \in 0 .. Capacity
<1>1. Capacity \in Nat /\ Len(c) \in Nat
  BY OrdersAssumption, SeqElements
<1>2. c \in Seq(0 .. Capacity - 1) /\ Distinct(c)
  BY DEF Slots, Distinct
<1>3. Len(c) <= Capacity
  BY <1>1, <1>2, Pigeonhole DEF DistinctFit
<1>. QED
  BY <1>1, <1>3

(* Following `next` from the head of a list meets its slots, in order, and *)
(* then ARENA_NULL.                                                        *)
LEMMA WalkOfList ==
    ASSUME NEW st, NEW c, NEW head, IsList(st, c, head)
    PROVE  \A k \in 1 .. Capacity + 1 :
              Walk(st, head)[k] = IF k <= Len(c) THEN c[k] ELSE ARENA_NULL
<1>. DEFINE N == Capacity + 1
            w == [k \in 1 .. N |-> IF k <= Len(c) THEN c[k] ELSE ARENA_NULL]
            Step(f) == [k \in 1 .. N |-> IF k = 1 THEN head
                            ELSE IF f[k - 1] = ARENA_NULL THEN ARENA_NULL ELSE st[f[k - 1]].next]
            at == Walk(st, head)
<1>1. Capacity \in Nat /\ Len(c) \in 0 .. Capacity /\ c \in Seq(Slots)
  BY OrdersAssumption, ListIsShort DEF IsList
<1>2. \A k \in 1 .. Len(c) : c[k] \in Slots /\ c[k] # ARENA_NULL
  BY <1>1, SeqElements, ArenaAssumption DEF Slots
<1>3. ASSUME NEW k \in 1 .. N
      PROVE  w[k] = IF k = 1 THEN head
                    ELSE IF w[k - 1] = ARENA_NULL THEN ARENA_NULL ELSE st[w[k - 1]].next
  <2>1. CASE k = 1
    BY <1>1, <2>1 DEF IsList
  <2>2. CASE k # 1
    <3>1. k - 1 \in 1 .. N /\ k - 1 >= 1 /\ (k - 1) + 1 = k
      BY <1>1, <2>2
    <3>2. CASE k - 1 <= Len(c)
      <4>1. k - 1 \in 1 .. Len(c) /\ w[k - 1] = c[k - 1]
        BY <1>1, <3>1, <3>2
      <4>2. st[c[k - 1]].next = IF k - 1 = Len(c) THEN ARENA_NULL ELSE c[k]
        BY <3>1, <4>1, Zenon DEF IsList
      <4>3. w[k] = IF k - 1 = Len(c) THEN ARENA_NULL ELSE c[k]
        BY <1>1, <3>1, <3>2
      <4>. QED
        BY <1>2, <2>2, <4>1, <4>2, <4>3
    <3>3. CASE ~(k - 1 <= Len(c))
      BY <1>1, <2>2, <3>1, <3>3
    <3>. QED
      BY <3>2, <3>3
  <2>. QED
    BY <2>1, <2>2
<1>4. w = Step(w)
  <2>. HIDE DEF w
  <2>1. w = [k \in 1 .. N |-> w[k]]
    BY DEF w
  <2>. QED
    BY <1>3, <2>1
<1>5. at = CHOOSE f : f = Step(f)
  BY DEF Walk
<1>6. at = Step(at)
  <2>. HIDE DEF Step, w, at
  <2>. QED
    BY <1>4, <1>5
<1>. DEFINE T == {k \in Nat : k = 0 \/ (k \in 1 .. N => at[k] = w[k])}
<1>. HIDE DEF at
<1>7. ASSUME NEW k \in 0 .. N - 1, k \in T PROVE k + 1 \in T
  <2>1. k + 1 \in 1 .. N /\ (k + 1) - 1 = k /\ N \in Nat
    BY <1>1
  <2>2. at[k + 1] = IF k + 1 = 1 THEN head
                    ELSE IF at[k] = ARENA_NULL THEN ARENA_NULL ELSE st[at[k]].next
    BY <1>6, <2>1
  <2>3. w[k + 1] = IF k + 1 = 1 THEN head
                    ELSE IF w[k] = ARENA_NULL THEN ARENA_NULL ELSE st[w[k]].next
    <3>. HIDE DEF w
    <3>. QED BY <1>3, <2>1
  <2>4. k + 1 = 1 \/ at[k] = w[k]
    <3>. HIDE DEF w
    <3>. QED BY <1>7, <2>1
  <2>. HIDE DEF w
  <2>. QED
    BY <2>1, <2>2, <2>3, <2>4
<1>8. \A k \in 0 .. N : k \in T
  <2>1. N \in Nat /\ 0 \in T
    BY <1>1
  <2>. HIDE DEF T, N
  <2>. QED
    BY <1>7, <2>1, InductionUpTo, Zenon
<1>9. ASSUME NEW k \in 1 .. N PROVE at[k] = w[k]
  <2>1. k \in 0 .. N /\ k # 0
    BY <1>1
  <2>. HIDE DEF w
  <2>. QED
    BY <1>8, <2>1
<1>. QED
  BY <1>9 DEF at

(* The chain read from the head of a list is the list.                     *)
LEMMA ChainOfList ==
    ASSUME NEW st, NEW c, NEW head, IsList(st, c, head)
    PROVE  Chain(st, head) = c
<1>. DEFINE w == Walk(st, head)
            At(n) == /\ n = 0 \/ w[n] # ARENA_NULL
                     /\ n = Capacity + 1 \/ w[n + 1] = ARENA_NULL
<1>1. Capacity \in Nat /\ Len(c) \in 0 .. Capacity /\ c \in Seq(Slots)
  BY OrdersAssumption, ListIsShort DEF IsList
<1>2. \A k \in 1 .. Len(c) : c[k] \in Slots /\ c[k] # ARENA_NULL
  BY <1>1, SeqElements, ArenaAssumption DEF Slots
<1>3. \A k \in 1 .. Capacity + 1 : w[k] = IF k <= Len(c) THEN c[k] ELSE ARENA_NULL
  BY WalkOfList
<1>4. Chain(st, head) = [k \in 1 .. Met(w) |-> w[k]]
  BY DEF Chain
<1>5. Met(w) = CHOOSE n \in 0 .. Capacity + 1 : At(n)
  BY DEF Met
<1>. HIDE DEF w
<1>6. Len(c) \in 0 .. Capacity + 1 /\ At(Len(c))
  BY <1>1, <1>2, <1>3
<1>7. ASSUME NEW n \in 0 .. Capacity + 1, At(n) PROVE n = Len(c)
  <2>1. CASE n < Len(c)
    <3>1. n + 1 \in 1 .. Len(c) /\ n + 1 \in 1 .. Capacity + 1 /\ n # Capacity + 1
      BY <1>1, <2>1
    <3>. QED
      BY <1>2, <1>3, <1>7, <3>1
  <2>2. CASE n > Len(c)
    <3>1. n \in 1 .. Capacity + 1 /\ n # 0 /\ ~(n <= Len(c))
      BY <1>1, <2>2
    <3>. QED
      BY <1>3, <1>7, <3>1
  <2>. QED
    BY <1>1, <2>1, <2>2
<1>8. Met(w) = Len(c)
  <2>. HIDE DEF At
  <2>. QED
    BY <1>5, <1>6, <1>7
<1>9. \A k \in 1 .. Len(c) : w[k] = c[k]
  BY <1>1, <1>3
<1>10. c = [k \in 1 .. Len(c) |-> c[k]]
  BY <1>1, SeqElements
<1>. QED
  BY <1>4, <1>8, <1>9, <1>10
-----------------------------------------------------------------------------
(* c is the list of a level: it can be read backwards too, and the level   *)
(* knows its end and its length.                                           *)
IsLevel(st, c, level) ==
    /\ IsList(st, c, level.head)
    /\ Len(c) >= 1
    /\ level.tail = c[Len(c)]
    /\ level.count = Len(c)
    /\ \A k \in 1 .. Len(c) : st[c[k]].prev = IF k = 1 THEN ARENA_NULL ELSE c[k - 1]

(* What a list may take for granted of its elements.                       *)
LEMMA ListElements ==
    ASSUME NEW st, NEW c, NEW head, IsList(st, c, head)
    PROVE  /\ c \in Seq(Slots)
           /\ Len(c) \in Nat
           /\ \A k \in 1 .. Len(c) : c[k] \in Slots /\ c[k] # ARENA_NULL
<1>1. c \in Seq(Slots)
  BY DEF IsList
<1>2. Len(c) \in Nat /\ \A k \in 1 .. Len(c) : c[k] \in Slots
  BY <1>1, SeqElements
<1>3. \A i \in Slots : i # ARENA_NULL
  BY ArenaAssumption DEF Slots
<1>. QED
  BY <1>1, <1>2, <1>3

(* Writing to slots of other lists leaves a list as it is.                 *)
LEMMA ListUntouched ==
    ASSUME NEW st, NEW st2, NEW c, NEW head, IsList(st, c, head),
           \A k \in 1 .. Len(c) : st2[c[k]].next = st[c[k]].next
    PROVE  IsList(st2, c, head)
BY Zenon DEF IsList

(* A level none of whose slots changed a link keeps its list.              *)
LEMMA LevelUntouched ==
    ASSUME NEW st, NEW st2, NEW c, NEW level, IsLevel(st, c, level),
           \A k \in 1 .. Len(c) : st2[c[k]].next = st[c[k]].next /\ st2[c[k]].prev = st[c[k]].prev
    PROVE  IsLevel(st2, c, level)
<1>1. IsList(st2, c, level.head)
  BY ListUntouched DEF IsLevel
<1>. QED
  BY <1>1, Zenon DEF IsLevel

(* dealloc: the freed slot becomes the first of the free list.             *)
LEMMA FreeListGrows ==
    ASSUME NEW st, NEW st2, NEW f, NEW head, IsList(st, f, head),
           NEW i \in Slots, \A k \in 1 .. Len(f) : f[k] # i /\ st2[f[k]].next = st[f[k]].next,
           st2[i].next = head
    PROVE  /\ IsList(st2, <<i>> \o f, i)
           /\ Len(<<i>> \o f) = Len(f) + 1
           /\ (<<i>> \o f)[1] = i
           /\ \A k \in 1 .. Len(f) : (<<i>> \o f)[k + 1] = f[k]
<1>. DEFINE g == <<i>> \o f
<1>1. f \in Seq(Slots) /\ Len(f) \in Nat /\ \A k \in 1 .. Len(f) : f[k] \in Slots
  BY ListElements
<1>2. /\ g \in Seq(Slots)
      /\ Len(g) = Len(f) + 1
      /\ g[1] = i
      /\ \A k \in 1 .. Len(f) : g[k + 1] = f[k]
  BY <1>1
<1>. HIDE DEF g
<1>3. ASSUME NEW k \in 1 .. Len(g)
      PROVE  k = 1 \/ (k - 1 \in 1 .. Len(f) /\ g[k] = f[k - 1])
  BY <1>1, <1>2
<1>4. ASSUME NEW j \in 1 .. Len(g), NEW k \in 1 .. Len(g), g[j] = g[k] PROVE j = k
  <2>1. CASE j = 1 /\ k = 1
    BY <2>1
  <2>2. CASE j = 1 /\ k # 1
    BY <1>2, <1>3, <1>4, <2>2
  <2>3. CASE j # 1 /\ k = 1
    BY <1>2, <1>3, <1>4, <2>3
  <2>4. CASE j # 1 /\ k # 1
    <3>1. j - 1 \in 1 .. Len(f) /\ k - 1 \in 1 .. Len(f) /\ f[j - 1] = f[k - 1]
      BY <1>3, <1>4, <2>4
    <3>2. j - 1 = k - 1
      BY <3>1, Zenon DEF IsList
    <3>. QED
      BY <1>1, <1>2, <3>2
  <2>. QED
    BY <2>1, <2>2, <2>3, <2>4
<1>5. ASSUME NEW k \in 1 .. Len(g)
      PROVE  st2[g[k]].next = IF k = Len(g) THEN ARENA_NULL ELSE g[k + 1]
  <2>1. CASE k = 1
    <3>1. head = IF Len(f) = 0 THEN ARENA_NULL ELSE f[1]
      BY DEF IsList
    <3>2. Len(f) # 0 => g[2] = f[1]
      BY <1>1, <1>2
    <3>. QED
      BY <1>1, <1>2, <2>1, <3>1, <3>2
  <2>2. CASE k # 1
    <3>1. k - 1 \in 1 .. Len(f) /\ g[k] = f[k - 1]
      BY <1>3, <2>2
    <3>2. st2[f[k - 1]].next = IF k - 1 = Len(f) THEN ARENA_NULL ELSE f[(k - 1) + 1]
      BY <3>1, Zenon DEF IsList
    <3>3. k # Len(g) => k \in 1 .. Len(f) /\ g[k + 1] = f[k]
      BY <1>1, <1>2
    <3>. QED
      BY <1>1, <1>2, <3>1, <3>2, <3>3
  <2>. QED
    BY <2>1, <2>2
<1>6. i = IF Len(g) = 0 THEN ARENA_NULL ELSE g[1]
  BY <1>1, <1>2
<1>7. IsList(st2, g, i)
  BY <1>2, <1>4, <1>5, <1>6, Zenon DEF IsList
<1>. QED
  BY <1>2, <1>7 DEF g

(* alloc: the first free slot leaves the free list.                        *)
LEMMA FreeListShrinks ==
    ASSUME NEW st, NEW st2, NEW f, NEW head, IsList(st, f, head), Len(f) # 0,
           \A k \in 2 .. Len(f) : st2[f[k]].next = st[f[k]].next
    PROVE  /\ IsList(st2, Tail(f), st[head].next)
           /\ Len(Tail(f)) = Len(f) - 1
           /\ \A k \in 1 .. Len(f) - 1 : Tail(f)[k] = f[k + 1]
<1>. DEFINE g == Tail(f)
<1>1. f \in Seq(Slots) /\ Len(f) \in Nat \ {0} /\ head = f[1]
  BY ListElements DEF IsList
<1>2. /\ g \in Seq(Slots)
      /\ Len(g) = Len(f) - 1
      /\ \A k \in 1 .. Len(g) : g[k] = f[k + 1]
  BY <1>1
<1>. HIDE DEF g
<1>3. ASSUME NEW j \in 1 .. Len(g), NEW k \in 1 .. Len(g), g[j] = g[k] PROVE j = k
  <2>1. j + 1 \in 1 .. Len(f) /\ k + 1 \in 1 .. Len(f) /\ f[j + 1] = f[k + 1]
    BY <1>1, <1>2, <1>3
  <2>2. j + 1 = k + 1
    BY <2>1, Zenon DEF IsList
  <2>. QED
    BY <1>1, <1>2, <2>2
<1>4. st[head].next = IF Len(g) = 0 THEN ARENA_NULL ELSE g[1]
  <2>1. 1 \in 1 .. Len(f) /\ (1 = Len(f) <=> Len(g) = 0) /\ (Len(g) # 0 => 1 \in 1 .. Len(g))
    BY <1>1, <1>2
  <2>2. st[f[1]].next = IF 1 = Len(f) THEN ARENA_NULL ELSE f[1 + 1]
    BY <2>1, Zenon DEF IsList
  <2>. QED
    BY <1>1, <1>2, <2>1, <2>2
<1>5. ASSUME NEW k \in 1 .. Len(g)
      PROVE  st2[g[k]].next = IF k = Len(g) THEN ARENA_NULL ELSE g[k + 1]
  <2>1. /\ k + 1 \in 2 .. Len(f) /\ k + 1 \in 1 .. Len(f)
        /\ k = Len(g) <=> k + 1 = Len(f)
        /\ k # Len(g) => k + 1 \in 1 .. Len(g)
    BY <1>1, <1>2
  <2>2. st[f[k + 1]].next = IF k + 1 = Len(f) THEN ARENA_NULL ELSE f[(k + 1) + 1]
    BY <2>1, Zenon DEF IsList
  <2>3. st2[g[k]].next = st[f[k + 1]].next
    BY <1>2, <2>1
  <2>. QED
    BY <1>2, <2>1, <2>2, <2>3
<1>6. IsList(st2, g, st[head].next)
  BY <1>2, <1>3, <1>4, <1>5, Zenon DEF IsList
<1>. QED
  BY <1>2, <1>6 DEF g
-----------------------------------------------------------------------------
(* st2 is st with the order o in slot i, linked behind the list c.         *)
Pushes(st, st2, c, i, o) ==
    \A j \in Slots :
        /\ st2[j].order = IF j = i THEN o ELSE st[j].order
        /\ st2[j].next = IF j = i THEN ARENA_NULL
                         ELSE IF Len(c) # 0 /\ j = c[Len(c)] THEN i ELSE st[j].next
        /\ st2[j].prev = IF j # i THEN st[j].prev
                         ELSE IF Len(c) = 0 THEN ARENA_NULL ELSE c[Len(c)]

(* push_back: the list of a level, or of one that did not exist, gets one  *)
(* slot longer.                                                            *)
LEMMA LevelGrows ==
    ASSUME NEW st, NEW st2, NEW c \in Seq(Slots), NEW level, NEW level2, NEW i \in Slots, NEW o,
           Len(c) = 0 \/ IsLevel(st, c, level),
           \A k \in 1 .. Len(c) : c[k] # i,
           Pushes(st, st2, c, i, o),
           level2.head = IF Len(c) = 0 THEN i ELSE level.head,
           level2.tail = i,
           level2.count = Len(c) + 1
    PROVE  IsLevel(st2, Append(c, i), level2)
<1>. DEFINE d == Append(c, i)
<1>1. Len(c) \in Nat /\ \A k \in 1 .. Len(c) : c[k] \in Slots
  BY SeqElements
<1>2. /\ d \in Seq(Slots)
      /\ Len(d) = Len(c) + 1
      /\ d[Len(d)] = i
      /\ \A k \in 1 .. Len(c) : d[k] = c[k]
  BY AppendElements
<1>. HIDE DEF d
<1>3. ASSUME NEW k \in 1 .. Len(d)
      PROVE  k = Len(d) \/ (k \in 1 .. Len(c) /\ d[k] = c[k])
  BY <1>1, <1>2
<1>4. Len(c) # 0 => /\ level.head = c[1]
                    /\ \A j, k \in 1 .. Len(c) : c[j] = c[k] => j = k
                    /\ \A k \in 1 .. Len(c) :
                          /\ st[c[k]].next = IF k = Len(c) THEN ARENA_NULL ELSE c[k + 1]
                          /\ st[c[k]].prev = IF k = 1 THEN ARENA_NULL ELSE c[k - 1]
  BY Zenon DEF IsLevel, IsList
<1>5. ASSUME NEW j \in 1 .. Len(d), NEW k \in 1 .. Len(d), d[j] = d[k] PROVE j = k
  <2>1. CASE j # Len(d) /\ k # Len(d)
    <3>1. j \in 1 .. Len(c) /\ k \in 1 .. Len(c) /\ c[j] = c[k] /\ Len(c) # 0
      BY <1>1, <1>3, <1>5, <2>1
    <3>. QED
      BY <1>4, <3>1, Zenon
  <2>2. CASE j = Len(d) \/ k = Len(d)
    BY <1>2, <1>3, <1>5, <2>2
  <2>. QED
    BY <2>1, <2>2
<1>6. level2.head = IF Len(d) = 0 THEN ARENA_NULL ELSE d[1]
  <2>1. CASE Len(c) = 0
    BY <1>1, <1>2, <2>1
  <2>2. CASE Len(c) # 0
    BY <1>1, <1>2, <1>4, <2>2
  <2>. QED
    BY <2>1, <2>2
<1>7. ASSUME NEW k \in 1 .. Len(d)
      PROVE  /\ st2[d[k]].next = IF k = Len(d) THEN ARENA_NULL ELSE d[k + 1]
             /\ st2[d[k]].prev = IF k = 1 THEN ARENA_NULL ELSE d[k - 1]
  <2>1. CASE k = Len(d)
    <3>1. st2[d[k]].next = ARENA_NULL
      BY <1>2, <2>1 DEF Pushes
    <3>2. st2[d[k]].prev = IF Len(c) = 0 THEN ARENA_NULL ELSE c[Len(c)]
      BY <1>2, <2>1 DEF Pushes
    <3>3. Len(c) = 0 <=> k = 1
      BY <1>1, <1>2, <2>1
    <3>4. Len(c) # 0 => d[k - 1] = c[Len(c)]
      BY <1>1, <1>2, <2>1
    <3>. QED
      BY <2>1, <3>1, <3>2, <3>3, <3>4
  <2>2. CASE k # Len(d)
    <3>1. k \in 1 .. Len(c) /\ d[k] = c[k] /\ Len(c) # 0 /\ c[k] \in Slots /\ c[k] # i
      BY <1>1, <1>3, <2>2
    <3>2. /\ st[c[k]].next = IF k = Len(c) THEN ARENA_NULL ELSE c[k + 1]
          /\ st[c[k]].prev = IF k = 1 THEN ARENA_NULL ELSE c[k - 1]
      BY <1>4, <3>1, Zenon
    <3>3. st2[c[k]].prev = st[c[k]].prev
      BY <3>1 DEF Pushes
    <3>4. st2[c[k]].next = IF c[k] = c[Len(c)] THEN i ELSE st[c[k]].next
      BY <3>1 DEF Pushes
    <3>5. c[k] = c[Len(c)] <=> k = Len(c)
      <4>1. Len(c) \in 1 .. Len(c)
        BY <1>1, <3>1
      <4>. QED
        BY <1>4, <3>1, <4>1, Zenon
    <3>6. k # 1 => d[k - 1] = c[k - 1]
      BY <1>1, <1>2, <3>1
    <3>7. k = Len(c) => d[k + 1] = i
      BY <1>1, <1>2
    <3>8. k # Len(c) => d[k + 1] = c[k + 1]
      BY <1>1, <1>2, <3>1
    <3>. QED
      BY <2>2, <3>1, <3>2, <3>3, <3>4, <3>5, <3>6, <3>7, <3>8
  <2>. QED
    BY <2>1, <2>2
<1>8. IsList(st2, d, level2.head)
  BY <1>2, <1>5, <1>6, <1>7, Zenon DEF IsList
<1>9. Len(d) >= 1 /\ level2.tail = d[Len(d)] /\ level2.count = Len(d)
  BY <1>1, <1>2
<1>. QED
  BY <1>7, <1>8, <1>9, Zenon DEF IsLevel, d

(* st2 is st with the k-th slot of the list c unlinked and put before the  *)
(* slot `free`.                                                            *)
Unlinks(st, st2, c, k, free) ==
    \A j \in Slots :
        /\ j # c[k] => st2[j].order = st[j].order
        /\ st2[j].next = IF j = c[k] THEN free
                         ELSE IF k # 1 /\ j = c[k - 1] THEN st[c[k]].next ELSE st[j].next
        /\ j # c[k] => st2[j].prev = IF k # Len(c) /\ j = c[k + 1] THEN st[c[k]].prev
                                     ELSE st[j].prev

(* A place in a list of several slots.                                     *)
LEMMA PlaceAmongMany ==
    ASSUME NEW n \in Nat, n >= 1, n # 1, NEW k \in 1 .. n
    PROVE  n >= 2 /\ k \in Nat
OBVIOUS

(* pop_front and remove: the list of a level that stays gets one slot      *)
(* shorter.                                                                *)
LEMMA LevelShrinks ==
    ASSUME NEW st, NEW st2, NEW c, NEW level, NEW level2, NEW free, IsLevel(st, c, level),
           NEW k \in 1 .. Len(c), Len(c) # 1,
           Unlinks(st, st2, c, k, free),
           level2.head = IF k = 1 THEN st[c[k]].next ELSE level.head,
           level2.tail = IF k = Len(c) THEN st[c[k]].prev ELSE level.tail,
           level2.count = Len(c) - 1
    PROVE  IsLevel(st2, Cut(c, k), level2)
<1>. DEFINE d == Cut(c, k)
<1>1. /\ c \in Seq(Slots) /\ Len(c) \in Nat /\ Len(c) >= 2 /\ k \in Nat
      /\ \A j \in 1 .. Len(c) : c[j] \in Slots
  <2>1. IsList(st, c, level.head) /\ Len(c) >= 1
    BY DEF IsLevel
  <2>2. c \in Seq(Slots) /\ Len(c) \in Nat /\ \A j \in 1 .. Len(c) : c[j] \in Slots
    BY <2>1, ListElements, Zenon
  <2>3. Len(c) \in Nat /\ Len(c) >= 1
    BY <2>1, <2>2
  <2>4. Len(c) >= 2 /\ k \in Nat
    BY <2>3, PlaceAmongMany, Zenon
  <2>. QED
    BY <2>2, <2>4, Zenon
<1>2. /\ d \in Seq(Slots)
      /\ Len(d) = Len(c) - 1
      /\ \A j \in 1 .. Len(c) - 1 : d[j] = IF j < k THEN c[j] ELSE c[j + 1]
  BY <1>1, CutElements
<1>. HIDE DEF d
<1>3. /\ level.head = c[1] /\ level.tail = c[Len(c)]
      /\ \A i, j \in 1 .. Len(c) : c[i] = c[j] => i = j
      /\ \A j \in 1 .. Len(c) :
            /\ st[c[j]].next = IF j = Len(c) THEN ARENA_NULL ELSE c[j + 1]
            /\ st[c[j]].prev = IF j = 1 THEN ARENA_NULL ELSE c[j - 1]
  <2>1. Len(c) # 0
    BY <1>1
  <2>. QED
    BY <2>1, Zenon DEF IsLevel, IsList
<1>. DEFINE Old(j) == IF j < k THEN j ELSE j + 1
<1>4. ASSUME NEW j \in 1 .. Len(d)
      PROVE  /\ Old(j) \in 1 .. Len(c) /\ Old(j) # k /\ d[j] = c[Old(j)]
             /\ d[j] \in Slots /\ d[j] # c[k]
  <2>1. Old(j) \in 1 .. Len(c) /\ Old(j) # k /\ d[j] = c[Old(j)]
    BY <1>1, <1>2
  <2>. HIDE DEF Old
  <2>. QED
    BY <1>1, <1>3, <2>1
<1>5. ASSUME NEW i \in 1 .. Len(d), NEW j \in 1 .. Len(d), d[i] = d[j] PROVE i = j
  <2>1. Old(i) = Old(j)
    <3>. HIDE DEF Old
    <3>1. Old(i) \in 1 .. Len(c) /\ Old(j) \in 1 .. Len(c) /\ c[Old(i)] = c[Old(j)]
      BY <1>4, <1>5
    <3>. QED
      BY <1>3, <3>1, Zenon
  <2>. QED
    BY <1>1, <1>2, <2>1
<1>6. level2.head = IF Len(d) = 0 THEN ARENA_NULL ELSE d[1]
  <2>1. st[c[1]].next = c[2]
    BY <1>1, <1>3
  <2>. QED
    BY <1>1, <1>2, <1>3, <2>1
<1>7. level2.tail = d[Len(d)]
  <2>1. st[c[Len(c)]].prev = c[Len(c) - 1]
    BY <1>1, <1>3
  <2>. QED
    BY <1>1, <1>2, <1>3, <2>1
<1>8. ASSUME NEW j \in 1 .. Len(d)
      PROVE  st2[d[j]].next = IF j = Len(d) THEN ARENA_NULL ELSE d[j + 1]
  <2>1. st2[d[j]].next = IF k # 1 /\ d[j] = c[k - 1] THEN st[c[k]].next ELSE st[d[j]].next
    BY <1>4 DEF Unlinks
  <2>2. CASE k # 1 /\ j = k - 1
    <3>1. d[j] = c[k - 1] /\ (j = Len(d) <=> k = Len(c))
      BY <1>1, <1>2, <2>2
    <3>2. st[c[k]].next = IF k = Len(c) THEN ARENA_NULL ELSE c[k + 1]
      BY <1>3
    <3>3. k # Len(c) => d[j + 1] = c[k + 1]
      BY <1>1, <1>2, <2>2
    <3>. QED
      BY <2>1, <2>2, <3>1, <3>2, <3>3
  <2>3. CASE ~(k # 1 /\ j = k - 1)
    <3>1. ~(k # 1 /\ d[j] = c[k - 1])
      <4>1. SUFFICES ASSUME k # 1, d[j] = c[k - 1] PROVE FALSE
        OBVIOUS
      <4>2. k - 1 \in 1 .. Len(c)
        BY <1>1, <4>1
      <4>3. Old(j) = k - 1
        <5>. HIDE DEF Old
        <5>1. Old(j) \in 1 .. Len(c) /\ d[j] = c[Old(j)]
          BY <1>4, Zenon
        <5>2. c[Old(j)] = c[k - 1]
          BY <4>1, <5>1, Zenon
        <5>. QED
          BY <1>3, <4>2, <5>1, <5>2, Zenon
      <4>. QED
        BY <1>1, <1>2, <2>3, <4>1, <4>3
    <3>2. st[c[Old(j)]].next = IF Old(j) = Len(c) THEN ARENA_NULL ELSE c[Old(j) + 1]
      <4>. HIDE DEF Old
      <4>. QED
        BY <1>3, <1>4, Zenon
    <3>3. Old(j) = Len(c) <=> j = Len(d)
      BY <1>1, <1>2, <2>3
    <3>4. j # Len(d) => d[j + 1] = c[Old(j) + 1]
      BY <1>1, <1>2, <2>3
    <3>. HIDE DEF Old
    <3>. QED
      BY <1>4, <2>1, <3>1, <3>2, <3>3, <3>4
  <2>. QED
    BY <2>2, <2>3
<1>9. ASSUME NEW j \in 1 .. Len(d)
      PROVE  st2[d[j]].prev = IF j = 1 THEN ARENA_NULL ELSE d[j - 1]
  <2>1. st2[d[j]].prev = IF k # Len(c) /\ d[j] = c[k + 1] THEN st[c[k]].prev ELSE st[d[j]].prev
    BY <1>4 DEF Unlinks
  <2>2. CASE j = k
    <3>1. k # Len(c) /\ d[j] = c[k + 1]
      BY <1>1, <1>2, <2>2
    <3>2. st[c[k]].prev = IF k = 1 THEN ARENA_NULL ELSE c[k - 1]
      BY <1>3
    <3>3. j # 1 => d[j - 1] = c[k - 1]
      BY <1>1, <1>2, <2>2
    <3>. QED
      BY <2>1, <2>2, <3>1, <3>2, <3>3
  <2>3. CASE j # k
    <3>1. ~(k # Len(c) /\ d[j] = c[k + 1])
      <4>1. SUFFICES ASSUME k # Len(c), d[j] = c[k + 1] PROVE FALSE
        OBVIOUS
      <4>2. k + 1 \in 1 .. Len(c)
        BY <1>1, <4>1
      <4>3. Old(j) = k + 1
        <5>. HIDE DEF Old
        <5>1. Old(j) \in 1 .. Len(c) /\ d[j] = c[Old(j)]
          BY <1>4, Zenon
        <5>2. c[Old(j)] = c[k + 1]
          BY <4>1, <5>1, Zenon
        <5>. QED
          BY <1>3, <4>2, <5>1, <5>2, Zenon
      <4>. QED
        BY <1>1, <1>2, <2>3, <4>1, <4>3
    <3>2. st[c[Old(j)]].prev = IF Old(j) = 1 THEN ARENA_NULL ELSE c[Old(j) - 1]
      <4>. HIDE DEF Old
      <4>. QED
        BY <1>3, <1>4
    <3>3. Old(j) = 1 <=> j = 1
      BY <1>1, <1>2, <2>3
    <3>4. j # 1 => d[j - 1] = c[Old(j) - 1]
      BY <1>1, <1>2, <2>3
    <3>. HIDE DEF Old
    <3>. QED
      BY <1>4, <2>1, <3>1, <3>2, <3>3, <3>4
  <2>. QED
    BY <2>2, <2>3
<1>10. IsList(st2, d, level2.head)
  BY <1>2, <1>5, <1>6, <1>8, Zenon DEF IsList
<1>11. Len(d) >= 1 /\ level2.count = Len(d)
  BY <1>1, <1>2
<1>. QED
  BY <1>7, <1>9, <1>10, <1>11, Zenon DEF IsLevel, d
-----------------------------------------------------------------------------
(* The maps are functions, and the fields stay in their types.             *)
PriceLevel == [head : Link, tail : Link, count : Nat, qty : 0 .. MaxQty]

LevelMaps(L) ==
    /\ L = [s \in Side |-> [p \in DOMAIN L[s] |-> L[s][p]]]
    /\ \A s \in Side :
          /\ DOMAIN L[s] \subseteq Prices
          /\ \A p \in DOMAIN L[s] : L[s][p] \in PriceLevel

(* l[s][p] is the list of the level of side s at price p, and a level that *)
(* is not in the map has no list.                                          *)
LevelSlots(st, L, l) ==
    /\ l \in [Side -> [Prices -> Seq(Slots)]]
    /\ \A s \in Side, p \in Prices : p \in DOMAIN L[s] <=> Len(l[s][p]) # 0
    /\ \A s \in Side, p \in Prices : p \in DOMAIN L[s] => IsLevel(st, l[s][p], L[s][p])

(* Every slot has one place, on the free list or in a level.               *)
SlotsPlaced(f, l) ==
    /\ \A s, t \in Side, p, q \in Prices :
          \A j \in 1 .. Len(l[s][p]), k \in 1 .. Len(l[t][q]) :
             l[s][p][j] = l[t][q][k] => s = t /\ p = q /\ j = k
    /\ \A s \in Side, p \in Prices : \A j \in 1 .. Len(l[s][p]), k \in 1 .. Len(f) :
          l[s][p][j] # f[k]
    /\ \A i \in Slots :
          \/ \E k \in 1 .. Len(f) : f[k] = i
          \/ \E s \in Side, p \in Prices : \E k \in 1 .. Len(l[s][p]) : l[s][p][k] = i

(* Two places that hold the same slot are the same place.                  *)
SamePlace(l, s, p, t, q) ==
    \A j \in 1 .. Len(l[s][p]) : \A k \in 1 .. Len(l[t][q]) :
       l[s][p][j] = l[t][q][k] => s = t /\ p = q /\ j = k

(* A slot is met once, and not on the free list.                           *)
LEMMA MetOnce ==
    ASSUME NEW f, NEW l, SlotsPlaced(f, l), NEW s \in Side, NEW t \in Side,
           NEW p \in Prices, NEW q \in Prices
    PROVE  SamePlace(l, s, p, t, q)
BY DEF SlotsPlaced, SamePlace

LEMMA MetNotFree ==
    ASSUME NEW f, NEW l, SlotsPlaced(f, l), NEW s \in Side, NEW p \in Prices,
           NEW j \in 1 .. Len(l[s][p]), NEW k \in 1 .. Len(f)
    PROVE  l[s][p][j] # f[k]
BY DEF SlotsPlaced

(* A slot of a level holds an order of that side and price, to which the   *)
(* index leads.                                                            *)
OrderPlaced(st, index, s, p, i) ==
    /\ st[i].order \in Order
    /\ st[i].order.side = s
    /\ st[i].order.price = p
    /\ st[i].order.id \in DOMAIN index
    /\ index[st[i].order.id] = i

OrdersPlaced(st, index, l) ==
    \A s \in Side, p \in Prices : \A k \in 1 .. Len(l[s][p]) :
        OrderPlaced(st, index, s, p, l[s][p][k])

(* The index leads to slots of levels.                                     *)
IndexPlaced(st, index, l) ==
    \A id \in DOMAIN index :
        \E s \in Side, p \in Prices : \E k \in 1 .. Len(l[s][p]) :
            l[s][p][k] = index[id] /\ st[l[s][p][k]].order.id = id

(* The lists of the levels, and the slots of a list, each met once.        *)
Lists == [Side -> [Prices -> Seq(Slots)]]

(* g is f without its first slot, and f with i before it.                  *)
FirstTaken(f, g) == Len(g) = Len(f) - 1 /\ \A k \in 1 .. Len(f) - 1 : g[k] = f[k + 1]

FirstAdded(f, g, i) == Len(g) = Len(f) + 1 /\ g[1] = i /\ \A k \in 1 .. Len(f) : g[k + 1] = f[k]

(* The lists with the slot i at the end of one, and without the k-th slot  *)
(* of one.                                                                 *)
ListPut(l, s, p, i) == [l EXCEPT ![s][p] = Append(@, i)]

ListCut(l, s, p, k) == [l EXCEPT ![s][p] = Cut(@, k)]

OtherListsSame(l, m, s, p) ==
    \A t \in Side, q \in Prices : (t = s /\ q = p) \/ m[t][q] = l[t][q]

(* The lists m are the lists l with the slot i put into level (s, p).      *)
SlotPushed(l, m, s, p, i) ==
    /\ \A t \in Side, q \in Prices : \A j \in 1 .. Len(m[t][q]) :
          \/ j \in 1 .. Len(l[t][q]) /\ m[t][q][j] = l[t][q][j]
          \/ t = s /\ q = p /\ j = Len(l[s][p]) + 1 /\ m[t][q][j] = i
    /\ \A t \in Side, q \in Prices : \A j \in 1 .. Len(l[t][q]) :
          j \in 1 .. Len(m[t][q]) /\ m[t][q][j] = l[t][q][j]
    /\ \E n \in 1 .. Len(m[s][p]) : m[s][p][n] = i

(* The lists m are the lists l without the slot i.                         *)
SlotTaken(l, m, i) ==
    /\ \A t \in Side, q \in Prices : \A j \in 1 .. Len(m[t][q]) :
          /\ \E k \in 1 .. Len(l[t][q]) : m[t][q][j] = l[t][q][k]
          /\ m[t][q][j] # i
    /\ \A t \in Side, q \in Prices : \A k \in 1 .. Len(l[t][q]) :
          \/ l[t][q][k] = i
          \/ \E j \in 1 .. Len(m[t][q]) : m[t][q][j] = l[t][q][k]

(* The lists hold slots, i not among them.                                 *)
SlotsOtherThan(l, i) ==
    \A t \in Side, q \in Prices : \A k \in 1 .. Len(l[t][q]) :
        l[t][q][k] \in Slots /\ l[t][q][k] # i

SlotsOnly(l) ==
    \A t \in Side, q \in Prices : \A k \in 1 .. Len(l[t][q]) : l[t][q][k] \in Slots

(* The slot that moves from the free list to the end of a level.           *)
LEMMA PushPutsOneSlot ==
    ASSUME NEW l \in Lists, NEW s \in Side, NEW p \in Prices, NEW i \in Slots
    PROVE  /\ ListPut(l, s, p, i) \in Lists
           /\ ListPut(l, s, p, i)[s][p] = Append(l[s][p], i)
           /\ OtherListsSame(l, ListPut(l, s, p, i), s, p)
           /\ SlotPushed(l, ListPut(l, s, p, i), s, p, i)
<1>. DEFINE m == ListPut(l, s, p, i)
            old == l[s][p]
            new == Append(old, i)
<1>1. old \in Seq(Slots)
  BY DEF Lists
<1>2. /\ new \in Seq(Slots)
      /\ Len(old) + 1 \in 1 .. Len(new)
      /\ new[Len(old) + 1] = i
      /\ \A j \in 1 .. Len(old) : j \in 1 .. Len(new) /\ new[j] = old[j]
      /\ \A j \in 1 .. Len(new) : j \in 1 .. Len(old) \/ j = Len(old) + 1
  BY <1>1, AppendElements
<1>. HIDE DEF new
<1>3. m = [l EXCEPT ![s][p] = new]
  BY DEF ListPut, new
<1>4. /\ m \in Lists
      /\ \A t \in Side, q \in Prices : m[t][q] = IF t = s /\ q = p THEN new ELSE l[t][q]
  BY <1>2, <1>3 DEF Lists
<1>. HIDE DEF m, old
<1>5. l[s][p] = old
  BY DEF old
<1>6. ASSUME NEW t \in Side, NEW q \in Prices, NEW j \in 1 .. Len(m[t][q])
      PROVE  \/ j \in 1 .. Len(l[t][q]) /\ m[t][q][j] = l[t][q][j]
             \/ t = s /\ q = p /\ j = Len(l[s][p]) + 1 /\ m[t][q][j] = i
  <2>1. CASE t = s /\ q = p
    <3>1. m[t][q] = new /\ l[t][q] = old
      BY <1>4, <1>5, <2>1
    <3>. QED
      BY <1>2, <1>5, <2>1, <3>1
  <2>2. CASE ~(t = s /\ q = p)
    BY <1>4, <2>2
  <2>. QED
    BY <2>1, <2>2, Zenon
<1>7. ASSUME NEW t \in Side, NEW q \in Prices, NEW j \in 1 .. Len(l[t][q])
      PROVE  j \in 1 .. Len(m[t][q]) /\ m[t][q][j] = l[t][q][j]
  <2>1. CASE t = s /\ q = p
    <3>1. m[t][q] = new /\ l[t][q] = old
      BY <1>4, <1>5, <2>1
    <3>. QED
      BY <1>2, <3>1
  <2>2. CASE ~(t = s /\ q = p)
    BY <1>4, <2>2
  <2>. QED
    BY <2>1, <2>2
<1>8. \E n \in 1 .. Len(m[s][p]) : m[s][p][n] = i
  BY <1>2, <1>4
<1>9. SlotPushed(l, m, s, p, i)
  BY <1>6, <1>7, <1>8 DEF SlotPushed
<1>10. OtherListsSame(l, m, s, p)
  BY <1>4, Zenon DEF OtherListsSame
<1>. QED
  BY <1>4, <1>9, <1>10, Zenon DEF m, new, old

(* insert_order moves the first free slot to the end of a level: every     *)
(* slot still has one place.                                               *)
LEMMA PlacesAfterPush ==
    ASSUME NEW f, NEW l, NEW g, NEW m, NEW s \in Side, NEW p \in Prices,
           Len(f) \in Nat \ {0}, Distinct(f), SlotsPlaced(f, l),
           FirstTaken(f, g), SlotPushed(l, m, s, p, f[1])
    PROVE  SlotsPlaced(g, m)
<1>1. ASSUME NEW t \in Side, NEW q \in Prices, NEW j \in 1 .. Len(m[t][q])
      PROVE  \/ j \in 1 .. Len(l[t][q]) /\ m[t][q][j] = l[t][q][j]
             \/ t = s /\ q = p /\ j = Len(l[s][p]) + 1 /\ m[t][q][j] = f[1]
  BY Zenon DEF SlotPushed
<1>2. ASSUME NEW t \in Side, NEW q \in Prices, NEW j \in 1 .. Len(l[t][q])
      PROVE  l[t][q][j] # f[1]
  BY DEF SlotsPlaced
<1>3. ASSUME NEW t \in Side, NEW u \in Side, NEW q \in Prices, NEW r \in Prices,
             NEW j \in 1 .. Len(m[t][q]), NEW k \in 1 .. Len(m[u][r]), m[t][q][j] = m[u][r][k]
      PROVE  t = u /\ q = r /\ j = k
  <2>1. CASE j \in 1 .. Len(l[t][q]) /\ m[t][q][j] = l[t][q][j]
    <3>1. l[t][q][j] # f[1]
      BY <1>2, <2>1, Zenon
    <3>2. k \in 1 .. Len(l[u][r]) /\ m[u][r][k] = l[u][r][k]
      BY <1>1, <1>3, <2>1, <3>1, Zenon
    <3>3. \A x \in 1 .. Len(l[t][q]), y \in 1 .. Len(l[u][r]) :
             l[t][q][x] = l[u][r][y] => t = u /\ q = r /\ x = y
      BY DEF SlotsPlaced
    <3>. QED
      BY <1>3, <2>1, <3>2, <3>3, Zenon
  <2>2. CASE t = s /\ q = p /\ j = Len(l[s][p]) + 1 /\ m[t][q][j] = f[1]
    BY <1>1, <1>2, <1>3, <2>2
  <2>. QED
    BY <1>1, <2>1, <2>2
<1>4. ASSUME NEW t \in Side, NEW q \in Prices, NEW j \in 1 .. Len(m[t][q]), NEW k \in 1 .. Len(g)
      PROVE  m[t][q][j] # g[k]
  <2>1. k + 1 \in 1 .. Len(f) /\ g[k] = f[k + 1] /\ k + 1 # 1 /\ 1 \in 1 .. Len(f)
    BY DEF FirstTaken
  <2>2. \A x \in 1 .. Len(l[t][q]) : l[t][q][x] # f[k + 1]
    BY <2>1 DEF SlotsPlaced
  <2>3. f[k + 1] # f[1]
    BY <2>1, Zenon DEF Distinct
  <2>. QED
    BY <1>1, <2>1, <2>2, <2>3, Zenon
<1>5. ASSUME NEW i \in Slots
      PROVE  \/ \E k \in 1 .. Len(g) : g[k] = i
             \/ \E t \in Side, q \in Prices : \E k \in 1 .. Len(m[t][q]) : m[t][q][k] = i
  <2>1. CASE \E k \in 1 .. Len(f) : f[k] = i
    <3>1. PICK k \in 1 .. Len(f) : f[k] = i
      BY <2>1, Zenon
    <3>2. CASE k = 1
      BY <3>1, <3>2 DEF SlotPushed
    <3>3. CASE k # 1
      <4>1. k - 1 \in 1 .. Len(g) /\ k - 1 \in 1 .. Len(f) - 1 /\ (k - 1) + 1 = k
        BY <3>3 DEF FirstTaken
      <4>2. g[k - 1] = i
        BY <3>1, <4>1, Zenon DEF FirstTaken
      <4>. QED
        BY <4>1, <4>2
    <3>. QED
      BY <3>2, <3>3
  <2>2. CASE \E t \in Side, q \in Prices : \E k \in 1 .. Len(l[t][q]) : l[t][q][k] = i
    <3>1. PICK t \in Side, q \in Prices : \E k \in 1 .. Len(l[t][q]) : l[t][q][k] = i
      BY <2>2, Zenon
    <3>2. PICK k \in 1 .. Len(l[t][q]) : l[t][q][k] = i
      BY <3>1, Zenon
    <3>3. k \in 1 .. Len(m[t][q]) /\ m[t][q][k] = i
      BY <3>2 DEF SlotPushed
    <3>. QED
      BY <3>3, Zenon
  <2>. QED
    BY <2>1, <2>2 DEF SlotsPlaced
<1>. QED
  BY <1>3, <1>4, <1>5, Zenon DEF SlotsPlaced

(* The place that the slot now in place (t, q, j) had before the i-th slot *)
(* of level (s, p) was unlinked.                                           *)
Before(s, p, i, t, q, j) == IF s = t /\ p = q /\ j >= i THEN j + 1 ELSE j

(* The lists m are the lists l without the i-th slot of level (s, p).      *)
OneSlotLess(l, m, s, p, i) ==
    /\ \A t \in Side, q \in Prices : \A j \in 1 .. Len(m[t][q]) :
          /\ Before(s, p, i, t, q, j) \in 1 .. Len(l[t][q])
          /\ m[t][q][j] = l[t][q][Before(s, p, i, t, q, j)]
    /\ \A t \in Side, q \in Prices : \A k \in 1 .. Len(l[t][q]) :
          \/ s = t /\ p = q /\ k = i
          \/ \E j \in 1 .. Len(m[t][q]) : m[t][q][j] = l[t][q][k]

(* The slot that leaves a level, and the lists that are left.              *)
LEMMA UnlinkTakesOneSlot ==
    ASSUME NEW l \in Lists, NEW s \in Side, NEW p \in Prices,
           NEW i \in 1 .. Len(l[s][p])
    PROVE  /\ ListCut(l, s, p, i) \in Lists
           /\ ListCut(l, s, p, i)[s][p] = Cut(l[s][p], i)
           /\ OtherListsSame(l, ListCut(l, s, p, i), s, p)
           /\ Len(ListCut(l, s, p, i)[s][p]) = Len(l[s][p]) - 1
           /\ OneSlotLess(l, ListCut(l, s, p, i), s, p, i)
<1>. DEFINE old == l[s][p]
            new == Cut(old, i)
            m == ListCut(l, s, p, i)
<1>. USE DEF Lists
<1>1. old \in Seq(Slots) /\ Len(old) \in Nat /\ i \in Nat
  BY SeqElements
<1>2. /\ new \in Seq(Slots)
      /\ Len(new) = Len(old) - 1
      /\ \A j \in 1 .. Len(old) - 1 : new[j] = IF j < i THEN old[j] ELSE old[j + 1]
  BY <1>1, CutElements, Zenon
<1>. HIDE DEF new
<1>3. /\ m \in [Side -> [Prices -> Seq(Slots)]]
      /\ \A t \in Side, q \in Prices : m[t][q] = IF t = s /\ q = p THEN new ELSE l[t][q]
  <2>1. m = [l EXCEPT ![s][p] = new]
    BY DEF new, ListCut
  <2>. QED
    BY <1>2, <2>1
<1>. HIDE DEF old, m
<1>4. ASSUME NEW t \in Side, NEW q \in Prices, NEW j \in 1 .. Len(m[t][q])
      PROVE  /\ Before(s, p, i, t, q, j) \in 1 .. Len(l[t][q])
             /\ m[t][q][j] = l[t][q][Before(s, p, i, t, q, j)]
  <2>1. CASE t = s /\ q = p
    <3>1. m[t][q] = new /\ l[t][q] = old
      BY <1>3, <2>1 DEF old
    <3>2. j \in 1 .. Len(old) - 1 /\ Before(s, p, i, t, q, j) = IF j < i THEN j ELSE j + 1
      BY <1>1, <1>2, <2>1, <3>1 DEF Before
    <3>3. new[j] = old[Before(s, p, i, t, q, j)]
      BY <1>2, <3>2, Zenon
    <3>4. Before(s, p, i, t, q, j) \in 1 .. Len(old)
      BY <1>1, <3>2
    <3>. QED
      BY <3>1, <3>3, <3>4, Zenon
  <2>2. CASE ~(t = s /\ q = p)
    BY <1>3, <2>2, Zenon DEF Before
  <2>. QED
    BY <2>1, <2>2, Zenon
<1>5. ASSUME NEW t \in Side, NEW q \in Prices, NEW j \in 1 .. Len(l[t][q])
      PROVE  \/ s = t /\ p = q /\ j = i
             \/ \E k \in 1 .. Len(m[t][q]) : m[t][q][k] = l[t][q][j]
  <2>1. CASE t = s /\ q = p /\ j # i
    <3>1. m[t][q] = new /\ l[t][q] = old
      BY <1>3, <2>1, Zenon DEF old
    <3>2. CASE j < i
      <4>1. j \in 1 .. Len(new) /\ j \in 1 .. Len(old) - 1
        BY <1>1, <1>2, <3>1, <3>2 DEF old
      <4>2. new[j] = old[j]
        BY <1>2, <3>2, <4>1, Zenon
      <4>. QED
        BY <3>1, <4>1, <4>2, Zenon
    <3>3. CASE ~(j < i)
      <4>1. /\ j - 1 \in 1 .. Len(new) /\ j - 1 \in 1 .. Len(old) - 1 /\ (j - 1) + 1 = j
            /\ ~(j - 1 < i)
        BY <1>1, <1>2, <2>1, <3>1, <3>3 DEF old
      <4>2. new[j - 1] = old[j]
        BY <1>2, <4>1, Zenon
      <4>. QED
        BY <3>1, <4>1, <4>2, Zenon
    <3>. QED
      BY <3>2, <3>3
  <2>2. CASE ~(t = s /\ q = p)
    BY <1>3, <2>2, Zenon
  <2>. QED
    BY <2>1, <2>2
<1>6. Len(m[s][p]) = Len(l[s][p]) - 1
  BY <1>2, <1>3, Zenon DEF old
<1>7. OneSlotLess(l, m, s, p, i)
  BY <1>4, <1>5, Zenon DEF OneSlotLess
<1>. QED
  BY <1>3, <1>6, <1>7, Zenon DEF new, old, m, OtherListsSame

(* The slot that moves from a level to the front of the free list g.       *)
LEMMA PlacesAfterUnlink ==
    ASSUME NEW f, NEW l, NEW g, NEW m, NEW s \in Side, NEW p \in Prices,
           NEW i \in 1 .. Len(l[s][p]),
           OneSlotLess(l, m, s, p, i), SlotsPlaced(f, l), Len(f) \in Nat,
           FirstAdded(f, g, l[s][p][i])
    PROVE  /\ SlotsPlaced(g, m)
           /\ SlotTaken(l, m, l[s][p][i])
<1>. USE DEF FirstAdded
<1>1. ASSUME NEW t \in Side, NEW q \in Prices, NEW j \in 1 .. Len(m[t][q])
      PROVE  /\ Before(s, p, i, t, q, j) \in 1 .. Len(l[t][q])
             /\ m[t][q][j] = l[t][q][Before(s, p, i, t, q, j)]
  BY Zenon DEF OneSlotLess
<1>2. ASSUME NEW t \in Side, NEW u \in Side, NEW q \in Prices, NEW r \in Prices,
             NEW j \in 1 .. Len(m[t][q]), NEW k \in 1 .. Len(m[u][r]), m[t][q][j] = m[u][r][k]
      PROVE  t = u /\ q = r /\ j = k
  <2>. DEFINE jb == Before(s, p, i, t, q, j)
              kb == Before(s, p, i, u, r, k)
  <2>1. /\ jb \in 1 .. Len(l[t][q]) /\ m[t][q][j] = l[t][q][jb]
        /\ kb \in 1 .. Len(l[u][r]) /\ m[u][r][k] = l[u][r][kb]
    BY <1>1
  <2>2. t = u /\ q = r /\ jb = kb
    <3>. HIDE DEF jb, kb
    <3>1. l[t][q][jb] = l[u][r][kb]
      BY <1>2, <2>1, Zenon
    <3>. QED
      <4>1. SamePlace(l, t, q, u, r)
        BY MetOnce, Zenon
      <4>. QED
        BY <2>1, <3>1, <4>1, Zenon DEF SamePlace
  <2>. QED
    BY <2>2 DEF Before
<1>3. ASSUME NEW t \in Side, NEW q \in Prices, NEW j \in 1 .. Len(m[t][q])
      PROVE  m[t][q][j] # l[s][p][i]
  <2>. DEFINE jb == Before(s, p, i, t, q, j)
  <2>1. jb \in 1 .. Len(l[t][q]) /\ m[t][q][j] = l[t][q][jb]
    BY <1>1
  <2>2. ~(t = s /\ q = p /\ jb = i)
    BY DEF Before
  <2>. HIDE DEF jb
  <2>3. SamePlace(l, t, q, s, p)
    BY MetOnce, Zenon
  <2>. QED
    BY <2>1, <2>2, <2>3, Zenon DEF SamePlace
<1>4. ASSUME NEW t \in Side, NEW q \in Prices, NEW j \in 1 .. Len(m[t][q]), NEW k \in 1 .. Len(g)
      PROVE  m[t][q][j] # g[k]
  <2>1. CASE k = 1
    BY <1>3, <2>1
  <2>2. CASE k # 1
    <3>1. k - 1 \in 1 .. Len(f) /\ (k - 1) + 1 = k
      BY <2>2
    <3>2. g[k] = f[k - 1]
      BY <3>1, Zenon
    <3>3. \A x \in 1 .. Len(l[t][q]) : l[t][q][x] # f[k - 1]
      BY <3>1, MetNotFree
    <3>4. PICK x \in 1 .. Len(l[t][q]) : m[t][q][j] = l[t][q][x]
      BY <1>1, Zenon
    <3>. QED
      BY <3>2, <3>3, <3>4, Zenon
  <2>. QED
    BY <2>1, <2>2, Zenon
<1>5. ASSUME NEW n \in Slots
      PROVE  \/ \E k \in 1 .. Len(g) : g[k] = n
             \/ \E t \in Side, q \in Prices : \E k \in 1 .. Len(m[t][q]) : m[t][q][k] = n
  <2>1. 1 \in 1 .. Len(g) /\ \A k \in 1 .. Len(f) : k + 1 \in 1 .. Len(g)
    OBVIOUS
  <2>2. CASE \E k \in 1 .. Len(f) : f[k] = n
    BY <2>1, <2>2
  <2>3. CASE \E t \in Side, q \in Prices : \E k \in 1 .. Len(l[t][q]) : l[t][q][k] = n
    <3>1. PICK t \in Side, q \in Prices : \E k \in 1 .. Len(l[t][q]) : l[t][q][k] = n
      BY <2>3
    <3>2. PICK k \in 1 .. Len(l[t][q]) : l[t][q][k] = n
      BY <3>1, Zenon
    <3>3. CASE s = t /\ p = q /\ k = i
      BY <2>1, <3>2, <3>3, Zenon
    <3>4. CASE ~(s = t /\ p = q /\ k = i)
      <4>1. PICK j \in 1 .. Len(m[t][q]) : m[t][q][j] = l[t][q][k]
        BY <3>4, Zenon DEF OneSlotLess
      <4>. QED
        BY <3>2, <4>1, Zenon
    <3>. QED
      BY <3>3, <3>4, Zenon
  <2>. QED
    BY <2>2, <2>3, Zenon DEF SlotsPlaced
<1>6. SlotsPlaced(g, m)
  BY <1>2, <1>4, <1>5, Zenon DEF SlotsPlaced
<1>7. ASSUME NEW t \in Side, NEW q \in Prices, NEW j \in 1 .. Len(m[t][q])
      PROVE  \E k \in 1 .. Len(l[t][q]) : m[t][q][j] = l[t][q][k]
  BY <1>1, Zenon
<1>8. ASSUME NEW t \in Side, NEW q \in Prices, NEW k \in 1 .. Len(l[t][q]), l[t][q][k] # l[s][p][i]
      PROVE  \E j \in 1 .. Len(m[t][q]) : m[t][q][j] = l[t][q][k]
  BY <1>8, Zenon DEF OneSlotLess
<1>9. SlotTaken(l, m, l[s][p][i])
  <2>1. ASSUME NEW t \in Side, NEW q \in Prices, NEW j \in 1 .. Len(m[t][q])
        PROVE  /\ \E k \in 1 .. Len(l[t][q]) : m[t][q][j] = l[t][q][k]
               /\ m[t][q][j] # l[s][p][i]
    <3>1. m[t][q][j] # l[s][p][i]
      BY <1>3
    <3>2. \E k \in 1 .. Len(l[t][q]) : m[t][q][j] = l[t][q][k]
      BY <1>7, Zenon
    <3>. QED
      BY <3>1, <3>2, Zenon
  <2>2. \A t \in Side, q \in Prices : \A k \in 1 .. Len(l[t][q]) :
           \/ l[t][q][k] = l[s][p][i]
           \/ \E j \in 1 .. Len(m[t][q]) : m[t][q][j] = l[t][q][k]
    BY <1>8
  <2>. QED
    BY <2>1, <2>2, Zenon DEF SlotTaken
<1>. QED
  BY <1>6, <1>9, Zenon

(* The links and the quantity of a slot, written one at a time.            *)
LEMMA NextWritten ==
    ASSUME NEW st \in [Slots -> OrderNode], NEW i \in Slots, NEW x \in Link
    PROVE  /\ [st EXCEPT ![i].next = x] \in [Slots -> OrderNode]
           /\ \A j \in Slots :
                 /\ [st EXCEPT ![i].next = x][j].order = st[j].order
                 /\ [st EXCEPT ![i].next = x][j].prev = st[j].prev
                 /\ [st EXCEPT ![i].next = x][j].next = IF j = i THEN x ELSE st[j].next
BY DEF OrderNode

(* A write to `prev` changes nothing else.                                 *)
LEMMA PrevWritten ==
    ASSUME NEW st \in [Slots -> OrderNode], NEW i \in Slots, NEW x \in Link
    PROVE  /\ [st EXCEPT ![i].prev = x] \in [Slots -> OrderNode]
           /\ \A j \in Slots :
                 /\ [st EXCEPT ![i].prev = x][j].order = st[j].order
                 /\ [st EXCEPT ![i].prev = x][j].next = st[j].next
                 /\ [st EXCEPT ![i].prev = x][j].prev = IF j = i THEN x ELSE st[j].prev
BY DEF OrderNode

QtySet(st, i, x) == [st EXCEPT ![i].order.qty = x]

OrderWithQty(o, x) == [o EXCEPT !.qty = x]

(* A write to the quantity of the order in a slot changes no link and no   *)
(* other order.                                                            *)
LEMMA QtyWritten ==
    ASSUME NEW st \in [Slots -> OrderNode], NEW i \in Slots, NEW x \in 0 .. MaxQty,
           st[i].order \in OrderData
    PROVE  /\ QtySet(st, i, x) \in [Slots -> OrderNode]
           /\ \A j \in Slots :
                 /\ QtySet(st, i, x)[j].next = st[j].next
                 /\ QtySet(st, i, x)[j].prev = st[j].prev
                 /\ j # i => QtySet(st, i, x)[j].order = st[j].order
           /\ QtySet(st, i, x)[i].order = OrderWithQty(st[i].order, x)
           /\ QtySet(st, i, x)[i].order \in OrderData
<1>. DEFINE o == OrderWithQty(st[i].order, x)
            n == [st[i] EXCEPT !.order = o]
            w == QtySet(st, i, x)
<1>1. o \in OrderData
  BY DEF OrderData, OrderWithQty
<1>. HIDE DEF o
<1>2. n \in OrderNode /\ n.order = o /\ n.prev = st[i].prev /\ n.next = st[i].next
  BY <1>1 DEF OrderNode
<1>3. w = [st EXCEPT ![i] = n]
  BY DEF o, QtySet, OrderWithQty
<1>. HIDE DEF n, w
<1>4. w \in [Slots -> OrderNode] /\ \A j \in Slots : w[j] = IF j = i THEN n ELSE st[j]
  BY <1>2, <1>3
<1>5. /\ \A j \in Slots :
            /\ w[j].next = st[j].next
            /\ w[j].prev = st[j].prev
            /\ j # i => w[j].order = st[j].order
      /\ w[i].order = o
  BY <1>2, <1>4
<1>. QED
  BY <1>1, <1>4, <1>5, Zenon DEF o, w

(* An order that alloc and push_back take is an order a slot can hold.     *)
LEMMA OrderIsData == Order \subseteq OrderData
BY DEF Order, OrderData

(* push_back writes what Pushes says.                                      *)
LEMMA PushedStoragePushes ==
    ASSUME NEW st \in [Slots -> OrderNode], NEW c \in Seq(Slots), NEW i \in Slots,
           NEW o \in OrderData, NEW level,
           level.tail = IF Len(c) = 0 THEN ARENA_NULL ELSE c[Len(c)],
           \A k \in 1 .. Len(c) : c[k] # i
    PROVE  /\ PushedStorage(st, level, i, o) \in [Slots -> OrderNode]
           /\ Pushes(st, PushedStorage(st, level, i, o), c, i, o)
<1>. DEFINE n == [FromOrder(o) EXCEPT !.prev = level.tail]
            filled == [st EXCEPT ![i] = n]
            t == level.tail
<1>1. Len(c) \in Nat /\ (Len(c) # 0 => t \in Slots /\ t # i /\ t # ARENA_NULL)
  <2>1. Len(c) \in Nat /\ \A k \in 1 .. Len(c) : c[k] \in Slots
    BY SeqElements
  <2>2. Len(c) # 0 => Len(c) \in 1 .. Len(c)
    BY <2>1
  <2>3. \A k \in Slots : k # ARENA_NULL
    BY ArenaAssumption DEF Slots
  <2>. QED
    BY <2>1, <2>2, <2>3
<1>2. n \in OrderNode /\ n.order = o /\ n.prev = t /\ n.next = ARENA_NULL
  BY <1>1 DEF OrderNode, FromOrder, Link
<1>. HIDE DEF n
<1>3. /\ filled \in [Slots -> OrderNode]
      /\ \A j \in Slots : filled[j] = IF j = i THEN n ELSE st[j]
  BY <1>2, Zenon
<1>. HIDE DEF filled
<1>4. CASE Len(c) = 0
  <2>1. PushedStorage(st, level, i, o) = filled
    BY <1>4, Zenon DEF PushedStorage, filled, n
  <2>. QED
    BY <1>2, <1>3, <1>4, <2>1 DEF Pushes
<1>5. CASE Len(c) # 0
  <2>. DEFINE w == [filled EXCEPT ![t].next = i]
  <2>1. PushedStorage(st, level, i, o) = w
    BY <1>1, <1>5 DEF PushedStorage, filled, n
  <2>2. /\ w \in [Slots -> OrderNode]
        /\ \A j \in Slots :
              /\ w[j].order = filled[j].order
              /\ w[j].prev = filled[j].prev
              /\ w[j].next = IF j = t THEN i ELSE filled[j].next
    <3>1. t \in Slots /\ i \in Link
      BY <1>1, <1>5, Zenon DEF Link
    <3>. QED
      BY <1>3, <3>1, NextWritten
  <2>. HIDE DEF w
  <2>. QED
    BY <1>1, <1>2, <1>3, <1>5, <2>1, <2>2 DEF Pushes
<1>. QED
  BY <1>4, <1>5

(* What the links of a slot of a level are.                                *)
LEMMA LevelLinks ==
    ASSUME NEW st, NEW c, NEW level, IsLevel(st, c, level), NEW k \in 1 .. Len(c)
    PROVE  /\ Len(c) \in Nat
           /\ st[c[k]].prev = (IF k = 1 THEN ARENA_NULL ELSE c[k - 1])
           /\ st[c[k]].next = (IF k = Len(c) THEN ARENA_NULL ELSE c[k + 1])
           /\ c[k] \in Slots
           /\ k # 1 => c[k - 1] \in Slots /\ c[k - 1] # ARENA_NULL /\ c[k - 1] # c[k]
           /\ k # Len(c) => c[k + 1] \in Slots /\ c[k + 1] # ARENA_NULL /\ c[k + 1] # c[k]
           /\ k # 1 /\ k # Len(c) => c[k - 1] # c[k + 1]
<1>1. /\ Len(c) \in Nat
      /\ \A j \in 1 .. Len(c) : c[j] \in Slots /\ c[j] # ARENA_NULL
      /\ \A i, j \in 1 .. Len(c) : c[i] = c[j] => i = j
  <2>1. IsList(st, c, level.head)
    BY DEF IsLevel
  <2>2. \A i, j \in 1 .. Len(c) : c[i] = c[j] => i = j
    BY <2>1, Zenon DEF IsList
  <2>. QED
    BY <2>1, <2>2, ListElements, Zenon
<1>2. /\ st[c[k]].prev = (IF k = 1 THEN ARENA_NULL ELSE c[k - 1])
      /\ st[c[k]].next = (IF k = Len(c) THEN ARENA_NULL ELSE c[k + 1])
  BY DEF IsLevel, IsList
<1>3. k # 1 => c[k - 1] \in Slots /\ c[k - 1] # ARENA_NULL /\ c[k - 1] # c[k]
  BY <1>1
<1>4. k # Len(c) => c[k + 1] \in Slots /\ c[k + 1] # ARENA_NULL /\ c[k + 1] # c[k]
  BY <1>1
<1>5. k # 1 /\ k # Len(c) => c[k - 1] # c[k + 1]
  BY <1>1
<1>. QED
  BY <1>1, <1>2, <1>3, <1>4, <1>5

(* remove and dealloc write what Unlinks says.                             *)
LEMMA RemovedStorageUnlinks ==
    ASSUME NEW st \in [Slots -> OrderNode], NEW free \in Link, NEW c, NEW level,
           IsLevel(st, c, level), NEW k \in 1 .. Len(c)
    PROVE  /\ RemovedStorage(st, free, c[k]) \in [Slots -> OrderNode]
           /\ Unlinks(st, RemovedStorage(st, free, c[k]), c, k, free)
<1>. DEFINE i == c[k]
            prev == st[i].prev
            next == st[i].next
            s1 == IF prev = ARENA_NULL THEN st ELSE [st EXCEPT ![prev].next = next]
            s2 == IF next = ARENA_NULL THEN s1 ELSE [s1 EXCEPT ![next].prev = prev]
            s3 == [s2 EXCEPT ![i].next = free]
<1>1. /\ prev = (IF k = 1 THEN ARENA_NULL ELSE c[k - 1])
      /\ next = (IF k = Len(c) THEN ARENA_NULL ELSE c[k + 1])
      /\ i \in Slots /\ prev \in Link /\ next \in Link
      /\ k # 1 => prev \in Slots /\ prev # ARENA_NULL /\ prev # i
      /\ k # Len(c) => next \in Slots /\ next # ARENA_NULL /\ next # i
      /\ k # 1 /\ k # Len(c) => prev # next
  BY LevelLinks DEF Link
<1>2. RemovedStorage(st, free, c[k]) = s3
  BY DEF RemovedStorage
<1>. HIDE DEF prev, next, i
<1>3. /\ s1 \in [Slots -> OrderNode]
      /\ \A j \in Slots :
            /\ s1[j].order = st[j].order
            /\ s1[j].prev = st[j].prev
            /\ s1[j].next = IF k # 1 /\ j = prev THEN next ELSE st[j].next
  <2>1. CASE k = 1
    BY <1>1, <2>1
  <2>2. CASE k # 1
    BY <1>1, <2>2, NextWritten
  <2>. QED
    BY <2>1, <2>2
<1>. HIDE DEF s1
<1>4. /\ s2 \in [Slots -> OrderNode]
      /\ \A j \in Slots :
            /\ s2[j].order = s1[j].order
            /\ s2[j].next = s1[j].next
            /\ s2[j].prev = IF k # Len(c) /\ j = next THEN prev ELSE s1[j].prev
  <2>1. CASE k = Len(c)
    BY <1>1, <1>3, <2>1, Zenon
  <2>2. CASE k # Len(c)
    BY <1>1, <1>3, <2>2, PrevWritten
  <2>. QED
    BY <2>1, <2>2
<1>. HIDE DEF s2
<1>5. /\ s3 \in [Slots -> OrderNode]
      /\ \A j \in Slots :
            /\ s3[j].order = s2[j].order
            /\ s3[j].prev = s2[j].prev
            /\ s3[j].next = IF j = i THEN free ELSE s2[j].next
  BY <1>1, <1>4, NextWritten
<1>. HIDE DEF s3
<1>6. ASSUME NEW j \in Slots
      PROVE  /\ s3[j].order = st[j].order
             /\ s3[j].next = IF j = i THEN free
                             ELSE IF k # 1 /\ j = prev THEN next ELSE st[j].next
             /\ s3[j].prev = IF k # Len(c) /\ j = next THEN prev ELSE st[j].prev
  BY <1>3, <1>4, <1>5, Zenon
<1>7. /\ k # 1 => prev = c[k - 1]
      /\ k # Len(c) => next = c[k + 1]
  BY <1>1
<1>8. Unlinks(st, s3, c, k, free)
  BY <1>6, <1>7, Zenon DEF Unlinks, i, prev, next
<1>. QED
  BY <1>2, <1>5, <1>8, Zenon

(* So do pop_front, of the front, and dealloc.                             *)
LEMMA PoppedStorageUnlinks ==
    ASSUME NEW st \in [Slots -> OrderNode], NEW free \in Link, NEW c, NEW level,
           IsLevel(st, c, level), st[c[1]].order \in OrderData
    PROVE  /\ PoppedStorage(st, free, level) \in [Slots -> OrderNode]
           /\ Unlinks(st, PoppedStorage(st, free, level), c, 1, free)
<1>. DEFINE i == c[1]
            next == st[i].next
            s1 == IF next = ARENA_NULL THEN st ELSE [st EXCEPT ![next].prev = ARENA_NULL]
            s2 == [s1 EXCEPT ![i].next = free]
            s3 == [s2 EXCEPT ![i].order.qty = 0]
<1>0. 1 \in 1 .. Len(c) /\ Len(c) \in Nat /\ level.head = c[1]
  BY ListElements DEF IsLevel, IsList
<1>1. /\ next = (IF 1 = Len(c) THEN ARENA_NULL ELSE c[1 + 1])
      /\ st[i].prev = ARENA_NULL
      /\ i \in Slots
      /\ 1 # Len(c) => next \in Slots /\ next # ARENA_NULL /\ next # i
  <2>1. ASSUME NEW k \in 1 .. Len(c)
        PROVE  /\ st[c[k]].prev = (IF k = 1 THEN ARENA_NULL ELSE c[k - 1])
               /\ st[c[k]].next = (IF k = Len(c) THEN ARENA_NULL ELSE c[k + 1])
               /\ c[k] \in Slots
               /\ k # Len(c) => c[k + 1] \in Slots /\ c[k + 1] # ARENA_NULL /\ c[k + 1] # c[k]
    BY LevelLinks
  <2>. QED
    BY <1>0, <2>1, Zenon
<1>2. PoppedStorage(st, free, level) = s3
  BY <1>0 DEF PoppedStorage
<1>. HIDE DEF next, i
<1>3. /\ s1 \in [Slots -> OrderNode]
      /\ \A j \in Slots :
            /\ s1[j].order = st[j].order
            /\ s1[j].next = st[j].next
            /\ s1[j].prev = IF 1 # Len(c) /\ j = next THEN ARENA_NULL ELSE st[j].prev
  <2>1. CASE 1 = Len(c)
    BY <1>1, <2>1
  <2>2. CASE 1 # Len(c)
    <3>1. next \in Slots /\ ARENA_NULL \in Link
      BY <1>1, <2>2 DEF Link
    <3>. QED
      BY <1>1, <2>2, <3>1, PrevWritten
  <2>. QED
    BY <2>1, <2>2
<1>. HIDE DEF s1
<1>4. /\ s2 \in [Slots -> OrderNode]
      /\ \A j \in Slots :
            /\ s2[j].order = s1[j].order
            /\ s2[j].prev = s1[j].prev
            /\ s2[j].next = IF j = i THEN free ELSE s1[j].next
  BY <1>1, <1>3, NextWritten
<1>. HIDE DEF s2
<1>5. /\ s3 \in [Slots -> OrderNode]
      /\ \A j \in Slots :
            /\ s3[j].next = s2[j].next
            /\ s3[j].prev = s2[j].prev
            /\ j # i => s3[j].order = s2[j].order
  <2>1. /\ s2 \in [Slots -> OrderNode] /\ i \in Slots
        /\ s2[i].order \in OrderData /\ 0 \in 0 .. MaxQty
    BY <1>1, <1>3, <1>4, OrdersAssumption DEF i
  <2>2. s3 = QtySet(s2, i, 0)
    BY Zenon DEF QtySet
  <2>. HIDE DEF s3
  <2>3. /\ QtySet(s2, i, 0) \in [Slots -> OrderNode]
        /\ \A j \in Slots :
              /\ QtySet(s2, i, 0)[j].next = s2[j].next
              /\ QtySet(s2, i, 0)[j].prev = s2[j].prev
              /\ j # i => QtySet(s2, i, 0)[j].order = s2[j].order
    BY <2>1, QtyWritten
  <2>. QED
    BY <2>2, <2>3, Zenon
<1>. HIDE DEF s3
<1>6. ASSUME NEW j \in Slots
      PROVE  /\ j # i => s3[j].order = st[j].order
             /\ s3[j].next = IF j = i THEN free ELSE st[j].next
             /\ s3[j].prev = IF 1 # Len(c) /\ j = next THEN ARENA_NULL ELSE st[j].prev
  <2>1. i \in Slots
    BY <1>1, Zenon
  <2>. QED
    BY <2>1, <1>3, <1>4, <1>5, Zenon
<1>7. 1 # Len(c) => next = c[1 + 1]
  BY <1>1
<1>8. Unlinks(st, s3, c, 1, free)
  BY <1>1, <1>6, <1>7 DEF Unlinks, i, next
<1>. QED
  BY <1>2, <1>5, <1>8, Zenon

(* A map without a key: what is left of it.                                *)
LEMMA WithoutKey ==
    ASSUME NEW map, NEW key
    PROVE  /\ DOMAIN Without(map, key) = DOMAIN map \ {key}
           /\ Without(map, key) = [k \in DOMAIN Without(map, key) |-> Without(map, key)[k]]
           /\ \A k \in DOMAIN map : k # key => Without(map, key)[k] = map[k]
BY Zenon DEF Without

(* The maps of levels L and L2 differ at most in the level (s, p).         *)
OnlyLevel(L, L2, s, p) ==
    \A t \in Side, q \in Prices :
        \/ t = s /\ q = p
        \/ /\ q \in DOMAIN L[t] <=> q \in DOMAIN L2[t]
           /\ q \in DOMAIN L[t] => L2[t][q] = L[t][q]

(* One side's map is replaced by X, which differs at most in p.            *)
LEMMA OneSideWritten ==
    ASSUME NEW L, LevelMaps(L), NEW s \in Side, NEW p \in Prices, NEW X,
           X = [q \in DOMAIN X |-> X[q]],
           DOMAIN X \subseteq Prices, \A q \in DOMAIN X : X[q] \in PriceLevel,
           \A q \in Prices : q # p => /\ q \in DOMAIN L[s] <=> q \in DOMAIN X
                                      /\ q \in DOMAIN L[s] => X[q] = L[s][q]
    PROVE  /\ LevelMaps([L EXCEPT ![s] = X])
           /\ OnlyLevel(L, [L EXCEPT ![s] = X], s, p)
           /\ [L EXCEPT ![s] = X][s] = X
<1>. DEFINE L2 == [L EXCEPT ![s] = X]
<1>1. L2[s] = X /\ \A t \in Side : t # s => L2[t] = L[t]
  BY Zenon DEF LevelMaps
<1>2. L2 = [t \in Side |-> L2[t]]
  BY DEF LevelMaps
<1>. HIDE DEF L2
<1>3. \A t \in Side : L[t] = [q \in DOMAIN L[t] |-> L[t][q]]
  BY DEF LevelMaps
<1>4. \A t \in Side : L2[t] = [q \in DOMAIN L2[t] |-> L2[t][q]]
  BY <1>1, <1>3, Zenon
<1>5. L2 = [t \in Side |-> [q \in DOMAIN L2[t] |-> L2[t][q]]]
  BY <1>2, <1>4
<1>6. \A t \in Side : DOMAIN L2[t] \subseteq Prices /\ \A q \in DOMAIN L2[t] : L2[t][q] \in PriceLevel
  BY <1>1, Zenon DEF LevelMaps
<1>7. OnlyLevel(L, L2, s, p)
  BY <1>1, Zenon DEF OnlyLevel
<1>8. LevelMaps(L2)
  BY <1>5, <1>6 DEF LevelMaps
<1>. QED
  BY <1>1, <1>7, <1>8 DEF L2

(* insert_order: levels.entry(price).or_insert(..)                         *)
LevelPut(L, s, p, level) == [L EXCEPT ![s] = With(@, p, level)]

(* A level put into its map, new or not, changes no other level.           *)
LEMMA LevelWritten ==
    ASSUME NEW L, LevelMaps(L), NEW s \in Side, NEW p \in Prices, NEW level \in PriceLevel
    PROVE  /\ LevelMaps(LevelPut(L, s, p, level))
           /\ OnlyLevel(L, LevelPut(L, s, p, level), s, p)
           /\ p \in DOMAIN LevelPut(L, s, p, level)[s]
           /\ LevelPut(L, s, p, level)[s][p] = level
<1>. DEFINE X == With(L[s], p, level)
<1>1. /\ DOMAIN X = DOMAIN L[s] \cup {p} /\ X = [q \in DOMAIN X |-> X[q]]
      /\ X[p] = level /\ \A q \in DOMAIN L[s] : q # p => X[q] = L[s][q]
  BY DEF With
<1>. HIDE DEF X
<1>2. DOMAIN X \subseteq Prices /\ \A q \in DOMAIN X : X[q] \in PriceLevel
  BY <1>1 DEF LevelMaps
<1>3. \A q \in Prices : q # p => /\ q \in DOMAIN L[s] <=> q \in DOMAIN X
                                 /\ q \in DOMAIN L[s] => X[q] = L[s][q]
  BY <1>1, Zenon
<1>4. /\ LevelMaps([L EXCEPT ![s] = X])
      /\ OnlyLevel(L, [L EXCEPT ![s] = X], s, p)
      /\ [L EXCEPT ![s] = X][s] = X
  BY <1>1, <1>2, <1>3, OneSideWritten
<1>5. LevelPut(L, s, p, level) = [L EXCEPT ![s] = X]
  BY DEF X, LevelMaps, LevelPut
<1>6. p \in DOMAIN X
  BY <1>1
<1>. QED
  BY <1>1, <1>4, <1>5, <1>6, Zenon

(* A level whose count has come to zero leaves the map.                    *)
LevelDrop(L, s, p) == [L EXCEPT ![s] = Without(@, p)]

(* A level removed from its map changes no other level.                    *)
LEMMA LevelDropped ==
    ASSUME NEW L, LevelMaps(L), NEW s \in Side, NEW p \in Prices
    PROVE  /\ LevelMaps(LevelDrop(L, s, p))
           /\ OnlyLevel(L, LevelDrop(L, s, p), s, p)
           /\ p \notin DOMAIN LevelDrop(L, s, p)[s]
<1>. DEFINE X == Without(L[s], p)
<1>1. /\ DOMAIN X = DOMAIN L[s] \ {p} /\ X = [q \in DOMAIN X |-> X[q]]
      /\ \A q \in DOMAIN L[s] : q # p => X[q] = L[s][q]
  BY WithoutKey, Zenon
<1>. HIDE DEF X
<1>2. DOMAIN X \subseteq Prices /\ \A q \in DOMAIN X : X[q] \in PriceLevel
  BY <1>1, Zenon DEF LevelMaps
<1>3. \A q \in Prices : q # p => /\ q \in DOMAIN L[s] <=> q \in DOMAIN X
                                 /\ q \in DOMAIN L[s] => X[q] = L[s][q]
  BY <1>1, Zenon
<1>4. /\ LevelMaps([L EXCEPT ![s] = X])
      /\ OnlyLevel(L, [L EXCEPT ![s] = X], s, p)
      /\ [L EXCEPT ![s] = X][s] = X
  BY <1>1, <1>2, <1>3, OneSideWritten
<1>5. LevelDrop(L, s, p) = [L EXCEPT ![s] = X]
  BY DEF X, LevelMaps, LevelDrop
<1>6. p \notin DOMAIN X
  BY <1>1
<1>. QED
  BY <1>4, <1>5, <1>6, Zenon

(* A level that stays in the map is changed in place.                      *)
LevelSet(L, s, p, level) == [L EXCEPT ![s][p] = level]

(* A level of the map written in place changes no other level.             *)
LEMMA LevelChanged ==
    ASSUME NEW L, LevelMaps(L), NEW s \in Side, NEW p \in DOMAIN L[s], NEW level \in PriceLevel
    PROVE  /\ LevelMaps(LevelSet(L, s, p, level))
           /\ OnlyLevel(L, LevelSet(L, s, p, level), s, p)
           /\ p \in DOMAIN LevelSet(L, s, p, level)[s]
           /\ LevelSet(L, s, p, level)[s][p] = level
<1>. DEFINE X == [L[s] EXCEPT ![p] = level]
<1>1. /\ DOMAIN X = DOMAIN L[s] /\ X = [q \in DOMAIN X |-> X[q]]
      /\ X[p] = level /\ \A q \in DOMAIN L[s] : q # p => X[q] = L[s][q]
  OBVIOUS
<1>2. LevelSet(L, s, p, level) = [L EXCEPT ![s] = X]
  BY DEF LevelMaps, LevelSet
<1>. HIDE DEF X
<1>3. p \in Prices /\ DOMAIN X \subseteq Prices /\ \A q \in DOMAIN X : X[q] \in PriceLevel
  BY <1>1 DEF LevelMaps
<1>4. \A q \in Prices : q # p => /\ q \in DOMAIN L[s] <=> q \in DOMAIN X
                                 /\ q \in DOMAIN L[s] => X[q] = L[s][q]
  BY <1>1, Zenon
<1>5. /\ LevelMaps([L EXCEPT ![s] = X])
      /\ OnlyLevel(L, [L EXCEPT ![s] = X], s, p)
      /\ [L EXCEPT ![s] = X][s] = X
  BY <1>1, <1>3, <1>4, OneSideWritten
<1>6. p \in DOMAIN X
  BY <1>1, Zenon
<1>. QED
  BY <1>1, <1>2, <1>5, <1>6, Zenon

(* No link of another level's list is written.                             *)
OtherLinksSame(st, st2, l, s, p) ==
    \A t \in Side, q \in Prices : \A k \in 1 .. Len(l[t][q]) :
        \/ t = s /\ q = p
        \/ /\ st2[l[t][q][k]].next = st[l[t][q][k]].next
           /\ st2[l[t][q][k]].prev = st[l[t][q][k]].prev

(* When one level changes and no link of another level is written, the     *)
(* other levels keep their lists.                                          *)
LEMMA OtherLevelsKept ==
    ASSUME NEW st, NEW st2, NEW L, NEW L2, NEW l, NEW m \in Lists, NEW s \in Side, NEW p \in Prices,
           LevelSlots(st, L, l), OnlyLevel(L, L2, s, p), OtherListsSame(l, m, s, p),
           OtherLinksSame(st, st2, l, s, p),
           p \in DOMAIN L2[s] <=> Len(m[s][p]) # 0,
           p \in DOMAIN L2[s] => IsLevel(st2, m[s][p], L2[s][p])
    PROVE  LevelSlots(st2, L2, m)
<1>. USE DEF OtherListsSame, OtherLinksSame, Lists
<1>1. ASSUME NEW t \in Side, NEW q \in Prices
      PROVE  q \in DOMAIN L2[t] <=> Len(m[t][q]) # 0
  <2>1. CASE ~(t = s /\ q = p)
    <3>1. (q \in DOMAIN L[t] <=> q \in DOMAIN L2[t]) /\ m[t][q] = l[t][q]
      BY <2>1, Zenon DEF OnlyLevel
    <3>2. q \in DOMAIN L[t] <=> Len(l[t][q]) # 0
      BY Zenon DEF LevelSlots
    <3>. QED
      BY <3>1, <3>2, Zenon
  <2>. QED
    BY <2>1
<1>2. ASSUME NEW t \in Side, NEW q \in Prices, q \in DOMAIN L2[t]
      PROVE  IsLevel(st2, m[t][q], L2[t][q])
  <2>1. CASE t = s /\ q = p
    BY <1>2, <2>1, Zenon
  <2>2. CASE ~(t = s /\ q = p)
    <3>. DEFINE c == l[t][q]
                v == L[t][q]
    <3>1. q \in DOMAIN L[t] /\ L2[t][q] = v /\ m[t][q] = c
      BY <1>2, <2>2, Zenon DEF OnlyLevel
    <3>2. IsLevel(st, c, v)
      BY <3>1, Zenon DEF LevelSlots
    <3>3. \A k \in 1 .. Len(c) : st2[c[k]].next = st[c[k]].next /\ st2[c[k]].prev = st[c[k]].prev
      BY <2>2, Zenon
    <3>. HIDE DEF c, v
    <3>4. IsLevel(st2, c, v)
      BY <3>2, <3>3, LevelUntouched, Zenon
    <3>. QED
      BY <3>1, <3>4
  <2>. QED
    BY <2>1, <2>2, Zenon
<1>. QED
  BY <1>1, <1>2, Zenon DEF LevelSlots

(* The index gets the entry id -> i, or loses the entry of id.             *)
IndexAdds(index, index2, id, i) ==
    /\ id \notin DOMAIN index
    /\ DOMAIN index2 = DOMAIN index \cup {id}
    /\ index2[id] = i
    /\ \A x \in DOMAIN index : x # id => index2[x] = index[x]

IndexDrops(index, index2, id) ==
    /\ DOMAIN index2 = DOMAIN index \ {id}
    /\ \A x \in DOMAIN index : x # id => index2[x] = index[x]

(* insert_order adds one order, under a new id, to the index and to the    *)
(* end of its level.                                                       *)
LEMMA OrdersAfterPush ==
    ASSUME NEW st, NEW st2, NEW index, NEW index2, NEW l, NEW m, NEW i \in Slots,
           NEW s \in Side, NEW p \in Prices,
           NEW o \in Order, o.side = s, o.price = p,
           OrdersPlaced(st, index, l), IndexPlaced(st, index, l),
           SlotsOtherThan(l, i), SlotPushed(l, m, s, p, i),
           NEW c, Pushes(st, st2, c, i, o), IndexAdds(index, index2, o.id, i)
    PROVE  OrdersPlaced(st2, index2, m) /\ IndexPlaced(st2, index2, m)
<1>. USE DEF IndexAdds
<1>0. \A j \in Slots : st2[j].order = IF j = i THEN o ELSE st[j].order
  BY Zenon DEF Pushes
<1>1. st2[i].order = o
  BY <1>0
<1>2. ASSUME NEW t \in Side, NEW q \in Prices, NEW j \in 1 .. Len(m[t][q])
      PROVE  OrderPlaced(st2, index2, t, q, m[t][q][j])
  <2>. DEFINE e == m[t][q][j]
  <2>1. CASE j \in 1 .. Len(l[t][q]) /\ e = l[t][q][j]
    <3>1. OrderPlaced(st, index, t, q, e)
      BY <2>1, Zenon DEF OrdersPlaced
    <3>2. e \in Slots /\ e # i
      BY <2>1 DEF SlotsOtherThan
    <3>. HIDE DEF e
    <3>3. st2[e].order = st[e].order
      BY <1>0, <3>2, Zenon
    <3>4. OrderPlaced(st2, index2, t, q, e)
      BY <3>1, <3>3, Zenon DEF OrderPlaced
    <3>. QED
      BY <3>4 DEF e
  <2>2. CASE t = s /\ q = p /\ e = i
    <3>. HIDE DEF e
    <3>1. OrderPlaced(st2, index2, t, q, e)
      BY <1>1, <2>2 DEF OrderPlaced
    <3>. QED
      BY <3>1 DEF e
  <2>. QED
    BY <2>1, <2>2 DEF SlotPushed
<1>3. ASSUME NEW id \in DOMAIN index2
      PROVE  \E t \in Side, q \in Prices : \E k \in 1 .. Len(m[t][q]) :
                m[t][q][k] = index2[id] /\ st2[m[t][q][k]].order.id = id
  <2>1. CASE id = o.id
    <3>1. PICK n \in 1 .. Len(m[s][p]) : m[s][p][n] = i
      BY Zenon DEF SlotPushed
    <3>2. m[s][p][n] = index2[id] /\ st2[m[s][p][n]].order.id = id
      BY <1>1, <2>1, <3>1
    <3>. QED
      BY <3>2, Zenon
  <2>2. CASE id # o.id
    <3>1. id \in DOMAIN index /\ index2[id] = index[id]
      BY <2>2
    <3>2. PICK t \in Side, q \in Prices : \E k \in 1 .. Len(l[t][q]) :
             l[t][q][k] = index[id] /\ st[l[t][q][k]].order.id = id
      BY <3>1, Zenon DEF IndexPlaced
    <3>3. PICK k \in 1 .. Len(l[t][q]) : l[t][q][k] = index[id] /\ st[l[t][q][k]].order.id = id
      BY <3>2, Zenon
    <3>4. k \in 1 .. Len(m[t][q]) /\ m[t][q][k] = l[t][q][k]
      BY DEF SlotPushed
    <3>5. l[t][q][k] \in Slots /\ l[t][q][k] # i
      BY Zenon DEF SlotsOtherThan
    <3>6. st2[l[t][q][k]].order = st[l[t][q][k]].order
      BY <1>0, <3>5
    <3>7. m[t][q][k] = index2[id] /\ st2[m[t][q][k]].order.id = id
      BY <3>1, <3>3, <3>4, <3>6, Zenon
    <3>. QED
      BY <3>4, <3>7, Zenon
  <2>. QED
    BY <2>1, <2>2, Zenon
<1>4. OrdersPlaced(st2, index2, m)
  BY <1>2 DEF OrdersPlaced
<1>5. IndexPlaced(st2, index2, m)
  BY <1>3, Zenon DEF IndexPlaced
<1>. QED
  BY <1>4, <1>5, Zenon

(* The order in slot i leaves its level and the index.                     *)
LEMMA OrdersAfterUnlink ==
    ASSUME NEW st, NEW st2, NEW index, NEW index2, NEW l, NEW m, NEW i,
           NEW s, NEW p, OrderPlaced(st, index, s, p, i),
           OrdersPlaced(st, index, l), IndexPlaced(st, index, l),
           SlotsOnly(l), SlotTaken(l, m, i),
           NEW c, NEW n, NEW free, c[n] = i, Unlinks(st, st2, c, n, free),
           IndexDrops(index, index2, st[i].order.id)
    PROVE  OrdersPlaced(st2, index2, m) /\ IndexPlaced(st2, index2, m)
<1>. USE DEF IndexDrops
<1>0. \A j \in Slots : j # i => st2[j].order = st[j].order
  BY Zenon DEF Unlinks
<1>1. index[st[i].order.id] = i
  BY Zenon DEF OrderPlaced
<1>2. ASSUME NEW t \in Side, NEW q \in Prices, NEW j \in 1 .. Len(m[t][q])
      PROVE  OrderPlaced(st2, index2, t, q, m[t][q][j])
  <2>. DEFINE e == m[t][q][j]
  <2>1. PICK k \in 1 .. Len(l[t][q]) : e = l[t][q][k]
    BY DEF SlotTaken
  <2>2. e # i
    BY DEF SlotTaken
  <2>3. e \in Slots
    BY <2>1, Zenon DEF SlotsOnly
  <2>4. OrderPlaced(st, index, t, q, l[t][q][k])
    BY DEF OrdersPlaced
  <2>5. OrderPlaced(st, index, t, q, e)
    BY <2>1, <2>4, Zenon
  <2>. HIDE DEF e
  <2>6. st2[e].order = st[e].order
    BY <1>0, <2>2, <2>3
  <2>7. st[e].order.id # st[i].order.id
    BY <1>1, <2>2, <2>5, Zenon DEF OrderPlaced
  <2>8. OrderPlaced(st2, index2, t, q, e)
    BY <2>5, <2>6, <2>7, Zenon DEF OrderPlaced
  <2>. QED
    BY <2>8, Zenon DEF e
<1>3. ASSUME NEW id \in DOMAIN index2
      PROVE  \E t \in Side, q \in Prices : \E k \in 1 .. Len(m[t][q]) :
                m[t][q][k] = index2[id] /\ st2[m[t][q][k]].order.id = id
  <2>1. id \in DOMAIN index /\ id # st[i].order.id /\ index2[id] = index[id]
    BY Zenon
  <2>2. PICK t \in Side, q \in Prices : \E k \in 1 .. Len(l[t][q]) :
           l[t][q][k] = index[id] /\ st[l[t][q][k]].order.id = id
    BY <2>1, Zenon DEF IndexPlaced
  <2>3. PICK k \in 1 .. Len(l[t][q]) : l[t][q][k] = index[id] /\ st[l[t][q][k]].order.id = id
    BY <2>2, Zenon
  <2>4. l[t][q][k] # i /\ l[t][q][k] \in Slots
    BY <2>1, <2>3, Zenon DEF SlotsOnly
  <2>5. PICK j \in 1 .. Len(m[t][q]) : m[t][q][j] = l[t][q][k]
    BY <2>4 DEF SlotTaken
  <2>6. st2[l[t][q][k]].order = st[l[t][q][k]].order
    BY <1>0, <2>4
  <2>7. m[t][q][j] = index2[id] /\ st2[m[t][q][j]].order.id = id
    BY <2>1, <2>3, <2>5, <2>6, Zenon
  <2>. QED
    BY <2>7, Zenon
<1>4. OrdersPlaced(st2, index2, m)
  BY <1>2 DEF OrdersPlaced
<1>5. IndexPlaced(st2, index2, m)
  BY <1>3, Zenon DEF IndexPlaced
<1>. QED
  BY <1>4, <1>5, Zenon

(* No link of the free list is written, and i is not on it.                *)
FreeLinksSame(st, st2, f, i) ==
    \A j \in 1 .. Len(f) : f[j] # i /\ st2[f[j]].next = st[f[j]].next

(* What a slot of a level and its neighbours have to do with other lists:  *)
(* nothing.                                                                *)
LEMMA UnlinkIsLocal ==
    ASSUME NEW f, NEW l, NEW st, NEW st2, NEW free, NEW s \in Side, NEW p \in Prices,
           NEW k \in 1 .. Len(l[s][p]), Len(l[s][p]) \in Nat, SlotsPlaced(f, l), SlotsOnly(l),
           f \in Seq(Slots),
           Unlinks(st, st2, l[s][p], k, free)
    PROVE  /\ OtherLinksSame(st, st2, l, s, p)
           /\ FreeLinksSame(st, st2, f, l[s][p][k])
<1>1. /\ k # 1 => k - 1 \in 1 .. Len(l[s][p])
      /\ k # Len(l[s][p]) => k + 1 \in 1 .. Len(l[s][p])
  OBVIOUS
<1>2. ASSUME NEW t \in Side, NEW q \in Prices, NEW j \in 1 .. Len(l[t][q]), ~(t = s /\ q = p)
      PROVE  /\ st2[l[t][q][j]].next = st[l[t][q][j]].next
             /\ st2[l[t][q][j]].prev = st[l[t][q][j]].prev
  <2>1. \A x \in 1 .. Len(l[s][p]) : l[t][q][j] # l[s][p][x]
    BY <1>2 DEF SlotsPlaced
  <2>2. l[t][q][j] \in Slots
    BY Zenon DEF SlotsOnly
  <2>. QED
    BY <1>1, <2>1, <2>2, Zenon DEF Unlinks
<1>3. ASSUME NEW j \in 1 .. Len(f)
      PROVE  f[j] # l[s][p][k] /\ st2[f[j]].next = st[f[j]].next
  <2>1. \A x \in 1 .. Len(l[s][p]) : f[j] # l[s][p][x]
    BY DEF SlotsPlaced
  <2>2. f[j] \in Slots
    BY SeqElements, Zenon
  <2>. QED
    BY <1>1, <2>1, <2>2, Zenon DEF Unlinks
<1>4. OtherLinksSame(st, st2, l, s, p)
  BY <1>2, Zenon DEF OtherLinksSame
<1>. QED
  BY <1>3, <1>4 DEF FreeLinksSame

(* The arithmetic on a level's qty stays in 0 .. MaxQty.                   *)
LEMMA QtyStaysInRange ==
    ASSUME NEW a \in 0 .. MaxQty, NEW b \in 0 .. MaxQty
    PROVE  AddQty(a, b) \in 0 .. MaxQty /\ SubQty(a, b) \in 0 .. MaxQty
BY OrdersAssumption DEF AddQty, SubQty

(* A partial fill writes the quantity of the front order and of its level. *)
LevelLess(level, q) == [level EXCEPT !.qty = SubQty(@, q)]

(* An order whose quantity is written is an order of the same id, side and *)
(* price.                                                                  *)
LEMMA OrderKeepsFields ==
    ASSUME NEW o \in Order, NEW x \in 1 .. MaxQty
    PROVE  /\ OrderWithQty(o, x) \in Order
           /\ OrderWithQty(o, x).id = o.id
           /\ OrderWithQty(o, x).side = o.side
           /\ OrderWithQty(o, x).price = o.price
           /\ OrderWithQty(o, x).qty = x
BY Zenon DEF Order, OrderWithQty

(* Following the links of a level gives its list.                          *)
LEMMA LevelChainIsList ==
    ASSUME NEW st, NEW L, NEW l, LevelSlots(st, L, l), NEW s \in Side, NEW p \in Prices
    PROVE  (IF p \in DOMAIN L[s] THEN Chain(st, L[s][p].head) ELSE <<>>) = l[s][p]
<1>1. l[s][p] \in Seq(Slots) /\ (p \in DOMAIN L[s] <=> Len(l[s][p]) # 0)
  BY Zenon DEF LevelSlots
<1>2. CASE p \in DOMAIN L[s]
  <2>1. IsList(st, l[s][p], L[s][p].head)
    BY <1>2, Zenon DEF LevelSlots, IsLevel
  <2>. QED
    BY <1>2, <2>1, ChainOfList, Zenon
<1>3. CASE p \notin DOMAIN L[s]
  BY <1>1, <1>3, EmptyIffLenZero, Zenon
<1>. QED
  BY <1>2, <1>3, Zenon
-----------------------------------------------------------------------------
(* The queues of orders that the lists stand for.                          *)

(* Two storages hold the same orders, except perhaps in the slot i.        *)
OrdersSameBut(st, st2, i) == \A j \in Slots : j # i => st2[j].order = st[j].order

(* The slots of c hold orders.                                             *)
HoldsOrders(st, c) == \A k \in 1 .. Len(c) : st[c[k]].order \in Order

(* The orders of a list, read from its front.                              *)
LEMMA QueueElements ==
    ASSUME NEW st, NEW c \in Seq(Slots), HoldsOrders(st, c)
    PROVE  /\ QueueOf(st, c) \in Seq(Order)
           /\ Len(QueueOf(st, c)) = Len(c)
           /\ \A k \in 1 .. Len(c) : QueueOf(st, c)[k] = st[c[k]].order
<1>1. Len(c) \in Nat
  BY SeqElements, Zenon
<1>. QED
  BY <1>1 DEF QueueOf, HoldsOrders

(* Sequences with the same elements are the same.                          *)
LEMMA SameElements ==
    ASSUME NEW S, NEW q \in Seq(S), NEW r \in Seq(S), Len(q) = Len(r),
           \A k \in 1 .. Len(q) : q[k] = r[k]
    PROVE  q = r
BY SeqExtensional, Zenon

(* A list whose slots were not written stands for the same queue.          *)
LEMMA QueueUntouched ==
    ASSUME NEW st, NEW st2, NEW i, NEW c \in Seq(Slots), HoldsOrders(st, c), OrdersSameBut(st, st2, i),
           \A k \in 1 .. Len(c) : c[k] # i
    PROVE  QueueOf(st2, c) = QueueOf(st, c)
<1>1. \A k \in 1 .. Len(c) : c[k] \in Slots
  BY SeqElements, Zenon
<1>2. \A k \in 1 .. Len(c) : st2[c[k]].order = st[c[k]].order
  BY <1>1, Zenon DEF OrdersSameBut
<1>. QED
  BY <1>2, Zenon DEF QueueOf

(* st2 is st with the order o in the slot i, which the list c does not have. *)
OrderWritten(st, st2, c, i, o) ==
    /\ c \in Seq(Slots) /\ i \in Slots /\ o \in Order
    /\ HoldsOrders(st, c) /\ OrdersSameBut(st, st2, i) /\ st2[i].order = o
    /\ \A k \in 1 .. Len(c) : c[k] # i

(* A slot at the end of the list is an order at the end of the queue.      *)
LEMMA QueueGrows ==
    ASSUME NEW st, NEW st2, NEW c, NEW i, NEW o, OrderWritten(st, st2, c, i, o)
    PROVE  QueueOf(st2, Append(c, i)) = Append(QueueOf(st, c), o)
<1>. /\ c \in Seq(Slots) /\ i \in Slots /\ o \in Order
     /\ HoldsOrders(st, c) /\ OrdersSameBut(st, st2, i) /\ st2[i].order = o
     /\ \A k \in 1 .. Len(c) : c[k] # i
  BY Zenon DEF OrderWritten
<1>. DEFINE d == Append(c, i)
            q == QueueOf(st, c)
            r == Append(q, o)
            q2 == QueueOf(st2, d)
<1>1. /\ q \in Seq(Order) /\ Len(q) = Len(c) /\ Len(c) \in Nat
      /\ \A k \in 1 .. Len(c) : q[k] = st[c[k]].order
  BY QueueElements, SeqElements, Zenon
<1>2. /\ d \in Seq(Slots) /\ Len(d) = Len(c) + 1
      /\ d[Len(c) + 1] = i
      /\ \A k \in 1 .. Len(c) : d[k] = c[k] /\ c[k] \in Slots
  BY AppendElements, SeqElements
<1>. HIDE DEF q, d
<1>3. /\ r \in Seq(Order) /\ Len(r) = Len(c) + 1
      /\ r[Len(c) + 1] = o
      /\ \A k \in 1 .. Len(c) : r[k] = q[k]
  BY <1>1, AppendElements
<1>. HIDE DEF r
<1>4. ASSUME NEW k \in 1 .. Len(d) PROVE st2[d[k]].order \in Order /\ st2[d[k]].order = r[k]
  <2>1. CASE k = Len(c) + 1
    BY <1>2, <1>3, <2>1, Zenon
  <2>2. CASE k \in 1 .. Len(c)
    BY <1>1, <1>2, <1>3, <2>2 DEF OrdersSameBut, HoldsOrders
  <2>. QED
    BY <1>1, <1>2, <2>1, <2>2
<1>5. /\ q2 \in Seq(Order) /\ Len(q2) = Len(d)
      /\ \A k \in 1 .. Len(d) : q2[k] = st2[d[k]].order
  BY <1>2, <1>4, QueueElements DEF HoldsOrders
<1>. HIDE DEF q2
<1>6. q2 = r
  BY <1>2, <1>3, <1>4, <1>5, SameElements
<1>. QED
  BY <1>6, Zenon DEF q2, r, q, d

(* A list without its k-th slot is the queue without its k-th order.       *)
LEMMA QueueShrinks ==
    ASSUME NEW st, NEW st2, NEW c \in Seq(Slots), NEW k \in 1 .. Len(c), Distinct(c),
           HoldsOrders(st, c), OrdersSameBut(st, st2, c[k])
    PROVE  QueueOf(st2, Cut(c, k)) = Cut(QueueOf(st, c), k)
<1>. DEFINE d == Cut(c, k)
            q == QueueOf(st, c)
            r == Cut(q, k)
            q2 == QueueOf(st2, d)
<1>1. /\ q \in Seq(Order) /\ Len(q) = Len(c) /\ Len(c) \in Nat
      /\ \A j \in 1 .. Len(c) : q[j] = st[c[j]].order /\ c[j] \in Slots
  BY QueueElements, SeqElements, Zenon
<1>2. /\ d \in Seq(Slots) /\ Len(d) = Len(c) - 1
      /\ \A j \in 1 .. Len(c) - 1 : d[j] = IF j < k THEN c[j] ELSE c[j + 1]
  BY CutElements, Zenon
<1>. HIDE DEF q, d
<1>3. /\ r \in Seq(Order) /\ Len(r) = Len(c) - 1
      /\ \A j \in 1 .. Len(c) - 1 : r[j] = IF j < k THEN q[j] ELSE q[j + 1]
  BY <1>1, CutElements
<1>. HIDE DEF r
<1>4. ASSUME NEW j \in 1 .. Len(d) PROVE st2[d[j]].order \in Order /\ st2[d[j]].order = r[j]
  <2>1. PICK h \in 1 .. Len(c) : h # k /\ d[j] = c[h] /\ r[j] = q[h]
    <3>1. j \in 1 .. Len(c) - 1 /\ k \in Nat
      BY <1>1, <1>2
    <3>2. CASE j < k
      BY <1>1, <1>2, <1>3, <3>1, <3>2
    <3>3. CASE ~(j < k)
      <4>1. j + 1 \in 1 .. Len(c) /\ j + 1 # k
        BY <1>1, <3>1, <3>3
      <4>. QED
        BY <1>2, <1>3, <3>1, <3>3, <4>1, Zenon
    <3>. QED
      BY <3>2, <3>3, Zenon
  <2>2. c[h] # c[k] /\ c[h] \in Slots
    BY <1>1, <2>1, Zenon DEF Distinct
  <2>. QED
    BY <1>1, <2>1, <2>2, Zenon DEF OrdersSameBut, HoldsOrders
<1>5. /\ q2 \in Seq(Order) /\ Len(q2) = Len(d)
      /\ \A j \in 1 .. Len(d) : q2[j] = st2[d[j]].order
  BY <1>2, <1>4, QueueElements DEF HoldsOrders
<1>. HIDE DEF q2
<1>6. q2 = r
  BY <1>2, <1>3, <1>4, <1>5, SameElements
<1>. QED
  BY <1>6 DEF q2, r, q, d

(* A queue whose first order has the quantity x.                           *)
QueueWithFront(q, x) == [q EXCEPT ![1].qty = x]

(* st2 is st with the quantity x in the first slot of the list c.          *)
FrontWritten(st, st2, c, x) ==
    /\ 1 \in 1 .. Len(c) /\ Distinct(c)
    /\ HoldsOrders(st, c) /\ OrdersSameBut(st, st2, c[1])
    /\ st2[c[1]].order = OrderWithQty(st[c[1]].order, x) /\ st2[c[1]].order \in Order

(* A quantity written in the first slot of a list is one written in the    *)
(* first order of its queue.                                               *)
LEMMA QueueFrontWritten ==
    ASSUME NEW st, NEW st2, NEW c \in Seq(Slots), NEW x, FrontWritten(st, st2, c, x)
    PROVE  QueueOf(st2, c) = QueueWithFront(QueueOf(st, c), x)
<1>. /\ 1 \in 1 .. Len(c) /\ Distinct(c)
     /\ HoldsOrders(st, c) /\ OrdersSameBut(st, st2, c[1])
     /\ st2[c[1]].order = OrderWithQty(st[c[1]].order, x) /\ st2[c[1]].order \in Order
  BY Zenon DEF FrontWritten
<1>. DEFINE q == QueueOf(st, c)
            q2 == QueueOf(st2, c)
            r == [q EXCEPT ![1] = OrderWithQty(q[1], x)]
<1>1. /\ q \in Seq(Order) /\ Len(q) = Len(c) /\ Len(c) \in Nat
      /\ \A j \in 1 .. Len(c) : q[j] = st[c[j]].order /\ c[j] \in Slots
  BY QueueElements, SeqElements
<1>2. ASSUME NEW j \in 1 .. Len(c)
      PROVE  st2[c[j]].order \in Order /\ st2[c[j]].order = IF j = 1 THEN OrderWithQty(q[1], x) ELSE q[j]
  <2>1. CASE j = 1
    BY <1>1, <2>1, Zenon
  <2>2. CASE j # 1
    <3>1. c[j] # c[1] /\ c[j] \in Slots
      BY <1>1, <2>2, Zenon DEF Distinct
    <3>. QED
      BY <1>1, <2>2, <3>1, Zenon DEF OrdersSameBut, HoldsOrders
  <2>. QED
    BY <2>1, <2>2, Zenon
<1>3. /\ q2 \in Seq(Order) /\ Len(q2) = Len(c)
      /\ \A j \in 1 .. Len(c) : q2[j] = st2[c[j]].order
  BY <1>2, QueueElements DEF HoldsOrders
<1>4. r = QueueWithFront(q, x)
  BY Zenon DEF OrderWithQty, QueueWithFront
<1>. HIDE DEF q, q2
<1>5. /\ r \in Seq(Order) /\ Len(r) = Len(c)
      /\ \A j \in 1 .. Len(c) : r[j] = IF j = 1 THEN OrderWithQty(q[1], x) ELSE q[j]
  <2>1. OrderWithQty(q[1], x) \in Order
    BY <1>1, <1>2, Zenon
  <2>. QED
    BY <1>1, <2>1
<1>6. q2 = r
  BY <1>2, <1>3, <1>5, SameElements
<1>. QED
  BY <1>4, <1>6, Zenon DEF q, q2

(* The queues that lists of slots stand for, and the book they make.       *)
QueuesOf(st, l) == [s \in Side |-> [p \in Prices |-> QueueOf(st, l[s][p])]]

BookOf(st, l, b, index, n) ==
    [queue |-> QueuesOf(st, l), best |-> b, index |-> DOMAIN index, count |-> n]

HoldAllOrders(st, l) == \A s \in Side, p \in Prices : HoldsOrders(st, l[s][p])

(* Queues that differ in one level only.                                   *)
LEMMA OneQueueWritten ==
    ASSUME NEW S, NEW Q \in [Side -> [Prices -> S]], NEW R \in [Side -> [Prices -> S]],
           NEW s \in Side, NEW p \in Prices, OtherListsSame(Q, R, s, p)
    PROVE  R = [Q EXCEPT ![s][p] = R[s][p]]
<1>. DEFINE X == [Q EXCEPT ![s][p] = R[s][p]]
<1>1. X \in [Side -> [Prices -> S]]
  BY Zenon
<1>2. \A t \in Side, q \in Prices : X[t][q] = R[t][q]
  BY Zenon DEF OtherListsSame
<1>. HIDE DEF X
<1>3. \A t \in Side : X[t] = R[t]
  BY <1>1, <1>2
<1>4. X = R
  BY <1>1, <1>3
<1>. QED
  BY <1>4, Zenon DEF X

(* The queues of the lists hold orders, those of the slots.                *)
LEMMA QueuesElements ==
    ASSUME NEW st, NEW l \in Lists, HoldAllOrders(st, l)
    PROVE  /\ QueuesOf(st, l) \in [Side -> [Prices -> Seq(Order)]]
           /\ \A s \in Side, p \in Prices :
                 /\ QueuesOf(st, l)[s][p] = QueueOf(st, l[s][p])
                 /\ Len(QueuesOf(st, l)[s][p]) = Len(l[s][p])
                 /\ \A k \in 1 .. Len(l[s][p]) : QueuesOf(st, l)[s][p][k] = st[l[s][p][k]].order
<1>1. ASSUME NEW s \in Side, NEW p \in Prices
      PROVE  /\ QueueOf(st, l[s][p]) \in Seq(Order)
             /\ Len(QueueOf(st, l[s][p])) = Len(l[s][p])
             /\ \A k \in 1 .. Len(l[s][p]) : QueueOf(st, l[s][p])[k] = st[l[s][p][k]].order
  BY QueueElements DEF Lists, HoldAllOrders
<1>. QED
  BY <1>1, Zenon DEF QueuesOf

(* What a push does to the queues.                                         *)
LEMMA QueuesAfterPush ==
    ASSUME NEW st, NEW st2, NEW l \in Lists, HoldAllOrders(st, l), NEW s \in Side, NEW p \in Prices,
           NEW i \in Slots, NEW o \in Order, SlotsOtherThan(l, i),
           OrdersSameBut(st, st2, i), st2[i].order = o
    PROVE  QueuesOf(st2, ListPut(l, s, p, i)) = ListPut(QueuesOf(st, l), s, p, o)
<1>. DEFINE m == ListPut(l, s, p, i)
            Q == QueuesOf(st, l)
            R == QueuesOf(st2, m)
<1>1. /\ m \in Lists /\ m[s][p] = Append(l[s][p], i) /\ OtherListsSame(l, m, s, p)
  BY PushPutsOneSlot
<1>2. ASSUME NEW t \in Side, NEW q \in Prices
      PROVE  /\ l[t][q] \in Seq(Slots) /\ HoldsOrders(st, l[t][q])
             /\ \A k \in 1 .. Len(l[t][q]) : l[t][q][k] # i
  BY Zenon DEF Lists, HoldAllOrders, SlotsOtherThan
<1>3. Q \in [Side -> [Prices -> Seq(Order)]] /\ \A t \in Side, q \in Prices : Q[t][q] = QueueOf(st, l[t][q])
  <2>1. Q \in [Side -> [Prices -> Seq(Order)]]
    BY QueuesElements, Zenon
  <2>2. \A t \in Side, q \in Prices : Q[t][q] = QueueOf(st, l[t][q])
    BY Zenon DEF QueuesOf
  <2>. QED
    BY <2>1, <2>2, Zenon
<1>. HIDE DEF m, Q
<1>4. QueueOf(st2, m[s][p]) = Append(QueueOf(st, l[s][p]), o)
  <2>1. PICK c \in Seq(Slots) : c = l[s][p]
    BY <1>2, Zenon
  <2>2. OrderWritten(st, st2, c, i, o)
    BY <1>2, <2>1, Zenon DEF OrderWritten
  <2>3. QueueOf(st2, Append(c, i)) = Append(QueueOf(st, c), o)
    BY <2>2, QueueGrows
  <2>. QED
    BY <1>1, <2>1, <2>3, Zenon
<1>5. ASSUME NEW t \in Side, NEW q \in Prices, ~(t = s /\ q = p)
      PROVE  QueueOf(st2, m[t][q]) = QueueOf(st, l[t][q])
  <2>1. m[t][q] = l[t][q]
    BY <1>1, <1>5, Zenon DEF OtherListsSame
  <2>2. QueueOf(st2, l[t][q]) = QueueOf(st, l[t][q])
    BY <1>2, QueueUntouched, Zenon
  <2>. QED
    BY <2>1, <2>2, Zenon
<1>6. \A t \in Side, q \in Prices : R[t][q] = QueueOf(st2, m[t][q])
  BY Zenon DEF QueuesOf
<1>7. R \in [Side -> [Prices -> Seq(Order)]]
  <2>1. ASSUME NEW t \in Side, NEW q \in Prices PROVE QueueOf(st2, m[t][q]) \in Seq(Order)
    <3>1. CASE t = s /\ q = p
      <4>1. Append(Q[s][p], o) \in Seq(Order)
        BY <1>3, AppendElements
      <4>. QED
        BY <1>3, <1>4, <3>1, <4>1, Zenon
    <3>2. CASE ~(t = s /\ q = p)
      BY <1>3, <1>5, <3>2
    <3>. QED
      BY <3>1, <3>2, Zenon
  <2>. QED
    BY <2>1, Zenon DEF QueuesOf
<1>. HIDE DEF R
<1>8. OtherListsSame(Q, R, s, p)
  <2>1. ASSUME NEW t \in Side, NEW q \in Prices, ~(t = s /\ q = p) PROVE R[t][q] = Q[t][q]
    <3>1. QueueOf(st2, m[t][q]) = QueueOf(st, l[t][q])
      BY <1>5, <2>1, Zenon
    <3>. QED
      BY <1>3, <1>6, <3>1, Zenon
  <2>. QED
    BY <2>1, Zenon DEF OtherListsSame
<1>9. R = [Q EXCEPT ![s][p] = R[s][p]]
  BY <1>3, <1>7, <1>8, OneQueueWritten, Zenon
<1>10. R[s][p] = Append(Q[s][p], o)
  BY <1>3, <1>4, <1>6
<1>11. R = ListPut(Q, s, p, o)
  BY <1>9, <1>10, Zenon DEF ListPut
<1>. QED
  BY <1>11, Zenon DEF R, Q, m

(* What an unlink does to the queues.                                      *)
LEMMA QueuesAfterUnlink ==
    ASSUME NEW st, NEW st2, NEW f, NEW l \in Lists, HoldAllOrders(st, l), SlotsPlaced(f, l),
           NEW s \in Side, NEW p \in Prices, NEW k \in 1 .. Len(l[s][p]),
           OrdersSameBut(st, st2, l[s][p][k])
    PROVE  QueuesOf(st2, ListCut(l, s, p, k)) = ListCut(QueuesOf(st, l), s, p, k)
<1>. DEFINE m == ListCut(l, s, p, k)
            Q == QueuesOf(st, l)
            R == QueuesOf(st2, m)
            i == l[s][p][k]
<1>1. /\ m \in Lists /\ m[s][p] = Cut(l[s][p], k) /\ OtherListsSame(l, m, s, p)
  BY UnlinkTakesOneSlot, Zenon
<1>2. ASSUME NEW t \in Side, NEW q \in Prices
      PROVE  l[t][q] \in Seq(Slots) /\ HoldsOrders(st, l[t][q])
  BY Zenon DEF Lists, HoldAllOrders
<1>3. ASSUME NEW t \in Side, NEW q \in Prices, ~(t = s /\ q = p), NEW j \in 1 .. Len(l[t][q])
      PROVE  l[t][q][j] # i
  BY <1>3 DEF SlotsPlaced
<1>4. Distinct(l[s][p])
  BY DEF SlotsPlaced, Distinct
<1>5. Q \in [Side -> [Prices -> Seq(Order)]] /\ \A t \in Side, q \in Prices : Q[t][q] = QueueOf(st, l[t][q])
  <2>1. Q \in [Side -> [Prices -> Seq(Order)]]
    BY QueuesElements, Zenon
  <2>2. \A t \in Side, q \in Prices : Q[t][q] = QueueOf(st, l[t][q])
    BY Zenon DEF QueuesOf
  <2>. QED
    BY <2>1, <2>2, Zenon
<1>. HIDE DEF m, Q
<1>6. QueueOf(st2, m[s][p]) = Cut(QueueOf(st, l[s][p]), k)
  <2>1. PICK c \in Seq(Slots) : c = l[s][p]
    BY <1>2, Zenon
  <2>2. HoldsOrders(st, c) /\ k \in 1 .. Len(c) /\ Distinct(c) /\ OrdersSameBut(st, st2, c[k])
    BY <1>2, <1>4, <2>1, Zenon
  <2>3. QueueOf(st2, Cut(c, k)) = Cut(QueueOf(st, c), k)
    BY <2>2, QueueShrinks, Zenon
  <2>. QED
    BY <1>1, <2>1, <2>3, Zenon
<1>. HIDE DEF i
<1>7. ASSUME NEW t \in Side, NEW q \in Prices, ~(t = s /\ q = p)
      PROVE  QueueOf(st2, m[t][q]) = QueueOf(st, l[t][q])
  <2>1. m[t][q] = l[t][q]
    BY <1>1, <1>7, Zenon DEF OtherListsSame
  <2>2. QueueOf(st2, l[t][q]) = QueueOf(st, l[t][q])
    BY <1>2, <1>3, <1>7, QueueUntouched, Zenon DEF i
  <2>. QED
    BY <2>1, <2>2, Zenon
<1>8. \A t \in Side, q \in Prices : R[t][q] = QueueOf(st2, m[t][q])
  BY Zenon DEF QueuesOf
<1>9. R \in [Side -> [Prices -> Seq(Order)]]
  <2>1. ASSUME NEW t \in Side, NEW q \in Prices PROVE QueueOf(st2, m[t][q]) \in Seq(Order)
    <3>1. CASE t = s /\ q = p
      <4>1. Q[s][p] \in Seq(Order) /\ Len(Q[s][p]) = Len(l[s][p])
        BY <1>2, <1>5, QueueElements
      <4>2. Cut(Q[s][p], k) \in Seq(Order)
        BY <4>1, CutElements, Zenon
      <4>. QED
        BY <1>5, <1>6, <3>1, <4>2, Zenon
    <3>2. CASE ~(t = s /\ q = p)
      BY <1>5, <1>7, <3>2
    <3>. QED
      BY <3>1, <3>2, Zenon
  <2>. QED
    BY <2>1, Zenon DEF QueuesOf
<1>. HIDE DEF R
<1>10. OtherListsSame(Q, R, s, p)
  <2>1. ASSUME NEW t \in Side, NEW q \in Prices, ~(t = s /\ q = p) PROVE R[t][q] = Q[t][q]
    <3>1. QueueOf(st2, m[t][q]) = QueueOf(st, l[t][q])
      BY <1>7, <2>1, Zenon
    <3>. QED
      BY <1>5, <1>8, <3>1, Zenon
  <2>. QED
    BY <2>1, Zenon DEF OtherListsSame
<1>11. R = [Q EXCEPT ![s][p] = R[s][p]]
  BY <1>5, <1>9, <1>10, OneQueueWritten, Zenon
<1>12. R[s][p] = Cut(Q[s][p], k)
  BY <1>5, <1>6, <1>8
<1>13. R = ListCut(Q, s, p, k)
  BY <1>11, <1>12 DEF ListCut
<1>. QED
  BY <1>13 DEF R, Q, m

FrontQtySet(Q, s, p, x) == [Q EXCEPT ![s][p][1].qty = x]

(* What a partial fill does to the queues.                                 *)
LEMMA QueuesAfterFill ==
    ASSUME NEW st, NEW st2, NEW f, NEW l \in Lists, HoldAllOrders(st, l), SlotsPlaced(f, l),
           NEW s \in Side, NEW p \in Prices, 1 \in 1 .. Len(l[s][p]),
           OrdersSameBut(st, st2, l[s][p][1]), NEW x,
           st2[l[s][p][1]].order = OrderWithQty(st[l[s][p][1]].order, x), st2[l[s][p][1]].order \in Order
    PROVE  QueuesOf(st2, l) = FrontQtySet(QueuesOf(st, l), s, p, x)
<1>. DEFINE Q == QueuesOf(st, l)
            R == QueuesOf(st2, l)
            i == l[s][p][1]
<1>1. ASSUME NEW t \in Side, NEW q \in Prices
      PROVE  l[t][q] \in Seq(Slots) /\ HoldsOrders(st, l[t][q])
  BY Zenon DEF Lists, HoldAllOrders
<1>2. ASSUME NEW t \in Side, NEW q \in Prices, ~(t = s /\ q = p), NEW j \in 1 .. Len(l[t][q])
      PROVE  l[t][q][j] # i
  BY <1>2 DEF SlotsPlaced
<1>3. Distinct(l[s][p])
  BY DEF SlotsPlaced, Distinct
<1>4. Q \in [Side -> [Prices -> Seq(Order)]] /\ \A t \in Side, q \in Prices : Q[t][q] = QueueOf(st, l[t][q])
  <2>1. Q \in [Side -> [Prices -> Seq(Order)]]
    BY QueuesElements, Zenon
  <2>2. \A t \in Side, q \in Prices : Q[t][q] = QueueOf(st, l[t][q])
    BY Zenon DEF QueuesOf
  <2>. QED
    BY <2>1, <2>2, Zenon
<1>. HIDE DEF Q
<1>5. QueueOf(st2, l[s][p]) = QueueWithFront(QueueOf(st, l[s][p]), x)
  <2>1. PICK c \in Seq(Slots) : c = l[s][p]
    BY <1>1, Zenon
  <2>2. FrontWritten(st, st2, c, x)
    BY <1>1, <1>3, <2>1, Zenon DEF FrontWritten
  <2>3. QueueOf(st2, c) = QueueWithFront(QueueOf(st, c), x)
    BY <2>2, QueueFrontWritten
  <2>. QED
    BY <2>1, <2>3, Zenon
<1>. HIDE DEF i
<1>6. ASSUME NEW t \in Side, NEW q \in Prices, ~(t = s /\ q = p)
      PROVE  QueueOf(st2, l[t][q]) = QueueOf(st, l[t][q])
  BY <1>1, <1>2, <1>6, QueueUntouched, Zenon DEF i
<1>7. \A t \in Side, q \in Prices : R[t][q] = QueueOf(st2, l[t][q])
  BY Zenon DEF QueuesOf
<1>8. HoldAllOrders(st2, l)
  <2>1. ASSUME NEW t \in Side, NEW q \in Prices, NEW k \in 1 .. Len(l[t][q])
        PROVE  st2[l[t][q][k]].order \in Order
    <3>1. l[t][q][k] \in Slots
      BY <1>1, SeqElements, Zenon
    <3>2. CASE l[t][q][k] = i
      BY <3>2 DEF i
    <3>3. CASE l[t][q][k] # i
      BY <1>1, <3>1, <3>3, Zenon DEF OrdersSameBut, HoldsOrders, i
    <3>. QED
      BY <3>2, <3>3, Zenon
  <2>. QED
    BY <2>1, Zenon DEF HoldAllOrders, HoldsOrders
<1>9. R \in [Side -> [Prices -> Seq(Order)]]
  BY <1>8, QueuesElements, Zenon
<1>. HIDE DEF R
<1>10. OtherListsSame(Q, R, s, p)
  <2>1. ASSUME NEW t \in Side, NEW q \in Prices, ~(t = s /\ q = p) PROVE R[t][q] = Q[t][q]
    <3>1. QueueOf(st2, l[t][q]) = QueueOf(st, l[t][q])
      BY <1>6, <2>1, Zenon
    <3>. QED
      BY <1>4, <1>7, <3>1, Zenon
  <2>. QED
    BY <2>1, Zenon DEF OtherListsSame
<1>11. R = [Q EXCEPT ![s][p] = R[s][p]]
  BY <1>4, <1>9, <1>10, OneQueueWritten, Zenon
<1>12. R[s][p] = QueueWithFront(Q[s][p], x)
  BY <1>4, <1>5, <1>7, Zenon
<1>13. R = FrontQtySet(Q, s, p, x)
  BY <1>11, <1>12 DEF FrontQtySet, QueueWithFront
<1>. QED
  BY <1>13, Zenon DEF R, Q
-----------------------------------------------------------------------------
(* The sum of the quantities of a queue.                                   *)

(* g holds the sums of the first quantities of a queue, up to the n-th.    *)
SumsUpTo(q, n, g) ==
    /\ g \in [0 .. n -> Nat]
    /\ g[0] = 0
    /\ \A k \in 1 .. n : g[k] = g[k - 1] + q[k].qty

PartialSums(q, g) == SumsUpTo(q, Len(q), g)

(* The recursive definition of SumQty has a solution, the partial sums.    *)
LEMMA SumsExist ==
    ASSUME NEW q \in Seq(Order)
    PROVE  \E g : PartialSums(q, g)
<1>. DEFINE T == {n \in 0 .. Len(q) : \E g : SumsUpTo(q, n, g)}
<1>1. Len(q) \in Nat /\ \A k \in 1 .. Len(q) : q[k].qty \in Nat
  <2>1. Len(q) \in Nat /\ \A k \in 1 .. Len(q) : q[k] \in Order
    BY SeqElements, Zenon
  <2>. QED
    BY <2>1, OrdersAssumption DEF Order
<1>2. 0 \in T
  <2>1. SumsUpTo(q, 0, [k \in 0 .. 0 |-> 0])
    BY DEF SumsUpTo
  <2>. QED
    BY <1>1, <2>1
<1>3. ASSUME NEW n \in 0 .. Len(q) - 1, n \in T PROVE n + 1 \in T
  <2>1. PICK g : SumsUpTo(q, n, g)
    BY <1>3, Zenon
  <2>. DEFINE h == [k \in 0 .. n + 1 |-> IF k = n + 1 THEN g[n] + q[n + 1].qty ELSE g[k]]
  <2>2. n \in Nat /\ n + 1 \in 1 .. Len(q) /\ g[n] \in Nat /\ q[n + 1].qty \in Nat
    BY <1>1, <2>1 DEF SumsUpTo
  <2>3. h \in [0 .. n + 1 -> Nat] /\ h[0] = 0
    BY <2>1, <2>2 DEF SumsUpTo
  <2>4. ASSUME NEW k \in 1 .. n + 1 PROVE h[k] = h[k - 1] + q[k].qty
    <3>1. CASE k = n + 1
      BY <2>2, <3>1
    <3>2. CASE k # n + 1
      <4>1. k \in 1 .. n /\ k - 1 \in 0 .. n /\ k - 1 # n + 1
        BY <2>2, <3>2
      <4>2. g[k] = g[k - 1] + q[k].qty
        BY <2>1, <4>1, Zenon DEF SumsUpTo
      <4>. QED
        BY <3>2, <4>1, <4>2
    <3>. QED
      BY <3>1, <3>2, Zenon
  <2>. HIDE DEF h
  <2>5. SumsUpTo(q, n + 1, h)
    BY <2>3, <2>4, Zenon DEF SumsUpTo
  <2>. QED
    BY <2>2, <2>5
<1>4. \A k \in 0 .. Len(q) : k \in T
  <2>. HIDE DEF T
  <2>. QED
    BY <1>1, <1>2, <1>3, InductionUpTo, Zenon
<1>5. PICK g : SumsUpTo(q, Len(q), g)
  BY <1>1, <1>4
<1>. QED
  BY <1>5, Zenon DEF PartialSums

(* SumQty is the last of the partial sums.                                 *)
LEMMA SumIsLast ==
    ASSUME NEW q \in Seq(Order), NEW g, PartialSums(q, g)
    PROVE  SumQty(q) = g[Len(q)] /\ SumQty(q) \in Nat
<1>. DEFINE n == Len(q)
            Step(u) == [k \in 0 .. n |-> IF k = 0 THEN 0 ELSE u[k - 1] + q[k].qty]
            up == CHOOSE u : u = Step(u)
<1>1. n \in Nat
  BY SeqElements, Zenon
<1>2. g = Step(g)
  <2>1. g = [k \in 0 .. n |-> g[k]]
    BY Zenon DEF PartialSums, SumsUpTo
  <2>2. ASSUME NEW k \in 0 .. n PROVE g[k] = IF k = 0 THEN 0 ELSE g[k - 1] + q[k].qty
    <3>1. k # 0 => k \in 1 .. n
      BY <1>1
    <3>. QED
      BY <3>1 DEF PartialSums, SumsUpTo
  <2>. QED
    BY <2>1, <2>2, Zenon
<1>3. SumQty(q) = up[n]
  BY DEF SumQty
<1>4. up = Step(up)
  <2>. HIDE DEF Step
  <2>. QED
    BY <1>2, Zenon
<1>. HIDE DEF up
<1>. DEFINE T == {k \in 0 .. n : up[k] = g[k]}
<1>5. 0 \in T
  <2>1. up[0] = 0
    BY <1>1, <1>4
  <2>. QED
    BY <1>1, <2>1 DEF PartialSums, SumsUpTo
<1>6. ASSUME NEW k \in 0 .. n - 1, k \in T PROVE k + 1 \in T
  <2>1. k + 1 \in 1 .. n /\ k + 1 \in 0 .. n /\ k + 1 # 0 /\ (k + 1) - 1 = k
    BY <1>1
  <2>2. up[k + 1] = up[k] + q[k + 1].qty
    BY <1>4, <2>1, Zenon
  <2>3. g[k + 1] = g[k] + q[k + 1].qty
    BY <2>1, Zenon DEF PartialSums, SumsUpTo
  <2>. QED
    BY <1>6, <2>1, <2>2, <2>3, Zenon
<1>7. \A k \in 0 .. n : k \in T
  <2>. HIDE DEF T, n
  <2>. QED
    BY <1>1, <1>5, <1>6, InductionUpTo, Zenon
<1>8. up[n] = g[n] /\ g[n] \in Nat
  BY <1>1, <1>7 DEF PartialSums, SumsUpTo
<1>. QED
  BY <1>3, <1>8, Zenon

(* The sum of a queue with an order added at its end.                      *)
LEMMA SumOfLonger ==
    ASSUME NEW q \in Seq(Order), NEW o \in Order
    PROVE  SumQty(Append(q, o)) = SumQty(q) + o.qty /\ SumQty(q) \in Nat
<1>. DEFINE n == Len(q)
            r == Append(q, o)
<1>1. n \in Nat /\ o.qty \in Nat
  BY SeqElements, OrdersAssumption DEF Order
<1>2. /\ r \in Seq(Order) /\ Len(r) = n + 1 /\ r[n + 1] = o
      /\ \A k \in 1 .. n : r[k] = q[k]
  BY AppendElements
<1>3. PICK g : PartialSums(q, g)
  BY SumsExist
<1>4. SumQty(q) = g[n] /\ g[n] \in Nat
  BY <1>3, SumIsLast, Zenon
<1>. HIDE DEF r
<1>. DEFINE h == [k \in 0 .. n + 1 |-> IF k = n + 1 THEN g[n] + o.qty ELSE g[k]]
<1>5. PartialSums(r, h)
  <2>1. h \in [0 .. n + 1 -> Nat] /\ h[0] = 0
    BY <1>1, <1>3, <1>4 DEF PartialSums, SumsUpTo
  <2>2. ASSUME NEW k \in 1 .. n + 1 PROVE h[k] = h[k - 1] + r[k].qty
    <3>1. CASE k = n + 1
      BY <1>1, <1>2, <3>1
    <3>2. CASE k # n + 1
      <4>1. k \in 1 .. n /\ k - 1 \in 0 .. n /\ k - 1 # n + 1
        BY <1>1, <3>2
      <4>2. g[k] = g[k - 1] + q[k].qty
        BY <1>3, <4>1, Zenon DEF PartialSums, SumsUpTo
      <4>. QED
        BY <1>2, <3>2, <4>1, <4>2
    <3>. QED
      BY <3>1, <3>2, Zenon
  <2>. HIDE DEF h
  <2>. QED
    BY <1>2, <2>1, <2>2, Zenon DEF PartialSums, SumsUpTo
<1>6. h[n + 1] = g[n] + o.qty
  BY <1>1
<1>. HIDE DEF h
<1>7. SumQty(r) = h[n + 1]
  BY <1>2, <1>5, SumIsLast, Zenon
<1>. QED
  BY <1>4, <1>6, <1>7, Zenon DEF r

(* The sum of a queue that loses an order.                                 *)
LEMMA SumOfShorter ==
    ASSUME NEW q \in Seq(Order), NEW i \in 1 .. Len(q)
    PROVE  SumQty(q) = SumQty(Cut(q, i)) + q[i].qty /\ SumQty(Cut(q, i)) \in Nat
<1>. DEFINE n == Len(q)
            w == Cut(q, i)
            x == q[i].qty
<1>1. n \in Nat /\ n # 0 /\ i \in Nat /\ x \in Nat
  <2>1. q[i] \in Order
    BY SeqElements, Zenon
  <2>. QED
    BY <2>1, SeqElements, OrdersAssumption DEF Order
<1>2. /\ w \in Seq(Order) /\ Len(w) = n - 1
      /\ \A j \in 1 .. n - 1 : w[j] = IF j < i THEN q[j] ELSE q[j + 1]
  BY CutElements, Zenon
<1>3. PICK h : PartialSums(w, h)
  BY <1>2, SumsExist, Zenon
<1>4. SumQty(w) = h[n - 1] /\ SumQty(w) \in Nat
  BY <1>2, <1>3, SumIsLast, Zenon
<1>5. /\ \A j \in 0 .. n - 1 : h[j] \in Nat
      /\ h[0] = 0
      /\ \A j \in 1 .. n - 1 : h[j] = h[j - 1] + w[j].qty
  BY <1>2, <1>3, Zenon DEF PartialSums, SumsUpTo
<1>. HIDE DEF w, x
<1>. DEFINE g == [k \in 0 .. n |-> IF k < i THEN h[k] ELSE h[k - 1] + x]
<1>6. PartialSums(q, g)
  <2>1. ASSUME NEW k \in 0 .. n PROVE g[k] \in Nat
    <3>1. k < i => k \in 0 .. n - 1
      BY <1>1
    <3>2. ~(k < i) => k - 1 \in 0 .. n - 1
      BY <1>1
    <3>. QED
      BY <1>1, <1>5, <3>1, <3>2
  <2>2. g[0] = 0
    BY <1>1, <1>5
  <2>3. ASSUME NEW k \in 1 .. n PROVE g[k] = g[k - 1] + q[k].qty
    <3>1. CASE k < i
      <4>1. k \in 1 .. n - 1 /\ k - 1 \in 0 .. n /\ k - 1 < i
        BY <1>1, <3>1
      <4>2. h[k] = h[k - 1] + w[k].qty /\ w[k] = q[k]
        BY <1>2, <1>5, <3>1, <4>1, Zenon
      <4>. QED
        BY <3>1, <4>1, <4>2
    <3>2. CASE k = i
      <4>1. k - 1 \in 0 .. n /\ k - 1 < i /\ ~(k < i)
        BY <1>1, <3>2
      <4>. QED
        BY <3>2, <4>1 DEF x
    <3>3. CASE k > i
      <4>1. /\ k - 1 \in 1 .. n - 1 /\ ~(k - 1 < i) /\ ~(k < i) /\ (k - 1) + 1 = k
            /\ k - 1 \in 0 .. n /\ (k - 1) - 1 \in 0 .. n - 1
        BY <1>1, <3>3
      <4>2. h[k - 1] = h[(k - 1) - 1] + w[k - 1].qty
        BY <1>5, <4>1, Zenon
      <4>3. w[k - 1] = q[(k - 1) + 1]
        BY <1>2, <4>1, Zenon
      <4>4. g[k] = h[k - 1] + x /\ g[k - 1] = h[(k - 1) - 1] + x
        BY <4>1
      <4>5. q[k].qty \in Nat /\ h[(k - 1) - 1] \in Nat /\ x \in Nat
        <5>1. q[k] \in Order
          BY SeqElements, Zenon
        <5>. QED
          BY <1>1, <1>5, <4>1, <5>1, OrdersAssumption DEF Order
      <4>6. h[k - 1] = h[(k - 1) - 1] + q[k].qty
        BY <4>1, <4>2, <4>3, Zenon
      <4>. HIDE DEF g
      <4>. QED
        BY <4>4, <4>5, <4>6
    <3>. QED
      BY <1>1, <3>1, <3>2, <3>3
  <2>4. g \in [0 .. n -> Nat]
    BY <2>1, Zenon
  <2>. HIDE DEF g
  <2>. QED
    BY <2>2, <2>3, <2>4, Zenon DEF PartialSums, SumsUpTo
<1>7. g[n] = h[n - 1] + x
  BY <1>1
<1>. HIDE DEF g
<1>8. SumQty(q) = g[n]
  BY <1>6, SumIsLast, Zenon
<1>. QED
  BY <1>4, <1>7, <1>8, Zenon DEF w, x

(* Adding to and subtracting from a wrapped quantity wraps the sum and the *)
(* difference.                                                             *)
LEMMA QtyWraps ==
    ASSUME NEW S \in Nat, NEW x \in 0 .. MaxQty
    PROVE  /\ AddQty(S % (MaxQty + 1), x) = (S + x) % (MaxQty + 1)
           /\ SubQty((S + x) % (MaxQty + 1), x) = S % (MaxQty + 1)
<1>1. PICK M \in Nat \ {0} : M = MaxQty + 1
  BY OrdersAssumption
<1>2. x \in Nat /\ x < M
  BY <1>1, OrdersAssumption
<1>3. PICK r \in 0 .. M - 1 : r = S % M
  BY <1>1, Division, Zenon
<1>4. PICK d \in Nat : S = M * d + r
  BY <1>3, Division, Zenon
<1>5. M * d \in Int /\ M * (d + 1) = M * d + M * 1 /\ M * 1 = M
  BY Distributes
<1>6. ASSUME NEW z \in 0 .. M - 1 PROVE z % M = z /\ (z + M) % M = z
  <2>1. PICK e \in Int : e = 1
    OBVIOUS
  <2>2. z + M \in Int /\ z + M = M * e + z
    BY <2>1
  <2>3. (z + M) % M = z
    BY <2>2, RemainderUnique, Zenon
  <2>. QED
    BY <2>3
<1>7. CASE r + x < M
  <2>1. r + x \in 0 .. M - 1 /\ S + x \in Int /\ d \in Int /\ S + x = M * d + (r + x)
    BY <1>2, <1>4, <1>5, <1>7
  <2>2. (S + x) % M = r + x
    BY <2>1, RemainderUnique, Zenon
  <2>3. (r + x) % M = r + x
    BY <1>2, <2>1
  <2>4. (r + x) - x + M = r + M
    BY <1>2
  <2>5. AddQty(r, x) = (r + x) % M /\ SubQty(r + x, x) = ((r + x) - x + M) % M
    BY <1>1, OrdersAssumption DEF AddQty, SubQty
  <2>. QED
    BY <1>1, <1>3, <1>6, <2>2, <2>3, <2>4, <2>5
<1>8. CASE ~(r + x < M)
  <2>. DEFINE y == r + x - M
  <2>1. y \in 0 .. M - 1 /\ S + x \in Int /\ d + 1 \in Int /\ S + x = M * (d + 1) + y
    BY <1>2, <1>4, <1>5, <1>8
  <2>2. (S + x) % M = y
    BY <2>1, RemainderUnique, Zenon
  <2>3. r + x = y + M
    BY <1>2
  <2>4. (r + x) % M = y
    BY <1>6, <2>1, <2>3, Zenon
  <2>5. y - x + M = r
    BY <1>2
  <2>. HIDE DEF y
  <2>6. AddQty(r, x) = (r + x) % M /\ SubQty(y, x) = (y - x + M) % M
    BY <1>1, <1>2, <2>1, OrdersAssumption DEF AddQty, SubQty
  <2>. QED
    BY <1>1, <1>3, <1>6, <2>2, <2>4, <2>5, <2>6
<1>. QED
  BY <1>7, <1>8

(* The sum of no orders.                                                   *)
LEMMA SumOfNone == SumQty(<<>>) = 0
<1>1. PartialSums(<<>>, [k \in 0 .. 0 |-> 0])
  BY DEF PartialSums, SumsUpTo
<1>. QED
  BY <1>1, SumIsLast

(* The sum of a queue whose front order is filled in part.                 *)
LEMMA SumOfFilled ==
    ASSUME NEW q \in Seq(Order), 1 \in 1 .. Len(q), NEW n \in 1 .. MaxQty, n < q[1].qty
    PROVE  /\ SumQty(q) = SumQty(QueueWithFront(q, q[1].qty - n)) + n
           /\ SumQty(QueueWithFront(q, q[1].qty - n)) \in Nat
<1>. DEFINE x == q[1].qty - n
            o == OrderWithQty(q[1], x)
            r == QueueWithFront(q, x)
            v == Cut(q, 1)
            w == Cut(r, 1)
<1>1. q[1] \in Order /\ q[1].qty \in 1 .. MaxQty /\ Len(q) \in Nat
  <2>1. q[1] \in Order
    BY SeqElements, Zenon
  <2>. QED
    BY <2>1, SeqElements, Zenon DEF Order
<1>2. x \in 1 .. MaxQty
  BY <1>1, OrdersAssumption
<1>3. o \in Order /\ o.qty = x
  BY <1>1, <1>2, OrderKeepsFields, Zenon
<1>4. r = [q EXCEPT ![1] = o]
  BY DEF QueueWithFront, OrderWithQty
<1>. HIDE DEF o, x, r
<1>5. /\ r \in Seq(Order) /\ Len(r) = Len(q) /\ r[1] = o
      /\ \A k \in 1 .. Len(q) : k # 1 => r[k] = q[k]
  BY <1>1, <1>3, <1>4
<1>6. /\ v \in Seq(Order) /\ Len(v) = Len(q) - 1
      /\ \A k \in 1 .. Len(q) - 1 : v[k] = IF k < 1 THEN q[k] ELSE q[k + 1]
  BY CutElements, Zenon
<1>7. /\ w \in Seq(Order) /\ Len(w) = Len(q) - 1
      /\ \A k \in 1 .. Len(q) - 1 : w[k] = IF k < 1 THEN r[k] ELSE r[k + 1]
  BY <1>5, CutElements
<1>8. SumQty(q) = SumQty(v) + q[1].qty /\ SumQty(v) \in Nat
  BY SumOfShorter, Zenon
<1>9. SumQty(r) = SumQty(w) + r[1].qty
  BY <1>5, SumOfShorter, Zenon
<1>. HIDE DEF v, w
<1>10. v = w
  <2>1. ASSUME NEW k \in 1 .. Len(v) PROVE v[k] = w[k]
    <3>1. k \in 1 .. Len(q) - 1 /\ ~(k < 1) /\ k + 1 \in 1 .. Len(q) /\ k + 1 # 1
      BY <1>1, <1>6
    <3>. QED
      BY <1>5, <1>6, <1>7, <3>1, Zenon
  <2>. QED
    BY <1>6, <1>7, <2>1, SameElements, Zenon
<1>11. SumQty(r) = SumQty(v) + x
  BY <1>3, <1>5, <1>9, <1>10, Zenon
<1>12. SumQty(q) = SumQty(r) + n /\ SumQty(r) \in Nat
  BY <1>1, <1>2, <1>8, <1>11 DEF x
<1>. QED
  BY <1>12, Zenon DEF r, x

(* The quantity of every level is the sum of its queue, wrapped.           *)
SumsHeld(Q, L) ==
    \A s \in Side, p \in Prices :
        p \in DOMAIN L[s] => L[s][p].qty = SumQty(Q[s][p]) % (MaxQty + 1)

OrderQueues == [Side -> [Prices -> Seq(Order)]]

(* A level written as its queue was keeps the sums.                        *)
LEMMA SumsStayHeld ==
    ASSUME NEW Q, NEW R, NEW L, NEW L2, NEW s \in Side, NEW p \in Prices,
           SumsHeld(Q, L), OnlyLevel(L, L2, s, p), OtherListsSame(Q, R, s, p),
           p \in DOMAIN L2[s] => L2[s][p].qty = SumQty(R[s][p]) % (MaxQty + 1)
    PROVE  SumsHeld(R, L2)
<1>1. ASSUME NEW t \in Side, NEW q \in Prices, q \in DOMAIN L2[t]
      PROVE  L2[t][q].qty = SumQty(R[t][q]) % (MaxQty + 1)
  <2>1. CASE t = s /\ q = p
    BY <1>1, <2>1, Zenon
  <2>2. CASE ~(t = s /\ q = p)
    <3>1. q \in DOMAIN L[t] /\ L2[t][q] = L[t][q]
      BY <1>1, <2>2, Zenon DEF OnlyLevel
    <3>2. R[t][q] = Q[t][q]
      BY <2>2, Zenon DEF OtherListsSame
    <3>. QED
      BY <3>1, <3>2, Zenon DEF SumsHeld
  <2>. QED
    BY <2>1, <2>2, Zenon
<1>. QED
  BY <1>1, Zenon DEF SumsHeld

(* The sums after push_back.                                               *)
LEMMA SumsAfterPush ==
    ASSUME NEW Q \in OrderQueues, NEW L, NEW L2, NEW s \in Side, NEW p \in Prices, NEW o \in Order,
           SumsHeld(Q, L), OnlyLevel(L, L2, s, p),
           p \notin DOMAIN L[s] => Q[s][p] = <<>>,
           L2[s][p].qty = AddQty(IF p \in DOMAIN L[s] THEN L[s][p].qty ELSE 0, o.qty)
    PROVE  SumsHeld(ListPut(Q, s, p, o), L2)
<1>. DEFINE R == ListPut(Q, s, p, o)
            old == IF p \in DOMAIN L[s] THEN L[s][p].qty ELSE 0
<1>1. Q[s][p] \in Seq(Order) /\ o.qty \in 0 .. MaxQty
  <2>1. Q[s][p] \in Seq(Order)
    BY Zenon DEF OrderQueues
  <2>2. o.qty \in 0 .. MaxQty
    BY DEF Order
  <2>. QED
    BY <2>1, <2>2, Zenon
<1>2. R[s][p] = Append(Q[s][p], o) /\ OtherListsSame(Q, R, s, p)
  BY Zenon DEF ListPut, OtherListsSame, OrderQueues
<1>. HIDE DEF R
<1>3. SumQty(R[s][p]) = SumQty(Q[s][p]) + o.qty /\ SumQty(Q[s][p]) \in Nat
  BY <1>1, <1>2, SumOfLonger, Zenon
<1>4. old = SumQty(Q[s][p]) % (MaxQty + 1)
  <2>1. CASE p \in DOMAIN L[s]
    BY <2>1, Zenon DEF SumsHeld
  <2>2. CASE p \notin DOMAIN L[s]
    <3>1. SumQty(Q[s][p]) = 0
      BY <2>2, SumOfNone, Zenon
    <3>2. 0 % (MaxQty + 1) = 0
      BY OrdersAssumption
    <3>. QED
      BY <2>2, <3>1, <3>2, Zenon
  <2>. QED
    BY <2>1, <2>2, Zenon
<1>. HIDE DEF old
<1>5. L2[s][p].qty = AddQty(old, o.qty)
  BY Zenon DEF old
<1>6. L2[s][p].qty = SumQty(R[s][p]) % (MaxQty + 1)
  BY <1>1, <1>3, <1>4, <1>5, QtyWraps, Zenon
<1>7. SumsHeld(R, L2)
  BY <1>2, <1>6, SumsStayHeld, Zenon
<1>. QED
  BY <1>7, Zenon DEF R

(* The sums after pop_front or remove.                                     *)
LEMMA SumsAfterUnlink ==
    ASSUME NEW Q \in OrderQueues, NEW L, NEW L2, NEW s \in Side, NEW p \in Prices,
           NEW k \in 1 .. Len(Q[s][p]), SumsHeld(Q, L), OnlyLevel(L, L2, s, p), p \in DOMAIN L[s],
           p \in DOMAIN L2[s] => L2[s][p].qty = SubQty(L[s][p].qty, Q[s][p][k].qty)
    PROVE  SumsHeld(ListCut(Q, s, p, k), L2)
<1>. DEFINE R == ListCut(Q, s, p, k)
            x == Q[s][p][k].qty
<1>1. Q[s][p] \in Seq(Order) /\ x \in 0 .. MaxQty
  <2>1. Q[s][p] \in Seq(Order)
    BY Zenon DEF OrderQueues
  <2>2. Q[s][p][k] \in Order
    BY <2>1, SeqElements, Zenon
  <2>. QED
    BY <2>1, <2>2 DEF Order
<1>2. R[s][p] = Cut(Q[s][p], k) /\ OtherListsSame(Q, R, s, p)
  BY DEF ListCut, OtherListsSame, OrderQueues
<1>. HIDE DEF R
<1>3. SumQty(Q[s][p]) = SumQty(R[s][p]) + x /\ SumQty(R[s][p]) \in Nat
  BY <1>1, <1>2, SumOfShorter, Zenon
<1>4. L[s][p].qty = SumQty(Q[s][p]) % (MaxQty + 1)
  BY DEF SumsHeld
<1>. HIDE DEF x
<1>5. SubQty(L[s][p].qty, x) = SumQty(R[s][p]) % (MaxQty + 1)
  BY <1>1, <1>3, <1>4, QtyWraps, Zenon
<1>6. p \in DOMAIN L2[s] => L2[s][p].qty = SumQty(R[s][p]) % (MaxQty + 1)
  BY <1>5, Zenon DEF x
<1>7. SumsHeld(R, L2)
  BY <1>2, <1>6, SumsStayHeld, Zenon
<1>. QED
  BY <1>7 DEF R

(* The sums after a partial fill.                                          *)
LEMMA SumsAfterFill ==
    ASSUME NEW Q \in OrderQueues, NEW L, NEW L2, NEW s \in Side, NEW p \in Prices, NEW n \in 1 .. MaxQty,
           1 \in 1 .. Len(Q[s][p]), n < Q[s][p][1].qty,
           SumsHeld(Q, L), OnlyLevel(L, L2, s, p), p \in DOMAIN L[s],
           L2[s][p].qty = SubQty(L[s][p].qty, n)
    PROVE  SumsHeld(FrontQtySet(Q, s, p, Q[s][p][1].qty - n), L2)
<1>. DEFINE x == Q[s][p][1].qty - n
            R == FrontQtySet(Q, s, p, x)
<1>1. Q[s][p] \in Seq(Order) /\ n \in 0 .. MaxQty
  BY DEF OrderQueues
<1>2. R[s][p] = QueueWithFront(Q[s][p], x) /\ OtherListsSame(Q, R, s, p)
  BY Zenon DEF FrontQtySet, QueueWithFront, OtherListsSame, OrderQueues
<1>3. /\ SumQty(Q[s][p]) = SumQty(QueueWithFront(Q[s][p], x)) + n
      /\ SumQty(QueueWithFront(Q[s][p], x)) \in Nat
  BY <1>1, SumOfFilled
<1>. HIDE DEF R, x
<1>4. L[s][p].qty = SumQty(Q[s][p]) % (MaxQty + 1)
  BY DEF SumsHeld
<1>5. SubQty(L[s][p].qty, n) = SumQty(R[s][p]) % (MaxQty + 1)
  BY <1>1, <1>2, <1>3, <1>4, QtyWraps
<1>6. SumsHeld(R, L2)
  BY <1>2, <1>5, SumsStayHeld, Zenon
<1>. QED
  BY <1>6, Zenon DEF R, x
=============================================================================
