---------------------------- MODULE ArenaProofs -----------------------------
(***************************************************************************)
(* The theorems about the arena.                                           *)
(*                                                                         *)
(* The invariant ArenaInv says where every slot is. Every operation keeps  *)
(* it (one lemma per operation), and the invariants of the book follow     *)
(* from it.                                                                *)
(***************************************************************************)
EXTENDS ArenaBook, ArenaLists

Fields ==
    /\ storage \in [Slots -> OrderNode]
    /\ best \in [Side -> Prices \cup {NoPrice}]
    /\ LevelMaps(levels)
    /\ orderIndex = [id \in DOMAIN orderIndex |-> orderIndex[id]]
    /\ DOMAIN orderIndex \subseteq Ids
    /\ ret \in BookErrors \cup {"Ok"}

(* f is the free list; the slots outside it are in use.                    *)
FreeSlots(f) == IsList(storage, f, freeHead) /\ count = Capacity - Len(f)

Placed(f, l) ==
    /\ Fields
    /\ FreeSlots(f)
    /\ LevelSlots(storage, levels, l)
    /\ SlotsPlaced(f, l)
    /\ OrdersPlaced(storage, orderIndex, l)
    /\ IndexPlaced(storage, orderIndex, l)

(* The lists that the arena's links stand for exist.                       *)
ArenaInv ==
    \E f \in Seq(Slots), l \in [Side -> [Prices -> Seq(Slots)]] : Placed(f, l)
-----------------------------------------------------------------------------
(* What holds of a slot's neighbourhood while its lists are sound.         *)
LEMMA PlacedSlots ==
    ASSUME NEW f, NEW l, FreeSlots(f), LevelSlots(storage, levels, l)
    PROVE  /\ f \in Seq(Slots) /\ Len(f) \in 0 .. Capacity
           /\ \A j, k \in 1 .. Len(f) : f[j] = f[k] => j = k
           /\ \A k \in 1 .. Len(f) : f[k] \in Slots
           /\ freeHead \in Link
           /\ freeHead = IF Len(f) = 0 THEN ARENA_NULL ELSE f[1]
           /\ freeHead = ARENA_NULL <=> Len(f) = 0
           /\ SlotsOnly(l)
<1>1. IsList(storage, f, freeHead)
  BY Zenon DEF FreeSlots
<1>2. /\ f \in Seq(Slots)
      /\ \A j, k \in 1 .. Len(f) : f[j] = f[k] => j = k
      /\ freeHead = IF Len(f) = 0 THEN ARENA_NULL ELSE f[1]
  BY <1>1, Zenon DEF IsList
<1>3. Len(f) \in 0 .. Capacity
  BY <1>2, ListIsShort, Zenon
<1>4. \A k \in 1 .. Len(f) : f[k] \in Slots /\ f[k] # ARENA_NULL
  BY <1>1, ListElements, Zenon
<1>5. Len(f) # 0 => 1 \in 1 .. Len(f)
  BY <1>3
<1>6. SlotsOnly(l)
  <2>1. ASSUME NEW t \in Side, NEW q \in Prices, NEW k \in 1 .. Len(l[t][q])
        PROVE  l[t][q][k] \in Slots
    <3>1. l[t][q] \in Seq(Slots)
      BY Zenon DEF LevelSlots
    <3>. QED
      BY <3>1, SeqElements, Zenon
  <2>. QED
    BY <2>1, Zenon DEF SlotsOnly
<1>. QED
  BY <1>2, <1>3, <1>4, <1>5, <1>6, Zenon DEF Link

(* insert_order: the first free slot becomes the last of its level, and    *)
(* every other slot keeps its place.                                       *)
LEMMA InsertKeepsPlaces ==
    ASSUME NEW f, NEW l, Placed(f, l), NEW o \in Order, InsertOrder(o)
    PROVE  /\ Placed(Tail(f), ListPut(l, o.side, o.price, f[1]))'
           /\ f[1] \in Slots /\ Len(f) # 0 /\ SlotsOtherThan(l, f[1])
           /\ Pushes(storage, storage', l[o.side][o.price], f[1], o)
           /\ OnlyLevel(levels, levels', o.side, o.price)
           /\ o.price \in DOMAIN levels'[o.side]
           /\ levels'[o.side][o.price].qty =
                 AddQty(IF o.price \in DOMAIN levels[o.side] THEN levels[o.side][o.price].qty ELSE 0, o.qty)
<1>. DEFINE s == o.side
            p == o.price
            i == f[1]
            c == l[s][p]
            g == Tail(f)
            m == ListPut(l, s, p, i)
            level == IF p \in DOMAIN levels[s] THEN levels[s][p] ELSE NewLevel
            level2 == PushedLevel(level, i, o)
<1>1. /\ Fields /\ FreeSlots(f) /\ LevelSlots(storage, levels, l) /\ SlotsPlaced(f, l)
      /\ OrdersPlaced(storage, orderIndex, l) /\ IndexPlaced(storage, orderIndex, l)
  BY Zenon DEF Placed
<1>2. s \in Side /\ p \in Prices /\ o.id \in Ids /\ o \in OrderData
  BY OrderIsData, Zenon DEF Order
<1>3. /\ f \in Seq(Slots) /\ Len(f) \in 0 .. Capacity
      /\ \A j, k \in 1 .. Len(f) : f[j] = f[k] => j = k
      /\ \A k \in 1 .. Len(f) : f[k] \in Slots
      /\ freeHead = IF Len(f) = 0 THEN ARENA_NULL ELSE f[1]
      /\ SlotsOnly(l)
  BY <1>1, PlacedSlots, Zenon
<1>4. /\ Len(f) # 0 /\ freeHead = i
      /\ o.id \notin DOMAIN orderIndex
      /\ freeHead' = storage[freeHead].next
      /\ count' = count + 1
      /\ storage' = PushedStorage(storage, level, i, o)
      /\ levels' = [levels EXCEPT ![s] = With(@, p, level2)]
      /\ orderIndex' = With(orderIndex, o.id, i)
      /\ best' = [best EXCEPT ![s] = IF @ = NoPrice \/ Better(s, p, @) THEN p ELSE @]
      /\ ret' = "Ok"
  BY <1>3, Zenon DEF InsertOrder, Called
<1>5. i \in Slots /\ 1 \in 1 .. Len(f)
  BY <1>3, <1>4
<1>6. /\ c \in Seq(Slots) /\ l \in [Side -> [Prices -> Seq(Slots)]]
      /\ p \in DOMAIN levels[s] <=> Len(c) # 0
      /\ p \in DOMAIN levels[s] => IsLevel(storage, c, levels[s][p])
  BY <1>1, <1>2, Zenon DEF LevelSlots
<1>7. SlotsOtherThan(l, i)
  <2>1. ASSUME NEW t \in Side, NEW q \in Prices, NEW k \in 1 .. Len(l[t][q])
        PROVE  l[t][q][k] # i
    BY <1>1, <1>5 DEF SlotsPlaced
  <2>. QED
    BY <1>3, <2>1, Zenon DEF SlotsOtherThan, SlotsOnly
<1>8. \A k \in 1 .. Len(c) : c[k] # i
  BY <1>2, <1>7, Zenon DEF SlotsOtherThan
<1>. HIDE DEF s, p, c, g, m, level, level2
<1>9. /\ level.tail = IF Len(c) = 0 THEN ARENA_NULL ELSE c[Len(c)]
      /\ level.count = Len(c)
      /\ Len(c) # 0 => IsLevel(storage, c, level) /\ level.head = levels[s][p].head
      /\ level \in PriceLevel
  <2>1. CASE Len(c) = 0
    BY <1>6, <2>1, OrdersAssumption DEF level, NewLevel, PriceLevel, Link
  <2>2. CASE Len(c) # 0
    BY <1>1, <1>2, <1>6, <2>2, Zenon DEF level, IsLevel, Fields, LevelMaps
  <2>. QED
    BY <2>1, <2>2, Zenon
<1>10. /\ storage' \in [Slots -> OrderNode]
       /\ Pushes(storage, storage', c, i, o)
  BY <1>1, <1>2, <1>4, <1>5, <1>6, <1>8, <1>9, PushedStoragePushes, Zenon DEF Fields
<1>11. /\ level2 \in PriceLevel
       /\ level2.head = (IF Len(c) = 0 THEN i ELSE level.head)
       /\ level2.tail = i
       /\ level2.count = Len(c) + 1
  <2>1. AddQty(level.qty, o.qty) \in 0 .. MaxQty
    BY <1>2, <1>9, OrdersAssumption DEF AddQty, PriceLevel, OrderData
  <2>2. Len(c) = 0 <=> level.tail = ARENA_NULL
    <3>1. Len(c) # 0 => c[Len(c)] \in Slots
      BY <1>6, SeqElements
    <3>2. ARENA_NULL \notin Slots
      BY ArenaAssumption, Zenon DEF Slots
    <3>. QED
      BY <1>9, <3>1, <3>2, Zenon
  <2>. QED
    BY <1>5, <1>6, <1>9, <2>1, <2>2 DEF level2, PushedLevel, PriceLevel, Link
<1>12. /\ LevelMaps(levels') /\ OnlyLevel(levels, levels', s, p)
       /\ p \in DOMAIN levels'[s] /\ levels'[s][p] = level2
  <2>1. levels' = LevelPut(levels, s, p, level2)
    BY <1>4, Zenon DEF LevelPut
  <2>2. LevelMaps(levels)
    BY <1>1, Zenon DEF Fields
  <2>. QED
    BY <1>2, <1>11, <2>1, <2>2, LevelWritten
<1>13. /\ DOMAIN orderIndex' = DOMAIN orderIndex \cup {o.id}
       /\ orderIndex' = [id \in DOMAIN orderIndex' |-> orderIndex'[id]]
       /\ orderIndex'[o.id] = i
       /\ \A id \in DOMAIN orderIndex : id # o.id => orderIndex'[id] = orderIndex[id]
  BY <1>4, Zenon DEF With
<1>18. IndexAdds(orderIndex, orderIndex', o.id, i)
  BY <1>4, <1>13, Zenon DEF IndexAdds
<1>14. Fields'
  <2>1. best' \in [Side -> Prices \cup {NoPrice}]
    BY <1>1, <1>2, <1>4, Zenon DEF Fields
  <2>2. DOMAIN orderIndex' \subseteq Ids
    BY <1>1, <1>2, <1>13, Zenon DEF Fields
  <2>. QED
    BY <1>4, <1>10, <1>12, <1>13, <2>1, <2>2, Zenon DEF Fields
<1>15. /\ IsList(storage', g, freeHead')
       /\ Len(g) = Len(f) - 1
       /\ \A k \in 1 .. Len(f) - 1 : g[k] = f[k + 1]
  <2>1. ASSUME NEW k \in 2 .. Len(f) PROVE storage'[f[k]].next = storage[f[k]].next
    <3>1. k \in 1 .. Len(f) /\ k # 1
      BY <1>3
    <3>2. f[k] \in Slots /\ f[k] # i
      BY <1>3, <1>5, <3>1, Zenon
    <3>3. Len(c) # 0 => c[Len(c)] # f[k]
      <4>1. Len(c) # 0 => Len(c) \in 1 .. Len(c)
        BY <1>6, SeqElements
      <4>. QED
        BY <1>1, <1>2, <3>1, <4>1 DEF SlotsPlaced, c
    <3>. QED
      BY <1>10, <3>2, <3>3, Zenon DEF Pushes
  <2>2. IsList(storage, f, freeHead)
    BY <1>1, Zenon DEF FreeSlots
  <2>. QED
    <3>1. \A k \in 2 .. Len(f) : storage'[f[k]].next = storage[f[k]].next
      BY <2>1, Zenon
    <3>2. Len(f) # 0
      BY <1>4, Zenon
    <3>3. /\ IsList(storage', g, storage[freeHead].next)
          /\ Len(g) = Len(f) - 1
          /\ \A k \in 1 .. Len(f) - 1 : g[k] = f[k + 1]
      <4>1. /\ IsList(storage', Tail(f), storage[freeHead].next)
            /\ Len(Tail(f)) = Len(f) - 1
            /\ \A k \in 1 .. Len(f) - 1 : Tail(f)[k] = f[k + 1]
        BY <2>2, <3>1, <3>2, FreeListShrinks
      <4>. QED
        BY <4>1, Zenon DEF g
    <3>. QED
      BY <1>4, <3>3, Zenon
<1>16. FreeSlots(g)'
  <2>1. count = Capacity - Len(f)
    BY <1>1, Zenon DEF FreeSlots
  <2>2. count' = Capacity - Len(g)
    BY <1>3, <1>4, <1>15, <2>1, OrdersAssumption
  <2>. QED
    BY <1>15, <2>2, Zenon DEF FreeSlots
<1>17. /\ m \in Lists
       /\ SlotsPlaced(g, m)
       /\ m[s][p] = Append(c, i)
       /\ OtherListsSame(l, m, s, p)
       /\ SlotPushed(l, m, s, p, i)
  <2>1. m = ListPut(l, s, p, i) /\ l \in Lists
    BY <1>6, Zenon DEF m, Lists
  <2>2. FirstTaken(f, g) /\ Distinct(f)
    BY <1>3, <1>15, Zenon DEF FirstTaken, Distinct
  <2>3. Len(f) \in Nat \ {0} /\ SlotsPlaced(f, l)
    BY <1>1, <1>3, <1>4
  <2>4. /\ ListPut(l, s, p, i) \in Lists
        /\ ListPut(l, s, p, i)[s][p] = Append(l[s][p], i)
        /\ OtherListsSame(l, ListPut(l, s, p, i), s, p)
        /\ SlotPushed(l, ListPut(l, s, p, i), s, p, i)
    BY <1>2, <1>5, <2>1, PushPutsOneSlot, Zenon
  <2>5. SlotPushed(l, m, s, p, i)
    BY <2>1, <2>4, Zenon
  <2>6. SlotsPlaced(g, m)
    BY <1>2, <2>2, <2>3, <2>5, PlacesAfterPush, Zenon
  <2>. QED
    BY <2>1, <2>4, <2>5, <2>6, Zenon DEF c
<1>19. IsLevel(storage', Append(c, i), level2)
  BY <1>5, <1>6, <1>8, <1>9, <1>10, <1>11, LevelGrows, Zenon
<1>20. LevelSlots(storage', levels', m)
  <2>1. ASSUME NEW t \in Side, NEW q \in Prices, NEW k \in 1 .. Len(l[t][q]), ~(t = s /\ q = p)
        PROVE  /\ storage'[l[t][q][k]].next = storage[l[t][q][k]].next
               /\ storage'[l[t][q][k]].prev = storage[l[t][q][k]].prev
    <3>1. l[t][q][k] \in Slots /\ l[t][q][k] # i
      BY <1>7, Zenon DEF SlotsOtherThan
    <3>2. Len(c) # 0 => c[Len(c)] # l[t][q][k]
      <4>1. Len(c) # 0 => Len(c) \in 1 .. Len(c)
        BY <1>6, SeqElements
      <4>2. SamePlace(l, s, p, t, q)
        BY <1>1, <1>2, MetOnce, Zenon
      <4>. QED
        BY <2>1, <4>1, <4>2, Zenon DEF SamePlace, c
    <3>. QED
      BY <1>10, <3>1, <3>2, Zenon DEF Pushes
  <2>2. OtherLinksSame(storage, storage', l, s, p)
    BY <2>1, Zenon DEF OtherLinksSame
  <2>3. Len(m[s][p]) # 0
    BY <1>5, <1>6, <1>17, AppendElements, SeqElements
  <2>4. IsLevel(storage', m[s][p], levels'[s][p])
    BY <1>12, <1>17, <1>19, Zenon
  <2>5. p \in DOMAIN levels'[s] /\ LevelSlots(storage, levels, l) /\ OnlyLevel(levels, levels', s, p)
    BY <1>1, <1>12, Zenon
  <2>. QED
    BY <1>2, <1>17, <2>2, <2>3, <2>4, <2>5, OtherLevelsKept, Zenon
<1>21. /\ OrdersPlaced(storage', orderIndex', m)
       /\ IndexPlaced(storage', orderIndex', m)
  <2>1. o.side = s /\ o.price = p /\ OrdersPlaced(storage, orderIndex, l) /\ IndexPlaced(storage, orderIndex, l)
    BY <1>1, Zenon DEF s, p
  <2>. QED
    BY <1>2, <1>5, <1>7, <1>10, <1>18, <1>17, <2>1, OrdersAfterPush, Zenon
<1>22. Placed(g, m)'
  BY <1>14, <1>16, <1>17, <1>20, <1>21, Zenon DEF Placed
<1>23. levels'[s][p].qty = AddQty(IF p \in DOMAIN levels[s] THEN levels[s][p].qty ELSE 0, o.qty)
  BY <1>12 DEF level2, level, PushedLevel, NewLevel
<1>. QED
  BY <1>4, <1>5, <1>7, <1>10, <1>12, <1>22, <1>23, Zenon DEF g, m, s, p, c

(* The best price of a side is a price of its levels.                      *)
LEMMA BestIsPrice ==
    ASSUME NEW s \in Side, NEW P \in SUBSET Prices
    PROVE  BestOf(s, P) \in Prices \cup {NoPrice}
<1>1. CASE P = {}
  BY <1>1, Zenon DEF BestOf
<1>2. CASE P # {}
  <2>1. /\ \E p \in P : \A q \in P : p <= q
        /\ \E p \in P : \A q \in P : p >= q
    <3>1. P \in SUBSET (MinPrice .. MaxPrice) /\ MinPrice \in Int /\ MaxPrice \in Int
      BY OrdersAssumption, Zenon DEF Prices
    <3>. QED
      BY <1>2, <3>1, ExtremesOfInterval, Zenon
  <2>2. \A p, q \in P : p \in Int /\ q \in Int
    BY OrdersAssumption DEF Prices
  <2>3. \E p \in P : \A q \in P : q = p \/ Better(s, p, q)
    BY <2>1, <2>2 DEF Better
  <2>. QED
    BY <1>2, <2>3, Zenon DEF BestOf
<1>. QED
  BY <1>1, <1>2, Zenon

(* The level of which a slot has been unlinked is settled: it stays in the *)
(* map, changed, or leaves it.                                             *)
LEMMA LevelSettled ==
    ASSUME Fields, NEW s \in Side, NEW p \in DOMAIN levels[s], NEW level \in PriceLevel,
           SettleLevel(s, p, level)
    PROVE  /\ LevelMaps(levels') /\ OnlyLevel(levels, levels', s, p)
           /\ best' \in [Side -> Prices \cup {NoPrice}]
           /\ level.count = 0 => p \notin DOMAIN levels'[s]
           /\ level.count # 0 => p \in DOMAIN levels'[s] /\ levels'[s][p] = level
<1>1. LevelMaps(levels) /\ p \in Prices /\ best \in [Side -> Prices \cup {NoPrice}]
  BY Zenon DEF Fields, LevelMaps
<1>2. CASE level.count = 0
  <2>1. /\ levels' = LevelDrop(levels, s, p)
        /\ best' = [best EXCEPT ![s] = BestOf(s, DOMAIN levels[s] \ {p})]
    BY <1>2, Zenon DEF SettleLevel, LevelDrop
  <2>2. BestOf(s, DOMAIN levels[s] \ {p}) \in Prices \cup {NoPrice}
    <3>1. DOMAIN levels[s] \ {p} \in SUBSET Prices
      BY <1>1, Zenon DEF LevelMaps
    <3>. QED
      BY <3>1, BestIsPrice, Zenon
  <2>3. best' \in [Side -> Prices \cup {NoPrice}]
    BY <1>1, <2>1, <2>2, Zenon
  <2>. QED
    BY <1>1, <1>2, <2>1, <2>3, LevelDropped, Zenon
<1>3. CASE level.count # 0
  <2>1. levels' = LevelSet(levels, s, p, level) /\ best' = best
    BY <1>3, Zenon DEF SettleLevel, LevelSet
  <2>. QED
    BY <1>1, <1>3, <2>1, LevelChanged
<1>. QED
  BY <1>2, <1>3, Zenon

(* cancel_order and the last fill of an order: its slot leaves the level   *)
(* for the front of the free list, and its id the index.                   *)
Removes(c, k, s, p, level2) ==
    /\ storage' \in [Slots -> OrderNode]
    /\ Unlinks(storage, storage', c, k, freeHead)
    /\ freeHead' = c[k]
    /\ count' = count - 1
    /\ orderIndex' = Without(orderIndex, storage[c[k]].order.id)
    /\ level2 \in PriceLevel
    /\ level2.head = IF k = 1 THEN storage[c[k]].next ELSE levels[s][p].head
    /\ level2.tail = IF k = Len(c) THEN storage[c[k]].prev ELSE levels[s][p].tail
    /\ level2.count = Len(c) - 1
    /\ level2.qty = SubQty(levels[s][p].qty, storage[c[k]].order.qty)
    /\ SettleLevel(s, p, level2)
    /\ ret' = "Ok"

(* A slot unlinked from its level, at either end or in the middle, becomes *)
(* the first free slot, and every other slot keeps its place.              *)
LEMMA RemovalKeepsPlaces ==
    ASSUME NEW f, NEW l, Placed(f, l), NEW s \in Side, NEW p \in Prices,
           NEW k \in 1 .. Len(l[s][p]), NEW STATE level2, Removes(l[s][p], k, s, p, level2)
    PROVE  Placed(<<l[s][p][k]>> \o f, ListCut(l, s, p, k))'
<1>. DEFINE c == l[s][p]
            i == l[s][p][k]
            g == <<i>> \o f
            m == ListCut(l, s, p, k)
            id == storage[i].order.id
<1>1. /\ Fields /\ FreeSlots(f) /\ LevelSlots(storage, levels, l) /\ SlotsPlaced(f, l)
      /\ OrdersPlaced(storage, orderIndex, l) /\ IndexPlaced(storage, orderIndex, l)
  BY Zenon DEF Placed
<1>2. /\ storage' \in [Slots -> OrderNode]
      /\ Unlinks(storage, storage', c, k, freeHead)
      /\ freeHead' = i
      /\ count' = count - 1
      /\ orderIndex' = Without(orderIndex, id)
      /\ level2 \in PriceLevel
      /\ level2.head = IF k = 1 THEN storage[i].next ELSE levels[s][p].head
      /\ level2.tail = IF k = Len(c) THEN storage[i].prev ELSE levels[s][p].tail
      /\ level2.count = Len(c) - 1
      /\ SettleLevel(s, p, level2)
      /\ ret' = "Ok"
  BY Zenon DEF Removes
<1>3. /\ f \in Seq(Slots) /\ Len(f) \in 0 .. Capacity
      /\ \A j \in 1 .. Len(f) : f[j] \in Slots
      /\ SlotsOnly(l)
  BY <1>1, PlacedSlots, Zenon
<1>4. /\ l \in Lists /\ Len(c) \in Nat /\ i \in Slots
      /\ p \in DOMAIN levels[s] /\ IsLevel(storage, c, levels[s][p])
  <2>1. l \in Lists /\ c \in Seq(Slots)
    BY <1>1, Zenon DEF LevelSlots, Lists
  <2>2. Len(c) \in Nat /\ Len(c) # 0
    BY <2>1, SeqElements
  <2>3. i \in Slots
    BY <1>3, Zenon DEF SlotsOnly
  <2>. QED
    BY <1>1, <2>1, <2>2, <2>3, Zenon DEF LevelSlots
<1>5. OrderPlaced(storage, orderIndex, s, p, i)
  BY <1>1, Zenon DEF OrdersPlaced
<1>6. /\ LevelMaps(levels') /\ OnlyLevel(levels, levels', s, p)
      /\ best' \in [Side -> Prices \cup {NoPrice}]
      /\ level2.count = 0 => p \notin DOMAIN levels'[s]
      /\ level2.count # 0 => p \in DOMAIN levels'[s] /\ levels'[s][p] = level2
  BY <1>1, <1>2, <1>4, LevelSettled, Zenon
<1>7. /\ DOMAIN orderIndex' = DOMAIN orderIndex \ {id}
      /\ orderIndex' = [x \in DOMAIN orderIndex' |-> orderIndex'[x]]
      /\ IndexDrops(orderIndex, orderIndex', id)
  BY <1>2, Zenon DEF Without, IndexDrops
<1>8. Fields'
  BY <1>1, <1>2, <1>6, <1>7, Zenon DEF Fields
<1>9. /\ OtherLinksSame(storage, storage', l, s, p)
      /\ FreeLinksSame(storage, storage', f, i)
  <2>1. /\ SlotsPlaced(f, l) /\ SlotsOnly(l) /\ Len(l[s][p]) \in Nat /\ f \in Seq(Slots)
        /\ Unlinks(storage, storage', l[s][p], k, freeHead)
    BY <1>1, <1>2, <1>3, <1>4, Zenon
  <2>. QED
    BY <2>1, UnlinkIsLocal, Zenon
<1>. HIDE DEF g, m, c, i, id
<1>10. /\ IsList(storage', g, freeHead')
       /\ FirstAdded(f, g, i)
  <2>1. IsList(storage, f, freeHead)
    BY <1>1, Zenon DEF FreeSlots
  <2>2. storage'[i].next = freeHead
    BY <1>2, <1>4, Zenon DEF Unlinks, c, i
  <2>3. /\ IsList(storage', <<i>> \o f, i)
        /\ Len(<<i>> \o f) = Len(f) + 1
        /\ (<<i>> \o f)[1] = i
        /\ \A j \in 1 .. Len(f) : (<<i>> \o f)[j + 1] = f[j]
    BY <1>4, <1>9, <2>1, <2>2, FreeListGrows DEF FreeLinksSame
  <2>. QED
    BY <1>2, <2>3, Zenon DEF g, FirstAdded
<1>11. FreeSlots(g)'
  <2>1. count' = Capacity - Len(g)
    BY <1>1, <1>2, <1>3, <1>10, OrdersAssumption DEF FreeSlots, FirstAdded
  <2>. QED
    BY <1>10, <2>1, Zenon DEF FreeSlots
<1>12. /\ m \in Lists /\ m[s][p] = Cut(c, k) /\ OtherListsSame(l, m, s, p)
       /\ Len(m[s][p]) = Len(c) - 1 /\ OneSlotLess(l, m, s, p, k)
  BY <1>4, UnlinkTakesOneSlot, Zenon DEF m, c
<1>13. SlotsPlaced(g, m) /\ SlotTaken(l, m, i)
  <2>1. FirstAdded(f, g, l[s][p][k]) /\ Len(f) \in Nat /\ SlotsPlaced(f, l) /\ OneSlotLess(l, m, s, p, k)
    BY <1>1, <1>3, <1>10, <1>12 DEF i
  <2>. QED
    BY <2>1, PlacesAfterUnlink, Zenon DEF i
<1>14. LevelSlots(storage', levels', m)
  <2>1. p \in DOMAIN levels'[s] <=> Len(m[s][p]) # 0
    BY <1>2, <1>4, <1>6, <1>12, Zenon
  <2>2. ASSUME p \in DOMAIN levels'[s] PROVE IsLevel(storage', m[s][p], levels'[s][p])
    <3>1. Len(c) # 1 /\ levels'[s][p] = level2
      BY <1>2, <1>4, <1>6, <2>2
    <3>2. /\ level2.head = IF k = 1 THEN storage[c[k]].next ELSE levels[s][p].head
          /\ level2.tail = IF k = Len(c) THEN storage[c[k]].prev ELSE levels[s][p].tail
          /\ level2.count = Len(c) - 1 /\ k \in 1 .. Len(c)
      BY <1>2, Zenon DEF c, i
    <3>3. IsLevel(storage', Cut(c, k), level2)
      BY <1>2, <1>4, <3>1, <3>2, LevelShrinks, Zenon
    <3>. QED
      BY <1>12, <3>1, <3>3, Zenon
  <2>. QED
    BY <1>1, <1>6, <1>9, <1>12, <2>1, <2>2, OtherLevelsKept, Zenon
<1>15. OrdersPlaced(storage', orderIndex', m) /\ IndexPlaced(storage', orderIndex', m)
  <2>1. c[k] = i /\ IndexDrops(orderIndex, orderIndex', storage[i].order.id)
    BY <1>7, Zenon DEF c, i, id
  <2>. QED
    BY <1>1, <1>2, <1>3, <1>5, <1>13, <2>1, OrdersAfterUnlink, Zenon
<1>16. Placed(g, m)'
  BY <1>8, <1>11, <1>13, <1>14, <1>15, Zenon DEF Placed
<1>. QED
  BY <1>16, Zenon DEF g, m, i

(* Where the index leads is a slot of a level.                             *)
LEMMA IndexedPlace ==
    ASSUME NEW f, NEW l, Placed(f, l), NEW id \in DOMAIN orderIndex
    PROVE  \E s \in Side, p \in Prices : \E k \in 1 .. Len(l[s][p]) :
              /\ l[s][p][k] = orderIndex[id]
              /\ storage[orderIndex[id]].order \in Order
              /\ storage[orderIndex[id]].order.id = id
              /\ storage[orderIndex[id]].order.side = s
              /\ storage[orderIndex[id]].order.price = p
<1>1. PICK s \in Side, p \in Prices : \E k \in 1 .. Len(l[s][p]) :
         l[s][p][k] = orderIndex[id] /\ storage[l[s][p][k]].order.id = id
  BY Zenon DEF Placed, IndexPlaced
<1>2. PICK k \in 1 .. Len(l[s][p]) : l[s][p][k] = orderIndex[id] /\ storage[l[s][p][k]].order.id = id
  BY <1>1, Zenon
<1>3. OrderPlaced(storage, orderIndex, s, p, l[s][p][k])
  BY Zenon DEF Placed, OrdersPlaced
<1>4. /\ storage[orderIndex[id]].order \in Order
      /\ storage[orderIndex[id]].order.side = s
      /\ storage[orderIndex[id]].order.price = p
      /\ storage[orderIndex[id]].order.id = id
  BY <1>2, <1>3, Zenon DEF OrderPlaced
<1>. QED
  BY <1>2, <1>4, Zenon

(* The level of a slot, as the steps that take one find it.                *)
LEMMA PlacedLevel ==
    ASSUME NEW f, NEW l, Placed(f, l), NEW s \in Side, NEW p \in Prices, NEW k \in 1 .. Len(l[s][p])
    PROVE  /\ storage \in [Slots -> OrderNode] /\ freeHead \in Link
           /\ l[s][p][k] \in Slots
           /\ p \in DOMAIN levels[s] /\ IsLevel(storage, l[s][p], levels[s][p])
           /\ levels[s][p] \in PriceLevel
           /\ storage[l[s][p][k]].order \in Order
           /\ storage[l[s][p][k]].order.side = s
           /\ storage[l[s][p][k]].order.price = p
           /\ storage[l[s][p][k]].order.id \in DOMAIN orderIndex
           /\ Len(l[s][p]) \in Nat
<1>1. FreeSlots(f) /\ LevelSlots(storage, levels, l) /\ storage \in [Slots -> OrderNode] /\ LevelMaps(levels)
  BY Zenon DEF Placed, Fields
<1>2. freeHead \in Link /\ SlotsOnly(l)
  BY <1>1, PlacedSlots, Zenon
<1>3. l[s][p] \in Seq(Slots) /\ Len(l[s][p]) \in Nat
  BY <1>1, SeqElements DEF LevelSlots
<1>4. p \in DOMAIN levels[s] /\ IsLevel(storage, l[s][p], levels[s][p])
  BY <1>1, <1>3 DEF LevelSlots
<1>5. l[s][p][k] \in Slots
  BY <1>2, Zenon DEF SlotsOnly
<1>6. OrderPlaced(storage, orderIndex, s, p, l[s][p][k])
  BY Zenon DEF Placed, OrdersPlaced
<1>7. levels[s][p] \in PriceLevel
  BY <1>1, <1>4, Zenon DEF LevelMaps
<1>. QED
  BY <1>1, <1>2, <1>3, <1>4, <1>5, <1>6, <1>7, Zenon DEF OrderPlaced

(* cancel_order of a resting order unlinks its slot.                       *)
LEMMA CancelRemoves ==
    ASSUME NEW f, NEW l, Placed(f, l), NEW id, CancelOrder(id)
    PROVE  \E s \in Side, p \in Prices : \E k \in 1 .. Len(l[s][p]) :
              /\ l[s][p][k] = orderIndex[id]
              /\ storage[l[s][p][k]].order.id = id
              /\ Removes(l[s][p], k, s, p, RemovedLevel(storage, levels[s][p], l[s][p][k]))
              /\ op' = "cancel_order" /\ arg' = id
<1>. DEFINE i == orderIndex[id]
            o == storage[i].order
<1>1. id \in DOMAIN orderIndex
  BY Zenon DEF CancelOrder
<1>2. PICK s \in Side, p \in Prices : \E k \in 1 .. Len(l[s][p]) :
         l[s][p][k] = i /\ o \in Order /\ o.id = id /\ o.side = s /\ o.price = p
  BY <1>1, IndexedPlace
<1>. DEFINE c == l[s][p]
<1>3. /\ o \in Order /\ o.id = id /\ o.side = s /\ o.price = p
      /\ \E k \in 1 .. Len(c) : c[k] = i
  BY <1>2, Zenon
<1>4. PICK k \in 1 .. Len(c) : c[k] = i
  BY <1>3, Zenon
<1>5. /\ storage \in [Slots -> OrderNode] /\ freeHead \in Link /\ i \in Slots
      /\ p \in DOMAIN levels[s] /\ IsLevel(storage, c, levels[s][p]) /\ levels[s][p] \in PriceLevel
      /\ Len(c) \in Nat
  <2>1. /\ storage \in [Slots -> OrderNode] /\ freeHead \in Link /\ c[k] \in Slots
        /\ p \in DOMAIN levels[s] /\ IsLevel(storage, c, levels[s][p]) /\ levels[s][p] \in PriceLevel
        /\ Len(c) \in Nat
    BY PlacedLevel, Zenon
  <2>. QED
    BY <1>4, <2>1, Zenon
<1>. DEFINE level2 == RemovedLevel(storage, levels[s][p], i)
<1>6. /\ orderIndex' = Without(orderIndex, id)
      /\ storage' = RemovedStorage(storage, freeHead, i)
      /\ freeHead' = i
      /\ count' = count - 1
      /\ SettleLevel(s, p, level2)
      /\ op' = "cancel_order" /\ arg' = id /\ ret' = "Ok"
  BY <1>3, <1>5, Zenon DEF CancelOrder, IndexWithout, Called
<1>. HIDE DEF c, o, i
<1>7. /\ storage' \in [Slots -> OrderNode]
      /\ Unlinks(storage, storage', c, k, freeHead)
  BY <1>4, <1>5, <1>6, RemovedStorageUnlinks, Zenon
<1>8. /\ storage[i].prev = (IF k = 1 THEN ARENA_NULL ELSE c[k - 1])
      /\ storage[i].next = (IF k = Len(c) THEN ARENA_NULL ELSE c[k + 1])
      /\ k # 1 => c[k - 1] \in Slots /\ c[k - 1] # ARENA_NULL
      /\ k # Len(c) => c[k + 1] \in Slots /\ c[k + 1] # ARENA_NULL
  <2>1. /\ storage[c[k]].prev = (IF k = 1 THEN ARENA_NULL ELSE c[k - 1])
        /\ storage[c[k]].next = (IF k = Len(c) THEN ARENA_NULL ELSE c[k + 1])
        /\ k # 1 => c[k - 1] \in Slots /\ c[k - 1] # ARENA_NULL
        /\ k # Len(c) => c[k + 1] \in Slots /\ c[k + 1] # ARENA_NULL
    BY <1>5, LevelLinks
  <2>. QED
    BY <1>4, <2>1, Zenon
<1>9. /\ level2.head = (IF k = 1 THEN storage[i].next ELSE levels[s][p].head)
      /\ level2.tail = (IF k = Len(c) THEN storage[i].prev ELSE levels[s][p].tail)
      /\ level2.count = Len(c) - 1
      /\ level2.qty = SubQty(levels[s][p].qty, storage[i].order.qty)
      /\ level2 \in PriceLevel
  <2>1. levels[s][p].count = Len(c) /\ Len(c) >= 1
    BY <1>5, Zenon DEF IsLevel
  <2>2. SubQty(levels[s][p].qty, storage[i].order.qty) \in 0 .. MaxQty
    <3>1. levels[s][p].qty \in 0 .. MaxQty
      BY <1>5, Zenon DEF PriceLevel
    <3>2. storage[i].order.qty \in 0 .. MaxQty
      BY <1>3, OrderIsData, Zenon DEF OrderData, o
    <3>. QED
      BY <3>1, <3>2, QtyStaysInRange, Zenon
  <2>3. storage[i].prev = ARENA_NULL <=> k = 1
    BY <1>8, Zenon
  <2>4. storage[i].next = ARENA_NULL <=> k = Len(c)
    BY <1>8, Zenon
  <2>5. storage[i].prev \in Link /\ storage[i].next \in Link
    BY <1>8, Zenon DEF Link
  <2>. QED
    BY <1>5, <2>1, <2>2, <2>3, <2>4, <2>5 DEF RemovedLevel, PriceLevel
<1>10. storage[c[k]].order.id = id
  BY <1>3, <1>4, Zenon DEF o
<1>. HIDE DEF level2
<1>11. Removes(c, k, s, p, level2)
  BY <1>4, <1>6, <1>7, <1>9, <1>10, Zenon DEF Removes
<1>. QED
  BY <1>4, <1>6, <1>10, <1>11, Zenon DEF c, level2, i

(* A fill that spends the front order of a level unlinks its slot.         *)
LEMMA FullFillRemoves ==
    ASSUME NEW f, NEW l, Placed(f, l), NEW s \in Side, NEW p \in Prices, NEW q \in 1 .. MaxQty,
           ReduceFrontFully(s, p, q)
    PROVE  /\ 1 \in 1 .. Len(l[s][p])
           /\ storage[l[s][p][1]].order.qty = q
           /\ Removes(l[s][p], 1, s, p, PoppedLevel(storage, levels[s][p], q))
           /\ op' = "reduce_front_quantity" /\ arg' = <<s, p, q>>
<1>. DEFINE c == l[s][p]
            i == c[1]
            level == levels[s][p]
            level2 == PoppedLevel(storage, level, q)
<1>1. p \in DOMAIN levels[s]
  BY Zenon DEF ReduceFrontFully, HasFront
<1>2. 1 \in 1 .. Len(c)
  <2>1. Len(c) # 0 /\ c \in Seq(Slots)
    BY <1>1, Zenon DEF Placed, LevelSlots
  <2>. QED
    BY <2>1, SeqElements
<1>3. /\ storage \in [Slots -> OrderNode] /\ freeHead \in Link /\ i \in Slots
      /\ IsLevel(storage, c, level) /\ level \in PriceLevel
      /\ storage[i].order \in Order /\ Len(c) \in Nat
  BY <1>2, PlacedLevel, Zenon
<1>4. level.head = i /\ level.count = Len(c) /\ level.tail = c[Len(c)]
  BY <1>2, <1>3 DEF IsLevel, IsList
<1>5. /\ storage[i].order.qty = q
      /\ storage' = PoppedStorage(storage, freeHead, level)
      /\ freeHead' = i
      /\ count' = count - 1
      /\ orderIndex' = Without(orderIndex, storage[i].order.id)
      /\ SettleLevel(s, p, level2)
      /\ op' = "reduce_front_quantity" /\ arg' = <<s, p, q>> /\ ret' = "Ok"
  BY <1>4, Zenon DEF ReduceFrontFully, FrontQty, IndexWithout, Called
<1>. HIDE DEF c, i, level
<1>6. i = c[1]
  BY Zenon DEF i
<1>7. /\ storage' \in [Slots -> OrderNode]
      /\ Unlinks(storage, storage', c, 1, freeHead)
  BY <1>3, <1>5, <1>6, OrderIsData, PoppedStorageUnlinks, Zenon
<1>8. /\ storage[i].prev = ARENA_NULL
      /\ storage[i].next = (IF 1 = Len(c) THEN ARENA_NULL ELSE c[2])
      /\ 1 # Len(c) => c[2] \in Slots /\ c[2] # ARENA_NULL
  <2>1. ASSUME NEW k \in 1 .. Len(c)
        PROVE  /\ storage[c[k]].prev = (IF k = 1 THEN ARENA_NULL ELSE c[k - 1])
               /\ storage[c[k]].next = (IF k = Len(c) THEN ARENA_NULL ELSE c[k + 1])
               /\ k # Len(c) => c[k + 1] \in Slots /\ c[k + 1] # ARENA_NULL
    BY <1>3, LevelLinks
  <2>2. /\ storage[c[1]].prev = ARENA_NULL
        /\ storage[c[1]].next = (IF 1 = Len(c) THEN ARENA_NULL ELSE c[1 + 1])
        /\ 1 # Len(c) => c[1 + 1] \in Slots /\ c[1 + 1] # ARENA_NULL
    BY <1>2, <2>1, Zenon
  <2>. QED
    BY <1>6, <2>2
<1>9. /\ level2.head = (IF 1 = 1 THEN storage[i].next ELSE level.head)
      /\ level2.tail = (IF 1 = Len(c) THEN storage[i].prev ELSE level.tail)
      /\ level2.count = Len(c) - 1
      /\ level2.qty = SubQty(level.qty, q)
      /\ level2 \in PriceLevel
  <2>1. SubQty(level.qty, q) \in 0 .. MaxQty
    BY <1>3, OrdersAssumption DEF SubQty, PriceLevel
  <2>2. storage[i].next = ARENA_NULL <=> 1 = Len(c)
    BY <1>8, Zenon
  <2>3. storage[i].next \in Link /\ ARENA_NULL \in Link
    BY <1>8, Zenon DEF Link
  <2>4. SubQty(SubQty(level.qty, q), storage[i].order.qty - q) = SubQty(level.qty, q)
    <3>1. PICK x \in 0 .. MaxQty : x = SubQty(level.qty, q)
      BY <2>1, Zenon
    <3>2. storage[i].order.qty - q = 0
      BY <1>5
    <3>3. SubQty(x, 0) = x
      BY OrdersAssumption DEF SubQty
    <3>. QED
      BY <3>1, <3>2, <3>3, Zenon
  <2>. QED
    <3>1. level2 = [head  |-> storage[i].next,
                    tail  |-> IF storage[i].next = ARENA_NULL THEN ARENA_NULL ELSE level.tail,
                    count |-> level.count - 1,
                    qty   |-> SubQty(level.qty, q)]
      BY <1>4, <2>4, Zenon DEF PoppedLevel
    <3>. HIDE DEF level2
    <3>. QED
      BY <1>2, <1>3, <1>4, <1>8, <2>1, <2>2, <2>3, <3>1 DEF PriceLevel
<1>. HIDE DEF level2
<1>10. Removes(c, 1, s, p, level2)
  BY <1>5, <1>6, <1>7, <1>9, Zenon DEF Removes, level
<1>. QED
  BY <1>2, <1>5, <1>10, Zenon DEF c, i, level2, level

Fills(c, s, p, q) ==
    /\ q < storage[c[1]].order.qty
    /\ storage' \in [Slots -> OrderNode]
    /\ \A j \in Slots :
          /\ storage'[j].next = storage[j].next
          /\ storage'[j].prev = storage[j].prev
          /\ j # c[1] => storage'[j].order = storage[j].order
    /\ storage'[c[1]].order = OrderWithQty(storage[c[1]].order, storage[c[1]].order.qty - q)
    /\ levels' = LevelSet(levels, s, p, LevelLess(levels[s][p], q))
    /\ op' = "reduce_front_quantity" /\ arg' = <<s, p, q>> /\ ret' = "Ok"
    /\ freeHead' = freeHead /\ count' = count /\ best' = best /\ orderIndex' = orderIndex

(* reduce_front_quantity, when the front order is not spent, writes what   *)
(* Fills says.                                                             *)
LEMMA PartialFillWrites ==
    ASSUME NEW f, NEW l, Placed(f, l), NEW s \in Side, NEW p \in Prices, NEW q \in 1 .. MaxQty,
           ReduceFrontPartly(s, p, q)
    PROVE  1 \in 1 .. Len(l[s][p]) /\ Fills(l[s][p], s, p, q)
<1>. DEFINE c == l[s][p]
            i == c[1]
            x == storage[i].order.qty - q
<1>1. p \in DOMAIN levels[s]
  BY Zenon DEF ReduceFrontPartly, HasFront
<1>2. 1 \in 1 .. Len(c)
  <2>1. Len(c) # 0 /\ c \in Seq(Slots)
    BY <1>1, Zenon DEF Placed, LevelSlots
  <2>. QED
    BY <2>1, SeqElements
<1>3. /\ storage \in [Slots -> OrderNode] /\ i \in Slots
      /\ IsLevel(storage, c, levels[s][p])
      /\ storage[i].order \in Order
  BY <1>2, PlacedLevel, Zenon
<1>4. levels[s][p].head = i
  BY <1>2, <1>3 DEF IsLevel, IsList
<1>5. /\ q < storage[i].order.qty
      /\ storage' = [storage EXCEPT ![i].order.qty = @ - q]
      /\ levels' = [levels EXCEPT ![s][p].qty = SubQty(@, q)]
      /\ op' = "reduce_front_quantity" /\ arg' = <<s, p, q>> /\ ret' = "Ok"
      /\ freeHead' = freeHead /\ count' = count /\ best' = best /\ orderIndex' = orderIndex
  BY <1>4, Zenon DEF ReduceFrontPartly, FrontQty, Called
<1>6. storage' = QtySet(storage, i, x)
  BY <1>5, Zenon DEF QtySet
<1>7. x \in 0 .. MaxQty /\ storage[i].order \in OrderData
  <2>1. storage[i].order.qty \in 1 .. MaxQty /\ storage[i].order \in OrderData
    BY <1>3, OrderIsData, Zenon DEF Order
  <2>2. q < storage[i].order.qty
    BY <1>5, Zenon
  <2>3. \A a \in 1 .. MaxQty : q < a => a - q \in 0 .. MaxQty
    BY OrdersAssumption
  <2>. QED
    BY <2>1, <2>2, <2>3, Zenon
<1>8. levels' = LevelSet(levels, s, p, LevelLess(levels[s][p], q))
  BY <1>5, Zenon DEF LevelSet, LevelLess
<1>. HIDE DEF i, c, x
<1>9. /\ storage' \in [Slots -> OrderNode]
      /\ \A j \in Slots :
            /\ storage'[j].next = storage[j].next
            /\ storage'[j].prev = storage[j].prev
            /\ j # i => storage'[j].order = storage[j].order
      /\ storage'[i].order = OrderWithQty(storage[i].order, x)
  BY <1>3, <1>6, <1>7, QtyWritten
<1>. QED
  BY <1>2, <1>5, <1>8, <1>9, Zenon DEF i, c, x, Fills

(* A partial fill moves no slot.                                           *)
LEMMA PartialFillKeepsPlaces ==
    ASSUME NEW f, NEW l, Placed(f, l), NEW s \in Side, NEW p \in Prices, NEW q \in 1 .. MaxQty,
           ReduceFrontPartly(s, p, q)
    PROVE  Placed(f, l)'
<1>. DEFINE c == l[s][p]
            i == c[1]
            level2 == LevelLess(levels[s][p], q)
<1>1. /\ 1 \in 1 .. Len(c)
      /\ q < storage[i].order.qty
      /\ storage' \in [Slots -> OrderNode]
      /\ \A j \in Slots :
            /\ storage'[j].next = storage[j].next
            /\ storage'[j].prev = storage[j].prev
            /\ j # i => storage'[j].order = storage[j].order
      /\ storage'[i].order = OrderWithQty(storage[i].order, storage[i].order.qty - q)
      /\ levels' = LevelSet(levels, s, p, level2)
      /\ ret' = "Ok"
      /\ freeHead' = freeHead /\ count' = count /\ best' = best /\ orderIndex' = orderIndex
  <2>. 1 \in 1 .. Len(l[s][p]) /\ Fills(l[s][p], s, p, q)
    BY PartialFillWrites, Zenon
  <2>. QED
    BY Zenon DEF Fills
<1>2. /\ Fields /\ FreeSlots(f) /\ LevelSlots(storage, levels, l) /\ SlotsPlaced(f, l)
      /\ OrdersPlaced(storage, orderIndex, l) /\ IndexPlaced(storage, orderIndex, l)
  BY Zenon DEF Placed
<1>3. /\ p \in DOMAIN levels[s] /\ IsLevel(storage, c, levels[s][p]) /\ levels[s][p] \in PriceLevel
      /\ i \in Slots /\ storage[i].order \in Order
  BY <1>1, PlacedLevel, Zenon
<1>4. /\ level2 \in PriceLevel /\ level2.head = levels[s][p].head
      /\ level2.tail = levels[s][p].tail /\ level2.count = levels[s][p].count
  <2>1. levels[s][p].qty \in 0 .. MaxQty /\ q \in 0 .. MaxQty
    BY <1>3, OrdersAssumption DEF PriceLevel
  <2>2. SubQty(levels[s][p].qty, q) \in 0 .. MaxQty
    BY <2>1, QtyStaysInRange, Zenon
  <2>. QED
    BY <1>3, <2>2, Zenon DEF PriceLevel, LevelLess
<1>5. SlotsOnly(l) /\ \A j \in 1 .. Len(f) : f[j] \in Slots
  BY <1>2, PlacedSlots, Zenon
<1>6. \A j \in 1 .. Len(c) : c[j] \in Slots
  BY <1>5, Zenon DEF SlotsOnly
<1>. HIDE DEF c, i, level2
<1>7. /\ LevelMaps(levels') /\ OnlyLevel(levels, levels', s, p)
      /\ p \in DOMAIN levels'[s] /\ levels'[s][p] = level2
  BY <1>1, <1>2, <1>3, <1>4, LevelChanged DEF Fields
<1>8. Fields'
  BY <1>1, <1>2, <1>7, Zenon DEF Fields
<1>9. FreeSlots(f)'
  <2>1. \A j \in 1 .. Len(f) : storage'[f[j]].next = storage[f[j]].next
    BY <1>1, <1>5, Zenon
  <2>2. IsList(storage', f, freeHead)
    BY <1>2, <2>1, ListUntouched, Zenon DEF FreeSlots
  <2>. QED
    BY <1>1, <1>2, <2>2, Zenon DEF FreeSlots
<1>10. LevelSlots(storage', levels', l)
  <2>1. \A j \in 1 .. Len(c) : /\ storage'[c[j]].next = storage[c[j]].next
                               /\ storage'[c[j]].prev = storage[c[j]].prev
    BY <1>1, <1>6, Zenon
  <2>2. IsLevel(storage', c, levels[s][p])
    BY <1>3, <2>1, LevelUntouched, Zenon
  <2>3. IsLevel(storage', l[s][p], levels'[s][p])
    BY <1>4, <1>7, <2>2, Zenon DEF IsLevel, c
  <2>4. OtherLinksSame(storage, storage', l, s, p)
    BY <1>1, <1>5, Zenon DEF OtherLinksSame, SlotsOnly
  <2>5. l \in Lists /\ OtherListsSame(l, l, s, p) /\ LevelSlots(storage, levels, l)
    BY <1>2, Zenon DEF Lists, LevelSlots, OtherListsSame
  <2>6. p \in DOMAIN levels'[s] <=> Len(l[s][p]) # 0
    BY <1>1, <1>7 DEF c
  <2>. QED
    BY <1>7, <2>3, <2>4, <2>5, <2>6, OtherLevelsKept, Zenon
<1>11. /\ storage'[i].order \in Order
       /\ storage'[i].order.id = storage[i].order.id
       /\ storage'[i].order.side = storage[i].order.side
       /\ storage'[i].order.price = storage[i].order.price
  <2>1. storage[i].order.qty \in 1 .. MaxQty
    BY <1>3, Zenon DEF Order
  <2>2. storage[i].order.qty - q \in 1 .. MaxQty
    BY <1>1, <2>1, OrdersAssumption
  <2>. QED
    BY <1>1, <1>3, <2>2, OrderKeepsFields
<1>12. ASSUME NEW t \in Side, NEW u \in Prices, NEW k \in 1 .. Len(l[t][u])
       PROVE  /\ OrderPlaced(storage', orderIndex', t, u, l[t][u][k])
              /\ storage'[l[t][u][k]].order.id = storage[l[t][u][k]].order.id
  <2>. DEFINE e == l[t][u][k]
  <2>1. OrderPlaced(storage, orderIndex, t, u, e)
    BY <1>2, Zenon DEF OrdersPlaced
  <2>2. e \in Slots
    BY <1>5, Zenon DEF SlotsOnly
  <2>. HIDE DEF e
  <2>3. CASE e = i
    <3>1. OrderPlaced(storage', orderIndex', t, u, e) /\ storage'[e].order.id = storage[e].order.id
      BY <1>1, <1>11, <2>1, <2>3, Zenon DEF OrderPlaced
    <3>. QED
      BY <3>1, Zenon DEF e
  <2>4. CASE e # i
    <3>1. storage'[e].order = storage[e].order
      BY <1>1, <2>2, <2>4, Zenon
    <3>2. OrderPlaced(storage', orderIndex', t, u, e) /\ storage'[e].order.id = storage[e].order.id
      BY <1>1, <2>1, <3>1, Zenon DEF OrderPlaced
    <3>. QED
      BY <3>2, Zenon DEF e
  <2>. QED
    BY <2>3, <2>4, Zenon
<1>13. OrdersPlaced(storage', orderIndex', l)
  BY <1>12, Zenon DEF OrdersPlaced
<1>14. IndexPlaced(storage', orderIndex', l)
  <2>1. ASSUME NEW id \in DOMAIN orderIndex
        PROVE  \E t \in Side, u \in Prices : \E k \in 1 .. Len(l[t][u]) :
                  l[t][u][k] = orderIndex[id] /\ storage'[l[t][u][k]].order.id = id
    <3>1. PICK t \in Side, u \in Prices : \E k \in 1 .. Len(l[t][u]) :
             l[t][u][k] = orderIndex[id] /\ storage[l[t][u][k]].order.id = id
      BY <1>2, Zenon DEF IndexPlaced
    <3>2. PICK k \in 1 .. Len(l[t][u]) :
             l[t][u][k] = orderIndex[id] /\ storage[l[t][u][k]].order.id = id
      BY <3>1, Zenon
    <3>3. storage'[l[t][u][k]].order.id = id
      BY <1>12, <3>2, Zenon
    <3>. QED
      BY <3>2, <3>3, Zenon
  <2>. QED
    BY <1>1, <2>1 DEF IndexPlaced
<1>. QED
  BY <1>2, <1>8, <1>9, <1>10, <1>13, <1>14, Zenon DEF Placed

(* A step that changes no field but the outcome.                           *)
LEMMA RefusalKeepsPlaces ==
    ASSUME NEW f, NEW l, Placed(f, l), ret' \in BookErrors \cup {"Ok"},
           UNCHANGED <<storage, freeHead, count, levels, best, orderIndex>>
    PROVE  Placed(f, l)'
BY Zenon DEF Placed, Fields, FreeSlots, LevelSlots

(* The new arena: every slot is free, in the order of their indices.       *)
LEMMA InitPlaces ==
    ASSUME ArenaInit
    PROVE  Placed([k \in 1 .. Capacity |-> k - 1], [s \in Side |-> [p \in Prices |-> <<>>]])
<1>. DEFINE f == [k \in 1 .. Capacity |-> k - 1]
            l == [s \in Side |-> [p \in Prices |-> <<>>]]
<1>1. /\ Capacity \in Nat
      /\ f \in Seq(Slots) /\ Len(f) = Capacity /\ \A k \in 1 .. Len(f) : f[k] = k - 1
  BY OrdersAssumption DEF Slots
<1>2. /\ l \in [Side -> [Prices -> Seq(Slots)]]
      /\ \A s \in Side, p \in Prices : l[s][p] = <<>> /\ Len(l[s][p]) = 0
  OBVIOUS
<1>. HIDE DEF f, l
<1>3. /\ storage \in [Slots -> OrderNode]
      /\ \A i \in Slots : storage[i].next = IF i + 1 < Capacity THEN i + 1 ELSE ARENA_NULL
  BY <1>1 DEF ArenaInit, Zeroed, OrderNode, Link, Slots
<1>4. LevelMaps(levels)
  BY DEF ArenaInit, LevelMaps
<1>5. Fields
  BY <1>3, <1>4 DEF ArenaInit, Fields
<1>6. IsList(storage, f, freeHead)
  <2>1. \A j, k \in 1 .. Len(f) : f[j] = f[k] => j = k
    BY <1>1
  <2>2. freeHead = IF Len(f) = 0 THEN ARENA_NULL ELSE f[1]
    BY <1>1 DEF ArenaInit
  <2>3. ASSUME NEW k \in 1 .. Len(f)
        PROVE  storage[f[k]].next = IF k = Len(f) THEN ARENA_NULL ELSE f[k + 1]
    <3>1. f[k] = k - 1 /\ k - 1 \in Slots /\ (k # Len(f) => f[k + 1] = k)
      BY <1>1 DEF Slots
    <3>2. storage[k - 1].next = IF (k - 1) + 1 < Capacity THEN (k - 1) + 1 ELSE ARENA_NULL
      BY <1>3, <3>1, Zenon
    <3>. QED
      BY <1>1, <3>1, <3>2
  <2>. QED
    BY <1>1, <2>1, <2>2, <2>3, Zenon DEF IsList
<1>7. FreeSlots(f)
  BY <1>1, <1>6 DEF FreeSlots, ArenaInit
<1>8. LevelSlots(storage, levels, l)
  BY <1>2 DEF LevelSlots, ArenaInit
<1>9. SlotsPlaced(f, l)
  <2>1. ASSUME NEW i \in Slots PROVE \E k \in 1 .. Len(f) : f[k] = i
    <3>1. i + 1 \in 1 .. Len(f) /\ f[i + 1] = i
      BY <1>1 DEF Slots
    <3>. QED
      BY <3>1, Zenon
  <2>. QED
    BY <1>2, <2>1 DEF SlotsPlaced
<1>10. OrdersPlaced(storage, orderIndex, l) /\ IndexPlaced(storage, orderIndex, l)
  BY <1>2 DEF OrdersPlaced, IndexPlaced, ArenaInit
<1>. QED
  BY <1>5, <1>7, <1>8, <1>9, <1>10, Zenon DEF Placed, f, l

(* What the arena's links stand for, once the lists are known.             *)
LEMMA ChainsAreLists ==
    ASSUME NEW f, NEW l, Placed(f, l)
    PROVE  /\ FreeChain = f
           /\ \A s \in Side, p \in Prices : LevelChain(s, p) = l[s][p]
<1>1. FreeSlots(f) /\ LevelSlots(storage, levels, l)
  BY Zenon DEF Placed
<1>2. FreeChain = f
  BY <1>1, ChainOfList, Zenon DEF FreeSlots, FreeChain
<1>3. ASSUME NEW s \in Side, NEW p \in Prices PROVE LevelChain(s, p) = l[s][p]
  BY <1>1, LevelChainIsList DEF LevelChain
<1>. QED
  BY <1>2, <1>3, Zenon

(* The new arena has its lists.                                            *)
LEMMA ArenaInvInit == ArenaInit => ArenaInv
<1>. SUFFICES ASSUME ArenaInit PROVE ArenaInv
  BY Zenon
<1>. DEFINE f == [k \in 1 .. Capacity |-> k - 1]
            l == [s \in Side |-> [p \in Prices |-> <<>>]]
<1>1. Placed(f, l)
  BY InitPlaces, Zenon
<1>. HIDE DEF f, l
<1>2. f \in Seq(Slots) /\ l \in Lists
  BY <1>1, PlacedSlots, Zenon DEF Placed, LevelSlots, Lists
<1>. QED
  BY <1>1, <1>2, Zenon DEF ArenaInv, Lists

(* Every operation of the book, and every refusal, leaves an arena with    *)
(* its lists.                                                              *)
LEMMA ArenaInvStep == ArenaInv /\ [ArenaNext]_arenaVars => ArenaInv'
<1>. SUFFICES ASSUME ArenaInv, [ArenaNext]_arenaVars PROVE ArenaInv'
  BY Zenon
<1>1. PICK f \in Seq(Slots), l \in [Side -> [Prices -> Seq(Slots)]] : Placed(f, l)
  BY Zenon DEF ArenaInv
<1>2. SUFFICES \E g, m : Placed(g, m)'
  <2>1. ASSUME NEW g, NEW m, Placed(g, m)' PROVE ArenaInv'
    <3>1. g \in Seq(Slots) /\ m \in [Side -> [Prices -> Seq(Slots)]]
      BY <2>1, Zenon DEF Placed, FreeSlots, IsList, LevelSlots
    <3>. QED
      BY <2>1, <3>1, Zenon DEF ArenaInv
  <2>. QED
    BY <2>1, Zenon
<1>3. ASSUME NEW o \in Order, InsertOrder(o) PROVE \E g, m : Placed(g, m)'
  BY <1>1, <1>3, InsertKeepsPlaces, Zenon
<1>4. ASSUME NEW id, CancelOrder(id) PROVE \E g, m : Placed(g, m)'
  <2>1. PICK s \in Side, p \in Prices : \E k \in 1 .. Len(l[s][p]) :
           Removes(l[s][p], k, s, p, RemovedLevel(storage, levels[s][p], l[s][p][k]))
    <3>1. \E s \in Side, p \in Prices : \E k \in 1 .. Len(l[s][p]) :
              /\ l[s][p][k] = orderIndex[id]
              /\ storage[l[s][p][k]].order.id = id
              /\ Removes(l[s][p], k, s, p, RemovedLevel(storage, levels[s][p], l[s][p][k]))
              /\ op' = "cancel_order" /\ arg' = id
      BY <1>1, <1>4, CancelRemoves, Zenon
    <3>. QED
      BY <3>1, Zenon
  <2>2. PICK k \in 1 .. Len(l[s][p]) :
           Removes(l[s][p], k, s, p, RemovedLevel(storage, levels[s][p], l[s][p][k]))
    BY <2>1, Zenon
  <2>. QED
    BY <1>1, <2>2, RemovalKeepsPlaces, Zenon
<1>5. ASSUME NEW s \in Side, NEW p \in Prices, NEW q \in 1 .. MaxQty, ReduceFrontFully(s, p, q)
      PROVE  \E g, m : Placed(g, m)'
  <2>1. /\ 1 \in 1 .. Len(l[s][p])
        /\ Removes(l[s][p], 1, s, p, PoppedLevel(storage, levels[s][p], q))
    BY <1>1, <1>5, FullFillRemoves, Zenon
  <2>. QED
    BY <1>1, <2>1, RemovalKeepsPlaces, Zenon
<1>6. ASSUME NEW s \in Side, NEW p \in Prices, NEW q \in 1 .. MaxQty, ReduceFrontPartly(s, p, q)
      PROVE  \E g, m : Placed(g, m)'
  BY <1>1, <1>6, PartialFillKeepsPlaces, Zenon
<1>7. ASSUME UNCHANGED <<storage, freeHead, count, levels, best, orderIndex>>,
             ret' \in BookErrors \cup {"Ok"}
      PROVE  \E g, m : Placed(g, m)'
  BY <1>1, <1>7, RefusalKeepsPlaces, Zenon
<1>8. ASSUME NEW o, InsertOrderRefused(o) PROVE \E g, m : Placed(g, m)'
  BY <1>7, <1>8, Zenon DEF InsertOrderRefused, Refuse, Called, BookErrors
<1>9. ASSUME NEW id, CancelOrderUnknown(id) PROVE \E g, m : Placed(g, m)'
  BY <1>7, <1>9, Zenon DEF CancelOrderUnknown, Refuse, Called, BookErrors
<1>10. ASSUME NEW s, NEW p, NEW q, ReduceFrontRefused(s, p, q) PROVE \E g, m : Placed(g, m)'
  BY <1>7, <1>10, Zenon DEF ReduceFrontRefused, Refuse, Called, BookErrors
<1>11. ASSUME UNCHANGED arenaVars PROVE \E g, m : Placed(g, m)'
  BY <1>1, <1>7, <1>11, Zenon DEF arenaVars, Placed, Fields
<1>. QED
  BY <1>3, <1>4, <1>5, <1>6, <1>8, <1>9, <1>10, <1>11, Zenon DEF ArenaNext

(* At all times the links of the arena stand for lists that share no slot, *)
(* lose no slot, and hold the orders the index leads to. Every theorem     *)
(* about the arena rests on this one.                                      *)
THEOREM ArenaInductive == ArenaSpec => []ArenaInv
BY ArenaInvInit, ArenaInvStep, PTL DEF ArenaSpec

(* What the lists say of the types of the arena's fields.                  *)
LEMMA TypeFromPlaces == ArenaInv => ArenaTypeOK
<1>. SUFFICES ASSUME ArenaInv PROVE ArenaTypeOK
  BY Zenon
<1>1. PICK f \in Seq(Slots), l \in [Side -> [Prices -> Seq(Slots)]] : Placed(f, l)
  BY Zenon DEF ArenaInv
<1>2. /\ Fields /\ FreeSlots(f) /\ LevelSlots(storage, levels, l)
      /\ OrdersPlaced(storage, orderIndex, l) /\ IndexPlaced(storage, orderIndex, l)
  BY <1>1, Zenon DEF Placed
<1>3. freeHead \in Link /\ Len(f) \in 0 .. Capacity /\ SlotsOnly(l)
  BY <1>2, PlacedSlots, Zenon
<1>4. count \in 0 .. Capacity
  BY <1>2, <1>3, OrdersAssumption DEF FreeSlots
<1>5. ASSUME NEW s \in Side, NEW p \in DOMAIN levels[s]
      PROVE  levels[s][p] \in [head : Slots, tail : Slots, count : 1 .. Capacity, qty : 0 .. MaxQty]
  <2>. DEFINE c == l[s][p]
              v == levels[s][p]
  <2>1. p \in Prices /\ v \in PriceLevel
    BY <1>2, Zenon DEF Fields, LevelMaps
  <2>2. IsLevel(storage, c, v)
    BY <1>2, <2>1, Zenon DEF LevelSlots
  <2>. HIDE DEF c, v
  <2>3. /\ IsList(storage, c, v.head) /\ Len(c) >= 1 /\ v.tail = c[Len(c)] /\ v.count = Len(c)
    BY <2>2, Zenon DEF IsLevel
  <2>4. Len(c) \in 0 .. Capacity /\ \A k \in 1 .. Len(c) : c[k] \in Slots
    BY <2>3, ListElements, ListIsShort, Zenon DEF IsList
  <2>5. 1 \in 1 .. Len(c) /\ Len(c) \in 1 .. Len(c)
    BY <2>3, <2>4
  <2>6. v.head \in Slots /\ v.tail \in Slots
    BY <2>3, <2>4, <2>5 DEF IsList
  <2>7. v.count \in 1 .. Capacity
    BY <2>3, <2>4
  <2>. QED
    BY <2>1, <2>6, <2>7, Zenon DEF PriceLevel, v
<1>6. ASSUME NEW id \in DOMAIN orderIndex PROVE orderIndex[id] \in Slots
  BY <1>2, <1>3 DEF IndexPlaced, SlotsOnly
<1>7. ASSUME NEW s \in Side PROVE DOMAIN levels[s] \subseteq Prices /\ best[s] \in Prices \cup {NoPrice}
  BY <1>2, Zenon DEF Fields, LevelMaps
<1>. QED
  BY <1>2, <1>3, <1>4, <1>5, <1>6, <1>7, Zenon DEF ArenaTypeOK, Fields

(* What the lists say of the chains that a walk along `next` meets.        *)
LEMMA SlotsFromPlaces == ArenaInv => EverySlotOnOneList
<1>. SUFFICES ASSUME ArenaInv PROVE EverySlotOnOneList
  BY Zenon
<1>1. PICK f \in Seq(Slots), l \in [Side -> [Prices -> Seq(Slots)]] : Placed(f, l)
  BY Zenon DEF ArenaInv
<1>2. FreeSlots(f) /\ LevelSlots(storage, levels, l) /\ SlotsPlaced(f, l)
  BY <1>1, Zenon DEF Placed
<1>3. FreeChain = f /\ \A s \in Side, p \in Prices : LevelChain(s, p) = l[s][p]
  BY <1>1, ChainsAreLists, Zenon
<1>4. ASSUME NEW s \in Side, NEW p \in Prices PROVE l[s][p] \in Seq(Slots)
  OBVIOUS
<1>6. ASSUME NEW c \in Seq(Slots)
      PROVE  /\ DOMAIN c = 1 .. Len(c)
             /\ Range(c) \subseteq Slots
             /\ \A i : i \in Range(c) <=> \E k \in 1 .. Len(c) : c[k] = i
  <2>1. DOMAIN c = 1 .. Len(c) /\ \A k \in 1 .. Len(c) : c[k] \in Slots
    BY SeqElements, Zenon
  <2>. QED
    BY <2>1, Zenon DEF Range
<1>7. /\ \A x, y \in 1 .. Len(f) : f[x] = f[y] => x = y
      /\ Len(f) \in 0 .. Capacity
  BY <1>2, PlacedSlots, Zenon
<1>8. ASSUME NEW c \in Seq(Slots), \A x, y \in 1 .. Len(c) : c[x] = c[y] => x = y
      PROVE  IsInjective(c)
  <2>1. DOMAIN c = 1 .. Len(c)
    BY <1>6, Zenon
  <2>. QED
    BY <1>8, <2>1, Zenon DEF IsInjective
<1>9. ASSUME NEW c \in Seq(Slots), NEW d \in Seq(Slots),
             \A x \in 1 .. Len(c), y \in 1 .. Len(d) : c[x] # d[y]
      PROVE  Range(c) \cap Range(d) = {}
  <2>1. SUFFICES ASSUME NEW i, i \in Range(c), i \in Range(d) PROVE FALSE
    BY Zenon
  <2>2. PICK x \in 1 .. Len(c) : c[x] = i
    BY <1>6, <2>1, Zenon
  <2>3. PICK y \in 1 .. Len(d) : d[y] = i
    BY <1>6, <2>1, Zenon
  <2>. QED
    BY <1>9, <2>2, <2>3, Zenon
<1>10. IsInjective(f)
  BY <1>7, <1>8, Zenon
<1>11. ASSUME NEW s \in Side, NEW p \in Prices
       PROVE  /\ IsInjective(l[s][p])
              /\ Range(l[s][p]) \cap Range(f) = {}
              /\ \A t \in Side, q \in Prices :
                    (s = t /\ p = q) \/ Range(l[s][p]) \cap Range(l[t][q]) = {}
  <2>1. IsInjective(l[s][p])
    <3>1. \A x, y \in 1 .. Len(l[s][p]) : l[s][p][x] = l[s][p][y] => x = y
      BY <1>2 DEF SlotsPlaced
    <3>. QED
      BY <1>4, <1>8, <3>1, Zenon
  <2>2. Range(l[s][p]) \cap Range(f) = {}
    <3>1. \A x \in 1 .. Len(l[s][p]), y \in 1 .. Len(f) : l[s][p][x] # f[y]
      BY <1>2 DEF SlotsPlaced
    <3>. QED
      BY <1>4, <1>9, <3>1, Zenon
  <2>3. ASSUME NEW t \in Side, NEW q \in Prices, ~(s = t /\ p = q)
        PROVE  Range(l[s][p]) \cap Range(l[t][q]) = {}
    <3>1. \A x \in 1 .. Len(l[s][p]), y \in 1 .. Len(l[t][q]) :
             l[s][p][x] = l[t][q][y] => s = t /\ p = q
      BY <1>2 DEF SlotsPlaced
    <3>2. \A x \in 1 .. Len(l[s][p]), y \in 1 .. Len(l[t][q]) : l[s][p][x] # l[t][q][y]
      BY <2>3, <3>1, Zenon
    <3>. QED
      BY <1>4, <1>9, <3>2, Zenon
  <2>. QED
    BY <2>1, <2>2, <2>3, Zenon
<1>12. Range(f) \cup SlotsOnLevels = Slots
  <2>1. ASSUME NEW i \in Slots
        PROVE  i \in Range(f) \/ \E s \in Side, p \in Prices : i \in Range(l[s][p])
    <3>1. CASE \E k \in 1 .. Len(f) : f[k] = i
      BY <1>6, <3>1, Zenon
    <3>2. CASE \E s \in Side, p \in Prices : \E k \in 1 .. Len(l[s][p]) : l[s][p][k] = i
      <4>1. PICK s \in Side, p \in Prices : \E k \in 1 .. Len(l[s][p]) : l[s][p][k] = i
        BY <3>2, Zenon
      <4>2. i \in Range(l[s][p])
        BY <1>4, <1>6, <4>1, Zenon
      <4>. QED
        BY <4>2, Zenon
    <3>. QED
      BY <1>2, <3>1, <3>2, Zenon DEF SlotsPlaced
  <2>2. ASSUME NEW i, i \in Range(f) \/ \E s \in Side, p \in Prices : i \in Range(l[s][p])
        PROVE  i \in Slots
    <3>1. CASE i \in Range(f)
      BY <1>6, <3>1, Zenon
    <3>2. CASE \E s \in Side, p \in Prices : i \in Range(l[s][p])
      <4>1. PICK s \in Side, p \in Prices : i \in Range(l[s][p])
        BY <3>2, Zenon
      <4>. QED
        BY <1>4, <1>6, <4>1, Zenon
    <3>. QED
      BY <2>2, <3>1, <3>2, Zenon
  <2>3. \A i : i \in SlotsOnLevels <=> \E s \in Side, p \in Prices : i \in Range(LevelChain(s, p))
    BY DEF SlotsOnLevels
  <2>4. ASSUME NEW i, NEW s \in Side, NEW p \in Prices
        PROVE  i \in Range(LevelChain(s, p)) <=> i \in Range(l[s][p])
    BY <1>3, Zenon
  <2>5. \A i : i \in SlotsOnLevels <=> \E s \in Side, p \in Prices : i \in Range(l[s][p])
    BY <2>3, <2>4, Zenon
  <2>. QED
    BY <2>1, <2>2, <2>5, Zenon
<1>13. Len(f) = Capacity - count
  BY <1>2, <1>7, OrdersAssumption DEF FreeSlots
<1>14. ASSUME NEW s \in Side, NEW p \in Prices
       PROVE  /\ IsInjective(LevelChain(s, p))
              /\ Range(LevelChain(s, p)) \cap Range(f) = {}
              /\ \A t \in Side, q \in Prices :
                    (s = t /\ p = q) \/ Range(LevelChain(s, p)) \cap Range(LevelChain(t, q)) = {}
  <2>1. ASSUME NEW t \in Side, NEW q \in Prices, ~(s = t /\ p = q)
        PROVE  Range(LevelChain(s, p)) \cap Range(LevelChain(t, q)) = {}
    <3>1. Range(l[s][p]) \cap Range(l[t][q]) = {}
      BY <1>11, <2>1, Zenon
    <3>. QED
      BY <1>3, <3>1, Zenon
  <2>2. IsInjective(LevelChain(s, p)) /\ Range(LevelChain(s, p)) \cap Range(f) = {}
    <3>1. IsInjective(l[s][p]) /\ Range(l[s][p]) \cap Range(f) = {}
      BY <1>11, Zenon
    <3>2. LevelChain(s, p) = l[s][p]
      BY <1>3, Zenon
    <3>. QED
      BY <3>1, <3>2, Zenon
  <2>. QED
    BY <2>1, <2>2, Zenon
<1>15. FreeChain = f
  BY <1>3, Zenon
<1>. QED
  BY <1>10, <1>12, <1>13, <1>14, <1>15, Zenon DEF EverySlotOnOneList

(* What the lists say of the ends, the lengths and the back links of the   *)
(* levels.                                                                 *)
LEMMA ListsFromPlaces == ArenaInv => LevelListsAreSound
<1>. SUFFICES ASSUME ArenaInv, NEW s \in Side, NEW p \in DOMAIN levels[s]
     PROVE  /\ levels[s][p].count = Len(LevelChain(s, p))
            /\ levels[s][p].tail = LevelChain(s, p)[Len(LevelChain(s, p))]
            /\ storage[LevelChain(s, p)[1]].prev = ARENA_NULL
            /\ \A k \in 2 .. Len(LevelChain(s, p)) :
                  storage[LevelChain(s, p)[k]].prev = LevelChain(s, p)[k - 1]
  BY Zenon DEF LevelListsAreSound
<1>1. PICK f \in Seq(Slots), l \in [Side -> [Prices -> Seq(Slots)]] : Placed(f, l)
  BY Zenon DEF ArenaInv
<1>2. p \in Prices
  BY <1>1, Zenon DEF Placed, Fields, LevelMaps
<1>. DEFINE c == l[s][p]
<1>3. LevelChain(s, p) = c
  BY <1>1, <1>2, ChainsAreLists, Zenon
<1>4. IsLevel(storage, c, levels[s][p]) /\ Len(c) \in Nat
  BY <1>1, <1>2, SeqElements DEF Placed, LevelSlots
<1>. HIDE DEF c
<1>5. \A k \in 1 .. Len(c) : storage[c[k]].prev = IF k = 1 THEN ARENA_NULL ELSE c[k - 1]
  BY <1>4, Zenon DEF IsLevel
<1>6. Len(c) >= 1 /\ levels[s][p].tail = c[Len(c)] /\ levels[s][p].count = Len(c)
  BY <1>4, Zenon DEF IsLevel
<1>7. storage[c[1]].prev = ARENA_NULL /\ \A k \in 2 .. Len(c) : storage[c[k]].prev = c[k - 1]
  BY <1>4, <1>5, <1>6
<1>. QED
  BY <1>3, <1>6, <1>7, Zenon

(* What the lists say of the order index.                                  *)
LEMMA IndexFromPlaces == ArenaInv => IndexLeadsToOrder
<1>. SUFFICES ASSUME ArenaInv, NEW id \in DOMAIN orderIndex
     PROVE  LET o == storage[orderIndex[id]].order
            IN  o.id = id /\ orderIndex[id] \in Range(LevelChain(o.side, o.price))
  BY Zenon DEF IndexLeadsToOrder
<1>1. PICK f \in Seq(Slots), l \in [Side -> [Prices -> Seq(Slots)]] : Placed(f, l)
  BY Zenon DEF ArenaInv
<1>2. PICK s \in Side, p \in Prices : \E k \in 1 .. Len(l[s][p]) :
         /\ l[s][p][k] = orderIndex[id]
         /\ storage[orderIndex[id]].order.id = id
         /\ storage[orderIndex[id]].order.side = s
         /\ storage[orderIndex[id]].order.price = p
  BY <1>1, IndexedPlace
<1>3. LevelChain(s, p) = l[s][p]
  BY <1>1, ChainsAreLists, Zenon
<1>4. orderIndex[id] \in Range(l[s][p])
  BY <1>2 DEF Range
<1>. QED
  BY <1>2, <1>3, <1>4, Zenon

(* Slots, links and numbers stay in their types, for every capacity and    *)
(* every order of calls, and no level of the map is empty.                 *)
THEOREM ArenaTypeCorrect == ArenaSpec => []ArenaTypeOK
BY ArenaInductive, TypeFromPlaces, PTL

(* The free list and the levels' lists meet every slot exactly once,       *)
(* whatever was allocated and freed before: alloc, dealloc, push_back,     *)
(* pop_front and remove never lose, share or free twice a slot.            *)
THEOREM SlotsNeverLostOrShared == ArenaSpec => []EverySlotOnOneList
BY ArenaInductive, SlotsFromPlaces, PTL

(* The list of every level reads backwards as forwards and the level knows *)
(* its tail and its length, so cancel_order can unlink from the middle.    *)
THEOREM LevelListsStaySound == ArenaSpec => []LevelListsAreSound
BY ArenaInductive, ListsFromPlaces, PTL

(* order_index leads to the slot that holds the order of that id, in the   *)
(* list of its own side and price: a recycled slot is never reached under  *)
(* an old id.                                                              *)
THEOREM IndexLeadsToItsOrder == ArenaSpec => []IndexLeadsToOrder
BY ArenaInductive, IndexFromPlaces, PTL
=============================================================================
