-------------------------- MODULE ArenaRefinement ---------------------------
(***************************************************************************)
(* Read through its lists, the arena of module ArenaBook makes the steps   *)
(* of the book of queues, module BookMachine: the refinement, step by      *)
(* step, from the invariant of module ArenaProofs.  The quantity of a      *)
(* level is the sum of the quantities of its queue.                        *)
(***************************************************************************)
EXTENDS ArenaProofs

(* The book of queues is that of the lists, before and after a step.       *)
LEMMA BookIsOfLists ==
    ASSUME NEW f, NEW l
    PROVE  /\ Placed(f, l) => BookOfQueues = BookOf(storage, l, best, orderIndex, count)
           /\ Placed(f, l)' => BookOfQueues' = BookOf(storage', l, best', orderIndex', count')
<1>1. ASSUME Placed(f, l) PROVE BookOfQueues = BookOf(storage, l, best, orderIndex, count)
  <2>1. \A s \in Side, p \in Prices : LevelChain(s, p) = l[s][p]
    BY <1>1, ChainsAreLists, Zenon
  <2>. QED
    BY <2>1, Zenon DEF BookOfQueues, BookOf, QueuesOf
<1>2. ASSUME Placed(f, l)' PROVE BookOfQueues' = BookOf(storage', l, best', orderIndex', count')
  <2>1. LevelSlots(storage', levels', l)
    BY <1>2, Zenon DEF Placed
  <2>2. ASSUME NEW s \in Side, NEW p \in Prices PROVE LevelChain(s, p)' = l[s][p]
    BY <2>1, LevelChainIsList DEF LevelChain
  <2>. QED
    BY <2>2, Zenon DEF BookOfQueues, BookOf, QueuesOf
<1>. QED
  BY <1>1, <1>2, Zenon

(* What the placed lists say of the book they stand for.                   *)
LEMMA BookOfPlacedLists ==
    ASSUME NEW f, NEW l, Placed(f, l)
    PROVE  /\ l \in Lists /\ HoldAllOrders(storage, l) /\ SlotsPlaced(f, l)
           /\ BookOfQueues = BookOf(storage, l, best, orderIndex, count)
           /\ \A s \in Side, p \in Prices :
                 /\ BookOfQueues.queue[s][p] \in Seq(Order)
                 /\ Len(BookOfQueues.queue[s][p]) = Len(l[s][p])
                 /\ \A k \in 1 .. Len(l[s][p]) :
                       BookOfQueues.queue[s][p][k] = storage[l[s][p][k]].order
           /\ \A s \in Side : Levels(BookOfQueues, s) = DOMAIN levels[s]
           /\ count = Capacity - Len(f) /\ Len(f) \in 0 .. Capacity
           /\ freeHead = ARENA_NULL <=> count = Capacity
<1>1. /\ Fields /\ FreeSlots(f) /\ LevelSlots(storage, levels, l) /\ SlotsPlaced(f, l)
      /\ OrdersPlaced(storage, orderIndex, l)
  BY Zenon DEF Placed
<1>2. l \in Lists
  BY <1>1, Zenon DEF LevelSlots, Lists
<1>3. HoldAllOrders(storage, l)
  BY <1>1, Zenon DEF OrdersPlaced, OrderPlaced, HoldAllOrders, HoldsOrders
<1>4. BookOfQueues = BookOf(storage, l, best, orderIndex, count)
  BY BookIsOfLists, Zenon
<1>5. BookOfQueues.queue = QueuesOf(storage, l)
  BY <1>4, Zenon DEF BookOf
<1>6. ASSUME NEW s \in Side, NEW p \in Prices
      PROVE  /\ BookOfQueues.queue[s][p] \in Seq(Order)
             /\ Len(BookOfQueues.queue[s][p]) = Len(l[s][p])
             /\ \A k \in 1 .. Len(l[s][p]) :
                   BookOfQueues.queue[s][p][k] = storage[l[s][p][k]].order
  BY <1>2, <1>3, <1>5, QueuesElements
<1>7. ASSUME NEW s \in Side PROVE Levels(BookOfQueues, s) = DOMAIN levels[s]
  <2>1. DOMAIN levels[s] \subseteq Prices
    BY <1>1, Zenon DEF Fields, LevelMaps
  <2>2. ASSUME NEW p \in Prices PROVE BookOfQueues.queue[s][p] # <<>> <=> p \in DOMAIN levels[s]
    <3>1. p \in DOMAIN levels[s] <=> Len(l[s][p]) # 0
      BY <1>1, Zenon DEF LevelSlots
    <3>. QED
      BY <1>6, <3>1, EmptyIffLenZero, Zenon
  <2>. QED
    BY <2>1, <2>2, Zenon DEF Levels
<1>8. /\ count = Capacity - Len(f) /\ Len(f) \in 0 .. Capacity
      /\ freeHead = ARENA_NULL <=> Len(f) = 0
  BY <1>1, PlacedSlots, Zenon DEF FreeSlots
<1>9. freeHead = ARENA_NULL <=> count = Capacity
  BY <1>8, OrdersAssumption
<1>. QED
  BY <1>1, <1>2, <1>3, <1>4, <1>6, <1>7, <1>8, <1>9, Zenon

(* The operators of the book are the same in the instance of BookMachine.  *)
LEMMA InstanceOperators ==
    /\ \A b, o : Queues!Inserted(b, o) = Inserted(b, o)
    /\ \A b, o : Queues!InsertCode(b, o) = InsertCode(b, o)
    /\ \A b, s, p, k : Queues!Unlinked(b, s, p, k) = Unlinked(b, s, p, k)
    /\ \A b, s, p, q : Queues!ReduceCode(b, s, p, q) = ReduceCode(b, s, p, q)
    /\ \A b, s, p, q : Queues!Reduced(b, s, p, q) = Reduced(b, s, p, q)
    /\ \A b, id : Queues!Cancelled(b, id) = Cancelled(b, id)
    /\ Queues!EmptyBook = EmptyBook
    /\ Queues!Order = Order /\ Queues!Side = Side /\ Queues!Prices = Prices
<1>1. \A b, o : Queues!Inserted(b, o) = Inserted(b, o)
  BY Zenon DEF Queues!Inserted, Inserted, Queues!BestAfterInsert, BestAfterInsert, Queues!Better, Better
<1>2. \A b, o : Queues!InsertCode(b, o) = InsertCode(b, o)
  BY Zenon DEF Queues!InsertCode, InsertCode
<1>3. ASSUME NEW b, NEW s, NEW p, NEW k PROVE Queues!Unlinked(b, s, p, k) = Unlinked(b, s, p, k)
  <2>1. \A P : Queues!BestOf(s, P) = BestOf(s, P)
    BY Zenon DEF Queues!BestOf, BestOf, Queues!Better, Better
  <2>2. Queues!Levels(b, s) = Levels(b, s)
    BY Zenon DEF Queues!Levels, Levels, Queues!Prices, Prices
  <2>3. \A q : Queues!WithoutAt(q, k) = WithoutAt(q, k)
    BY Zenon DEF Queues!WithoutAt, WithoutAt
  <2>. QED
    BY <2>1, <2>2, <2>3, Zenon DEF Queues!Unlinked, Unlinked
<1>4. \A b, s, p, q : Queues!ReduceCode(b, s, p, q) = ReduceCode(b, s, p, q)
  BY Zenon DEF Queues!ReduceCode, ReduceCode
<1>5. \A b, s, p, q : Queues!Reduced(b, s, p, q) = Reduced(b, s, p, q)
  BY <1>3 DEF Queues!Reduced, Reduced
<1>6. Queues!Side = Side /\ Queues!Prices = Prices
  BY Zenon DEF Queues!Side, Side, Queues!Prices, Prices
<1>7. Queues!Order = Order
  BY <1>6, Zenon DEF Queues!Order, Order
<1>8. \A b, id : Queues!Cancelled(b, id) = Cancelled(b, id)
  BY <1>3, <1>6, Zenon DEF Queues!Cancelled, Cancelled
<1>9. Queues!EmptyBook = EmptyBook
  BY <1>6, Zenon DEF Queues!EmptyBook, EmptyBook
<1>. QED
  BY <1>1, <1>2, <1>3, <1>4, <1>5, <1>6, <1>7, <1>8, <1>9, Zenon

(* insert_order of the arena is insert_order of the queues.                *)
LEMMA InsertImplements ==
    ASSUME NEW f, NEW l, Placed(f, l), NEW o \in Order, InsertOrder(o)
    PROVE  Queues!InsertOrder(o)
<1>. DEFINE s == o.side
            p == o.price
            i == f[1]
            m == ListPut(l, s, p, i)
            B == BookOfQueues
<1>1. /\ Placed(Tail(f), m)' /\ i \in Slots /\ Len(f) # 0 /\ SlotsOtherThan(l, i)
      /\ Pushes(storage, storage', l[s][p], i, o)
  BY InsertKeepsPlaces, Zenon
<1>2. s \in Side /\ p \in Prices
  BY Zenon DEF Order
<1>3. /\ l \in Lists /\ HoldAllOrders(storage, l)
      /\ B = BookOf(storage, l, best, orderIndex, count)
      /\ freeHead = ARENA_NULL <=> count = Capacity
  BY BookOfPlacedLists, Zenon
<1>4. B' = BookOf(storage', m, best', orderIndex', count')
  BY <1>1, BookIsOfLists, Zenon
<1>5. /\ o.id \notin DOMAIN orderIndex
      /\ freeHead # ARENA_NULL
      /\ count' = count + 1
      /\ orderIndex' = With(orderIndex, o.id, freeHead)
      /\ best' = [best EXCEPT ![s] = IF @ = NoPrice \/ Better(s, p, @) THEN p ELSE @]
      /\ op' = "insert_order" /\ arg' = o /\ ret' = "Ok"
  BY Zenon DEF InsertOrder, Called
<1>6. OrdersSameBut(storage, storage', i) /\ storage'[i].order = o
  BY <1>1, Zenon DEF Pushes, OrdersSameBut
<1>7. QueuesOf(storage', m) = ListPut(QueuesOf(storage, l), s, p, o)
  BY <1>1, <1>2, <1>3, <1>6, QueuesAfterPush
<1>8. DOMAIN orderIndex' = DOMAIN orderIndex \cup {o.id}
  BY <1>5, Zenon DEF With
<1>9. /\ B.queue = QueuesOf(storage, l) /\ B.best = best
      /\ B.index = DOMAIN orderIndex /\ B.count = count
  BY <1>3, Zenon DEF BookOf
<1>10. B' = [queue |-> ListPut(QueuesOf(storage, l), s, p, o), best |-> best',
             index |-> DOMAIN orderIndex \cup {o.id}, count |-> count + 1]
  BY <1>4, <1>5, <1>7, <1>8, Zenon DEF BookOf
<1>. HIDE DEF B
<1>11. B' = Inserted(B, o)
  BY <1>5, <1>9, <1>10, Zenon DEF Inserted, BestAfterInsert, ListPut
<1>12. InsertCode(B, o) = "Ok"
  BY <1>3, <1>5, <1>9, Zenon DEF InsertCode
<1>13. /\ op' = "insert_order" /\ arg' = o /\ ret' = Queues!InsertCode(B, o)
       /\ B' = IF Queues!InsertCode(B, o) = "Ok" THEN Queues!Inserted(B, o) ELSE B
  BY <1>5, <1>11, <1>12, InstanceOperators, Zenon
<1>. QED
  BY <1>13, Zenon DEF Queues!InsertOrder, B

(* The removal of the k-th slot of a level is Unlinked of the queues.      *)
LEMMA RemovalImplements ==
    ASSUME NEW f, NEW l, Placed(f, l), NEW s \in Side, NEW p \in Prices,
           NEW k \in 1 .. Len(l[s][p]), NEW STATE level2, Removes(l[s][p], k, s, p, level2)
    PROVE  BookOfQueues' = Unlinked(BookOfQueues, s, p, k)
<1>. DEFINE i == l[s][p][k]
            m == ListCut(l, s, p, k)
            B == BookOfQueues
            id == storage[i].order.id
<1>1. Placed(<<i>> \o f, m)'
  BY RemovalKeepsPlaces, Zenon
<1>2. /\ l \in Lists /\ HoldAllOrders(storage, l) /\ SlotsPlaced(f, l)
      /\ B = BookOf(storage, l, best, orderIndex, count)
      /\ Len(B.queue[s][p]) = Len(l[s][p])
      /\ B.queue[s][p][k] = storage[i].order
      /\ Levels(B, s) = DOMAIN levels[s]
  BY BookOfPlacedLists
<1>3. B' = BookOf(storage', m, best', orderIndex', count')
  BY <1>1, BookIsOfLists, Zenon
<1>4. /\ OrdersSameBut(storage, storage', i)
      /\ count' = count - 1
      /\ orderIndex' = Without(orderIndex, id)
      /\ level2.count = Len(l[s][p]) - 1
      /\ SettleLevel(s, p, level2)
  BY Zenon DEF Removes, Unlinks, OrdersSameBut
<1>5. QueuesOf(storage', m) = ListCut(QueuesOf(storage, l), s, p, k)
  BY <1>2, <1>4, QueuesAfterUnlink
<1>6. DOMAIN orderIndex' = DOMAIN orderIndex \ {id}
  BY <1>4, Zenon DEF Without
<1>7. /\ B.queue = QueuesOf(storage, l) /\ B.best = best
      /\ B.index = DOMAIN orderIndex /\ B.count = count
  BY <1>2, Zenon DEF BookOf
<1>8. level2.count = 0 <=> Len(l[s][p]) = 1
  <2>1. Len(l[s][p]) \in Nat
    BY <1>2, SeqElements DEF Lists
  <2>. QED
    BY <1>4, <2>1
<1>9. best' = IF Len(l[s][p]) = 1
              THEN [best EXCEPT ![s] = BestOf(s, DOMAIN levels[s] \ {p})]
              ELSE best
  BY <1>4, <1>8, Zenon DEF SettleLevel
<1>10. B' = [queue |-> ListCut(QueuesOf(storage, l), s, p, k), best |-> best',
             index |-> DOMAIN orderIndex \ {id}, count |-> count - 1]
  BY <1>3, <1>4, <1>5, <1>6, Zenon DEF BookOf
<1>. HIDE DEF B, i
<1>11. B' = Unlinked(B, s, p, k)
  <2>1. ListCut(B.queue, s, p, k) = [B.queue EXCEPT ![s][p] = WithoutAt(@, k)]
    BY Zenon DEF ListCut, WithoutAt, Cut
  <2>. QED
    BY <1>2, <1>7, <1>9, <1>10, <2>1 DEF Unlinked
<1>. QED
  BY <1>11, Zenon DEF B

(* cancel_order of the arena, with its lookup by slot, is cancel_order of  *)
(* the queues; it never misses the level of an indexed order.              *)
LEMMA CancelImplements ==
    ASSUME NEW f, NEW l, Placed(f, l), NEW id, CancelOrder(id)
    PROVE  Queues!CancelOrder(id)
<1>. DEFINE B == BookOfQueues
<1>1. PICK s \in Side, p \in Prices : \E k \in 1 .. Len(l[s][p]) :
         /\ storage[l[s][p][k]].order.id = id
         /\ Removes(l[s][p], k, s, p, RemovedLevel(storage, levels[s][p], l[s][p][k]))
         /\ op' = "cancel_order" /\ arg' = id
  BY CancelRemoves
<1>2. PICK k \in 1 .. Len(l[s][p]) :
         /\ storage[l[s][p][k]].order.id = id
         /\ Removes(l[s][p], k, s, p, RemovedLevel(storage, levels[s][p], l[s][p][k]))
         /\ op' = "cancel_order" /\ arg' = id
  BY <1>1, Zenon
<1>3. B' = Unlinked(B, s, p, k)
  BY <1>2, RemovalImplements, Zenon
<1>4. /\ l \in Lists
      /\ B = BookOf(storage, l, best, orderIndex, count)
      /\ Len(B.queue[s][p]) = Len(l[s][p])
      /\ B.queue[s][p][k] = storage[l[s][p][k]].order
  BY BookOfPlacedLists
<1>5. B.index = DOMAIN orderIndex
  BY <1>4, Zenon DEF BookOf
<1>6. id \in DOMAIN orderIndex
  BY Zenon DEF CancelOrder
<1>7. k \in 1 .. Capacity /\ k <= Len(l[s][p])
  <2>1. IsList(storage, l[s][p], levels[s][p].head)
    BY PlacedLevel, Zenon DEF IsLevel
  <2>2. Len(l[s][p]) \in 0 .. Capacity
    BY <2>1, ListIsShort, Zenon DEF IsList
  <2>. QED
    BY <2>2, OrdersAssumption
<1>. HIDE DEF B
<1>8. B' \in Cancelled(B, id)
  <2>. DEFINE x == <<s, p, k>>
  <2>1. /\ x \in Side \X Prices \X (1 .. Capacity) /\ x[1] = s /\ x[2] = p /\ x[3] = k
    BY <1>7, Zenon
  <2>2. B.queue[x[1]][x[2]][x[3]].id = id /\ x[3] <= Len(B.queue[x[1]][x[2]])
    BY <1>2, <1>4, <1>7, <2>1, Zenon
  <2>3. B' = Unlinked(B, x[1], x[2], x[3])
    BY <1>3, <2>1, Zenon
  <2>. HIDE DEF x
  <2>. QED
    BY <2>1, <2>2, <2>3, Zenon DEF Cancelled
<1>9. op' = "cancel_order" /\ arg' = id /\ ret' = "Ok"
  BY <1>2, Zenon DEF Removes
<1>10. /\ op' = "cancel_order" /\ arg' = id
       /\ IF id \in B.index THEN ret' = "Ok" /\ B' \in Queues!Cancelled(B, id)
          ELSE ret' = "OrderNotFound" /\ B' = B
  BY <1>5, <1>6, <1>8, <1>9, InstanceOperators, Zenon
<1>. QED
  BY <1>10, Zenon DEF Queues!CancelOrder, B

(* reduce_front_quantity that spends the front order, of the arena and of  *)
(* the queues.                                                             *)
LEMMA FullFillImplements ==
    ASSUME NEW f, NEW l, Placed(f, l), NEW s \in Side, NEW p \in Prices, NEW q \in 1 .. MaxQty,
           ReduceFrontFully(s, p, q)
    PROVE  Queues!ReduceFrontQuantity(s, p, q)
<1>. DEFINE B == BookOfQueues
<1>1. /\ 1 \in 1 .. Len(l[s][p])
      /\ storage[l[s][p][1]].order.qty = q
      /\ Removes(l[s][p], 1, s, p, PoppedLevel(storage, levels[s][p], q))
      /\ op' = "reduce_front_quantity" /\ arg' = <<s, p, q>>
  BY FullFillRemoves, Zenon
<1>2. B' = Unlinked(B, s, p, 1)
  BY <1>1, RemovalImplements, Zenon
<1>3. /\ B.queue[s][p] \in Seq(Order)
      /\ Len(B.queue[s][p]) = Len(l[s][p])
      /\ B.queue[s][p][1] = storage[l[s][p][1]].order
  BY <1>1, BookOfPlacedLists
<1>4. B.queue[s][p] # <<>>
  BY <1>1, <1>3
<1>5. ret' = "Ok"
  BY <1>1, Zenon DEF Removes
<1>. HIDE DEF B
<1>6. ReduceCode(B, s, p, q) = "Ok"
  BY <1>1, <1>3, <1>4 DEF ReduceCode
<1>7. B' = Reduced(B, s, p, q)
  BY <1>1, <1>2, <1>3, Zenon DEF Reduced
<1>8. /\ op' = "reduce_front_quantity" /\ arg' = <<s, p, q>>
      /\ ret' = Queues!ReduceCode(B, s, p, q)
      /\ B' = IF Queues!ReduceCode(B, s, p, q) = "Ok" THEN Queues!Reduced(B, s, p, q) ELSE B
  BY <1>1, <1>5, <1>6, <1>7, InstanceOperators, Zenon
<1>. QED
  BY <1>8, Zenon DEF Queues!ReduceFrontQuantity, B

(* The front order of a level has its quantity set to x, and no other      *)
(* order of the storage changes.                                           *)
FrontFilled(st, st2, f, l, s, p, x) ==
    /\ l \in Lists /\ HoldAllOrders(st, l) /\ SlotsPlaced(f, l)
    /\ 1 \in 1 .. Len(l[s][p]) /\ OrdersSameBut(st, st2, l[s][p][1])
    /\ st2[l[s][p][1]].order = OrderWithQty(st[l[s][p][1]].order, x)
    /\ st2[l[s][p][1]].order \in Order

QueuesFilled(st, st2, l, s, p, x) == QueuesOf(st2, l) = FrontQtySet(QueuesOf(st, l), s, p, x)

LEMMA QueuesAfterFrontFill ==
    ASSUME NEW st, NEW st2, NEW f, NEW l, NEW s \in Side, NEW p \in Prices, NEW x,
           FrontFilled(st, st2, f, l, s, p, x)
    PROVE  QueuesFilled(st, st2, l, s, p, x)
BY QueuesAfterFill DEF FrontFilled, QueuesFilled

(* reduce_front_quantity that leaves the front order some quantity, of the *)
(* arena and of the queues.                                                *)
LEMMA PartialFillImplements ==
    ASSUME NEW f, NEW l, Placed(f, l), NEW s \in Side, NEW p \in Prices, NEW q \in 1 .. MaxQty,
           ReduceFrontPartly(s, p, q)
    PROVE  Queues!ReduceFrontQuantity(s, p, q)
<1>. DEFINE B == BookOfQueues
            i == l[s][p][1]
            x == storage[i].order.qty - q
<1>1. 1 \in 1 .. Len(l[s][p]) /\ Fills(l[s][p], s, p, q)
  BY PartialFillWrites, Zenon
<1>2. Placed(f, l)'
  BY PartialFillKeepsPlaces, Zenon
<1>3. /\ l \in Lists /\ HoldAllOrders(storage, l) /\ SlotsPlaced(f, l)
      /\ B = BookOf(storage, l, best, orderIndex, count)
      /\ B.queue[s][p] \in Seq(Order)
      /\ Len(B.queue[s][p]) = Len(l[s][p])
      /\ B.queue[s][p][1] = storage[i].order
  BY <1>1, BookOfPlacedLists
<1>4. B' = BookOf(storage', l, best', orderIndex', count')
  BY <1>2, BookIsOfLists, Zenon
<1>5. /\ q < storage[i].order.qty
      /\ OrdersSameBut(storage, storage', i)
      /\ storage'[i].order = OrderWithQty(storage[i].order, x)
      /\ op' = "reduce_front_quantity" /\ arg' = <<s, p, q>> /\ ret' = "Ok"
      /\ count' = count /\ best' = best /\ orderIndex' = orderIndex
  BY <1>1, Zenon DEF Fills, OrdersSameBut
<1>6. storage[i].order \in Order /\ storage'[i].order \in Order
  <2>1. storage[i].order \in Order
    BY <1>1, PlacedLevel, Zenon
  <2>2. OrdersPlaced(storage', orderIndex', l)
    BY <1>2, Zenon DEF Placed
  <2>. QED
    BY <1>1, <2>1, <2>2, Zenon DEF OrdersPlaced, OrderPlaced
<1>7. B.queue = QueuesOf(storage, l)
  BY <1>3, Zenon DEF BookOf
<1>. HIDE DEF i, x
<1>8. QueuesOf(storage', l) = FrontQtySet(QueuesOf(storage, l), s, p, x)
  <2>1. FrontFilled(storage, storage', f, l, s, p, x)
    BY <1>1, <1>3, <1>5, <1>6, Zenon DEF i, FrontFilled
  <2>2. QueuesFilled(storage, storage', l, s, p, x)
    BY <2>1, QueuesAfterFrontFill, Zenon
  <2>. QED
    BY <2>2, Zenon DEF QueuesFilled
<1>. HIDE DEF B
<1>9. B' = [B EXCEPT !.queue = FrontQtySet(B.queue, s, p, x)]
  BY <1>3, <1>4, <1>5, <1>7, <1>8 DEF BookOf
<1>10. B' = [B EXCEPT !.queue[s][p][1].qty = @ - q]
  BY <1>3, <1>9, Zenon DEF FrontQtySet, x
<1>11. B.queue[s][p] # <<>>
  BY <1>1, <1>3
<1>12. /\ ~(q > B.queue[s][p][1].qty) /\ B.queue[s][p][1].qty # q
  BY <1>3, <1>5, <1>6 DEF Order
<1>13. ReduceCode(B, s, p, q) = "Ok"
  BY <1>11, <1>12, Zenon DEF ReduceCode
<1>14. B' = Reduced(B, s, p, q)
  BY <1>10, <1>12, Zenon DEF Reduced
<1>15. /\ op' = "reduce_front_quantity" /\ arg' = <<s, p, q>>
       /\ ret' = Queues!ReduceCode(B, s, p, q)
       /\ B' = IF Queues!ReduceCode(B, s, p, q) = "Ok" THEN Queues!Reduced(B, s, p, q) ELSE B
  BY <1>5, <1>13, <1>14, InstanceOperators, Zenon
<1>. QED
  BY <1>15, Zenon DEF Queues!ReduceFrontQuantity, B

(* A refused call leaves the queues as they were.                          *)
LEMMA RefusalKeepsBook ==
    ASSUME UNCHANGED <<storage, freeHead, count, levels, best, orderIndex>>
    PROVE  BookOfQueues' = BookOfQueues
<1>1. \A s, p : LevelChain(s, p)' = LevelChain(s, p)
  BY Zenon DEF LevelChain
<1>. QED
  BY <1>1, Zenon DEF BookOfQueues

(* insert_order refuses in the arena where it refuses in the queues: the   *)
(* free list is empty when the count is the capacity.                      *)
LEMMA InsertRefusalImplements ==
    ASSUME NEW f, NEW l, Placed(f, l), NEW o \in Order, InsertOrderRefused(o)
    PROVE  Queues!InsertOrder(o)
<1>. DEFINE B == BookOfQueues
<1>1. B' = B
  BY RefusalKeepsBook, Zenon DEF InsertOrderRefused, Refuse
<1>2. /\ B = BookOf(storage, l, best, orderIndex, count)
      /\ freeHead = ARENA_NULL <=> count = Capacity
  BY BookOfPlacedLists, Zenon
<1>3. B.index = DOMAIN orderIndex /\ B.count = count
  BY <1>2, Zenon DEF BookOf
<1>. HIDE DEF B
<1>4. op' = "insert_order" /\ arg' = o /\ ret' = InsertCode(B, o) /\ InsertCode(B, o) # "Ok"
  BY <1>2, <1>3, Zenon DEF InsertOrderRefused, Refuse, Called, InsertCode
<1>5. /\ op' = "insert_order" /\ arg' = o /\ ret' = Queues!InsertCode(B, o)
      /\ B' = IF Queues!InsertCode(B, o) = "Ok" THEN Queues!Inserted(B, o) ELSE B
  BY <1>1, <1>4, InstanceOperators, Zenon
<1>. QED
  BY <1>5, Zenon DEF Queues!InsertOrder, B

(* cancel_order of an id that does not rest.                               *)
LEMMA CancelRefusalImplements ==
    ASSUME NEW id, CancelOrderUnknown(id)
    PROVE  Queues!CancelOrder(id)
<1>. DEFINE B == BookOfQueues
<1>1. B' = B
  BY RefusalKeepsBook, Zenon DEF CancelOrderUnknown, Refuse
<1>2. B.index = DOMAIN orderIndex
  BY Zenon DEF BookOfQueues
<1>3. op' = "cancel_order" /\ arg' = id /\ ret' = "OrderNotFound" /\ id \notin DOMAIN orderIndex
  BY Zenon DEF CancelOrderUnknown, Refuse, Called
<1>. HIDE DEF B
<1>4. /\ op' = "cancel_order" /\ arg' = id
      /\ IF id \in B.index THEN ret' = "Ok" /\ B' \in Queues!Cancelled(B, id)
         ELSE ret' = "OrderNotFound" /\ B' = B
  BY <1>1, <1>2, <1>3, Zenon
<1>. QED
  BY <1>4, Zenon DEF Queues!CancelOrder, B

(* reduce_front_quantity of a level that is not there, or of more than its *)
(* front order has.                                                        *)
LEMMA FillRefusalImplements ==
    ASSUME NEW f, NEW l, Placed(f, l), NEW s \in Side, NEW p \in Prices, NEW q \in 1 .. MaxQty,
           ReduceFrontRefused(s, p, q)
    PROVE  Queues!ReduceFrontQuantity(s, p, q)
<1>. DEFINE B == BookOfQueues
<1>1. B' = B
  BY RefusalKeepsBook, Zenon DEF ReduceFrontRefused, Refuse
<1>2. /\ l \in Lists
      /\ B.queue[s][p] \in Seq(Order)
      /\ Len(B.queue[s][p]) = Len(l[s][p])
      /\ \A k \in 1 .. Len(l[s][p]) : B.queue[s][p][k] = storage[l[s][p][k]].order
  BY BookOfPlacedLists
<1>3. /\ p \in DOMAIN levels[s] <=> Len(l[s][p]) # 0
      /\ Len(l[s][p]) \in Nat
  BY <1>2, SeqElements, Zenon DEF Placed, LevelSlots
<1>4. B.queue[s][p] = <<>> <=> Len(l[s][p]) = 0
  BY <1>2, EmptyIffLenZero, Zenon
<1>5. Len(l[s][p]) # 0 => /\ levels[s][p].head = l[s][p][1] /\ l[s][p][1] # ARENA_NULL
                          /\ B.queue[s][p][1] = storage[l[s][p][1]].order
  <2>1. ASSUME Len(l[s][p]) # 0
        PROVE  /\ levels[s][p].head = l[s][p][1] /\ l[s][p][1] # ARENA_NULL
               /\ B.queue[s][p][1] = storage[l[s][p][1]].order
    <3>1. 1 \in 1 .. Len(l[s][p])
      BY <1>3, <2>1
    <3>2. IsLevel(storage, l[s][p], levels[s][p]) /\ l[s][p][1] \in Slots
      BY <3>1, PlacedLevel, Zenon
    <3>3. l[s][p][1] # ARENA_NULL
      BY <3>2, ArenaAssumption, Zenon DEF Slots
    <3>. QED
      BY <1>2, <2>1, <3>1, <3>2, <3>3, Zenon DEF IsLevel, IsList
  <2>. QED
    BY <2>1, Zenon
<1>6. HasFront(s, p) <=> Len(l[s][p]) # 0
  BY <1>3, <1>5, Zenon DEF HasFront
<1>7. HasFront(s, p) => FrontQty(s, p) = B.queue[s][p][1].qty
  BY <1>5, <1>6, Zenon DEF FrontQty
<1>. HIDE DEF B
<1>8. /\ op' = "reduce_front_quantity" /\ arg' = <<s, p, q>>
      /\ ret' = ReduceCode(B, s, p, q) /\ ReduceCode(B, s, p, q) # "Ok"
  BY <1>4, <1>6, <1>7, Zenon DEF ReduceFrontRefused, Refuse, Called, ReduceCode
<1>9. /\ op' = "reduce_front_quantity" /\ arg' = <<s, p, q>>
      /\ ret' = Queues!ReduceCode(B, s, p, q)
      /\ B' = IF Queues!ReduceCode(B, s, p, q) = "Ok" THEN Queues!Reduced(B, s, p, q) ELSE B
  BY <1>1, <1>8, InstanceOperators, Zenon
<1>. QED
  BY <1>9, Zenon DEF Queues!ReduceFrontQuantity, B

(* The new arena is the empty book.                                        *)
LEMMA InitImplements ==
    ASSUME ArenaInit
    PROVE  Queues!BookInit
<1>. DEFINE f == [k \in 1 .. Capacity |-> k - 1]
            l == [s \in Side |-> [p \in Prices |-> <<>>]]
<1>1. Placed(f, l)
  BY InitPlaces, Zenon
<1>2. BookOfQueues = BookOf(storage, l, best, orderIndex, count)
  BY <1>1, BookOfPlacedLists, Zenon
<1>3. QueueOf(storage, <<>>) = <<>>
  BY DEF QueueOf
<1>4. QueuesOf(storage, l) = [s \in Side |-> [p \in Prices |-> <<>>]]
  BY <1>3, Zenon DEF QueuesOf
<1>5. /\ best = [s \in Side |-> NoPrice] /\ DOMAIN orderIndex = {} /\ count = 0
      /\ op = "with_capacity" /\ arg = Capacity /\ ret = "Ok"
  BY DEF ArenaInit
<1>6. BookOfQueues = EmptyBook
  BY <1>2, <1>4, <1>5, Zenon DEF BookOf, EmptyBook
<1>. QED
  BY <1>5, <1>6, InstanceOperators, Zenon DEF Queues!BookInit

(* Every step of the arena is a step of the queues, or leaves them alone.  *)
LEMMA StepImplements == ArenaInv /\ [ArenaNext]_arenaVars => [Queues!BookNext]_(Queues!bookVars)
<1>. SUFFICES ASSUME ArenaInv, [ArenaNext]_arenaVars PROVE [Queues!BookNext]_(Queues!bookVars)
  BY Zenon
<1>1. PICK f \in Seq(Slots), l \in [Side -> [Prices -> Seq(Slots)]] : Placed(f, l)
  BY Zenon DEF ArenaInv
<1>2. ASSUME NEW o \in Order, InsertOrder(o) \/ InsertOrderRefused(o) PROVE Queues!BookNext
  <2>1. Queues!InsertOrder(o)
    BY <1>1, <1>2, InsertImplements, InsertRefusalImplements, Zenon
  <2>. QED
    BY <2>1, InstanceOperators, Zenon DEF Queues!BookNext
<1>3. ASSUME NEW id \in Ids, CancelOrder(id) \/ CancelOrderUnknown(id) PROVE Queues!BookNext
  <2>1. Queues!CancelOrder(id)
    BY <1>1, <1>3, CancelImplements, CancelRefusalImplements, Zenon
  <2>. QED
    BY <2>1, Zenon DEF Queues!BookNext
<1>4. ASSUME NEW s \in Side, NEW p \in Prices, NEW q \in 1 .. MaxQty,
             ReduceFrontPartly(s, p, q) \/ ReduceFrontFully(s, p, q) \/ ReduceFrontRefused(s, p, q)
      PROVE  Queues!BookNext
  <2>1. Queues!ReduceFrontQuantity(s, p, q)
    BY <1>1, <1>4, PartialFillImplements, FullFillImplements, FillRefusalImplements, Zenon
  <2>. QED
    BY <2>1, InstanceOperators, Zenon DEF Queues!BookNext
<1>5. ASSUME UNCHANGED arenaVars PROVE UNCHANGED Queues!bookVars
  BY <1>5, RefusalKeepsBook, Zenon DEF arenaVars, Queues!bookVars
<1>. QED
  BY <1>2, <1>3, <1>4, <1>5, Zenon DEF ArenaNext

(* The arena with its intrusive lists implements the book of queues: the   *)
(* same outcome for every call, and lists that read front to back are the  *)
(* FIFO queues.                                                            *)
THEOREM ArenaImplementsQueues == ArenaSpec => ImplementsBook
<1>1. ArenaInit => Queues!BookInit
  BY InitImplements, Zenon
<1>2. ArenaSpec => []ArenaInv
  BY ArenaInductive, Zenon
<1>. QED
  BY <1>1, <1>2, StepImplements, PTL DEF ArenaSpec, ImplementsBook, Queues!BookSpec
-----------------------------------------------------------------------------
(* The sums of the quantities.                                             *)

(* The invariant of the runs, in terms of the lists.                       *)
LEMMA SumsOfLists ==
    ASSUME NEW f, NEW l
    PROVE  /\ Placed(f, l) /\ LevelQtyIsSum => SumsHeld(QueuesOf(storage, l), levels)
           /\ Placed(f, l)' /\ SumsHeld(QueuesOf(storage', l), levels') => LevelQtyIsSum'
<1>1. ASSUME Placed(f, l), LevelQtyIsSum PROVE SumsHeld(QueuesOf(storage, l), levels)
  <2>1. ASSUME NEW s \in Side, NEW p \in Prices, p \in DOMAIN levels[s]
        PROVE  levels[s][p].qty = SumQty(QueuesOf(storage, l)[s][p]) % (MaxQty + 1)
    <3>1. LevelChain(s, p) = l[s][p]
      BY <1>1, ChainsAreLists, Zenon
    <3>2. QueuesOf(storage, l)[s][p] = QueueOf(storage, l[s][p])
      BY Zenon DEF QueuesOf
    <3>. QED
      BY <1>1, <2>1, <3>1, <3>2, Zenon DEF LevelQtyIsSum, TotalQty
  <2>. QED
    BY <2>1, Zenon DEF SumsHeld
<1>2. ASSUME Placed(f, l)', SumsHeld(QueuesOf(storage', l), levels') PROVE LevelQtyIsSum'
  <2>1. LevelSlots(storage', levels', l) /\ Fields'
    BY <1>2, Zenon DEF Placed
  <2>2. ASSUME NEW s \in Side, NEW p \in DOMAIN levels'[s]
        PROVE  levels'[s][p].qty = TotalQty(s, p)' % (MaxQty + 1)
    <3>1. p \in Prices
      BY <2>1, Zenon DEF Fields, LevelMaps
    <3>2. LevelChain(s, p)' = l[s][p]
      BY <2>1, <3>1, LevelChainIsList DEF LevelChain
    <3>3. QueuesOf(storage', l)[s][p] = QueueOf(storage', l[s][p])
      BY <3>1, Zenon DEF QueuesOf
    <3>. QED
      BY <1>2, <3>1, <3>2, <3>3, Zenon DEF SumsHeld, TotalQty
  <2>. QED
    BY <2>2, Zenon DEF LevelQtyIsSum
<1>. QED
  BY <1>1, <1>2, Zenon

(* A removal takes the removed order's quantity from its level.            *)
LEMMA RemovalKeepsSums ==
    ASSUME NEW f, NEW l, Placed(f, l), LevelQtyIsSum, NEW s \in Side, NEW p \in Prices,
           NEW k \in 1 .. Len(l[s][p]), NEW STATE level2, Removes(l[s][p], k, s, p, level2)
    PROVE  LevelQtyIsSum'
<1>. DEFINE i == l[s][p][k]
            m == ListCut(l, s, p, k)
            Q == QueuesOf(storage, l)
<1>1. Placed(<<i>> \o f, m)'
  BY RemovalKeepsPlaces, Zenon
<1>2. /\ l \in Lists /\ HoldAllOrders(storage, l) /\ SlotsPlaced(f, l)
  BY BookOfPlacedLists, Zenon
<1>3. Fields /\ p \in DOMAIN levels[s]
  BY PlacedLevel, Zenon DEF Placed
<1>4. /\ OrdersSameBut(storage, storage', i)
      /\ level2 \in PriceLevel
      /\ level2.qty = SubQty(levels[s][p].qty, storage[i].order.qty)
      /\ SettleLevel(s, p, level2)
  BY Zenon DEF Removes, Unlinks, OrdersSameBut
<1>5. QueuesOf(storage', m) = ListCut(Q, s, p, k)
  BY <1>2, <1>4, QueuesAfterUnlink
<1>6. /\ Q \in OrderQueues /\ k \in 1 .. Len(Q[s][p]) /\ Q[s][p][k] = storage[i].order
  BY <1>2, QueuesElements DEF OrderQueues
<1>7. /\ OnlyLevel(levels, levels', s, p)
      /\ p \in DOMAIN levels'[s] => levels'[s][p] = level2
  BY <1>3, <1>4, LevelSettled, Zenon
<1>8. SumsHeld(Q, levels)
  BY SumsOfLists, Zenon
<1>. HIDE DEF Q, m
<1>9. p \in DOMAIN levels'[s] => levels'[s][p].qty = SubQty(levels[s][p].qty, Q[s][p][k].qty)
  BY <1>4, <1>6, <1>7, Zenon
<1>10. SumsHeld(ListCut(Q, s, p, k), levels')
  BY <1>3, <1>6, <1>7, <1>8, <1>9, SumsAfterUnlink, Zenon
<1>. QED
  BY <1>1, <1>5, <1>10, SumsOfLists, Zenon

(* A new order adds its quantity to its level.                             *)
LEMMA InsertKeepsSums ==
    ASSUME NEW f, NEW l, Placed(f, l), LevelQtyIsSum, NEW o \in Order, InsertOrder(o)
    PROVE  LevelQtyIsSum'
<1>. DEFINE s == o.side
            p == o.price
            m == ListPut(l, s, p, f[1])
            Q == QueuesOf(storage, l)
<1>1. /\ Placed(Tail(f), m)' /\ f[1] \in Slots /\ SlotsOtherThan(l, f[1])
      /\ Pushes(storage, storage', l[s][p], f[1], o)
      /\ OnlyLevel(levels, levels', s, p)
      /\ levels'[s][p].qty = AddQty(IF p \in DOMAIN levels[s] THEN levels[s][p].qty ELSE 0, o.qty)
  BY InsertKeepsPlaces, Zenon
<1>2. s \in Side /\ p \in Prices
  BY Zenon DEF Order
<1>3. l \in Lists /\ HoldAllOrders(storage, l)
  BY BookOfPlacedLists, Zenon
<1>4. OrdersSameBut(storage, storage', f[1]) /\ storage'[f[1]].order = o
  BY <1>1, Zenon DEF Pushes, OrdersSameBut
<1>5. QueuesOf(storage', m) = ListPut(Q, s, p, o)
  BY <1>1, <1>2, <1>3, <1>4, QueuesAfterPush
<1>6. Q \in OrderQueues /\ Len(Q[s][p]) = Len(l[s][p])
  BY <1>2, <1>3, QueuesElements DEF OrderQueues
<1>7. p \notin DOMAIN levels[s] => Q[s][p] = <<>>
  <2>1. p \notin DOMAIN levels[s] => Len(l[s][p]) = 0
    BY <1>2, Zenon DEF Placed, LevelSlots
  <2>2. Q[s][p] \in Seq(Order)
    BY <1>2, <1>6, Zenon DEF OrderQueues
  <2>. QED
    BY <1>6, <2>1, <2>2, EmptyIffLenZero, Zenon
<1>8. SumsHeld(Q, levels)
  BY SumsOfLists, Zenon
<1>. HIDE DEF Q, m, s, p
<1>9. SumsHeld(ListPut(Q, s, p, o), levels')
  BY <1>1, <1>2, <1>6, <1>7, <1>8, SumsAfterPush, Zenon
<1>. QED
  BY <1>1, <1>5, <1>9, SumsOfLists, Zenon

(* A partial fill takes its quantity once.                                 *)
LEMMA PartialFillKeepsSums ==
    ASSUME NEW f, NEW l, Placed(f, l), LevelQtyIsSum, NEW s \in Side, NEW p \in Prices,
           NEW q \in 1 .. MaxQty, ReduceFrontPartly(s, p, q)
    PROVE  LevelQtyIsSum'
<1>. DEFINE i == l[s][p][1]
            x == storage[i].order.qty - q
            Q == QueuesOf(storage, l)
            level2 == LevelLess(levels[s][p], q)
<1>1. 1 \in 1 .. Len(l[s][p]) /\ Fills(l[s][p], s, p, q)
  BY PartialFillWrites, Zenon
<1>2. Placed(f, l)'
  BY PartialFillKeepsPlaces, Zenon
<1>3. l \in Lists /\ HoldAllOrders(storage, l) /\ SlotsPlaced(f, l)
  BY BookOfPlacedLists, Zenon
<1>4. /\ q < storage[i].order.qty
      /\ OrdersSameBut(storage, storage', i)
      /\ storage'[i].order = OrderWithQty(storage[i].order, x)
      /\ levels' = LevelSet(levels, s, p, level2)
  BY <1>1, Zenon DEF Fills, OrdersSameBut
<1>5. storage'[i].order \in Order
  <2>1. OrdersPlaced(storage', orderIndex', l)
    BY <1>2, Zenon DEF Placed
  <2>. QED
    BY <1>1, <2>1, Zenon DEF OrdersPlaced, OrderPlaced
<1>6. /\ Q \in OrderQueues /\ 1 \in 1 .. Len(Q[s][p]) /\ Q[s][p][1] = storage[i].order
  BY <1>1, <1>3, QueuesElements DEF OrderQueues
<1>7. /\ p \in DOMAIN levels[s] /\ levels[s][p] \in PriceLevel /\ LevelMaps(levels)
  BY <1>1, PlacedLevel, Zenon DEF Placed, Fields
<1>8. level2 \in PriceLevel /\ level2.qty = SubQty(levels[s][p].qty, q)
  <2>1. SubQty(levels[s][p].qty, q) \in 0 .. MaxQty
    <3>1. levels[s][p].qty \in 0 .. MaxQty /\ q \in 0 .. MaxQty
      BY <1>7 DEF PriceLevel
    <3>. QED
      BY <3>1, QtyStaysInRange, Zenon
  <2>. QED
    BY <1>7, <2>1, Zenon DEF LevelLess, PriceLevel
<1>. HIDE DEF level2
<1>9. OnlyLevel(levels, levels', s, p) /\ levels'[s][p] = level2
  BY <1>4, <1>7, <1>8, LevelChanged
<1>10. SumsHeld(Q, levels)
  BY SumsOfLists, Zenon
<1>. HIDE DEF x
<1>11. QueuesOf(storage', l) = FrontQtySet(Q, s, p, x)
  <2>1. FrontFilled(storage, storage', f, l, s, p, x)
    BY <1>1, <1>3, <1>4, <1>5, Zenon DEF FrontFilled
  <2>. HIDE DEF i
  <2>2. QueuesFilled(storage, storage', l, s, p, x)
    BY <2>1, QueuesAfterFrontFill, Zenon
  <2>. QED
    BY <2>2, Zenon DEF QueuesFilled, Q
<1>. HIDE DEF Q
<1>12. SumsHeld(FrontQtySet(Q, s, p, Q[s][p][1].qty - q), levels')
  BY <1>4, <1>6, <1>7, <1>8, <1>9, <1>10, SumsAfterFill, Zenon
<1>13. SumsHeld(QueuesOf(storage', l), levels')
  BY <1>6, <1>11, <1>12, Zenon DEF x
<1>. QED
  BY <1>2, <1>13, SumsOfLists, Zenon

(* Every level's qty is, after any history of inserts, fills and cancels,  *)
(* the sum of the quantities of its orders modulo 2^64.                    *)
THEOREM LevelQtyStaysSum == ArenaSpec => []LevelQtyIsSum
<1>1. ArenaInit => LevelQtyIsSum
  BY DEF ArenaInit, LevelQtyIsSum
<1>2. ArenaInv /\ LevelQtyIsSum /\ [ArenaNext]_arenaVars => LevelQtyIsSum'
  <2>. SUFFICES ASSUME ArenaInv, LevelQtyIsSum, [ArenaNext]_arenaVars PROVE LevelQtyIsSum'
    BY Zenon
  <2>1. PICK f \in Seq(Slots), l \in [Side -> [Prices -> Seq(Slots)]] : Placed(f, l)
    BY Zenon DEF ArenaInv
  <2>2. ASSUME NEW o \in Order, InsertOrder(o) PROVE LevelQtyIsSum'
    BY <2>1, <2>2, InsertKeepsSums, Zenon
  <2>3. ASSUME NEW id, CancelOrder(id) PROVE LevelQtyIsSum'
    <3>1. PICK s \in Side, p \in Prices : \E k \in 1 .. Len(l[s][p]) :
             Removes(l[s][p], k, s, p, RemovedLevel(storage, levels[s][p], l[s][p][k]))
      BY <2>1, <2>3, CancelRemoves
    <3>2. PICK k \in 1 .. Len(l[s][p]) :
             Removes(l[s][p], k, s, p, RemovedLevel(storage, levels[s][p], l[s][p][k]))
      BY <3>1, Zenon
    <3>. QED
      BY <2>1, <3>2, RemovalKeepsSums, Zenon
  <2>4. ASSUME NEW s \in Side, NEW p \in Prices, NEW q \in 1 .. MaxQty, ReduceFrontFully(s, p, q)
        PROVE  LevelQtyIsSum'
    <3>1. /\ 1 \in 1 .. Len(l[s][p])
          /\ Removes(l[s][p], 1, s, p, PoppedLevel(storage, levels[s][p], q))
      BY <2>1, <2>4, FullFillRemoves, Zenon
    <3>. QED
      BY <2>1, <3>1, RemovalKeepsSums, Zenon
  <2>5. ASSUME NEW s \in Side, NEW p \in Prices, NEW q \in 1 .. MaxQty, ReduceFrontPartly(s, p, q)
        PROVE  LevelQtyIsSum'
    BY <2>1, <2>5, PartialFillKeepsSums, Zenon
  <2>6. ASSUME UNCHANGED <<storage, levels>> PROVE LevelQtyIsSum'
    <3>1. \A s, p : TotalQty(s, p)' = TotalQty(s, p)
      BY <2>6, Zenon DEF TotalQty, LevelChain
    <3>. QED
      BY <2>6, <3>1, Zenon DEF LevelQtyIsSum
  <2>7. ASSUME NEW o, InsertOrderRefused(o) PROVE LevelQtyIsSum'
    BY <2>6, <2>7, Zenon DEF InsertOrderRefused, Refuse
  <2>8. ASSUME NEW id, CancelOrderUnknown(id) PROVE LevelQtyIsSum'
    BY <2>6, <2>8, Zenon DEF CancelOrderUnknown, Refuse
  <2>9. ASSUME NEW s, NEW p, NEW q, ReduceFrontRefused(s, p, q) PROVE LevelQtyIsSum'
    BY <2>6, <2>9, Zenon DEF ReduceFrontRefused, Refuse
  <2>10. ASSUME UNCHANGED arenaVars PROVE LevelQtyIsSum'
    BY <2>6, <2>10, Zenon DEF arenaVars
  <2>. QED
    BY <2>2, <2>3, <2>4, <2>5, <2>7, <2>8, <2>9, <2>10, Zenon DEF ArenaNext
<1>. QED
  BY <1>1, <1>2, ArenaInductive, PTL DEF ArenaSpec
=============================================================================
