----------------------------- MODULE ArenaBook -----------------------------
(***************************************************************************)
(* The same book as its memory holds it: the struct of src/src/book.rs     *)
(* over the arena of module Arena.                                         *)
(***************************************************************************)
EXTENDS OrderBook, Arena, Functions

VARIABLES
    storage,      \* [slot -> OrderNode]
    freeHead,     \* first slot of the free list
    count,        \* slots in use
    levels,       \* [Side -> BTreeMap: price -> PriceLevel]
    best,         \* best_bid and best_ask
    orderIndex,   \* HashMap: order id -> slot
    op, arg, ret  \* the last operation called, its arguments, its outcome

arenaVars == <<storage, freeHead, count, levels, best, orderIndex, op, arg, ret>>
-----------------------------------------------------------------------------
(* Faulty variant: an empty level stays in the map.                        *)
SettleLevelKeepsEmpty(s, p, level) ==
    levels' = [levels EXCEPT ![s][p] = level] /\ UNCHANGED best

(* Faulty variant: the best price is not read again.                       *)
SettleLevelKeepsBest(s, p, level) ==
    /\ levels' = [levels EXCEPT ![s] = IF level.count = 0 THEN Without(@, p)
                                       ELSE With(@, p, level)]
    /\ UNCHANGED best

(* The end of cancel_order and reduce_front_quantity: a level whose count  *)
(* has come to zero leaves the map and the best price is read again.       *)
SettleLevel(s, p, level) ==
    IF level.count = 0
    THEN /\ levels' = [levels EXCEPT ![s] = Without(@, p)]
         /\ best' = [best EXCEPT ![s] = BestOf(s, DOMAIN levels[s] \ {p})]
    ELSE /\ levels' = [levels EXCEPT ![s][p] = level]
         /\ UNCHANGED best

(* Faulty variant: the id stays in the index.                              *)
IndexWithoutNothing(id) == orderIndex

(* order_index.remove(&id)                                                 *)
IndexWithout(id) == Without(orderIndex, id)

Called(name, args, outcome) == op' = name /\ arg' = args /\ ret' = outcome

Refuse(name, args, error) ==
    /\ Called(name, args, error)
    /\ UNCHANGED <<storage, freeHead, count, levels, best, orderIndex>>
-----------------------------------------------------------------------------
InsertOrderRefused(o) ==
    \/ o.id \in DOMAIN orderIndex /\ Refuse("insert_order", o, "DuplicateOrderId")
    \/ /\ o.id \notin DOMAIN orderIndex
       /\ freeHead = ARENA_NULL
       /\ Refuse("insert_order", o, "ArenaFull")

InsertOrder(o) ==
    LET i == freeHead
        level == IF o.price \in DOMAIN levels[o.side] THEN levels[o.side][o.price] ELSE NewLevel
    IN  /\ o.id \notin DOMAIN orderIndex
        /\ freeHead # ARENA_NULL
        /\ freeHead' = storage[i].next
        /\ count' = count + 1
        /\ storage' = PushedStorage(storage, level, i, o)
        /\ levels' = [levels EXCEPT ![o.side] = With(@, o.price, PushedLevel(level, i, o))]
        /\ orderIndex' = With(orderIndex, o.id, i)
        /\ best' = [best EXCEPT ![o.side] =
                       IF @ = NoPrice \/ Better(o.side, o.price, @) THEN o.price ELSE @]
        /\ Called("insert_order", o, "Ok")

(* The id leaves the index before its level is looked up.                  *)
CancelOrder(id) ==
    LET i == orderIndex[id]
        o == storage[i].order
    IN  /\ id \in DOMAIN orderIndex
        /\ orderIndex' = IndexWithout(id)
        /\ IF o.price \in DOMAIN levels[o.side]
           THEN /\ storage' = RemovedStorage(storage, freeHead, i)
                /\ freeHead' = i
                /\ count' = count - 1
                /\ SettleLevel(o.side, o.price, RemovedLevel(storage, levels[o.side][o.price], i))
                /\ Called("cancel_order", id, "Ok")
           ELSE /\ Called("cancel_order", id, "PriceLevelNotFound")
                /\ UNCHANGED <<storage, freeHead, count, levels, best>>

CancelOrderUnknown(id) ==
    id \notin DOMAIN orderIndex /\ Refuse("cancel_order", id, "OrderNotFound")

(* The level exists and its head is a slot.                                *)
HasFront(s, p) == p \in DOMAIN levels[s] /\ levels[s][p].head # ARENA_NULL

FrontQty(s, p) == storage[levels[s][p].head].order.qty

ReduceFrontRefused(s, p, q) ==
    \/ /\ ~HasFront(s, p)
       /\ Refuse("reduce_front_quantity", <<s, p, q>>, "PriceLevelNotFound")
    \/ /\ HasFront(s, p)
       /\ q > FrontQty(s, p)
       /\ Refuse("reduce_front_quantity", <<s, p, q>>, "FillExceedsQuantity")

ReduceFrontPartly(s, p, q) ==
    /\ HasFront(s, p)
    /\ q < FrontQty(s, p)
    /\ storage' = [storage EXCEPT ![levels[s][p].head].order.qty = @ - q]
    /\ levels' = [levels EXCEPT ![s][p].qty = SubQty(@, q)]
    /\ Called("reduce_front_quantity", <<s, p, q>>, "Ok")
    /\ UNCHANGED <<freeHead, count, best, orderIndex>>

ReduceFrontFully(s, p, q) ==
    LET level == levels[s][p] IN
    /\ HasFront(s, p)
    /\ q = FrontQty(s, p)
    /\ storage' = PoppedStorage(storage, freeHead, level)
    /\ freeHead' = level.head
    /\ count' = count - 1
    /\ orderIndex' = IndexWithout(storage[level.head].order.id)
    /\ SettleLevel(s, p, PoppedLevel(storage, level, q))
    /\ Called("reduce_front_quantity", <<s, p, q>>, "Ok")

ArenaInit ==
    /\ storage = [i \in Slots |->
                     [Zeroed EXCEPT !.next = IF i + 1 < Capacity THEN i + 1 ELSE ARENA_NULL]]
    /\ freeHead = IF Capacity > 0 THEN 0 ELSE ARENA_NULL
    /\ count = 0
    /\ levels = [s \in Side |-> <<>>]
    /\ best = [s \in Side |-> NoPrice]
    /\ orderIndex = <<>>
    /\ op = "with_capacity" /\ arg = Capacity /\ ret = "Ok"

ArenaNext ==
    \/ \E o \in Order : InsertOrder(o) \/ InsertOrderRefused(o)
    \/ \E id \in Ids : CancelOrder(id) \/ CancelOrderUnknown(id)
    \/ \E s \in Side, p \in Prices, q \in 1 .. MaxQty :
          \/ ReduceFrontPartly(s, p, q)
          \/ ReduceFrontFully(s, p, q)
          \/ ReduceFrontRefused(s, p, q)

ArenaSpec == ArenaInit /\ [][ArenaNext]_arenaVars
-----------------------------------------------------------------------------
FreeChain == Chain(storage, freeHead)

LevelChain(s, p) == IF p \in DOMAIN levels[s] THEN Chain(storage, levels[s][p].head) ELSE <<>>

SlotsOnLevels == UNION {Range(LevelChain(s, p)) : s \in Side, p \in Prices}

TotalQty(s, p) == SumQty(QueueOf(storage, LevelChain(s, p)))

(* Slots, links and numbers stay in their types; no level of the map is    *)
(* empty.                                                                  *)
ArenaTypeOK ==
    /\ storage \in [Slots -> OrderNode]
    /\ freeHead \in Link
    /\ count \in 0 .. Capacity
    /\ \A s \in Side :
          /\ DOMAIN levels[s] \subseteq Prices
          /\ best[s] \in Prices \cup {NoPrice}
          /\ \A p \in DOMAIN levels[s] :
                levels[s][p] \in [head : Slots, tail : Slots, count : 1 .. Capacity, qty : 0 .. MaxQty]
    /\ DOMAIN orderIndex \subseteq Ids
    /\ \A id \in DOMAIN orderIndex : orderIndex[id] \in Slots
    /\ ret \in BookErrors \cup {"Ok"}

(* No slot is lost, shared or freed twice: the free list and the lists of  *)
(* the levels meet every slot exactly once, over any history of            *)
(* allocations and frees.                                                  *)
EverySlotOnOneList ==
    /\ IsInjective(FreeChain)
    /\ \A s \in Side, p \in Prices :
          /\ IsInjective(LevelChain(s, p))
          /\ Range(LevelChain(s, p)) \cap Range(FreeChain) = {}
          /\ \A t \in Side, q \in Prices :
                (s = t /\ p = q) \/ Range(LevelChain(s, p)) \cap Range(LevelChain(t, q)) = {}
    /\ Range(FreeChain) \cup SlotsOnLevels = Slots
    /\ Len(FreeChain) = Capacity - count

(* A level's list reads the same backwards: tail is its last slot, prev    *)
(* undoes next, count is its length, so an order in the middle can be      *)
(* unlinked in constant time after any mix of fills and cancels.           *)
LevelListsAreSound ==
    \A s \in Side : \A p \in DOMAIN levels[s] :
        LET c == LevelChain(s, p) IN
        /\ levels[s][p].count = Len(c)
        /\ levels[s][p].tail = c[Len(c)]
        /\ storage[c[1]].prev = ARENA_NULL
        /\ \A k \in 2 .. Len(c) : storage[c[k]].prev = c[k - 1]

(* order_index leads to the slot of the order with that id, in the list of *)
(* its own side and price, though slots are recycled between orders.       *)
IndexLeadsToOrder ==
    \A id \in DOMAIN orderIndex :
        LET o == storage[orderIndex[id]].order
        IN  o.id = id /\ orderIndex[id] \in Range(LevelChain(o.side, o.price))

(* level.qty is the sum of the quantities of the level's orders modulo     *)
(* 2^64: a fill subtracts its quantity once, though both                   *)
(* reduce_front_quantity and pop_front subtract from it.                   *)
LevelQtyIsSum ==
    \A s \in Side : \A p \in DOMAIN levels[s] :
        levels[s][p].qty = TotalQty(s, p) % (MaxQty + 1)

(* "qty: u64 // Total quantity at this level" (SYSTEM_DESIGN.md): no       *)
(* modulus.                                                                *)
LevelQtyIsTotal ==
    \A s \in Side : \A p \in DOMAIN levels[s] : levels[s][p].qty = TotalQty(s, p)

(* The book of queues the arena stands for.                                *)
BookOfQueues ==
    [queue |-> [s \in Side |-> [p \in Prices |-> QueueOf(storage, LevelChain(s, p))]],
     best  |-> best,
     index |-> DOMAIN orderIndex,
     count |-> count]

(* The arena book behaves as the book of queues: same outcomes, and the    *)
(* lists read front to back are the FIFO queues.                           *)
Queues == INSTANCE BookMachine WITH book <- BookOfQueues

ImplementsBook == Queues!BookSpec
=============================================================================
