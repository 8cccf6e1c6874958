------------------------------- MODULE Arena --------------------------------
(***************************************************************************)
(* src/src/arena.rs: orders live in the slots of a preallocated arena;     *)
(* free slots are chained through `next`, and the orders of a price level  *)
(* through `next` and `prev`.  A freed slot keeps its old contents.        *)
(*                                                                         *)
(* The arithmetic on a level's qty is that of a release build, modulo      *)
(* 2^64 (here MaxQty + 1).                                                 *)
(***************************************************************************)
EXTENDS Orders

CONSTANT ARENA_NULL       \* u32::MAX, the index of no slot

ASSUME ArenaAssumption == ARENA_NULL \notin 0 .. Capacity - 1

Slots == 0 .. Capacity - 1

Link == Slots \cup {ARENA_NULL}

(* A slot holds an order, links and, once it is freed, what is left of     *)
(* them; an order popped from the front leaves a quantity of zero.         *)
OrderData == [id : Ids, trader : Traders, side : Side, price : Prices, qty : 0 .. MaxQty]

OrderNode == [order : OrderData \cup {NoOrder}, prev : Link, next : Link]

(* OrderNode::zeroed(), OrderNode::from_order(o) and to_order(node)        *)
Zeroed == [order |-> NoOrder, prev |-> ARENA_NULL, next |-> ARENA_NULL]

FromOrder(o) == [order |-> o, prev |-> ARENA_NULL, next |-> ARENA_NULL]

NewLevel == [head |-> ARENA_NULL, tail |-> ARENA_NULL, count |-> 0, qty |-> 0]

AddQty(a, b) == (a + b) % (MaxQty + 1)
SubQty(a, b) == (a - b + MaxQty + 1) % (MaxQty + 1)

(* A map without a key, and with a value under a key.                      *)
Without(map, key) == [k \in DOMAIN map \ {key} |-> map[k]]

With(map, key, value) == [k \in DOMAIN map \cup {key} |-> IF k = key THEN value ELSE map[k]]
-----------------------------------------------------------------------------
(* Arena operations: each gives the storage, or the level, it leaves, from *)
(* the storage st, the first free slot and the level it is called with.    *)

(* push_back, of the slot i that alloc has just filled with o              *)
PushedStorage(st, level, i, o) ==
    LET filled == [st EXCEPT ![i] = [FromOrder(o) EXCEPT !.prev = level.tail]]
    IN  IF level.tail = ARENA_NULL THEN filled ELSE [filled EXCEPT ![level.tail].next = i]

PushedLevel(level, i, o) ==
    [head  |-> IF level.tail = ARENA_NULL THEN i ELSE level.head,
     tail  |-> i,
     count |-> level.count + 1,
     qty   |-> AddQty(level.qty, o.qty)]

(* Faulty variant: the freed slot ends the free list.                      *)
PoppedStorageLosesFreeList(st, free, level) ==
    LET next == st[level.head].next
        popped == IF next = ARENA_NULL THEN st
                  ELSE [st EXCEPT ![next].prev = ARENA_NULL]
    IN  [popped EXCEPT ![level.head].next = ARENA_NULL, ![level.head].order.qty = 0]

(* pop_front, for a node whose quantity is spent, then dealloc             *)
PoppedStorage(st, free, level) ==
    LET next == st[level.head].next
        popped == IF next = ARENA_NULL THEN st
                  ELSE [st EXCEPT ![next].prev = ARENA_NULL]
    IN  [popped EXCEPT ![level.head].next = free, ![level.head].order.qty = 0]

(* Faulty variant: pop_front comes before the front order is reduced.      *)
PoppedLevelSubtractsTwice(st, level, q) ==
    LET next == st[level.head].next
    IN  [head  |-> next,
         tail  |-> IF next = ARENA_NULL THEN ARENA_NULL ELSE level.tail,
         count |-> level.count - 1,
         qty   |-> SubQty(SubQty(level.qty, q), st[level.head].order.qty)]

(* pop_front after a fill of q: reduce_front_quantity has subtracted q     *)
(* from the front order and from level.qty, and pop_front subtracts what   *)
(* that order has left.                                                    *)
PoppedLevel(st, level, q) ==
    LET next == st[level.head].next
        left == st[level.head].order.qty - q
    IN  [head  |-> next,
         tail  |-> IF next = ARENA_NULL THEN ARENA_NULL ELSE level.tail,
         count |-> level.count - 1,
         qty   |-> SubQty(SubQty(level.qty, q), left)]

(* Faulty variant: prev of the next order not updated.                     *)
RemovedStorageKeepsPrev(st, free, i) ==
    LET prev == st[i].prev
        next == st[i].next
        s1 == IF prev = ARENA_NULL THEN st ELSE [st EXCEPT ![prev].next = next]
    IN  [s1 EXCEPT ![i].next = free]

(* remove, of any slot of the level, then dealloc                          *)
RemovedStorage(st, free, i) ==
    LET prev == st[i].prev
        next == st[i].next
        s1 == IF prev = ARENA_NULL THEN st ELSE [st EXCEPT ![prev].next = next]
        s2 == IF next = ARENA_NULL THEN s1 ELSE [s1 EXCEPT ![next].prev = prev]
    IN  [s2 EXCEPT ![i].next = free]

RemovedLevel(st, level, i) ==
    LET prev == st[i].prev
        next == st[i].next
    IN  [head  |-> IF prev = ARENA_NULL THEN next ELSE level.head,
         tail  |-> IF next = ARENA_NULL THEN prev ELSE level.tail,
         count |-> level.count - 1,
         qty   |-> SubQty(level.qty, st[i].order.qty)]
-----------------------------------------------------------------------------
(* The slots met when following `next` from a head, then ARENA_NULL; a     *)
(* walk that does not end is cut after one slot too many.                  *)
Walk(st, head) ==
    LET at[k \in 1 .. Capacity + 1] ==
            IF k = 1 THEN head
            ELSE IF at[k - 1] = ARENA_NULL THEN ARENA_NULL ELSE st[at[k - 1]].next
    IN  at

(* How many slots a walk meets before the first ARENA_NULL.                *)
Met(walk) ==
    CHOOSE n \in 0 .. Capacity + 1 :
        (n = 0 \/ walk[n] # ARENA_NULL) /\ (n = Capacity + 1 \/ walk[n + 1] = ARENA_NULL)

Chain(st, head) == LET walk == Walk(st, head) IN [k \in 1 .. Met(walk) |-> walk[k]]

(* The orders of a chain of slots, front to back.                          *)
QueueOf(st, chain) == [k \in 1 .. Len(chain) |-> st[chain[k]].order]

(* The quantity of the orders of a queue.                                  *)
SumQty(queue) ==
    LET upTo[k \in 0 .. Len(queue)] == IF k = 0 THEN 0 ELSE upTo[k - 1] + queue[k].qty
    IN  upTo[Len(queue)]
=============================================================================
