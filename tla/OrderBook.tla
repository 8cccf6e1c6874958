----------------------------- MODULE OrderBook -----------------------------
(***************************************************************************)
(* The limit order book of src/src/book.rs at the level of its price       *)
(* levels: every level is the FIFO queue of the orders resting at it.      *)
(* The arena slots and the intrusive list that store a queue are the       *)
(* subject of module ArenaBook, which implements this one.                 *)
(*                                                                         *)
(* The operations are functions from a book to a book: the matching loop   *)
(* (module Matching), the restore of a snapshot and the free-running state *)
(* machine of module BookMachine are built from them.                      *)
(***************************************************************************)
EXTENDS Orders

(* queue[s][p] is the level of side s at price p, <<>> when the BTreeMap   *)
(* has no such key; index is the key set of order_index; count is          *)
(* arena.count.                                                            *)
Book == [queue : [Side -> [Prices -> Seq(Order)]],
         best  : [Side -> Prices \cup {NoPrice}],
         index : SUBSET Ids,
         count : 0 .. Capacity]

EmptyBook == [queue |-> [s \in Side |-> [p \in Prices |-> <<>>]],
              best  |-> [s \in Side |-> NoPrice],
              index |-> {},
              count |-> 0]

(* keys().next_back() of the bids, keys().next() of the asks               *)
BestOf(s, P) ==
    IF P = {} THEN NoPrice
    ELSE CHOOSE p \in P : \A q \in P : q = p \/ Better(s, p, q)

Levels(b, s) == {p \in Prices : b.queue[s][p] # <<>>}

-----------------------------------------------------------------------------
(* Faulty variant: one error for both refusals.                            *)
InsertCodeOneError(b, o) ==
    IF o.id \in b.index \/ b.count = Capacity THEN "ArenaFull" ELSE "Ok"

(* insert_order: duplicates are refused before a slot is allocated.        *)
InsertCode(b, o) ==
    IF o.id \in b.index THEN "DuplicateOrderId"
    ELSE IF b.count = Capacity THEN "ArenaFull"
    ELSE "Ok"

BestAfterInsert(b, o) ==
    [b.best EXCEPT ![o.side] =
        IF @ = NoPrice \/ Better(o.side, o.price, @) THEN o.price ELSE @]

(* Faulty variant: the newest order first.                                 *)
InsertedAtFront(b, o) ==
    [queue |-> [b.queue EXCEPT ![o.side][o.price] = <<o>> \o @],
     best  |-> BestAfterInsert(b, o),
     index |-> b.index \cup {o.id},
     count |-> b.count + 1]

Inserted(b, o) ==
    [queue |-> [b.queue EXCEPT ![o.side][o.price] = Append(@, o)],
     best  |-> BestAfterInsert(b, o),
     index |-> b.index \cup {o.id},
     count |-> b.count + 1]

(* A queue without its i-th element (RemoveAt of SequencesExt, written out *)
(* to keep the module the proofs extend free of that library).             *)
WithoutAt(q, i) == SubSeq(q, 1, i - 1) \o SubSeq(q, i + 1, Len(q))

(* Faulty variant: the cached best price is not read again.                *)
UnlinkedKeepsBest(b, s, p, i) ==
    [queue |-> [b.queue EXCEPT ![s][p] = WithoutAt(@, i)],
     best  |-> b.best,
     index |-> b.index \ {b.queue[s][p][i].id},
     count |-> b.count - 1]

(* Faulty variant: the id stays in the index.                              *)
UnlinkedKeepsIndex(b, s, p, i) ==
    [queue |-> [b.queue EXCEPT ![s][p] = WithoutAt(@, i)],
     best  |-> IF Len(b.queue[s][p]) = 1
               THEN [b.best EXCEPT ![s] = BestOf(s, Levels(b, s) \ {p})]
               ELSE b.best,
     index |-> b.index,
     count |-> b.count - 1]

(* The i-th order of a level leaves the book: it is unlinked, its slot     *)
(* freed and its index entry dropped; an emptied level is removed from     *)
(* the map and the cached best price read again from the keys.             *)
Unlinked(b, s, p, i) ==
    [queue |-> [b.queue EXCEPT ![s][p] = WithoutAt(@, i)],
     best  |-> IF Len(b.queue[s][p]) = 1
               THEN [b.best EXCEPT ![s] = BestOf(s, Levels(b, s) \ {p})]
               ELSE b.best,
     index |-> b.index \ {b.queue[s][p][i].id},
     count |-> b.count - 1]

(* reduce_front_quantity: the outcome, and the book when it is "Ok".       *)
ReduceCode(b, s, p, q) ==
    IF b.queue[s][p] = <<>> THEN "PriceLevelNotFound"
    ELSE IF q > b.queue[s][p][1].qty THEN "FillExceedsQuantity"
    ELSE "Ok"

(* Faulty variant: a spent order stays in its level.                       *)
ReducedKeepsEmpty(b, s, p, q) == [b EXCEPT !.queue[s][p][1].qty = @ - q]

(* Faulty variant: the slot of a spent order is not freed.                 *)
ReducedLeaksSlot(b, s, p, q) ==
    IF b.queue[s][p][1].qty = q
    THEN [Unlinked(b, s, p, 1) EXCEPT !.count = b.count]
    ELSE [b EXCEPT !.queue[s][p][1].qty = @ - q]

Reduced(b, s, p, q) ==
    IF b.queue[s][p][1].qty = q
    THEN Unlinked(b, s, p, 1)
    ELSE [b EXCEPT !.queue[s][p][1].qty = @ - q]

(* cancel_order: the books it may leave (one, as an id rests once).        *)
Cancelled(b, id) ==
    {Unlinked(b, x[1], x[2], x[3]) : x \in
        {y \in Side \X Prices \X (1 .. Capacity) :
            y[3] <= Len(b.queue[y[1]][y[2]]) /\ b.queue[y[1]][y[2]][y[3]].id = id}}

-----------------------------------------------------------------------------
(* The facts about a book that its operations preserve.                    *)

(* The cached best_bid and best_ask are the best keys of the maps, None    *)
(* exactly when the map is empty.                                          *)
BestIsBestIn(b) ==
    \A s \in Side :
        \/ b.best[s] = NoPrice /\ Levels(b, s) = {}
        \/ /\ b.best[s] \in Levels(b, s)
           /\ \A p \in Levels(b, s) : ~Better(s, p, b.best[s])

(* A resting order is in the index and in the level of its side and price. *)
OrdersAreIndexed(b) ==
    \A s \in Side, p \in Prices : \A i \in 1 .. Len(b.queue[s][p]) :
        /\ b.queue[s][p][i].id \in b.index
        /\ b.queue[s][p][i].side = s
        /\ b.queue[s][p][i].price = p

(* Every id of the index rests somewhere.                                  *)
IndexedOrdersRest(b) ==
    \A id \in b.index : \E s \in Side, p \in Prices :
        \E i \in 1 .. Len(b.queue[s][p]) : b.queue[s][p][i].id = id

(* No id rests twice.                                                      *)
IdsRestOnce(b) ==
    \A s, t \in Side, p, q \in Prices :
        \A i \in 1 .. Len(b.queue[s][p]), j \in 1 .. Len(b.queue[t][q]) :
            b.queue[s][p][i].id = b.queue[t][q][j].id => s = t /\ p = q /\ i = j

IndexIsExactIn(b) == OrdersAreIndexed(b) /\ IndexedOrdersRest(b) /\ IdsRestOnce(b)

(* debug_assert_eq!(arena.count(), order_index.len())                      *)
CountIsIndexSizeIn(b) == b.count = Cardinality(b.index)

(* Every resting bid is below every resting ask.                           *)
NotCrossedIn(b) == \A p \in Levels(b, "Bid"), q \in Levels(b, "Ask") : p < q
=============================================================================
