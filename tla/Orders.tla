------------------------------- MODULE Orders -------------------------------
(***************************************************************************)
(* The data of src/src/order.rs and the numbers the engine is built on,    *)
(* shared by every module about the book.                                  *)
(***************************************************************************)
EXTENDS Integers, Sequences, FiniteSets

CONSTANTS
    Ids,          \* order ids (u64)
    Traders,      \* trader ids (u64)
    MinPrice,     \* i64::MIN
    MaxPrice,     \* i64::MAX
    MaxQty,       \* u64::MAX
    Capacity,     \* number of arena slots (arena_capacity)
    NoPrice       \* None, in best_bid and best_ask

ASSUME OrdersAssumption ==
    /\ MinPrice \in Int
    /\ MaxPrice \in Int
    /\ MinPrice <= MaxPrice
    /\ MaxQty \in Nat
    /\ Capacity \in Nat
    /\ NoPrice \notin Int

Side == {"Bid", "Ask"}

Opposite(s) == IF s = "Bid" THEN "Ask" ELSE "Bid"

Prices == MinPrice .. MaxPrice

(* An order, without its timestamp: nothing in the engine reads it.        *)
(* Order::new and the decoder refuse a quantity of zero.                   *)
Order == [id : Ids, trader : Traders, side : Side, price : Prices, qty : 1 .. MaxQty]

(* The price p has priority over q: bids compete upwards, asks downwards.  *)
Better(s, p, q) == IF s = "Bid" THEN p > q ELSE p < q

(* An incoming order can trade at the opposite side's price p.             *)
Crosses(o, p) == IF o.side = "Bid" THEN p <= o.price ELSE p >= o.price

(* The outcomes of the operations of the book and of the engine.           *)
BookErrors == {"DuplicateOrderId", "OrderNotFound", "PriceLevelNotFound",
               "FillExceedsQuantity", "ArenaFull"}

OrderStatus == {"FullyFilled", "PartiallyFilled", "Resting", "CancelledSelfTrade"}

Fill == [taker : Ids, maker : Ids, price : Prices, qty : 1 .. MaxQty,
         makerFullyFilled : BOOLEAN]

(* The answer to a call of the engine, and the call that has no answer yet *)
Answer(status, fills) == [status |-> status, fills |-> fills]

Pending(o) == [status |-> "Pending", fills |-> <<>>, order |-> o]

NoOrder == [id |-> "none"]
=============================================================================
