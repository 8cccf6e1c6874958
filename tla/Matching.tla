------------------------------ MODULE Matching ------------------------------
(***************************************************************************)
(* The matching engine of src/src/matching.rs over the book of module      *)
(* OrderBook.  A call of add_order is a sequence of steps, one for each    *)
(* iteration of the matching loop and one for its end, so that every       *)
(* intermediate book is visible; the engine is owned by one thread, so no  *)
(* other call starts before it returns.  The two arms of the loop (a bid   *)
(* meets asks, an ask meets bids) are one action with the side as datum.   *)
(***************************************************************************)
EXTENDS OrderBook

VARIABLES
    book,         \* the engine's OrderBook
    pc,           \* "idle", or "match" while add_order runs
    taker,        \* the local `order` of add_order, with the quantity left
    fills,        \* fills_buf
    result,       \* the answer to the last call, or the call that is running
    entry         \* history: the book the running call met

matchVars == <<book, pc, taker, fills, result, entry>>

OrderRequest == [id : Ids, trader : Traders, side : Side, price : Prices, qty : 0 .. MaxQty]
-----------------------------------------------------------------------------
(* The price of the opposite side the loop looks at, and peek_front there. *)
BestOpposite == book.best[Opposite(taker.side)]

Maker == book.queue[Opposite(taker.side)][BestOpposite][1]

(* Faulty variant: equal prices do not trade.                              *)
MeetsMakerTouchExcluded ==
    /\ taker.qty > 0
    /\ BestOpposite # NoPrice
    /\ Crosses(taker, BestOpposite)
    /\ BestOpposite # taker.price
    /\ book.queue[Opposite(taker.side)][BestOpposite] # <<>>

(* The loop body is reached: quantity left, a crossing best price and an   *)
(* order at the front of its level.                                        *)
MeetsMaker ==
    /\ taker.qty > 0
    /\ BestOpposite # NoPrice
    /\ Crosses(taker, BestOpposite)
    /\ book.queue[Opposite(taker.side)][BestOpposite] # <<>>

FillQty == IF taker.qty <= Maker.qty THEN taker.qty ELSE Maker.qty

Return(status, returned) ==
    /\ result' = Answer(status, returned)
    /\ pc' = "idle"
    /\ taker' = NoOrder
    /\ entry' = EmptyBook

ReturnOk(status) == Return(status, fills) /\ fills' = <<>>

(* fills_buf keeps the fills of a call that ends in an error.              *)
ReturnErr(error) == Return(error, <<>>) /\ UNCHANGED fills
-----------------------------------------------------------------------------
RejectZero(o) ==
    /\ pc = "idle"
    /\ o.qty = 0
    /\ result' = Answer("ZeroQuantity", <<>>)
    /\ UNCHANGED <<book, pc, taker, fills, entry>>

StartAddOrder(o) ==
    /\ pc = "idle"
    /\ o.qty > 0
    /\ pc' = "match"
    /\ taker' = o
    /\ fills' = <<>>
    /\ result' = Pending(o)
    /\ entry' = book
    /\ UNCHANGED book

(* One iteration that trades.  The `?` on reduce_front_quantity never      *)
(* leaves: ReduceCode is "Ok" when a maker is met and FillQty taken.       *)
FillMaker ==
    /\ pc = "match"
    /\ MeetsMaker
    /\ Maker.trader # taker.trader
    /\ book' = Reduced(book, Opposite(taker.side), BestOpposite, FillQty)
    /\ fills' = Append(fills,
                  [taker |-> taker.id, maker |-> Maker.id, price |-> Maker.price,
                   qty |-> FillQty, makerFullyFilled |-> FillQty = Maker.qty])
    /\ taker' = [taker EXCEPT !.qty = @ - FillQty]
    /\ UNCHANGED <<pc, result, entry>>

CancelSelfTrade ==
    /\ pc = "match"
    /\ MeetsMaker
    /\ Maker.trader = taker.trader
    /\ ReturnOk("CancelledSelfTrade")
    /\ UNCHANGED book

FinishFilled ==
    /\ pc = "match"
    /\ taker.qty = 0
    /\ ReturnOk("FullyFilled")
    /\ UNCHANGED book

RestRemainder ==
    /\ pc = "match"
    /\ taker.qty > 0
    /\ ~MeetsMaker
    /\ InsertCode(book, taker) = "Ok"
    /\ book' = Inserted(book, taker)
    /\ ReturnOk(IF fills = <<>> THEN "Resting" ELSE "PartiallyFilled")

RefuseRemainder ==
    /\ pc = "match"
    /\ taker.qty > 0
    /\ ~MeetsMaker
    /\ InsertCode(book, taker) # "Ok"
    /\ ReturnErr(InsertCode(book, taker))
    /\ UNCHANGED book

Cancel(id) ==
    /\ pc = "idle"
    /\ id \in book.index
    /\ book' \in Cancelled(book, id)
    /\ result' = Answer("Ok", <<>>)
    /\ UNCHANGED <<pc, taker, fills, entry>>

CancelUnknown(id) ==
    /\ pc = "idle"
    /\ id \notin book.index
    /\ result' = Answer("OrderNotFound", <<>>)
    /\ UNCHANGED <<book, pc, taker, fills, entry>>

MatchInit ==
    /\ book = EmptyBook
    /\ pc = "idle" /\ taker = NoOrder /\ fills = <<>> /\ entry = EmptyBook
    /\ result = Answer("Ok", <<>>)

MatchNext ==
    \/ \E o \in OrderRequest : RejectZero(o) \/ StartAddOrder(o)
    \/ FillMaker
    \/ CancelSelfTrade
    \/ FinishFilled
    \/ RestRemainder
    \/ RefuseRemainder
    \/ \E id \in Ids : Cancel(id) \/ CancelUnknown(id)

MatchSpec == MatchInit /\ [][MatchNext]_matchVars
-----------------------------------------------------------------------------
(* The book, the locals of add_order and the answer stay in their types:   *)
(* no order of quantity zero is left in a level, no fill has quantity zero,*)
(* arena.count never leaves 0 .. capacity.                                 *)
MatchTypeOK ==
    /\ book \in Book
    /\ pc \in {"idle", "match"}
    /\ fills \in Seq(Fill)
    /\ pc = "idle" => taker = NoOrder /\ entry = EmptyBook
    /\ pc = "match" => taker \in OrderRequest /\ entry \in Book
    /\ result.fills \in Seq(Fill)
    /\ result.status \in OrderStatus \cup BookErrors \cup {"ZeroQuantity", "Ok", "Pending"}

(* The book is never crossed, not even between two iterations of the       *)
(* matching loop: every resting bid is below every resting ask.  (The      *)
(* no_crossed_book property test of matching.rs looks only after a call.)  *)
NotCrossed == NotCrossedIn(book)

(* The cached best_bid and best_ask, which the loop trusts without looking *)
(* at the maps, are right in every state, the ones in the middle of a      *)
(* match included.                                                         *)
BestIsBest == BestIsBestIn(book)

(* order_index names exactly the resting orders and no id rests twice,     *)
(* though only insert_order checks for duplicates and ids are reused: the  *)
(* lookup of a cancel cannot miss and finds the only order of that id.     *)
IndexIsExact == IndexIsExactIn(book)

(* The debug_assert_eq!(arena.count(), order_index.len()) that ends        *)
(* insert_order, cancel_order and reduce_front_quantity.                   *)
CountIsIndexSize == CountIsIndexSizeIn(book)

(* A call that fails for want of an arena slot has not traded: an order    *)
(* with quantity left after a fill has freed a slot.  So ArenaFull is an   *)
(* answer that leaves the book as it was.                                  *)
ArenaFullMeansNoTrade == result.status = "ArenaFull" => fills = <<>>

(* "Emit ExecutionReport(buy_id, order.id, best_ask, fill_qty)", at every  *)
(* fill of the loop (SYSTEM_DESIGN.md): the fills of a call are handed back *)
(* to be reported, so a call that hands none back has made none.           *)
RefusedMeansNoTrade == result.status \in BookErrors => fills = <<>>
=============================================================================
