---------------------------- MODULE BookSnapshot ----------------------------
(***************************************************************************)
(* What a snapshot keeps of the book and how the book is rebuilt from it:  *)
(* all_resting_orders of src/src/book.rs, restore_from_orders of           *)
(* src/src/matching.rs.                                                    *)
(***************************************************************************)
EXTENDS OrderBook

(* The prices of a side, best first: asks ascend and bids descend.         *)
PriceAt(s, k) == IF s = "Ask" THEN MinPrice + k - 1 ELSE MaxPrice - k + 1

PriceCount == MaxPrice - MinPrice + 1

(* Faulty variant: newest first within a level.                            *)
SideOrdersLifo(b, s) ==
    LET lifo(q) == [i \in 1 .. Len(q) |-> q[Len(q) - i + 1]]
        listed[k \in 0 .. PriceCount] ==
            IF k = 0 THEN <<>> ELSE listed[k - 1] \o lifo(b.queue[s][PriceAt(s, k)])
    IN  listed[PriceCount]

(* all_resting_orders: level after level, the oldest order first.          *)
SideOrders(b, s) ==
    LET listed[k \in 0 .. PriceCount] ==
            IF k = 0 THEN <<>> ELSE listed[k - 1] \o b.queue[s][PriceAt(s, k)]
    IN  listed[PriceCount]

AllRestingOrders(b) == SideOrders(b, "Ask") \o SideOrders(b, "Bid")

(* restore_from_orders: the orders of a snapshot are inserted one by one,  *)
(* without matching; the first error ends it.                              *)
RestoredWith(r, o) ==
    LET code == InsertCode(r.book, o)
    IN  IF r.code # "Ok" THEN r
        ELSE IF code # "Ok" THEN [r EXCEPT !.code = code]
        ELSE [r EXCEPT !.book = Inserted(r.book, o)]

RestoreFromOrders(orders) ==
    LET restored[n \in 0 .. Len(orders)] ==
            IF n = 0 THEN [code |-> "Ok", book |-> EmptyBook]
            ELSE RestoredWith(restored[n - 1], orders[n])
    IN  restored[Len(orders)]
=============================================================================
