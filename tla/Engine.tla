------------------------------- MODULE Engine -------------------------------
(***************************************************************************)
(* The matching engine as the gateway and recovery see it: one call is one *)
(* function from the book to a book and an answer.  Module Matching has    *)
(* the same loop step by step; AddOrderIsAFunction of EngineCalls says     *)
(* that its calls compute AddOrder.                                        *)
(***************************************************************************)
EXTENDS OrderBook, Commands

EngineAnswer(b, status, fills) == [book |-> b, status |-> status, fills |-> fills]

(* The locals of add_order before an iteration of its loop: the book, the  *)
(* order with the quantity left, the fills, and the status once it has     *)
(* returned.                                                               *)
Locals(b, o, fills, status) == [book |-> b, order |-> o, fills |-> fills, status |-> status]

(* The rest of add_order once the loop has ended with quantity left.       *)
Rested(r) ==
    LET code == InsertCode(r.book, r.order)
    IN  IF code # "Ok" THEN Locals(r.book, r.order, <<>>, code)
        ELSE Locals(Inserted(r.book, r.order), r.order, r.fills,
                    IF r.fills = <<>> THEN "Resting" ELSE "PartiallyFilled")

(* An iteration that trades.                                               *)
Traded(r) ==
    LET s     == Opposite(r.order.side)
        p     == r.book.best[s]
        maker == r.book.queue[s][p][1]
        q     == IF r.order.qty <= maker.qty THEN r.order.qty ELSE maker.qty
    IN  Locals(Reduced(r.book, s, p, q), [r.order EXCEPT !.qty = @ - q],
               Append(r.fills, [taker |-> r.order.id, maker |-> maker.id, price |-> maker.price,
                                qty |-> q, makerFullyFilled |-> q = maker.qty]),
               "Pending")

(* Faulty variant: an order passes over its own trader's order by resting. *)
IteratedRestsAtOwn(r) ==
    LET s == Opposite(r.order.side)
        p == r.book.best[s]
    IN  IF r.status # "Pending" THEN r
        ELSE IF r.order.qty = 0 THEN [r EXCEPT !.status = "FullyFilled"]
        ELSE IF p = NoPrice \/ ~Crosses(r.order, p) \/ r.book.queue[s][p][1].trader = r.order.trader
        THEN Rested(r)
        ELSE Traded(r)

(* One iteration, or what follows the last one.                            *)
Iterated(r) ==
    LET s == Opposite(r.order.side)
        p == r.book.best[s]
    IN  IF r.status # "Pending" THEN r
        ELSE IF r.order.qty = 0 THEN [r EXCEPT !.status = "FullyFilled"]
        ELSE IF p = NoPrice \/ ~Crosses(r.order, p) \/ r.book.queue[s][p] = <<>> THEN Rested(r)
        ELSE IF r.book.queue[s][p][1].trader = r.order.trader
        THEN [r EXCEPT !.status = "CancelledSelfTrade"]
        ELSE Traded(r)

(* The locals after n iterations, as far as the loop can go: an iteration  *)
(* that trades takes some of the quantity, and one more returns.           *)
Iterations(b, o) ==
    LET loop[n \in 0 .. o.qty + 1] ==
            IF n = 0 THEN Locals(b, o, <<>>, "Pending") ELSE Iterated(loop[n - 1])
    IN  loop

AddOrder(b, o) ==
    LET r == Iterations(b, o)[o.qty + 1]
    IN  EngineAnswer(r.book, r.status, r.fills)

CancelResting(b, id) ==
    IF id \in b.index THEN EngineAnswer(CHOOSE c \in Cancelled(b, id) : TRUE, "Ok", <<>>)
    ELSE EngineAnswer(b, "OrderNotFound", <<>>)

(* The engine's part of process_command, and replay_command.               *)
Executed(b, cmd) ==
    IF cmd.type = "NewOrder" THEN AddOrder(b, cmd.order) ELSE CancelResting(b, cmd.order_id)
=============================================================================
