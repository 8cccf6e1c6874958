---------------------------- MODULE BookMachine ----------------------------
(***************************************************************************)
(* The book as its callers see it: the three mutating operations of        *)
(* src/src/book.rs, called in any order with any arguments, over price     *)
(* levels that are plain queues.  Module ArenaBook implements it.          *)
(***************************************************************************)
EXTENDS OrderBook

VARIABLES
    book,         \* the OrderBook struct, levels as queues
    op, arg, ret  \* the last operation called, its arguments, its outcome

bookVars == <<book, op, arg, ret>>

InsertOrder(o) ==
    /\ op' = "insert_order" /\ arg' = o
    /\ ret' = InsertCode(book, o)
    /\ book' = IF InsertCode(book, o) = "Ok" THEN Inserted(book, o) ELSE book

CancelOrder(id) ==
    /\ op' = "cancel_order" /\ arg' = id
    /\ IF id \in book.index
       THEN ret' = "Ok" /\ book' \in Cancelled(book, id)
       ELSE ret' = "OrderNotFound" /\ UNCHANGED book

ReduceFrontQuantity(s, p, q) ==
    /\ op' = "reduce_front_quantity" /\ arg' = <<s, p, q>>
    /\ ret' = ReduceCode(book, s, p, q)
    /\ book' = IF ReduceCode(book, s, p, q) = "Ok" THEN Reduced(book, s, p, q) ELSE book

BookInit ==
    /\ book = EmptyBook
    /\ op = "with_capacity" /\ arg = Capacity /\ ret = "Ok"

BookNext ==
    \/ \E o \in Order : InsertOrder(o)
    \/ \E id \in Ids : CancelOrder(id)
    \/ \E s \in Side, p \in Prices, q \in 1 .. MaxQty : ReduceFrontQuantity(s, p, q)

BookSpec == BookInit /\ [][BookNext]_bookVars
=============================================================================
