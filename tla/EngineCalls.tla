----------------------------- MODULE EngineCalls -----------------------------
(***************************************************************************)
(* The matching engine, one loop iteration per step (module Matching), its *)
(* calls as functions of the book they meet (module Engine), and the list  *)
(* of orders a snapshot keeps of its book (module BookSnapshot).           *)
(***************************************************************************)
EXTENDS Matching, Engine, BookSnapshot

(* The engine is deterministic (SYSTEM_DESIGN.md, 8.2): whatever steps the *)
(* loop of add_order takes, the book it leaves and the answer it returns   *)
(* are the function AddOrder of the book the call met and of its order.    *)
(* Replaying the log after a crash rests on this.                          *)
AddOrderIsAFunction ==
    [][pc = "match" /\ pc' = "idle" =>
         EngineAnswer(book', result'.status, result'.fills) = AddOrder(entry, result.order)]_matchVars

(* A snapshot holds only the list of all_resting_orders, without levels,   *)
(* best prices or arena.  Inserting that list into an empty book without   *)
(* matching succeeds and gives the same book back, queue order and cached  *)
(* prices included.                                                        *)
RestoreGivesBookBack ==
    RestoreFromOrders(AllRestingOrders(book)) = [code |-> "Ok", book |-> book]
=============================================================================
