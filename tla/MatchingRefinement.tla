------------------------- MODULE MatchingRefinement -------------------------
(***************************************************************************)
(* The matching engine of module Matching implements the abstract order    *)
(* book of module LimitOrderBook.  While add_order runs, the abstract book *)
(* is still the one the call met; it changes when the call returns.        *)
(***************************************************************************)
EXTENDS EngineCalls

(* The loop with its cached prices and levels is one atomic price-time     *)
(* priority match: who trades, how much, at what price, what is answered   *)
(* and what stays in the book.                                             *)
LOB == INSTANCE LimitOrderBook WITH
           resting <- [s \in Side |-> SideOrders(IF pc = "match" THEN entry ELSE book, s)],
           report  <- result

ImplementsLimitOrderBook == LOB!LobSpec
=============================================================================
