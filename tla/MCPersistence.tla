--------------------------- MODULE MCPersistence ---------------------------
(* Small instances of Persistence for TLC.                                 *)
EXTENDS Persistence

MCOrder(id, trader, side, price, qty) ==
    [id |-> id, trader |-> trader, side |-> side, price |-> price, qty |-> qty, timestamp |-> 0]

(* A bid of two, an ask that takes one of it, an ask behind it, a cancel:  *)
(* books that differ whenever a command is lost, repeated or out of place. *)
MCRequests ==
    {NewOrder(MCOrder(1, 1, "Bid", 1, 2)),
     NewOrder(MCOrder(2, 2, "Ask", 1, 1)),
     CancelOrder(1)}
=============================================================================
