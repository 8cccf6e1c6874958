------------------------------ MODULE Commands ------------------------------
(***************************************************************************)
(* EngineCommand of src/src/protocol.rs: what the ingestion thread hands   *)
(* to the matching thread, what the log records and what recovery replays. *)
(* Here an order carries its timestamp; 0 is the value the decoder sets.   *)
(***************************************************************************)
EXTENDS Orders

NewOrder(o) == [type |-> "NewOrder", order |-> o]

CancelOrder(id) == [type |-> "CancelOrder", order_id |-> id]

NoCommand == [type |-> "none"]

(* order.timestamp = now_nanos(), for new orders only                      *)
Stamped(cmd, now) ==
    IF cmd.type = "NewOrder" THEN [cmd EXCEPT !.order.timestamp = now] ELSE cmd

(* What is left of a command once it has been encoded and decoded again:   *)
(* the timestamp is not on the wire (RoundTrip of module Codec).           *)
Unstamped(cmd) == Stamped(cmd, 0)
=============================================================================
