------------------------------ MODULE MCCodec ------------------------------
(* Small instances of Codec and Ingestion for TLC.                         *)
EXTENDS Codec

MaxU32 == ByteBase^4 - 1
MaxU64 == ByteBase^8 - 1
MaxI64 == (ByteBase^8 \div 2) - 1
MinI64 == -(ByteBase^8 \div 2)

MCNewOrder(id, trader, side, price, qty) ==
    EncodeNewOrder(ZeroBuffer(NewOrderSize),
        [id |-> id, trader |-> trader, side |-> side, price |-> price, qty |-> qty])

MCCancelOrder(id) == EncodeCancelOrder(ZeroBuffer(CancelOrderSize), id)

(* Good messages with every field at its limits, among them an order and a *)
(* cancel with all bits of their reserved bytes set, a cancel whose id is  *)
(* the type byte of an order, an order of quantity zero, one with side 2,  *)
(* and a type that no client may send.                                     *)
MCMessages ==
    {MCNewOrder(0, MaxU64, "Ask", MinI64, 1), MCNewOrder(MaxU64, 0, "Bid", MaxI64, MaxU64),
     Write(MCNewOrder(1, 2, "Ask", -1, 3), 2, 6, ByteBase^6 - 1),
     MCCancelOrder(MsgNewOrder), Write(MCCancelOrder(MaxU64), 1, 7, ByteBase^7 - 1),
     MCNewOrder(1, 2, "Bid", 0, 0), Write(MCNewOrder(1, 2, "Bid", 0, 1), 1, 1, 2),
     <<MsgExecutionReport, 0>>}

MCReports ==
    {[seq_num |-> MaxU32, taker |-> MaxU64, maker |-> 2, price |-> MinI64, qty |-> MaxU64,
      timestamp |-> 0],
     [seq_num |-> 0, taker |-> 1, maker |-> MaxU64, price |-> MaxI64, qty |-> 1,
      timestamp |-> MaxU64],
     [seq_num |-> 1, taker |-> 1, maker |-> 0, price |-> -1, qty |-> 2, timestamp |-> 7]}
=============================================================================
