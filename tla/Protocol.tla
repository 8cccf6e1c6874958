------------------------------ MODULE Protocol ------------------------------
(***************************************************************************)
(* The codecs of src/src/protocol.rs, byte by byte.  A buffer is a         *)
(* sequence of bytes; the byte at offset n of the code is element n + 1.   *)
(* ByteBase is the number of values of a byte, so that a u64 has           *)
(* ByteBase^8 values and an i64 half of them on either side of zero.       *)
(***************************************************************************)
EXTENDS Commands, SequencesExt

CONSTANT ByteBase     \* 256

ASSUME ProtocolAssumption == ByteBase \in Nat /\ ByteBase > 3

MsgNewOrder == 1
MsgCancelOrder == 2
MsgExecutionReport == 3

NewOrderSize == 40
CancelOrderSize == 16
ExecutionReportSize == 48

Ok(value) == [code |-> "Ok", value |-> value]
Err(error) == [code |-> error, value |-> NoCommand]

-----------------------------------------------------------------------------
(* to_le_bytes of a value of w bytes, two's complement for an i64          *)
ToBytes(v, w) == [j \in 1 .. w |-> (v \div ByteBase^(j - 1)) % ByteBase]

(* read_u8, read_u32, read_u64: from_le_bytes at an offset                 *)
ReadUnsigned(buf, offset, w) ==
    MapThenSumSet(LAMBDA j : buf[offset + j] * ByteBase^(j - 1), 1 .. w)

(* Faulty variant: a price is read as a u64.                               *)
ReadSignedAsUnsigned(buf, offset, w) == ReadUnsigned(buf, offset, w)

(* read_i64                                                                *)
ReadSigned(buf, offset, w) ==
    LET u == ReadUnsigned(buf, offset, w)
    IN  IF 2 * u >= ByteBase^w THEN u - ByteBase^w ELSE u

(* write_u8, write_u32, write_u64, write_i64                               *)
Write(buf, offset, w, v) ==
    [i \in DOMAIN buf |-> IF i - offset \in 1 .. w THEN ToBytes(v, w)[i - offset] ELSE buf[i]]

(* buf[..n].fill(0)                                                        *)
Cleared(buf, n) == [i \in DOMAIN buf |-> IF i <= n THEN 0 ELSE buf[i]]

(* The writes of an encoder in turn: <<offset, width, value>>.             *)
WriteAll(buf, writes) == FoldLeft(LAMBDA b, x : Write(b, x[1], x[2], x[3]), buf, writes)

-----------------------------------------------------------------------------
EncodeSide(side) == IF side = "Bid" THEN 0 ELSE 1

DecodeSide(b) == IF b = 0 THEN "Bid" ELSE "Ask"

(* The encoders, on buffers that are long enough: encode_buf and           *)
(* report_buf have the size of the longest message they take.              *)
EncodeNewOrder(buf, o) ==
    WriteAll(Cleared(buf, NewOrderSize),
             <<<<0, 1, MsgNewOrder>>, <<1, 1, EncodeSide(o.side)>>, <<8, 8, o.id>>,
               <<16, 8, o.trader>>, <<24, 8, o.price>>, <<32, 8, o.qty>>>>)

(* Faulty variant: the bytes of the last message are not cleared.          *)
EncodeCancelOrderDirty(buf, id) ==
    WriteAll(buf, <<<<0, 1, MsgCancelOrder>>, <<8, 8, id>>>>)

EncodeCancelOrder(buf, id) ==
    WriteAll(Cleared(buf, CancelOrderSize), <<<<0, 1, MsgCancelOrder>>, <<8, 8, id>>>>)

(* decode_new_order: the side is looked at before the quantity, and there  *)
(* is no timestamp to read.                                                *)
DecodeNewOrder(buf) ==
    IF Len(buf) < NewOrderSize THEN Err("BufferTooShort")
    ELSE IF ReadUnsigned(buf, 1, 1) \notin {0, 1} THEN Err("InvalidSide")
    ELSE IF ReadUnsigned(buf, 32, 8) = 0 THEN Err("ZeroQuantity")
    ELSE Ok(NewOrder([id        |-> ReadUnsigned(buf, 8, 8),
                      trader    |-> ReadUnsigned(buf, 16, 8),
                      side      |-> DecodeSide(ReadUnsigned(buf, 1, 1)),
                      price     |-> ReadSigned(buf, 24, 8),
                      qty       |-> ReadUnsigned(buf, 32, 8),
                      timestamp |-> 0]))

DecodeCancelOrder(buf) ==
    IF Len(buf) < CancelOrderSize THEN Err("BufferTooShort")
    ELSE Ok(CancelOrder(ReadUnsigned(buf, 8, 8)))

DecodeMessage(buf) ==
    CASE buf = <<>>                 -> Err("BufferTooShort")
      [] buf[1] = MsgNewOrder       -> DecodeNewOrder(buf)
      [] buf[1] = MsgCancelOrder    -> DecodeCancelOrder(buf)
      [] OTHER                      -> Err("UnknownMessageType")

(* Faulty variant: every message has the size of the largest.              *)
MessageSizeFixed(type) ==
    IF type \in {MsgNewOrder, MsgCancelOrder} THEN Ok(NewOrderSize) ELSE Err("UnknownMessageType")

MessageSize(type) ==
    CASE type = MsgNewOrder    -> Ok(NewOrderSize)
      [] type = MsgCancelOrder -> Ok(CancelOrderSize)
      [] OTHER                 -> Err("UnknownMessageType")

EncodeExecutionReport(buf, r) ==
    WriteAll(Cleared(buf, ExecutionReportSize),
             <<<<0, 1, MsgExecutionReport>>, <<4, 4, r.seq_num>>, <<8, 8, r.taker>>,
               <<16, 8, r.maker>>, <<24, 8, r.price>>, <<32, 8, r.qty>>, <<40, 8, r.timestamp>>>>)

DecodeExecutionReport(buf) ==
    IF Len(buf) < ExecutionReportSize THEN Err("BufferTooShort")
    ELSE Ok([seq_num   |-> ReadUnsigned(buf, 4, 4),
             taker     |-> ReadUnsigned(buf, 8, 8),
             maker     |-> ReadUnsigned(buf, 16, 8),
             price     |-> ReadSigned(buf, 24, 8),
             qty       |-> ReadUnsigned(buf, 32, 8),
             timestamp |-> ReadUnsigned(buf, 40, 8)])
=============================================================================
