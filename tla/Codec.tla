------------------------------- MODULE Codec -------------------------------
(***************************************************************************)
(* A command's way through the codecs, from the client's bytes to the      *)
(* log's: handle_client (module Ingestion) decodes it, the matching thread *)
(* encodes it again for the log and encodes the reports of its fills.      *)
(* Both encode into buffers that are used again and again: encode_buf of   *)
(* the log (src/src/wal.rs), as long as the longest command, and           *)
(* report_buf of matching_loop (src/src/gateway.rs).                       *)
(***************************************************************************)
EXTENDS Ingestion

CONSTANTS
    Reports,      \* execution reports
    MaxReports    \* bound: reports sent

VARIABLES
    encodeBuf,    \* encode_buf, with what earlier commands left
    reportBuf,    \* report_buf, with what earlier reports left
    logged,       \* the payloads appended to the log
    reported      \* the reports, each with the datagram sent for it

matcherVars == <<encodeBuf, reportBuf, logged, reported>>

codecVars == <<ingVars, matcherVars>>

ZeroBuffer(n) == [i \in 1 .. n |-> 0]

(* handle_client takes a step.                                             *)
Ingest == IngNext /\ UNCHANGED matcherVars

(* Wal::append of the next command of the ring.                            *)
LogCommand ==
    /\ Len(logged) < Len(pushed)
    /\ LET next == pushed[Len(logged) + 1]
           len  == IF next.type = "NewOrder" THEN NewOrderSize ELSE CancelOrderSize
       IN  /\ encodeBuf' = IF next.type = "NewOrder"
                           THEN EncodeNewOrder(encodeBuf, next.order)
                           ELSE EncodeCancelOrder(encodeBuf, next.order_id)
           /\ logged' = Append(logged, SubSeq(encodeBuf', 1, len))
    /\ UNCHANGED <<ingVars, reportBuf, reported>>

(* process_command reports a fill of the order logged last.                *)
ReportFill(r) ==
    /\ logged # <<>> /\ pushed[Len(logged)].type = "NewOrder"
    /\ Len(reported) < MaxReports
    /\ reportBuf' = EncodeExecutionReport(reportBuf, r)
    /\ reported' = Append(reported, [report |-> r, bytes |-> reportBuf'])
    /\ UNCHANGED <<ingVars, encodeBuf, logged>>

CodecInit ==
    /\ IngInit
    /\ encodeBuf = ZeroBuffer(NewOrderSize)
    /\ reportBuf = ZeroBuffer(ExecutionReportSize)
    /\ logged = <<>> /\ reported = <<>>

CodecNext == Ingest \/ LogCommand \/ \E r \in Reports : ReportFill(r)

CodecSpec == CodecInit /\ [][CodecNext]_codecVars
-----------------------------------------------------------------------------
(* What replay decodes from the log is the command the engine was given,   *)
(* and what a subscriber decodes is the report, at the limits of every     *)
(* field, but for the timestamp of an order, which comes back as zero.     *)
RoundTrip ==
    /\ \A i \in DOMAIN logged : DecodeMessage(logged[i]) = Ok(Unstamped(pushed[i]))
    /\ \A i \in DOMAIN reported : DecodeExecutionReport(reported[i].bytes) = Ok(reported[i].report)

(* The bytes of a message depend on the message alone and not on what the  *)
(* buffer held: the log has the bytes that the client sent, with zeros     *)
(* where a client may have put anything into the reserved bytes, which the *)
(* decoders skip; a datagram has those of its report in a fresh buffer.    *)
EncodingIsPure ==
    /\ \A i \in DOMAIN logged :
          logged[i] = IF sent[i][1] = MsgNewOrder THEN Write(sent[i], 2, 6, 0)
                      ELSE Write(sent[i], 1, 7, 0)
    /\ \A i \in DOMAIN reported :
          reported[i].bytes = EncodeExecutionReport(ZeroBuffer(ExecutionReportSize), reported[i].report)
=============================================================================
