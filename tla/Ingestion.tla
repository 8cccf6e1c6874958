----------------------------- MODULE Ingestion -----------------------------
(***************************************************************************)
(* handle_client of src/src/gateway.rs on one connection: from the bytes   *)
(* of a TCP stream to the commands pushed into the ring.  The client sends *)
(* some messages one behind the other; of their bytes the stream delivers  *)
(* the first `cut`, anywhere in a message, and then ends as `ending` says. *)
(***************************************************************************)
EXTENDS Protocol

CONSTANTS
    Messages,     \* what a client may send: encoded messages, good and bad
    MaxMessages,  \* bound: messages sent
    Now           \* what now_nanos returns; not 0

VARIABLES
    sent,         \* the messages the client sends
    cut,          \* how many bytes arrive
    ending,       \* "UnexpectedEof", "ConnectionReset" or another "Io" error
    pos,          \* bytes read
    pc,           \* "type", "body", "push", "done"
    cmd,          \* the command decoded last
    pushed,       \* commands pushed into the ring
    outcome       \* what handle_client returns

ingVars == <<sent, cut, ending, pos, pc, cmd, pushed, outcome>>

Stream == FlattenSeq(sent)

Return(result) == pc' = "done" /\ outcome' = result

(* Faulty variant: a client that resets the connection is an error.        *)
StreamEndsResetIsError ==
    /\ Return(IF ending = "UnexpectedEof" THEN "Ok" ELSE "Io")
    /\ UNCHANGED <<sent, cut, ending, pos, cmd, pushed>>

(* read_exact cannot be satisfied: the two ways a client leaves end the    *)
(* loop, every other error is returned.                                    *)
StreamEnds ==
    /\ Return(IF ending = "Io" THEN "Io" ELSE "Ok")
    /\ UNCHANGED <<sent, cut, ending, pos, cmd, pushed>>

-----------------------------------------------------------------------------
(* read_exact of the type byte and message_size                            *)
ReadType ==
    LET size == MessageSize(Stream[pos + 1])
    IN  /\ pc = "type"
        /\ pos < cut
        /\ IF size.code = "Ok" THEN pc' = "body" /\ UNCHANGED outcome ELSE Return(size.code)
        /\ pos' = pos + 1
        /\ UNCHANGED <<sent, cut, ending, cmd, pushed>>

TypeMissing == pc = "type" /\ pos >= cut /\ StreamEnds

(* The bytes still to read of the message whose type byte was read last    *)
Rest == MessageSize(Stream[pos]).value - 1

(* read_exact of the rest, decode_message, the timestamp                   *)
ReadBody ==
    LET decoded == DecodeMessage(SubSeq(Stream, pos, pos + Rest))
    IN  /\ pc = "body"
        /\ pos + Rest <= cut
        /\ pos' = pos + Rest
        /\ IF decoded.code = "Ok"
           THEN pc' = "push" /\ cmd' = Stamped(decoded.value, Now) /\ UNCHANGED outcome
           ELSE Return(decoded.code) /\ UNCHANGED cmd
        /\ UNCHANGED <<sent, cut, ending, pushed>>

BodyCutShort == pc = "body" /\ pos + Rest > cut /\ StreamEnds

(* The push loop; how it waits for room is the subject of module Gateway.  *)
PushCommand ==
    /\ pc = "push"
    /\ pushed' = Append(pushed, cmd)
    /\ pc' = "type"
    /\ UNCHANGED <<sent, cut, ending, pos, cmd, outcome>>

IngInit ==
    /\ sent \in UNION {[1 .. n -> Messages] : n \in 0 .. MaxMessages}
    /\ cut \in 0 .. Len(Stream)
    /\ ending \in {"UnexpectedEof", "ConnectionReset", "Io"}
    /\ pos = 0 /\ pc = "type" /\ cmd = NoCommand
    /\ pushed = <<>> /\ outcome = "running"

IngNext == ReadType \/ TypeMissing \/ ReadBody \/ BodyCutShort \/ PushCommand

IngSpec == IngInit /\ [][IngNext]_ingVars
-----------------------------------------------------------------------------
(* How many of the messages sent arrived whole, and how many of those are  *)
(* good up to the first that is not.                                       *)
Whole ==
    Cardinality({n \in 1 .. Len(sent) : Len(FlattenSeq(SubSeq(sent, 1, n))) <= cut})

Good ==
    Cardinality({n \in 1 .. Whole : \A i \in 1 .. n : DecodeMessage(sent[i]).code = "Ok"})

(* When handle_client returns, the commands pushed are those of the whole  *)
(* and good messages up to the first that is not, in order and stamped,    *)
(* wherever the stream was cut: no message is read out of step with its    *)
(* frame, none of its bytes is taken for another message.                  *)
PushesWholeMessages ==
    pc = "done" => pushed = [i \in 1 .. Good |-> Stamped(DecodeMessage(sent[i]).value, Now)]

(* It returns an error exactly when the message behind them is bad (for an *)
(* unknown type, as soon as its type byte is there) or the stream broke    *)
(* otherwise than by the client leaving.                                   *)
OutcomeIsFirstError ==
    pc = "done" =>
        LET next  == sent[Good + 1]
            start == Len(FlattenSeq(SubSeq(sent, 1, Good)))
        IN  IF Good < Whole THEN outcome = DecodeMessage(next).code
            ELSE IF start < cut /\ MessageSize(next[1]).code # "Ok"
            THEN outcome = "UnknownMessageType"
            ELSE outcome = IF ending = "Io" THEN "Io" ELSE "Ok"
=============================================================================
