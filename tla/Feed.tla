-------------------------------- MODULE Feed --------------------------------
(***************************************************************************)
(* Execution reports from the matching thread (process_command of          *)
(* src/src/gateway.rs) to the subscriber of src/examples/subscriber.rs.    *)
(* A report is its seq_num, a u32 that wraps, and a serial number that     *)
(* tells reports apart (a history).  The datagrams in flight are a         *)
(* sequence: "Messages can be dropped, duplicated, or reordered."          *)
(* (SYSTEM_DESIGN.md, 7.2).  One session of the gateway is modelled; the   *)
(* next one numbers its reports from 1 again.                              *)
(***************************************************************************)
EXTENDS Integers, SequencesExt

CONSTANTS
    NumMod,       \* 2^32
    MaxReports,   \* bound: reports published
    MaxInFlight   \* bound: datagrams in the network

ASSUME FeedAssumption ==
    NumMod \in Nat \ {0, 1} /\ MaxReports \in Nat /\ MaxInFlight \in Nat

VARIABLES
    seqNum,       \* seq_num of matching_loop
    published,    \* number of reports so far
    network,      \* datagrams in flight
    expected,     \* expected_seq of the subscriber
    received,     \* history: the reports the subscriber printed
    missing,      \* history: sum of the gaps it announced
    gaps,         \* it has announced a gap
    inOrder       \* history: no datagram was repeated or overtaken

feedVars == <<seqNum, published, network, expected, received, missing, gaps, inOrder>>

subscriberVars == <<expected, received, missing, gaps>>

(* Bound: no report stays in flight for a turn of the counter, so that its *)
(* number would be expected again, and no turn of it is lost in a row.     *)
WithinOneTurn ==
    /\ \A i \in 1 .. Len(network) : published + 2 - network[i].serial < NumMod
    /\ published + 1 - (IF received = <<>> THEN 0 ELSE Max({r.serial : r \in ToSet(received)})) < NumMod

-----------------------------------------------------------------------------
(* Faulty variant: the number is used up only when the datagram is sent.   *)
PublishCountsSent ==
    LET n == (seqNum + 1) % NumMod
    IN  /\ published < MaxReports
        /\ WithinOneTurn
        /\ published' = published + 1
        /\ \/ /\ Len(network) < MaxInFlight
              /\ network' = Append(network, [num |-> n, serial |-> published + 1])
              /\ seqNum' = n
           \/ UNCHANGED <<network, seqNum>>
        /\ UNCHANGED <<subscriberVars, inOrder>>

(* Faulty variant: the number does not wrap.                               *)
PublishUnwrapped ==
    LET n == seqNum + 1
    IN  /\ published < MaxReports
        /\ WithinOneTurn
        /\ published' = published + 1
        /\ seqNum' = n
        /\ \/ /\ Len(network) < MaxInFlight
              /\ network' = Append(network, [num |-> n, serial |-> published + 1])
           \/ UNCHANGED network
        /\ UNCHANGED <<subscriberVars, inOrder>>

(* One fill of process_command: the number advances, then the report is    *)
(* sent; an error of send_to is dropped.                                   *)
Publish ==
    LET n == (seqNum + 1) % NumMod
    IN  /\ published < MaxReports
        /\ WithinOneTurn
        /\ published' = published + 1
        /\ seqNum' = n
        /\ \/ /\ Len(network) < MaxInFlight
              /\ network' = Append(network, [num |-> n, serial |-> published + 1])
           \/ UNCHANGED network
        /\ UNCHANGED <<subscriberVars, inOrder>>

Lose ==
    /\ \E i \in 1 .. Len(network) : network' = RemoveAt(network, i)
    /\ UNCHANGED <<seqNum, published, subscriberVars, inOrder>>

(* Bound: no more datagrams are made than reports may be published.        *)
Duplicate ==
    /\ Len(network) < MaxInFlight
    /\ Len(network) + Len(received) < MaxReports
    /\ \E i \in 1 .. Len(network) : network' = Append(network, network[i])
    /\ inOrder' = FALSE
    /\ UNCHANGED <<seqNum, published, subscriberVars>>

(* Faulty variant: a number below the expected one is no gap.              *)
ReceiveIgnoresLower(i) ==
    LET r == network[i]
    IN  /\ network' = RemoveAt(network, i)
        /\ received' = Append(received, r)
        /\ gaps' = (gaps \/ r.num > expected)
        /\ missing' = missing + ((r.num - expected) % NumMod)
        /\ expected' = (r.num + 1) % NumMod
        /\ inOrder' = (inOrder /\ i = 1)
        /\ UNCHANGED <<seqNum, published>>

(* The subscriber's loop: an unexpected number is announced as a gap of    *)
(* wrapping_sub reports, and the next number expected all the same.        *)
Receive(i) ==
    LET r == network[i]
    IN  /\ network' = RemoveAt(network, i)
        /\ received' = Append(received, r)
        /\ gaps' = (gaps \/ r.num # expected)
        /\ missing' = missing + ((r.num - expected) % NumMod)
        /\ expected' = (r.num + 1) % NumMod
        /\ inOrder' = (inOrder /\ i = 1)
        /\ UNCHANGED <<seqNum, published>>

FeedInit ==
    /\ seqNum = 0 /\ published = 0 /\ network = <<>> /\ inOrder = TRUE
    /\ expected = 1 /\ received = <<>> /\ missing = 0 /\ gaps = FALSE

FeedNext == Publish \/ Lose \/ Duplicate \/ \E i \in 1 .. Len(network) : Receive(i)

FeedSpec == FeedInit /\ [][FeedNext]_feedVars

-----------------------------------------------------------------------------
(* The counters are u32 values.                                            *)
FeedTypeOK ==
    /\ seqNum \in 0 .. NumMod - 1 /\ expected \in 0 .. NumMod - 1
    /\ Len(network) <= MaxInFlight
    /\ missing \in Nat

(* As long as the network only loses, the gaps the subscriber announces    *)
(* add up to the reports that were lost before the last one it has: failed *)
(* sends and lost datagrams alike, also across a wrap of the u32.          *)
GapsAreLosses ==
    inOrder /\ received # <<>> => missing = Last(received).serial - Len(received)

(* No loss, repetition or reordering goes unnoticed: a subscriber that has *)
(* announced no gap has printed all reports up to its last, once and in    *)
(* order.                                                                  *)
NoSilentLoss ==
    ~gaps => \A i \in 1 .. Len(received) : received[i].serial = i

=============================================================================
