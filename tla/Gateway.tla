------------------------------ MODULE Gateway ------------------------------
(***************************************************************************)
(* The two threads of src/src/gateway.rs and how they end: run with        *)
(* handle_client on the ingestion thread, matching_loop on the matching    *)
(* thread, the ring between them (module BoundedQueue, which the ring      *)
(* implements) and the shutdown flag.  Commands are numbered as they are   *)
(* read.  What processing a command does to engine, log and snapshots is   *)
(* the subject of module Persistence, its reports that of module Feed.     *)
(*                                                                         *)
(* Memory: a pop may miss commands whose push it does not yet see.  Of the *)
(* queue, the first `visible` are those the matching thread is bound to    *)
(* see; Empty can be answered only when there are none.  An Acquire load   *)
(* that reads the flag's Release store makes every earlier push visible.   *)
(***************************************************************************)
EXTENDS Naturals, Sequences

CONSTANTS
    RingCapacity,   \* ring_capacity
    MaxRequests     \* bound: commands a client sends

ASSUME GatewayAssumption == RingCapacity \in Nat \ {0} /\ MaxRequests \in Nat

VARIABLES
    ing,        \* ingestion thread: "start", "listen", "read", "push", "flag", "join", "exited"
    mat,        \* matching thread: "none", "pop", "check", "drain", "killed", "ended"
    busy,       \* the matching thread is in process_command
    read,       \* number of commands decoded
    queue,      \* the ring
    out,        \* the command the last successful pop returned
    visible,    \* how much of the ring the matching thread is bound to see
    shutdown,   \* the flag
    processed   \* number of commands processed

gwVars == <<ing, mat, busy, read, queue, out, visible, shutdown, processed>>

Ring == INSTANCE BoundedQueue WITH
            Items <- 1 .. MaxRequests, Slots <- RingCapacity, Nothing <- 0

ringVars == <<queue, out, visible>>
matVars == <<mat, busy, processed>>

-----------------------------------------------------------------------------
(* The ingestion thread                                                    *)

(* The report socket cannot be had: run returns before it has a second     *)
(* thread.                                                                 *)
StartFails ==
    /\ ing = "start"
    /\ ing' = "exited"
    /\ UNCHANGED <<matVars, read, ringVars, shutdown>>

SpawnMatching ==
    /\ ing = "start"
    /\ ing' = "listen"
    /\ mat' = "pop"
    /\ UNCHANGED <<busy, read, ringVars, shutdown, processed>>

(* bind or accept fails: run returns without setting the flag, and the end *)
(* of main ends the matching thread with the process.                      *)
ListenFails ==
    /\ ing = "listen"
    /\ ing' = "exited"
    /\ mat' = "killed"
    /\ UNCHANGED <<busy, read, ringVars, shutdown, processed>>

Accept ==
    /\ ing = "listen"
    /\ ing' = "read"
    /\ UNCHANGED <<matVars, read, ringVars, shutdown>>

(* A whole message has been read, decoded and stamped.                     *)
ReadCommand ==
    /\ ing = "read"
    /\ read < MaxRequests
    /\ read' = read + 1
    /\ ing' = "push"
    /\ UNCHANGED <<matVars, ringVars, shutdown>>

(* Faulty variant: the ring does not answer Full.                          *)
PushUnchecked ==
    /\ ing = "push"
    /\ queue' = Append(queue, read)
    /\ ing' = "read"
    /\ UNCHANGED <<matVars, read, out, visible, shutdown>>

(* Faulty variant: a command that finds the ring full is given up.         *)
PushGivesUp ==
    /\ ing = "push"
    /\ Ring!Enqueue(read) \/ (Len(queue) = RingCapacity /\ UNCHANGED <<queue, out>>)
    /\ ing' = "read"
    /\ UNCHANGED <<matVars, read, visible, shutdown>>

(* One turn of the push loop that succeeds; a Full one yields and repeats. *)
Push ==
    /\ ing = "push"
    /\ Ring!Enqueue(read)
    /\ ing' = "read"
    /\ UNCHANGED <<matVars, read, visible, shutdown>>

(* The client has left, or the stream or a message is bad: handle_client   *)
(* returns, with or without an error.                                      *)
ClientDone ==
    /\ ing = "read"
    /\ ing' = "flag"
    /\ UNCHANGED <<matVars, read, ringVars, shutdown>>

(* Faulty variant: the flag is left to handle_client, which sets it only   *)
(* when it returns Ok.                                                     *)
SetShutdownOnOk ==
    /\ ing = "flag"
    /\ shutdown' \in BOOLEAN
    /\ ing' = "join"
    /\ UNCHANGED <<matVars, read, ringVars>>

(* The flag is set by handle_client when it returns Ok, and by run         *)
(* whatever it returned.                                                   *)
SetShutdown ==
    /\ ing = "flag"
    /\ shutdown' = TRUE
    /\ ing' = "join"
    /\ UNCHANGED <<matVars, read, ringVars>>

Join ==
    /\ ing = "join"
    /\ mat = "ended"
    /\ ing' = "exited"
    /\ UNCHANGED <<matVars, read, ringVars, shutdown>>

-----------------------------------------------------------------------------
(* The matching thread                                                     *)

Pop ==
    /\ mat \in {"pop", "drain"} /\ ~busy
    /\ Ring!Dequeue
    /\ visible' = IF visible = 0 THEN 0 ELSE visible - 1
    /\ busy' = TRUE
    /\ UNCHANGED <<ing, mat, read, shutdown, processed>>

(* process_command returns.                                                *)
Process ==
    /\ busy
    /\ busy' = FALSE
    /\ processed' = processed + 1
    /\ UNCHANGED <<ing, mat, read, ringVars, shutdown>>

PopEmpty ==
    /\ mat = "pop" /\ ~busy
    /\ visible = 0
    /\ mat' = "check"
    /\ UNCHANGED <<ing, busy, read, ringVars, shutdown, processed>>

(* The load of the flag returns false: it is not set, or the store has not *)
(* become visible.                                                         *)
SeeNoShutdown ==
    /\ mat = "check"
    /\ mat' = "pop"
    /\ UNCHANGED <<ing, busy, read, ringVars, shutdown, processed>>

(* Faulty variant: a Relaxed load of the flag.                             *)
SeeShutdownRelaxed ==
    /\ mat = "check"
    /\ shutdown
    /\ mat' = "drain"
    /\ UNCHANGED <<ing, busy, read, ringVars, shutdown, processed>>

(* Faulty variant: the loop breaks without draining.                       *)
SeeShutdownBreaks ==
    /\ mat = "check"
    /\ shutdown
    /\ mat' = "ended"
    /\ UNCHANGED <<ing, busy, read, ringVars, shutdown, processed>>

(* Faulty variant: the flag is not looked at.                              *)
SeeShutdownUnset ==
    /\ mat = "check"
    /\ mat' = "drain"
    /\ visible' = Len(queue)
    /\ UNCHANGED <<ing, busy, read, queue, out, shutdown, processed>>

(* It returns true.                                                        *)
SeeShutdown ==
    /\ mat = "check"
    /\ shutdown
    /\ mat' = "drain"
    /\ visible' = Len(queue)
    /\ UNCHANGED <<ing, busy, read, queue, out, shutdown, processed>>

DrainEmpty ==
    /\ mat = "drain" /\ ~busy
    /\ visible = 0
    /\ mat' = "ended"
    /\ UNCHANGED <<ing, busy, read, ringVars, shutdown, processed>>

Exited == ing = "exited" /\ UNCHANGED gwVars

GwInit ==
    /\ ing = "start" /\ mat = "none" /\ busy = FALSE
    /\ read = 0 /\ processed = 0
    /\ queue = <<>> /\ out = 0 /\ visible = 0
    /\ shutdown = FALSE

Ingestion ==
    \/ StartFails \/ SpawnMatching \/ ListenFails \/ Accept
    \/ ReadCommand \/ Push \/ ClientDone \/ SetShutdown \/ Join

MatchingLoop ==
    \/ Pop \/ Process \/ PopEmpty \/ SeeNoShutdown \/ SeeShutdown \/ DrainEmpty

GwNext == Ingestion \/ (ing # "exited" /\ MatchingLoop) \/ Exited

GwSpec == GwInit /\ [][GwNext]_gwVars

(* Both threads are scheduled; the client need neither send nor leave.  A  *)
(* store that a loop keeps looking for is seen some time.                  *)
GwLiveSpec ==
    /\ GwSpec
    /\ WF_gwVars(Push) /\ WF_gwVars(SetShutdown) /\ WF_gwVars(Join)
    /\ WF_gwVars(Process) /\ WF_gwVars(PopEmpty) /\ WF_gwVars(SeeNoShutdown) /\ WF_gwVars(DrainEmpty)
    /\ SF_gwVars(Pop) /\ SF_gwVars(SeeShutdown)

-----------------------------------------------------------------------------
(* The program counters and the flag agree, and the ring is never over its *)
(* capacity nor seen longer than it is.                                    *)
GwTypeOK ==
    /\ ing \in {"start", "listen", "read", "push", "flag", "join", "exited"}
    /\ mat \in {"none", "pop", "check", "drain", "killed", "ended"}
    /\ busy \in BOOLEAN /\ shutdown \in BOOLEAN
    /\ read \in 0 .. MaxRequests /\ processed \in Nat /\ out \in 0 .. MaxRequests
    /\ queue \in Seq(1 .. MaxRequests) /\ Len(queue) <= RingCapacity
    /\ visible \in 0 .. Len(queue)

(* Every command read is at one place: processed, in process_command, in   *)
(* the ring or in the push loop, and the ring holds them in the order they *)
(* were read.  Full rings, stale reads of the cursors and the change from  *)
(* loop to drain lose, repeat and overtake none.                           *)
EachCommandOnce ==
    LET taken == processed + (IF busy THEN 1 ELSE 0)
    IN  /\ read = taken + Len(queue) + (IF ing = "push" THEN 1 ELSE 0)
        /\ \A i \in 1 .. Len(queue) : queue[i] = taken + i
        /\ busy => out = processed + 1

(* "Drain remaining commands": when the matching thread has ended, every   *)
(* command that was read has been processed, although the ring was found   *)
(* empty before the flag was found set and pushes came in between.         *)
NothingLeftBehind == mat = "ended" => queue = <<>> /\ ~busy /\ processed = read

(* The matching thread does not end while the ingestion thread may still   *)
(* push: a full ring always has someone to empty it.                       *)
MatcherOutlivesPushes == mat = "ended" => ing \in {"join", "exited"}

(* Backpressure delays a command and never drops it ("Inbound orders are   *)
(* delayed, not dropped"): every command read is processed in the end.     *)
EveryCommandProcessed ==
    \A k \in 1 .. MaxRequests : (read >= k) ~> (processed >= k)

(* When the client is gone, whatever made it go, run returns: the flag is  *)
(* set, the ring is drained, the thread joined.                            *)
ClientGoneEndsRun == (ing = "flag") ~> (ing = "exited")
=============================================================================
