-------------------------------- MODULE Ring --------------------------------
(***************************************************************************)
(* The single-producer single-consumer ring of src/src/ring.rs, one step   *)
(* per memory access.                                                      *)
(*                                                                         *)
(* The two cursors are atomics under release/acquire ordering.  Such a     *)
(* location is the sequence of the messages stored to it; a load may       *)
(* return any message not older than the last one its thread has seen, so  *)
(* cursors may look stale.  A Release store attaches the number of slot    *)
(* accesses its thread has made; an Acquire load learns that number.  The  *)
(* slots are plain memory: an access that does not happen after the other  *)
(* thread's last access to the slot is a data race.                        *)
(*                                                                         *)
(* Items are numbered in the order they are pushed.                        *)
(***************************************************************************)
EXTENDS Integers, Sequences

CONSTANTS
    Capacity,     \* a power of two
    CursorMod,    \* 2^64: cursors wrap
    MaxItems      \* bound: items pushed in one behaviour

ASSUME RingAssumption ==
    /\ Capacity \in Nat \ {0}
    /\ CursorMod \in Nat
    /\ Capacity < CursorMod
    /\ CursorMod % Capacity = 0      \* both are powers of two
    /\ MaxItems \in Nat

VARIABLES
    headLog, tailLog,    \* the messages stored to head and to tail
    buffer,              \* slot -> item
    lastWrite, lastRead, \* slot -> number of the last write and read of it
    prod,                \* the Producer, and where its thread is in push
    cons,                \* the Consumer, and where its thread is in pop
    freed                \* the items dropped with the buffer

ringVars == <<headLog, tailLog, buffer, lastWrite, lastRead, prod, cons, freed>>

Uninit == -1

Slot(cursor) == cursor % Capacity              \* cursor & mask

(* Faulty variant: cursors do not wrap.                                    *)
WrappingAddUnbounded(x, y) == x + y

WrappingAdd(x, y) == (x + y) % CursorMod
WrappingSub(x, y) == (x - y + CursorMod) % CursorMod

Message(val, view) == [val |-> val, view |-> view]
-----------------------------------------------------------------------------
(* ring_buffer(capacity)                                                   *)
RingInit ==
    /\ headLog = <<Message(0, 0)>>
    /\ tailLog = <<Message(0, 0)>>
    /\ buffer = [i \in 0 .. Capacity - 1 |-> Uninit]
    /\ lastWrite = [i \in 0 .. Capacity - 1 |-> 0]
    /\ lastRead = [i \in 0 .. Capacity - 1 |-> 0]
    \* seen: newest message seen of the other cursor; knows: accesses of the
    \* other thread that happen before now; done: own slot accesses
    /\ prod = [pc |-> "idle", cachedHead |-> 0, cachedTail |-> 0,
               seen |-> 1, knows |-> 0, done |-> 0]
    /\ cons = [pc |-> "idle", cachedHead |-> 0, cachedTail |-> 0,
               seen |-> 1, knows |-> 0, done |-> 0, value |-> Uninit, out |-> Uninit]
    /\ freed = <<>>

(* Number of items pushed, and popped, so far.                             *)
Pushed == Len(headLog) - 1
Popped == Len(tailLog) - 1

(* Faulty variant: Relaxed instead of Acquire.                             *)
AcquireRelaxed(thread, msg, n) == [thread EXCEPT !.seen = n]

(* An Acquire load of the n-th message by a thread.                        *)
Acquire(thread, msg, n) ==
    [thread EXCEPT !.seen = n, !.knows = IF @ < msg.view THEN msg.view ELSE @]

(* Faulty variant: one item too many.                                      *)
LooksFullLate(p) == WrappingSub(p.cachedHead, p.cachedTail) = Capacity + 1

LooksFull(p) == WrappingSub(p.cachedHead, p.cachedTail) = Capacity

LooksEmpty(c) == c.cachedTail = c.cachedHead
-----------------------------------------------------------------------------
(* Producer::push                                                          *)
PushStart ==
    /\ prod.pc = "idle"
    /\ Pushed < MaxItems
    /\ prod' = [prod EXCEPT !.pc = IF LooksFull(prod) THEN "load" ELSE "write"]
    /\ UNCHANGED <<headLog, tailLog, buffer, lastWrite, lastRead, cons, freed>>

(* Faulty variant: cached_tail is not updated.                             *)
PushLoadTailForgets(n) ==
    /\ prod.pc = "load"
    /\ n \in prod.seen .. Len(tailLog)
    /\ LET p == Acquire(prod, tailLog[n], n)
       IN  prod' = [p EXCEPT !.pc = IF LooksFull(p) THEN "idle" ELSE "write"]
    /\ UNCHANGED <<headLog, tailLog, buffer, lastWrite, lastRead, cons, freed>>

(* Err(Full) goes back to the caller, who tries again.                     *)
PushLoadTail(n) ==
    /\ prod.pc = "load"
    /\ n \in prod.seen .. Len(tailLog)
    /\ LET p == [Acquire(prod, tailLog[n], n) EXCEPT !.cachedTail = tailLog[n].val]
       IN  prod' = [p EXCEPT !.pc = IF LooksFull(p) THEN "idle" ELSE "write"]
    /\ UNCHANGED <<headLog, tailLog, buffer, lastWrite, lastRead, cons, freed>>

PushWrite ==
    /\ prod.pc = "write"
    /\ buffer' = [buffer EXCEPT ![Slot(prod.cachedHead)] = Pushed]
    /\ lastWrite' = [lastWrite EXCEPT ![Slot(prod.cachedHead)] = prod.done + 1]
    /\ prod' = [prod EXCEPT !.done = @ + 1, !.pc = "store"]
    /\ UNCHANGED <<headLog, tailLog, lastRead, cons, freed>>

PushStoreHead ==
    /\ prod.pc = "store"
    /\ headLog' = Append(headLog, Message(WrappingAdd(prod.cachedHead, 1), prod.done))
    /\ prod' = [prod EXCEPT !.cachedHead = WrappingAdd(@, 1), !.pc = "idle"]
    /\ UNCHANGED <<tailLog, buffer, lastWrite, lastRead, cons, freed>>
-----------------------------------------------------------------------------
(* Consumer::pop                                                           *)
PopStart ==
    /\ cons.pc = "idle"
    /\ cons' = [cons EXCEPT !.pc = IF LooksEmpty(cons) THEN "load" ELSE "read"]
    /\ UNCHANGED <<headLog, tailLog, buffer, lastWrite, lastRead, prod, freed>>

PopLoadHead(n) ==
    /\ cons.pc = "load"
    /\ n \in cons.seen .. Len(headLog)
    /\ LET c == [Acquire(cons, headLog[n], n) EXCEPT !.cachedHead = headLog[n].val]
       IN  cons' = [c EXCEPT !.pc = IF LooksEmpty(c) THEN "idle" ELSE "read"]
    /\ UNCHANGED <<headLog, tailLog, buffer, lastWrite, lastRead, prod, freed>>

PopRead ==
    /\ cons.pc = "read"
    /\ lastRead' = [lastRead EXCEPT ![Slot(cons.cachedTail)] = cons.done + 1]
    /\ cons' = [cons EXCEPT !.value = buffer[Slot(cons.cachedTail)],
                            !.done = @ + 1, !.pc = "store"]
    /\ UNCHANGED <<headLog, tailLog, buffer, lastWrite, prod, freed>>

PopStoreTail ==
    /\ cons.pc = "store"
    /\ tailLog' = Append(tailLog, Message(WrappingAdd(cons.cachedTail, 1), cons.done))
    /\ cons' = [cons EXCEPT !.cachedTail = WrappingAdd(@, 1), !.out = cons.value,
                            !.value = Uninit, !.pc = "idle"]
    /\ UNCHANGED <<headLog, buffer, lastWrite, lastRead, prod, freed>>
-----------------------------------------------------------------------------
(* Either handle may be dropped between two calls; the second drop frees   *)
(* the buffer (Arc), and Drop visits the slots from tail to head.          *)
DropProducer ==
    /\ prod.pc = "idle"
    /\ prod' = [prod EXCEPT !.pc = "dropped"]
    /\ UNCHANGED <<headLog, tailLog, buffer, lastWrite, lastRead, cons, freed>>

DropConsumer ==
    /\ cons.pc = "idle"
    /\ cons' = [cons EXCEPT !.pc = "dropped"]
    /\ UNCHANGED <<headLog, tailLog, buffer, lastWrite, lastRead, prod, freed>>

(* Faulty variant: the last item is leaked.                                *)
DropVisitsOneLess(head, tail) ==
    [k \in 1 .. (WrappingSub(head, tail) - 1) |-> buffer[Slot(WrappingAdd(tail, k - 1))]]

DropVisits(head, tail) ==
    [k \in 1 .. WrappingSub(head, tail) |-> buffer[Slot(WrappingAdd(tail, k - 1))]]

DropBuffer ==
    /\ prod.pc = "dropped" /\ cons.pc = "dropped"
    /\ freed' = DropVisits(headLog[Len(headLog)].val, tailLog[Len(tailLog)].val)
    /\ prod' = [prod EXCEPT !.pc = "freed"]
    /\ cons' = [cons EXCEPT !.pc = "freed"]
    /\ UNCHANGED <<headLog, tailLog, buffer, lastWrite, lastRead>>

Push == PushStart \/ (\E n \in 1 .. Len(tailLog) : PushLoadTail(n)) \/ PushWrite \/ PushStoreHead

Pop == PopStart \/ (\E n \in 1 .. Len(headLog) : PopLoadHead(n)) \/ PopRead \/ PopStoreTail

RingNext == Push \/ Pop \/ DropProducer \/ DropConsumer \/ DropBuffer

RingSpec == RingInit /\ [][RingNext]_ringVars

(* While both handles are in use, the ingestion thread repeats a push      *)
(* until it succeeds and the matching thread pops for ever.  Both threads  *)
(* run, and a load that is repeated for ever does not for ever return a    *)
(* stale message (the "finite period of time" of the atomics' memory       *)
(* model).                                                                 *)
RingLiveSpec ==
    /\ RingSpec
    /\ WF_ringVars(Push)
    /\ WF_ringVars(Pop)
    /\ SF_ringVars(PushLoadTail(Len(tailLog)))
    /\ SF_ringVars(PopLoadHead(Len(headLog)))
-----------------------------------------------------------------------------
Cursors == 0 .. CursorMod - 1

(* Cursors, cached cursors and slots stay in their types, and every index  *)
(* is a slot of the buffer.                                                *)
RingTypeOK ==
    /\ headLog \in Seq([val : Cursors, view : Nat])
    /\ tailLog \in Seq([val : Cursors, view : Nat])
    /\ buffer \in [0 .. Capacity - 1 -> Nat \cup {Uninit}]
    /\ lastWrite \in [0 .. Capacity - 1 -> Nat]
    /\ lastRead \in [0 .. Capacity - 1 -> Nat]
    /\ prod \in [pc : {"idle", "load", "write", "store", "dropped", "freed"},
                  cachedHead : Cursors, cachedTail : Cursors,
                  seen : 1 .. Len(tailLog), knows : Nat, done : Nat]
    /\ cons \in [pc : {"idle", "load", "read", "store", "dropped", "freed"},
                  cachedHead : Cursors, cachedTail : Cursors,
                  seen : 1 .. Len(headLog), knows : Nat, done : Nat,
                  value : Nat \cup {Uninit}, out : Nat \cup {Uninit}]

(* "each slot is exclusively accessed by one side at a time": a thread at  *)
(* its slot access happens after the other side's last access to the slot, *)
(* and the two are never at the same slot together, whatever stale cursor  *)
(* values the loads returned and however often the cursors have wrapped.   *)
NoDataRace ==
    /\ prod.pc = "write" => lastRead[Slot(prod.cachedHead)] <= prod.knows
    /\ cons.pc = "read" => lastWrite[Slot(cons.cachedTail)] <= cons.knows
    /\ prod.pc = "write" /\ cons.pc = "read" => Slot(prod.cachedHead) # Slot(cons.cachedTail)

(* assume_init_drop runs on exactly the items pushed and never popped:     *)
(* nothing is leaked, dropped twice or dropped uninitialized.              *)
DropFreesTheRest ==
    prod.pc = "freed" => freed = [k \in 1 .. (Pushed - Popped) |-> Popped + k - 1]

(* What the queue holds.                                                   *)
Contents ==
    IF prod.pc = "freed" THEN <<>>
    ELSE [k \in 1 .. (Pushed - Popped) |-> buffer[Slot(tailLog[Len(tailLog)].val + (k - 1))]]

(* The ring is a FIFO queue of Capacity items.  A push takes effect with   *)
(* its store of head, a pop with its store of tail.                        *)
Queue == INSTANCE BoundedQueue WITH
    Items <- 0 .. MaxItems,
    Slots <- Capacity,
    Nothing <- Uninit,
    queue <- Contents,
    out   <- cons.out

ImplementsQueue == Queue!QueueSpec

(* Neither thread waits for ever on the other's cursor: with backpressure, *)
(* stale loads and wrapping cursors, every item gets through, unless a     *)
(* handle is dropped.                                                      *)
EveryItemGetsThrough ==
    <>(Popped = MaxItems \/ {prod.pc, cons.pc} \cap {"dropped", "freed"} # {})
=============================================================================
