----------------------------- MODULE RingProofs -----------------------------
(***************************************************************************)
(* The ring of src/src/ring.rs is free of data races and is a FIFO queue,  *)
(* for every capacity, cursor width and number of items.                   *)
(*                                                                         *)
(* First its cursor arithmetic. A cursor stands for the number of items    *)
(* pushed or popped, which it keeps modulo CursorMod; what push, pop and   *)
(* drop compute from cursors is what they would compute from the numbers.  *)
(***************************************************************************)
EXTENDS Ring, CommonLemmas

(* The cursor that stands for the number n.                                *)
Cursor(n) == n % CursorMod

-----------------------------------------------------------------------------
(* What ring_buffer's assertion on the capacity and the width of the       *)
(* cursors give.                                                           *)
LEMMA Constants ==
    /\ Capacity \in Nat \ {0} /\ CursorMod \in Nat \ {0} /\ Capacity < CursorMod
    /\ Rem(CursorMod, Capacity) = 0 /\ Rem(CursorMod, CursorMod) = 0
<1>1. Capacity \in Nat \ {0} /\ CursorMod \in Nat \ {0} /\ Capacity < CursorMod
  BY RingAssumption
<1>2. CursorMod % CursorMod = 0
  BY <1>1
<1>. QED
  BY <1>1, <1>2, RingAssumption DEF Rem

(* Cursors and slots are in their ranges.                                  *)
LEMMA CursorTypes ==
    ASSUME NEW n \in Nat
    PROVE  Cursor(n) \in Cursors /\ Cursor(n) \in Nat /\ Slot(n) \in 0 .. Capacity - 1
BY Constants DEF Cursor, Cursors, Slot

(* Cursors that have not wrapped are the numbers themselves.               *)
LEMMA SmallCursor ==
    ASSUME NEW n \in Nat, n < CursorMod
    PROVE  Cursor(n) = n
BY Constants DEF Cursor

(* wrapping_add counts one up.                                             *)
LEMMA CursorAdd ==
    ASSUME NEW n \in Nat, NEW k \in Nat
    PROVE  WrappingAdd(Cursor(n), k) = Cursor(n + k)
<1>1. Rem(Rem(n, CursorMod) + k, CursorMod) = Rem(n + k, CursorMod)
  BY Constants, RemainderOfSum
<1>. QED
  BY <1>1 DEF WrappingAdd, Cursor, Rem

(* wrapping_sub gives the distance of cursors that are less than a turn    *)
(* apart.                                                                  *)
LEMMA CursorSub ==
    ASSUME NEW a \in Nat, NEW b \in Nat, a <= b, b - a <= Capacity
    PROVE  WrappingSub(Cursor(b), Cursor(a)) = b - a
<1>1. PICK m \in Nat \ {0} : m = CursorMod
  BY Constants
<1>2. PICK ra \in 0 .. m - 1 : ra = a % m
  BY SMT
<1>3. PICK rb \in 0 .. m - 1 : rb = b % m
  BY SMT
<1>4. PICK qa \in Nat : a = m * qa + ra
  BY <1>2, Division, Zenon
<1>5. PICK qb \in Nat : b = m * qb + rb
  BY <1>3, Division, Zenon
<1>6. PICK q \in Int : q = qa - qb
  OBVIOUS
<1>7. m * q = m * qa - m * qb /\ m * qa \in Int /\ m * qb \in Int
  BY <1>6, Distributes
<1>8. m * (q + 1) = m * q + m
  <2>1. m * (q + 1) = m * q + m * 1
    BY Distributes
  <2>. QED
    BY <2>1
<1>9. rb - ra + m = m * (q + 1) + (b - a)
  BY <1>4, <1>5, <1>7, <1>8
<1>10. q + 1 \in Int /\ b - a \in 0 .. m - 1 /\ rb - ra + m \in Int
  BY <1>1, Constants
<1>11. (rb - ra + m) % m = b - a
  BY <1>9, <1>10, RemainderUnique, Zenon
<1>. QED
  BY <1>1, <1>2, <1>3, <1>11, Zenon DEF WrappingSub, Cursor

(* Cursors less than a turn apart that look equal are equal.               *)
LEMMA CursorEqual ==
    ASSUME NEW a \in Nat, NEW b \in Nat, a <= b, b - a < CursorMod, Cursor(a) = Cursor(b)
    PROVE  a = b
<1>1. a < b => a + CursorMod <= b
  BY Constants, SameRemainderApart, Zenon DEF Cursor
<1>. QED
  BY <1>1, Constants

(* cursor & mask is the slot of the number: the capacity divides 2^64.     *)
LEMMA SlotOfCursor ==
    ASSUME NEW n \in Nat, NEW k \in Nat
    PROVE  Slot(Cursor(n) + k) = Slot(n + k) /\ Slot(Cursor(n)) = Slot(n)
<1>1. \A j \in Nat : Rem(Rem(n, CursorMod) + j, Capacity) = Rem(n + j, Capacity)
  BY Constants, RemainderOfSum
<1>2. n % CursorMod \in Nat
  BY Constants
<1>3. (n % CursorMod) % Capacity = n % Capacity
  BY <1>1, <1>2 DEF Rem
<1>. QED
  BY <1>1, <1>3 DEF Slot, Cursor, Rem

(* Items that share a slot are at least the capacity apart.                *)
LEMMA SlotApart ==
    ASSUME NEW a \in Nat, NEW b \in Nat, a < b, Slot(a) = Slot(b)
    PROVE  a + Capacity <= b
BY Constants, SameRemainderApart, Zenon DEF Slot
-----------------------------------------------------------------------------
(* The n-th message stored to a cursor stands for n - 1 items, and was     *)
(* stored after n - 1 slot accesses.                                       *)
CursorLog(log) ==
    /\ Len(log) \in Nat \ {0}
    /\ \A n \in 1 .. Len(log) : log[n].val = Cursor(n - 1) /\ log[n].view = n - 1

ProducerInv ==
    /\ prod.cachedHead = Cursor(Pushed)
    /\ prod.cachedTail = Cursor(prod.seen - 1)
    /\ prod.knows = prod.seen - 1
    /\ prod.done = IF prod.pc = "store" THEN Pushed + 1 ELSE Pushed
    /\ Pushed - (prod.seen - 1) <= Capacity
    /\ prod.pc \in {"write", "store"} => Pushed - (prod.seen - 1) < Capacity
    /\ Pushed <= MaxItems
    /\ prod.pc \in {"load", "write", "store"} => Pushed < MaxItems

ConsumerInv ==
    /\ cons.cachedTail = Cursor(Popped)
    /\ cons.cachedHead = Cursor(cons.seen - 1)
    /\ cons.knows = cons.seen - 1
    /\ cons.done = IF cons.pc = "store" THEN Popped + 1 ELSE Popped
    /\ Popped <= cons.seen - 1
    /\ cons.pc \in {"read", "store"} => Popped < cons.seen - 1
    /\ cons.pc = "store" => cons.value = Popped

(* The k-th access of either side is to the slot of item k - 1, and the    *)
(* items written and not popped are in their slots.                        *)
SlotInv ==
    /\ \A i \in 0 .. Capacity - 1 :
          /\ lastWrite[i] <= prod.done
          /\ lastWrite[i] # 0 => Slot(lastWrite[i] - 1) = i
          /\ lastRead[i] <= cons.done
          /\ lastRead[i] # 0 => Slot(lastRead[i] - 1) = i
    /\ \A k \in Nat : Popped <= k /\ k < prod.done => buffer[Slot(k)] = k

RingInv ==
    /\ RingTypeOK
    /\ CursorLog(headLog) /\ CursorLog(tailLog)
    /\ ProducerInv
    /\ ConsumerInv
    /\ SlotInv
    /\ prod.pc = "freed" <=> cons.pc = "freed"
    /\ DropFreesTheRest
-----------------------------------------------------------------------------
(* What the two sides' views of each other add up to.                      *)
LEMMA Distances ==
    ASSUME RingInv
    PROVE  /\ Pushed \in Nat /\ Popped \in Nat
           /\ prod.seen \in Nat \ {0} /\ cons.seen \in Nat \ {0}
           /\ prod.seen - 1 <= Popped
           /\ Popped <= cons.seen - 1
           /\ cons.seen - 1 <= Pushed
           /\ Pushed - Popped <= Capacity
           /\ prod.pc \in {"write", "store"} => Pushed - Popped < Capacity
           /\ cons.pc \in {"read", "store"} => Popped < Pushed
           /\ Capacity \in Nat \ {0} /\ CursorMod \in Nat /\ Capacity < CursorMod
<1>1. Len(headLog) \in Nat \ {0} /\ Len(tailLog) \in Nat \ {0}
  BY DEF RingInv, CursorLog
<1>2. prod.seen \in 1 .. Len(tailLog) /\ cons.seen \in 1 .. Len(headLog)
  BY DEF RingInv, RingTypeOK
<1>3. Pushed \in Nat /\ Popped \in Nat /\ prod.seen - 1 <= Popped /\ cons.seen - 1 <= Pushed
  BY <1>1, <1>2 DEF Pushed, Popped
<1>4. Pushed - (prod.seen - 1) <= Capacity /\ Popped <= cons.seen - 1
  BY DEF RingInv, ProducerInv, ConsumerInv
<1>5. /\ prod.pc \in {"write", "store"} => Pushed - (prod.seen - 1) < Capacity
      /\ cons.pc \in {"read", "store"} => Popped < cons.seen - 1
  BY DEF RingInv, ProducerInv, ConsumerInv
<1>6. Capacity \in Nat \ {0} /\ CursorMod \in Nat /\ Capacity < CursorMod
  BY Constants
<1>7. prod.seen \in Nat \ {0} /\ cons.seen \in Nat \ {0}
  BY <1>1, <1>2
<1>. QED
  BY <1>3, <1>4, <1>5, <1>6, <1>7

(* cached_head - cached_tail equals the capacity exactly when the ring is  *)
(* as full as the producer can tell.                                       *)
LEMMA FullWhenFar ==
    ASSUME RingInv, NEW p, NEW n \in 1 .. Len(tailLog), n >= prod.seen,
           p.cachedHead = Cursor(Pushed), p.cachedTail = Cursor(n - 1)
    PROVE  LooksFull(p) <=> Pushed - (n - 1) = Capacity
<1>1. n - 1 \in Nat /\ n - 1 <= Pushed /\ Pushed \in Nat /\ Pushed - (n - 1) <= Capacity
  <2>1. Len(tailLog) \in Nat /\ Pushed - (prod.seen - 1) <= Capacity
    BY DEF RingInv, ProducerInv, CursorLog
  <2>2. n \in Nat \ {0} /\ n - 1 <= Popped
    BY <2>1 DEF Popped
  <2>3. /\ Pushed \in Nat /\ Popped \in Nat /\ Popped <= Pushed
        /\ prod.seen \in Nat /\ Capacity \in Nat
    BY Distances, SMTT(30)
  <2>. QED
    BY <2>1, <2>2, <2>3
<1>2. WrappingSub(Cursor(Pushed), Cursor(n - 1)) = Pushed - (n - 1)
  BY <1>1, CursorSub
<1>. QED
  BY <1>2 DEF LooksFull

(* The cached cursors are equal exactly when the consumer has popped all   *)
(* it knows of.                                                            *)
LEMMA EmptyWhenEqual ==
    ASSUME RingInv, NEW c, NEW n \in 1 .. Len(headLog), n >= cons.seen,
           c.cachedTail = Cursor(Popped), c.cachedHead = Cursor(n - 1)
    PROVE  LooksEmpty(c) <=> n - 1 = Popped
<1>1. n - 1 \in Nat /\ Popped \in Nat /\ Popped <= n - 1 /\ n - 1 - Popped < CursorMod
  <2>1. Len(headLog) \in Nat
    BY DEF RingInv, CursorLog
  <2>2. n \in Nat \ {0} /\ n - 1 <= Pushed
    BY <2>1 DEF Pushed
  <2>3. /\ Pushed \in Nat /\ Popped \in Nat /\ Popped <= cons.seen - 1
        /\ Pushed - Popped <= Capacity /\ cons.seen \in Nat
        /\ Capacity \in Nat /\ CursorMod \in Nat /\ Capacity < CursorMod
    BY Distances
  <2>. QED
    BY <2>2, <2>3
<1>2. Cursor(Popped) = Cursor(n - 1) => n - 1 = Popped
  BY <1>1, CursorEqual
<1>. QED
  BY <1>2 DEF LooksEmpty

(* A side at its slot access happens after the other side's accesses to    *)
(* the slot: see NoDataRace.                                               *)
LEMMA InvNoRace == RingInv => NoDataRace
<1>. SUFFICES ASSUME RingInv PROVE NoDataRace
  OBVIOUS
<1>. DEFINE s == Slot(Pushed)  t == Slot(Popped)
<1>1. /\ Slot(prod.cachedHead) = s /\ s \in 0 .. Capacity - 1
      /\ Slot(cons.cachedTail) = t /\ t \in 0 .. Capacity - 1
  BY Distances, SlotOfCursor, CursorTypes DEF RingInv, ProducerInv, ConsumerInv
<1>2. ASSUME prod.pc = "write"
      PROVE  lastRead[s] <= prod.knows
  <2>1. lastRead[s] \in Nat
    BY <1>1 DEF RingInv, RingTypeOK
  <2>2. SUFFICES ASSUME lastRead[s] > prod.knows PROVE FALSE
    BY <2>1, Distances DEF RingInv, ProducerInv
  <2>. DEFINE r == lastRead[s] - 1
  <2>3. r \in Nat /\ Slot(r) = s /\ r < Pushed /\ prod.seen - 1 <= r
    BY <2>1, <2>2, <1>1, Distances DEF RingInv, ProducerInv, ConsumerInv, SlotInv
  <2>. HIDE DEF r
  <2>4. r + Capacity <= Pushed
    BY <2>3, Distances, SlotApart
  <2>. QED
    BY <1>2, <2>3, <2>4, Distances DEF RingInv, ProducerInv
<1>3. ASSUME cons.pc = "read"
      PROVE  lastWrite[t] <= cons.knows
  <2>1. lastWrite[t] \in Nat
    BY <1>1 DEF RingInv, RingTypeOK
  <2>2. SUFFICES ASSUME lastWrite[t] > cons.knows PROVE FALSE
    BY <2>1, Distances DEF RingInv, ConsumerInv
  <2>. DEFINE w == lastWrite[t] - 1
  <2>3. w \in Nat /\ Slot(w) = t /\ Popped < w /\ w < prod.done
    <3>1. lastWrite[t] <= prod.done /\ prod.done \in Nat /\ cons.knows = cons.seen - 1
      BY <1>1 DEF RingInv, RingTypeOK, ConsumerInv, SlotInv
    <3>2. Popped < cons.seen - 1
      BY <1>3 DEF RingInv, ConsumerInv
    <3>3. w \in Nat /\ Popped < w /\ w < prod.done
      BY <2>1, <2>2, <3>1, <3>2, Distances
    <3>4. Slot(w) = t
      BY <1>1, <3>3, Distances DEF RingInv, SlotInv
    <3>. QED
      BY <3>3, <3>4
  <2>. HIDE DEF w
  <2>4. Popped + Capacity <= w
    BY <2>3, Distances, SlotApart
  <2>. QED
    BY <2>3, <2>4, Distances DEF RingInv, ProducerInv
<1>4. ASSUME prod.pc = "write", cons.pc = "read" PROVE s # t
  BY <1>4, Distances, SlotApart
<1>. QED
  BY <1>1, <1>2, <1>3, <1>4 DEF NoDataRace
-----------------------------------------------------------------------------
(* A fresh ring satisfies the invariant.                                   *)
LEMMA InitInv == RingInit => RingInv
<1>. SUFFICES ASSUME RingInit PROVE RingInv
  OBVIOUS
<1>1. Cursor(0) = 0 /\ 0 \in Cursors /\ CursorMod \in Nat /\ Capacity \in Nat \ {0}
  BY SmallCursor, Constants DEF Cursors
<1>2. RingTypeOK
  BY <1>1 DEF RingInit, RingTypeOK, Message
<1>3. CursorLog(headLog) /\ CursorLog(tailLog)
  BY <1>1 DEF RingInit, CursorLog, Message
<1>4. Pushed = 0 /\ Popped = 0
  BY DEF RingInit, Pushed, Popped
<1>5. ProducerInv /\ ConsumerInv
  BY <1>1, <1>4, RingAssumption DEF RingInit, ProducerInv, ConsumerInv
<1>6. SlotInv
  BY <1>1, <1>4 DEF RingInit, SlotInv
<1>. QED
  BY <1>2, <1>3, <1>5, <1>6 DEF RingInv, RingInit, DropFreesTheRest
-----------------------------------------------------------------------------
(* push compares the cached cursors.                                       *)
LEMMA PushStartInv == RingInv /\ PushStart => RingInv'
<1>. SUFFICES ASSUME RingInv, PushStart PROVE RingInv'
  OBVIOUS
<1>. USE DEF PushStart
<1>1. LooksFull(prod) <=> Pushed - (prod.seen - 1) = Capacity
  <2>1. prod.seen \in 1 .. Len(tailLog) /\ prod.seen >= prod.seen
    BY Distances DEF RingInv, RingTypeOK
  <2>2. prod.cachedHead = Cursor(Pushed) /\ prod.cachedTail = Cursor(prod.seen - 1)
    BY DEF RingInv, ProducerInv
  <2>. QED
    BY <2>1, <2>2, FullWhenFar, Zenon
<1>2. RingTypeOK'
  BY Zenon DEF RingInv, RingTypeOK
<1>3. /\ prod' = [prod EXCEPT !.pc = prod'.pc] /\ prod'.pc \in {"load", "write"}
      /\ prod'.pc = "write" => Pushed - (prod.seen - 1) < Capacity
  <2>1. prod'.pc = IF LooksFull(prod) THEN "load" ELSE "write"
    BY DEF RingInv, RingTypeOK
  <2>2. Pushed - (prod.seen - 1) <= Capacity
    BY DEF RingInv, ProducerInv
  <2>. QED
    BY <1>1, <2>1, <2>2, Distances
<1>4. Pushed' = Pushed /\ Popped' = Popped /\ CursorLog(headLog)' /\ CursorLog(tailLog)'
  BY DEF RingInv, Pushed, Popped, CursorLog
<1>5. ProducerInv'
  BY <1>3, <1>4 DEF RingInv, RingTypeOK, ProducerInv
<1>6. ConsumerInv'
  BY <1>4 DEF RingInv, ConsumerInv
<1>7. SlotInv'
  BY <1>3, <1>4, <1>5 DEF RingInv, SlotInv, RingTypeOK
<1>. QED
  BY <1>2, <1>3, <1>4, <1>5, <1>6, <1>7 DEF RingInv, DropFreesTheRest

(* push loads tail and may get any message not older than the last.        *)
LEMMA PushLoadTailInv == ASSUME NEW n PROVE RingInv /\ PushLoadTail(n) => RingInv'
<1>. SUFFICES ASSUME RingInv, PushLoadTail(n) PROVE RingInv'
  OBVIOUS
<1>. DEFINE p == [prod EXCEPT !.seen = n, !.knows = n - 1, !.cachedTail = Cursor(n - 1)]
<1>1. /\ n \in 1 .. Len(tailLog) /\ n >= prod.seen
      /\ tailLog[n].val = Cursor(n - 1) /\ tailLog[n].view = n - 1
  BY Distances, SMTT(30) DEF RingInv, PushLoadTail, CursorLog
<1>2. [Acquire(prod, tailLog[n], n) EXCEPT !.cachedTail = tailLog[n].val] = p
  <2>1. (IF prod.knows < n - 1 THEN n - 1 ELSE prod.knows) = n - 1
    <3>1. Len(tailLog) \in Nat /\ prod.knows = prod.seen - 1
      BY DEF RingInv, CursorLog, ProducerInv
    <3>2. prod.seen \in Nat
      BY Distances
    <3>. QED
      BY <1>1, <3>1, <3>2
  <2>. QED
    BY <1>1, <2>1, Zenon DEF Acquire, RingInv, RingTypeOK
<1>3. prod' = [p EXCEPT !.pc = IF LooksFull(p) THEN "idle" ELSE "write"]
  BY <1>2, Zenon DEF PushLoadTail
<1>4. LooksFull(p) <=> Pushed - (n - 1) = Capacity
  <2>1. p.cachedHead = Cursor(Pushed) /\ p.cachedTail = Cursor(n - 1)
    BY DEF RingInv, ProducerInv, RingTypeOK
  <2>. HIDE DEF p
  <2>. QED
    BY <1>1, <2>1, FullWhenFar, Zenon
<1>5. n - 1 \in Nat /\ Cursor(n - 1) \in Cursors
  <2>1. n - 1 \in Nat
    BY <1>1 DEF RingInv, CursorLog
  <2>. QED
    BY <2>1, CursorTypes
<1>6. RingTypeOK'
  BY <1>1, <1>3, <1>5, ZenonT(60) DEF RingInv, RingTypeOK, PushLoadTail
<1>7. Pushed' = Pushed /\ Popped' = Popped /\ CursorLog(headLog)' /\ CursorLog(tailLog)'
  BY DEF RingInv, Pushed, Popped, CursorLog, PushLoadTail
<1>8. /\ prod' = [p EXCEPT !.pc = prod'.pc] /\ prod'.pc \in {"idle", "write"}
      /\ Pushed - (n - 1) <= Capacity
      /\ prod'.pc = "write" => Pushed - (n - 1) < Capacity
  <2>1. prod'.pc = IF LooksFull(p) THEN "idle" ELSE "write"
    BY <1>3 DEF RingInv, RingTypeOK
  <2>2. Pushed - (prod.seen - 1) <= Capacity
    BY DEF RingInv, ProducerInv
  <2>3. Pushed - (n - 1) <= Capacity
    <3>1. Pushed \in Nat /\ prod.seen \in Nat /\ Capacity \in Nat
      BY Distances
    <3>2. n \in Int
      BY <1>1 DEF RingInv, CursorLog
    <3>. QED
      BY <1>1, <2>2, <3>1, <3>2
  <2>4. Pushed - (n - 1) = Capacity \/ Pushed - (n - 1) < Capacity
    BY <1>5, <2>3, Distances
  <2>. HIDE DEF p
  <2>. QED
    BY <1>3, <1>4, <2>1, <2>3, <2>4
<1>9. ProducerInv'
  BY <1>7, <1>8, ZenonT(60) DEF RingInv, RingTypeOK, ProducerInv, PushLoadTail
<1>10. ConsumerInv'
  BY <1>7 DEF RingInv, ConsumerInv, PushLoadTail
<1>11. SlotInv'
  BY <1>7, <1>8, Zenon DEF RingInv, SlotInv, RingTypeOK, PushLoadTail
<1>. QED
  BY <1>6, <1>7, <1>8, <1>9, <1>10, <1>11 DEF RingInv, DropFreesTheRest, PushLoadTail

(* push writes the slot of the next item, which holds no item that is      *)
(* still to be popped.                                                     *)
LEMMA PushWriteInv == RingInv /\ PushWrite => RingInv'
<1>. SUFFICES ASSUME RingInv, PushWrite PROVE RingInv'
  OBVIOUS
<1>. DEFINE s == Slot(Pushed)
<1>1. Slot(prod.cachedHead) = s /\ s \in 0 .. Capacity - 1
  BY Distances, SlotOfCursor, CursorTypes DEF RingInv, ProducerInv
<1>. HIDE DEF s
<1>2. prod.done = Pushed /\ Pushed \in Nat /\ Popped \in Nat
  BY Distances DEF RingInv, ProducerInv, PushWrite
<1>3. /\ buffer' = [buffer EXCEPT ![s] = Pushed]
      /\ lastWrite' = [lastWrite EXCEPT ![s] = Pushed + 1]
      /\ prod' = [prod EXCEPT !.done = Pushed + 1, !.pc = "store"]
  BY <1>1, <1>2 DEF PushWrite
<1>4. RingTypeOK'
  <2>1. Pushed + 1 \in Nat
    BY <1>2
  <2>2. /\ buffer' \in [0 .. Capacity - 1 -> Nat \cup {Uninit}]
        /\ lastWrite' \in [0 .. Capacity - 1 -> Nat]
    BY <1>1, <1>2, <1>3, <2>1, Zenon DEF RingInv, RingTypeOK
  <2>3. prod' \in [pc : {"idle", "load", "write", "store", "dropped", "freed"},
                   cachedHead : Cursors, cachedTail : Cursors,
                   seen : 1 .. Len(tailLog), knows : Nat, done : Nat]
    BY <1>3, <2>1, Zenon DEF RingInv, RingTypeOK
  <2>. QED
    BY <2>2, <2>3, Zenon DEF RingInv, RingTypeOK, PushWrite
<1>5. Pushed' = Pushed /\ Popped' = Popped /\ CursorLog(headLog)' /\ CursorLog(tailLog)'
  BY DEF RingInv, Pushed, Popped, CursorLog, PushWrite
<1>6. ProducerInv'
  BY <1>3, <1>5 DEF RingInv, RingTypeOK, ProducerInv, PushWrite
<1>7. ConsumerInv'
  BY <1>5 DEF RingInv, ConsumerInv, PushWrite
<1>8. SlotInv'
  <2>1. ASSUME NEW i \in 0 .. Capacity - 1
        PROVE  /\ lastWrite'[i] <= prod'.done
               /\ lastWrite'[i] # 0 => Slot(lastWrite'[i] - 1) = i
               /\ lastRead'[i] <= cons'.done
               /\ lastRead'[i] # 0 => Slot(lastRead'[i] - 1) = i
    <3>1. lastRead'[i] <= cons'.done /\ (lastRead'[i] # 0 => Slot(lastRead'[i] - 1) = i)
      BY DEF RingInv, SlotInv, PushWrite
    <3>2. prod'.done = Pushed + 1 /\ lastWrite[i] \in Nat
      BY <1>3 DEF RingInv, RingTypeOK
    <3>3. CASE i = s
      <4>1. lastWrite'[i] = Pushed + 1 /\ lastWrite'[i] - 1 = Pushed
        BY <1>2, <1>3, <3>3 DEF RingInv, RingTypeOK
      <4>. QED
        BY <1>2, <3>1, <3>2, <3>3, <4>1 DEF s
    <3>4. CASE i # s
      <4>1. lastWrite'[i] = lastWrite[i]
        BY <1>3, <3>4 DEF RingInv, RingTypeOK
      <4>. QED
        BY <1>2, <3>1, <3>2, <4>1 DEF RingInv, SlotInv
    <3>. QED
      BY <3>3, <3>4
  <2>2. ASSUME NEW k \in Nat, Popped <= k, k < Pushed + 1
        PROVE  buffer'[Slot(k)] = k
    <3>1. Slot(k) \in 0 .. Capacity - 1
      BY CursorTypes
    <3>2. CASE k = Pushed
      BY <1>1, <1>3, <3>2 DEF RingInv, RingTypeOK, s
    <3>3. CASE k < Pushed
      <4>1. Slot(k) # s
        BY <1>2, <2>2, <3>3, Distances, SlotApart DEF PushWrite, s
      <4>. QED
        BY <1>2, <1>3, <2>2, <3>1, <3>3, <4>1 DEF RingInv, SlotInv, RingTypeOK
    <3>. QED
      BY <1>2, <2>2, <3>2, <3>3
  <2>3. prod'.done = Pushed + 1
    BY <1>3 DEF RingInv, RingTypeOK
  <2>. QED
    BY <1>5, <2>1, <2>2, <2>3 DEF SlotInv
<1>. QED
  BY <1>3, <1>4, <1>5, <1>6, <1>7, <1>8, Zenon DEF RingInv, RingTypeOK, DropFreesTheRest, PushWrite

(* Storing the next message keeps a log of cursors.                        *)
LEMMA CursorLogGrows ==
    ASSUME NEW log \in Seq([val : Cursors, view : Nat]), CursorLog(log),
           NEW new, new = Append(log, Message(Cursor(Len(log)), Len(log)))
    PROVE  /\ new \in Seq([val : Cursors, view : Nat])
           /\ Len(new) = Len(log) + 1
           /\ CursorLog(new)
<1>1. Len(log) \in Nat /\ Cursor(Len(log)) \in Cursors
  BY CursorTypes DEF CursorLog
<1>2. Message(Cursor(Len(log)), Len(log)) \in [val : Cursors, view : Nat]
  BY <1>1 DEF Message
<1>3. Len(new) = Len(log) + 1 /\ new \in Seq([val : Cursors, view : Nat])
  BY <1>2
<1>4. ASSUME NEW n \in 1 .. Len(new)
      PROVE  new[n].val = Cursor(n - 1) /\ new[n].view = n - 1
  <2>1. CASE n = Len(log) + 1
    <3>1. new[n] = Message(Cursor(Len(log)), Len(log)) /\ n - 1 = Len(log)
      BY <1>1, <1>2, <2>1
    <3>. QED
      BY <3>1 DEF Message
  <2>2. CASE n \in 1 .. Len(log)
    <3>1. new[n] = log[n]
      BY <1>2, <2>2
    <3>. QED
      BY <2>2, <3>1, Zenon DEF CursorLog
  <2>. QED
    BY <1>1, <1>3, <2>1, <2>2
<1>. QED
  BY <1>1, <1>3, <1>4, SMTT(30) DEF CursorLog

(* push stores head.                                                       *)
LEMMA PushStoreHeadInv == RingInv /\ PushStoreHead => RingInv'
<1>. SUFFICES ASSUME RingInv, PushStoreHead PROVE RingInv'
  OBVIOUS
<1>1. Len(headLog) = Pushed + 1 /\ prod.done = Pushed + 1 /\ Pushed \in Nat /\ Popped \in Nat
  BY Distances DEF RingInv, ProducerInv, PushStoreHead, CursorLog, Pushed
<1>2. WrappingAdd(prod.cachedHead, 1) = Cursor(Pushed + 1)
  BY <1>1, CursorAdd DEF RingInv, ProducerInv
<1>3. /\ headLog' = Append(headLog, Message(Cursor(Len(headLog)), Len(headLog)))
      /\ prod' = [prod EXCEPT !.cachedHead = Cursor(Pushed + 1), !.pc = "idle"]
  BY <1>1, <1>2, Zenon DEF PushStoreHead, RingInv, RingTypeOK
<1>4. /\ headLog' \in Seq([val : Cursors, view : Nat])
      /\ Len(headLog') = Len(headLog) + 1
      /\ CursorLog(headLog')
  BY <1>3, CursorLogGrows, Zenon DEF RingInv, RingTypeOK
<1>5. Pushed' = Pushed + 1 /\ Popped' = Popped /\ CursorLog(tailLog)'
  BY <1>1, <1>4 DEF Pushed, Popped, PushStoreHead, RingInv, CursorLog
<1>6. Cursor(Pushed + 1) \in Cursors
  BY <1>1, CursorTypes
<1>7. RingTypeOK'
  <2>1. prod' \in [pc : {"idle", "load", "write", "store", "dropped", "freed"},
                   cachedHead : Cursors, cachedTail : Cursors,
                   seen : 1 .. Len(tailLog), knows : Nat, done : Nat]
    BY <1>3, <1>6, Zenon DEF RingInv, RingTypeOK
  <2>2. 1 .. Len(headLog) \subseteq 1 .. Len(headLog')
    BY <1>1, <1>4
  <2>3. cons' \in [pc : {"idle", "load", "read", "store", "dropped", "freed"},
                   cachedHead : Cursors, cachedTail : Cursors,
                   seen : 1 .. Len(headLog'), knows : Nat, done : Nat,
                   value : Nat \cup {Uninit}, out : Nat \cup {Uninit}]
    BY <2>2 DEF RingInv, RingTypeOK, PushStoreHead
  <2>. QED
    BY <1>4, <2>1, <2>3, Zenon DEF RingInv, RingTypeOK, PushStoreHead
<1>8. ProducerInv'
  <2>1. /\ prod'.cachedHead = Cursor(Pushed + 1) /\ prod'.pc = "idle"
        /\ prod'.cachedTail = prod.cachedTail /\ prod'.seen = prod.seen
        /\ prod'.knows = prod.knows /\ prod'.done = prod.done
    BY <1>3 DEF RingInv, RingTypeOK
  <2>2. /\ prod.cachedTail = Cursor(prod.seen - 1) /\ prod.knows = prod.seen - 1
        /\ Pushed - (prod.seen - 1) < Capacity /\ Pushed < MaxItems
    BY DEF RingInv, ProducerInv, PushStoreHead
  <2>3. Pushed + 1 - (prod.seen - 1) <= Capacity /\ Pushed + 1 <= MaxItems
    BY <1>1, <2>2, Distances, RingAssumption
  <2>4. prod'.cachedHead = Cursor(Pushed')
    BY <1>5, <2>1
  <2>5. prod'.cachedTail = Cursor(prod'.seen - 1) /\ prod'.knows = prod'.seen - 1
    BY <2>1, <2>2
  <2>6. prod'.done = Pushed'
    BY <1>1, <1>5, <2>1
  <2>7. Pushed' - (prod'.seen - 1) <= Capacity /\ Pushed' <= MaxItems
    BY <1>1, <1>5, <2>1, <2>3, Distances, RingAssumption, SMTT(30)
  <2>. QED
    BY <2>1, <2>4, <2>5, <2>6, <2>7 DEF ProducerInv
<1>9. ConsumerInv'
  BY <1>5 DEF RingInv, ConsumerInv, PushStoreHead
<1>10. SlotInv'
  BY <1>3, <1>5 DEF RingInv, RingTypeOK, SlotInv, PushStoreHead
<1>. QED
  BY <1>3, <1>4, <1>5, <1>7, <1>8, <1>9, <1>10, Zenon
  DEF RingInv, RingTypeOK, DropFreesTheRest, PushStoreHead
-----------------------------------------------------------------------------
(* pop compares the cached cursors.                                        *)
LEMMA PopStartInv == RingInv /\ PopStart => RingInv'
<1>. SUFFICES ASSUME RingInv, PopStart PROVE RingInv'
  OBVIOUS
<1>. USE DEF PopStart
<1>1. LooksEmpty(cons) <=> cons.seen - 1 = Popped
  <2>1. cons.seen \in 1 .. Len(headLog) /\ cons.seen >= cons.seen
    BY Distances DEF RingInv, RingTypeOK
  <2>2. cons.cachedTail = Cursor(Popped) /\ cons.cachedHead = Cursor(cons.seen - 1)
    BY DEF RingInv, ConsumerInv
  <2>. QED
    BY <2>1, <2>2, EmptyWhenEqual, Zenon
<1>2. RingTypeOK'
  BY Zenon DEF RingInv, RingTypeOK
<1>3. /\ cons' = [cons EXCEPT !.pc = cons'.pc] /\ cons'.pc \in {"load", "read"}
      /\ cons'.pc = "read" => Popped < cons.seen - 1
  <2>1. cons'.pc = IF LooksEmpty(cons) THEN "load" ELSE "read"
    BY DEF RingInv, RingTypeOK
  <2>. QED
    BY <1>1, <2>1, Distances
<1>4. Pushed' = Pushed /\ Popped' = Popped /\ CursorLog(headLog)' /\ CursorLog(tailLog)'
  BY DEF RingInv, Pushed, Popped, CursorLog
<1>5. ConsumerInv'
  BY <1>3, <1>4 DEF RingInv, RingTypeOK, ConsumerInv
<1>6. ProducerInv'
  BY <1>4 DEF RingInv, ProducerInv
<1>7. SlotInv'
  BY <1>3, <1>4, <1>5 DEF RingInv, SlotInv, RingTypeOK
<1>. QED
  BY <1>2, <1>3, <1>4, <1>5, <1>6, <1>7 DEF RingInv, DropFreesTheRest

(* pop loads head and may get any message not older than the last.         *)
LEMMA PopLoadHeadInv == ASSUME NEW n PROVE RingInv /\ PopLoadHead(n) => RingInv'
<1>. SUFFICES ASSUME RingInv, PopLoadHead(n) PROVE RingInv'
  OBVIOUS
<1>. DEFINE c == [cons EXCEPT !.seen = n, !.knows = n - 1, !.cachedHead = Cursor(n - 1)]
<1>1. /\ n \in 1 .. Len(headLog) /\ n >= cons.seen
      /\ headLog[n].val = Cursor(n - 1) /\ headLog[n].view = n - 1
  BY Distances, SMTT(30) DEF RingInv, PopLoadHead, CursorLog
<1>2. [Acquire(cons, headLog[n], n) EXCEPT !.cachedHead = headLog[n].val] = c
  <2>1. (IF cons.knows < n - 1 THEN n - 1 ELSE cons.knows) = n - 1
    <3>1. Len(headLog) \in Nat /\ cons.knows = cons.seen - 1
      BY DEF RingInv, CursorLog, ConsumerInv
    <3>2. cons.seen \in Nat
      BY Distances
    <3>. QED
      BY <1>1, <3>1, <3>2
  <2>. QED
    BY <1>1, <2>1, Zenon DEF Acquire, RingInv, RingTypeOK
<1>3. cons' = [c EXCEPT !.pc = IF LooksEmpty(c) THEN "idle" ELSE "read"]
  BY <1>2, Zenon DEF PopLoadHead
<1>4. LooksEmpty(c) <=> n - 1 = Popped
  <2>1. c.cachedTail = Cursor(Popped) /\ c.cachedHead = Cursor(n - 1)
    BY DEF RingInv, ConsumerInv, RingTypeOK
  <2>. HIDE DEF c
  <2>. QED
    BY <1>1, <2>1, EmptyWhenEqual, Zenon
<1>5. n - 1 \in Nat /\ Cursor(n - 1) \in Cursors
  <2>1. n - 1 \in Nat
    BY <1>1 DEF RingInv, CursorLog
  <2>. QED
    BY <2>1, CursorTypes
<1>6. RingTypeOK'
  BY <1>1, <1>3, <1>5, ZenonT(60) DEF RingInv, RingTypeOK, PopLoadHead
<1>7. Pushed' = Pushed /\ Popped' = Popped /\ CursorLog(headLog)' /\ CursorLog(tailLog)'
  BY DEF RingInv, Pushed, Popped, CursorLog, PopLoadHead
<1>8. /\ cons' = [c EXCEPT !.pc = cons'.pc] /\ cons'.pc \in {"idle", "read"}
      /\ Popped <= n - 1
      /\ cons'.pc = "read" => Popped < n - 1
  <2>1. cons'.pc = IF LooksEmpty(c) THEN "idle" ELSE "read"
    BY <1>3 DEF RingInv, RingTypeOK
  <2>2. Popped <= n - 1
    BY <1>1, <1>5, Distances
  <2>3. n - 1 = Popped \/ Popped < n - 1
    BY <1>5, <2>2, Distances
  <2>. HIDE DEF c
  <2>. QED
    BY <1>3, <1>4, <2>1, <2>2, <2>3
<1>9. ConsumerInv'
  BY <1>7, <1>8, ZenonT(60) DEF RingInv, RingTypeOK, ConsumerInv, PopLoadHead
<1>10. ProducerInv'
  BY <1>7 DEF RingInv, ProducerInv, PopLoadHead
<1>11. SlotInv'
  BY <1>7, <1>8, Zenon DEF RingInv, SlotInv, RingTypeOK, PopLoadHead
<1>. QED
  BY <1>6, <1>7, <1>8, <1>9, <1>10, <1>11 DEF RingInv, DropFreesTheRest, PopLoadHead

(* pop reads the item it is due.                                           *)
LEMMA PopReadInv == RingInv /\ PopRead => RingInv'
<1>. SUFFICES ASSUME RingInv, PopRead PROVE RingInv'
  OBVIOUS
<1>. DEFINE t == Slot(Popped)
<1>1. Slot(cons.cachedTail) = t /\ t \in 0 .. Capacity - 1
  BY Distances, SlotOfCursor, CursorTypes DEF RingInv, ConsumerInv
<1>2. cons.done = Popped /\ Popped \in Nat /\ Popped < Pushed /\ Pushed \in Nat
  BY Distances DEF RingInv, ConsumerInv, PopRead
<1>3. buffer[t] = Popped
  <2>1. Popped < prod.done
    BY <1>2 DEF RingInv, ProducerInv
  <2>. QED
    BY <1>2, <2>1 DEF RingInv, SlotInv
<1>. HIDE DEF t
<1>4. /\ lastRead' = [lastRead EXCEPT ![t] = Popped + 1]
      /\ cons' = [cons EXCEPT !.value = Popped, !.done = Popped + 1, !.pc = "store"]
  BY <1>1, <1>2, <1>3 DEF PopRead
<1>5. RingTypeOK'
  <2>1. Popped + 1 \in Nat
    BY <1>2
  <2>2. lastRead' \in [0 .. Capacity - 1 -> Nat]
    BY <1>1, <1>4, <2>1 DEF RingInv, RingTypeOK
  <2>3. cons' \in [pc : {"idle", "load", "read", "store", "dropped", "freed"},
                   cachedHead : Cursors, cachedTail : Cursors,
                   seen : 1 .. Len(headLog), knows : Nat, done : Nat,
                   value : Nat \cup {Uninit}, out : Nat \cup {Uninit}]
    BY <1>2, <1>4, <2>1, Zenon DEF RingInv, RingTypeOK
  <2>. QED
    BY <2>2, <2>3, ZenonT(60) DEF RingInv, RingTypeOK, PopRead
<1>6. Pushed' = Pushed /\ Popped' = Popped /\ CursorLog(headLog)' /\ CursorLog(tailLog)'
  BY DEF RingInv, Pushed, Popped, CursorLog, PopRead
<1>7. ConsumerInv'
  BY <1>4, <1>6, Zenon DEF RingInv, RingTypeOK, ConsumerInv, PopRead
<1>8. ProducerInv'
  BY <1>6 DEF RingInv, ProducerInv, PopRead
<1>9. SlotInv'
  <2>1. ASSUME NEW i \in 0 .. Capacity - 1
        PROVE  /\ lastWrite'[i] <= prod'.done
               /\ lastWrite'[i] # 0 => Slot(lastWrite'[i] - 1) = i
               /\ lastRead'[i] <= cons'.done
               /\ lastRead'[i] # 0 => Slot(lastRead'[i] - 1) = i
    <3>1. lastWrite'[i] <= prod'.done /\ (lastWrite'[i] # 0 => Slot(lastWrite'[i] - 1) = i)
      BY DEF RingInv, SlotInv, PopRead
    <3>2. cons'.done = Popped + 1 /\ lastRead[i] \in Nat
      BY <1>4 DEF RingInv, RingTypeOK
    <3>3. CASE i = t
      <4>1. lastRead'[i] = Popped + 1 /\ lastRead'[i] - 1 = Popped
        BY <1>2, <1>4, <3>3 DEF RingInv, RingTypeOK
      <4>. QED
        BY <1>2, <3>1, <3>2, <3>3, <4>1 DEF t
    <3>4. CASE i # t
      <4>1. lastRead'[i] = lastRead[i]
        BY <1>4, <3>4 DEF RingInv, RingTypeOK
      <4>. QED
        BY <1>2, <3>1, <3>2, <4>1 DEF RingInv, SlotInv
    <3>. QED
      BY <3>3, <3>4
  <2>2. \A k \in Nat : Popped' <= k /\ k < prod'.done => buffer'[Slot(k)] = k
    BY <1>6 DEF RingInv, SlotInv, PopRead
  <2>. QED
    BY <2>1, <2>2 DEF SlotInv
<1>. QED
  BY <1>4, <1>5, <1>6, <1>7, <1>8, <1>9, Zenon DEF RingInv, RingTypeOK, DropFreesTheRest, PopRead

(* pop stores tail.                                                        *)
LEMMA PopStoreTailInv == RingInv /\ PopStoreTail => RingInv'
<1>. SUFFICES ASSUME RingInv, PopStoreTail PROVE RingInv'
  OBVIOUS
<1>1. Len(tailLog) = Popped + 1 /\ cons.done = Popped + 1 /\ Pushed \in Nat /\ Popped \in Nat
  BY Distances DEF RingInv, ConsumerInv, PopStoreTail, CursorLog, Popped
<1>2. WrappingAdd(cons.cachedTail, 1) = Cursor(Popped + 1) /\ cons.value = Popped
  BY <1>1, CursorAdd, SMTT(30) DEF RingInv, ConsumerInv, PopStoreTail
<1>3. /\ tailLog' = Append(tailLog, Message(Cursor(Len(tailLog)), Len(tailLog)))
      /\ cons' = [cons EXCEPT !.cachedTail = Cursor(Popped + 1), !.out = Popped,
                              !.value = Uninit, !.pc = "idle"]
  BY <1>1, <1>2, Zenon DEF PopStoreTail, RingInv, RingTypeOK
<1>4. /\ tailLog' \in Seq([val : Cursors, view : Nat])
      /\ Len(tailLog') = Len(tailLog) + 1
      /\ CursorLog(tailLog')
  BY <1>3, CursorLogGrows, Zenon DEF RingInv, RingTypeOK
<1>5. Pushed' = Pushed /\ Popped' = Popped + 1 /\ CursorLog(headLog)'
  BY <1>1, <1>4 DEF Pushed, Popped, PopStoreTail, RingInv, CursorLog
<1>6. Cursor(Popped + 1) \in Cursors
  BY <1>1, CursorTypes
<1>7. RingTypeOK'
  <2>1. cons' \in [pc : {"idle", "load", "read", "store", "dropped", "freed"},
                   cachedHead : Cursors, cachedTail : Cursors,
                   seen : 1 .. Len(headLog), knows : Nat, done : Nat,
                   value : Nat \cup {Uninit}, out : Nat \cup {Uninit}]
    BY <1>1, <1>3, <1>6, Zenon DEF RingInv, RingTypeOK
  <2>2. 1 .. Len(tailLog) \subseteq 1 .. Len(tailLog')
    BY <1>1, <1>4
  <2>3. prod' \in [pc : {"idle", "load", "write", "store", "dropped", "freed"},
                   cachedHead : Cursors, cachedTail : Cursors,
                   seen : 1 .. Len(tailLog'), knows : Nat, done : Nat]
    BY <2>2 DEF RingInv, RingTypeOK, PopStoreTail
  <2>. QED
    BY <1>4, <2>1, <2>3, Zenon DEF RingInv, RingTypeOK, PopStoreTail
<1>8. ConsumerInv'
  <2>1. /\ cons'.cachedTail = Cursor(Popped + 1) /\ cons'.pc = "idle"
        /\ cons'.cachedHead = cons.cachedHead /\ cons'.seen = cons.seen
        /\ cons'.knows = cons.knows /\ cons'.done = cons.done
    BY <1>3 DEF RingInv, RingTypeOK
  <2>2. /\ cons.cachedHead = Cursor(cons.seen - 1) /\ cons.knows = cons.seen - 1
        /\ Popped < cons.seen - 1
    BY DEF RingInv, ConsumerInv, PopStoreTail
  <2>3. cons'.cachedTail = Cursor(Popped')
    BY <1>5, <2>1
  <2>4. cons'.cachedHead = Cursor(cons'.seen - 1) /\ cons'.knows = cons'.seen - 1
    BY <2>1, <2>2
  <2>5. cons'.done = Popped' /\ Popped' <= cons'.seen - 1
    BY <1>1, <1>5, <2>1, <2>2, Distances
  <2>. QED
    BY <2>1, <2>3, <2>4, <2>5 DEF ConsumerInv
<1>9. ProducerInv'
  BY <1>5 DEF RingInv, ProducerInv, PopStoreTail
<1>10. SlotInv'
  <2>1. cons'.done = cons.done
    BY <1>3 DEF RingInv, RingTypeOK
  <2>2. \A k \in Nat : Popped' <= k /\ k < prod'.done => buffer'[Slot(k)] = k
    BY <1>1, <1>5 DEF RingInv, SlotInv, PopStoreTail
  <2>. QED
    BY <2>1, <2>2 DEF RingInv, SlotInv, PopStoreTail
<1>. QED
  BY <1>3, <1>4, <1>5, <1>7, <1>8, <1>9, <1>10, Zenon
  DEF RingInv, RingTypeOK, DropFreesTheRest, PopStoreTail
-----------------------------------------------------------------------------
(* The messages that head and tail hold.                                   *)
LEMMA LastMessages ==
    ASSUME RingInv
    PROVE  headLog[Len(headLog)].val = Cursor(Pushed) /\ tailLog[Len(tailLog)].val = Cursor(Popped)
BY DEF RingInv, CursorLog, Pushed, Popped

(* A handle that is dropped changes neither cursors nor slots.             *)
LEMMA DropHandleInv == RingInv /\ (DropProducer \/ DropConsumer) => RingInv'
<1>. SUFFICES ASSUME RingInv, DropProducer \/ DropConsumer PROVE RingInv'
  OBVIOUS
<1>. USE DEF DropProducer, DropConsumer
<1>1. Pushed' = Pushed /\ Popped' = Popped /\ CursorLog(headLog)' /\ CursorLog(tailLog)'
  BY DEF RingInv, Pushed, Popped, CursorLog
<1>2. RingTypeOK'
  BY Zenon DEF RingInv, RingTypeOK
<1>3. /\ prod' = [prod EXCEPT !.pc = prod'.pc] /\ cons' = [cons EXCEPT !.pc = cons'.pc]
      /\ prod'.pc = prod.pc \/ (prod.pc = "idle" /\ prod'.pc = "dropped")
      /\ cons'.pc = cons.pc \/ (cons.pc = "idle" /\ cons'.pc = "dropped")
  BY SMTT(30) DEF RingInv, RingTypeOK
<1>4. ProducerInv'
  BY <1>1, <1>3, Zenon DEF RingInv, RingTypeOK, ProducerInv
<1>5. ConsumerInv'
  BY <1>1, <1>3, SMTT(30) DEF RingInv, RingTypeOK, ConsumerInv
<1>6. SlotInv'
  BY <1>1, <1>3, ZenonT(60) DEF RingInv, RingTypeOK, SlotInv
<1>. QED
  BY <1>1, <1>2, <1>3, <1>4, <1>5, <1>6 DEF RingInv, DropFreesTheRest

(* Drop visits the items from tail to head.                                *)
LEMMA DropBufferInv == RingInv /\ DropBuffer => RingInv'
<1>. SUFFICES ASSUME RingInv, DropBuffer PROVE RingInv'
  OBVIOUS
<1>1. Pushed' = Pushed /\ Popped' = Popped /\ CursorLog(headLog)' /\ CursorLog(tailLog)'
  BY DEF RingInv, Pushed, Popped, CursorLog, DropBuffer
<1>2. RingTypeOK'
  BY Zenon DEF RingInv, RingTypeOK, DropBuffer
<1>3. ProducerInv'
  BY <1>1 DEF RingInv, RingTypeOK, ProducerInv, DropBuffer
<1>4. ConsumerInv'
  BY <1>1 DEF RingInv, RingTypeOK, ConsumerInv, DropBuffer
<1>5. SlotInv'
  BY <1>1 DEF RingInv, RingTypeOK, SlotInv, DropBuffer
<1>6. freed' = [k \in 1 .. (Pushed - Popped) |-> Popped + k - 1]
  <2>1. freed' = DropVisits(Cursor(Pushed), Cursor(Popped))
    BY LastMessages DEF DropBuffer
  <2>2. WrappingSub(Cursor(Pushed), Cursor(Popped)) = Pushed - Popped
    BY Distances, CursorSub
  <2>3. ASSUME NEW k \in 1 .. (Pushed - Popped)
        PROVE  buffer[Slot(WrappingAdd(Cursor(Popped), k - 1))] = Popped + k - 1
    <3>1. k - 1 \in Nat /\ Popped + (k - 1) \in Nat /\ Popped + (k - 1) = Popped + k - 1
      BY Distances
    <3>2. WrappingAdd(Cursor(Popped), k - 1) = Cursor(Popped + (k - 1))
      BY <3>1, Distances, CursorAdd
    <3>3. Slot(Cursor(Popped + (k - 1))) = Slot(Popped + (k - 1))
      BY <3>1, SlotOfCursor
    <3>4. Popped <= Popped + (k - 1) /\ Popped + (k - 1) < prod.done
      <4>1. prod.done = Pushed
        BY DEF RingInv, ProducerInv, DropBuffer
      <4>. QED
        BY <4>1, Distances
    <3>5. buffer[Slot(Popped + (k - 1))] = Popped + (k - 1)
      BY <3>1, <3>4 DEF RingInv, SlotInv
    <3>. QED
      BY <3>1, <3>2, <3>3, <3>5
  <2>. QED
    BY <2>1, <2>2, <2>3 DEF DropVisits
<1>7. prod'.pc = "freed" /\ cons'.pc = "freed"
  BY DEF DropBuffer, RingInv, RingTypeOK
<1>. QED
  BY <1>1, <1>2, <1>3, <1>4, <1>5, <1>6, <1>7 DEF RingInv, DropFreesTheRest
-----------------------------------------------------------------------------
(* The invariant depends on the variables alone.                           *)
LEMMA StutterInv == RingInv /\ UNCHANGED ringVars => RingInv'
<1>. SUFFICES ASSUME RingInv, UNCHANGED ringVars PROVE RingInv'
  OBVIOUS
<1>. USE DEF ringVars
<1>1. Pushed' = Pushed /\ Popped' = Popped
  BY DEF Pushed, Popped
<1>2. RingTypeOK'
  BY Zenon DEF RingInv, RingTypeOK
<1>3. CursorLog(headLog)' /\ CursorLog(tailLog)'
  BY Zenon DEF RingInv, CursorLog
<1>4. ProducerInv'
  BY <1>1, Zenon DEF RingInv, ProducerInv
<1>5. ConsumerInv'
  BY <1>1, Zenon DEF RingInv, ConsumerInv
<1>6. SlotInv'
  BY <1>1, Zenon DEF RingInv, SlotInv
<1>. QED
  BY <1>1, <1>2, <1>3, <1>4, <1>5, <1>6, Zenon DEF RingInv, DropFreesTheRest

(* Every step preserves the invariant.                                     *)
LEMMA NextInv == RingInv /\ [RingNext]_ringVars => RingInv'
<1>. SUFFICES ASSUME RingInv, RingNext PROVE RingInv'
  BY StutterInv
<1>1. CASE Push
  BY <1>1, PushStartInv, PushLoadTailInv, PushWriteInv, PushStoreHeadInv, Zenon DEF Push
<1>2. CASE Pop
  BY <1>2, PopStartInv, PopLoadHeadInv, PopReadInv, PopStoreTailInv, Zenon DEF Pop
<1>3. CASE DropProducer \/ DropConsumer
  BY <1>3, DropHandleInv
<1>4. CASE DropBuffer
  BY <1>4, DropBufferInv
<1>. QED
  BY <1>1, <1>2, <1>3, <1>4 DEF RingNext

(* The invariant holds of every state of the ring.                         *)
THEOREM RingInductive == RingSpec => []RingInv
BY InitInv, NextInv, PTL DEF RingSpec

(* The unsafe slot accesses of push and pop never race: "each slot is      *)
(* exclusively accessed by one side at a time", for every capacity, cursor *)
(* width and stale value a load may return.                                *)
THEOREM RingHasNoDataRace == RingSpec => []NoDataRace
BY RingInductive, InvNoRace, PTL

(* The cursors, handles and slots of src/src/ring.rs keep their types:     *)
(* among them, both cursors stay words of the machine's width.             *)
THEOREM RingTypeCorrect == RingSpec => []RingTypeOK
<1>1. RingInv => RingTypeOK
  BY DEF RingInv
<1>. QED
  BY <1>1, RingInductive, PTL

(* Drop runs on exactly the items that were pushed and never popped.       *)
THEOREM RingDropsTheRest == RingSpec => []DropFreesTheRest
<1>1. RingInv => DropFreesTheRest
  BY DEF RingInv
<1>. QED
  BY <1>1, RingInductive, PTL
-----------------------------------------------------------------------------
(* The items from a up to b.                                               *)
Numbers(a, b) == [k \in 1 .. (b - a) |-> a + k - 1]

(* Consecutive items as a queue: how its ends change.                      *)
LEMMA NumbersFacts ==
    ASSUME NEW a \in Nat, NEW b \in Nat, a <= b
    PROVE  /\ Numbers(a, b) \in Seq(Nat)
           /\ Len(Numbers(a, b)) = b - a
           /\ Append(Numbers(a, b), b) = Numbers(a, b + 1)
           /\ a = b => Numbers(a, b) = <<>>
           /\ a < b => /\ Numbers(a, b) # <<>>
                      /\ Head(Numbers(a, b)) = a
                      /\ Tail(Numbers(a, b)) = Numbers(a + 1, b)
<1>1. b - a \in Nat
  OBVIOUS
<1>2. Numbers(a, b) \in Seq(Nat) /\ Len(Numbers(a, b)) = b - a
  BY <1>1 DEF Numbers
<1>3. Append(Numbers(a, b), b) = Numbers(a, b + 1)
  BY <1>1, <1>2 DEF Numbers
<1>4. a = b => Numbers(a, b) = <<>>
  BY <1>2
<1>5. ASSUME a < b PROVE Numbers(a, b) # <<>> /\ Head(Numbers(a, b)) = a
  BY <1>2, <1>5 DEF Numbers
<1>6. ASSUME a < b PROVE Tail(Numbers(a, b)) = Numbers(a + 1, b)
  BY <1>1, <1>2, <1>6, SMTT(30) DEF Numbers
<1>. QED
  BY <1>2, <1>3, <1>4, <1>5, <1>6

ContentsNumbered == Contents = IF prod.pc = "freed" THEN <<>> ELSE Numbers(Popped, Pushed)

(* The slots from tail to head hold consecutive items.                     *)
LEMMA ContentsAreNumbers == RingInv => ContentsNumbered
<1>. SUFFICES ASSUME RingInv PROVE ContentsNumbered
  OBVIOUS
<1>1. ASSUME NEW k \in 1 .. (Pushed - Popped)
      PROVE  buffer[Slot(Cursor(Popped) + (k - 1))] = Popped + k - 1
  <2>1. /\ k - 1 \in Nat /\ Popped + (k - 1) \in Nat /\ Popped + (k - 1) = Popped + k - 1
        /\ Popped <= Popped + (k - 1) /\ Popped + (k - 1) < Pushed
    BY Distances
  <2>2. Slot(Cursor(Popped) + (k - 1)) = Slot(Popped + (k - 1))
    BY <2>1, Distances, SlotOfCursor
  <2>3. Popped + (k - 1) < prod.done
    BY <2>1, Distances DEF RingInv, ProducerInv
  <2>4. buffer[Slot(Popped + (k - 1))] = Popped + (k - 1)
    BY <2>1, <2>3 DEF RingInv, SlotInv
  <2>. QED
    BY <2>1, <2>2, <2>4
<1>. QED
  BY <1>1, LastMessages, Zenon DEF Contents, Numbers, ContentsNumbered

(* A store of head enqueues, a store of tail dequeues, dropping the buffer *)
(* discards, and no other step is seen by the users of the queue.          *)
LEMMA StepRefines ==
    RingInv /\ RingInv' /\ [RingNext]_ringVars => [Queue!QueueNext]_(Queue!queueVars)
<1>. SUFFICES ASSUME RingInv, RingInv', [RingNext]_ringVars
              PROVE  [Queue!QueueNext]_<<Contents, cons.out>>
  BY DEF Queue!queueVars
<1>0. /\ Contents = IF prod.pc = "freed" THEN <<>> ELSE Numbers(Popped, Pushed)
      /\ Contents' = IF prod'.pc = "freed" THEN <<>> ELSE Numbers(Popped', Pushed')
  <2>1. ContentsNumbered'
    BY ContentsAreNumbers, PTL
  <2>. QED
    BY ContentsAreNumbers, <2>1 DEF ContentsNumbered
<1>1. ASSUME Pushed' = Pushed, Popped' = Popped, cons'.out = cons.out,
             prod'.pc = "freed" <=> prod.pc = "freed"
      PROVE  UNCHANGED <<Contents, cons.out>>
  BY <1>0, <1>1
<1>2. CASE PushStoreHead
  <2>1. /\ Pushed' = Pushed + 1 /\ Popped' = Popped /\ cons' = cons
        /\ prod.pc = "store" /\ prod'.pc = "idle"
    BY <1>2, Distances DEF PushStoreHead, Pushed, Popped, RingInv, RingTypeOK
  <2>2. Pushed < MaxItems /\ Pushed \in 0 .. MaxItems
    BY <2>1, Distances, RingAssumption DEF RingInv, ProducerInv
  <2>3. Len(Contents) < Capacity /\ Contents' = Append(Contents, Pushed)
    <3>1. /\ Len(Numbers(Popped, Pushed)) = Pushed - Popped
          /\ Append(Numbers(Popped, Pushed), Pushed) = Numbers(Popped, Pushed + 1)
      <4>1. Popped \in Nat /\ Pushed \in Nat /\ Popped <= Pushed
        BY Distances
      <4>. QED
        BY <4>1, NumbersFacts, Zenon
    <3>2. Pushed - Popped < Capacity
      BY <2>1, Distances
    <3>. QED
      BY <1>0, <2>1, <3>1, <3>2
  <2>4. Queue!Enqueue(Pushed)
    BY <2>1, <2>3 DEF Queue!Enqueue
  <2>. QED
    BY <2>2, <2>4 DEF Queue!QueueNext
<1>3. CASE PopStoreTail
  <2>1. /\ Pushed' = Pushed /\ Popped' = Popped + 1 /\ prod' = prod
        /\ cons.pc = "store" /\ cons'.out = Popped
    BY <1>3, Distances DEF PopStoreTail, Pushed, Popped, RingInv, RingTypeOK, ConsumerInv
  <2>2. prod.pc # "freed"
    BY <2>1 DEF RingInv
  <2>3. Contents # <<>> /\ Contents' = Tail(Contents) /\ cons'.out = Head(Contents)
    <3>1. /\ Numbers(Popped, Pushed) # <<>> /\ Head(Numbers(Popped, Pushed)) = Popped
          /\ Tail(Numbers(Popped, Pushed)) = Numbers(Popped + 1, Pushed)
      <4>1. Popped \in Nat /\ Pushed \in Nat /\ Popped <= Pushed /\ Popped < Pushed
        BY <2>1, Distances
      <4>. QED
        BY <4>1, NumbersFacts, Zenon
    <3>. QED
      BY <1>0, <2>1, <2>2, <3>1
  <2>. QED
    BY <2>3 DEF Queue!Dequeue, Queue!QueueNext
<1>4. CASE DropBuffer
  <2>1. /\ Pushed' = Pushed /\ Popped' = Popped /\ cons'.out = cons.out
        /\ prod'.pc = "freed"
    BY <1>4 DEF DropBuffer, Pushed, Popped, RingInv, RingTypeOK
  <2>2. Contents' = <<>>
    BY <1>0, <2>1
  <2>. QED
    BY <2>1, <2>2 DEF Queue!Discard, Queue!QueueNext
<1>5. CASE PushStart \/ (\E n \in 1 .. Len(tailLog) : PushLoadTail(n)) \/ PushWrite \/ DropProducer
  <2>1. Pushed' = Pushed /\ Popped' = Popped /\ cons' = cons
    BY <1>5, ZenonT(60) DEF PushStart, PushLoadTail, PushWrite, DropProducer, Pushed, Popped
  <2>2. prod.pc # "freed" /\ cons.pc # "freed"
    BY <1>5, Zenon DEF PushStart, PushLoadTail, PushWrite, DropProducer, RingInv
  <2>3. prod'.pc # "freed"
    BY <2>1, <2>2 DEF RingInv
  <2>. QED
    BY <1>1, <2>1, <2>2, <2>3, Zenon
<1>6. CASE PopStart \/ (\E n \in 1 .. Len(headLog) : PopLoadHead(n)) \/ PopRead \/ DropConsumer
  <2>1. Pushed' = Pushed /\ Popped' = Popped /\ prod' = prod
    BY <1>6, Zenon DEF PopStart, PopLoadHead, PopRead, DropConsumer, Pushed, Popped
  <2>2. cons'.out = cons.out
    <3>. DEFINE Fields == [pc : {"idle", "load", "read", "store", "dropped", "freed"},
                           cachedHead : Cursors, cachedTail : Cursors,
                           seen : 1 .. Len(headLog), knows : Nat, done : Nat,
                           value : Nat \cup {Uninit}, out : Nat \cup {Uninit}]
    <3>1. cons \in Fields
      BY DEF RingInv, RingTypeOK
    <3>2. CASE PopStart \/ DropConsumer
      BY <3>1, <3>2 DEF PopStart, DropConsumer
    <3>3. CASE \E n \in 1 .. Len(headLog) : PopLoadHead(n)
      BY <3>1, <3>3 DEF PopLoadHead, Acquire
    <3>4. CASE PopRead
      BY <3>1, <3>4 DEF PopRead
    <3>. QED
      BY <1>6, <3>2, <3>3, <3>4
  <2>. QED
    BY <1>1, <2>1, <2>2, Zenon
<1>7. CASE UNCHANGED ringVars
  BY <1>1, <1>7 DEF ringVars, Pushed, Popped
<1>. QED
  BY <1>2, <1>3, <1>4, <1>5, <1>6, <1>7 DEF RingNext, Push, Pop

(* The ring is a FIFO queue of Capacity items: nothing is lost, duplicated *)
(* or reordered between push and pop.                                      *)
THEOREM RingImplementsQueue == RingSpec => ImplementsQueue
<1>1. RingInit => Queue!QueueInit
  <2>. SUFFICES ASSUME RingInit PROVE Queue!QueueInit
    OBVIOUS
  <2>1. Contents = <<>>
    <3>1. RingInv /\ Popped = 0 /\ Pushed = 0
      BY InitInv DEF RingInit, Pushed, Popped
    <3>. QED
      BY <3>1, ContentsAreNumbers, NumbersFacts DEF RingInit, ContentsNumbered
  <2>. QED
    BY <2>1 DEF Queue!QueueInit, RingInit
<1>. QED
  BY <1>1, RingInductive, StepRefines, PTL DEF RingSpec, ImplementsQueue, Queue!QueueSpec
=============================================================================
