---------------------------- MODULE EngineProofs ----------------------------
(***************************************************************************)
(* The calls of the matching engine as functions of the book they meet,    *)
(* for all ids, traders, prices, quantities and arena capacities.  The     *)
(* first part is about add_order: its loop computes AddOrder.  The second  *)
(* is about snapshots: inserting the orders that all_resting_orders lists  *)
(* into an empty book gives the book back.                                 *)
(***************************************************************************)
EXTENDS EngineCalls, MatchingProofs

(* f holds the locals of the first n iterations.                           *)
LoopOf(b, o, n, f) ==
    /\ f = [k \in 0 .. n |-> f[k]]
    /\ f[0] = Locals(b, o, <<>>, "Pending")
    /\ \A k \in 1 .. n : f[k] = Iterated(f[k - 1])

(* The recursion of Iterations has a solution.                             *)
LEMMA LoopExists ==
    ASSUME NEW b, NEW o, NEW n \in Nat
    PROVE  \E f : LoopOf(b, o, n, f)
<1>. DEFINE T == {m \in 0 .. n : \E f : LoopOf(b, o, m, f)}
<1>1. 0 \in T
  <2>1. LoopOf(b, o, 0, [k \in 0 .. 0 |-> Locals(b, o, <<>>, "Pending")])
    BY DEF LoopOf
  <2>. QED
    BY <2>1
<1>2. ASSUME NEW m \in 0 .. n - 1, m \in T PROVE m + 1 \in T
  <2>1. PICK f : LoopOf(b, o, m, f)
    BY <1>2, Zenon
  <2>. DEFINE last == Iterated(f[m])
              g == [k \in 0 .. m + 1 |-> IF k = m + 1 THEN last ELSE f[k]]
  <2>2. g = [k \in 0 .. m + 1 |-> g[k]] /\ g[0] = Locals(b, o, <<>>, "Pending")
    BY <2>1 DEF LoopOf
  <2>3. ASSUME NEW k \in 1 .. m + 1 PROVE g[k] = Iterated(g[k - 1])
    <3>1. k - 1 \in 0 .. m /\ g[k - 1] = f[k - 1]
      OBVIOUS
    <3>2. CASE k = m + 1
      BY <3>1, <3>2
    <3>3. CASE k # m + 1
      <4>1. k \in 1 .. m /\ g[k] = f[k]
        BY <3>3
      <4>. QED
        BY <2>1, <3>1, <4>1, Zenon DEF LoopOf
    <3>. QED
      BY <3>2, <3>3, Zenon
  <2>. HIDE DEF g
  <2>4. LoopOf(b, o, m + 1, g)
    BY <2>2, <2>3, Zenon DEF LoopOf
  <2>. QED
    BY <2>4
<1>3. \A k \in 0 .. n : k \in T
  <2>. HIDE DEF T
  <2>. QED
    BY <1>1, <1>2, InductionUpTo, Zenon
<1>. QED
  BY <1>3

(* The locals of every iteration, from those of the one before it.         *)
LEMMA IterationsAre ==
    ASSUME NEW b, NEW o, o.qty \in Nat
    PROVE  LoopOf(b, o, o.qty + 1, Iterations(b, o))
<1>. DEFINE n == o.qty + 1
            Step(u) == [k \in 0 .. n |-> IF k = 0 THEN Locals(b, o, <<>>, "Pending")
                                         ELSE Iterated(u[k - 1])]
            loop == CHOOSE u : u = Step(u)
<1>1. n \in Nat
  OBVIOUS
<1>2. PICK f : LoopOf(b, o, n, f)
  BY <1>1, LoopExists, Zenon
<1>3. f = Step(f)
  <2>1. ASSUME NEW k \in 0 .. n
        PROVE  f[k] = IF k = 0 THEN Locals(b, o, <<>>, "Pending") ELSE Iterated(f[k - 1])
    <3>1. k # 0 => k \in 1 .. n
      BY <1>1
    <3>. QED
      BY <1>2, <3>1, Zenon DEF LoopOf
  <2>2. f = [k \in 0 .. n |-> f[k]]
    BY <1>2, Zenon DEF LoopOf
  <2>. QED
    BY <2>1, <2>2, Zenon
<1>4. Iterations(b, o) = loop
  BY DEF Iterations
<1>5. loop = Step(loop)
  <2>. HIDE DEF Step
  <2>. QED
    BY <1>3, Zenon
<1>. HIDE DEF loop, n
<1>6. loop = [k \in 0 .. n |-> loop[k]]
  BY <1>5, Zenon
<1>7. loop[0] = Locals(b, o, <<>>, "Pending")
  BY <1>1, <1>5
<1>8. ASSUME NEW k \in 1 .. n PROVE loop[k] = Iterated(loop[k - 1])
  <2>1. k \in 0 .. n /\ k # 0
    BY <1>1
  <2>. QED
    BY <1>5, <2>1, Zenon
<1>. QED
  BY <1>4, <1>6, <1>7, <1>8, Zenon DEF LoopOf, n

(* Once add_order has returned, iterations change nothing.                 *)
LEMMA ReturnIsFinal ==
    ASSUME NEW b, NEW o, o.qty \in Nat, NEW m \in 0 .. o.qty + 1,
           Iterations(b, o)[m].status # "Pending"
    PROVE  Iterations(b, o)[o.qty + 1] = Iterations(b, o)[m]
<1>. DEFINE n == o.qty + 1
            f == Iterations(b, o)
            T == {k \in Nat : k <= n - m => f[m + k] = f[m]}
<1>1. \A k \in 1 .. n : f[k] = Iterated(f[k - 1])
  BY IterationsAre, Zenon DEF LoopOf
<1>. HIDE DEF f
<1>2. 0 \in T
  OBVIOUS
<1>3. ASSUME NEW k \in 0 .. (n - m) - 1, k \in T PROVE k + 1 \in T
  <2>1. f[m + k] = f[m] /\ m + (k + 1) \in 1 .. n /\ (m + (k + 1)) - 1 = m + k
    BY <1>3
  <2>2. f[m + (k + 1)] = Iterated(f[m + k])
    BY <1>1, <2>1
  <2>3. Iterated(f[m]) = f[m]
    BY Zenon DEF Iterated, f
  <2>. QED
    BY <2>1, <2>2, <2>3
<1>4. n - m \in Nat
  OBVIOUS
<1>5. \A k \in 0 .. n - m : k \in T
  <2>. HIDE DEF T, n
  <2>. QED
    BY <1>2, <1>3, <1>4, InductionUpTo, Zenon
<1>6. n - m \in T /\ m + (n - m) = n
  BY <1>4, <1>5
<1>. QED
  BY <1>4, <1>6 DEF f
-----------------------------------------------------------------------------
(* A call of add_order in progress has gone through one iteration of       *)
(* AddOrder for every fill.                                                *)
CallInv ==
    pc = "match" =>
        /\ result.order \in OrderRequest
        /\ taker.qty + Len(fills) <= result.order.qty
        /\ Iterations(entry, result.order)[Len(fills)] = Locals(book, taker, fills, "Pending")

(* A step of the loop that trades is an iteration.                         *)
LEMMA FillIterates ==
    ASSUME MatchInv, FillMaker
    PROVE  /\ Iterated(Locals(book, taker, fills, "Pending")) = Locals(book', taker', fills', "Pending")
           /\ taker.qty \in Nat /\ fills \in Seq(Fill)
           /\ taker'.qty + 1 <= taker.qty /\ Len(fills') = Len(fills) + 1
<1>. DEFINE r == Locals(book, taker, fills, "Pending")
<1>1. r.book = book /\ r.order = taker /\ r.fills = fills /\ r.status = "Pending"
  BY DEF Locals
<1>. HIDE DEF r
<1>2. /\ taker \in OrderRequest /\ FillQty \in 1 .. taker.qty
  <2>1. pc = "match" /\ MeetsMaker /\ BookInv(book) /\ MatchTypeOK
    BY Zenon DEF FillMaker, MatchInv
  <2>. QED
    BY <2>1, MakerRests
<1>3. taker.qty \in Nat /\ taker.qty # 0 /\ FillQty \in Nat
  BY <1>2, OrdersAssumption DEF OrderRequest
<1>4. Iterated(r) = Traded(r)
  BY <1>1, <1>3 DEF Iterated, FillMaker, MeetsMaker, BestOpposite, Maker
<1>5. Traded(r) = Locals(book', taker', fills', "Pending")
  BY <1>1, Zenon DEF Traded, FillMaker, FillQty, Maker, BestOpposite
<1>6. taker'.qty = taker.qty - FillQty
  BY <1>2 DEF FillMaker, OrderRequest
<1>7. fills \in Seq(Fill) /\ Len(fills') = Len(fills) + 1
  BY DEF FillMaker, MatchInv, MatchTypeOK
<1>. QED
  BY <1>2, <1>3, <1>4, <1>5, <1>6, <1>7 DEF r

(* What the last step of a call does, the last iteration does.             *)
LEMMA ReturnIterates ==
    ASSUME MatchInv, MatchNext, pc = "match", pc' = "idle"
    PROVE  /\ Iterated(Locals(book, taker, fills, "Pending")).status # "Pending"
           /\ Iterated(Locals(book, taker, fills, "Pending")).book = book'
           /\ Iterated(Locals(book, taker, fills, "Pending")).status = result'.status
           /\ Iterated(Locals(book, taker, fills, "Pending")).fills = result'.fills
<1>. DEFINE r == Locals(book, taker, fills, "Pending")
            code == InsertCode(book, taker)
            s == Opposite(r.order.side)
            p == r.book.best[s]
<1>1. r = [book |-> book, order |-> taker, fills |-> fills, status |-> "Pending"]
  BY DEF Locals
<1>2. r.book = book /\ r.order = taker /\ r.fills = fills /\ r.status = "Pending"
  BY <1>1
<1>. HIDE DEF r
<1>3. taker.qty \in Nat
  BY OrdersAssumption DEF MatchInv, MatchTypeOK, OrderRequest
<1>4. CASE CancelSelfTrade
  <2>1. Iterated(r) = [r EXCEPT !.status = "CancelledSelfTrade"]
    <3>1. /\ r.order.qty # 0 /\ p # NoPrice /\ Crosses(r.order, p) /\ r.book.queue[s][p] # <<>>
          /\ r.book.queue[s][p][1].trader = r.order.trader
      <4>1. MeetsMaker /\ Maker.trader = taker.trader
        BY <1>4 DEF CancelSelfTrade
      <4>2. taker.qty # 0
        BY <1>3, <4>1 DEF MeetsMaker
      <4>3. /\ BestOpposite # NoPrice /\ Crosses(taker, BestOpposite)
            /\ book.queue[Opposite(taker.side)][BestOpposite] # <<>>
            /\ book.queue[Opposite(taker.side)][BestOpposite][1].trader = taker.trader
        BY <4>1, Zenon DEF MeetsMaker, Maker
      <4>4. s = Opposite(taker.side) /\ p = BestOpposite
        BY <1>2, Zenon DEF BestOpposite
      <4>. HIDE DEF s, p
      <4>. QED
        BY <1>2, <4>2, <4>3, <4>4, Zenon
    <3>. QED
      BY <1>2, <3>1, Zenon DEF Iterated
  <2>2. result' = Answer("CancelledSelfTrade", fills) /\ book' = book
    BY <1>4 DEF CancelSelfTrade, ReturnOk, Return
  <2>. QED
    BY <1>1, <2>1, <2>2 DEF Answer, r
<1>5. CASE FinishFilled
  <2>1. Iterated(r) = [r EXCEPT !.status = "FullyFilled"]
    BY <1>2, <1>5 DEF Iterated, FinishFilled
  <2>2. result' = Answer("FullyFilled", fills) /\ book' = book
    BY <1>5 DEF FinishFilled, ReturnOk, Return
  <2>. QED
    BY <1>1, <2>1, <2>2 DEF Answer, r
<1>6. CASE RestRemainder
  <2>1. Iterated(r) = Rested(r)
    <3>1. /\ r.order.qty # 0
          /\ p = NoPrice \/ ~Crosses(r.order, p) \/ r.book.queue[s][p] = <<>>
      BY <1>2, <1>3, <1>6 DEF RestRemainder, MeetsMaker, BestOpposite
    <3>. QED
      BY <1>2, <3>1, Zenon DEF Iterated
  <2>2. Rested(r) = Locals(Inserted(book, taker), taker, fills,
                           IF fills = <<>> THEN "Resting" ELSE "PartiallyFilled")
    BY <1>2, <1>6 DEF Rested, RestRemainder
  <2>3. /\ result' = Answer(IF fills = <<>> THEN "Resting" ELSE "PartiallyFilled", fills)
        /\ book' = Inserted(book, taker)
    BY <1>6 DEF RestRemainder, ReturnOk, Return
  <2>. QED
    BY <2>1, <2>2, <2>3 DEF Answer, Locals, r
<1>7. CASE RefuseRemainder
  <2>1. Iterated(r) = Rested(r)
    <3>1. /\ r.order.qty # 0
          /\ p = NoPrice \/ ~Crosses(r.order, p) \/ r.book.queue[s][p] = <<>>
      BY <1>2, <1>3, <1>7 DEF RefuseRemainder, MeetsMaker, BestOpposite
    <3>. QED
      BY <1>2, <3>1, Zenon DEF Iterated
  <2>2. Rested(r) = Locals(book, taker, <<>>, code)
    BY <1>2, <1>7 DEF Rested, RefuseRemainder
  <2>3. result' = Answer(code, <<>>) /\ book' = book
    BY <1>7 DEF RefuseRemainder, ReturnErr, Return
  <2>4. code # "Pending"
    BY DEF InsertCode
  <2>. QED
    BY <2>1, <2>2, <2>3, <2>4 DEF Answer, Locals, r
<1>8. ~FillMaker
  BY DEF FillMaker
<1>9. /\ \A o \in OrderRequest : ~RejectZero(o) /\ ~StartAddOrder(o)
      /\ \A id \in Ids : ~Cancel(id) /\ ~CancelUnknown(id)
  BY DEF RejectZero, StartAddOrder, Cancel, CancelUnknown
<1>. QED
  BY <1>4, <1>5, <1>6, <1>7, <1>8, <1>9, Zenon DEF MatchNext, r

LEMMA CallInvInit == MatchInit => CallInv
BY DEF MatchInit, CallInv

LEMMA CallInvNext == MatchInv /\ CallInv /\ [MatchNext]_matchVars => CallInv'
<1>. SUFFICES ASSUME MatchInv, CallInv, [MatchNext]_matchVars, pc' = "match" PROVE CallInv'
  BY DEF CallInv
<1>1. ASSUME NEW o \in OrderRequest, StartAddOrder(o) PROVE CallInv'
  <2>1. /\ result'.order = o /\ taker' = o /\ fills' = <<>> /\ entry' = book /\ book' = book
    BY <1>1 DEF StartAddOrder, Pending
  <2>2. o.qty \in Nat
    BY OrdersAssumption DEF OrderRequest
  <2>3. Iterations(book, o)[0] = Locals(book, o, <<>>, "Pending")
    BY <2>2, IterationsAre, Zenon DEF LoopOf
  <2>4. Len(fills') = 0
    BY <2>1
  <2>. QED
    BY <2>1, <2>2, <2>3, <2>4 DEF CallInv
<1>2. CASE FillMaker
  <2>. DEFINE o == result.order
              f == Iterations(entry, o)
              n == Len(fills)
  <2>1. /\ Iterated(Locals(book, taker, fills, "Pending")) = Locals(book', taker', fills', "Pending")
        /\ taker.qty \in Nat /\ fills \in Seq(Fill)
        /\ taker'.qty + 1 <= taker.qty /\ Len(fills') = n + 1
    BY <1>2, FillIterates
  <2>2. /\ o \in OrderRequest /\ taker.qty + n <= o.qty
        /\ f[n] = Locals(book, taker, fills, "Pending")
        /\ pc = "match" /\ result' = result /\ entry' = entry
    BY <1>2 DEF CallInv, FillMaker
  <2>3. o.qty \in Nat /\ n \in Nat /\ taker'.qty \in Int
    <3>1. o.qty \in Nat
      BY <2>2, OrdersAssumption DEF OrderRequest
    <3>2. taker' \in OrderRequest
      <4>1. MatchTypeOK'
        BY MatchInvNext DEF MatchInv
      <4>. QED
        BY <4>1 DEF MatchTypeOK
    <3>. QED
      BY <2>1, <3>1, <3>2 DEF OrderRequest
  <2>4. \A k \in 1 .. o.qty + 1 : f[k] = Iterated(f[k - 1])
    <3>1. LoopOf(entry, o, o.qty + 1, f)
      BY <2>3, IterationsAre
    <3>. HIDE DEF f, o
    <3>. QED
      BY <3>1, Zenon DEF LoopOf
  <2>. HIDE DEF f, n, o
  <2>5. n + 1 \in 1 .. o.qty + 1 /\ (n + 1) - 1 = n /\ taker'.qty + (n + 1) <= o.qty
    BY <2>1, <2>2, <2>3
  <2>6. f[n + 1] = Locals(book', taker', fills', "Pending")
    BY <2>1, <2>2, <2>4, <2>5
  <2>. QED
    BY <2>1, <2>2, <2>5, <2>6 DEF CallInv, f, o
<1>3. CASE UNCHANGED matchVars
  BY <1>3, Zenon DEF matchVars, CallInv
<1>4. /\ ~CancelSelfTrade /\ ~FinishFilled /\ ~RestRemainder /\ ~RefuseRemainder
      /\ \A o \in OrderRequest : ~RejectZero(o)
      /\ \A id \in Ids : ~Cancel(id) /\ ~CancelUnknown(id)
  BY DEF CancelSelfTrade, FinishFilled, RestRemainder, RefuseRemainder, ReturnOk, ReturnErr,
         Return, RejectZero, Cancel, CancelUnknown
<1>. QED
  BY <1>1, <1>2, <1>3, <1>4, Zenon DEF MatchNext

(* The engine is deterministic (SYSTEM_DESIGN.md, 8.2): whatever iterations *)
(* the loop of add_order takes, a call leaves the book and returns the     *)
(* status and the fills that AddOrder computes from the book and the order *)
(* it was given, so that replaying the log computes what was lost.         *)
THEOREM AddOrderComputesItsFunction == MatchSpec => AddOrderIsAFunction
<1>1. ASSUME MatchInv, CallInv, [MatchNext]_matchVars
      PROVE  [pc = "match" /\ pc' = "idle" =>
                EngineAnswer(book', result'.status, result'.fills)
                  = AddOrder(entry, result.order)]_matchVars
  <2>. SUFFICES ASSUME MatchNext, pc = "match", pc' = "idle"
                PROVE  EngineAnswer(book', result'.status, result'.fills)
                          = AddOrder(entry, result.order)
    BY <1>1
  <2>. DEFINE o == result.order
              f == Iterations(entry, o)
              n == Len(fills)
              l == Locals(book, taker, fills, "Pending")
  <2>1. /\ Iterated(l).status # "Pending" /\ Iterated(l).book = book'
        /\ Iterated(l).status = result'.status /\ Iterated(l).fills = result'.fills
    BY <1>1, ReturnIterates
  <2>2. o \in OrderRequest /\ taker.qty + n <= o.qty /\ f[n] = l
    BY <1>1 DEF CallInv
  <2>3. o.qty \in Nat /\ n \in Nat /\ taker.qty \in Nat
    <3>1. taker \in OrderRequest /\ fills \in Seq(Fill)
      BY <1>1 DEF MatchInv, MatchTypeOK
    <3>. QED
      BY <2>2, <3>1, OrdersAssumption DEF OrderRequest
  <2>4. \A k \in 1 .. o.qty + 1 : f[k] = Iterated(f[k - 1])
    <3>1. LoopOf(entry, o, o.qty + 1, f)
      BY <2>3, IterationsAre
    <3>. HIDE DEF f, o
    <3>. QED
      BY <3>1, Zenon DEF LoopOf
  <2>. HIDE DEF l, n
  <2>5. n + 1 \in 1 .. o.qty + 1 /\ n + 1 \in 0 .. o.qty + 1 /\ (n + 1) - 1 = n
    <3>. HIDE DEF o
    <3>. QED
      BY <2>2, <2>3
  <2>6. f[n + 1] = Iterated(l)
    <3>. HIDE DEF f, o
    <3>. QED
      BY <2>2, <2>4, <2>5
  <2>7. f[o.qty + 1] = Iterated(l)
    BY <2>1, <2>3, <2>5, <2>6, ReturnIsFinal
  <2>. HIDE DEF o
  <2>. QED
    BY <2>1, <2>7 DEF AddOrder, o
<1>. QED
  BY <1>1, CallInvInit, CallInvNext, MatchInvariance, PTL DEF MatchSpec, AddOrderIsAFunction
-----------------------------------------------------------------------------
(* restore_from_orders.                                                    *)

(* Every level of c is the front of the level of b.                        *)
PrefixOf(c, b) ==
    \A t \in Side, r \in Prices :
        /\ Len(c.queue[t][r]) <= Len(b.queue[t][r])
        /\ \A i \in 1 .. Len(c.queue[t][r]) : c.queue[t][r][i] = b.queue[t][r][i]

(* c and d differ in the level at price p of side s at most.               *)
SameElsewhere(c, d, s, p) ==
    \A t \in Side, r \in Prices : ~(t = s /\ r = p) => d.queue[t][r] = c.queue[t][r]

(* The book is well typed, levels are sequences of orders.                 *)
LEMMA LevelTypes ==
    ASSUME NEW b, BookInv(b), NEW s \in Side, NEW p \in Prices
    PROVE  b.queue[s][p] \in Seq(Order) /\ Len(b.queue[s][p]) \in Nat
<1>1. b.queue \in [Side -> [Prices -> Seq(Order)]]
  BY Zenon DEF BookInv, Book
<1>2. b.queue[s][p] \in Seq(Order)
  BY <1>1, Zenon
<1>. QED
  BY <1>2, SeqElements

(* c holds the front of b's levels, and n orders of the level at p, which  *)
(* has more.                                                               *)
Behind(b, c, s, p, n) ==
    /\ BookInv(b) /\ BookInv(c) /\ PrefixOf(c, b)
    /\ Len(c.queue[s][p]) = n /\ n < Len(b.queue[s][p])

Fits(c, o, s, p) == o \in Order /\ o.side = s /\ o.price = p /\ InsertCode(c, o) = "Ok"

(* d is c with one order more of that level.                               *)
Ahead(b, c, d, s, p, n) ==
    /\ BookInv(d) /\ PrefixOf(d, b) /\ SameElsewhere(c, d, s, p)
    /\ Len(d.queue[s][p]) = n + 1

(* The orders of two levels have different ids, or are the same.           *)
IdsApart(b, t, r, s, p) ==
    \A x \in 1 .. Len(b.queue[t][r]), y \in 1 .. Len(b.queue[s][p]) :
        b.queue[t][r][x].id = b.queue[s][p][y].id => t = s /\ r = p /\ x = y

LEMMA IdsRestApart ==
    ASSUME NEW b, BookInv(b), NEW t \in Side, NEW r \in Prices, NEW s \in Side, NEW p \in Prices
    PROVE  IdsApart(b, t, r, s, p)
<1>1. IdsRestOnce(b)
  BY Zenon DEF BookInv, IndexIsExactIn
<1>. SUFFICES ASSUME NEW x \in 1 .. Len(b.queue[t][r]), NEW y \in 1 .. Len(b.queue[s][p]),
                     b.queue[t][r][x].id = b.queue[s][p][y].id
              PROVE  t = s /\ r = p /\ x = y
  BY Zenon DEF IdsApart
<1>. QED
  BY <1>1, SMTT(30) DEF IdsRestOnce

(* The next order of a level that c holds the front of can be inserted: no *)
(* id of c is its id, and c has a free slot because b has not more orders  *)
(* than slots.                                                             *)
LEMMA NextOrderFits ==
    ASSUME NEW b, NEW c, NEW s \in Side, NEW p \in Prices, NEW n \in Nat, Behind(b, c, s, p, n)
    PROVE  Fits(c, b.queue[s][p][n + 1], s, p)
<1>. DEFINE o == b.queue[s][p][n + 1]
<1>0. /\ BookInv(b) /\ BookInv(c) /\ PrefixOf(c, b)
      /\ Len(c.queue[s][p]) = n /\ n < Len(b.queue[s][p])
  BY Zenon DEF Behind
<1>1. n + 1 \in 1 .. Len(b.queue[s][p]) /\ b.queue[s][p] \in Seq(Order)
  BY <1>0, LevelTypes
<1>2. o \in Order
  BY <1>1, SeqElements, Zenon
<1>3. o.side = s /\ o.price = p /\ o.id \in b.index
  <2>1. \A i \in 1 .. Len(b.queue[s][p]) :
           /\ b.queue[s][p][i].id \in b.index
           /\ b.queue[s][p][i].side = s
           /\ b.queue[s][p][i].price = p
    BY <1>0, Zenon DEF BookInv, IndexIsExactIn, OrdersAreIndexed
  <2>. QED
    BY <1>1, <2>1, Zenon
<1>4. ASSUME NEW id \in c.index PROVE id \in b.index /\ id # o.id
  <2>1. PICK t \in Side, r \in Prices : \E i \in 1 .. Len(c.queue[t][r]) : c.queue[t][r][i].id = id
    BY <1>0, <1>4, Zenon DEF BookInv, IndexIsExactIn, IndexedOrdersRest
  <2>2. PICK i \in 1 .. Len(c.queue[t][r]) : c.queue[t][r][i].id = id
    BY <2>1, Zenon
  <2>3. Len(c.queue[t][r]) <= Len(b.queue[t][r]) /\ c.queue[t][r][i] = b.queue[t][r][i]
    BY <1>0, <2>2, Zenon DEF PrefixOf
  <2>4. Len(c.queue[t][r]) \in Nat /\ Len(b.queue[t][r]) \in Nat
    BY <1>0, LevelTypes
  <2>5. i \in 1 .. Len(b.queue[t][r]) /\ b.queue[t][r][i].id = id
    <3>. DEFINE x == Len(c.queue[t][r])
                y == Len(b.queue[t][r])
    <3>1. x <= y /\ x \in Nat /\ y \in Nat /\ i \in 1 .. x
      BY <2>2, <2>3, <2>4, Zenon
    <3>. HIDE DEF x, y
    <3>2. i \in 1 .. y
      BY <3>1
    <3>. QED
      BY <2>2, <2>3, <3>2, Zenon DEF y
  <2>6. id \in b.index
    <3>1. \A x \in 1 .. Len(b.queue[t][r]) : b.queue[t][r][x].id \in b.index
      BY <1>0, Zenon DEF BookInv, IndexIsExactIn, OrdersAreIndexed
    <3>. QED
      BY <2>5, <3>1, Zenon
  <2>7. ASSUME id = o.id PROVE FALSE
    <3>1. t = s /\ r = p /\ i = n + 1
      <4>1. IdsApart(b, t, r, s, p)
        BY <1>0, IdsRestApart, Zenon
      <4>. QED
        BY <1>1, <2>5, <2>7, <4>1, Zenon DEF IdsApart
    <3>2. i \in 1 .. n
      BY <1>0, <2>2, <3>1, Zenon
    <3>. QED
      BY <3>1, <3>2
  <2>. QED
    BY <2>6, <2>7, Zenon
<1>. HIDE DEF o
<1>5. c.index \subseteq b.index \ {o.id} /\ o.id \notin c.index
  BY <1>4
<1>6. c.count # Capacity
  <2>1. /\ IsFiniteSet(b.index) /\ b.count = Cardinality(b.index) /\ b.count \in 0 .. Capacity
        /\ c.count = Cardinality(c.index)
    BY <1>0 DEF BookInv, CountIsIndexSizeIn, Book
  <2>2. /\ IsFiniteSet(b.index \ {o.id})
        /\ Cardinality(b.index \ {o.id}) = Cardinality(b.index) - 1
    BY <1>3, <2>1, FS_RemoveElement, Zenon
  <2>3. Cardinality(c.index) <= Cardinality(b.index \ {o.id})
    BY <1>5, <2>2, FS_Subset, Zenon
  <2>4. Cardinality(c.index) \in Nat
    <3>1. IsFiniteSet(c.index)
      BY <1>5, <2>2, FS_Subset, Zenon
    <3>. QED
      BY <3>1, FS_CardinalityType, Zenon
  <2>. QED
    BY <2>1, <2>2, <2>3, <2>4, OrdersAssumption
<1>7. InsertCode(c, o) = "Ok"
  BY <1>5, <1>6, Zenon DEF InsertCode
<1>. QED
  BY <1>2, <1>3, <1>7, Zenon DEF Fits, o

(* After it, c holds the front of b's levels still.                        *)
LEMMA NextOrderInserted ==
    ASSUME NEW b, NEW c, NEW s \in Side, NEW p \in Prices, NEW n \in Nat, Behind(b, c, s, p, n)
    PROVE  Ahead(b, c, Inserted(c, b.queue[s][p][n + 1]), s, p, n)
<1>. DEFINE q == c.queue[s][p]
            m == b.queue[s][p]
            o == m[n + 1]
            d == Inserted(c, o)
<1>0. /\ BookInv(b) /\ BookInv(c) /\ PrefixOf(c, b)
      /\ Len(q) = n /\ n < Len(m)
  BY Zenon DEF Behind
<1>1. o \in Order /\ o.side = s /\ o.price = p /\ InsertCode(c, o) = "Ok"
  <2>1. Fits(c, m[n + 1], s, p)
    BY NextOrderFits, Zenon
  <2>. QED
    BY <2>1, Zenon DEF Fits
<1>3. c \in Book /\ q \in Seq(Order) /\ m \in Seq(Order) /\ Len(m) \in Nat
  BY <1>0, LevelTypes DEF BookInv
<1>6. \A i \in 1 .. n : q[i] = m[i]
  BY <1>0, Zenon DEF PrefixOf
<1>. HIDE DEF o
<1>2. BookInv(d)
  BY <1>0, <1>1, InsertedInv, Zenon
<1>4. \A t \in Side, r \in Prices :
         d.queue[t][r] = IF t = o.side /\ r = o.price THEN Append(c.queue[t][r], o) ELSE c.queue[t][r]
  BY <1>1, <1>3, InsertedQueues
<1>. HIDE DEF d
<1>5. d.queue[s][p] = Append(q, o) /\ SameElsewhere(c, d, s, p)
  BY <1>1, <1>4, Zenon DEF SameElsewhere
<1>7. /\ Len(Append(q, o)) = n + 1 /\ n + 1 <= Len(m)
      /\ \A i \in 1 .. n + 1 : Append(q, o)[i] = m[i]
  <2>1. m[n + 1] = o
    BY DEF o
  <2>. HIDE DEF q, m
  <2>2. /\ Len(Append(q, o)) = Len(q) + 1 /\ Append(q, o)[Len(q) + 1] = o
        /\ \A i \in 1 .. Len(q) : Append(q, o)[i] = q[i]
    BY <1>1, <1>3, AppendElements
  <2>3. \A i \in 1 .. n + 1 : i \in 1 .. n \/ i = n + 1
    OBVIOUS
  <2>. QED
    BY <1>0, <1>3, <1>6, <2>1, <2>2, <2>3
<1>8. ASSUME NEW t \in Side, NEW r \in Prices
      PROVE  /\ Len(d.queue[t][r]) <= Len(b.queue[t][r])
             /\ \A i \in 1 .. Len(d.queue[t][r]) : d.queue[t][r][i] = b.queue[t][r][i]
  <2>1. CASE t = s /\ r = p
    BY <1>5, <1>7, <2>1, Zenon
  <2>2. CASE ~(t = s /\ r = p)
    <3>1. d.queue[t][r] = c.queue[t][r]
      BY <1>5, <2>2, Zenon DEF SameElsewhere
    <3>2. /\ Len(c.queue[t][r]) <= Len(b.queue[t][r])
          /\ \A i \in 1 .. Len(c.queue[t][r]) : c.queue[t][r][i] = b.queue[t][r][i]
      BY <1>0, Zenon DEF PrefixOf
    <3>. QED
      BY <3>1, <3>2, Zenon
  <2>. QED
    BY <2>1, <2>2, Zenon
<1>9. PrefixOf(d, b)
  BY <1>8, Zenon DEF PrefixOf
<1>10. Len(d.queue[s][p]) = n + 1
  BY <1>5, <1>7, Zenon
<1>. QED
  BY <1>2, <1>5, <1>9, <1>10, Zenon DEF Ahead, d, o
-----------------------------------------------------------------------------
(* f holds the books between the inserts of the first n orders of q.       *)
InsertsTo(c, q, n, f) ==
    /\ f[0] = c
    /\ \A k \in 1 .. n : InsertCode(f[k - 1], q[k]) = "Ok" /\ f[k] = Inserted(f[k - 1], q[k])

(* Inserting the orders of q, none of which is refused, takes c to d.      *)
LeadsTo(c, q, d) == \E f : InsertsTo(c, q, Len(q), f) /\ f[Len(q)] = d

(* One insert more.                                                        *)
LEMMA OneInsertMore ==
    ASSUME NEW c, NEW q, NEW n \in Nat, NEW f, InsertsTo(c, q, n, f),
           InsertCode(f[n], q[n + 1]) = "Ok"
    PROVE  \E g : InsertsTo(c, q, n + 1, g) /\ g[n + 1] = Inserted(f[n], q[n + 1])
<1>. DEFINE e == Inserted(f[n], q[n + 1])
            g == [k \in 0 .. n + 1 |-> IF k = n + 1 THEN e ELSE f[k]]
<1>1. g[0] = c /\ g[n + 1] = e
  BY DEF InsertsTo
<1>2. \A k \in 0 .. n : g[k] = f[k]
  OBVIOUS
<1>. HIDE DEF g
<1>3. ASSUME NEW k \in 1 .. n + 1
      PROVE  InsertCode(g[k - 1], q[k]) = "Ok" /\ g[k] = Inserted(g[k - 1], q[k])
  <2>1. k - 1 \in 0 .. n /\ g[k - 1] = f[k - 1]
    BY <1>2
  <2>2. CASE k = n + 1
    <3>1. k - 1 = n
      BY <2>2
    <3>. QED
      BY <1>1, <2>1, <2>2, <3>1, Zenon
  <2>3. CASE k # n + 1
    <3>1. k \in 1 .. n /\ k \in 0 .. n
      BY <2>3
    <3>. QED
      BY <1>2, <2>1, <3>1, Zenon DEF InsertsTo
  <2>. QED
    BY <2>2, <2>3
<1>4. InsertsTo(c, q, n + 1, g)
  BY <1>1, <1>3, Zenon DEF InsertsTo
<1>. QED
  BY <1>1, <1>4, Zenon

(* One list after the other.                                               *)
LEMMA LeadsToConcat ==
    ASSUME NEW S, NEW q \in Seq(S), NEW r \in Seq(S), NEW c, NEW d, NEW e,
           LeadsTo(c, q, d), LeadsTo(d, r, e)
    PROVE  LeadsTo(c, q \o r, e)
<1>1. PICK f : InsertsTo(c, q, Len(q), f) /\ f[Len(q)] = d
  BY Zenon DEF LeadsTo
<1>2. PICK h : InsertsTo(d, r, Len(r), h) /\ h[Len(r)] = e
  BY Zenon DEF LeadsTo
<1>. DEFINE m == Len(q)
            n == Len(r)
            x == q \o r
            g == [k \in 0 .. m + n |-> IF k <= m THEN f[k] ELSE h[k - m]]
<1>3. /\ m \in Nat /\ n \in Nat /\ Len(x) = m + n
      /\ \A i \in 1 .. m : x[i] = q[i]
      /\ \A i \in 1 .. n : x[m + i] = r[i]
  BY ConcatElements, SeqElements
<1>4. h[0] = d /\ f[m] = d /\ f[0] = c
  BY <1>1, <1>2, Zenon DEF InsertsTo
<1>. HIDE DEF m, n, x
<1>5. /\ \A k \in 0 .. m : g[k] = f[k]
      /\ \A k \in 0 .. n : g[m + k] = h[k]
  <2>1. \A k \in 0 .. m : g[k] = f[k]
    BY <1>3
  <2>2. ASSUME NEW k \in 0 .. n PROVE g[m + k] = h[k]
    <3>1. CASE k = 0
      BY <1>3, <1>4, <3>1
    <3>2. CASE k # 0
      BY <1>3, <3>2
    <3>. QED
      BY <3>1, <3>2
  <2>. QED
    BY <2>1, <2>2
<1>. HIDE DEF g
<1>6. ASSUME NEW k \in 1 .. m + n
      PROVE  InsertCode(g[k - 1], x[k]) = "Ok" /\ g[k] = Inserted(g[k - 1], x[k])
  <2>1. CASE k <= m
    <3>1. k \in 1 .. m /\ k \in 0 .. m /\ k - 1 \in 0 .. m
      BY <1>3, <2>1
    <3>. QED
      BY <1>1, <1>3, <1>5, <3>1, Zenon DEF InsertsTo, m
  <2>2. CASE ~(k <= m)
    <3>1. PICK j \in 1 .. n : k = m + j /\ k - 1 = m + (j - 1) /\ j - 1 \in 0 .. n /\ j \in 0 .. n
      <4>1. k - m \in 1 .. n /\ k = m + (k - m) /\ k - 1 = m + ((k - m) - 1)
            /\ (k - m) - 1 \in 0 .. n /\ k - m \in 0 .. n
        BY <1>3, <2>2
      <4>. QED
        BY <4>1
    <3>2. x[k] = r[j] /\ g[k] = h[j] /\ g[k - 1] = h[j - 1]
      BY <1>3, <1>5, <3>1
    <3>. QED
      BY <1>2, <3>2, Zenon DEF InsertsTo, n
  <2>. QED
    BY <2>1, <2>2
<1>7. m + n = Len(x) /\ g[0] = c /\ g[m + n] = e
  <2>1. 0 \in 0 .. m /\ n \in 0 .. n
    BY <1>3
  <2>. QED
    BY <1>2, <1>3, <1>4, <1>5, <2>1, Zenon DEF n
<1>8. InsertsTo(c, x, m + n, g)
  BY <1>6, <1>7, Zenon DEF InsertsTo
<1>. QED
  BY <1>7, <1>8, Zenon DEF LeadsTo, x

(* Inserting a level that c has not begun.                                 *)
Completed(b, c, d, s, p) ==
    /\ BookInv(d) /\ PrefixOf(d, b) /\ SameElsewhere(c, d, s, p)
    /\ Len(d.queue[s][p]) = Len(b.queue[s][p])
    /\ LeadsTo(c, b.queue[s][p], d)

LEMMA LevelLeads ==
    ASSUME NEW b, NEW c, BookInv(b), BookInv(c), PrefixOf(c, b),
           NEW s \in Side, NEW p \in Prices, c.queue[s][p] = <<>>
    PROVE  \E d : Completed(b, c, d, s, p)
<1>. DEFINE q == b.queue[s][p]
            Stage(d, n) == /\ BookInv(d) /\ PrefixOf(d, b) /\ SameElsewhere(c, d, s, p)
                           /\ Len(d.queue[s][p]) = n
            T == {n \in 0 .. Len(q) : \E f : InsertsTo(c, q, n, f) /\ Stage(f[n], n)}
<1>1. Len(q) \in Nat
  BY LevelTypes
<1>2. 0 \in T
  <2>. DEFINE f == [k \in {0} |-> c]
  <2>1. f[0] = c /\ 0 \in 0 .. Len(q) /\ Len(c.queue[s][p]) = 0
    BY <1>1
  <2>2. InsertsTo(c, q, 0, f)
    <3>1. \A k \in 1 .. 0 : FALSE
      OBVIOUS
    <3>. HIDE DEF f
    <3>. QED
      BY <2>1, <3>1, Zenon DEF InsertsTo
  <2>. HIDE DEF f
  <2>3. SameElsewhere(c, c, s, p)
    BY Zenon DEF SameElsewhere
  <2>. QED
    BY <2>1, <2>2, <2>3, Zenon
<1>3. ASSUME NEW n \in 0 .. Len(q) - 1, n \in T PROVE n + 1 \in T
  <2>1. PICK f : InsertsTo(c, q, n, f) /\ Stage(f[n], n)
    BY <1>3, Zenon
  <2>2. n \in Nat /\ n < Len(q) /\ n + 1 \in 0 .. Len(q)
    BY <1>1
  <2>3. Behind(b, f[n], s, p, n) /\ SameElsewhere(c, f[n], s, p)
    BY <2>1, <2>2, Zenon DEF Behind
  <2>4. InsertCode(f[n], q[n + 1]) = "Ok"
    <3>1. Fits(f[n], q[n + 1], s, p)
      BY <2>2, <2>3, NextOrderFits, Zenon
    <3>. QED
      BY <3>1, Zenon DEF Fits
  <2>5. Ahead(b, f[n], Inserted(f[n], q[n + 1]), s, p, n)
    BY <2>2, <2>3, NextOrderInserted, Zenon
  <2>. DEFINE d == Inserted(f[n], q[n + 1])
  <2>7. PICK g : InsertsTo(c, q, n + 1, g) /\ g[n + 1] = d
    <3>. HIDE DEF q
    <3>1. \E g : InsertsTo(c, q, n + 1, g) /\ g[n + 1] = Inserted(f[n], q[n + 1])
      BY <2>1, <2>2, <2>4, OneInsertMore
    <3>. QED
      BY <3>1, Zenon
  <2>. HIDE DEF d
  <2>6. /\ BookInv(d) /\ PrefixOf(d, b) /\ Len(d.queue[s][p]) = n + 1
        /\ SameElsewhere(c, d, s, p)
    <3>1. Ahead(b, f[n], d, s, p, n)
      BY <2>5, Zenon DEF d
    <3>2. BookInv(d) /\ PrefixOf(d, b) /\ Len(d.queue[s][p]) = n + 1 /\ SameElsewhere(f[n], d, s, p)
      BY <3>1, Zenon DEF Ahead
    <3>. QED
      BY <2>3, <3>2, ZenonT(30) DEF SameElsewhere
  <2>8. Stage(g[n + 1], n + 1)
    BY <2>6, <2>7, Zenon
  <2>. QED
    BY <2>2, <2>7, <2>8, Zenon
<1>4. Len(q) \in T
  <2>1. \A k \in 0 .. Len(q) : k \in T
    <3>. HIDE DEF T, q
    <3>. QED
      BY <1>1, <1>2, <1>3, InductionUpTo, Zenon
  <2>2. Len(q) \in 0 .. Len(q)
    BY <1>1
  <2>. QED
    BY <2>1, <2>2, Zenon
<1>5. PICK f : InsertsTo(c, q, Len(q), f) /\ Stage(f[Len(q)], Len(q))
  BY <1>4, Zenon
<1>6. Completed(b, c, f[Len(q)], s, p)
  BY <1>5, Zenon DEF Completed, LeadsTo
<1>. QED
  BY <1>6, Zenon
-----------------------------------------------------------------------------
(* g holds the concatenations of the first sequences of z.                 *)
ConcatsOf(S, z, g) ==
    /\ g \in [0 .. Len(z) -> Seq(S)]
    /\ g[0] = <<>>
    /\ \A k \in 1 .. Len(z) : g[k] = g[k - 1] \o z[k]

LEMMA ConcatsExist ==
    ASSUME NEW S, NEW z \in Seq(Seq(S))
    PROVE  \E g : ConcatsOf(S, z, g)
<1>. DEFINE Upto(m, g) == /\ g \in [0 .. m -> Seq(S)]
                          /\ g[0] = <<>>
                          /\ \A k \in 1 .. m : g[k] = g[k - 1] \o z[k]
            T == {m \in 0 .. Len(z) : \E g : Upto(m, g)}
<1>1. Len(z) \in Nat /\ \A k \in 1 .. Len(z) : z[k] \in Seq(S)
  BY SeqElements
<1>2. 0 \in T
  <2>1. Upto(0, [k \in 0 .. 0 |-> <<>>])
    OBVIOUS
  <2>. HIDE DEF Upto
  <2>. QED
    BY <1>1, <2>1
<1>3. ASSUME NEW m \in 0 .. Len(z) - 1, m \in T PROVE m + 1 \in T
  <2>1. PICK f : Upto(m, f)
    BY <1>3, Zenon
  <2>0. /\ f \in [0 .. m -> Seq(S)] /\ f[0] = <<>>
        /\ \A k \in 1 .. m : f[k] = f[k - 1] \o z[k]
    BY <2>1, Zenon
  <2>. HIDE DEF Upto
  <2>. DEFINE last == f[m] \o z[m + 1]
              g == [k \in 0 .. m + 1 |-> IF k = m + 1 THEN last ELSE f[k]]
  <2>2. last \in Seq(S)
    <3>1. f[m] \in Seq(S) /\ z[m + 1] \in Seq(S)
      <4>1. m \in 0 .. m /\ m + 1 \in 1 .. Len(z)
        BY <1>1
      <4>. QED
        BY <1>1, <2>0, <4>1, Zenon
    <3>. QED
      BY <3>1, ConcatElements, Zenon
  <2>. HIDE DEF last
  <2>3. /\ g \in [0 .. m + 1 -> Seq(S)] /\ g[0] = <<>> /\ g[m + 1] = last
        /\ \A k \in 0 .. m : g[k] = f[k]
    <3>1. f \in [0 .. m -> Seq(S)] /\ f[0] = <<>>
      BY <2>0, Zenon
    <3>2. m \in Nat
      BY <1>1
    <3>3. g[m + 1] = last /\ \A k \in 0 .. m : g[k] = f[k]
      BY <3>2
    <3>4. ASSUME NEW k \in 0 .. m + 1 PROVE (IF k = m + 1 THEN last ELSE f[k]) \in Seq(S)
      <4>1. k # m + 1 => k \in 0 .. m
        BY <3>2
      <4>. QED
        BY <2>2, <3>1, <4>1, Zenon
    <3>5. g \in [0 .. m + 1 -> Seq(S)]
      BY <3>4, Zenon
    <3>6. 0 \in 0 .. m
      BY <3>2
    <3>. QED
      BY <3>1, <3>3, <3>5, <3>6, Zenon
  <2>. HIDE DEF g
  <2>4. ASSUME NEW k \in 1 .. m + 1 PROVE g[k] = g[k - 1] \o z[k]
    <3>1. k - 1 \in 0 .. m /\ g[k - 1] = f[k - 1]
      BY <2>3
    <3>2. CASE k = m + 1
      <4>1. k - 1 = m
        BY <3>2
      <4>. QED
        BY <2>3, <3>1, <3>2, <4>1, Zenon DEF last
    <3>3. CASE k # m + 1
      <4>1. k \in 1 .. m /\ k \in 0 .. m
        BY <3>3
      <4>. QED
        BY <2>0, <2>3, <3>1, <4>1, Zenon
    <3>. QED
      BY <3>2, <3>3, Zenon
  <2>5. Upto(m + 1, g) /\ m + 1 \in 0 .. Len(z)
    <3>1. m + 1 \in 0 .. Len(z)
      BY <1>1
    <3>. QED
      BY <2>3, <2>4, <3>1, Zenon DEF Upto
  <2>. QED
    BY <2>5
<1>4. Len(z) \in T
  <2>1. \A k \in 0 .. Len(z) : k \in T
    <3>. HIDE DEF T
    <3>. QED
      BY <1>1, <1>2, <1>3, InductionUpTo, Zenon
  <2>2. Len(z) \in 0 .. Len(z)
    BY <1>1
  <2>. QED
    BY <2>1, <2>2, Zenon
<1>5. PICK g : Upto(Len(z), g)
  BY <1>4, Zenon
<1>. QED
  BY <1>5, Zenon DEF ConcatsOf
-----------------------------------------------------------------------------
LEMMA PricesInOrder ==
    ASSUME NEW s \in Side
    PROVE  /\ PriceCount \in Nat
           /\ \A k \in 1 .. PriceCount : PriceAt(s, k) \in Prices
           /\ \A j, k \in 1 .. PriceCount : j < k => Better(s, PriceAt(s, j), PriceAt(s, k))
           /\ \A j, k \in 1 .. PriceCount : j # k => PriceAt(s, j) # PriceAt(s, k)
           /\ \A p \in Prices : \E k \in 1 .. PriceCount : p = PriceAt(s, k)
<1>1. PriceCount \in Nat
  BY OrdersAssumption DEF PriceCount
<1>2. ASSUME NEW k \in 1 .. PriceCount PROVE PriceAt(s, k) \in Prices
  BY OrdersAssumption DEF PriceCount, PriceAt, Prices
<1>3. ASSUME NEW j \in 1 .. PriceCount, NEW k \in 1 .. PriceCount, j < k
      PROVE  Better(s, PriceAt(s, j), PriceAt(s, k))
  <2>1. CASE s = "Ask"
    BY <1>1, <1>3, <2>1, OrdersAssumption DEF PriceAt, Better
  <2>2. CASE s = "Bid"
    BY <1>1, <1>3, <2>2, OrdersAssumption DEF PriceAt, Better
  <2>. QED
    BY <2>1, <2>2 DEF Side
<1>4. ASSUME NEW j \in 1 .. PriceCount, NEW k \in 1 .. PriceCount, j # k
      PROVE  PriceAt(s, j) # PriceAt(s, k)
  BY <1>1, <1>4, OrdersAssumption DEF PriceAt
<1>5. ASSUME NEW p \in Prices PROVE \E k \in 1 .. PriceCount : p = PriceAt(s, k)
  <2>1. CASE s = "Ask"
    <3>1. p - MinPrice + 1 \in 1 .. PriceCount /\ p = PriceAt(s, p - MinPrice + 1)
      BY <2>1, OrdersAssumption DEF PriceCount, PriceAt, Prices
    <3>. QED
      BY <3>1
  <2>2. CASE s # "Ask"
    <3>1. MaxPrice - p + 1 \in 1 .. PriceCount /\ p = PriceAt(s, MaxPrice - p + 1)
      BY <2>2, OrdersAssumption DEF PriceCount, PriceAt, Prices
    <3>. QED
      BY <3>1
  <2>. QED
    BY <2>1, <2>2
<1>. QED
  BY <1>1, <1>2, <1>3, <1>4, <1>5

(* The levels of a side as SideOrders goes through them.                   *)
LevelsInOrder(b, s) == [k \in 1 .. PriceCount |-> b.queue[s][PriceAt(s, k)]]

LEMMA LevelsInOrderType ==
    ASSUME NEW b, BookInv(b), NEW s \in Side
    PROVE  /\ LevelsInOrder(b, s) \in Seq(Seq(Order))
           /\ Len(LevelsInOrder(b, s)) = PriceCount
           /\ \A k \in 1 .. PriceCount : LevelsInOrder(b, s)[k] = b.queue[s][PriceAt(s, k)]
<1>. DEFINE z == LevelsInOrder(b, s)
<1>1. PriceCount \in Nat /\ \A k \in 1 .. PriceCount : PriceAt(s, k) \in Prices
  BY PricesInOrder
<1>2. \A k \in 1 .. PriceCount : b.queue[s][PriceAt(s, k)] \in Seq(Order)
  BY <1>1, LevelTypes, Zenon
<1>3. z \in [1 .. PriceCount -> Seq(Order)]
  BY <1>2, Zenon DEF LevelsInOrder
<1>4. z \in Seq(Seq(Order)) /\ Len(z) = PriceCount
  <2>. HIDE DEF z
  <2>. QED
    BY <1>1, <1>3
<1>5. \A k \in 1 .. PriceCount : z[k] = b.queue[s][PriceAt(s, k)]
  BY Zenon DEF LevelsInOrder
<1>. QED
  BY <1>4, <1>5

(* SideOrders is the concatenation of all levels.                          *)
LEMMA SideIsConcat ==
    ASSUME NEW b, BookInv(b), NEW s \in Side
    PROVE  \E g : ConcatsOf(Order, LevelsInOrder(b, s), g) /\ SideOrders(b, s) = g[PriceCount]
<1>. DEFINE z == LevelsInOrder(b, s)
            n == PriceCount
            Step(u) == [k \in 0 .. n |-> IF k = 0 THEN <<>>
                                         ELSE u[k - 1] \o b.queue[s][PriceAt(s, k)]]
            listed == CHOOSE u : u = Step(u)
<1>1. /\ z \in Seq(Seq(Order)) /\ Len(z) = n
      /\ \A k \in 1 .. n : z[k] = b.queue[s][PriceAt(s, k)]
  BY LevelsInOrderType, Zenon
<1>2. n \in Nat
  BY PricesInOrder
<1>3. SideOrders(b, s) = listed[n]
  BY Zenon DEF SideOrders
<1>. HIDE DEF z, n
<1>4. PICK g : ConcatsOf(Order, z, g)
  BY <1>1, ConcatsExist, Zenon
<1>5. /\ g \in [0 .. n -> Seq(Order)] /\ g[0] = <<>>
      /\ \A k \in 1 .. n : g[k] = g[k - 1] \o z[k]
  BY <1>1, <1>4, Zenon DEF ConcatsOf
<1>6. g = Step(g)
  <2>1. ASSUME NEW k \in 0 .. n
        PROVE  g[k] = IF k = 0 THEN <<>> ELSE g[k - 1] \o b.queue[s][PriceAt(s, k)]
    <3>1. k # 0 => k \in 1 .. n
      BY <1>2
    <3>. QED
      BY <1>1, <1>5, <3>1, Zenon
  <2>2. g = [k \in 0 .. n |-> g[k]]
    BY <1>5, Zenon
  <2>. QED
    BY <2>1, <2>2, Zenon
<1>7. listed = Step(listed)
  <2>. HIDE DEF Step
  <2>. QED
    BY <1>6, Zenon
<1>. HIDE DEF listed
<1>8. \A k \in 0 .. n : listed[k] = IF k = 0 THEN <<>>
                                    ELSE listed[k - 1] \o b.queue[s][PriceAt(s, k)]
  BY <1>7, Zenon
<1>. DEFINE T == {k \in 0 .. n : listed[k] = g[k]}
<1>9. 0 \in T
  <2>1. 0 \in 0 .. n
    BY <1>2
  <2>. QED
    BY <1>5, <1>8, <2>1, Zenon
<1>10. ASSUME NEW k \in 0 .. n - 1, k \in T PROVE k + 1 \in T
  <2>1. k + 1 \in 1 .. n /\ (k + 1) - 1 = k /\ k + 1 \in 0 .. n /\ k + 1 # 0
    BY <1>2
  <2>2. listed[k] = g[k]
    BY <1>10, Zenon
  <2>3. listed[k + 1] = listed[k] \o b.queue[s][PriceAt(s, k + 1)]
    BY <1>8, <2>1, Zenon
  <2>4. g[k + 1] = g[k] \o b.queue[s][PriceAt(s, k + 1)]
    BY <1>1, <1>5, <2>1, Zenon
  <2>. QED
    BY <2>1, <2>2, <2>3, <2>4, Zenon
<1>11. \A k \in 0 .. n : k \in T
  <2>. HIDE DEF T
  <2>. QED
    BY <1>2, <1>9, <1>10, InductionUpTo, Zenon
<1>12. listed[n] = g[n]
  <2>1. n \in 0 .. n
    BY <1>2
  <2>. QED
    BY <1>11, <2>1, Zenon
<1>. QED
  BY <1>3, <1>4, <1>12, Zenon DEF z, n

(* Inserting the orders of a side that c has not begun.                    *)
SideCompleted(b, c, d, s) ==
    /\ BookInv(d) /\ PrefixOf(d, b)
    /\ \A p \in Prices : Len(d.queue[s][p]) = Len(b.queue[s][p])
    /\ \A t \in Side, p \in Prices : t # s => d.queue[t][p] = c.queue[t][p]
    /\ SideOrders(b, s) \in Seq(Order)
    /\ LeadsTo(c, SideOrders(b, s), d)

LEMMA SideLeads ==
    ASSUME NEW b, NEW c, BookInv(b), BookInv(c), PrefixOf(c, b),
           NEW s \in Side, \A p \in Prices : c.queue[s][p] = <<>>
    PROVE  \E d : SideCompleted(b, c, d, s)
<1>. DEFINE z == LevelsInOrder(b, s)
            N == PriceCount
            At(k) == PriceAt(s, k)
<1>1. /\ z \in Seq(Seq(Order)) /\ Len(z) = N
      /\ \A k \in 1 .. N : z[k] = b.queue[s][At(k)]
  BY LevelsInOrderType, Zenon
<1>2. /\ N \in Nat
      /\ \A k \in 1 .. N : At(k) \in Prices
      /\ \A j, k \in 1 .. N : j # k => At(j) # At(k)
      /\ \A p \in Prices : \E k \in 1 .. N : p = At(k)
  BY PricesInOrder
<1>3. PICK g : ConcatsOf(Order, z, g) /\ SideOrders(b, s) = g[N]
  BY SideIsConcat, Zenon
<1>. HIDE DEF z, N, At
<1>4. /\ \A k \in 0 .. N : g[k] \in Seq(Order)
      /\ g[0] = <<>>
      /\ \A k \in 1 .. N : g[k] = g[k - 1] \o z[k]
  BY <1>1, <1>3, Zenon DEF ConcatsOf
<1>. DEFINE Done(d, k) == \A j \in 1 .. N : j <= k => Len(d.queue[s][At(j)]) = Len(b.queue[s][At(j)])
            Rest(d, k) == \A j \in 1 .. N : j > k => d.queue[s][At(j)] = <<>>
            Other(d) == \A t \in Side, p \in Prices : t # s => d.queue[t][p] = c.queue[t][p]
            Stage(d, k) == /\ BookInv(d) /\ PrefixOf(d, b)
                           /\ Done(d, k) /\ Rest(d, k) /\ Other(d)
                           /\ LeadsTo(c, g[k], d)
            T == {k \in 0 .. N : \E d : Stage(d, k)}
<1>5. 0 \in T
  <2>1. LeadsTo(c, <<>>, c)
    <3>. DEFINE f == [k \in {0} |-> c]
    <3>1. f[0] = c /\ Len(<<>>) = 0 /\ \A k \in 1 .. 0 : FALSE
      OBVIOUS
    <3>. HIDE DEF f
    <3>2. InsertsTo(c, <<>>, 0, f)
      BY <3>1, Zenon DEF InsertsTo
    <3>. QED
      BY <3>1, <3>2, Zenon DEF LeadsTo
  <2>2. \A j \in 1 .. N : ~(j <= 0)
    BY <1>2
  <2>3. Done(c, 0)
    BY <2>2, Zenon
  <2>4. Rest(c, 0) /\ Other(c)
    BY <1>2, Zenon
  <2>. HIDE DEF Done, Rest, Other
  <2>5. Stage(c, 0)
    BY <1>4, <2>1, <2>3, <2>4, Zenon
  <2>6. 0 \in 0 .. N
    BY <1>2
  <2>. HIDE DEF Stage
  <2>. QED
    BY <2>5, <2>6, Zenon
<1>6. ASSUME NEW k \in 0 .. N - 1, k \in T PROVE k + 1 \in T
  <2>1. PICK d : Stage(d, k)
    BY <1>6, Zenon
  <2>2. /\ k + 1 \in 1 .. N /\ k + 1 \in 0 .. N /\ k \in 0 .. N /\ (k + 1) - 1 = k /\ k + 1 > k
        /\ \A j \in 1 .. N : (j <= k + 1 <=> j <= k \/ j = k + 1) /\ (j > k + 1 => j > k /\ j # k + 1)
        /\ \A j \in 1 .. N : j <= k => j # k + 1
    BY <1>2
  <2>. DEFINE p == At(k + 1)
  <2>3. p \in Prices /\ z[k + 1] = b.queue[s][p]
    BY <1>1, <1>2, <2>2, Zenon
  <2>4. d.queue[s][p] = <<>>
    BY <2>1, <2>2, Zenon
  <2>5. PICK e : Completed(b, d, e, s, p)
    BY <2>1, <2>3, <2>4, LevelLeads, Zenon
  <2>6. \A j \in 1 .. N : j # k + 1 => e.queue[s][At(j)] = d.queue[s][At(j)]
    BY <1>2, <2>2, <2>5, Zenon DEF Completed, SameElsewhere
  <2>7. Done(e, k + 1)
    <3>1. ASSUME NEW j \in 1 .. N, j <= k + 1 PROVE Len(e.queue[s][At(j)]) = Len(b.queue[s][At(j)])
      <4>1. CASE j = k + 1
        BY <2>5, <4>1, Zenon DEF Completed
      <4>2. CASE j # k + 1
        BY <2>1, <2>2, <2>6, <3>1, <4>2, Zenon
      <4>. QED
        BY <4>1, <4>2, Zenon
    <3>. QED
      BY <3>1, Zenon
  <2>8. Rest(e, k + 1)
    BY <2>1, <2>2, <2>6, Zenon
  <2>9. Other(e)
    <3>1. \A t \in Side, q \in Prices : ~(t = s /\ q = p) => e.queue[t][q] = d.queue[t][q]
      BY <2>5, Zenon DEF Completed, SameElsewhere
    <3>. QED
      BY <2>1, <3>1, Zenon
  <2>10. LeadsTo(c, g[k + 1], e)
    <3>1. LeadsTo(c, g[k], d) /\ LeadsTo(d, z[k + 1], e)
      BY <2>1, <2>3, <2>5, Zenon DEF Completed
    <3>2. g[k] \in Seq(Order) /\ z[k + 1] \in Seq(Order)
      BY <1>4, <2>2, <2>3, LevelTypes, Zenon
    <3>3. LeadsTo(c, g[k] \o z[k + 1], e)
      BY <3>1, <3>2, LeadsToConcat, Zenon
    <3>4. g[k + 1] = g[k] \o z[k + 1]
      BY <1>4, <2>2, Zenon
    <3>. QED
      BY <3>3, <3>4, Zenon
  <2>. HIDE DEF Done, Rest, Other
  <2>11. Stage(e, k + 1)
    BY <2>5, <2>7, <2>8, <2>9, <2>10, Zenon DEF Completed
  <2>. HIDE DEF Stage
  <2>. QED
    BY <2>2, <2>11, Zenon
<1>7. N \in T
  <2>1. \A k \in 0 .. N : k \in T
    <3>. HIDE DEF T
    <3>. QED
      BY <1>2, <1>5, <1>6, InductionUpTo, Zenon
  <2>2. N \in 0 .. N
    BY <1>2
  <2>. QED
    BY <2>1, <2>2, Zenon
<1>8. PICK d : Stage(d, N)
  BY <1>7, Zenon
<1>9. ASSUME NEW p \in Prices PROVE Len(d.queue[s][p]) = Len(b.queue[s][p])
  <2>1. PICK k \in 1 .. N : p = At(k)
    BY <1>2, Zenon
  <2>2. k <= N
    BY <1>2
  <2>. QED
    BY <1>8, <2>1, <2>2, Zenon
<1>10. SideOrders(b, s) = g[N] /\ g[N] \in Seq(Order)
  <2>1. N \in 0 .. N
    BY <1>2
  <2>. QED
    BY <1>1, <1>3, <1>4, <2>1, Zenon
<1>11. SideCompleted(b, c, d, s)
  BY <1>8, <1>9, <1>10, Zenon DEF SideCompleted
<1>. QED
  BY <1>11, Zenon
-----------------------------------------------------------------------------
(* The index names the orders of the queues.                               *)
LEMMA IndexFromQueues ==
    ASSUME NEW b, NEW c, IndexIsExactIn(b), IndexIsExactIn(c), c.queue = b.queue
    PROVE  c.index \subseteq b.index
<1>. SUFFICES ASSUME NEW id \in c.index PROVE id \in b.index
  OBVIOUS
<1>1. PICK s \in Side, p \in Prices : \E i \in 1 .. Len(c.queue[s][p]) : c.queue[s][p][i].id = id
  BY Zenon DEF IndexIsExactIn, IndexedOrdersRest
<1>2. \A i \in 1 .. Len(b.queue[s][p]) : b.queue[s][p][i].id \in b.index
  BY Zenon DEF IndexIsExactIn, OrdersAreIndexed
<1>. QED
  BY <1>1, <1>2, Zenon

(* A book is determined by its queues: cached prices, index and count say  *)
(* nothing that the levels do not say.                                     *)
LEMMA QueuesDetermineBook ==
    ASSUME NEW b, NEW c, BookInv(b), BookInv(c),
           \A t \in Side, r \in Prices : c.queue[t][r] = b.queue[t][r]
    PROVE  c = b
<1>1. b \in Book /\ c \in Book
  BY DEF BookInv
<1>2. /\ b.queue \in [Side -> [Prices -> Seq(Order)]] /\ c.queue \in [Side -> [Prices -> Seq(Order)]]
      /\ b.best \in [Side -> Prices \cup {NoPrice}] /\ c.best \in [Side -> Prices \cup {NoPrice}]
  BY <1>1, Zenon DEF Book
<1>3. c.queue = b.queue
  <2>1. ASSUME NEW t \in Side PROVE c.queue[t] = b.queue[t]
    <3>1. c.queue[t] \in [Prices -> Seq(Order)] /\ b.queue[t] \in [Prices -> Seq(Order)]
      BY <1>2, Zenon
    <3>2. \A r \in Prices : c.queue[t][r] = b.queue[t][r]
      OBVIOUS
    <3>3. /\ c.queue[t] = [r \in Prices |-> c.queue[t][r]]
          /\ b.queue[t] = [r \in Prices |-> b.queue[t][r]]
      BY <3>1, Zenon
    <3>. QED
      BY <3>2, <3>3, Zenon
  <2>2. c.queue = [t \in Side |-> c.queue[t]] /\ b.queue = [t \in Side |-> b.queue[t]]
    BY <1>2, Zenon
  <2>. QED
    BY <2>1, <2>2, Zenon
<1>4. c.best = b.best
  <2>1. ASSUME NEW s \in Side PROVE c.best[s] = b.best[s]
    <3>1. Levels(c, s) = Levels(b, s)
      BY <1>3, Zenon DEF Levels
    <3>2. \/ b.best[s] = NoPrice /\ Levels(b, s) = {}
          \/ b.best[s] \in Levels(b, s) /\ \A p \in Levels(b, s) : ~Better(s, p, b.best[s])
      BY Zenon DEF BookInv, BestIsBestIn
    <3>3. \/ c.best[s] = NoPrice /\ Levels(b, s) = {}
          \/ c.best[s] \in Levels(b, s) /\ \A p \in Levels(b, s) : ~Better(s, p, c.best[s])
      BY <3>1, Zenon DEF BookInv, BestIsBestIn
    <3>4. \A p \in Levels(b, s) : p \in Int
      BY OrdersAssumption DEF Levels, Prices
    <3>. QED
      BY <3>2, <3>3, <3>4 DEF Better
  <2>. QED
    <3>1. c.best = [s \in Side |-> c.best[s]] /\ b.best = [s \in Side |-> b.best[s]]
      BY <1>2, Zenon
    <3>. QED
      BY <2>1, <3>1, Zenon
<1>5. c.index = b.index
  <2>1. c.index \subseteq b.index /\ b.index \subseteq c.index
    BY <1>3, IndexFromQueues, Zenon DEF BookInv
  <2>. QED
    BY <2>1
<1>6. c.count = b.count
  BY <1>5, Zenon DEF BookInv, CountIsIndexSizeIn
<1>. QED
  BY <1>1, <1>3, <1>4, <1>5, <1>6 DEF Book

(* restore_from_orders of orders none of which is refused.                 *)
LEMMA RestoreOfAccepted ==
    ASSUME NEW q \in Seq(Order), NEW d, LeadsTo(EmptyBook, q, d)
    PROVE  RestoreFromOrders(q) = [code |-> "Ok", book |-> d]
<1>. DEFINE n == Len(q)
            start == [code |-> "Ok", book |-> EmptyBook]
            Step(u) == [k \in 0 .. n |-> IF k = 0 THEN start ELSE RestoredWith(u[k - 1], q[k])]
            restored == CHOOSE u : u = Step(u)
<1>1. n \in Nat
  BY SeqElements
<1>2. PICK f : InsertsTo(EmptyBook, q, n, f) /\ f[n] = d
  BY Zenon DEF LeadsTo
<1>. DEFINE w == [k \in 0 .. n |-> [code |-> "Ok", book |-> f[k]]]
<1>3. w[0] = start
  BY <1>1, <1>2 DEF InsertsTo
<1>4. ASSUME NEW k \in 1 .. n PROVE w[k] = RestoredWith(w[k - 1], q[k])
  <2>1. k \in 0 .. n /\ k - 1 \in 0 .. n
    BY <1>1
  <2>2. InsertCode(f[k - 1], q[k]) = "Ok" /\ f[k] = Inserted(f[k - 1], q[k])
    BY <1>2, Zenon DEF InsertsTo
  <2>3. w[k] = [code |-> "Ok", book |-> Inserted(f[k - 1], q[k])]
        /\ w[k - 1] = [code |-> "Ok", book |-> f[k - 1]]
    BY <2>1, <2>2
  <2>. HIDE DEF w
  <2>. QED
    BY <2>2, <2>3 DEF RestoredWith
<1>5. w = Step(w)
  <2>1. ASSUME NEW k \in 0 .. n
        PROVE  w[k] = IF k = 0 THEN start ELSE RestoredWith(w[k - 1], q[k])
    <3>1. k # 0 => k \in 1 .. n
      BY <1>1
    <3>. HIDE DEF w, start
    <3>. QED
      BY <1>3, <1>4, <3>1, Zenon
  <2>2. w = [k \in 0 .. n |-> w[k]]
    OBVIOUS
  <2>. HIDE DEF w, start
  <2>. QED
    BY <2>1, <2>2, Zenon
<1>6. restored = Step(restored)
  <2>. HIDE DEF Step, w
  <2>. QED
    BY <1>5, Zenon
<1>7. RestoreFromOrders(q) = restored[n]
  BY DEF RestoreFromOrders
<1>. HIDE DEF restored
<1>8. /\ restored[0] = start
      /\ \A k \in 1 .. n : restored[k] = RestoredWith(restored[k - 1], q[k])
  <2>1. \A k \in 0 .. n : restored[k] = IF k = 0 THEN start ELSE RestoredWith(restored[k - 1], q[k])
    BY <1>6, Zenon
  <2>2. 0 \in 0 .. n /\ \A k \in 1 .. n : k \in 0 .. n /\ k # 0
    BY <1>1
  <2>. QED
    BY <2>1, <2>2, Zenon
<1>. DEFINE T == {k \in 0 .. n : restored[k] = w[k]}
<1>9. 0 \in T
  BY <1>1, <1>3, <1>8
<1>10. ASSUME NEW k \in 0 .. n - 1, k \in T PROVE k + 1 \in T
  <2>1. k + 1 \in 1 .. n /\ k + 1 \in 0 .. n /\ (k + 1) - 1 = k
    BY <1>1
  <2>. HIDE DEF w
  <2>2. restored[k] = w[k]
    BY <1>10
  <2>3. restored[k + 1] = w[k + 1]
    BY <1>4, <1>8, <2>1, <2>2
  <2>. QED
    BY <2>1, <2>3
<1>11. \A k \in 0 .. n : k \in T
  <2>. HIDE DEF T
  <2>. QED
    BY <1>1, <1>9, <1>10, InductionUpTo, Zenon
<1>12. n \in 0 .. n
  BY <1>1
<1>13. restored[n] = w[n] /\ w[n] = [code |-> "Ok", book |-> f[n]]
  BY <1>11, <1>12
<1>. QED
  BY <1>2, <1>7, <1>13

(* A snapshot of any book gives the book back.                             *)
LEMMA RestoreRebuilds ==
    ASSUME NEW b, BookInv(b)
    PROVE  RestoreFromOrders(AllRestingOrders(b)) = [code |-> "Ok", book |-> b]
<1>1. \A t \in Side, r \in Prices : EmptyBook.queue[t][r] = <<>>
  BY DEF EmptyBook
<1>2. PrefixOf(EmptyBook, b)
  <2>1. ASSUME NEW t \in Side, NEW r \in Prices
        PROVE  /\ Len(EmptyBook.queue[t][r]) <= Len(b.queue[t][r])
               /\ \A i \in 1 .. Len(EmptyBook.queue[t][r]) :
                     EmptyBook.queue[t][r][i] = b.queue[t][r][i]
    <3>1. EmptyBook.queue[t][r] = <<>> /\ Len(b.queue[t][r]) \in Nat
      BY <1>1, LevelTypes, Zenon
    <3>2. Len(<<>>) = 0 /\ \A i \in 1 .. 0 : FALSE
      OBVIOUS
    <3>3. Len(EmptyBook.queue[t][r]) = 0
      BY <3>1, <3>2, Zenon
    <3>. QED
      BY <3>1, <3>2, <3>3
  <2>. QED
    BY <2>1, Zenon DEF PrefixOf
<1>3. "Ask" \in Side /\ "Bid" \in Side
  BY DEF Side
<1>4. PICK c : SideCompleted(b, EmptyBook, c, "Ask")
  BY <1>1, <1>2, <1>3, EmptyBookInv, SideLeads, Zenon
<1>5. /\ BookInv(c) /\ PrefixOf(c, b)
      /\ \A p \in Prices : c.queue["Bid"][p] = <<>>
  BY <1>1, <1>3, <1>4 DEF SideCompleted
<1>6. PICK d : SideCompleted(b, c, d, "Bid")
  BY <1>3, <1>5, SideLeads, Zenon
<1>7. LeadsTo(EmptyBook, AllRestingOrders(b), d) /\ AllRestingOrders(b) \in Seq(Order)
  BY <1>4, <1>6, LeadsToConcat, ConcatElements, Zenon DEF SideCompleted, AllRestingOrders
<1>8. ASSUME NEW t \in Side, NEW r \in Prices PROVE d.queue[t][r] = b.queue[t][r]
  <2>1. Len(d.queue[t][r]) = Len(b.queue[t][r])
    <3>1. CASE t = "Bid"
      BY <1>6, <3>1, Zenon DEF SideCompleted
    <3>2. CASE t # "Bid"
      <4>1. t = "Ask"
        BY <3>2 DEF Side
      <4>2. d.queue[t][r] = c.queue[t][r]
        BY <1>6, <3>2, Zenon DEF SideCompleted
      <4>. QED
        BY <1>4, <4>1, <4>2, Zenon DEF SideCompleted
    <3>. QED
      BY <3>1, <3>2
  <2>2. \A i \in 1 .. Len(d.queue[t][r]) : d.queue[t][r][i] = b.queue[t][r][i]
    BY <1>6, Zenon DEF SideCompleted, PrefixOf
  <2>3. d.queue[t][r] \in Seq(Order) /\ b.queue[t][r] \in Seq(Order)
    BY <1>6, LevelTypes, Zenon DEF SideCompleted
  <2>. QED
    BY <2>1, <2>2, <2>3, SeqExtensional, Zenon
<1>9. d = b
  BY <1>6, <1>8, QueuesDetermineBook, Zenon DEF SideCompleted
<1>. QED
  BY <1>7, <1>9, RestoreOfAccepted, Zenon

(* In every state of the engine, also in the middle of a match, a snapshot *)
(* taken by all_resting_orders restores the book as it is: queue order,    *)
(* cached prices, index and slot count, and no insert is refused.          *)
THEOREM SnapshotRebuildsBook == MatchSpec => []RestoreGivesBookBack
<1>1. MatchInv => RestoreGivesBookBack
  BY RestoreRebuilds, Zenon DEF MatchInv, RestoreGivesBookBack
<1>. QED
  BY <1>1, MatchInvariance, PTL
=============================================================================
