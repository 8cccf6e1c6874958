--------------------------- MODULE LimitOrderBook ---------------------------
(***************************************************************************)
(* What the matching engine promises: a book is, on either side, one       *)
(* sequence of orders in price-time priority, and the whole of add_order   *)
(* is the one step that answers it.  The trades of an incoming order are   *)
(* stated declaratively, from the quantity that stands in front of every   *)
(* resting order; there is no loop, level, cached price or arena here.     *)
(***************************************************************************)
EXTENDS Orders

VARIABLES
    resting,      \* [Side -> Seq(Order)], best and oldest first
    report        \* the answer to the last call

lobVars == <<resting, report>>

(* How many orders of the opposite side o may reach: the longest prefix    *)
(* that crosses o and holds no order of o's own trader.                    *)
Reach(o, m) ==
    Cardinality({i \in 1 .. Len(m) :
        \A j \in 1 .. i : Crosses(o, m[j].price) /\ m[j].trader # o.trader})

(* The quantity in front of the i-th order, and what o takes from it.      *)
Ahead(m, i) ==
    LET sum[n \in 0 .. Len(m)] == IF n = 0 THEN 0 ELSE sum[n - 1] + m[n].qty
    IN  sum[i - 1]

Traded(o, m, i) ==
    IF i > Reach(o, m) \/ Ahead(m, i) >= o.qty THEN 0
    ELSE LET left == o.qty - Ahead(m, i) IN IF left <= m[i].qty THEN left ELSE m[i].qty

FillsOf(o, m) ==
    LET n == Cardinality({i \in 1 .. Len(m) : Traded(o, m, i) > 0})
    IN  [i \in 1 .. n |-> [taker |-> o.id, maker |-> m[i].id, price |-> m[i].price,
                           qty |-> Traded(o, m, i),
                           makerFullyFilled |-> Traded(o, m, i) = m[i].qty]]

(* What the orders in reach leave of o, and what o leaves of the side.     *)
Unfilled(o, m) ==
    LET offered == Ahead(m, Reach(o, m) + 1)
    IN  IF offered >= o.qty THEN 0 ELSE o.qty - offered

MakersAfter(o, m) ==
    LET spent == Cardinality({i \in 1 .. Len(m) : Traded(o, m, i) = m[i].qty})
    IN  [i \in 1 .. Len(m) - spent |->
            [m[spent + i] EXCEPT !.qty = @ - Traded(o, m, spent + i)]]

(* o has quantity left and the next order it would meet is its own.        *)
MeetsItself(o, m) ==
    /\ Unfilled(o, m) > 0
    /\ Reach(o, m) < Len(m)
    /\ Crosses(o, m[Reach(o, m) + 1].price)

(* o joins its side behind every order of an equal or a better price.      *)
Placed(s, o) ==
    LET ahead == Cardinality({i \in 1 .. Len(s) : ~Better(o.side, o.price, s[i].price)})
    IN  SubSeq(s, 1, ahead) \o <<o>> \o SubSeq(s, ahead + 1, Len(s))

Removed(s, i) == SubSeq(s, 1, i - 1) \o SubSeq(s, i + 1, Len(s))

RestingIds(r) == UNION {{r[s][i].id : i \in 1 .. Len(r[s])} : s \in Side}
-----------------------------------------------------------------------------
LobStart(o) ==
    /\ report.status # "Pending"
    /\ report' = Pending(o)
    /\ UNCHANGED resting

(* An order of a resting id is refused only once it has traded, and the    *)
(* trades of a refused order are not handed back: this is what the code    *)
(* does, see the finding on duplicate ids.                                 *)
LobFinish ==
    LET o      == report.order
        m      == resting[Opposite(o.side)]
        traded == [resting EXCEPT ![Opposite(o.side)] = MakersAfter(o, m)]
        left   == [o EXCEPT !.qty = Unfilled(o, m)]
        Ends(status, r) == report' = Answer(status, FillsOf(o, m)) /\ resting' = r
        Refused(status) == report' = Answer(status, <<>>) /\ resting' = traded
    IN  /\ report.status = "Pending"
        /\ IF left.qty = 0 THEN Ends("FullyFilled", traded)
           ELSE IF MeetsItself(o, m) THEN Ends("CancelledSelfTrade", traded)
           ELSE IF o.id \in RestingIds(traded) THEN Refused("DuplicateOrderId")
           ELSE IF Len(traded["Bid"]) + Len(traded["Ask"]) = Capacity THEN Refused("ArenaFull")
           ELSE Ends(IF left = o THEN "Resting" ELSE "PartiallyFilled",
                     [traded EXCEPT ![o.side] = Placed(@, left)])

LobRejectZero ==
    /\ report.status # "Pending"
    /\ report' = Answer("ZeroQuantity", <<>>)
    /\ UNCHANGED resting

LobCancel(id) ==
    /\ report.status # "Pending"
    /\ IF id \in RestingIds(resting)
       THEN /\ \E s \in Side : \E i \in 1 .. Len(resting[s]) :
                  /\ resting[s][i].id = id
                  /\ resting' = [resting EXCEPT ![s] = Removed(@, i)]
            /\ report' = Answer("Ok", <<>>)
       ELSE /\ report' = Answer("OrderNotFound", <<>>)
            /\ UNCHANGED resting

LobInit == resting = [s \in Side |-> <<>>] /\ report = Answer("Ok", <<>>)

LobNext ==
    \/ \E o \in Order : LobStart(o)
    \/ LobFinish
    \/ LobRejectZero
    \/ \E id \in Ids : LobCancel(id)

LobSpec == LobInit /\ [][LobNext]_lobVars
=============================================================================
