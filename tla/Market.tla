------------------------------- MODULE Market -------------------------------
(****************************************************************************)
(* One symbol's Market and the two threads that use it: the FIX thread of   *)
(* the exchange (lob(): a counter order of the B book, then the user's own  *)
(* order) and the feed thread (TraderAlgorithms::matcher for every quote    *)
(* and every external deal, Market::match under the matcher's mutex).  The  *)
(* price the FIX thread sees comes from the quote bus, later.               *)
(*                                                                          *)
(* One pass of match()'s loop is one action; while the loop runs, the       *)
(* mutex keeps insert() out.                                                *)
(****************************************************************************)
EXTENDS OrderList, Functions

CONSTANTS Prices,       \* prices of quotes and orders
          Quantities,   \* quantities of orders and deals
          MaxTickets,   \* bound: orders of the run, counter orders included
          MaxDay,       \* bound: days of the run
          Kinds,        \* order types of opening orders: "limit", "market"
          Modes,        \* when and at which price matcher() may match
          Settlement,   \* FinFabr->_settlement: T + 0 or T + 1
          Expiration,   \* _pending_expiration_time is a day (else 0, never)
          Closing,      \* whether traders close their tickets
          None

ASSUME MarketAssumption ==
    /\ Prices \subseteq Nat \ {0} /\ Quantities \subseteq Nat \ {0}
    /\ MaxTickets \in Nat /\ MaxDay \in Nat \ {0}
    /\ Kinds \subseteq {"limit", "market"}
    /\ Modes \subseteq {"order_in", "close", "next", "external"}
    /\ Settlement \in {0, 1} /\ Expiration \in BOOLEAN /\ Closing \in BOOLEAN

VARIABLES
    orders,  \* MapOrder: ticket -> order, tickets in the order of insertion
    list,    \* list[side]: _bidOrders, _askOrders
    stock,   \* FinFabr->_stock: the quote the FIX thread sees, None at first
    today,   \* day of the last quote matcher() saw
    pre,     \* _symbol_market_price: PreTime and PrePrice, None at first
             \* (kept in the modes that read it)
    bus,     \* the deposited quote that FixBeam has yet to take, or None
    round,   \* the feed thread: its step, the price it uses, that price's day
             \* (history), and the quote it will deposit, None after a deal
    mode,    \* FinFabr: the settlement and matching of this run, see MatchQuote
    intake   \* the FIX thread: its step, and the order it is placing

vars == <<orders, list, stock, today, pre, bus, round, mode, intake>>

Idle == [pc |-> "idle"]
Tickets == DOMAIN orders
Opposite(side) == IF side = "buy" THEN "sell" ELSE "buy"
Smaller(m, n) == IF m < n THEN m ELSE n

Init ==
    /\ orders = << >>
    /\ list = [s \in Sides |-> EmptyList]
    /\ stock = None /\ bus = None /\ pre = None
    /\ today = 1
    /\ round = Idle /\ intake = Idle
    /\ mode \in Modes

\* The constructors of OrderItem and OrderPending, TradeTicket() and Bot().
NewOrder(side, kind, price, quantity, closes, bot, day) ==
    [side |-> side, kind |-> kind, price |-> price, bot |-> bot,
     quantity |-> quantity, open |-> quantity, leaves |-> quantity,
     executed |-> 0, active |-> 0, last |-> price, closer |-> FALSE,
     closes |-> closes, day |-> day]

\* OrderMatcher::insert: both maps, with the mutex that match() holds.
MutexIsFree == round.pc # "match"

InsertOrder(order) ==
    LET t == Len(orders) + 1
    IN  /\ MutexIsFree
        /\ orders' = Append(orders, order)
        /\ list' = [list EXCEPT ![order.side] = Insert(@, orders', t)]

-----------------------------------------------------------------------------
(* The FIX thread: lob(). *)

CanTake == intake.pc = "idle" /\ stock # None /\ Len(orders) + 2 <= MaxTickets

\* A new long or short order reaches E2LScript(), which lets it pass.
OpenOrder(side, kind, price, quantity) ==
    /\ CanTake
    /\ intake' = [pc |-> "bot", side |-> side, kind |-> kind, price |-> price,
                  quantity |-> quantity, closes |-> NoTicket, day |-> stock.day]
    /\ UNCHANGED <<orders, list, stock, today, pre, bus, round, mode>>

\* CheckClose() and OrderPending::CloseOrder(), without the mutex.
CloseTicket(t, price, lots) ==
    LET o == orders[t]
    IN  /\ Closing /\ CanTake
        /\ ~o.bot /\ o.closes = NoTicket
        /\ o.open # 0
        /\ Settlement = 1 => o.day # stock.day
        /\ orders' = [orders EXCEPT ![t].closer = TRUE]
        /\ intake' = [pc |-> "bot", side |-> Opposite(o.side), kind |-> "stop",
                      price |-> price, quantity |-> lots,
                      closes |-> t, day |-> stock.day]
        /\ UNCHANGED <<list, stock, today, pre, bus, round, mode>>

\* AddBotTicket(): the counter order, at the price of the stock.
AddBotTicket ==
    /\ intake.pc = "bot"
    /\ InsertOrder(NewOrder(Opposite(intake.side), intake.kind, stock.price,
                            intake.quantity, NoTicket, TRUE, stock.day))
    /\ intake' = [intake EXCEPT !.pc = "order"]
    /\ UNCHANGED <<stock, today, pre, bus, round, mode>>

\* processOrder(): the user's order follows.
ProcessOrder ==
    /\ intake.pc = "order"
    /\ InsertOrder(NewOrder(intake.side, intake.kind, intake.price,
                            intake.quantity, intake.closes, FALSE,
                            intake.day))
    /\ intake' = Idle
    /\ UNCHANGED <<stock, today, pre, bus, round, mode>>

\* CheckMargin() returns -1: the opening order is refused, its counter order
\* stays.
RefuseOrder ==
    /\ intake.pc = "order" /\ intake.closes = NoTicket
    /\ intake' = Idle
    /\ UNCHANGED <<orders, list, stock, today, pre, bus, round, mode>>

\* FixBeam: the quote reaches FinFabr->_stock.
UpdateStock ==
    /\ bus # None
    /\ stock' = bus /\ bus' = None
    /\ UNCHANGED <<orders, list, today, pre, round, intake, mode>>

-----------------------------------------------------------------------------
(* The feed thread: matcher(), then match(). *)

\* The quote whose price a round started by this quote uses (price 0: that of
\* the orders), None for no match.
MatchQuote(quote) ==
    LET newDay == pre # None /\ pre.day # quote.day
    IN  CASE mode = "order_in" -> [quote EXCEPT !.price = 0]
          [] mode = "external" -> quote
          [] mode = "close" -> IF newDay THEN pre ELSE None
          [] mode = "next" -> IF newDay THEN quote ELSE None

\* A slip: the quote is deposited before it is matched.
DepositFirst(price, day) ==
    LET quote == [price |-> price, day |-> day]
        used == IF orders = << >> THEN None ELSE MatchQuote(quote)
    IN  /\ round.pc = "idle" /\ bus = None
        /\ today' = day /\ bus' = quote
        /\ pre' = IF orders # << >> /\ mode \in {"close", "next"}
                  THEN quote ELSE pre
        /\ round' = IF used = None THEN round
                    ELSE [pc |-> "ready", price |-> used.price,
                          day |-> used.day, quote |-> None]
        /\ UNCHANGED <<orders, list, stock, intake, mode>>

\* A quote of FeedData::ctrl, with volume and, under match_trigger, marked as
\* a trade.  No market exists before the first order: matcher() returns.
Quote(price, day) ==
    LET quote == [price |-> price, day |-> day]
        used == IF orders = << >> THEN None ELSE MatchQuote(quote)
    IN  /\ round.pc = "idle" /\ bus = None
        /\ today' = day
        /\ pre' = IF orders # << >> /\ mode \in {"close", "next"}
                  THEN quote ELSE pre
        /\ IF used = None
           THEN bus' = quote /\ UNCHANGED round
           ELSE /\ round' = [pc |-> "ready", price |-> used.price,
                             day |-> used.day, quote |-> quote]
                /\ UNCHANGED bus
        /\ UNCHANGED <<orders, list, stock, intake, mode>>

\* disable(): the order counts as filled.
Disabled(o) == [o EXCEPT !.quantity = 0, !.executed = 0, !.open = 0]

\* An external deal for a resting order: quantity 0 cancels it.  matcher()
\* writes the order before it takes the mutex.
Deal(t, quantity, price) ==
    /\ mode = "external" /\ round.pc = "idle"
    /\ ~orders[t].bot /\ ~Filled(orders[t])
    /\ orders' = [orders EXCEPT ![t] =
                    [(IF quantity = 0 THEN Disabled(@) ELSE @)
                        EXCEPT !.active = quantity]]
    /\ round' = [pc |-> "ready", price |-> price, day |-> today,
                 quote |-> None]
    /\ UNCHANGED <<list, stock, today, pre, bus, intake, mode>>

\* Market::PendingEvent on the order of the only side that is left.
PendingEvent(o) ==
    IF Expiration /\ o.day < today
    THEN [o EXCEPT !.leaves = 0, !.open = o.executed, !.quantity = o.executed]
    ELSE o

Bid == Offered(list["buy"], orders)
Ask == Offered(list["sell"], orders)
BidEmpty == IsEmpty(list["buy"], orders)
AskEmpty == IsEmpty(list["sell"], orders)
SpreadBoth == list' = [s \in Sides |-> Spread(list[s], orders)]

\* The price of the pair, and whether a limit keeps it from trading.
PairPrice(b, a, mprice) ==
    IF mprice > 0 THEN mprice
    ELSE IF orders[b].bot THEN orders[b].price ELSE orders[a].price

\* A slip: the type of the ask decides, whoever the user is.
KindOfAsk(b, a) == orders[a].kind

PairKind(b, a) == IF orders[b].bot THEN orders[a].kind ELSE orders[b].kind

\* A slip: the limit is compared before the market price replaces the pair's.
ReachedTooEarly(b, a, mprice) ==
    PairKind(b, a) = "limit" => orders[b].price >= PairPrice(b, a, 0)

Reached(b, a, mprice) ==
    PairKind(b, a) = "limit" => orders[b].price >= PairPrice(b, a, mprice)

\* A slip: what the bid has left, whatever the ask has.
WholeBid(b, a) == orders[b].leaves

\* qtyAtive of the bid before that of the ask, else what both have left.
PairQuantity(b, a) ==
    IF orders[b].active > 0 THEN orders[b].active
    ELSE IF orders[a].active > 0 THEN orders[a].active
    ELSE Smaller(orders[b].leaves, orders[a].leaves)

\* Lots(): what closing lots leave open.
OpenAfter(o, lots) == IF lots > o.open \/ lots = 0 THEN 0 ELSE o.open - lots

\* execute(), and Lots() for a ticket that is being closed.  (No order of
\* lob() or AddBotTicket() takes the margin branches: TradeTicket() or Bot().)
Executed(o, price, quantity) ==
    LET q == Smaller(quantity, o.leaves)
    IN  [o EXCEPT !.leaves = @ - q, !.executed = @ + q, !.last = price,
                  !.open = IF o.closer THEN OpenAfter(o, q) ELSE @]

EndRound ==
    /\ round' = Idle
    /\ bus' = IF round.quote = None THEN bus ELSE round.quote

\* Both lists are empty.
MatchNothing ==
    /\ round.pc \in {"ready", "match"}
    /\ BidEmpty /\ AskEmpty
    /\ EndRound
    /\ UNCHANGED <<orders, list, stock, today, pre, intake, mode>>

\* A side offers nothing, or is the only one, or the limit is not reached.
MatchStops ==
    LET pair == Bid # NoTicket /\ Ask # NoTicket
        oneSided == BidEmpty # AskEmpty
        only == IF BidEmpty THEN Ask ELSE Bid
    IN  /\ round.pc \in {"ready", "match"}
        /\ ~(BidEmpty /\ AskEmpty)
        /\ pair => oneSided \/ ~Reached(Bid, Ask, round.price)
        /\ SpreadBoth
        /\ orders' = IF pair /\ oneSided
                     THEN [orders EXCEPT ![only] = PendingEvent(@)]
                     ELSE orders
        /\ EndRound
        /\ UNCHANGED <<stock, today, pre, intake, mode>>

\* The pair trades, and the loop goes on.
MatchTrades ==
    /\ round.pc \in {"ready", "match"}
    /\ ~(BidEmpty \/ AskEmpty)
    /\ Bid # NoTicket /\ Ask # NoTicket /\ Reached(Bid, Ask, round.price)
    /\ LET price == PairPrice(Bid, Ask, round.price)
           q == PairQuantity(Bid, Ask)
       IN  orders' = [orders EXCEPT ![Bid] = Executed(@, price, q),
                                    ![Ask] = Executed(@, price, q)]
    /\ SpreadBoth
    /\ round' = [round EXCEPT !.pc = "match"]
    /\ UNCHANGED <<stock, today, pre, bus, intake, mode>>

Match == MatchNothing \/ MatchStops \/ MatchTrades

-----------------------------------------------------------------------------
FixThread ==
    \/ \E s \in Sides, k \in Kinds, p \in Prices, q \in Quantities :
          OpenOrder(s, k, p, q)
    \/ \E t \in Tickets, p \in Prices :
          \E q \in 1 .. orders[t].quantity : CloseTicket(t, p, q)
    \/ AddBotTicket
    \/ ProcessOrder
    \/ RefuseOrder

Quotes ==
    \E p \in Prices, d \in {today, today + 1} : d <= MaxDay /\ Quote(p, d)

Deals ==
    \E t \in Tickets, q \in Quantities \cup {0}, p \in Prices : Deal(t, q, p)

Next == FixThread \/ UpdateStock \/ Quotes \/ Deals \/ Match

Spec == Init /\ [][Next]_vars

\* The feed goes on, and each thread goes on with what it has begun.
FairSpec ==
    /\ Spec
    /\ WF_vars(Quotes) /\ WF_vars(UpdateStock) /\ WF_vars(Match)
    /\ WF_vars(AddBotTicket \/ ProcessOrder)

-----------------------------------------------------------------------------
(* Properties. *)

Order ==
    [side : Sides, kind : Kinds \cup {"stop"}, price : Prices, bot : BOOLEAN,
     quantity : Nat, open : Nat, leaves : Nat, executed : Nat,
     active : Quantities \cup {0}, last : Prices, closer : BOOLEAN,
     closes : 0 .. MaxTickets, day : 1 .. MaxDay]

QuoteRecord == [price : Prices, day : 1 .. MaxDay]

\* Types of all the state; the tail is a level of its list.
TypeOK ==
    /\ orders \in Seq(Order) /\ Len(orders) <= MaxTickets
    /\ \A s \in Sides :
          /\ list[s].levels \in Seq(Seq(Tickets))
          /\ list[s].tail \in DOMAIN list[s].levels
    /\ {stock, bus, pre} \subseteq QuoteRecord \cup {None}
    /\ today \in 1 .. MaxDay /\ mode \in Modes
    /\ round \in {Idle} \cup [pc : {"ready", "match"}, price : Prices \cup {0},
                              day : 1 .. MaxDay, quote : QuoteRecord \cup {None}]
    /\ intake \in {Idle} \cup
         [pc : {"bot", "order"}, side : Sides, kind : Kinds \cup {"stop"},
          price : Prices, quantity : Nat \ {0}, closes : 0 .. MaxTickets,
          day : 1 .. MaxDay]

Live == {t \in Tickets : ~Filled(orders[t])}

\* Every live order stands at exactly one place of its side's list, whatever
\* levels were opened, emptied and passed by the head before; no list holds
\* an order of the other side.
NothingLost ==
    /\ \A t \in Live :
          LET l == list[orders[t].side]
          IN  \E p \in Places(l) : \A q \in Places(l) : At(l, q) = t <=> q = p
    /\ \A s \in Sides : \A p \in Places(list[s]) :
          orders[At(list[s], p)].side = s

\* From the head on, an order comes after all better ones and after the older
\* ones of its price: the order in which spread() will offer them.
InPriceTimeOrder ==
    \A s \in Sides : \A p, q \in Places(list[s]) :
        LET t == At(list[s], p)
            u == At(list[s], q)
        IN  Before(p, q) => \/ Better(orders[t], orders[u])
                            \/ orders[t].price = orders[u].price /\ t < u

\* What trading leaves behind is gone from the list before anyone looks: only
\* the order at the head may be filled, the others are live.
OnlyHeadIsFilled ==
    \A s \in Sides : \A p \in Places(list[s]) :
        Filled(orders[At(list[s], p)]) => p = <<1, 1>>

\* Whatever insert(), leave() and matching do in between, every live order is in
\* its list, once, and no filled one hides behind the head.
BookInv == TypeOK /\ NothingLost /\ OnlyHeadIsFilled

\* match() executes the same quantity on both sides, external batches apart.
ExecutedOn(side) ==
    SumFunctionOnSet([t \in Tickets |-> orders[t].executed],
                     {t \in Tickets : orders[t].side = side})

BothSidesExecute ==
    mode # "external" => ExecutedOn("buy") = ExecutedOn("sell")

\* A limit bid never pays more than its limit.
BuyLimitsHold ==
    \A t \in Tickets :
        LET o == orders[t]
        IN  o.side = "buy" /\ o.kind = "limit" /\ ~o.bot /\ o.executed > 0
                => o.last <= o.price

\* "Price/Time": the two lists trade as a price-time book of the live orders.
resting ==
    [t \in Live |-> [side |-> orders[t].side, price |-> orders[t].price,
                     left |-> orders[t].leaves]]

PriceTimeBook == INSTANCE PriceTime WITH resting <- resting

ImplementsPriceTime == PriceTimeBook!Spec

\* No order trades at a price of a day before the one it was placed on: a quote
\* is matched before any trader sees it.
FillsUseLaterPrices ==
    [][\A t \in Tickets : orders'[t].executed > orders[t].executed
                             => orders[t].day <= round.day]_vars

\* The best bid and the best ask face each other at prices that trade.
Crosses ==
    \E b, a \in Live :
        /\ orders[b].side = "buy" /\ orders[a].side = "sell"
        /\ PriceTimeBook!First(b) /\ PriceTimeBook!First(a)
        /\ Reached(b, a, 0)

\* match() returns, whatever its loop meets, and, although a round ends whenever
\* a list passes an empty level, crossing orders do not stay for ever: again and
\* again the feed thread is between two rounds and nothing is left that trades.
MatchingProceeds == []<>(round.pc = "idle" /\ ~Crosses)

\* An order alone in the market is closed some time after it has expired.
ExpiredOrdersClose ==
    \A t \in 1 .. MaxTickets : ~<>[](Live = {t} /\ orders[t].day < today)

\* The tickets that close t together close no more than t has executed.
ClosesWhatIsOpen ==
    \A t \in Tickets :
        SumFunctionOnSet([u \in Tickets |-> orders[u].executed],
                         {u \in Tickets : orders[u].closes = t})
            <= orders[t].executed
=============================================================================
