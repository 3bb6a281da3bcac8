----------------------------- MODULE TraderNode -----------------------------
(****************************************************************************)
(* Orders between a trader node and the exchange.  The node's script        *)
(* threads send and close orders (OrderSend, OrderClose); its FIX thread    *)
(* books the answers (FixAccount).  The exchange takes the requests in      *)
(* order (FixApplication::lob) and reports what becomes of each order       *)
(* (FixGuard::updateOrder).  A FIX session keeps the order of messages.     *)
(*                                                                          *)
(* The exchange's market and ledger are reduced to what the reports tell    *)
(* (Market and Broker are their models): an order executes in parts at any  *)
(* price or is cancelled, and the ledger's critical sections are one step.  *)
(****************************************************************************)
EXTENDS Integers, Sequences, FiniteSets, FiniteSetsExt, Functions

CONSTANTS Threads,      \* script threads of the node, each with its quantid
          Shared,       \* the account that all threads use unless it is split
          Sides,        \* sides of opening orders: "buy", "sell"
          Prices, Quantities,
          Split,        \* _tsize > 0: each thread has a part of the cash
          TifDay,       \* FinFabr->_tif is tif_day
          Deposit,      \* QuoteResponse: what the broker grants the node
          MarginFactor, \* equity(): _lot_and_share * (1 + _margin_rate)
          FeeFactor,    \* defDealCommission(): _commission
          Dividends, Splits,
          MaxEvents     \* bound: orders (closing ones included), dividends, and
                        \* reports lost for want of a connection, in the run

ASSUME TraderNodeAssumption ==
    /\ Threads # {} /\ IsFiniteSet(Threads) /\ Shared \notin Threads
    /\ Sides \subseteq {"buy", "sell"}
    /\ Split \subseteq BOOLEAN /\ TifDay \subseteq BOOLEAN
    /\ Prices \subseteq Nat \ {0} /\ Quantities \subseteq Nat \ {0}
    /\ Dividends \subseteq Nat /\ Splits \subseteq Nat
    /\ Deposit \in Nat /\ MarginFactor \in Nat \ {0} /\ FeeFactor \in Nat
    /\ MaxEvents \in Nat

VARIABLES
    mode,        \* the settings of this run: split, day
    script,      \* script threads: the order OrderSend has found cash for
    orders,      \* _OrderIds: ClOrdID -> OrderInfo, IDs in the order of sending
    ticketOf,    \* _OrderTicket: ticket -> ClOrdID
    cash,        \* _cash: what each account may spend
    freeze,      \* _cash: what unanswered orders may cost
    margins,     \* _cash.order_cash: ticket -> margin
    toExchange,  \* requests on their way
    toNode,      \* reports on their way
    book,        \* exchange: its orders, by ticket, with TraderData_t
    credit,      \* exchange: the node's total_cash
    drift,       \* history: what the exchange books and reports differently
    lost,        \* history: reports lost
    dividends    \* history: dividends

vars == <<mode, script, orders, ticketOf, cash, freeze, margins, toExchange,
          toNode, book, credit, drift, lost, dividends>>
node == <<orders, ticketOf, cash, freeze, margins>>
exchange == <<book, credit, drift>>

Idle == [pc |-> "idle"]
NoTicket == 0
Keys == DOMAIN orders
Tickets == DOMAIN book
Opposite(side) == IF side = "buy" THEN "sell" ELSE "buy"
Smaller(m, n) == IF m < n THEN m ELSE n

Sending == {t \in Threads : script[t].pc = "send"}
MoreEvents ==
    Len(orders) + Cardinality(Sending) + lost + dividends < MaxEvents

Equity(price, qty) == price * qty * MarginFactor
Effect(price, qty) == price * qty
Fee(o) == o.price * o.qty * FeeFactor

\* TCash, TFREEZE: an account per thread if the cash is split by positions.
Accounts == IF mode.split THEN Threads ELSE {Shared}
Account(t) == IF mode.split THEN t ELSE Shared
Owner(key) == Account(orders[key].thread)

\* QuoteResponse: equal positions share the grant out.
Init ==
    /\ mode \in [split : Split, day : TifDay]
    /\ script = [t \in Threads |-> Idle]
    /\ orders = << >> /\ ticketOf = << >> /\ margins = << >>
    /\ cash = [a \in Accounts |-> Deposit \div Cardinality(Accounts)]
    /\ freeze = [a \in Accounts |-> 0]
    /\ toExchange = << >> /\ toNode = << >>
    /\ book = << >>
    /\ credit = Deposit
    /\ drift = 0 /\ lost = 0 /\ dividends = 0

Put(f, x, y) == [z \in DOMAIN f \cup {x} |-> IF z = x THEN y ELSE f[z]]
Drop(f, x) == [z \in DOMAIN f \ {x} |-> f[z]]

-----------------------------------------------------------------------------
(* The script threads. *)

OrderInfo(t, side, price, qty, closes) ==
    [thread |-> t, side |-> side, price |-> price, qty |-> qty,
     ticket |-> NoTicket, closes |-> closes, leaves |-> 0, cumqty |-> 0,
     openqty |-> IF closes = NoTicket THEN 0 ELSE qty, trading |-> "PENDING"]

Request(key, side, price, qty, closes) ==
    [key |-> key, side |-> side, price |-> price, qty |-> qty,
     closes |-> closes]

\* A slip in OrderSend(): what is frozen is not left out.
ForgetsFreeze(t, side, price, qty) ==
    /\ script[t].pc = "idle"
    /\ MoreEvents
    /\ Equity(price, qty) <= cash[Account(t)]
    /\ script' = [script EXCEPT ![t] = [pc |-> "send", side |-> side,
                  price |-> price, qty |-> qty,
                  seen |-> cash[Account(t)] - freeze[Account(t)]]]
    /\ UNCHANGED <<mode, node, toExchange, toNode, exchange, lost, dividends>>

\* OrderSend() looks for free cash; nothing is locked from here on.
OrderSendTest(t, side, price, qty) ==
    LET free == cash[Account(t)] - freeze[Account(t)]
    IN  /\ script[t].pc = "idle"
        /\ MoreEvents
        /\ Equity(price, qty) <= free
        /\ script' = [script EXCEPT ![t] = [pc |-> "send", side |-> side,
                      price |-> price, qty |-> qty, seen |-> free]]
        /\ UNCHANGED <<mode, node, toExchange, toNode, exchange, lost, dividends>>

\* OrderSend() freezes the expenditure; NewOrderSingle() sends the order.
OrderSend(t) ==
    LET s == script[t]
        key == Len(orders) + 1
    IN  /\ s.pc = "send"
        /\ freeze' = [freeze EXCEPT ![Account(t)] = @ + Equity(s.price, s.qty)]
        /\ orders' = Append(orders,
                            OrderInfo(t, s.side, s.price, s.qty, NoTicket))
        /\ toExchange' = Append(toExchange,
                                Request(key, s.side, s.price, s.qty, NoTicket))
        /\ script' = [script EXCEPT ![t] = Idle]
        /\ UNCHANGED <<mode, ticketOf, cash, margins, toNode, exchange, lost,
                       dividends>>

\* A slip in OrderClose(): the ticket is not locked.
LockNothing(key) == orders

\* The ticket is being closed: it is closed only once.
Locked(key) == [orders EXCEPT ![key].trading = "CLOSEING"]

\* OrderReplaceRequest() sends the order that closes a ticket, at the price it was
\* opened at (the price only bounds the commission).
OrderReplaceRequest(key, lots) ==
    LET o == orders[key]
        side == Opposite(o.side)
    IN  /\ orders' = Append(Locked(key),
                            OrderInfo(o.thread, side, 0, lots, o.ticket))
        /\ toExchange' = Append(toExchange, Request(Len(orders) + 1, side,
                                                    o.price, lots, o.ticket))

\* OrderClose() locks a ticket that is in the market.
OrderClose(key, lots) ==
    LET o == orders[key]
    IN  /\ MoreEvents
        /\ o.ticket # NoTicket /\ o.closes = NoTicket
        /\ o.trading = "MARKET" /\ o.openqty # 0
        /\ OrderReplaceRequest(key, lots)
        /\ UNCHANGED <<mode, script, ticketOf, cash, freeze, margins, toNode,
                       exchange, lost, dividends>>

Script ==
    \/ \E t \in Threads, side \in Sides, p \in Prices, q \in Quantities :
          OrderSendTest(t, side, p, q)
    \/ \E t \in Threads : OrderSend(t)
    \/ \E key \in Keys :
          \E lots \in 1 .. orders[key].qty : OrderClose(key, lots)

-----------------------------------------------------------------------------
(* The exchange. *)

\* BrokerBase::Equity(): of a new order what the ledger holds for it, of one that
\* executes what it has cost or brought; freeMargin() has cleared both of one that
\* is cancelled.
LedgerEquity(kind, o) ==
    IF kind = "new" THEN o.margin ELSE IF kind = "canceled" THEN 0 ELSE o.amount

\* OrderItem::Lots(): what there is to say of an order that has just changed.
Lots(ticket) ==
    LET o == book'[ticket]
    IN  [key |-> o.key, closes |-> o.closes, leaves |-> o.leaves,
         executed |-> o.qty - o.leaves]

\* A slip in updateOrder(): the two tickets of a report are swapped.
SwapsTickets(kind, ticket, commission) ==
    LET lots == Lots(ticket)
    IN  [kind |-> kind, key |-> lots.key, ticket |-> lots.closes,
         closes |-> ticket, cum |-> lots.executed, leaves |-> lots.leaves,
         margin |-> LedgerEquity(kind, book'[ticket]), commission |-> commission]

Report(kind, ticket, commission) ==
    LET lots == Lots(ticket)
    IN  [kind |-> kind, key |-> lots.key, ticket |-> ticket,
         closes |-> lots.closes, cum |-> lots.executed, leaves |-> lots.leaves,
         margin |-> LedgerEquity(kind, book'[ticket]), commission |-> commission]

\* rejectOrder(): a buy is answered as an opening order, a sell as a closing one.
Reject(r, ticket) ==
    [kind |-> "reject", key |-> r.key, ticket |-> ticket,
     responseTo |-> IF r.side = "buy" THEN "1" ELSE "2"]

\* updateOrder(): without a database connection the report is not sent.
Send(report) ==
    \/ toNode' = Append(toNode, report) /\ UNCHANGED lost
    \/ MoreEvents /\ lost' = lost + 1 /\ UNCHANGED toNode

\* OrderItem, and the margin the ledger holds for it.
Placed(r, qty, margin) ==
    [key |-> r.key, price |-> r.price, qty |-> qty, leaves |-> qty,
     open |-> qty, amount |-> 0, closes |-> r.closes, margin |-> margin,
     split |-> 0, lots |-> qty, live |-> TRUE]

\* lob() refuses an opening order before it has a ticket: new orders are
\* stopped, the symbol has no quote, the broker's script says no.
RefuseOrder(r) ==
    /\ r.closes = NoTicket
    /\ toNode' = Append(toNode, Reject(r, NoTicket))
    /\ UNCHANGED <<exchange, lost>>

\* CheckMargin() returns -1: the order has its ticket, is reported as cancelled
\* and then refused.
RefuseMargin(r) ==
    LET t == Len(book) + 1
    IN  /\ r.closes = NoTicket /\ credit < Equity(r.price, r.qty)
        /\ book' = Append(book, [Placed(r, r.qty, 0) EXCEPT !.live = FALSE])
        /\ toNode' = toNode \o <<Report("canceled", t, 0), Reject(r, t)>>
        /\ UNCHANGED <<credit, drift, lost>>

\* Margin(), acceptOrder() and the insertion of an opening order.
PlaceOrder(r) ==
    LET margin == Equity(r.price, r.qty)
    IN  /\ r.closes = NoTicket /\ credit >= margin
        /\ book' = Append(book, Placed(r, r.qty, margin))
        /\ credit' = credit - margin
        /\ Send(Report("new", Len(book) + 1, 0))
        /\ UNCHANGED drift

\* lob() refuses to close: CheckClose() finds the ticket closed or (T + 1)
\* bought today, or, for the buy that closes a short, the script says no.
RefuseClose(r) ==
    /\ r.closes # NoTicket
    /\ toNode' = Append(toNode, Reject(r, r.closes))
    /\ UNCHANGED <<exchange, lost>>

\* CheckClose(), where CloseOrder() applies a split, and the insertion of a
\* closing order, for which nothing is frozen.
PlaceClose(r) ==
    LET o == book[r.closes]
        all == o.qty * (1 + o.split)
    IN  /\ r.closes # NoTicket /\ o.open # 0
        /\ book' = Append([book EXCEPT ![r.closes].qty = all,
                                       ![r.closes].split = 0],
                          Placed(r, Smaller(r.qty, all), 0))
        /\ Send(Report("new", Len(book) + 1, 0))
        /\ UNCHANGED <<credit, drift>>

Lob ==
    LET r == Head(toExchange)
    IN  /\ toExchange # << >> /\ toExchange' = Tail(toExchange)
        /\ \/ RefuseOrder(r) \/ RefuseMargin(r) \/ PlaceOrder(r)
           \/ RefuseClose(r) \/ PlaceClose(r)
        /\ UNCHANGED <<mode, script, node, dividends>>

\* What the ledger books when an order is filled, SettlInst(): proceeds, or the
\* difference to what was frozen, except (tif_day) when the order cost more.
Settled(o) ==
    IF o.closes # NoTicket THEN o.amount
    ELSE IF mode.day /\ o.amount > o.margin THEN 0
    ELSE o.margin - o.amount

\* What the node makes of the report that the order is filled.
Told(o) == IF o.closes # NoTicket THEN o.amount ELSE o.margin - o.amount

\* A lot executes: Lots() takes it off the ticket it closes, SettlInst() and
\* DealCommission() (which charges only what is there) book it, fillOrder()
\* reports it with the whole order's commission.
Execute(t, price, qty) ==
    LET o == [book[t] EXCEPT !.leaves = @ - qty,
                             !.amount = @ + Effect(price, qty)]
        filled == o.leaves = 0
        settled == IF filled THEN Settled(o) ELSE 0
        charged == IF credit + settled < Fee(o) THEN 0 ELSE Fee(o)
        margin == IF filled /\ o.closes = NoTicket THEN o.margin - settled ELSE o.margin
        left(open) == IF qty > open THEN 0 ELSE open - qty
    IN  /\ book[t].live /\ qty <= book[t].leaves
        /\ book' = [u \in Tickets |->
                       IF u = t THEN [o EXCEPT !.margin = margin, !.live = ~filled]
                       ELSE IF u = o.closes THEN [book[u] EXCEPT !.open = left(@)]
                       ELSE book[u]]
        /\ credit' = credit + settled - charged
        /\ drift' = drift + charged
                      + (IF filled THEN Told(o) - Fee(o) - settled ELSE 0)
        /\ Send(Report(IF filled THEN "filled" ELSE "partial", t, Fee(o)))
        /\ UNCHANGED <<mode, script, node, toExchange, dividends>>

\* A deal of quantity 0 or an expired order: freeMargin(), cancelOrder().
Cancel(t) ==
    LET o == book[t]
    IN  /\ o.live
        /\ book' = [book EXCEPT ![t] = [o EXCEPT !.live = FALSE, !.margin = 0,
                                                 !.open = 0]]
        /\ credit' = credit + o.margin
        /\ toNode' = Append(toNode, Report("canceled", t, 0))
        /\ UNCHANGED <<mode, script, node, toExchange, drift, lost, dividends>>

\* SymbolExrd(): every filled buy that no order closes is paid, and its node is
\* told the tickets.
AddExdrCash(amount, split) ==
    LET paid == {t \in Tickets :
                   /\ book[t].closes = NoTicket /\ ~book[t].live
                   /\ book[t].leaves = 0 /\ orders[book[t].key].side = "buy"
                   /\ \A u \in Tickets : book[u].closes # t}
        all == SumFunctionOnSet([t \in Tickets |-> book[t].lots * amount], paid)
    IN  /\ MoreEvents /\ amount + split > 0
        /\ dividends' = dividends + 1
        /\ book' = [t \in Tickets |-> IF t \in paid
                       THEN [book[t] EXCEPT !.split = @ + split] ELSE book[t]]
        /\ credit' = credit + all
        /\ toNode' = Append(toNode, [kind |-> "exdr", tickets |-> paid,
                                     cash |-> amount, split |-> split,
                                     paid |-> all])
        /\ UNCHANGED <<mode, script, node, toExchange, drift, lost>>

Feed ==
    \/ \E t \in Tickets, p \in Prices :
          \E q \in 1 .. book[t].leaves : Execute(t, p, q)
    \/ \E t \in Tickets : Cancel(t)
    \/ \E amount \in Dividends, split \in Splits : AddExdrCash(amount, split)

-----------------------------------------------------------------------------
(* The node's FIX thread: one report at a time. *)

\* RejectOrCancelNewOrder() and ost_New give back what OrderSend() froze.
KeepFrozen(key) == freeze

Unfrozen(key) ==
    [freeze EXCEPT ![Owner(key)] = @ - Equity(orders[key].price, orders[key].qty)]

\* A slip: the fee is not charged.
ChargeNothing(key, margin, fee) == [cash EXCEPT ![Owner(key)] = @ + margin]

\* append() and inc(): what comes back, less the commission.
Appended(key, margin, fee) == [cash EXCEPT ![Owner(key)] = @ + margin - fee]

\* ost_New: the margin takes the place of what OrderSend() froze.
BookNew(m) ==
    IF m.margin = 0 THEN UNCHANGED <<cash, freeze, margins>>
    ELSE /\ cash' = Appended(m.key, -m.margin, 0)
         /\ freeze' = Unfrozen(m.key)
         /\ margins' = IF m.ticket \in DOMAIN margins THEN margins
                       ELSE Put(margins, m.ticket, m.margin)

\* ost_Filled: a closing order brings its proceeds and frees its ticket's
\* margin, an opening one is charged what it cost.
BookFilled(m) ==
    LET known == m.ticket \in DOMAIN margins
        brought == IF m.closes # NoTicket THEN m.margin
                   ELSE IF known THEN margins[m.ticket] - m.margin ELSE 0
    IN  /\ cash' = Appended(m.key, brought, m.commission)
        /\ margins' = IF m.closes # NoTicket THEN Drop(margins, m.closes)
                      ELSE IF known THEN Put(margins, m.ticket, m.margin)
                      ELSE margins
        /\ UNCHANGED freeze

\* TradeStatus and openqty of the order reported: cum, a total, is added to
\* what can be closed by every report.
Reported(m) ==
    LET opens == m.closes = NoTicket
        o == orders[m.key]
        openqty == IF opens THEN o.openqty + m.cum ELSE o.openqty - m.cum
        trading == IF m.cum = 0 THEN "PENDING"
                   ELSE IF m.leaves > 0 THEN "PARTIALLY_FILLED"
                   ELSE IF opens THEN "MARKET" ELSE "FILLED"
    IN  [orders EXCEPT ![m.key] =
          [o EXCEPT !.ticket = m.ticket, !.cumqty = m.cum, !.leaves = m.leaves,
                    !.openqty = openqty, !.trading = trading]]

\* Once a closing order is filled, its ticket is closed.
ExecutionReport(m) ==
    /\ CASE m.kind = "new" -> BookNew(m)
         [] m.kind = "filled" -> BookFilled(m)
         [] m.kind = "partial" -> UNCHANGED <<cash, freeze, margins>>
    /\ ticketOf' = IF m.ticket \in DOMAIN ticketOf THEN ticketOf
                   ELSE Put(ticketOf, m.ticket, m.key)
    /\ orders' = IF /\ m.closes \in DOMAIN ticketOf'
                    /\ m.cum > 0 /\ m.leaves = 0
                 THEN [Reported(m) EXCEPT
                          ![ticketOf'[m.closes]].trading = "CLOSED"]
                 ELSE Reported(m)
    /\ UNCHANGED drift

\* A slip: a closing order that fails does not unlock its ticket.
StaysLocked(key, closes, status) == [orders EXCEPT ![key].trading = status]

\* The order has failed; the ticket it was to close is in the market again.
Failed(key, closes, status) ==
    LET marked == [orders EXCEPT ![key].trading = status]
    IN  IF closes \in DOMAIN ticketOf
        THEN [marked EXCEPT ![ticketOf[closes]].trading = "MARKET"]
        ELSE marked

\* RejectOrCancelNewOrder(): an opening order without a ticket gives back what
\* was frozen for it, one with a ticket its margin.
RejectOrCancelNewOrder(key, ticket, closes, status) ==
    /\ orders' = Failed(key, closes, status)
    /\ \/ /\ closes # NoTicket
          /\ UNCHANGED <<cash, freeze, margins>>
       \/ /\ closes = NoTicket /\ ticket = NoTicket
          /\ freeze' = Unfrozen(key)
          /\ UNCHANGED <<cash, margins>>
       \/ /\ closes = NoTicket /\ ticket \in DOMAIN margins
          /\ cash' = Appended(key, margins[ticket], 0)
          /\ margins' = Drop(margins, ticket)
          /\ UNCHANGED freeze
       \/ /\ closes = NoTicket /\ ticket \notin DOMAIN margins \cup {NoTicket}
          /\ UNCHANGED <<cash, freeze, margins>>
    /\ UNCHANGED <<ticketOf, drift>>

\* OrderCancelReject: whom the answer is for is read from CxlRejResponseTo.
OrderCancelReject(m) ==
    IF m.responseTo = "2"
    THEN RejectOrCancelNewOrder(m.key, NoTicket, m.ticket, "REJECT")
    ELSE RejectOrCancelNewOrder(m.key, m.ticket, NoTicket, "REJECT")

\* QuoteStatusReport: the dividend of those of the tickets that are in the
\* market; a split multiplies what they hold.
QuoteStatusReport(m) ==
    LET paid == {key \in Keys : /\ orders[key].ticket \in m.tickets
                                /\ orders[key].side = "buy"
                                /\ orders[key].trading = "MARKET"}
        parts == [key \in Keys |-> orders[key].qty * m.cash]
        Of(a) == SumFunctionOnSet(parts, {key \in paid : Owner(key) = a})
        after(o) == o.qty * (1 + m.split)
    IN  /\ cash' = [a \in Accounts |-> cash[a] + Of(a)]
        /\ orders' = [key \in Keys |->
                        IF key \in paid
                        THEN [orders[key] EXCEPT !.qty = after(orders[key]),
                                                 !.openqty = after(orders[key])]
                        ELSE orders[key]]
        /\ drift' = drift + SumFunctionOnSet([a \in Accounts |-> Of(a)], Accounts) - m.paid
        /\ UNCHANGED <<ticketOf, freeze, margins>>

FromApp ==
    LET m == Head(toNode)
    IN  /\ toNode # << >> /\ toNode' = Tail(toNode)
        /\ \/ m.kind \in {"new", "partial", "filled"} /\ ExecutionReport(m)
           \/ /\ m.kind = "canceled"
              /\ RejectOrCancelNewOrder(m.key, m.ticket, m.closes, "CANCEL")
           \/ m.kind = "reject" /\ OrderCancelReject(m)
           \/ m.kind = "exdr" /\ QuoteStatusReport(m)
        /\ UNCHANGED <<mode, script, toExchange, book, credit, lost, dividends>>

Next == Script \/ Lob \/ Feed \/ FromApp

Spec == Init /\ [][Next]_vars

-----------------------------------------------------------------------------
(* What a script reads. *)

\* The orders of a thread's quantid, those that are open and those that are over.
Own(t) == {key \in Keys : orders[key].thread = t}
With(t, trading) == {key \in Own(t) : orders[key].trading \in trading}
OrdersTotal(t) ==
    Cardinality(With(t, {"PENDING", "PARTIALLY_FILLED", "MARKET", "CLOSEING"}))
OrdersHistoryTotal(t) ==
    Cardinality(With(t, {"FILLED", "CLOSED", "REJECT", "CANCEL"}))

\* OrderSelect() by position, and OrderTicket(), which gives the selection up: a
\* ticket that is being closed is passed over.  By ticket it is the ticket asked
\* for, and of the history none.
Listed(t) == With(t, {"MARKET", "PARTIALLY_FILLED", "PENDING"})
OrderTicket(t, pos) ==
    LET at == {key \in Listed(t) :
                 Cardinality({k \in Listed(t) : k < key}) = pos}
    IN  IF at = {} THEN NoTicket ELSE orders[CHOOSE key \in at : TRUE].ticket

\* OrderLots(): of the first order with the ticket, 0 without one.
OrderLots(t, ticket) ==
    LET with == {key \in Own(t) : orders[key].ticket = ticket}
    IN  IF with = {} THEN 0 ELSE orders[Min(with)].openqty

\* AccountBalance(), AccountEquity() and AccountMargin(); the latter adds up the
\* margins of all the threads.
AccountBalance(t) == cash[Account(t)]
AccountEquity(t) ==
    LET free == cash[Account(t)] - freeze[Account(t)]
    IN  IF free < 0 THEN 0 ELSE free
AccountMargin == SumFunctionOnSet(margins, DOMAIN margins)

\* UpdateQuantProfit(), with positions: the cash of a thread and the margin of the
\* first of its tickets, the loop ends there.
QuantProfit(t) ==
    LET own == {ticket \in DOMAIN margins : orders[book[ticket].key].thread = t}
    IN  cash[Account(t)] + IF own = {} THEN 0 ELSE margins[Min(own)]

-----------------------------------------------------------------------------
(* Properties. *)

OrderRecord ==
    [thread : Threads, side : {"buy", "sell"}, price : Prices \cup {0},
     qty : Nat \ {0}, ticket : Nat, closes : Nat, leaves : Nat, cumqty : Nat,
     openqty : Int,
     trading : {"PENDING", "PARTIALLY_FILLED", "MARKET", "CLOSEING", "FILLED",
                "CLOSED", "REJECT", "CANCEL"}]

\* Types of all the state.
TypeOK ==
    /\ mode \in [split : BOOLEAN, day : BOOLEAN]
    /\ \A t \in Threads : script[t].pc \in {"idle", "send"}
    /\ orders \in Seq(OrderRecord)
    /\ cash \in [Accounts -> Int] /\ freeze \in [Accounts -> Int]
    /\ credit \in Int /\ drift \in Int
    /\ DOMAIN ticketOf \subseteq Tickets /\ DOMAIN margins \subseteq Tickets
    /\ \A t \in DOMAIN ticketOf : ticketOf[t] = book[t].key
    /\ \A t \in DOMAIN margins : margins[t] \in Nat
    /\ lost \in Nat /\ dividends \in Nat
    /\ Len(orders) + lost + dividends <= MaxEvents

Quiet == toExchange = << >> /\ toNode = << >>

\* Without a message on its way, the node's cash is the exchange's, in every
\* order in which requests and reports crossed; drift is what the exchange
\* itself books otherwise than it reports it.
MirrorsLedger ==
    Quiet /\ lost = 0
        => SumFunctionOnSet(cash, Accounts) = credit + drift

\* The orders that OrderSend() froze cash for and no answer has freed: those
\* without a ticket, except the ones refused before they had one.
Held(a) ==
    {key \in Keys :
        /\ orders[key].closes = NoTicket /\ orders[key].ticket = NoTicket
        /\ Owner(key) = a
        /\ orders[key].trading = "REJECT"
             => \E t \in Tickets : book[t].key = key}

\* Frozen is what unanswered orders may cost, at most once for each of them.
FrozenForUnanswered ==
    lost = 0 =>
        \A a \in Accounts :
            freeze[a] = SumFunctionOnSet(
                [key \in Keys |-> Equity(orders[key].price, orders[key].qty)], Held(a))

\* A script that asks for the positions 0 .. OrdersTotal() - 1 gets every ticket
\* that is open and not being closed, each once; a ticket in the market has at
\* least the lots that were executed, and each order is open or over.
ScansOrders ==
    \A t \in Threads :
        LET positions == 0..OrdersTotal(t) - 1
            listed == {orders[key].ticket : key \in Listed(t)}
        IN  /\ OrdersTotal(t) + OrdersHistoryTotal(t) = Cardinality(Own(t))
            /\ {OrderTicket(t, pos) : pos \in positions} \ {NoTicket}
                 = listed \ {NoTicket}
            /\ \A m, n \in positions :
                  m # n /\ OrderTicket(t, m) = OrderTicket(t, n)
                  => OrderTicket(t, m) = NoTicket
            /\ \A key \in With(t, {"MARKET"}) :
                  OrderLots(t, orders[key].ticket) >= orders[key].cumqty

\* A thread never finds more to spend than its account holds; with positions, the
\* profits recorded of threads with one open ticket each are all the cash and all
\* the margins.
ReadsAccount ==
    /\ \A t \in Threads : AccountBalance(t) >= 0
                              => AccountEquity(t) <= AccountBalance(t)
    /\ mode.split /\ (\A m, n \in DOMAIN margins :
                          orders[book[m].key].thread = orders[book[n].key].thread
                          => m = n)
       => SumFunctionOnSet([t \in Threads |-> QuantProfit(t)], Threads)
            = SumFunctionOnSet([t \in Threads |-> AccountBalance(t)], Threads)
                + AccountMargin

\* The node's cash and freezes tell what the exchange's ledger tells, and its
\* scripts read what there is.
CashInv ==
    /\ TypeOK /\ MirrorsLedger /\ FrozenForUnanswered
    /\ ScansOrders /\ ReadsAccount

\* The closing orders of a ticket that may still execute or be answered.
Closing(ticket) ==
    {key \in Keys :
        /\ orders[key].closes = ticket
        /\ \/ \E i \in DOMAIN toExchange : toExchange[i].key = key
           \/ \E t \in Tickets : book[t].key = key /\ book[t].live
           \/ \E i \in DOMAIN toNode :
                 toNode[i].kind # "exdr" /\ toNode[i].key = key}

\* A ticket is locked exactly while one order that closes it is under way: it is
\* never closed twice at a time, and never left locked.
LockedWhileClosing ==
    lost = 0 =>
        \A key \in Keys :
            orders[key].closes = NoTicket /\ orders[key].ticket # NoTicket
            => Cardinality(Closing(orders[key].ticket))
                 = IF orders[key].trading = "CLOSEING" THEN 1 ELSE 0

\* OrderSend() freezes more than there is only if another thread or a report
\* took the cash after it looked.
OverspendsOnlyInARace ==
    [][\A t \in Threads :
          LET a == Account(t)
          IN  OrderSend(t) /\ cash[a] < freeze'[a]
              => cash[a] - freeze[a] # script[t].seen]_vars

\* openqty is the quantity of an order that can be closed (OrderInfo).
ClosableIsExecuted ==
    \A key \in Keys :
        orders[key].closes = NoTicket /\ dividends = 0
            => orders[key].openqty = orders[key].cumqty

\* An order that closes a ticket and is refused or cancelled puts the ticket
\* back in the market (TradeStatus).
RefusedCloseUnlocks ==
    \A key \in Keys :
        orders[key].trading = "CLOSEING" /\ lost = 0
            => Closing(orders[key].ticket) # {}

\* What was frozen for an order is given back when it fails.
FailedGivesBack ==
    Quiet /\ lost = 0 /\ (\A t \in Threads : script[t].pc = "idle")
        => \A a \in Accounts : freeze[a] = 0
=============================================================================
