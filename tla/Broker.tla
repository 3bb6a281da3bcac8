------------------------------- MODULE Broker -------------------------------
(****************************************************************************)
(* The broker's ledger (BrokerBase) and the three threads that write it:    *)
(* the FIX thread (cash applications, new orders: CheckMargin, Margin and   *)
(* insert), the feed thread (TraderAlgorithms::matcher: SettlInst,          *)
(* DealCommission, freeMargin for every lot) and the market-data consumer   *)
(* (dividends).  Each critical section of _BMute is one action, and so is   *)
(* each test the code makes before it takes the mutex.                      *)
(*                                                                          *)
(* The market is reduced to its effect on an order: it executes in parts at *)
(* any price, or is cancelled.  Counter orders have no account.             *)
(****************************************************************************)
EXTENDS Integers, Sequences, FiniteSets, Functions

CONSTANTS Traders,      \* FIX sessions of the trader nodes
          Known,        \* traders whose account the database already holds,
          Stored,       \* with this credit
          Deposits,     \* amounts a node applies for
          Prices, Quantities, Dividends,
          MarginFactor, \* equity(): _lot_and_share * (1 + _margin_rate)
          LotFactor,    \* effect(): _lot_and_share
          FeeFactor,    \* defDealCommission(): _commission
          TifDay,       \* FinFabr->_tif is tif_day
          MaxTickets,   \* bound: orders of the run
          MaxDeposit,   \* bound: cash a trader applies for altogether
          MaxDividends  \* bound: dividends of the run

ASSUME BrokerAssumption ==
    /\ Traders # {} /\ IsFiniteSet(Traders)
    /\ Known \subseteq Traders /\ Stored \in Nat
    /\ Deposits \subseteq Nat \ {0} /\ Dividends \subseteq Nat \ {0}
    /\ Prices \subseteq Nat \ {0} /\ Quantities \subseteq Nat \ {0}
    /\ LotFactor \in Nat \ {0} /\ FeeFactor \in Nat
    /\ MarginFactor \in Nat /\ MarginFactor >= LotFactor
    /\ TifDay \in BOOLEAN
    /\ MaxTickets \in Nat /\ MaxDeposit \in Nat /\ MaxDividends \in Nat

VARIABLES
    loggedIn,   \* the keys of _traders
    cash,       \* TraderInfo::total_cash, 0 before the login
    ledger,     \* all the order_cash: ticket -> TraderData_t and its owner
    allCash,    \* FinFabr->_all_total_cash
    allMargin,  \* FinFabr->_all_margin
    orders,     \* ticket -> order, as the market has executed it so far
    fix,        \* FIX thread: its step and the order it is placing
    feed,       \* feed thread: its step and the lot it is settling
    paidIn,     \* history: what each trader applied for and got as dividends
    fees,       \* history: the commission charged to each trader
    dividends   \* history: dividends so far

vars == <<loggedIn, cash, ledger, allCash, allMargin, orders, fix, feed,
          paidIn, fees, dividends>>

Idle == [pc |-> "idle"]
NoTicket == 0
Tickets == DOMAIN orders

Equity(price, qty) == qty * price * MarginFactor
Effect(price, qty) == LotFactor * qty * price
Fee(o) == o.price * o.qty * FeeFactor

Filled(t) == orders[t].leaves = 0 /\ ~orders[t].cancelled
IsLive(t) == orders[t].leaves > 0 /\ ~orders[t].cancelled

Init ==
    /\ loggedIn = {}
    /\ cash = [s \in Traders |-> 0]
    /\ ledger = << >>
    /\ allCash = 0 /\ allMargin = 0
    /\ orders = << >>
    /\ fix = Idle /\ feed = Idle
    /\ paidIn = [s \in Traders |-> 0]
    /\ fees = [s \in Traders |-> 0]
    /\ dividends = 0

\* total_cash and _all_total_cash move together, under the mutex.
Pay(s, amount) ==
    /\ cash' = [cash EXCEPT ![s] = @ + amount]
    /\ allCash' = allCash + amount

Account(owner, margin, equity, qty) ==
    [owner |-> owner, margin |-> margin, equity |-> equity, qty |-> qty,
     report |-> FALSE]

Put(t, account) ==
    [u \in DOMAIN ledger \cup {t} |-> IF u = t THEN account ELSE ledger[u]]

\* Nothing runs once the feed thread has ended the process.
Running == feed.pc # "thrown"

-----------------------------------------------------------------------------
(* The FIX thread. *)

\* traders(): the first application of a session opens its account, which is
\* new or takes the credit the database holds instead; a later one adds cash.
OpenAccount(s, amount) ==
    /\ s \notin loggedIn /\ s \notin Known
    /\ paidIn[s] + amount <= MaxDeposit
    /\ Pay(s, amount)
    /\ paidIn' = [paidIn EXCEPT ![s] = @ + amount]
    /\ allMargin' = 0

ResumeAccount(s) ==
    /\ s \notin loggedIn /\ s \in Known
    /\ cash' = [cash EXCEPT ![s] = Stored]
    /\ paidIn' = [paidIn EXCEPT ![s] = Stored]
    /\ UNCHANGED <<allCash, allMargin>>

AddCash(s, amount) ==
    /\ s \in loggedIn
    /\ paidIn[s] + amount <= MaxDeposit
    /\ Pay(s, amount)
    /\ paidIn' = [paidIn EXCEPT ![s] = @ + amount]
    /\ UNCHANGED allMargin

Apply(s, amount) ==
    /\ Running /\ fix.pc = "idle"
    /\ OpenAccount(s, amount) \/ ResumeAccount(s) \/ AddCash(s, amount)
    /\ loggedIn' = loggedIn \cup {s}
    /\ UNCHANGED <<ledger, orders, fix, feed, fees, dividends>>

\* lob(): CheckMargin() finds the cash for the order (else the order is
\* refused, and the ledger stays as it is).
CheckMargin(s, price, qty) ==
    /\ Running /\ fix.pc = "idle" /\ Len(orders) < MaxTickets
    /\ s \in loggedIn
    /\ cash[s] >= Equity(price, qty)
    /\ fix' = [pc |-> "margin", owner |-> s, price |-> price, qty |-> qty,
               seen |-> cash[s]]
    /\ UNCHANGED <<loggedIn, cash, ledger, allCash, allMargin, orders, feed,
                   paidIn, fees, dividends>>

\* A slip in Margin(): the comparison is strict.
MarginTestStrict ==
    /\ Running /\ fix.pc = "margin"
    /\ fix' = [fix EXCEPT !.pc = IF cash[fix.owner] <= Equity(fix.price, fix.qty)
                                 THEN "insert" ELSE "freeze"]
    /\ UNCHANGED <<loggedIn, cash, ledger, allCash, allMargin, orders, feed,
                   paidIn, fees, dividends>>

\* Margin() tests the cash again, before the mutex.  If it is gone nothing is
\* frozen, but lob() ignores that and places the order.
MarginTest ==
    /\ Running /\ fix.pc = "margin"
    /\ fix' = [fix EXCEPT !.pc = IF cash[fix.owner] < Equity(fix.price, fix.qty)
                                 THEN "insert" ELSE "freeze"]
    /\ UNCHANGED <<loggedIn, cash, ledger, allCash, allMargin, orders, feed,
                   paidIn, fees, dividends>>

\* Margin(): the new ticket's margin is frozen.
Margin ==
    /\ Running /\ fix.pc = "freeze"
    /\ LET margin == Equity(fix.price, fix.qty)
       IN  /\ ledger' = Put(Len(orders) + 1,
                            Account(fix.owner, margin, 0, fix.qty))
           /\ Pay(fix.owner, -margin)
           /\ allMargin' = allMargin + margin
    /\ fix' = [fix EXCEPT !.pc = "insert"]
    /\ UNCHANGED <<loggedIn, orders, feed, paidIn, fees, dividends>>

Placed(owner, price, qty, closes) ==
    [owner |-> owner, price |-> price, qty |-> qty, leaves |-> qty,
     amount |-> 0, closes |-> closes, cancelled |-> FALSE]

\* processOrder()
ProcessOrder ==
    /\ Running /\ fix.pc = "insert"
    /\ orders' = Append(orders, Placed(fix.owner, fix.price, fix.qty, NoTicket))
    /\ fix' = Idle
    /\ UNCHANGED <<loggedIn, cash, ledger, allCash, allMargin, feed, paidIn,
                   fees, dividends>>

\* A node closes a ticket, all of it or lots of it: CheckClose() asks neither
\* that it is filled nor that it is closed only once, and no margin is tested.
CloseTicket(t, price, lots) ==
    /\ Running /\ fix.pc = "idle" /\ Len(orders) < MaxTickets
    /\ ~orders[t].cancelled /\ orders[t].closes = NoTicket
    /\ orders' = Append(orders, Placed(orders[t].owner, price, lots, t))
    /\ UNCHANGED <<loggedIn, cash, ledger, allCash, allMargin, fix, feed,
                   paidIn, fees, dividends>>

FixThread ==
    \/ \E s \in Traders, amount \in Deposits : Apply(s, amount)
    \/ \E s \in Traders, p \in Prices, q \in Quantities : CheckMargin(s, p, q)
    \/ MarginTest
    \/ Margin
    \/ ProcessOrder
    \/ \E t \in Tickets, p \in Prices :
          \E lots \in 1 .. orders[t].qty : CloseTicket(t, p, lots)

-----------------------------------------------------------------------------
(* The feed thread. *)

Executed(o, price, qty) ==
    [o EXCEPT !.leaves = @ - qty, !.amount = @ + Effect(price, qty)]

\* A slip in match(): what the order has left is not compared.
ExecuteTooMuch(t, price, qty) ==
    /\ feed.pc = "idle"
    /\ IsLive(t)
    /\ orders' = [orders EXCEPT ![t] = Executed(orders[t], price, qty)]
    /\ feed' = [pc |-> "settle", ticket |-> t]
    /\ UNCHANGED <<loggedIn, cash, ledger, allCash, allMargin, fix, paidIn,
                   fees, dividends>>

\* The market executes qty of order t; matcher() takes the lot up.
Execute(t, price, qty) ==
    /\ feed.pc = "idle"
    /\ IsLive(t) /\ qty <= orders[t].leaves
    /\ orders' = [orders EXCEPT ![t] = Executed(orders[t], price, qty)]
    /\ feed' = [pc |-> "settle", ticket |-> t]
    /\ UNCHANGED <<loggedIn, cash, ledger, allCash, allMargin, fix, paidIn,
                   fees, dividends>>

\* An external deal of quantity 0: the order is disabled.
Cancel(t) ==
    /\ feed.pc = "idle"
    /\ IsLive(t)
    /\ orders' = [orders EXCEPT ![t] = [@ EXCEPT !.cancelled = TRUE]]
    /\ feed' = [pc |-> "free", ticket |-> t]
    /\ UNCHANGED <<loggedIn, cash, ledger, allCash, allMargin, fix, paidIn,
                   fees, dividends>>

\* trade_report() looks the closed ticket up with at(), and nothing in the
\* feed thread catches what that throws.
AfterSettle(o) ==
    IF o.closes # NoTicket /\ o.leaves = 0 /\ o.closes \notin DOMAIN ledger
    THEN [feed EXCEPT !.pc = "thrown"]
    ELSE [feed EXCEPT !.pc = "fee"]

\* SettlInst() of a lot of a closing order: its proceeds are paid once it is
\* filled, and the closed ticket's whole cost leaves the total margin.
SettleClose ==
    LET t == feed.ticket
        o == orders[t]
        known == o.closes \in DOMAIN ledger
        settled == IF t \in DOMAIN ledger
                   THEN [ledger EXCEPT ![t].equity = o.amount]
                   ELSE Put(t, Account(o.owner, 0, o.amount, o.qty))
    IN  /\ feed.pc = "settle" /\ o.closes # NoTicket
        /\ IF Filled(t)
           THEN /\ Pay(o.owner, o.amount)
                /\ allMargin' = IF known
                                THEN allMargin - ledger[o.closes].equity
                                ELSE allMargin
                /\ ledger' = IF known
                             THEN [settled EXCEPT ![o.closes].report = TRUE]
                             ELSE settled
           ELSE UNCHANGED <<cash, allCash, allMargin>> /\ ledger' = settled
        /\ feed' = AfterSettle(o)
        /\ UNCHANGED <<loggedIn, orders, fix, paidIn, fees, dividends>>

\* A slip in SettlInst(): the difference is paid back, and the account still
\* says what was frozen.
SettleOpenKeepsMargin ==
    LET t == feed.ticket
        o == orders[t]
        margin == ledger[t].margin
    IN  /\ feed.pc = "settle" /\ o.closes = NoTicket
        /\ feed' = AfterSettle(o)
        /\ IF t \notin DOMAIN ledger
           THEN UNCHANGED <<ledger, cash, allCash, allMargin>>
           ELSE IF ~Filled(t) \/ (TifDay /\ o.amount > margin)
           THEN /\ ledger' = [ledger EXCEPT ![t].equity = o.amount]
                /\ UNCHANGED <<cash, allCash, allMargin>>
           ELSE /\ ledger' = [ledger EXCEPT ![t].equity = o.amount]
                /\ Pay(o.owner, margin - o.amount)
                /\ allMargin' = allMargin - (margin - o.amount)
        /\ UNCHANGED <<loggedIn, orders, fix, paidIn, fees, dividends>>

\* SettlInst() of a lot of an opening order: once filled, what was frozen is
\* replaced by what it cost, unless (tif_day) it cost more.
SettleOpen ==
    LET t == feed.ticket
        o == orders[t]
        margin == ledger[t].margin
    IN  /\ feed.pc = "settle" /\ o.closes = NoTicket
        /\ feed' = AfterSettle(o)
        /\ IF t \notin DOMAIN ledger
           THEN UNCHANGED <<ledger, cash, allCash, allMargin>>
           ELSE IF ~Filled(t) \/ (TifDay /\ o.amount > margin)
           THEN /\ ledger' = [ledger EXCEPT ![t].equity = o.amount]
                /\ UNCHANGED <<cash, allCash, allMargin>>
           ELSE /\ ledger' = [ledger EXCEPT ![t].equity = o.amount,
                                            ![t].margin = o.amount]
                /\ Pay(o.owner, margin - o.amount)
                /\ allMargin' = allMargin - (margin - o.amount)
        /\ UNCHANGED <<loggedIn, orders, fix, paidIn, fees, dividends>>

\* A slip in DealCommission(): the cash is not tested.
FeeUntested ==
    /\ feed.pc = "fee"
    /\ feed' = IF Fee(orders[feed.ticket]) = 0 \/ feed.ticket \notin DOMAIN ledger
               THEN Idle ELSE [feed EXCEPT !.pc = "charge"]
    /\ UNCHANGED <<loggedIn, cash, ledger, allCash, allMargin, orders, fix,
                   paidIn, fees, dividends>>

\* DealCommission() tests ticket and cash before the mutex; without the cash
\* nothing is charged.
FeeTest ==
    LET o == orders[feed.ticket]
    IN  /\ feed.pc = "fee"
        /\ feed' = IF \/ Fee(o) = 0
                      \/ feed.ticket \notin DOMAIN ledger
                      \/ cash[o.owner] < Fee(o)
                   THEN Idle ELSE [feed EXCEPT !.pc = "charge"]
        /\ UNCHANGED <<loggedIn, cash, ledger, allCash, allMargin, orders, fix,
                       paidIn, fees, dividends>>

\* A slip in DealCommission(): the total is forgotten.
ChargeOnlyTrader ==
    LET o == orders[feed.ticket]
    IN  /\ feed.pc = "charge"
        /\ cash' = [cash EXCEPT ![o.owner] = @ - Fee(o)]
        /\ fees' = [fees EXCEPT ![o.owner] = @ + Fee(o)]
        /\ feed' = Idle
        /\ UNCHANGED <<loggedIn, ledger, allCash, allMargin, orders, fix, paidIn,
                       dividends>>

Charge ==
    LET o == orders[feed.ticket]
    IN  /\ feed.pc = "charge"
        /\ Pay(o.owner, -Fee(o))
        /\ fees' = [fees EXCEPT ![o.owner] = @ + Fee(o)]
        /\ feed' = Idle
        /\ UNCHANGED <<loggedIn, ledger, allMargin, orders, fix, paidIn,
                       dividends>>

\* freeMargin(ticket, 0): the whole margin comes back, and the account is reset.
FreeMargin ==
    LET t == feed.ticket
        o == orders[t]
    IN  /\ feed.pc = "free"
        /\ feed' = Idle
        /\ IF t \in DOMAIN ledger
           THEN /\ ledger' = [ledger EXCEPT ![t] = Account(o.owner, 0, 0, 0)]
                /\ Pay(o.owner, ledger[t].margin)
                /\ allMargin' = allMargin - ledger[t].margin
           ELSE UNCHANGED <<ledger, cash, allCash, allMargin>>
        /\ UNCHANGED <<loggedIn, orders, fix, paidIn, fees, dividends>>

FeedThread ==
    \/ \E t \in Tickets, p \in Prices :
          \E q \in 1 .. orders[t].qty : Execute(t, p, q)
    \/ \E t \in Tickets : Cancel(t)
    \/ SettleClose \/ SettleOpen \/ FeeTest \/ Charge \/ FreeMargin

-----------------------------------------------------------------------------
\* The consumer thread: ExdrChange() for a filled ticket that no order closes.
AddExdrCash(t, amount) ==
    LET s == orders[t].owner
        all == ledger[t].qty * amount * LotFactor
    IN  /\ Running /\ dividends < MaxDividends
        /\ Filled(t) /\ orders[t].closes = NoTicket
        /\ \A u \in Tickets : orders[u].closes # t
        /\ t \in DOMAIN ledger
        /\ Pay(s, all)
        /\ paidIn' = [paidIn EXCEPT ![s] = @ + all]
        /\ dividends' = dividends + 1
        /\ UNCHANGED <<loggedIn, ledger, allMargin, orders, fix, feed, fees>>

Consumer ==
    \E t \in Tickets, amount \in Dividends : AddExdrCash(t, amount)

Next == FixThread \/ FeedThread \/ Consumer

Spec == Init /\ [][Next]_vars

-----------------------------------------------------------------------------
(* Properties. *)

AccountRecord ==
    [owner : Traders, margin : Nat, equity : Nat, qty : Nat, report : BOOLEAN]

OrderRecord ==
    [owner : Traders, price : Prices, qty : Nat \ {0}, leaves : Nat,
     amount : Nat, closes : 0 .. MaxTickets, cancelled : BOOLEAN]

FixStep == [pc : {"margin", "freeze", "insert"}, owner : Traders,
            price : Prices, qty : Quantities, seen : Int]

FeedStep == [pc : {"settle", "fee", "charge", "free", "thrown"},
             ticket : 1 .. MaxTickets]

\* Types of all the state.
TypeOK ==
    /\ loggedIn \subseteq Traders
    /\ cash \in [Traders -> Int] /\ allCash \in Int /\ allMargin \in Int
    /\ DOMAIN ledger \subseteq 1 .. MaxTickets
    /\ ledger \in [DOMAIN ledger -> AccountRecord]
    /\ orders \in Seq(OrderRecord) /\ Len(orders) <= MaxTickets
    /\ fix \in {Idle} \cup FixStep
    /\ feed \in {Idle} \cup FeedStep
    /\ paidIn \in [Traders -> Nat] /\ fees \in [Traders -> Nat]
    /\ dividends \in 0 .. MaxDividends

\* The cash of all traders.
Cash == SumFunctionOnSet(cash, Traders)

\* Whichever threads move cash, _all_total_cash follows the traders' cash; it
\* misses what accounts of earlier runs brought, and nothing else.
AllCashAddsUp == allCash = Cash - Stored * Cardinality(loggedIn \cap Known)

\* The closing orders of s whose proceeds have been paid.
PaidOut(s) ==
    {t \in Tickets : /\ orders[t].owner = s /\ orders[t].closes # NoTicket
                     /\ Filled(t)
                     /\ ~(feed.pc = "settle" /\ feed.ticket = t)}

\* No thread creates or loses a trader's money: cash and what orders hold frozen
\* or have cost are what was paid in and what closing orders brought, each
\* once, less the commission.
MoneyIsConserved ==
    \A s \in Traders :
        cash[s] + SumFunctionOnSet([t \in DOMAIN ledger |-> ledger[t].margin],
                                   {t \in DOMAIN ledger : ledger[t].owner = s})
          = paidIn[s] - fees[s]
              + SumFunctionOnSet([t \in Tickets |-> orders[t].amount], PaidOut(s))

\* The books balance: each trader's money, and the total of all traders.
MoneyInv == TypeOK /\ AllCashAddsUp /\ MoneyIsConserved

\* The tests of cash precede the mutex, so cash may become negative, but by no
\* more than one order's margin or commission: then both threads' tests fail.
\* (Without tif_day an execution may cost any amount.)
OneOrder(amount) ==
    amount > 0 => \E p \in Prices, q \in Quantities, f \in {MarginFactor, FeeFactor} :
                      amount <= p * q * f

OverdraftIsOneOrder == TifDay => \A s \in Traders : OneOrder(-cash[s])

\* A frozen order is charged what it cost: once all its lots are settled, its
\* account holds the amount executed, or what was frozen if that is less.
SettledAtCost ==
    \A t \in Tickets :
        LET o == orders[t]
        IN  /\ Filled(t) /\ o.closes = NoTicket /\ t \in DOMAIN ledger
            /\ ~(feed.pc = "settle" /\ feed.ticket = t)
            => LET frozen == Equity(o.price, o.qty)
               IN  ledger[t].margin = IF TifDay /\ o.amount > frozen
                                      THEN frozen ELSE o.amount

\* lob() places an order whose margin is not frozen only if the cash that
\* CheckMargin() saw was spent before Margin() looked.
UncoveredOnlyInARace ==
    [][MarginTest /\ fix'.pc = "insert" => cash[fix.owner] < fix.seen]_vars

\* SettlInst() calls it a bug if a closing order's ticket has no account: the
\* tickets that traders close have been paid for.
ClosesPaidTickets ==
    feed.pc = "settle" /\ orders[feed.ticket].closes # NoTicket
        => orders[feed.ticket].closes \in DOMAIN ledger
=============================================================================
