---------------------------- MODULE BrokerProofs ----------------------------
(***************************************************************************)
(* The broker's ledger, for any traders, prices, quantities and factors:   *)
(* its types, how far the tests that precede the mutex let a trader        *)
(* overdraw, that the books balance, and what an order is charged; and the *)
(* dividends of the feed, which the ledger pays.                           *)
(*                                                                         *)
(* The invariant has parts, each kept by every step.  Places says where    *)
(* the threads may be; Bounded takes what a thread has tested the cash for *)
(* as spent; MoneyParts adds whose the accounts are to the two balances;   *)
(* Costs follows the margin of each account until its last lot is settled. *)
(* DividendsKept follows a dividend from the stream to its holders.        *)
(***************************************************************************)
EXTENDS Broker, Feed, SequenceTheorems, Arithmetic

\* Where the threads may be: an order on its way has a ticket left and an
\* account that is logged in, as has every order; a lot is of an order.
Places ==
    /\ fix.pc # "idle" => Len(orders) < MaxTickets /\ fix.owner \in loggedIn
    /\ feed.pc # "idle" => feed.ticket \in Tickets
    /\ \A t \in Tickets : /\ orders[t].owner \in loggedIn
                          /\ \E q \in Quantities : orders[t].qty <= q

\* What a thread has tested the cash for and not yet taken.
PendingMargin(s) ==
    IF fix.pc = "freeze" /\ fix.owner = s THEN Equity(fix.price, fix.qty) ELSE 0

PendingFee(s) ==
    IF feed.pc = "charge" /\ orders[feed.ticket].owner = s
    THEN Fee(orders[feed.ticket]) ELSE 0

Need(s) == PendingMargin(s) + PendingFee(s) - cash[s]

\* Taking all of that, a trader is overdrawn by no more than one order.
Bounded == TifDay => \A s \in Traders : OneOrder(Need(s))

-----------------------------------------------------------------------------
\* Amounts are natural numbers.
LEMMA ProductNat == \A m, n \in Nat : m * n \in Nat
  BY SMT

LEMMA Amounts ==
    ASSUME NEW p \in Nat, NEW q \in Nat
    PROVE  Equity(p, q) \in Nat /\ Effect(p, q) \in Nat
  <1>1. q * p \in Nat /\ LotFactor * q \in Nat
    BY ProductNat, BrokerAssumption
  <1>2. QED
    BY <1>1, ProductNat, BrokerAssumption DEF Equity, Effect

\* The orders are a sequence of order records, and so is what Append and EXCEPT
\* make of it.
LEMMA OrdersAre ==
    ASSUME TypeOK
    PROVE  /\ Len(orders) \in Nat /\ Tickets = 1 .. Len(orders)
           /\ Tickets \subseteq 1 .. MaxTickets
           /\ \A t \in Tickets : orders[t] \in OrderRecord
           /\ \A t \in Tickets : Fee(orders[t]) \in Nat
  <1>1. Len(orders) \in Nat /\ DOMAIN orders = 1 .. Len(orders)
        /\ orders \in [1 .. Len(orders) -> OrderRecord]
    BY LenProperties DEF TypeOK
  <1>2. ASSUME NEW t \in Tickets PROVE Fee(orders[t]) \in Nat
    <2>1. orders[t].price \in Nat /\ orders[t].qty \in Nat /\ FeeFactor \in Nat
      BY <1>1, BrokerAssumption DEF Tickets, OrderRecord
    <2>2. orders[t].price * orders[t].qty \in Nat
      BY <2>1, ProductNat
    <2>3. QED
      BY <2>1, <2>2, ProductNat DEF Fee
  <1>3. Len(orders) <= MaxTickets
    BY DEF TypeOK
  <1>4. QED
    BY <1>1, <1>2, <1>3, BrokerAssumption DEF Tickets

LEMMA Appended ==
    ASSUME TypeOK, NEW o \in OrderRecord, orders' = Append(orders, o)
    PROVE  /\ orders' \in Seq(OrderRecord) /\ Len(orders') = Len(orders) + 1
           /\ Tickets' = Tickets \cup {Len(orders) + 1}
           /\ \A t \in Tickets : orders'[t] = orders[t]
           /\ orders'[Len(orders) + 1] = o
  <1>1. orders \in Seq(OrderRecord) /\ Len(orders) \in Nat
    BY OrdersAre DEF TypeOK
  <1>2. orders' \in Seq(OrderRecord) /\ Len(orders') = Len(orders) + 1
        /\ (\A t \in 1 .. Len(orders) : orders'[t] = orders[t])
        /\ orders'[Len(orders) + 1] = o
    BY <1>1, AppendProperties
  <1>3. Tickets = 1 .. Len(orders) /\ Tickets' = 1 .. Len(orders')
    BY <1>1, <1>2, LenProperties DEF Tickets
  <1>4. QED
    BY <1>1, <1>2, <1>3

LEMMA Replaced ==
    ASSUME TypeOK, NEW t \in Tickets, NEW o \in OrderRecord,
           orders' = [orders EXCEPT ![t] = o]
    PROVE  /\ orders' \in Seq(OrderRecord) /\ Len(orders') = Len(orders)
           /\ Tickets' = Tickets
           /\ \A u \in Tickets : orders'[u] = IF u = t THEN o ELSE orders[u]
  <1>1. orders \in Seq(OrderRecord) /\ Tickets = 1 .. Len(orders)
    BY OrdersAre DEF TypeOK
  <1>2. orders' \in Seq(OrderRecord) /\ Len(orders') = Len(orders)
        /\ \A u \in Tickets : orders'[u] = IF u = t THEN o ELSE orders[u]
    BY <1>1, ExceptSeq
  <1>3. Tickets' = 1 .. Len(orders')
    BY <1>2, LenProperties DEF Tickets
  <1>4. QED
    BY <1>1, <1>2, <1>3

LEMMA Paid ==
    ASSUME TypeOK, NEW s \in Traders, NEW amount \in Int, Pay(s, amount)
    PROVE  /\ cash' \in [Traders -> Int] /\ allCash' \in Int
           /\ \A u \in Traders : cash'[u] = IF u = s THEN cash[u] + amount
                                                     ELSE cash[u]
           /\ cash \in [Traders -> Int] /\ allMargin \in Int
           /\ paidIn \in [Traders -> Nat]
  <1>1. /\ cash \in [Traders -> Int] /\ allCash \in Int /\ allMargin \in Int
        /\ paidIn \in [Traders -> Nat]
    BY DEF TypeOK
  <1>2. QED
    BY <1>1 DEF Pay

\* A thread that is not idle is at a step of its own.
LEMMA AtFix ==
    ASSUME TypeOK, fix.pc # "idle"
    PROVE  /\ fix \in FixStep
           /\ fix.owner \in Traders /\ fix.price \in Prices /\ fix.qty \in Quantities
           /\ fix.price \in Nat \ {0} /\ fix.qty \in Nat \ {0}
           /\ Equity(fix.price, fix.qty) \in Nat
  <1>1. fix \in FixStep
    BY DEF TypeOK, Idle
  <1>2. fix.owner \in Traders /\ fix.price \in Prices /\ fix.qty \in Quantities
    BY <1>1 DEF FixStep
  <1>3. QED
    BY <1>1, <1>2, Amounts, BrokerAssumption

LEMMA AtFeed ==
    ASSUME TypeOK, Places, feed.pc # "idle"
    PROVE  /\ feed \in FeedStep /\ feed.ticket \in Tickets
           /\ orders[feed.ticket] \in OrderRecord
           /\ orders[feed.ticket].owner \in Traders
           /\ Fee(orders[feed.ticket]) \in Nat
  <1>1. feed \in FeedStep /\ feed.ticket \in Tickets
    BY DEF TypeOK, Idle, Places
  <1>2. QED
    BY <1>1, OrdersAre DEF OrderRecord

\* The types and places hold at the start.
LEMMA TypeInit == Init => TypeOK /\ Places
  <1> SUFFICES ASSUME Init PROVE TypeOK /\ Places
    OBVIOUS
  <1>1. orders \in Seq(OrderRecord) /\ Len(orders) = 0
    BY EmptySeq DEF Init
  <1>2. Tickets = {}
    BY <1>1, LenProperties DEF Tickets
  <1>3. ledger \in [DOMAIN ledger -> AccountRecord] /\ DOMAIN ledger = {}
    BY DEF Init
  <1>4. QED
    BY <1>1, <1>2, <1>3, BrokerAssumption DEF Init, TypeOK, Places, Idle

-----------------------------------------------------------------------------
(* The FIX thread keeps the types and places. *)

LEMMA ApplyTypes ==
    ASSUME TypeOK, Places, NEW s \in Traders, NEW amount \in Deposits,
           Apply(s, amount)
    PROVE  TypeOK' /\ Places'
  <1>1. amount \in Nat /\ paidIn[s] \in Nat /\ Stored \in Nat
    BY BrokerAssumption DEF TypeOK
  <1>2. cash' \in [Traders -> Int] /\ allCash' \in Int /\ allMargin' \in Int
        /\ paidIn' \in [Traders -> Nat]
    <2>1. CASE OpenAccount(s, amount)
      <3>1. Pay(s, amount) /\ allMargin' = 0
            /\ paidIn' = [paidIn EXCEPT ![s] = @ + amount]
        BY <2>1 DEF OpenAccount
      <3>2. QED
        BY <3>1, <1>1, Paid
    <2>2. CASE ResumeAccount(s)
      BY <2>2, <1>1 DEF ResumeAccount, TypeOK
    <2>3. CASE AddCash(s, amount)
      <3>1. Pay(s, amount) /\ allMargin' = allMargin
            /\ paidIn' = [paidIn EXCEPT ![s] = @ + amount]
        BY <2>3 DEF AddCash
      <3>2. QED
        BY <3>1, <1>1, Paid
    <2>4. QED
      BY <2>1, <2>2, <2>3 DEF Apply
  <1>3. loggedIn' = loggedIn \cup {s} /\ fix' = fix /\ fix.pc = "idle"
        /\ UNCHANGED <<ledger, orders, feed, fees, dividends>>
    BY DEF Apply
  <1>4. TypeOK'
    BY <1>2, <1>3 DEF TypeOK
  <1>5. Places'
    BY <1>3 DEF Places, Tickets
  <1>6. QED
    BY <1>4, <1>5

LEMMA CheckMarginTypes ==
    ASSUME TypeOK, Places, NEW s \in Traders, NEW price \in Prices,
           NEW qty \in Quantities, CheckMargin(s, price, qty)
    PROVE  TypeOK' /\ Places'
  <1>1. fix' \in FixStep
    BY DEF CheckMargin, TypeOK, FixStep
  <1>2. TypeOK'
    BY <1>1 DEF CheckMargin, TypeOK
  <1>3. Places'
    BY DEF CheckMargin, Places, Tickets
  <1>4. QED
    BY <1>2, <1>3

LEMMA MarginTestTypes ==
    ASSUME TypeOK, Places, MarginTest
    PROVE  TypeOK' /\ Places'
  <1>1. fix \in FixStep /\ fix.pc = "margin"
    BY AtFix DEF MarginTest
  <1>2. fix' \in FixStep /\ fix'.owner = fix.owner /\ fix'.pc # "idle"
    <2>1. CASE cash[fix.owner] < Equity(fix.price, fix.qty)
      BY <1>1, <2>1 DEF MarginTest, FixStep
    <2>2. CASE ~(cash[fix.owner] < Equity(fix.price, fix.qty))
      BY <1>1, <2>2 DEF MarginTest, FixStep
    <2>3. QED
      BY <2>1, <2>2
  <1>3. TypeOK'
    BY <1>2 DEF MarginTest, TypeOK
  <1>4. Places'
    BY <1>1, <1>2 DEF MarginTest, Places, Tickets
  <1>5. QED
    BY <1>3, <1>4

\* Put() in Margin(), SettlInst() and freeMargin().
LEMMA PutTypes ==
    ASSUME TypeOK, NEW t \in 1 .. MaxTickets, NEW a \in AccountRecord
    PROVE  /\ DOMAIN Put(t, a) \subseteq 1 .. MaxTickets
           /\ Put(t, a) \in [DOMAIN Put(t, a) -> AccountRecord]
  BY DEF TypeOK, Put

LEMMA MarginTypes ==
    ASSUME TypeOK, Places, Margin
    PROVE  TypeOK' /\ Places'
  <1> DEFINE t == Len(orders) + 1
             m == Equity(fix.price, fix.qty)
  <1>1. fix.pc = "freeze" /\ fix \in FixStep /\ fix.owner \in Traders
        /\ m \in Nat /\ fix.qty \in Nat
    BY AtFix DEF Margin
  <1>2. t \in 1 .. MaxTickets
    BY <1>1, OrdersAre, BrokerAssumption DEF Places
  <1>3. Account(fix.owner, m, 0, fix.qty) \in AccountRecord
    BY <1>1 DEF Account, AccountRecord
  <1>4. DOMAIN ledger' \subseteq 1 .. MaxTickets
        /\ ledger' \in [DOMAIN ledger' -> AccountRecord]
    <2>1. ledger' = Put(t, Account(fix.owner, m, 0, fix.qty))
      BY DEF Margin
    <2>2. QED
      BY <2>1, <1>2, <1>3, PutTypes
  <1>5. Pay(fix.owner, -m) /\ allMargin' = allMargin + m
    BY DEF Margin
  <1>6. cash' \in [Traders -> Int] /\ allCash' \in Int /\ allMargin' \in Int
    BY <1>1, <1>5, Paid
  <1>7. fix' \in FixStep /\ fix'.owner = fix.owner
    BY <1>1 DEF Margin, FixStep
  <1>8. TypeOK'
    BY <1>4, <1>6, <1>7 DEF Margin, TypeOK
  <1>9. Places'
    BY <1>1, <1>7 DEF Margin, Places, Tickets
  <1>10. QED
    BY <1>8, <1>9

LEMMA ProcessOrderTypes ==
    ASSUME TypeOK, Places, ProcessOrder
    PROVE  TypeOK' /\ Places'
  <1> DEFINE o == Placed(fix.owner, fix.price, fix.qty, NoTicket)
  <1>1. fix.pc = "insert" /\ fix.owner \in Traders /\ fix.price \in Prices
        /\ fix.qty \in Quantities /\ fix.qty \in Nat \ {0}
    BY AtFix DEF ProcessOrder
  <1>2. o \in OrderRecord
    BY <1>1, BrokerAssumption DEF Placed, NoTicket, OrderRecord
  <1>3. orders' = Append(orders, o) /\ fix' = Idle /\ fix'.pc = "idle"
        /\ UNCHANGED <<loggedIn, cash, ledger, allCash, allMargin, feed, paidIn,
                       fees, dividends>>
    BY DEF ProcessOrder, Idle
  <1>4. orders' \in Seq(OrderRecord) /\ Len(orders') = Len(orders) + 1
        /\ Tickets' = Tickets \cup {Len(orders) + 1}
        /\ (\A t \in Tickets : orders'[t] = orders[t])
        /\ orders'[Len(orders) + 1] = o
    BY <1>2, <1>3, Appended
  <1>5. Len(orders) \in Nat /\ Len(orders) < MaxTickets /\ fix.owner \in loggedIn
    BY <1>1, OrdersAre DEF Places
  <1>6. TypeOK'
    <2>1. orders' \in Seq(OrderRecord) /\ Len(orders') <= MaxTickets
      BY <1>4, <1>5, BrokerAssumption
    <2>2. fix' = Idle /\ UNCHANGED <<loggedIn, cash, ledger, allCash, allMargin,
                                     feed, paidIn, fees, dividends>>
      BY <1>3
    <2>3. QED
      BY <2>1, <2>2 DEF TypeOK
  <1>7. \A t \in Tickets' : /\ orders'[t].owner \in loggedIn
                            /\ \E q \in Quantities : orders'[t].qty <= q
    <2>1. o.owner \in loggedIn /\ o.qty <= fix.qty
      BY <1>1, <1>5 DEF Placed
    <2>2. QED
      BY <2>1, <1>1, <1>4 DEF Places
  <1>8. Places'
    BY <1>3, <1>4, <1>7 DEF Places
  <1>9. QED
    BY <1>6, <1>8

LEMMA CloseTicketTypes ==
    ASSUME TypeOK, Places, NEW t \in Tickets, NEW price \in Prices,
           NEW lots \in 1 .. orders[t].qty, CloseTicket(t, price, lots)
    PROVE  TypeOK' /\ Places'
  <1> DEFINE o == Placed(orders[t].owner, price, lots, t)
  <1>1. orders[t] \in OrderRecord /\ t \in 1 .. MaxTickets /\ Len(orders) \in Nat
    BY OrdersAre
  <1>2. lots \in Nat \ {0} /\ lots <= orders[t].qty /\ orders[t].qty \in Nat
    BY <1>1 DEF OrderRecord
  <1>3. o \in OrderRecord
    BY <1>1, <1>2, BrokerAssumption DEF Placed, OrderRecord
  <1>4. orders' = Append(orders, o) /\ fix.pc = "idle"
        /\ Len(orders) < MaxTickets
        /\ UNCHANGED <<loggedIn, cash, ledger, allCash, allMargin, fix, feed,
                       paidIn, fees, dividends>>
    BY DEF CloseTicket
  <1>5. orders' \in Seq(OrderRecord) /\ Len(orders') = Len(orders) + 1
        /\ Tickets' = Tickets \cup {Len(orders) + 1}
        /\ (\A u \in Tickets : orders'[u] = orders[u])
        /\ orders'[Len(orders) + 1] = o
    BY <1>3, <1>4, Appended
  <1>6. TypeOK'
    <2>1. orders' \in Seq(OrderRecord) /\ Len(orders') <= MaxTickets
      BY <1>1, <1>4, <1>5, BrokerAssumption
    <2>2. UNCHANGED <<loggedIn, cash, ledger, allCash, allMargin, fix, feed,
                      paidIn, fees, dividends>>
      BY <1>4
    <2>3. QED
      BY <2>1, <2>2 DEF TypeOK
  <1>7. \A u \in Tickets' : /\ orders'[u].owner \in loggedIn
                            /\ \E q \in Quantities : orders'[u].qty <= q
    <2>1. PICK q \in Quantities : orders[t].qty <= q
      BY DEF Places
    <2>2. o.owner \in loggedIn /\ o.qty <= q
      BY <1>2, <2>1, BrokerAssumption DEF Placed, Places
    <2>3. QED
      BY <2>2, <1>5 DEF Places
  <1>8. Places'
    BY <1>4, <1>5, <1>7 DEF Places
  <1>9. QED
    BY <1>6, <1>8

-----------------------------------------------------------------------------
(* The feed thread and the consumer keep the types and places. *)

\* An order that is executed or cancelled keeps its place.
LEMMA OrderChanges ==
    ASSUME TypeOK, Places, NEW t \in Tickets, NEW o \in OrderRecord,
           o.owner = orders[t].owner, o.qty = orders[t].qty,
           orders' = [orders EXCEPT ![t] = o],
           feed' \in FeedStep, feed'.ticket = t,
           UNCHANGED <<loggedIn, cash, ledger, allCash, allMargin, fix, paidIn,
                       fees, dividends>>
    PROVE  TypeOK' /\ Places'
  <1>1. orders' \in Seq(OrderRecord) /\ Len(orders') = Len(orders)
        /\ Tickets' = Tickets
        /\ \A u \in Tickets : orders'[u] = IF u = t THEN o ELSE orders[u]
    BY Replaced
  <1>2. \A u \in Tickets : orders'[u].owner = orders[u].owner
                           /\ orders'[u].qty = orders[u].qty
    BY <1>1
  <1>3. TypeOK'
    <2>1. orders' \in Seq(OrderRecord) /\ Len(orders') <= MaxTickets
      BY <1>1 DEF TypeOK
    <2>2. feed' \in FeedStep
          /\ UNCHANGED <<loggedIn, cash, ledger, allCash, allMargin, fix,
                         paidIn, fees, dividends>>
      OBVIOUS
    <2>3. QED
      BY <2>1, <2>2 DEF TypeOK
  <1>4. Places'
    BY <1>1, <1>2 DEF Places
  <1>5. QED
    BY <1>3, <1>4

LEMMA ExecuteTypes ==
    ASSUME TypeOK, Places, NEW t \in Tickets, NEW price \in Prices,
           NEW qty \in 1 .. orders[t].qty, Execute(t, price, qty)
    PROVE  TypeOK' /\ Places'
  <1> DEFINE o == Executed(orders[t], price, qty)
  <1>1. orders[t] \in OrderRecord /\ t \in 1 .. MaxTickets
    BY OrdersAre
  <1>2. qty \in Nat /\ qty <= orders[t].leaves /\ Effect(price, qty) \in Nat
    <2>1. qty \in Nat /\ price \in Nat
      BY <1>1, BrokerAssumption DEF OrderRecord
    <2>2. QED
      BY <2>1, Amounts DEF Execute
  <1>3. o \in OrderRecord /\ o.owner = orders[t].owner /\ o.qty = orders[t].qty
    <2>1. orders[t].leaves \in Nat /\ orders[t].amount \in Nat
      BY <1>1 DEF OrderRecord
    <2>2. orders[t].leaves - qty \in Nat
          /\ orders[t].amount + Effect(price, qty) \in Nat
      BY <1>2, <2>1
    <2>3. QED
      BY <1>1, <2>2 DEF OrderRecord, Executed
  <1>4. orders' = [orders EXCEPT ![t] = o]
        /\ feed' = [pc |-> "settle", ticket |-> t]
        /\ UNCHANGED <<loggedIn, cash, ledger, allCash, allMargin, fix, paidIn,
                       fees, dividends>>
    BY DEF Execute
  <1>5. feed' \in FeedStep /\ feed'.ticket = t
    BY <1>1, <1>4 DEF FeedStep
  <1>6. QED
    BY <1>3, <1>4, <1>5, OrderChanges

LEMMA CancelTypes ==
    ASSUME TypeOK, Places, NEW t \in Tickets, Cancel(t)
    PROVE  TypeOK' /\ Places'
  <1> DEFINE o == [orders[t] EXCEPT !.cancelled = TRUE]
  <1>1. orders[t] \in OrderRecord /\ t \in 1 .. MaxTickets
    BY OrdersAre
  <1>2. o \in OrderRecord /\ o.owner = orders[t].owner /\ o.qty = orders[t].qty
    BY <1>1 DEF OrderRecord
  <1>3. orders' = [orders EXCEPT ![t] = o]
        /\ feed' = [pc |-> "free", ticket |-> t]
        /\ UNCHANGED <<loggedIn, cash, ledger, allCash, allMargin, fix, paidIn,
                       fees, dividends>>
    BY DEF Cancel
  <1>4. feed' \in FeedStep /\ feed'.ticket = t
    BY <1>1, <1>3 DEF FeedStep
  <1>5. QED
    BY <1>2, <1>3, <1>4, OrderChanges

\* What the other steps of the feed thread and the consumer may change.
LEMMA LedgerChanges ==
    ASSUME TypeOK, Places,
           DOMAIN ledger' \subseteq 1 .. MaxTickets,
           ledger' \in [DOMAIN ledger' -> AccountRecord],
           cash' \in [Traders -> Int], allCash' \in Int, allMargin' \in Int,
           feed' \in {Idle} \cup FeedStep,
           feed'.pc # "idle" => feed'.ticket \in Tickets,
           paidIn' \in [Traders -> Nat], fees' \in [Traders -> Nat],
           dividends' \in 0 .. MaxDividends,
           UNCHANGED <<loggedIn, orders, fix>>
    PROVE  TypeOK' /\ Places'
  <1>1. TypeOK'
    BY DEF TypeOK
  <1>2. Places'
    BY DEF Places, Tickets
  <1>3. QED
    BY <1>1, <1>2

\* The feed thread's step after SettlInst() is one of its steps.
LEMMA AfterSettleIs ==
    ASSUME TypeOK, Places, feed.pc = "settle",
           feed' = AfterSettle(orders[feed.ticket])
    PROVE  feed' \in FeedStep /\ feed'.ticket = feed.ticket
           /\ feed'.pc \in {"fee", "thrown"} /\ feed'.ticket \in Tickets
  <1>1. feed \in FeedStep /\ feed.ticket \in Tickets
    BY AtFeed
  <1>2. feed' = [feed EXCEPT !.pc = "thrown"] \/ feed' = [feed EXCEPT !.pc = "fee"]
    BY DEF AfterSettle
  <1>3. QED
    BY <1>1, <1>2 DEF FeedStep

\* A lot's order is what the types say.
LEMMA Lot ==
    ASSUME TypeOK, Places, feed.pc # "idle"
    PROVE  /\ feed.ticket \in 1 .. MaxTickets
           /\ orders[feed.ticket].amount \in Nat
           /\ orders[feed.ticket].qty \in Nat
           /\ orders[feed.ticket].closes \in Int
           /\ feed.ticket \in DOMAIN ledger =>
                 /\ ledger[feed.ticket] \in AccountRecord
                 /\ ledger[feed.ticket].margin \in Nat
  <1>1. feed \in FeedStep /\ orders[feed.ticket] \in OrderRecord
    BY AtFeed
  <1>2. feed.ticket \in 1 .. MaxTickets
    BY <1>1 DEF FeedStep
  <1>3. feed.ticket \in DOMAIN ledger => ledger[feed.ticket] \in AccountRecord
    BY DEF TypeOK
  <1>4. orders[feed.ticket].amount \in Nat /\ orders[feed.ticket].qty \in Nat
        /\ orders[feed.ticket].closes \in 0 .. MaxTickets
    BY <1>1 DEF OrderRecord
  <1>5. feed.ticket \in DOMAIN ledger => ledger[feed.ticket].margin \in Nat
    BY <1>3 DEF AccountRecord
  <1>6. QED
    BY <1>2, <1>3, <1>4, <1>5, BrokerAssumption

LEMMA SettleCloseTypes ==
    ASSUME TypeOK, Places, SettleClose
    PROVE  TypeOK' /\ Places'
  <1> DEFINE t == feed.ticket
             o == orders[t]
             known == o.closes \in DOMAIN ledger
             settled == IF t \in DOMAIN ledger
                        THEN [ledger EXCEPT ![t].equity = o.amount]
                        ELSE Put(t, Account(o.owner, 0, o.amount, o.qty))
  <1>1. feed.pc = "settle" /\ t \in 1 .. MaxTickets /\ t \in Tickets
        /\ o.owner \in Traders /\ o.amount \in Nat /\ o.qty \in Nat
    BY AtFeed, Lot DEF SettleClose
  <1>2. ledger \in [DOMAIN ledger -> AccountRecord]
        /\ DOMAIN ledger \subseteq 1 .. MaxTickets
    BY DEF TypeOK
  <1>3. settled \in [DOMAIN settled -> AccountRecord]
        /\ DOMAIN settled \subseteq 1 .. MaxTickets
        /\ DOMAIN ledger \subseteq DOMAIN settled
    <2>1. CASE t \in DOMAIN ledger
      <3>1. ledger[t] \in AccountRecord
        BY <1>2, <2>1
      <3>2. [ledger[t] EXCEPT !.equity = o.amount] \in AccountRecord
        BY <3>1, <1>1 DEF AccountRecord
      <3>3. settled = [ledger EXCEPT ![t].equity = o.amount]
        BY <2>1
      <3>4. QED
        BY <1>2, <3>2, <3>3
    <2>2. CASE t \notin DOMAIN ledger
      <3>1. Account(o.owner, 0, o.amount, o.qty) \in AccountRecord
        BY <1>1 DEF Account, AccountRecord
      <3>2. settled = Put(t, Account(o.owner, 0, o.amount, o.qty))
        BY <2>2
      <3>3. QED
        BY <1>1, <1>2, <3>1, <3>2, PutTypes DEF Put
    <2>3. QED
      BY <2>1, <2>2
  <1>4. ledger' = settled \/ (known /\ ledger' = [settled EXCEPT ![o.closes].report = TRUE])
    BY DEF SettleClose
  <1>5. ledger' \in [DOMAIN ledger' -> AccountRecord]
        /\ DOMAIN ledger' \subseteq 1 .. MaxTickets
    <2> HIDE DEF settled
    <2>1. CASE ledger' = settled
      BY <2>1, <1>3
    <2>2. CASE known /\ ledger' = [settled EXCEPT ![o.closes].report = TRUE]
      <3>1. settled[o.closes] \in AccountRecord
        BY <2>2, <1>3
      <3>2. [settled[o.closes] EXCEPT !.report = TRUE] \in AccountRecord
        BY <3>1 DEF AccountRecord
      <3>3. QED
        BY <2>2, <3>2, <1>3
    <2>3. QED
      BY <2>1, <2>2, <1>4
  <1>6. cash' \in [Traders -> Int] /\ allCash' \in Int /\ allMargin' \in Int
    <2>1. CASE Filled(t)
      <3>1. Pay(o.owner, o.amount)
            /\ allMargin' = IF known THEN allMargin - ledger[o.closes].equity
                                     ELSE allMargin
        BY <2>1 DEF SettleClose
      <3>2. known => ledger[o.closes].equity \in Nat
        BY <1>2 DEF AccountRecord
      <3>3. allMargin' \in Int
        BY <3>1, <3>2 DEF TypeOK
      <3>4. QED
        BY <3>1, <3>3, <1>1, Paid
    <2>2. CASE ~Filled(t)
      BY <2>2 DEF SettleClose, TypeOK
    <2>3. QED
      BY <2>1, <2>2
  <1>7. feed' \in FeedStep /\ feed'.ticket \in Tickets
    BY <1>1, AfterSettleIs DEF SettleClose
  <1>8. UNCHANGED <<loggedIn, orders, fix, paidIn, fees, dividends>>
    BY DEF SettleClose
  <1>9. paidIn' \in [Traders -> Nat] /\ fees' \in [Traders -> Nat]
        /\ dividends' \in 0 .. MaxDividends
    BY <1>8 DEF TypeOK
  <1>10. QED
    BY <1>5, <1>6, <1>7, <1>8, <1>9, LedgerChanges

\* What a lot of an opening order does to cash and ledger, by its cases.
LEMMA SettleOpenCases ==
    ASSUME TypeOK, Places, SettleOpen
    PROVE  LET t == feed.ticket
               o == orders[t]
           IN  \/ /\ UNCHANGED <<cash, allCash, allMargin>>
                  /\ \/ ledger' = ledger
                     \/ /\ t \in DOMAIN ledger
                        /\ ledger' = [ledger EXCEPT ![t] =
                                        [@ EXCEPT !.equity = o.amount]]
               \/ /\ t \in DOMAIN ledger
                  /\ ~(TifDay /\ o.amount > ledger[t].margin)
                  /\ ledger' = [ledger EXCEPT ![t] =
                                  [@ EXCEPT !.equity = o.amount,
                                            !.margin = o.amount]]
                  /\ Pay(o.owner, ledger[t].margin - o.amount)
                  /\ allMargin' = allMargin - (ledger[t].margin - o.amount)
  <1> DEFINE t == feed.ticket
             o == orders[t]
  <1>1. ledger \in [DOMAIN ledger -> AccountRecord]
    BY DEF TypeOK
  <1>2. CASE t \notin DOMAIN ledger
    BY <1>2 DEF SettleOpen
  <1>3. CASE t \in DOMAIN ledger /\ (~Filled(t) \/ (TifDay /\ o.amount > ledger[t].margin))
    BY <1>3 DEF SettleOpen
  <1>4. CASE t \in DOMAIN ledger /\ ~(~Filled(t) \/ (TifDay /\ o.amount > ledger[t].margin))
    <2>1. /\ ledger' = [ledger EXCEPT ![t].equity = o.amount,
                                      ![t].margin = o.amount]
          /\ Pay(o.owner, ledger[t].margin - o.amount)
          /\ allMargin' = allMargin - (ledger[t].margin - o.amount)
      BY <1>4 DEF SettleOpen
    <2>2. [ledger EXCEPT ![t].equity = o.amount, ![t].margin = o.amount]
            = [ledger EXCEPT ![t] = [@ EXCEPT !.equity = o.amount,
                                              !.margin = o.amount]]
      BY <1>1, <1>4
    <2>3. QED
      BY <1>4, <2>1, <2>2
  <1>5. QED
    BY <1>2, <1>3, <1>4

LEMMA SettleOpenTypes ==
    ASSUME TypeOK, Places, SettleOpen
    PROVE  TypeOK' /\ Places'
  <1> DEFINE t == feed.ticket
             o == orders[t]
  <1>1. feed.pc = "settle" /\ t \in 1 .. MaxTickets /\ o.owner \in Traders
        /\ o.amount \in Nat
    BY AtFeed, Lot DEF SettleOpen
  <1>2. ledger \in [DOMAIN ledger -> AccountRecord]
        /\ DOMAIN ledger \subseteq 1 .. MaxTickets /\ allMargin \in Int
        /\ cash \in [Traders -> Int] /\ allCash \in Int
    BY DEF TypeOK
  <1>3. t \in DOMAIN ledger => ledger[t] \in AccountRecord /\ ledger[t].margin \in Nat
    BY <1>1, Lot
  <1>4. /\ ledger' \in [DOMAIN ledger' -> AccountRecord]
        /\ DOMAIN ledger' \subseteq 1 .. MaxTickets
    <2>1. CASE ledger' = ledger
      BY <2>1, <1>2
    <2>2. CASE t \in DOMAIN ledger
               /\ ledger' = [ledger EXCEPT ![t] = [@ EXCEPT !.equity = o.amount]]
      <3>1. [ledger[t] EXCEPT !.equity = o.amount] \in AccountRecord
        BY <1>1, <1>3, <2>2 DEF AccountRecord
      <3>2. QED
        BY <1>2, <2>2, <3>1
    <2>3. CASE t \in DOMAIN ledger
               /\ ledger' = [ledger EXCEPT ![t] = [@ EXCEPT !.equity = o.amount,
                                                            !.margin = o.amount]]
      <3>1. [ledger[t] EXCEPT !.equity = o.amount, !.margin = o.amount]
              \in AccountRecord
        BY <1>1, <1>3, <2>3 DEF AccountRecord
      <3>2. QED
        BY <1>2, <2>3, <3>1
    <2>4. QED
      BY <2>1, <2>2, <2>3, SettleOpenCases
  <1>5. cash' \in [Traders -> Int] /\ allCash' \in Int /\ allMargin' \in Int
    <2>1. CASE UNCHANGED <<cash, allCash, allMargin>>
      BY <2>1, <1>2
    <2>2. CASE /\ t \in DOMAIN ledger
               /\ Pay(o.owner, ledger[t].margin - o.amount)
               /\ allMargin' = allMargin - (ledger[t].margin - o.amount)
      BY <2>2, <1>1, <1>2, <1>3, Paid
    <2>3. QED
      BY <2>1, <2>2, SettleOpenCases
  <1>6. feed' \in FeedStep /\ feed'.ticket \in Tickets
    BY <1>1, AfterSettleIs DEF SettleOpen
  <1>7. UNCHANGED <<loggedIn, orders, fix, paidIn, fees, dividends>>
    BY DEF SettleOpen
  <1>8. paidIn' \in [Traders -> Nat] /\ fees' \in [Traders -> Nat]
        /\ dividends' \in 0 .. MaxDividends
    BY <1>7 DEF TypeOK
  <1>9. QED
    BY <1>4, <1>5, <1>6, <1>7, <1>8, LedgerChanges

LEMMA FeeTestTypes ==
    ASSUME TypeOK, Places, FeeTest
    PROVE  TypeOK' /\ Places'
  <1>1. feed \in FeedStep /\ feed.ticket \in Tickets
    BY AtFeed DEF FeeTest
  <1>2. feed' = Idle \/ feed' = [feed EXCEPT !.pc = "charge"]
    BY DEF FeeTest
  <1>3. feed' \in {Idle} \cup FeedStep /\ (feed'.pc # "idle" => feed'.ticket \in Tickets)
    BY <1>1, <1>2 DEF FeedStep, Idle
  <1>4. UNCHANGED <<loggedIn, cash, ledger, allCash, allMargin, orders, fix,
                    paidIn, fees, dividends>>
    BY DEF FeeTest
  <1>5. QED
    BY <1>3, <1>4, LedgerChanges DEF TypeOK

LEMMA ChargeTypes ==
    ASSUME TypeOK, Places, Charge
    PROVE  TypeOK' /\ Places'
  <1> DEFINE o == orders[feed.ticket]
  <1>1. o.owner \in Traders /\ Fee(o) \in Nat
    BY AtFeed DEF Charge
  <1>2. Pay(o.owner, -Fee(o)) /\ fees' = [fees EXCEPT ![o.owner] = @ + Fee(o)]
        /\ feed' = Idle
        /\ UNCHANGED <<loggedIn, ledger, allMargin, orders, fix, paidIn, dividends>>
    BY DEF Charge
  <1>3. cash' \in [Traders -> Int] /\ allCash' \in Int
    BY <1>1, <1>2, Paid
  <1>4. fees' \in [Traders -> Nat]
    BY <1>1, <1>2 DEF TypeOK
  <1>5. feed' \in {Idle} \cup FeedStep /\ feed'.pc = "idle"
    BY <1>2 DEF Idle
  <1>6. QED
    BY <1>2, <1>3, <1>4, <1>5, LedgerChanges DEF TypeOK

LEMMA FreeMarginTypes ==
    ASSUME TypeOK, Places, FreeMargin
    PROVE  TypeOK' /\ Places'
  <1> DEFINE t == feed.ticket
             o == orders[t]
  <1>1. t \in 1 .. MaxTickets /\ o.owner \in Traders
        /\ (t \in DOMAIN ledger => ledger[t].margin \in Nat)
    BY AtFeed, Lot DEF FreeMargin
  <1>2. feed' = Idle /\ feed'.pc = "idle"
        /\ UNCHANGED <<loggedIn, orders, fix, paidIn, fees, dividends>>
    BY DEF FreeMargin, Idle
  <1>3. ledger \in [DOMAIN ledger -> AccountRecord] /\ allMargin \in Int
        /\ DOMAIN ledger \subseteq 1 .. MaxTickets
        /\ cash \in [Traders -> Int] /\ allCash \in Int
    BY DEF TypeOK
  <1>4. /\ ledger' \in [DOMAIN ledger' -> AccountRecord]
        /\ DOMAIN ledger' \subseteq 1 .. MaxTickets
        /\ cash' \in [Traders -> Int] /\ allCash' \in Int /\ allMargin' \in Int
    <2>1. CASE t \in DOMAIN ledger
      <3>1. ledger' = [ledger EXCEPT ![t] = Account(o.owner, 0, 0, 0)]
            /\ Pay(o.owner, ledger[t].margin)
            /\ allMargin' = allMargin - ledger[t].margin
        BY <2>1 DEF FreeMargin
      <3>2. Account(o.owner, 0, 0, 0) \in AccountRecord
        BY <1>1 DEF Account, AccountRecord
      <3>3. ledger' \in [DOMAIN ledger' -> AccountRecord]
            /\ DOMAIN ledger' \subseteq 1 .. MaxTickets
        BY <3>1, <3>2, <1>3
      <3>4. QED
        BY <2>1, <3>1, <3>3, <1>1, <1>3, Paid
    <2>2. CASE t \notin DOMAIN ledger
      BY <2>2, <1>3 DEF FreeMargin
    <2>3. QED
      BY <2>1, <2>2
  <1>5. paidIn' \in [Traders -> Nat] /\ fees' \in [Traders -> Nat]
        /\ dividends' \in 0 .. MaxDividends
    BY <1>2 DEF TypeOK
  <1>6. QED
    BY <1>2, <1>4, <1>5, LedgerChanges

\* A dividend is a natural number.
LEMMA DividendNat ==
    ASSUME TypeOK, NEW t \in DOMAIN ledger, NEW amount \in Dividends
    PROVE  ledger[t].qty * amount * LotFactor \in Nat
  <1>1. ledger[t].qty \in Nat /\ amount \in Nat /\ LotFactor \in Nat
    BY BrokerAssumption DEF TypeOK, AccountRecord
  <1>2. ledger[t].qty * amount \in Nat
    BY <1>1, ProductNat
  <1>3. QED
    BY <1>1, <1>2, ProductNat

LEMMA AddExdrCashTypes ==
    ASSUME TypeOK, Places, NEW t \in Tickets, NEW amount \in Dividends,
           AddExdrCash(t, amount)
    PROVE  TypeOK' /\ Places'
  <1> DEFINE s == orders[t].owner
             all == ledger[t].qty * amount * LotFactor
  <1>1. t \in DOMAIN ledger /\ dividends < MaxDividends /\ Pay(s, all)
        /\ paidIn' = [paidIn EXCEPT ![s] = @ + all]
        /\ dividends' = dividends + 1
        /\ UNCHANGED <<loggedIn, ledger, allMargin, orders, fix, feed, fees>>
    BY DEF AddExdrCash
  <1>2. s \in Traders /\ all \in Nat
    BY <1>1, OrdersAre, DividendNat DEF OrderRecord
  <1> HIDE DEF s, all
  <1>3. cash' \in [Traders -> Int] /\ allCash' \in Int
    BY <1>1, <1>2, Paid
  <1>4. paidIn' \in [Traders -> Nat]
    BY <1>1, <1>2 DEF TypeOK
  <1>5. dividends' \in 0 .. MaxDividends
    <2>1. dividends \in 0 .. MaxDividends
      BY DEF TypeOK
    <2>2. QED
      BY <1>1, <2>1, BrokerAssumption
  <1>6. feed'.pc # "idle" => feed'.ticket \in Tickets
    BY <1>1 DEF Places
  <1>7. QED
    BY <1>1, <1>3, <1>4, <1>5, <1>6, LedgerChanges DEF TypeOK

LEMMA TypeNext == TypeOK /\ Places /\ [Next]_vars => TypeOK' /\ Places'
  <1> SUFFICES ASSUME TypeOK, Places, [Next]_vars PROVE TypeOK' /\ Places'
    OBVIOUS
  <1>1. CASE FixThread
    BY <1>1, ApplyTypes, CheckMarginTypes, MarginTestTypes, MarginTypes,
       ProcessOrderTypes, CloseTicketTypes DEF FixThread
  <1>2. CASE FeedThread
    BY <1>2, ExecuteTypes, CancelTypes, SettleCloseTypes, SettleOpenTypes,
       FeeTestTypes, ChargeTypes, FreeMarginTypes DEF FeedThread
  <1>3. CASE Consumer
    BY <1>3, AddExdrCashTypes DEF Consumer
  <1>4. CASE UNCHANGED vars
    BY <1>4 DEF vars, TypeOK, Places, Tickets
  <1>5. QED
    BY <1>1, <1>2, <1>3, <1>4 DEF Next

\* The ledger of any traders has its types, and an order that is on its way
\* always finds a free ticket and its trader's account.
THEOREM TypeCorrect == Spec => [](TypeOK /\ Places)
  BY TypeInit, TypeNext, PTL DEF Spec

-----------------------------------------------------------------------------
(* The overdraft. *)

\* The commission of fewer lots is less.
LEMMA Monotone ==
    ASSUME NEW p \in Nat, NEW f \in Nat, NEW a \in Nat, NEW b \in Nat, a <= b
    PROVE  p * a * f <= p * b * f
  <1>1. ASSUME NEW x \in Nat, NEW y \in Nat, NEW z \in Nat, x <= y
        PROVE  x * z <= y * z /\ z * x = x * z /\ z * y = y * z
    BY <1>1, SMT
  <1>2. p * a \in Nat /\ p * b \in Nat
    BY ProductNat
  <1>3. p * a <= p * b
    BY <1>1, <1>2
  <1>4. QED
    BY <1>1, <1>2, <1>3

\* An amount is one order's if a greater one is.
LEMMA SmallerIsOneOrder ==
    ASSUME NEW a \in Int, NEW b \in Int, b <= a, OneOrder(a)
    PROVE  OneOrder(b)
  <1> SUFFICES ASSUME b > 0
               PROVE  \E p \in Prices, q \in Quantities, f \in {MarginFactor, FeeFactor} :
                         b <= p * q * f
    BY DEF OneOrder
  <1>1. PICK p \in Prices, q \in Quantities, f \in {MarginFactor, FeeFactor} :
           a <= p * q * f
    BY DEF OneOrder
  <1>2. p \in Nat /\ q \in Nat /\ f \in Nat
    BY BrokerAssumption
  <1>3. p * q \in Nat /\ p * q * f \in Nat
    BY <1>2, ProductNat
  <1>4. QED
    BY <1>1, <1>3

\* What one thread is about to take is one order's margin or commission.
LEMMA Pendings ==
    ASSUME TypeOK, Places, NEW s \in Traders
    PROVE  /\ PendingMargin(s) \in Nat /\ OneOrder(PendingMargin(s))
           /\ PendingFee(s) \in Nat /\ OneOrder(PendingFee(s))
           /\ cash[s] \in Int /\ Need(s) \in Int
  <1>1. PendingMargin(s) \in Nat /\ OneOrder(PendingMargin(s))
    <2>1. CASE fix.pc = "freeze" /\ fix.owner = s
      <3>1. fix.price \in Prices /\ fix.qty \in Quantities
            /\ fix.price \in Nat /\ fix.qty \in Nat
            /\ Equity(fix.price, fix.qty) \in Nat
        BY <2>1, AtFix
      <3>2. Equity(fix.price, fix.qty) = fix.price * fix.qty * MarginFactor
        BY <3>1, BrokerAssumption DEF Equity
      <3>3. PendingMargin(s) = Equity(fix.price, fix.qty)
        BY <2>1 DEF PendingMargin
      <3>4. Equity(fix.price, fix.qty) <= fix.price * fix.qty * MarginFactor
        BY <3>1, <3>2
      <3>5. QED
        BY <3>1, <3>3, <3>4 DEF OneOrder
    <2>2. CASE ~(fix.pc = "freeze" /\ fix.owner = s)
      BY <2>2 DEF PendingMargin, OneOrder
    <2>3. QED
      BY <2>1, <2>2
  <1>2. PendingFee(s) \in Nat /\ OneOrder(PendingFee(s))
    <2>1. CASE feed.pc = "charge" /\ orders[feed.ticket].owner = s
      <3> DEFINE o == orders[feed.ticket]
      <3>1. feed.ticket \in Tickets /\ o \in OrderRecord /\ Fee(o) \in Nat
        BY <2>1, AtFeed
      <3>2. PICK q \in Quantities : o.qty <= q
        BY <3>1 DEF Places
      <3>3. o.price \in Prices /\ o.price \in Nat /\ o.qty \in Nat /\ q \in Nat
            /\ FeeFactor \in Nat
        BY <3>1, BrokerAssumption DEF OrderRecord
      <3>4. Fee(o) <= o.price * q * FeeFactor
        BY <3>2, <3>3, Monotone DEF Fee
      <3>5. PendingFee(s) = Fee(o)
        BY <2>1 DEF PendingFee
      <3> HIDE DEF o
      <3>6. QED
        BY <3>1, <3>3, <3>4, <3>5 DEF OneOrder
    <2>2. CASE ~(feed.pc = "charge" /\ orders[feed.ticket].owner = s)
      BY <2>2 DEF PendingFee, OneOrder
    <2>3. QED
      BY <2>1, <2>2
  <1>3. cash[s] \in Int
    BY DEF TypeOK
  <1>4. QED
    BY <1>1, <1>2, <1>3 DEF Need

LEMMA PendingsNext ==
    ASSUME TypeOK', Places', NEW s \in Traders
    PROVE  /\ PendingMargin(s)' \in Nat /\ OneOrder(PendingMargin(s)')
           /\ PendingFee(s)' \in Nat /\ OneOrder(PendingFee(s)')
           /\ cash'[s] \in Int /\ Need(s)' \in Int
  <1>1. (TypeOK /\ Places => /\ PendingMargin(s) \in Nat
                             /\ OneOrder(PendingMargin(s))
                             /\ PendingFee(s) \in Nat
                             /\ OneOrder(PendingFee(s))
                             /\ cash[s] \in Int /\ Need(s) \in Int)'
    BY Pendings, PTL
  <1>2. QED
    BY <1>1 DEF OneOrder

\* A step that leaves each trader needing no more, or one order, keeps the bound.
LEMMA NoMoreNeed ==
    ASSUME TypeOK, Places, TypeOK', Places', Bounded,
           TifDay => \A s \in Traders : Need(s)' <= Need(s) \/ OneOrder(Need(s)')
    PROVE  Bounded'
  <1> SUFFICES ASSUME TifDay, NEW s \in Traders PROVE OneOrder(Need(s)')
    BY DEF Bounded, OneOrder
  <1>1. Need(s) \in Int /\ OneOrder(Need(s)) /\ Need(s)' \in Int
    BY Pendings, PendingsNext DEF Bounded
  <1>2. QED
    BY <1>1, SmallerIsOneOrder

\* The FIX thread's part of the need does not grow until it is to freeze.
LEMMA MarginStays ==
    ASSUME TypeOK, Places, NEW s \in Traders, fix' = fix \/ fix'.pc # "freeze"
    PROVE  PendingMargin(s)' <= PendingMargin(s)
  <1>1. PendingMargin(s) \in Nat
    BY Pendings
  <1>2. CASE fix' = fix
    <2>1. PendingMargin(s)' = PendingMargin(s)
      BY <1>2 DEF PendingMargin
    <2>2. QED
      BY <1>1, <2>1
  <1>3. CASE fix'.pc # "freeze"
    <2>1. PendingMargin(s)' = 0
      BY <1>3 DEF PendingMargin
    <2>2. QED
      BY <1>1, <2>1
  <1>4. QED
    BY <1>2, <1>3

\* Nor does the feed thread's until it is to charge.
LEMMA FeeStays ==
    ASSUME TypeOK, Places, NEW s \in Traders,
           \/ feed' = feed /\ \A t \in Tickets : orders'[t] = orders[t]
           \/ feed'.pc # "charge"
    PROVE  PendingFee(s)' <= PendingFee(s)
  <1>1. PendingFee(s) \in Nat
    BY Pendings
  <1>2. CASE feed' = feed /\ \A t \in Tickets : orders'[t] = orders[t]
    <2>1. PendingFee(s)' = PendingFee(s)
      <3>1. CASE feed.pc = "charge"
        <4>1. orders'[feed.ticket] = orders[feed.ticket]
          BY <1>2, <3>1 DEF Places
        <4>2. QED
          BY <1>2, <4>1 DEF PendingFee, Fee
      <3>2. CASE feed.pc # "charge"
        BY <1>2, <3>2 DEF PendingFee
      <3>3. QED
        BY <3>1, <3>2
    <2>2. QED
      BY <1>1, <2>1
  <1>3. CASE feed'.pc # "charge"
    <2>1. PendingFee(s)' = 0
      BY <1>3 DEF PendingFee
    <2>2. QED
      BY <1>1, <2>1
  <1>4. QED
    BY <1>2, <1>3

\* A step that only brings cash.
LEMMA OnlyBringsCash ==
    ASSUME TypeOK, Places, TypeOK', Places', Bounded,
           fix' = fix \/ fix'.pc # "freeze",
           \/ feed' = feed /\ \A t \in Tickets : orders'[t] = orders[t]
           \/ feed'.pc # "charge",
           TifDay => \A s \in Traders : cash[s] <= cash'[s]
    PROVE  Bounded'
  <1> SUFFICES ASSUME TifDay, NEW s \in Traders PROVE Need(s)' <= Need(s)
    BY NoMoreNeed
  <1>1. PendingMargin(s)' <= PendingMargin(s) /\ PendingFee(s)' <= PendingFee(s)
    BY MarginStays, FeeStays
  <1>2. /\ PendingMargin(s) \in Nat /\ PendingFee(s) \in Nat /\ cash[s] \in Int
        /\ PendingMargin(s)' \in Nat /\ PendingFee(s)' \in Nat /\ cash'[s] \in Int
    BY Pendings, PendingsNext
  <1>3. cash[s] <= cash'[s]
    OBVIOUS
  <1>4. Need(s)' = PendingMargin(s)' + PendingFee(s)' - cash'[s]
    BY DEF Need
  <1>5. QED
    BY <1>1, <1>2, <1>3, <1>4 DEF Need

\* A payment brings cash, and to nobody else.
LEMMA PaidMore ==
    ASSUME TypeOK, NEW s \in Traders, NEW amount \in Nat, Pay(s, amount)
    PROVE  \A u \in Traders : cash[u] <= cash'[u]
  <1> TAKE u \in Traders
  <1>1. cash'[u] = (IF u = s THEN cash[u] + amount ELSE cash[u]) /\ cash[u] \in Int
    BY Paid
  <1>2. QED
    BY <1>1

\* An account that was resumed had nothing pending.
LEMMA ApplyBounded ==
    ASSUME TypeOK, Places, TypeOK', Places', Bounded, NEW s \in Traders,
           NEW amount \in Deposits, Apply(s, amount)
    PROVE  Bounded'
  <1>1. fix' = fix /\ fix.pc = "idle" /\ feed' = feed /\ orders' = orders
    BY DEF Apply
  <1>2. CASE Pay(s, amount)
    <2>1. \A u \in Traders : cash[u] <= cash'[u]
      BY <1>2, PaidMore, BrokerAssumption
    <2>2. QED
      BY <1>1, <2>1, OnlyBringsCash
  <1>3. CASE ResumeAccount(s)
    <2> SUFFICES ASSUME TifDay, NEW u \in Traders
                 PROVE  Need(u)' <= Need(u) \/ OneOrder(Need(u)')
      BY NoMoreNeed
    <2>1. PendingMargin(u)' = PendingMargin(u) /\ PendingFee(u)' = PendingFee(u)
          /\ PendingMargin(u) = 0
      BY <1>1 DEF PendingMargin, PendingFee, Fee
    <2>2. PendingFee(u) \in Nat /\ cash[u] \in Int
      BY Pendings
    <2>3. CASE u = s
      <3>1. PendingFee(u) = 0
        BY <1>3, <2>3 DEF ResumeAccount, PendingFee, Places
      <3>2. cash'[u] = Stored
        BY <1>3, <2>3 DEF ResumeAccount, TypeOK
      <3>3. Need(u)' = 0 - Stored
        BY <2>1, <3>1, <3>2, BrokerAssumption DEF Need
      <3>4. QED
        BY <3>3, BrokerAssumption DEF OneOrder
    <2>4. CASE u # s
      <3>1. cash'[u] = cash[u]
        BY <1>3, <2>4 DEF ResumeAccount, TypeOK
      <3>2. Need(u)' = Need(u)
        BY <2>1, <3>1 DEF Need
      <3>3. QED
        BY <3>2, Pendings
    <2>5. QED
      BY <2>3, <2>4
  <1>4. QED
    BY <1>2, <1>3 DEF Apply, OpenAccount, AddCash

\* Margin() is to freeze only what it found: the commission remains.
LEMMA MarginTestBounded ==
    ASSUME TypeOK, Places, TypeOK', Places', Bounded, MarginTest
    PROVE  Bounded'
  <1> SUFFICES ASSUME TifDay, NEW s \in Traders
               PROVE  Need(s)' <= Need(s) \/ OneOrder(Need(s)')
    BY NoMoreNeed
  <1>1. fix \in FixStep /\ fix.pc = "margin"
        /\ UNCHANGED <<cash, orders, feed>>
    BY AtFix DEF MarginTest
  <1>2. /\ PendingMargin(s) \in Nat /\ PendingFee(s) \in Nat /\ cash[s] \in Int
        /\ OneOrder(PendingFee(s)) /\ Need(s)' \in Int
        /\ PendingFee(s)' = PendingFee(s) /\ cash'[s] = cash[s]
    BY <1>1, Pendings, PendingsNext DEF PendingFee, Fee
  <1>3. CASE fix.owner = s /\ cash[s] >= Equity(fix.price, fix.qty)
    <2>1. fix' = [fix EXCEPT !.pc = "freeze"]
      <3>1. Equity(fix.price, fix.qty) \in Nat
        BY <1>1, AtFix
      <3>2. ~(cash[fix.owner] < Equity(fix.price, fix.qty))
        BY <1>2, <1>3, <3>1
      <3>3. QED
        BY <3>2 DEF MarginTest
    <2>2. fix'.pc = "freeze" /\ fix'.owner = s
          /\ fix'.price = fix.price /\ fix'.qty = fix.qty
      BY <1>1, <1>3, <2>1 DEF FixStep
    <2>3. PendingMargin(s)' = Equity(fix.price, fix.qty)
      BY <2>2 DEF PendingMargin, Equity
    <2>4. Need(s)' = Equity(fix.price, fix.qty) + PendingFee(s) - cash[s]
      BY <1>2, <2>3 DEF Need
    <2>5. Need(s)' <= PendingFee(s)
      <3>1. Equity(fix.price, fix.qty) \in Nat
        BY <1>1, AtFix
      <3>2. QED
        BY <1>2, <1>3, <2>4, <3>1
    <2>6. QED
      BY <1>2, <2>5, SmallerIsOneOrder
  <1>4. CASE ~(fix.owner = s /\ cash[s] >= Equity(fix.price, fix.qty))
    <2>1. ~(fix'.pc = "freeze" /\ fix'.owner = s)
      <3>1. CASE cash[fix.owner] < Equity(fix.price, fix.qty)
        BY <1>1, <3>1 DEF MarginTest, FixStep
      <3>2. CASE ~(cash[fix.owner] < Equity(fix.price, fix.qty))
        <4>1. fix.owner # s
          <5>1. Equity(fix.price, fix.qty) \in Nat
            BY <1>1, AtFix
          <5>2. QED
            BY <1>2, <1>4, <3>2, <5>1
        <4>2. fix'.owner = fix.owner
          BY <1>1 DEF MarginTest, FixStep
        <4>3. QED
          BY <4>1, <4>2
      <3>3. QED
        BY <3>1, <3>2
    <2>2. PendingMargin(s)' = 0
      BY <2>1 DEF PendingMargin
    <2>3. QED
      BY <1>2, <2>2 DEF Need
  <1>5. QED
    BY <1>3, <1>4

\* What Margin() freezes was its own need.
LEMMA MarginBounded ==
    ASSUME TypeOK, Places, TypeOK', Places', Bounded, Margin
    PROVE  Bounded'
  <1> SUFFICES ASSUME TifDay, NEW s \in Traders PROVE Need(s)' <= Need(s)
    BY NoMoreNeed
  <1> DEFINE m == Equity(fix.price, fix.qty)
  <1>1. fix.pc = "freeze" /\ fix \in FixStep /\ fix.owner \in Traders
        /\ m \in Nat /\ Pay(fix.owner, -m) /\ UNCHANGED <<orders, feed>>
        /\ fix' = [fix EXCEPT !.pc = "insert"]
    BY AtFix DEF Margin
  <1>2. PendingMargin(s)' = 0
    BY <1>1 DEF PendingMargin, FixStep
  <1>3. PendingFee(s)' = PendingFee(s) /\ PendingFee(s) \in Nat
        /\ cash[s] \in Int /\ PendingMargin(s) \in Nat
    BY <1>1, Pendings DEF PendingFee, Fee
  <1>4. PendingMargin(s) = IF fix.owner = s THEN m ELSE 0
    BY <1>1 DEF PendingMargin
  <1> HIDE DEF m
  <1>5. cash'[s] = IF fix.owner = s THEN cash[s] - m ELSE cash[s]
    BY <1>1, <1>3, Paid
  <1>6. Need(s)' = 0 + PendingFee(s) - cash'[s]
    BY <1>2, <1>3 DEF Need
  <1>7. QED
    BY <1>1, <1>3, <1>4, <1>5, <1>6 DEF Need

\* DealCommission() is to charge only what it found: the margin remains.
LEMMA FeeTestBounded ==
    ASSUME TypeOK, Places, TypeOK', Places', Bounded, FeeTest
    PROVE  Bounded'
  <1> SUFFICES ASSUME TifDay, NEW s \in Traders
               PROVE  Need(s)' <= Need(s) \/ OneOrder(Need(s)')
    BY NoMoreNeed
  <1> DEFINE o == orders[feed.ticket]
  <1>1. feed.pc = "fee" /\ feed \in FeedStep /\ feed.ticket \in Tickets
        /\ o.owner \in Traders /\ Fee(o) \in Nat
        /\ UNCHANGED <<cash, orders, fix>>
    BY AtFeed DEF FeeTest
  <1>2. /\ PendingMargin(s) \in Nat /\ PendingFee(s) \in Nat /\ cash[s] \in Int
        /\ OneOrder(PendingMargin(s)) /\ Need(s)' \in Int
        /\ PendingMargin(s)' = PendingMargin(s) /\ cash'[s] = cash[s]
    BY <1>1, Pendings, PendingsNext DEF PendingMargin, Equity
  <1>3. CASE feed'.pc = "charge" /\ o.owner = s
    <2>1. ~(cash[o.owner] < Fee(o)) /\ feed' = [feed EXCEPT !.pc = "charge"]
      BY <1>3 DEF FeeTest, Idle
    <2>2. feed'.ticket = feed.ticket
      BY <1>1, <2>1 DEF FeedStep
    <2>3. PendingFee(s)' = Fee(o)
      BY <1>1, <1>3, <2>2 DEF PendingFee, Fee
    <2> HIDE DEF o
    <2>4. Need(s)' = PendingMargin(s) + Fee(o) - cash[s]
      BY <1>2, <2>3 DEF Need
    <2>5. Need(s)' <= PendingMargin(s)
      BY <1>1, <1>2, <1>3, <2>1, <2>4
    <2>6. QED
      BY <1>2, <2>5, SmallerIsOneOrder
  <1>4. CASE ~(feed'.pc = "charge" /\ o.owner = s)
    <2>1. PendingFee(s)' = 0
      <3>1. feed' = Idle \/ feed' = [feed EXCEPT !.pc = "charge"]
        BY DEF FeeTest
      <3>2. CASE feed' = Idle
        BY <3>2 DEF Idle, PendingFee
      <3>3. CASE feed' = [feed EXCEPT !.pc = "charge"]
        BY <3>3, <1>1, <1>4 DEF FeedStep, PendingFee
      <3>4. QED
        BY <3>1, <3>2, <3>3
    <2>2. QED
      BY <1>2, <2>1 DEF Need
  <1>5. QED
    BY <1>3, <1>4

\* What DealCommission() charges was its own need.
LEMMA ChargeBounded ==
    ASSUME TypeOK, Places, TypeOK', Places', Bounded, Charge
    PROVE  Bounded'
  <1> SUFFICES ASSUME TifDay, NEW s \in Traders PROVE Need(s)' <= Need(s)
    BY NoMoreNeed
  <1> DEFINE o == orders[feed.ticket]
  <1>1. feed.pc = "charge" /\ o.owner \in Traders /\ Fee(o) \in Nat
        /\ Pay(o.owner, -Fee(o)) /\ feed' = Idle /\ fix' = fix
    BY AtFeed DEF Charge
  <1>2. PendingFee(s)' = 0
    BY <1>1 DEF PendingFee, Idle
  <1>3. PendingMargin(s)' = PendingMargin(s) /\ PendingMargin(s) \in Nat
        /\ cash[s] \in Int /\ PendingFee(s) \in Nat
    BY <1>1, Pendings DEF PendingMargin, Equity
  <1>4. PendingFee(s) = IF o.owner = s THEN Fee(o) ELSE 0
    BY <1>1 DEF PendingFee
  <1> HIDE DEF o
  <1>5. cash'[s] = IF o.owner = s THEN cash[s] - Fee(o) ELSE cash[s]
    BY <1>1, <1>3, Paid
  <1>6. Need(s)' = PendingMargin(s) + 0 - cash'[s]
    BY <1>2, <1>3 DEF Need
  <1>7. QED
    BY <1>1, <1>3, <1>4, <1>5, <1>6 DEF Need

\* The lots that close bring their proceeds.
LEMMA SettleCloseBounded ==
    ASSUME TypeOK, Places, TypeOK', Places', Bounded, SettleClose
    PROVE  Bounded'
  <1> DEFINE o == orders[feed.ticket]
  <1>1. feed.pc = "settle" /\ o.owner \in Traders /\ o.amount \in Nat
        /\ fix' = fix /\ feed'.pc # "charge"
    BY AtFeed, Lot, AfterSettleIs DEF SettleClose
  <1>2. UNCHANGED cash \/ Pay(o.owner, o.amount)
    BY DEF SettleClose
  <1>3. \A s \in Traders : cash[s] <= cash'[s]
    <2>1. CASE UNCHANGED cash
      BY <2>1 DEF TypeOK
    <2>2. CASE Pay(o.owner, o.amount)
      BY <2>2, <1>1, PaidMore
    <2>3. QED
      BY <2>1, <2>2, <1>2
  <1>4. QED
    BY <1>1, <1>3, OnlyBringsCash

\* Under tif_day a filled order gives back what it did not cost.
LEMMA SettleOpenBounded ==
    ASSUME TypeOK, Places, TypeOK', Places', Bounded, SettleOpen
    PROVE  Bounded'
  <1> DEFINE t == feed.ticket
             o == orders[t]
  <1>1. feed.pc = "settle" /\ o.owner \in Traders /\ o.amount \in Nat
        /\ fix' = fix /\ feed'.pc # "charge"
        /\ (t \in DOMAIN ledger => ledger[t].margin \in Nat)
    BY AtFeed, Lot, AfterSettleIs DEF SettleOpen
  <1>2. TifDay => \A s \in Traders : cash[s] <= cash'[s]
    <2> SUFFICES ASSUME TifDay PROVE \A s \in Traders : cash[s] <= cash'[s]
      OBVIOUS
    <2>1. CASE UNCHANGED cash
      BY <2>1 DEF TypeOK
    <2>2. CASE /\ t \in DOMAIN ledger /\ ~(TifDay /\ o.amount > ledger[t].margin)
               /\ Pay(o.owner, ledger[t].margin - o.amount)
      <3>1. ledger[t].margin - o.amount \in Nat
        BY <1>1, <2>2
      <3>2. QED
        BY <1>1, <2>2, <3>1, PaidMore
    <2>3. QED
      BY <2>1, <2>2, SettleOpenCases
  <1>3. QED
    BY <1>1, <1>2, OnlyBringsCash

\* A cancelled order gives back what was frozen.
LEMMA FreeMarginBounded ==
    ASSUME TypeOK, Places, TypeOK', Places', Bounded, FreeMargin
    PROVE  Bounded'
  <1> DEFINE t == feed.ticket
             o == orders[t]
  <1>1. feed.pc = "free" /\ o.owner \in Traders /\ fix' = fix
        /\ feed'.pc # "charge"
        /\ (t \in DOMAIN ledger => ledger[t].margin \in Nat)
    BY AtFeed, Lot DEF FreeMargin, Idle
  <1>2. \A s \in Traders : cash[s] <= cash'[s]
    <2>1. CASE t \in DOMAIN ledger
      <3>1. Pay(o.owner, ledger[t].margin)
        BY <2>1 DEF FreeMargin
      <3>2. QED
        BY <1>1, <2>1, <3>1, PaidMore
    <2>2. CASE t \notin DOMAIN ledger
      BY <2>2 DEF FreeMargin, TypeOK
    <2>3. QED
      BY <2>1, <2>2
  <1>3. QED
    BY <1>1, <1>2, OnlyBringsCash

LEMMA AddExdrCashBounded ==
    ASSUME TypeOK, Places, TypeOK', Places', Bounded, NEW t \in Tickets,
           NEW amount \in Dividends, AddExdrCash(t, amount)
    PROVE  Bounded'
  <1> DEFINE all == ledger[t].qty * amount * LotFactor
  <1>1. t \in DOMAIN ledger /\ Pay(orders[t].owner, all)
        /\ UNCHANGED <<orders, fix, feed>>
    BY DEF AddExdrCash
  <1>2. orders[t].owner \in Traders /\ all \in Nat
    BY <1>1, OrdersAre, DividendNat DEF OrderRecord
  <1> HIDE DEF all
  <1>3. \A s \in Traders : cash[s] <= cash'[s]
    BY <1>1, <1>2, PaidMore
  <1>4. QED
    BY <1>1, <1>3, OnlyBringsCash

\* The steps that move no cash and test none.
LEMMA NoCashBounded ==
    ASSUME TypeOK, Places, TypeOK', Places', Bounded, UNCHANGED cash,
           fix' = fix \/ fix'.pc # "freeze",
           \/ feed' = feed /\ \A t \in Tickets : orders'[t] = orders[t]
           \/ feed'.pc # "charge"
    PROVE  Bounded'
  <1>1. \A s \in Traders : cash[s] <= cash'[s]
    BY DEF TypeOK
  <1>2. QED
    BY <1>1, OnlyBringsCash

\* New orders leave the old ones as they are.
LEMMA OrdersStay ==
    ASSUME TypeOK, Places, TypeOK',
           ProcessOrder \/ \E t \in Tickets, p \in Prices :
                              \E lots \in 1 .. orders[t].qty : CloseTicket(t, p, lots)
    PROVE  \A t \in Tickets : orders'[t] = orders[t]
  <1>1. CASE ProcessOrder
    <2> DEFINE o == Placed(fix.owner, fix.price, fix.qty, NoTicket)
    <2>1. fix.pc = "insert" /\ fix.owner \in Traders /\ fix.price \in Prices
          /\ fix.qty \in Nat \ {0}
      BY <1>1, AtFix DEF ProcessOrder
    <2>2. o \in OrderRecord
      BY <2>1, BrokerAssumption DEF Placed, NoTicket, OrderRecord
    <2>3. orders' = Append(orders, o)
      BY <1>1 DEF ProcessOrder
    <2>4. QED
      BY <2>2, <2>3, Appended
  <1>2. ASSUME NEW t \in Tickets, NEW p \in Prices,
               NEW lots \in 1 .. orders[t].qty, CloseTicket(t, p, lots)
        PROVE  \A u \in Tickets : orders'[u] = orders[u]
    <2> DEFINE o == Placed(orders[t].owner, p, lots, t)
    <2>1. orders[t] \in OrderRecord /\ t \in 1 .. MaxTickets
      BY OrdersAre
    <2>2. lots \in Nat \ {0}
      BY <2>1 DEF OrderRecord
    <2>3. o \in OrderRecord
      BY <2>1, <2>2, BrokerAssumption DEF Placed, OrderRecord
    <2>4. orders' = Append(orders, o)
      BY <1>2 DEF CloseTicket
    <2>5. QED
      BY <2>3, <2>4, Appended
  <1>3. QED
    BY <1>1, <1>2

LEMMA BoundedInit == Init => Bounded
  <1> SUFFICES ASSUME Init, NEW s \in Traders PROVE OneOrder(Need(s))
    BY DEF Bounded
  <1>1. cash[s] = 0 /\ fix.pc = "idle" /\ feed.pc = "idle"
    BY DEF Init, Idle
  <1>2. QED
    BY <1>1 DEF Need, PendingMargin, PendingFee, OneOrder

LEMMA BoundedNext ==
    TypeOK /\ Places /\ Bounded /\ [Next]_vars => Bounded'
  <1> SUFFICES ASSUME TypeOK, Places, Bounded, [Next]_vars PROVE Bounded'
    OBVIOUS
  <1>1. TypeOK' /\ Places'
    BY TypeNext
  <1>2. CASE FixThread
    <2>1. ASSUME NEW s \in Traders, NEW amount \in Deposits, Apply(s, amount)
          PROVE  Bounded'
      BY <1>1, <2>1, ApplyBounded
    <2>2. ASSUME NEW s \in Traders, NEW p \in Prices, NEW q \in Quantities,
                 CheckMargin(s, p, q)
          PROVE  Bounded'
      <3>1. UNCHANGED <<cash, orders, feed>> /\ fix'.pc # "freeze"
        BY <2>2 DEF CheckMargin
      <3>2. QED
        BY <1>1, <3>1, NoCashBounded
    <2>3. CASE MarginTest
      BY <1>1, <2>3, MarginTestBounded
    <2>4. CASE Margin
      BY <1>1, <2>4, MarginBounded
    <2>5. CASE ProcessOrder
      <3>1. UNCHANGED <<cash, feed>> /\ fix'.pc # "freeze"
        BY <2>5 DEF ProcessOrder, Idle
      <3>2. QED
        BY <1>1, <2>5, <3>1, OrdersStay, NoCashBounded
    <2>6. CASE \E t \in Tickets, p \in Prices :
                  \E lots \in 1 .. orders[t].qty : CloseTicket(t, p, lots)
      <3>1. UNCHANGED <<cash, feed, fix>>
        BY <2>6 DEF CloseTicket
      <3>2. QED
        BY <1>1, <2>6, <3>1, OrdersStay, NoCashBounded
    <2>7. QED
      BY <1>2, <2>1, <2>2, <2>3, <2>4, <2>5, <2>6 DEF FixThread
  <1>3. CASE FeedThread
    <2>1. CASE \/ \E t \in Tickets, p \in Prices :
                     \E q \in 1 .. orders[t].qty : Execute(t, p, q)
               \/ \E t \in Tickets : Cancel(t)
      <3>1. UNCHANGED <<cash, fix>> /\ feed'.pc # "charge"
        BY <2>1 DEF Execute, Cancel
      <3>2. QED
        BY <1>1, <3>1, NoCashBounded
    <2>2. CASE SettleClose
      BY <1>1, <2>2, SettleCloseBounded
    <2>3. CASE SettleOpen
      BY <1>1, <2>3, SettleOpenBounded
    <2>4. CASE FeeTest
      BY <1>1, <2>4, FeeTestBounded
    <2>5. CASE Charge
      BY <1>1, <2>5, ChargeBounded
    <2>6. CASE FreeMargin
      BY <1>1, <2>6, FreeMarginBounded
    <2>7. QED
      BY <1>3, <2>1, <2>2, <2>3, <2>4, <2>5, <2>6 DEF FeedThread
  <1>4. CASE Consumer
    BY <1>1, <1>4, AddExdrCashBounded DEF Consumer
  <1>5. CASE UNCHANGED vars
    <2>1. UNCHANGED <<cash, orders, fix, feed>>
      BY <1>5 DEF vars
    <2>2. QED
      BY <1>1, <2>1, NoCashBounded
  <1>6. QED
    BY <1>2, <1>3, <1>4, <1>5 DEF Next

\* If what the threads have tested for is bounded, what they have taken is.
LEMMA BoundedImplies ==
    TypeOK /\ Places /\ Bounded => OverdraftIsOneOrder
  <1> SUFFICES ASSUME TypeOK, Places, Bounded, TifDay, NEW s \in Traders
               PROVE  OneOrder(-cash[s])
    BY DEF OverdraftIsOneOrder
  <1>1. /\ PendingMargin(s) \in Nat /\ PendingFee(s) \in Nat /\ cash[s] \in Int
        /\ Need(s) \in Int /\ OneOrder(Need(s))
    BY Pendings DEF Bounded
  <1>2. -cash[s] \in Int /\ -cash[s] <= Need(s)
    BY <1>1 DEF Need
  <1>3. QED
    BY <1>1, <1>2, SmallerIsOneOrder

\* However the FIX thread's Margin(), the feed thread's DealCommission() and
\* everything else that moves cash interleave, for any traders, prices and
\* factors, tif_day keeps a trader's overdraft within one order.
THEOREM OverdraftBounded == Spec => []OverdraftIsOneOrder
  <1>1. Init => TypeOK /\ Places /\ Bounded
    BY TypeInit, BoundedInit
  <1>2. TypeOK /\ Places /\ Bounded /\ [Next]_vars
          => TypeOK' /\ Places' /\ Bounded'
    BY TypeNext, BoundedNext
  <1>3. TypeOK /\ Places /\ Bounded => OverdraftIsOneOrder
    BY BoundedImplies
  <1>4. QED
    BY <1>1, <1>2, <1>3, PTL DEF Spec

-----------------------------------------------------------------------------
(* The money. *)

HeldOf(l, s) ==
    SumFunctionOnSet([t \in DOMAIN l |-> l[t].margin],
                     {t \in DOMAIN l : l[t].owner = s})

AllHeld(s) == HeldOf(ledger, s)

Brought(s) == SumFunctionOnSet([t \in Tickets |-> orders[t].amount], PaidOut(s))

\* An account is of a placed order's owner, or of the order that the FIX thread
\* is about to place; nobody has money before the login.
Owned ==
    \A t \in DOMAIN ledger :
        \/ t \in Tickets /\ ledger[t].owner = orders[t].owner
        \/ t = Len(orders) + 1 /\ fix.pc = "insert" /\ ledger[t].owner = fix.owner

Poor == \A s \in Traders \ loggedIn : cash[s] = 0 /\ paidIn[s] = 0

MoneyParts == Owned /\ Poor /\ AllCashAddsUp /\ MoneyIsConserved

Conserved ==
    \A s \in Traders : cash[s] + AllHeld(s) = paidIn[s] - fees[s] + Brought(s)

LEMMA ConservedIs == MoneyIsConserved <=> Conserved
  BY DEF MoneyIsConserved, Conserved, AllHeld, HeldOf, Brought

\* A ledger whose account u gets d more, new or not.
Ledger(l) ==
    DOMAIN l \subseteq 1 .. MaxTickets /\ l \in [DOMAIN l -> AccountRecord]

MoreHeld(m, l, u, d) ==
    /\ Ledger(l) /\ Ledger(m) /\ d \in Int
    /\ DOMAIN m = DOMAIN l \cup {u}
    /\ \A t \in DOMAIN l : /\ m[t].owner = l[t].owner
                           /\ t # u => m[t].margin = l[t].margin
    /\ m[u].margin = IF u \in DOMAIN l THEN l[u].margin + d ELSE d

LEMMA LedgerSums ==
    ASSUME NEW l, Ledger(l), NEW s
    PROVE  /\ IsFiniteSet({t \in DOMAIN l : l[t].owner = s})
           /\ \A t \in DOMAIN l : l[t].margin \in Int
           /\ HeldOf(l, s) \in Int
  <1> DEFINE S == {t \in DOMAIN l : l[t].owner = s}
             f == [t \in DOMAIN l |-> l[t].margin]
  <1>1. IsFiniteSet(S)
    <2>1. IsFiniteSet(1 .. MaxTickets)
      BY BrokerAssumption, FS_Interval
    <2>2. S \subseteq 1 .. MaxTickets
      BY DEF Ledger
    <2>3. QED
      BY <2>1, <2>2, FS_Subset
  <1>2. \A t \in DOMAIN l : l[t].margin \in Int
    BY DEF Ledger, AccountRecord
  <1>3. \A t \in S : f[t] \in Int
    BY <1>2
  <1>4. HeldOf(l, s) = SumFunctionOnSet(f, S)
    BY DEF HeldOf
  <1> HIDE DEF S, f
  <1>5. SumFunctionOnSet(f, S) \in Int
    BY <1>1, <1>3, SumInt
  <1>6. QED
    BY <1>1, <1>2, <1>4, <1>5 DEF S

LEMMA HeldSame ==
    ASSUME NEW l, NEW m, Ledger(l), Ledger(m), DOMAIN m = DOMAIN l,
           \A t \in DOMAIN l : m[t].owner = l[t].owner /\ m[t].margin = l[t].margin,
           NEW s
    PROVE  HeldOf(m, s) = HeldOf(l, s)
  <1> DEFINE S == {t \in DOMAIN l : l[t].owner = s}
             f == [t \in DOMAIN l |-> l[t].margin]
             e == [t \in DOMAIN m |-> m[t].margin]
  <1>1. IsFiniteSet(S) /\ {t \in DOMAIN m : m[t].owner = s} = S
    BY LedgerSums
  <1>2. \A t \in S : e[t] = f[t]
    OBVIOUS
  <1> HIDE DEF S, f, e
  <1>3. SumFunctionOnSet(e, S) = SumFunctionOnSet(f, S)
    BY <1>1, <1>2, SumSame
  <1>4. QED
    BY <1>1, <1>3 DEF HeldOf, S, f, e

LEMMA HeldMore ==
    ASSUME NEW m, NEW l, NEW u, NEW d, MoreHeld(m, l, u, d), NEW s
    PROVE  HeldOf(m, s) = HeldOf(l, s) + (IF m[u].owner = s THEN d ELSE 0)
  <1> DEFINE S == {t \in DOMAIN l : l[t].owner = s}
             R == {t \in DOMAIN m : m[t].owner = s}
             f == [t \in DOMAIN l |-> l[t].margin]
             e == [t \in DOMAIN m |-> m[t].margin]
  <1>1. Ledger(l) /\ Ledger(m) /\ d \in Int /\ u \in DOMAIN m
    BY DEF MoreHeld
  <1>2. IsFiniteSet(S) /\ IsFiniteSet(R) /\ HeldOf(l, s) \in Int
        /\ (\A t \in DOMAIN l : l[t].margin \in Int)
        /\ (\A t \in DOMAIN m : m[t].margin \in Int)
    BY <1>1, LedgerSums
  <1>3. HeldOf(l, s) = SumFunctionOnSet(f, S) /\ HeldOf(m, s) = SumFunctionOnSet(e, R)
    BY DEF HeldOf
  <1>4. CASE u \in DOMAIN l /\ m[u].owner = s
    <2>1. R = S /\ u \in S
      BY <1>4 DEF MoreHeld
    <2>2. /\ \A t \in S : e[t] \in Int /\ f[t] \in Int
          /\ \A t \in S \ {u} : e[t] = f[t]
          /\ e[u] = f[u] + d
      BY <1>2, <1>4 DEF MoreHeld
    <2> HIDE DEF S, R, f, e
    <2>3. SumFunctionOnSet(e, S) = SumFunctionOnSet(f, S) - f[u] + e[u]
      BY <1>2, <2>1, <2>2, SumChanged
    <2>4. QED
      BY <1>1, <1>2, <1>3, <1>4, <2>1, <2>2, <2>3
  <1>5. CASE u \notin DOMAIN l /\ m[u].owner = s
    <2>1. R = S \cup {u} /\ u \notin S
      BY <1>5 DEF MoreHeld
    <2>2. /\ \A t \in S : e[t] \in Int /\ e[t] = f[t]
          /\ e[u] = d
      BY <1>1, <1>2, <1>5 DEF MoreHeld
    <2> HIDE DEF S, R, f, e
    <2>3. SumFunctionOnSet(e, S) = SumFunctionOnSet(f, S)
      BY <1>2, <2>2, SumSame
    <2>4. SumFunctionOnSet(e, S \cup {u}) = e[u] + SumFunctionOnSet(e, S)
      BY <1>1, <1>2, <2>1, <2>2, SumAdded
    <2>5. QED
      BY <1>1, <1>2, <1>3, <1>5, <2>1, <2>2, <2>3, <2>4
  <1>6. CASE m[u].owner # s
    <2>1. R = S /\ \A t \in S : e[t] = f[t]
      BY <1>6 DEF MoreHeld
    <2> HIDE DEF S, R, f, e
    <2>2. SumFunctionOnSet(e, S) = SumFunctionOnSet(f, S)
      BY <1>2, <2>1, SumSame
    <2>3. QED
      BY <1>2, <1>3, <1>6, <2>1, <2>2
  <1>7. QED
    BY <1>4, <1>5, <1>6

\* The proceeds of the closing orders.
LEMMA PaidOutIs ==
    ASSUME TypeOK, NEW s
    PROVE  /\ PaidOut(s) \subseteq Tickets /\ IsFiniteSet(PaidOut(s))
           /\ \A t \in Tickets : orders[t].amount \in Nat
           /\ Brought(s) \in Int
  <1>1. Tickets = 1 .. Len(orders) /\ Len(orders) \in Nat
        /\ \A t \in Tickets : orders[t] \in OrderRecord
    BY OrdersAre
  <1>2. PaidOut(s) \subseteq Tickets
    BY DEF PaidOut
  <1>3. IsFiniteSet(PaidOut(s))
    <2>1. IsFiniteSet(1 .. Len(orders))
      BY <1>1, FS_Interval
    <2>2. QED
      BY <1>1, <1>2, <2>1, FS_Subset
  <1>4. \A t \in Tickets : orders[t].amount \in Nat
    BY <1>1 DEF OrderRecord
  <1> DEFINE f == [t \in Tickets |-> orders[t].amount]
  <1>5. \A t \in PaidOut(s) : f[t] \in Int
    BY <1>2, <1>4
  <1> HIDE DEF f
  <1>6. SumFunctionOnSet(f, PaidOut(s)) \in Int
    BY <1>3, <1>5, SumInt
  <1>7. QED
    BY <1>2, <1>3, <1>4, <1>6 DEF Brought, f

LEMMA BroughtSame ==
    ASSUME TypeOK, NEW s, Tickets \subseteq Tickets', PaidOut(s)' = PaidOut(s),
           \A t \in PaidOut(s) : orders'[t].amount = orders[t].amount
    PROVE  Brought(s)' = Brought(s)
  <1> DEFINE S == PaidOut(s)
             f == [t \in Tickets |-> orders[t].amount]
             e == [t \in Tickets' |-> orders'[t].amount]
  <1>1. IsFiniteSet(S) /\ S \subseteq Tickets
    BY PaidOutIs
  <1>2. \A t \in S : e[t] = f[t]
    BY <1>1
  <1>3. Brought(s) = SumFunctionOnSet(f, S) /\ Brought(s)' = SumFunctionOnSet(e, S)
    BY DEF Brought
  <1> HIDE DEF S, f, e
  <1>4. SumFunctionOnSet(e, S) = SumFunctionOnSet(f, S)
    BY <1>1, <1>2, SumSame
  <1>5. QED
    BY <1>3, <1>4

LEMMA BroughtMore ==
    ASSUME TypeOK, NEW s, NEW u \in Tickets, u \notin PaidOut(s), orders' = orders,
           PaidOut(s)' = PaidOut(s) \cup {u}
    PROVE  Brought(s)' = Brought(s) + orders[u].amount
  <1> DEFINE S == PaidOut(s)
             f == [t \in Tickets |-> orders[t].amount]
  <1>1. IsFiniteSet(S) /\ S \subseteq Tickets /\ u \notin S /\ Brought(s) \in Int
        /\ \A t \in Tickets : orders[t].amount \in Nat
    BY PaidOutIs
  <1>2. (\A t \in S : f[t] \in Int) /\ f[u] = orders[u].amount /\ f[u] \in Int
    BY <1>1
  <1>3. Brought(s) = SumFunctionOnSet(f, S)
        /\ Brought(s)' = SumFunctionOnSet(f, S \cup {u})
    BY DEF Brought, Tickets
  <1> HIDE DEF S, f
  <1>4. SumFunctionOnSet(f, S \cup {u}) = f[u] + SumFunctionOnSet(f, S)
    BY <1>1, <1>2, SumAdded
  <1>5. QED
    BY <1>1, <1>2, <1>3, <1>4

\* What a step does to the money of its trader u; the others keep theirs.
Only(s, u, n) == IF s = u THEN n ELSE 0

Moves(u, c, h, p, f, b) ==
    \A s \in Traders :
        /\ cash'[s] = cash[s] + Only(s, u, c)
        /\ AllHeld(s)' = AllHeld(s) + Only(s, u, h)
        /\ paidIn'[s] = paidIn[s] + Only(s, u, p)
        /\ fees'[s] = fees[s] + Only(s, u, f)
        /\ Brought(s)' = Brought(s) + Only(s, u, b)

\* The amounts of a step that neither creates nor loses money.
Balances(c, h, p, f, b) ==
    /\ c \in Int /\ h \in Int /\ p \in Int /\ f \in Int /\ b \in Int
    /\ c + h = p - f + b

LEMMA AddsOnly ==
    ASSUME NEW x, NEW y, NEW u \in Traders, NEW n \in Int, x \in [Traders -> Int],
           y = [x EXCEPT ![u] = @ + n]
    PROVE  \A s \in Traders : y[s] = x[s] + Only(s, u, n)
  BY DEF Only

LEMMA AddsNothing ==
    ASSUME NEW x, NEW u, x \in [Traders -> Int]
    PROVE  \A s \in Traders : x[s] = x[s] + Only(s, u, 0)
  BY DEF Only

LEMMA Worth ==
    ASSUME TypeOK, NEW s \in Traders
    PROVE  cash[s] \in Int /\ AllHeld(s) \in Int /\ paidIn[s] \in Int /\ fees[s] \in Int
           /\ Brought(s) \in Int
  <1>1. Ledger(ledger)
    BY DEF TypeOK, Ledger
  <1>2. AllHeld(s) \in Int
    BY <1>1, LedgerSums DEF AllHeld
  <1>3. Brought(s) \in Int
    BY PaidOutIs
  <1>4. cash[s] \in Int /\ paidIn[s] \in Int /\ fees[s] \in Int
    BY DEF TypeOK
  <1>5. QED
    BY <1>2, <1>3, <1>4

LEMMA Balanced ==
    ASSUME TypeOK, MoneyIsConserved, NEW u, NEW c \in Int, NEW h \in Int,
           NEW p \in Int, NEW f \in Int, NEW b \in Int,
           c + h = p - f + b, Moves(u, c, h, p, f, b)
    PROVE  MoneyIsConserved'
  <1>1. ASSUME NEW s \in Traders
        PROVE  cash'[s] + AllHeld(s)' = paidIn'[s] - fees'[s] + Brought(s)'
    <2>1. cash[s] + AllHeld(s) = paidIn[s] - fees[s] + Brought(s)
      BY ConservedIs DEF Conserved
    <2>2. cash[s] \in Int /\ AllHeld(s) \in Int /\ paidIn[s] \in Int /\ fees[s] \in Int
          /\ Brought(s) \in Int
      BY Worth
    <2>3. /\ cash'[s] = cash[s] + Only(s, u, c)
          /\ AllHeld(s)' = AllHeld(s) + Only(s, u, h)
          /\ paidIn'[s] = paidIn[s] + Only(s, u, p)
          /\ fees'[s] = fees[s] + Only(s, u, f)
          /\ Brought(s)' = Brought(s) + Only(s, u, b)
      BY DEF Moves
    <2>4. CASE s = u
      BY <2>1, <2>2, <2>3, <2>4 DEF Only
    <2>5. CASE s # u
      BY <2>1, <2>2, <2>3, <2>5 DEF Only
    <2>6. QED
      BY <2>4, <2>5
  <1>2. Conserved'
    BY <1>1 DEF Conserved
  <1>3. QED
    BY <1>2, ConservedIs, PTL

\* The total follows the one trader whose cash changes.
LEMMA CashPaid ==
    ASSUME TypeOK, NEW s \in Traders, NEW amount \in Int,
           cash' = [cash EXCEPT ![s] = @ + amount]
    PROVE  Cash' = Cash + amount /\ Cash \in Int
  <1>1. /\ \A u \in Traders : cash[u] \in Int /\ cash'[u] \in Int
        /\ \A u \in Traders \ {s} : cash'[u] = cash[u]
        /\ cash'[s] = cash[s] + amount
    BY DEF TypeOK
  <1> DEFINE e == cash'
             f == cash
  <1>2. IsFiniteSet(Traders)
    BY BrokerAssumption
  <1>3. \A u \in Traders : e[u] \in Int /\ f[u] \in Int
    BY <1>1
  <1>4. \A u \in Traders \ {s} : e[u] = f[u]
    BY <1>1
  <1>5. e[s] = f[s] + amount /\ Cash = SumFunctionOnSet(f, Traders)
        /\ Cash' = SumFunctionOnSet(e, Traders)
    BY <1>1 DEF Cash
  <1> HIDE DEF e, f
  <1>6. SumFunctionOnSet(e, Traders) = SumFunctionOnSet(f, Traders) - f[s] + e[s]
    BY <1>2, <1>3, <1>4, SumChanged
  <1>7. SumFunctionOnSet(f, Traders) \in Int
    BY <1>2, <1>3, SumInt
  <1>8. QED
    BY <1>3, <1>5, <1>6, <1>7

LEMMA TotalPaid ==
    ASSUME TypeOK, AllCashAddsUp, NEW s \in Traders, NEW amount \in Int,
           Pay(s, amount), loggedIn' \cap Known = loggedIn \cap Known
    PROVE  AllCashAddsUp'
  <1>1. cash' = [cash EXCEPT ![s] = @ + amount] /\ allCash' = allCash + amount
    BY DEF Pay
  <1>2. Cash' = Cash + amount /\ Cash \in Int
    BY <1>1, CashPaid
  <1>3. Cardinality(loggedIn \cap Known) \in Nat
    <2>1. loggedIn \cap Known \subseteq Traders
      BY DEF TypeOK
    <2>2. IsFiniteSet(loggedIn \cap Known)
      BY <2>1, FS_Subset, BrokerAssumption
    <2>3. QED
      BY <2>2, FS_CardinalityType
  <1> DEFINE k == Stored * Cardinality(loggedIn \cap Known)
  <1>4. k \in Nat
    BY <1>3, ProductNat, BrokerAssumption
  <1>5. allCash = Cash - k
    BY DEF AllCashAddsUp
  <1>6. k' = k
    OBVIOUS
  <1> HIDE DEF k
  <1>7. allCash' = Cash' - k'
    BY <1>1, <1>2, <1>4, <1>5, <1>6
  <1>8. QED
    BY <1>7 DEF AllCashAddsUp, k

\* The payment of a trader who is logged in.
LEMMA MoneyMoves ==
    ASSUME TypeOK, MoneyParts, Owned', NEW u \in loggedIn, NEW c, NEW h, NEW p, NEW f,
           NEW b, Balances(c, h, p, f, b), Pay(u, c), Moves(u, c, h, p, f, b),
           loggedIn' = loggedIn
    PROVE  MoneyParts'
  <1>0. /\ c \in Int /\ h \in Int /\ p \in Int /\ f \in Int /\ b \in Int
        /\ c + h = p - f + b
    BY DEF Balances
  <1>1. Owned /\ Poor /\ AllCashAddsUp /\ MoneyIsConserved
    BY DEF MoneyParts
  <1>2. u \in Traders /\ loggedIn' \cap Known = loggedIn \cap Known
    BY DEF TypeOK
  <1>3. Poor'
    <2>1. ASSUME NEW s \in Traders \ loggedIn PROVE cash'[s] = 0 /\ paidIn'[s] = 0
      <3>1. s # u /\ cash[s] = 0 /\ paidIn[s] = 0
        BY <1>1 DEF Poor
      <3>2. cash'[s] = cash[s] + 0 /\ paidIn'[s] = paidIn[s] + 0
        BY <3>1 DEF Moves, Only
      <3>3. QED
        BY <3>1, <3>2
    <2>2. QED
      BY <2>1 DEF Poor
  <1>4. AllCashAddsUp'
    BY <1>0, <1>1, <1>2, TotalPaid
  <1>5. MoneyIsConserved'
    BY <1>0, <1>1, Balanced
  <1>6. QED
    BY <1>3, <1>4, <1>5 DEF MoneyParts

\* A step that moves no money.
LEMMA MoneyStays ==
    ASSUME TypeOK, MoneyParts, Owned',
           UNCHANGED <<loggedIn, cash, allCash, paidIn, fees>>,
           \A s \in Traders : AllHeld(s)' = AllHeld(s) /\ Brought(s)' = Brought(s)
    PROVE  MoneyParts'
  <1>1. Owned /\ Poor /\ AllCashAddsUp /\ MoneyIsConserved
    BY DEF MoneyParts
  <1>2. Poor'
    BY <1>1 DEF Poor
  <1>3. Cash' = Cash
    BY DEF Cash
  <1>4. AllCashAddsUp'
    BY <1>1, <1>3 DEF AllCashAddsUp
  <1>5. Conserved
    BY <1>1, ConservedIs
  <1>6. Conserved'
    BY <1>5 DEF Conserved
  <1>7. MoneyIsConserved'
    BY <1>6, ConservedIs, PTL
  <1>8. QED
    BY <1>2, <1>4, <1>7 DEF MoneyParts

LEMMA HeldStays ==
    ASSUME ledger' = ledger
    PROVE  \A s : AllHeld(s)' = AllHeld(s)
  BY DEF AllHeld, HeldOf

\* Only the settling of a filled closing order pays its proceeds.
LEMMA BroughtStays ==
    ASSUME TypeOK, orders' = orders,
           \A t \in Tickets :
              Filled(t) /\ orders[t].closes # NoTicket =>
                  (feed'.pc = "settle" /\ feed'.ticket = t
                      <=> feed.pc = "settle" /\ feed.ticket = t)
    PROVE  \A s : Brought(s)' = Brought(s)
  <1> SUFFICES ASSUME NEW s PROVE Brought(s)' = Brought(s)
    OBVIOUS
  <1>1. Tickets' = Tickets /\ \A t \in Tickets : Filled(t)' <=> Filled(t)
    BY DEF Tickets, Filled
  <1>2. PaidOut(s)' = PaidOut(s)
    BY <1>1 DEF PaidOut
  <1>3. QED
    BY <1>1, <1>2, BroughtSame

\* A new order has brought nothing.
LEMMA BroughtAppended ==
    ASSUME TypeOK, NEW o \in OrderRecord, o.leaves # 0, orders' = Append(orders, o),
           feed' = feed
    PROVE  \A s : Brought(s)' = Brought(s)
  <1> SUFFICES ASSUME NEW s PROVE Brought(s)' = Brought(s)
    OBVIOUS
  <1>0. PICK u : u = Len(orders) + 1
    OBVIOUS
  <1>1. Tickets' = Tickets \cup {u} /\ (\A t \in Tickets : orders'[t] = orders[t])
        /\ orders'[u] = o /\ u \notin Tickets
    <2>1. Tickets = 1 .. Len(orders) /\ Len(orders) \in Nat
      BY OrdersAre
    <2>2. u \notin Tickets
      BY <1>0, <2>1
    <2>3. QED
      BY <1>0, <2>2, Appended
  <1>2. (\A t \in Tickets : Filled(t)' <=> Filled(t)) /\ ~Filled(u)'
    BY <1>1 DEF Filled
  <1>3. PaidOut(s)' = PaidOut(s)
    BY <1>1, <1>2 DEF PaidOut
  <1>4. PaidOut(s) \subseteq Tickets
    BY DEF PaidOut
  <1>5. QED
    BY <1>1, <1>3, <1>4, BroughtSame

\* A live order that executes or is cancelled has not brought anything yet.
LEMMA BroughtReplaced ==
    ASSUME TypeOK, NEW t \in Tickets, NEW o \in OrderRecord,
           orders' = [orders EXCEPT ![t] = o],
           o.owner = orders[t].owner, o.closes = orders[t].closes,
           orders[t].leaves # 0, feed.pc = "idle",
           \/ o.leaves # 0 /\ feed'.pc # "settle"
           \/ feed'.pc = "settle" /\ feed'.ticket = t
    PROVE  \A s : Brought(s)' = Brought(s)
  <1> SUFFICES ASSUME NEW s PROVE Brought(s)' = Brought(s)
    OBVIOUS
  <1>1. Tickets' = Tickets
        /\ \A u \in Tickets : orders'[u] = IF u = t THEN o ELSE orders[u]
    BY Replaced
  <1>2. /\ \A u \in Tickets \ {t} : Filled(u)' <=> Filled(u)
        /\ ~Filled(t) /\ (feed'.pc # "settle" => ~Filled(t)')
    BY <1>1 DEF Filled
  <1>3. PaidOut(s)' = PaidOut(s) /\ t \notin PaidOut(s) /\ PaidOut(s) \subseteq Tickets
    BY <1>1, <1>2 DEF PaidOut
  <1>4. QED
    BY <1>1, <1>3, BroughtSame

-----------------------------------------------------------------------------
(* Each step keeps the money. *)

LEMMA ApplyMoney ==
    ASSUME TypeOK, Places, MoneyParts, NEW s \in Traders, NEW amount \in Deposits,
           Apply(s, amount)
    PROVE  MoneyParts'
  <1>1. Owned /\ Poor /\ AllCashAddsUp /\ MoneyIsConserved
    BY DEF MoneyParts
  <1>2. loggedIn' = loggedIn \cup {s} /\ fees' = fees
        /\ UNCHANGED <<ledger, orders, fix, feed>>
    BY DEF Apply
  <1>3. Owned'
    BY <1>1, <1>2 DEF Owned, Tickets
  <1>4. \A u : AllHeld(u)' = AllHeld(u) /\ Brought(u)' = Brought(u)
    BY <1>2, HeldStays, BroughtStays
  <1>5. amount \in Int /\ Stored \in Int /\ Stored \in Nat /\ loggedIn \subseteq Traders
        /\ \A u \in Traders : /\ cash[u] \in Int /\ paidIn[u] \in Int /\ fees[u] \in Int
                              /\ AllHeld(u) \in Int /\ Brought(u) \in Int
    <2>1. amount \in Int /\ Stored \in Int /\ Stored \in Nat
      BY BrokerAssumption
    <2>2. loggedIn \subseteq Traders
      BY DEF TypeOK
    <2>3. QED
      BY <2>1, <2>2, Worth
  <1>6. ASSUME NEW c \in Int,
               \A u \in Traders : /\ cash'[u] = cash[u] + Only(u, s, c)
                                  /\ paidIn'[u] = paidIn[u] + Only(u, s, c)
        PROVE  MoneyIsConserved' /\ Poor'
    <2>1. Moves(s, c, 0, c, 0, 0)
      BY <1>2, <1>4, <1>5, <1>6 DEF Moves, Only
    <2>2. MoneyIsConserved'
      BY <1>1, <1>6, <2>1, Balanced
    <2>3. Poor'
      BY <1>1, <1>2, <1>5, <1>6 DEF Poor, Only
    <2>4. QED
      BY <2>2, <2>3
  <1>7. ASSUME Pay(s, amount), paidIn' = [paidIn EXCEPT ![s] = @ + amount],
               s \in loggedIn \/ s \notin Known
        PROVE  MoneyParts'
    <2>1. \A u \in Traders : /\ cash'[u] = cash[u] + Only(u, s, amount)
                             /\ paidIn'[u] = paidIn[u] + Only(u, s, amount)
      BY <1>5, <1>7, Paid DEF Only
    <2>2. loggedIn' \cap Known = loggedIn \cap Known
      BY <1>2, <1>7
    <2>3. AllCashAddsUp'
      BY <1>1, <1>5, <1>7, <2>2, TotalPaid
    <2>4. QED
      BY <1>3, <1>5, <1>6, <2>1, <2>3 DEF MoneyParts
  <1>8. CASE ResumeAccount(s)
    <2>1. /\ s \notin loggedIn /\ s \in Known /\ allCash' = allCash
          /\ cash' = [cash EXCEPT ![s] = Stored] /\ paidIn' = [paidIn EXCEPT ![s] = Stored]
      BY <1>8 DEF ResumeAccount
    <2>2. cash[s] = 0 /\ paidIn[s] = 0
      BY <1>1, <2>1 DEF Poor
    <2>3. cash' = [cash EXCEPT ![s] = @ + Stored]
      <3>1. cash[s] + Stored = Stored
        BY <1>5, <2>2
      <3>2. QED
        BY <2>1, <3>1
    <2>4. \A u \in Traders : /\ cash'[u] = cash[u] + Only(u, s, Stored)
                             /\ paidIn'[u] = paidIn[u] + Only(u, s, Stored)
      BY <1>5, <2>1, <2>2 DEF Only, TypeOK
    <2>5. Cash' = Cash + Stored /\ Cash \in Int
      <3>1. Stored \in Int
        BY <1>5
      <3>2. QED
        BY <2>3, <3>1, CashPaid
    <2> DEFINE K == loggedIn \cap Known
               n == Cardinality(K)
    <2>6. IsFiniteSet(K) /\ s \notin K /\ n \in Nat
      <3>1. K \subseteq Traders /\ IsFiniteSet(Traders)
        BY <1>5, BrokerAssumption
      <3>2. IsFiniteSet(K)
        BY <3>1, FS_Subset
      <3>3. QED
        BY <2>1, <3>2, FS_CardinalityType
    <2>7. loggedIn' \cap Known = K \cup {s}
      BY <1>2, <2>1
    <2>8. Cardinality(K \cup {s}) = n + 1
      <3> HIDE DEF K
      <3>1. QED
        BY <2>6, FS_AddElement
    <2>9. Cardinality(loggedIn' \cap Known) = n + 1
      BY <2>7, <2>8
    <2>10. allCash = Cash - Stored * n
      BY <1>1 DEF AllCashAddsUp
    <2> HIDE DEF n
    <2>11. Stored * (n + 1) = Stored * n + Stored /\ Stored * n \in Nat
      BY <1>5, <2>6, SMT
    <2>12. allCash' = Cash' - Stored * (n + 1)
      BY <1>5, <2>1, <2>5, <2>10, <2>11
    <2>13. AllCashAddsUp'
      BY <2>9, <2>12 DEF AllCashAddsUp
    <2>14. MoneyIsConserved' /\ Poor'
      <3>1. Stored \in Int
        BY <1>5
      <3>2. QED
        BY <1>6, <2>4, <3>1
    <2>15. QED
      BY <1>3, <2>13, <2>14 DEF MoneyParts
  <1>9. QED
    BY <1>7, <1>8 DEF Apply, OpenAccount, AddCash

\* Tests and the steps between them.
LEMMA TestsMoney ==
    ASSUME TypeOK, Places, MoneyParts,
           \/ \E s \in Traders, p \in Prices, q \in Quantities : CheckMargin(s, p, q)
           \/ MarginTest
           \/ FeeTest
    PROVE  MoneyParts'
  <1>1. UNCHANGED <<loggedIn, cash, ledger, allCash, orders, paidIn, fees>>
    BY DEF CheckMargin, MarginTest, FeeTest
  <1>2. Owned'
    <2>1. fix.pc = "insert" => fix' = fix
      BY DEF CheckMargin, MarginTest, FeeTest
    <2>2. QED
      BY <1>1, <2>1 DEF MoneyParts, Owned, Tickets
  <1>3. \/ feed'.pc # "settle" /\ feed.pc # "settle"
        \/ feed' = feed
    <2>1. CASE FeeTest
      <3>1. feed \in FeedStep /\ feed.pc = "fee"
        BY <2>1, AtFeed DEF FeeTest
      <3>2. feed' = Idle \/ feed' = [feed EXCEPT !.pc = "charge"]
        BY <2>1 DEF FeeTest
      <3>3. QED
        BY <3>1, <3>2 DEF FeedStep, Idle
    <2>2. QED
      BY <2>1 DEF CheckMargin, MarginTest
  <1>4. \A s : AllHeld(s)' = AllHeld(s) /\ Brought(s)' = Brought(s)
    BY <1>1, <1>3, HeldStays, BroughtStays
  <1>5. QED
    BY <1>1, <1>2, <1>4, MoneyStays

LEMMA MarginMoney ==
    ASSUME TypeOK, Places, MoneyParts, Margin
    PROVE  MoneyParts'
  <1> DEFINE t == Len(orders) + 1
             m == Equity(fix.price, fix.qty)
             u == fix.owner
             a == Account(u, m, 0, fix.qty)
  <1>1. fix.pc = "freeze" /\ fix \in FixStep /\ u \in Traders /\ m \in Int
        /\ u \in loggedIn /\ TypeOK'
    BY AtFix, MarginTypes DEF Margin, Places
  <1>2. /\ ledger' = Put(t, a) /\ Pay(u, -m) /\ fix' = [fix EXCEPT !.pc = "insert"]
        /\ UNCHANGED <<loggedIn, orders, feed, paidIn, fees>>
    BY DEF Margin
  <1>3. DOMAIN ledger \subseteq Tickets /\ Tickets = 1 .. Len(orders) /\ Len(orders) \in Nat
    BY <1>1, OrdersAre DEF MoneyParts, Owned
  <1>4. t \notin DOMAIN ledger /\ t \notin Tickets
    BY <1>3
  <1>5. a.owner = u /\ a.margin = m
    BY DEF Account
  <1>6. Len(orders') = Len(orders) /\ Tickets' = Tickets /\ fix'.pc = "insert" /\ fix'.owner = u
    BY <1>1, <1>2 DEF FixStep, Tickets
  <1> HIDE DEF t, m, a
  <1>7. DOMAIN ledger' = DOMAIN ledger \cup {t} /\ ledger'[t] = a
        /\ \A v \in DOMAIN ledger : ledger'[v] = ledger[v]
    BY <1>2, <1>4 DEF Put
  <1>8. Owned'
    BY <1>2, <1>3, <1>5, <1>6, <1>7 DEF Owned, MoneyParts, t
  <1>9. MoreHeld(ledger', ledger, t, m)
    BY <1>1, <1>4, <1>5, <1>7 DEF MoreHeld, Ledger, TypeOK
  <1>10. \A s : AllHeld(s)' = AllHeld(s) + Only(s, u, m)
    BY <1>5, <1>7, <1>9, HeldMore DEF AllHeld, Only
  <1>11. \A s : Brought(s)' = Brought(s)
    BY <1>2, BroughtStays
  <1>12. Moves(u, -m, m, 0, 0, 0)
    <2>1. \A s \in Traders : cash'[s] = cash[s] + Only(s, u, -m)
      BY <1>1, <1>2 DEF Pay, Only, TypeOK
    <2>2. \A s \in Traders : /\ paidIn'[s] = paidIn[s] + Only(s, u, 0)
                             /\ fees'[s] = fees[s] + Only(s, u, 0)
                             /\ Brought(s)' = Brought(s) + Only(s, u, 0)
      BY <1>2, <1>11, Worth DEF Only
    <2>3. QED
      BY <1>10, <2>1, <2>2 DEF Moves
  <1> DEFINE c == -m
  <1>13. Balances(c, m, 0, 0, 0) /\ Pay(u, c) /\ Moves(u, c, m, 0, 0, 0)
    BY <1>1, <1>2, <1>12 DEF Balances
  <1> HIDE DEF c, u
  <1>14. u \in loggedIn /\ loggedIn' = loggedIn
    BY <1>1, <1>2
  <1>15. QED
    BY <1>8, <1>13, <1>14, MoneyMoves

LEMMA OrdersMoney ==
    ASSUME TypeOK, Places, MoneyParts,
           \/ ProcessOrder
           \/ \E t \in Tickets, p \in Prices :
                 \E lots \in 1 .. orders[t].qty : CloseTicket(t, p, lots)
    PROVE  MoneyParts'
  <1>1. PICK o : /\ o \in OrderRecord /\ o.leaves # 0 /\ orders' = Append(orders, o)
                 /\ fix.pc = "insert" => o.owner = fix.owner
    <2>1. CASE ProcessOrder
      <3> DEFINE o == Placed(fix.owner, fix.price, fix.qty, NoTicket)
      <3>1. fix.owner \in Traders /\ fix.price \in Prices /\ fix.qty \in Nat \ {0}
        BY <2>1, AtFix DEF ProcessOrder
      <3>2. o \in OrderRecord /\ o.leaves # 0 /\ o.owner = fix.owner
        BY <3>1, BrokerAssumption DEF Placed, NoTicket, OrderRecord
      <3>3. QED
        BY <2>1, <3>2 DEF ProcessOrder
    <2>2. ASSUME NEW t \in Tickets, NEW p \in Prices, NEW lots \in 1 .. orders[t].qty,
                 CloseTicket(t, p, lots)
          PROVE  \E o : /\ o \in OrderRecord /\ o.leaves # 0 /\ orders' = Append(orders, o)
                        /\ fix.pc = "insert" => o.owner = fix.owner
      <3> DEFINE o == Placed(orders[t].owner, p, lots, t)
      <3>1. orders[t] \in OrderRecord /\ t \in 1 .. MaxTickets
        BY OrdersAre
      <3>2. orders[t].qty \in Nat /\ lots \in Nat \ {0}
        BY <3>1 DEF OrderRecord
      <3>3. o \in OrderRecord /\ o.leaves # 0
        BY <3>1, <3>2, BrokerAssumption DEF Placed, OrderRecord
      <3>4. fix.pc = "idle" /\ orders' = Append(orders, o)
        BY <2>2 DEF CloseTicket
      <3>5. QED
        BY <3>3, <3>4
    <2>3. QED
      BY <2>1, <2>2
  <1>2. UNCHANGED <<loggedIn, cash, ledger, allCash, feed, paidIn, fees>>
    BY DEF ProcessOrder, CloseTicket
  <1>3. Owned'
    <2>1. /\ Tickets' = Tickets \cup {Len(orders) + 1}
          /\ \A t \in Tickets : orders'[t] = orders[t]
          /\ orders'[Len(orders) + 1] = o
      BY <1>1, Appended
    <2>2. QED
      BY <1>1, <1>2, <2>1 DEF MoneyParts, Owned
  <1>4. \A s : AllHeld(s)' = AllHeld(s) /\ Brought(s)' = Brought(s)
    BY <1>1, <1>2, HeldStays, BroughtAppended
  <1>5. QED
    BY <1>2, <1>3, <1>4, MoneyStays

\* An order that executes or is cancelled.
LEMMA TradesMoney ==
    ASSUME TypeOK, Places, MoneyParts, NEW t \in Tickets,
           \/ \E p \in Prices : \E q \in 1 .. orders[t].qty : Execute(t, p, q)
           \/ Cancel(t)
    PROVE  MoneyParts'
  <1>1. orders[t] \in OrderRecord /\ t \in 1 .. MaxTickets /\ orders[t].leaves # 0
        /\ feed.pc = "idle"
    BY OrdersAre DEF Execute, Cancel, IsLive
  <1>2. PICK o : /\ o \in OrderRecord /\ orders' = [orders EXCEPT ![t] = o]
                 /\ o.owner = orders[t].owner /\ o.closes = orders[t].closes
                 /\ \/ o.leaves # 0 /\ feed'.pc # "settle"
                    \/ feed'.pc = "settle" /\ feed'.ticket = t
    <2>1. ASSUME NEW p \in Prices, NEW q \in 1 .. orders[t].qty, Execute(t, p, q)
          PROVE  \E o : /\ o \in OrderRecord /\ orders' = [orders EXCEPT ![t] = o]
                        /\ o.owner = orders[t].owner /\ o.closes = orders[t].closes
                        /\ feed'.pc = "settle" /\ feed'.ticket = t
      <3> DEFINE o == Executed(orders[t], p, q)
      <3>1. q \in Nat /\ q <= orders[t].leaves /\ Effect(p, q) \in Nat
        <4>1. q \in Nat /\ p \in Nat
          BY <1>1, BrokerAssumption DEF OrderRecord
        <4>2. QED
          BY <2>1, <4>1, Amounts DEF Execute
      <3>2. orders[t].leaves - q \in Nat /\ orders[t].amount + Effect(p, q) \in Nat
        BY <1>1, <3>1 DEF OrderRecord
      <3>3. o \in OrderRecord /\ o.owner = orders[t].owner /\ o.closes = orders[t].closes
        BY <1>1, <3>2 DEF OrderRecord, Executed
      <3>4. orders' = [orders EXCEPT ![t] = o] /\ feed' = [pc |-> "settle", ticket |-> t]
        BY <2>1 DEF Execute
      <3>5. QED
        BY <3>3, <3>4
    <2>2. CASE Cancel(t)
      <3> DEFINE o == [orders[t] EXCEPT !.cancelled = TRUE]
      <3>1. /\ o \in OrderRecord /\ o.owner = orders[t].owner
            /\ o.closes = orders[t].closes /\ o.leaves = orders[t].leaves
        BY <1>1 DEF OrderRecord
      <3>2. orders' = [orders EXCEPT ![t] = o] /\ feed' = [pc |-> "free", ticket |-> t]
        BY <2>2 DEF Cancel
      <3>3. QED
        BY <1>1, <3>1, <3>2
    <2>3. QED
      BY <2>1, <2>2
  <1>3. UNCHANGED <<loggedIn, cash, ledger, allCash, fix, paidIn, fees>>
    BY DEF Execute, Cancel
  <1>4. Owned'
    <2>1. Tickets' = Tickets /\ Len(orders') = Len(orders)
          /\ \A u \in Tickets : orders'[u] = IF u = t THEN o ELSE orders[u]
      BY <1>2, Replaced
    <2>2. \A u \in Tickets : orders'[u].owner = orders[u].owner
      BY <1>2, <2>1
    <2>3. QED
      BY <1>3, <2>1, <2>2 DEF MoneyParts, Owned
  <1>5. \A s : AllHeld(s)' = AllHeld(s) /\ Brought(s)' = Brought(s)
    BY <1>1, <1>2, <1>3, HeldStays, BroughtReplaced
  <1>6. QED
    BY <1>3, <1>4, <1>5, MoneyStays

\* A lot is of an order whose trader is logged in, and which owns its account.
LEMMA LotOwner ==
    ASSUME TypeOK, Places, MoneyParts, feed.pc # "idle"
    PROVE  /\ feed.ticket \in Tickets /\ feed.ticket \in 1 .. MaxTickets
           /\ orders[feed.ticket].owner \in loggedIn
           /\ orders[feed.ticket].amount \in Nat /\ orders[feed.ticket].qty \in Nat
           /\ Fee(orders[feed.ticket]) \in Nat
           /\ feed.ticket \in DOMAIN ledger =>
                 /\ ledger[feed.ticket].owner = orders[feed.ticket].owner
                 /\ ledger[feed.ticket].margin \in Nat
                 /\ ledger[feed.ticket] \in AccountRecord
  <1>1. feed.ticket \in Tickets /\ Tickets = 1 .. Len(orders) /\ Len(orders) \in Nat
        /\ Fee(orders[feed.ticket]) \in Nat
    BY AtFeed, OrdersAre
  <1>2. feed.ticket \in DOMAIN ledger => ledger[feed.ticket].owner = orders[feed.ticket].owner
    BY <1>1 DEF MoneyParts, Owned
  <1>3. orders[feed.ticket].owner \in loggedIn
    BY <1>1 DEF Places
  <1>4. QED
    BY <1>1, <1>2, <1>3, Lot

\* The accounts keep their owners, and one may join.
LEMMA StillOwned ==
    ASSUME MoneyParts, orders' = orders, fix' = fix, NEW t \in Tickets,
           DOMAIN ledger' \subseteq DOMAIN ledger \cup {t},
           \A u \in DOMAIN ledger : ledger'[u].owner = ledger[u].owner,
           t \notin DOMAIN ledger /\ t \in DOMAIN ledger'
              => ledger'[t].owner = orders[t].owner
    PROVE  Owned'
  BY DEF MoneyParts, Owned, Tickets

LEMMA SettleCloseMoney ==
    ASSUME TypeOK, Places, MoneyParts, SettleClose
    PROVE  MoneyParts'
  <1>0. PICK t : t = feed.ticket
    OBVIOUS
  <1>1. PICK o : o = orders[t]
    OBVIOUS
  <1> DEFINE known == o.closes \in DOMAIN ledger
             settled == IF t \in DOMAIN ledger
                        THEN [ledger EXCEPT ![t].equity = o.amount]
                        ELSE Put(t, Account(o.owner, 0, o.amount, o.qty))
  <1>2. /\ feed.pc = "settle" /\ o.closes # NoTicket /\ t \in Tickets
        /\ o.owner \in loggedIn /\ o.amount \in Nat /\ t \in 1 .. MaxTickets
        /\ o.qty \in Nat /\ TypeOK' /\ loggedIn \subseteq Traders
        /\ t \in DOMAIN ledger => /\ ledger[t].owner = o.owner
                                  /\ ledger[t] \in AccountRecord
    BY <1>0, <1>1, LotOwner, SettleCloseTypes DEF SettleClose, TypeOK
  <1>3. /\ UNCHANGED <<loggedIn, orders, fix, paidIn, fees>>
        /\ feed'.pc # "settle"
    <2>1. feed'.pc \in {"fee", "thrown"}
      BY <1>0, <1>1, AfterSettleIs DEF SettleClose
    <2>2. QED
      BY <2>1 DEF SettleClose
  <1>4. ledger' = settled \/ (known /\ ledger' = [settled EXCEPT ![o.closes].report = TRUE])
    BY <1>0, <1>1 DEF SettleClose
  <1>5. Ledger(ledger) /\ Ledger(ledger')
    BY <1>2 DEF TypeOK, Ledger
  <1>6. MoreHeld(settled, ledger, t, 0) /\ settled[t].owner = o.owner
    <2>1. CASE t \in DOMAIN ledger
      <3>1. settled = [ledger EXCEPT ![t] = [ledger[t] EXCEPT !.equity = o.amount]]
        BY <2>1
      <3>2. [ledger[t] EXCEPT !.equity = o.amount] \in AccountRecord
            /\ [ledger[t] EXCEPT !.equity = o.amount].owner = ledger[t].owner
            /\ [ledger[t] EXCEPT !.equity = o.amount].margin = ledger[t].margin
        BY <1>2, <2>1 DEF AccountRecord
      <3>3. ledger[t].margin \in Nat
        BY <1>2, <2>1 DEF AccountRecord
      <3> DEFINE a == [ledger[t] EXCEPT !.equity = o.amount]
      <3>4. settled = [ledger EXCEPT ![t] = a] /\ a \in AccountRecord
            /\ a.owner = ledger[t].owner /\ a.margin = ledger[t].margin
        BY <3>1, <3>2
      <3> HIDE DEF a, settled
      <3>5. DOMAIN settled = DOMAIN ledger /\ settled[t] = a
            /\ \A u \in DOMAIN ledger \ {t} : settled[u] = ledger[u]
        BY <2>1, <3>4
      <3>6. Ledger(settled)
        BY <1>5, <3>4, <3>5 DEF Ledger
      <3>7. settled[t].margin = ledger[t].margin + 0 /\ 0 \in Int
        BY <3>3, <3>4, <3>5
      <3>8. \A u \in DOMAIN ledger : /\ settled[u].owner = ledger[u].owner
                                     /\ u # t => settled[u].margin = ledger[u].margin
        BY <3>4, <3>5
      <3>9. DOMAIN settled = DOMAIN ledger \cup {t}
        BY <2>1, <3>5
      <3>10. MoreHeld(settled, ledger, t, 0)
        BY <1>5, <2>1, <3>6, <3>7, <3>8, <3>9 DEF MoreHeld
      <3>11. QED
        BY <1>2, <2>1, <3>4, <3>5, <3>10
    <2>2. CASE t \notin DOMAIN ledger
      <3> DEFINE a == Account(o.owner, 0, o.amount, o.qty)
      <3>1. a \in AccountRecord /\ a.owner = o.owner /\ a.margin = 0
        BY <1>2 DEF Account, AccountRecord
      <3>2. settled = Put(t, a)
        BY <2>2
      <3> HIDE DEF a, settled
      <3>3. DOMAIN settled = DOMAIN ledger \cup {t} /\ settled[t] = a
            /\ \A u \in DOMAIN ledger : settled[u] = ledger[u]
        BY <2>2, <3>2 DEF Put
      <3>4. Ledger(settled)
        <4>1. settled \in [DOMAIN settled -> AccountRecord]
          BY <1>5, <3>1, <3>2 DEF Ledger, Put
        <4>2. QED
          BY <1>2, <1>5, <3>3, <4>1 DEF Ledger
      <3>5. QED
        BY <1>2, <1>5, <2>2, <3>1, <3>3, <3>4 DEF MoreHeld
    <2>3. QED
      BY <2>1, <2>2
  <1> HIDE DEF settled
  <1>7. /\ DOMAIN ledger' = DOMAIN settled
        /\ \A u \in DOMAIN settled : /\ ledger'[u].owner = settled[u].owner
                                     /\ ledger'[u].margin = settled[u].margin
    <2>1. CASE ledger' = settled
      BY <2>1
    <2>2. CASE known /\ ledger' = [settled EXCEPT ![o.closes].report = TRUE]
      <3>1. o.closes \in DOMAIN settled /\ settled[o.closes] \in AccountRecord
        BY <1>6, <2>2 DEF MoreHeld, Ledger
      <3> DEFINE a == [settled[o.closes] EXCEPT !.report = TRUE]
      <3>2. a.owner = settled[o.closes].owner /\ a.margin = settled[o.closes].margin
        BY <3>1 DEF AccountRecord
      <3>3. ledger' = [settled EXCEPT ![o.closes] = a]
        BY <2>2, <3>1
      <3> HIDE DEF a
      <3>4. QED
        BY <3>1, <3>2, <3>3
    <2>3. QED
      BY <1>4, <2>1, <2>2
  <1>8. Owned'
    BY <1>1, <1>2, <1>3, <1>6, <1>7, StillOwned DEF MoreHeld
  <1>9. \A s : AllHeld(s)' = AllHeld(s)
    <2>1. ASSUME NEW s PROVE HeldOf(ledger', s) = HeldOf(ledger, s)
      <3>1. Ledger(settled) /\ Ledger(ledger')
        BY <1>5, <1>6 DEF MoreHeld
      <3>2. HeldOf(ledger', s) = HeldOf(settled, s)
        BY <1>7, <3>1, HeldSame
      <3>3. HeldOf(settled, s) = HeldOf(ledger, s) + (IF settled[t].owner = s THEN 0 ELSE 0)
        BY <1>6, HeldMore
      <3>4. HeldOf(ledger, s) \in Int
        BY <1>5, LedgerSums
      <3>5. QED
        BY <3>2, <3>3, <3>4
    <2>2. QED
      BY <2>1 DEF AllHeld
  <1>10. CASE ~Filled(t)
    <2>1. cash' = cash /\ allCash' = allCash
      BY <1>0, <1>10 DEF SettleClose
    <2>2. \A s : Brought(s)' = Brought(s)
      BY <1>0, <1>2, <1>3, <1>10, BroughtStays
    <2>3. QED
      BY <1>3, <1>8, <1>9, <2>1, <2>2, MoneyStays
  <1>11. CASE Filled(t)
    <2>1. PICK c : c = o.amount
      OBVIOUS
    <2>2. PICK u : u = o.owner
      OBVIOUS
    <2>3. Pay(u, c) /\ c \in Int /\ u \in loggedIn
      <3>1. Pay(orders[feed.ticket].owner, orders[feed.ticket].amount)
        BY <1>0, <1>11 DEF SettleClose
      <3>2. c = orders[feed.ticket].amount /\ u = orders[feed.ticket].owner
        BY <1>0, <1>1, <2>1, <2>2
      <3>3. c \in Int /\ u \in loggedIn
        BY <1>2, <2>1, <2>2
      <3>4. QED
        BY <3>1, <3>2, <3>3
    <2>4. ASSUME NEW s \in Traders PROVE Brought(s)' = Brought(s) + Only(s, u, c)
      <3>1. Tickets' = Tickets /\ \A v \in Tickets : Filled(v)' <=> Filled(v)
        BY <1>3 DEF Tickets, Filled
      <3>2. t \notin PaidOut(s)
        BY <1>0, <1>2 DEF PaidOut
      <3>3. CASE s = u
        <4>1. PaidOut(s)' = PaidOut(s) \cup {t}
          BY <1>0, <1>1, <1>2, <1>3, <1>11, <2>2, <3>1, <3>3 DEF PaidOut
        <4>2. Brought(s)' = Brought(s) + orders[t].amount
          BY <1>2, <1>3, <3>2, <4>1, BroughtMore
        <4>3. QED
          BY <1>1, <2>1, <3>3, <4>2 DEF Only
      <3>4. CASE s # u
        <4>1. PaidOut(s)' = PaidOut(s)
          BY <1>0, <1>1, <1>2, <1>3, <2>2, <3>1, <3>4 DEF PaidOut
        <4>2. Brought(s)' = Brought(s) /\ Brought(s) \in Int
          BY <1>3, <3>1, <4>1, BroughtSame, PaidOutIs
        <4>3. QED
          BY <3>4, <4>2 DEF Only
      <3>5. QED
        BY <3>3, <3>4
    <2>5. Moves(u, c, 0, 0, 0, c)
      <3>1. \A s \in Traders : cash'[s] = cash[s] + Only(s, u, c)
        <4>1. u \in Traders /\ cash \in [Traders -> Int]
          BY <1>2, <2>3 DEF TypeOK
        <4>2. cash' = [cash EXCEPT ![u] = @ + c]
          BY <2>3 DEF Pay
        <4>3. QED
          BY <2>3, <4>1, <4>2, AddsOnly
      <3>2. \A s \in Traders : /\ paidIn'[s] = paidIn[s] + Only(s, u, 0)
                               /\ fees'[s] = fees[s] + Only(s, u, 0)
                               /\ AllHeld(s)' = AllHeld(s) + Only(s, u, 0)
        BY <1>3, <1>9, Worth DEF Only
      <3>3. QED
        BY <2>4, <3>1, <3>2 DEF Moves
    <2>6. Balances(c, 0, 0, 0, c)
      BY <2>3 DEF Balances
    <2>7. QED
      BY <1>3, <1>8, <2>3, <2>5, <2>6, MoneyMoves DEF SettleClose
  <1>12. QED
    BY <1>10, <1>11

\* A step in which the owner of ticket t gets c in cash and d in margin; p is paid
\* in, and f is charged.
Payment(t, d, c, p, f) ==
    LET u == orders[t].owner
    IN  /\ u \in loggedIn /\ Balances(c, d, p, f, 0)
        /\ Pay(u, c)
        /\ \A s \in Traders : /\ paidIn'[s] = paidIn[s] + Only(s, u, p)
                              /\ fees'[s] = fees[s] + Only(s, u, f)
        /\ \/ ledger' = ledger /\ d = 0
           \/ t \in DOMAIN ledger /\ MoreHeld(ledger', ledger, t, d)
        /\ UNCHANGED <<loggedIn, orders, fix>>

LEMMA PaymentMoney ==
    ASSUME TypeOK, MoneyParts, NEW t \in Tickets, NEW d, NEW c, NEW p, NEW f,
           Payment(t, d, c, p, f), \A s : Brought(s)' = Brought(s)
    PROVE  MoneyParts'
  <1>0. PICK u : u = orders[t].owner
    OBVIOUS
  <1>1. /\ u \in loggedIn /\ Balances(c, d, p, f, 0) /\ Pay(u, c)
        /\ \A s \in Traders : /\ paidIn'[s] = paidIn[s] + Only(s, u, p)
                              /\ fees'[s] = fees[s] + Only(s, u, f)
        /\ \/ ledger' = ledger /\ d = 0
           \/ t \in DOMAIN ledger /\ MoreHeld(ledger', ledger, t, d)
        /\ loggedIn' = loggedIn /\ orders' = orders /\ fix' = fix
    BY <1>0 DEF Payment
  <1>2. Owned'
    BY <1>1, StillOwned DEF MoreHeld, MoneyParts, Owned, Tickets
  <1>3. \A s \in Traders : AllHeld(s)' = AllHeld(s) + Only(s, u, d)
    <2>1. CASE ledger' = ledger /\ d = 0
      BY <2>1, HeldStays, Worth DEF Only
    <2>2. CASE t \in DOMAIN ledger /\ MoreHeld(ledger', ledger, t, d)
      <3>1. ledger[t].owner = u
        <4>1. t # Len(orders) + 1
          <5>1. Tickets = 1 .. Len(orders) /\ Len(orders) \in Nat
            BY OrdersAre
          <5>2. QED
            BY <5>1
        <4>2. QED
          BY <1>0, <2>2, <4>1 DEF MoneyParts, Owned
      <3>2. ledger'[t].owner = u
        BY <2>2, <3>1 DEF MoreHeld
      <3>3. QED
        BY <2>2, <3>2, HeldMore DEF AllHeld, Only
    <2>3. QED
      BY <1>1, <2>1, <2>2
  <1>4. Moves(u, c, d, p, f, 0)
    <2>1. \A s \in Traders : cash'[s] = cash[s] + Only(s, u, c)
      <3>1. u \in Traders /\ cash \in [Traders -> Int] /\ c \in Int
        BY <1>1 DEF Balances, TypeOK
      <3>2. cash' = [cash EXCEPT ![u] = @ + c]
        BY <1>1 DEF Pay
      <3>3. QED
        BY <3>1, <3>2, AddsOnly
    <2>2. \A s \in Traders : Brought(s)' = Brought(s) + Only(s, u, 0)
      BY Worth DEF Only
    <2>3. QED
      BY <1>1, <1>3, <2>1, <2>2 DEF Moves
  <1>5. QED
    BY <1>1, <1>2, <1>4, MoneyMoves

\* Amounts that nothing changes.
LEMMA NothingAdded ==
    ASSUME TypeOK, NEW u
    PROVE  /\ paidIn' = paidIn => \A s \in Traders : paidIn'[s] = paidIn[s] + Only(s, u, 0)
           /\ fees' = fees => \A s \in Traders : fees'[s] = fees[s] + Only(s, u, 0)
  BY DEF TypeOK, Only

LEMMA SettleOpenMoney ==
    ASSUME TypeOK, Places, MoneyParts, SettleOpen
    PROVE  MoneyParts'
  <1>0. PICK t : t = feed.ticket
    OBVIOUS
  <1>1. PICK o : o = orders[t]
    OBVIOUS
  <1>2. /\ feed.pc = "settle" /\ o.closes = NoTicket /\ t \in Tickets
        /\ o.owner \in loggedIn /\ o.amount \in Nat /\ TypeOK' /\ loggedIn \subseteq Traders
        /\ t \in DOMAIN ledger => /\ ledger[t].owner = o.owner
                                  /\ ledger[t].margin \in Nat
                                  /\ ledger[t] \in AccountRecord
    BY <1>0, <1>1, LotOwner, SettleOpenTypes DEF SettleOpen, TypeOK
  <1>3. /\ UNCHANGED <<loggedIn, orders, fix, paidIn, fees>>
        /\ feed'.pc # "settle"
    <2>1. feed'.pc \in {"fee", "thrown"}
      BY <1>0, <1>1, AfterSettleIs DEF SettleOpen
    <2>2. QED
      BY <2>1 DEF SettleOpen
  <1>4. \A s : Brought(s)' = Brought(s)
    BY <1>0, <1>1, <1>2, <1>3, BroughtStays
  <1>5. Ledger(ledger) /\ Ledger(ledger')
    BY <1>2 DEF TypeOK, Ledger
  <1>6. ASSUME cash' = cash, allCash' = allCash, ledger' = ledger PROVE MoneyParts'
    <2>1. Owned'
      BY <1>1, <1>2, <1>3, <1>6, StillOwned
    <2>2. QED
      BY <1>3, <1>4, <1>6, <2>1, HeldStays, MoneyStays
  <1>7. ASSUME cash' = cash, allCash' = allCash, t \in DOMAIN ledger,
               ledger' = [ledger EXCEPT ![t] = [@ EXCEPT !.equity = o.amount]]
        PROVE  MoneyParts'
    <2> DEFINE a == [ledger[t] EXCEPT !.equity = o.amount]
    <2>1. a.owner = ledger[t].owner /\ a.margin = ledger[t].margin
      BY <1>2, <1>7 DEF AccountRecord
    <2>2. ledger' = [ledger EXCEPT ![t] = a]
      BY <1>7
    <2> HIDE DEF a
    <2>3. DOMAIN ledger' = DOMAIN ledger
          /\ \A u \in DOMAIN ledger : /\ ledger'[u].owner = ledger[u].owner
                                      /\ ledger'[u].margin = ledger[u].margin
      BY <2>1, <2>2
    <2>4. Owned'
      BY <1>2, <1>3, <2>3, StillOwned
    <2>5. \A s : AllHeld(s)' = AllHeld(s)
      BY <1>5, <2>3, HeldSame DEF AllHeld
    <2>6. QED
      BY <1>3, <1>4, <1>7, <2>4, <2>5, MoneyStays
  <1>8. ASSUME t \in DOMAIN ledger, Pay(o.owner, ledger[t].margin - o.amount),
               ledger' = [ledger EXCEPT ![t] = [@ EXCEPT !.equity = o.amount,
                                                         !.margin = o.amount]]
        PROVE  MoneyParts'
    <2>0. PICK d : d = o.amount - ledger[t].margin
      OBVIOUS
    <2>1. PICK c : c = ledger[t].margin - o.amount
      OBVIOUS
    <2>2. Balances(c, d, 0, 0, 0) /\ d \in Int /\ ledger[t].margin + d = o.amount
      BY <1>2, <1>8, <2>0, <2>1 DEF Balances
    <2> DEFINE a == [ledger[t] EXCEPT !.equity = o.amount, !.margin = o.amount]
    <2>3. a.owner = ledger[t].owner /\ a.margin = o.amount
      BY <1>2, <1>8 DEF AccountRecord
    <2>4. ledger' = [ledger EXCEPT ![t] = a]
      BY <1>8
    <2> HIDE DEF a
    <2>5. MoreHeld(ledger', ledger, t, d)
      BY <1>5, <1>8, <2>2, <2>3, <2>4 DEF MoreHeld
    <2>6. \A s \in Traders : /\ paidIn'[s] = paidIn[s] + Only(s, orders[t].owner, 0)
                             /\ fees'[s] = fees[s] + Only(s, orders[t].owner, 0)
      BY <1>3, NothingAdded
    <2>7. Pay(orders[t].owner, c)
      BY <1>1, <1>8, <2>1
    <2>8. Payment(t, d, c, 0, 0)
      BY <1>1, <1>2, <1>3, <1>8, <2>2, <2>5, <2>6, <2>7 DEF Payment
    <2>9. QED
      BY <1>2, <1>4, <2>8, PaymentMoney
  <1>9. QED
    BY <1>0, <1>1, <1>6, <1>7, <1>8, SettleOpenCases

LEMMA ChargeMoney ==
    ASSUME TypeOK, Places, MoneyParts, Charge
    PROVE  MoneyParts'
  <1>0. PICK t : t = feed.ticket
    OBVIOUS
  <1>1. PICK f : f = Fee(orders[t])
    OBVIOUS
  <1>2. PICK c : c = -f
    OBVIOUS
  <1>3. PICK u : u = orders[t].owner
    OBVIOUS
  <1>4. /\ t \in Tickets /\ u \in loggedIn /\ u \in Traders /\ f \in Int
        /\ feed.pc = "charge" /\ fees \in [Traders -> Int]
    BY <1>0, <1>1, <1>3, LotOwner DEF Charge, TypeOK
  <1>5. /\ Pay(u, c) /\ fees' = [fees EXCEPT ![u] = @ + f]
        /\ UNCHANGED <<loggedIn, ledger, orders, fix, paidIn>> /\ feed'.pc = "idle"
    BY <1>0, <1>1, <1>2, <1>3 DEF Charge, Idle
  <1>6. Balances(c, 0, 0, f, 0)
    BY <1>2, <1>4 DEF Balances
  <1>7. \A s \in Traders : /\ paidIn'[s] = paidIn[s] + Only(s, u, 0)
                           /\ fees'[s] = fees[s] + Only(s, u, f)
    BY <1>4, <1>5, NothingAdded, AddsOnly
  <1>8. Payment(t, 0, c, 0, f)
    BY <1>3, <1>4, <1>5, <1>6, <1>7 DEF Payment
  <1>9. \A s : Brought(s)' = Brought(s)
    BY <1>4, <1>5, BroughtStays
  <1>10. QED
    BY <1>4, <1>8, <1>9, PaymentMoney

LEMMA FreeMarginMoney ==
    ASSUME TypeOK, Places, MoneyParts, FreeMargin
    PROVE  MoneyParts'
  <1>0. PICK t : t = feed.ticket
    OBVIOUS
  <1>1. /\ t \in Tickets /\ orders[t].owner \in loggedIn /\ TypeOK' /\ feed.pc = "free"
        /\ orders[t].owner \in Traders
        /\ t \in DOMAIN ledger => /\ ledger[t].owner = orders[t].owner
                                  /\ ledger[t].margin \in Nat
    BY <1>0, LotOwner, FreeMarginTypes DEF FreeMargin, TypeOK
  <1>2. UNCHANGED <<loggedIn, orders, fix, paidIn, fees>> /\ feed'.pc = "idle"
    BY DEF FreeMargin, Idle
  <1>3. \A s : Brought(s)' = Brought(s)
    BY <1>1, <1>2, BroughtStays
  <1>4. CASE t \in DOMAIN ledger
    <2>0. PICK c : c = ledger[t].margin
      OBVIOUS
    <2>1. PICK d : d = -c
      OBVIOUS
    <2>2. Balances(c, d, 0, 0, 0) /\ d \in Int /\ ledger[t].margin + d = 0
      BY <1>1, <1>4, <2>0, <2>1 DEF Balances
    <2> DEFINE a == Account(orders[t].owner, 0, 0, 0)
    <2>3. a.owner = ledger[t].owner /\ a.margin = 0
      BY <1>1, <1>4 DEF Account
    <2>4. ledger' = [ledger EXCEPT ![t] = a] /\ Pay(orders[t].owner, c)
      BY <1>0, <1>4, <2>0 DEF FreeMargin
    <2> HIDE DEF a
    <2>5. Ledger(ledger) /\ Ledger(ledger')
      BY <1>1 DEF TypeOK, Ledger
    <2>6. MoreHeld(ledger', ledger, t, d)
      BY <1>4, <2>2, <2>3, <2>4, <2>5 DEF MoreHeld
    <2>7. \A s \in Traders : /\ paidIn'[s] = paidIn[s] + Only(s, orders[t].owner, 0)
                             /\ fees'[s] = fees[s] + Only(s, orders[t].owner, 0)
      BY <1>2, NothingAdded
    <2>8. Payment(t, d, c, 0, 0)
      BY <1>1, <1>2, <1>4, <2>2, <2>4, <2>6, <2>7 DEF Payment
    <2>9. QED
      BY <1>1, <1>3, <2>8, PaymentMoney
  <1>5. CASE t \notin DOMAIN ledger
    <2>1. UNCHANGED <<ledger, cash, allCash>>
      BY <1>0, <1>5 DEF FreeMargin
    <2>2. Owned'
      BY <1>1, <1>2, <2>1, StillOwned
    <2>3. QED
      BY <1>2, <1>3, <2>1, <2>2, HeldStays, MoneyStays
  <1>6. QED
    BY <1>4, <1>5

LEMMA AddExdrCashMoney ==
    ASSUME TypeOK, Places, MoneyParts, NEW t \in Tickets, NEW amount \in Dividends,
           AddExdrCash(t, amount)
    PROVE  MoneyParts'
  <1>0. PICK c : c = ledger[t].qty * amount * LotFactor
    OBVIOUS
  <1>1. PICK u : u = orders[t].owner
    OBVIOUS
  <1>2. /\ t \in DOMAIN ledger /\ Pay(u, c)
        /\ paidIn' = [paidIn EXCEPT ![u] = @ + c]
        /\ UNCHANGED <<loggedIn, ledger, orders, fix, feed, fees>>
    BY <1>0, <1>1 DEF AddExdrCash
  <1>3. c \in Int
    BY <1>0, <1>2, DividendNat
  <1>4. u \in loggedIn /\ u \in Traders /\ paidIn \in [Traders -> Int]
    BY <1>1 DEF Places, TypeOK
  <1>5. Balances(c, 0, c, 0, 0)
    BY <1>3 DEF Balances
  <1>6. \A s \in Traders : /\ paidIn'[s] = paidIn[s] + Only(s, u, c)
                           /\ fees'[s] = fees[s] + Only(s, u, 0)
    <2>1. \A s \in Traders : paidIn'[s] = paidIn[s] + Only(s, u, c)
      <3>1. paidIn' = [paidIn EXCEPT ![u] = @ + c]
        BY <1>2
      <3>2. QED
        BY <1>3, <1>4, <3>1, AddsOnly
    <2>2. QED
      BY <1>2, <2>1, NothingAdded
  <1>7. Payment(t, 0, c, c, 0)
    BY <1>1, <1>2, <1>4, <1>5, <1>6 DEF Payment
  <1>8. \A s : Brought(s)' = Brought(s)
    BY <1>2, BroughtStays
  <1>9. QED
    BY <1>7, <1>8, PaymentMoney

LEMMA MoneyInit == Init => MoneyParts
  <1> SUFFICES ASSUME Init PROVE MoneyParts
    OBVIOUS
  <1>1. orders \in Seq(OrderRecord) /\ Len(orders) = 0
    BY EmptySeq DEF Init
  <1>2. Tickets = {} /\ DOMAIN ledger = {}
    BY <1>1, LenProperties DEF Tickets, Init
  <1>3. Owned /\ Poor
    BY <1>2 DEF Owned, Poor, Init
  <1>4. ASSUME NEW s \in Traders
        PROVE  cash[s] + AllHeld(s) = paidIn[s] - fees[s] + Brought(s)
    <2>1. PaidOut(s) = {} /\ {t \in DOMAIN ledger : ledger[t].owner = s} = {}
      BY <1>2 DEF PaidOut
    <2>2. AllHeld(s) = 0 /\ Brought(s) = 0
      BY <2>1, SumEmpty DEF AllHeld, HeldOf, Brought
    <2>3. cash[s] = 0 /\ paidIn[s] = 0 /\ fees[s] = 0
      BY DEF Init
    <2>4. QED
      BY <2>2, <2>3
  <1>5. MoneyIsConserved
    BY <1>4, ConservedIs DEF Conserved
  <1>6. AllCashAddsUp
    <2>1. IsFiniteSet(Traders) /\ Stored \in Nat
      BY BrokerAssumption
    <2>2. \A s \in Traders : cash[s] = 0
      BY DEF Init
    <2>3. SumFunctionOnSet(cash, Traders) = 0
      BY <2>1, <2>2, SumZero
    <2>4. loggedIn \cap Known = {} /\ allCash = 0
      BY DEF Init
    <2>5. Cardinality(loggedIn \cap Known) = 0
      BY <2>4, FS_EmptySet
    <2>6. QED
      BY <2>1, <2>3, <2>4, <2>5 DEF AllCashAddsUp, Cash
  <1>7. QED
    BY <1>3, <1>5, <1>6 DEF MoneyParts

LEMMA MoneyNext ==
    TypeOK /\ Places /\ MoneyParts /\ [Next]_vars => MoneyParts'
  <1> SUFFICES ASSUME TypeOK, Places, MoneyParts, [Next]_vars PROVE MoneyParts'
    OBVIOUS
  <1>1. CASE FixThread
    BY <1>1, ApplyMoney, TestsMoney, MarginMoney, OrdersMoney DEF FixThread
  <1>2. CASE FeedThread
    BY <1>2, TradesMoney, SettleCloseMoney, SettleOpenMoney, TestsMoney, ChargeMoney,
       FreeMarginMoney DEF FeedThread
  <1>3. CASE Consumer
    BY <1>3, AddExdrCashMoney DEF Consumer
  <1>4. CASE UNCHANGED vars
    <2>1. UNCHANGED <<loggedIn, cash, ledger, allCash, orders, fix, feed, paidIn, fees>>
      BY <1>4 DEF vars
    <2>2. Owned'
      BY <2>1 DEF MoneyParts, Owned, Tickets
    <2>3. \A s : AllHeld(s)' = AllHeld(s) /\ Brought(s)' = Brought(s)
      BY <2>1, HeldStays, BroughtStays
    <2>4. QED
      BY <2>1, <2>2, <2>3, MoneyStays
  <1>5. QED
    BY <1>1, <1>2, <1>3, <1>4 DEF Next

\* The broker's books balance for any traders, prices, factors and dividends:
\* each trader's cash and margins are what was paid in less the commission, plus
\* what closing orders brought, once each; and the total follows the traders.
THEOREM BooksBalance == Spec => []MoneyInv
  <1>1. Init => TypeOK /\ Places /\ MoneyParts
    BY TypeInit, MoneyInit
  <1>2. TypeOK /\ Places /\ MoneyParts /\ [Next]_vars
          => TypeOK' /\ Places' /\ MoneyParts'
    BY TypeNext, MoneyNext
  <1>3. TypeOK /\ MoneyParts => MoneyInv
    BY DEF MoneyParts, MoneyInv
  <1>4. QED
    BY <1>1, <1>2, <1>3, PTL DEF Spec
-----------------------------------------------------------------------------
(* What an order is charged. *)

Frozen(t) == Equity(orders[t].price, orders[t].qty)

Charged(t) ==
    IF TifDay /\ orders[t].amount > Frozen(t) THEN Frozen(t) ELSE orders[t].amount

Opening(t) == t \in Tickets /\ orders[t].closes = NoTicket /\ ~orders[t].cancelled

BeingSettled(t) == feed.pc = "settle" /\ feed.ticket = t

\* The margin of an account: what its order was frozen for, until its last lot is
\* settled; the FIX thread is about to place the order that has none yet.
MarginIs(t) ==
    /\ Opening(t) => ledger[t].margin = IF Filled(t) /\ ~BeingSettled(t)
                                        THEN Charged(t) ELSE Frozen(t)
    /\ t \notin Tickets => ledger[t].margin = Equity(fix.price, fix.qty)

Costs ==
    /\ feed.pc = "free" => orders[feed.ticket].cancelled
    /\ \A t \in DOMAIN ledger : MarginIs(t)

\* CheckMargin() has seen the cash that the order needs.
SeenEnough == fix.pc = "margin" => fix.seen >= Equity(fix.price, fix.qty)

LEMMA CostsImply == Costs => SettledAtCost
  BY DEF Costs, MarginIs, Opening, BeingSettled, SettledAtCost, Filled, Charged, Frozen

\* The accounts are of placed orders, unless one is about to be inserted.
LEMMA AccountsArePlaced ==
    ASSUME MoneyParts, fix.pc # "insert"
    PROVE  DOMAIN ledger \subseteq Tickets
  BY DEF MoneyParts, Owned

LEMMA CostsStay ==
    ASSUME Costs, UNCHANGED <<ledger, orders>>,
           \/ feed' = feed
           \/ feed.pc # "settle" /\ feed'.pc \notin {"settle", "free"},
           fix' = fix \/ DOMAIN ledger \subseteq Tickets
    PROVE  Costs'
  <1>1. Tickets' = Tickets
        /\ \A t : /\ Filled(t)' <=> Filled(t)
                  /\ Opening(t)' <=> Opening(t)
                  /\ BeingSettled(t)' <=> BeingSettled(t)
                  /\ Charged(t)' = Charged(t) /\ Frozen(t)' = Frozen(t)
    BY DEF Tickets, Filled, Opening, BeingSettled, Charged, Frozen
  <1>2. ASSUME NEW t \in DOMAIN ledger PROVE MarginIs(t)'
    BY <1>1 DEF Costs, MarginIs
  <1>3. feed'.pc = "free" => orders'[feed'.ticket].cancelled
    BY DEF Costs
  <1>4. QED
    BY <1>2, <1>3 DEF Costs

LEMMA MarginCosts ==
    ASSUME TypeOK, Places, MoneyParts, Costs, Margin
    PROVE  Costs'
  <1>1. PICK t : t = Len(orders) + 1
    OBVIOUS
  <1>2. /\ fix.pc = "freeze" /\ fix \in FixStep /\ feed' = feed /\ orders' = orders
        /\ ledger' = Put(t, Account(fix.owner, Equity(fix.price, fix.qty), 0, fix.qty))
        /\ fix' = [fix EXCEPT !.pc = "insert"]
    BY <1>1, AtFix DEF Margin
  <1>3. DOMAIN ledger \subseteq Tickets /\ t \notin Tickets
    BY <1>1, <1>2, AccountsArePlaced, OrdersAre
  <1>4. fix'.price = fix.price /\ fix'.qty = fix.qty
    BY <1>2 DEF FixStep
  <1>5. /\ DOMAIN ledger' = DOMAIN ledger \cup {t}
        /\ \A u \in DOMAIN ledger : ledger'[u] = ledger[u]
        /\ ledger'[t].margin = Equity(fix.price, fix.qty)
    BY <1>2, <1>3 DEF Put, Account
  <1>6. Tickets' = Tickets
        /\ \A u : /\ Filled(u)' <=> Filled(u)
                  /\ Opening(u)' <=> Opening(u)
                  /\ BeingSettled(u)' <=> BeingSettled(u)
                  /\ Charged(u)' = Charged(u) /\ Frozen(u)' = Frozen(u)
    BY <1>2 DEF Tickets, Filled, Opening, BeingSettled, Charged, Frozen
  <1>7. ASSUME NEW u \in DOMAIN ledger PROVE MarginIs(u)'
    BY <1>3, <1>5, <1>6 DEF Costs, MarginIs
  <1>8. MarginIs(t)'
    <2>1. ~Opening(t)'
      BY <1>3, <1>6 DEF Opening
    <2>2. Equity(fix'.price, fix'.qty) = Equity(fix.price, fix.qty)
      BY <1>4
    <2>3. QED
      BY <1>5, <2>1, <2>2 DEF MarginIs
  <1>9. feed'.pc = "free" => orders'[feed'.ticket].cancelled
    BY <1>2 DEF Costs
  <1>10. QED
    BY <1>5, <1>7, <1>8, <1>9 DEF Costs

\* An order that is appended keeps what the others are charged.
LEMMA AppendedCosts ==
    ASSUME TypeOK, Places, Costs, NEW o \in OrderRecord, orders' = Append(orders, o),
           UNCHANGED <<ledger, feed>>, o.leaves # 0,
           \/ DOMAIN ledger \subseteq Tickets
           \/ /\ DOMAIN ledger \subseteq Tickets \cup {Len(orders) + 1}
              /\ o.price = fix.price /\ o.qty = fix.qty
    PROVE  Costs'
  <1>1. PICK u : u = Len(orders) + 1
    OBVIOUS
  <1>2. /\ Tickets' = Tickets \cup {u} /\ u \notin Tickets
        /\ \A t \in Tickets : orders'[t] = orders[t]
        /\ orders'[u] = o
    <2>1. Tickets = 1 .. Len(orders) /\ Len(orders) \in Nat
      BY OrdersAre
    <2>2. u \notin Tickets
      BY <1>1, <2>1
    <2>3. QED
      BY <1>1, <2>2, Appended
  <1>3. \A t \in Tickets : /\ Filled(t)' <=> Filled(t)
                           /\ Opening(t)' <=> Opening(t)
                           /\ BeingSettled(t)' <=> BeingSettled(t)
                           /\ Charged(t)' = Charged(t) /\ Frozen(t)' = Frozen(t)
    BY <1>2 DEF Filled, Opening, BeingSettled, Charged, Frozen
  <1>4. ASSUME NEW t \in DOMAIN ledger PROVE MarginIs(t)'
    <2>1. CASE t \in Tickets
      BY <1>2, <1>3, <2>1 DEF Costs, MarginIs
    <2>2. CASE t \notin Tickets
      <3>1. t = u /\ o.price = fix.price /\ o.qty = fix.qty
        BY <1>1, <2>2
      <3>2. ledger[t].margin = Equity(fix.price, fix.qty)
        BY <2>2 DEF Costs, MarginIs
      <3>3. Frozen(t)' = Equity(fix.price, fix.qty) /\ ~Filled(t)' /\ t \in Tickets'
        BY <1>2, <3>1 DEF Frozen, Filled
      <3>4. QED
        BY <3>2, <3>3 DEF MarginIs
    <2>3. QED
      BY <2>1, <2>2
  <1>5. feed'.pc = "free" => orders'[feed'.ticket].cancelled
    BY <1>2 DEF Costs, Places
  <1>6. QED
    BY <1>4, <1>5 DEF Costs

LEMMA OrdersCosts ==
    ASSUME TypeOK, Places, MoneyParts, Costs,
           \/ ProcessOrder
           \/ \E t \in Tickets, p \in Prices :
                 \E lots \in 1 .. orders[t].qty : CloseTicket(t, p, lots)
    PROVE  Costs'
  <1>1. UNCHANGED <<ledger, feed>>
    BY DEF ProcessOrder, CloseTicket
  <1>2. CASE ProcessOrder
    <2> DEFINE o == Placed(fix.owner, fix.price, fix.qty, NoTicket)
    <2>1. fix.owner \in Traders /\ fix.price \in Prices /\ fix.qty \in Nat \ {0}
      BY <1>2, AtFix DEF ProcessOrder
    <2>2. o \in OrderRecord /\ o.leaves # 0 /\ o.price = fix.price /\ o.qty = fix.qty
      BY <2>1, BrokerAssumption DEF Placed, NoTicket, OrderRecord
    <2>3. orders' = Append(orders, o)
      BY <1>2 DEF ProcessOrder
    <2>4. DOMAIN ledger \subseteq Tickets \cup {Len(orders) + 1}
      BY DEF MoneyParts, Owned
    <2> HIDE DEF o
    <2>5. QED
      BY <1>1, <2>2, <2>3, <2>4, AppendedCosts
  <1>3. ASSUME NEW t \in Tickets, NEW p \in Prices, NEW lots \in 1 .. orders[t].qty,
               CloseTicket(t, p, lots)
        PROVE  Costs'
    <2> DEFINE o == Placed(orders[t].owner, p, lots, t)
    <2>1. orders[t] \in OrderRecord /\ t \in 1 .. MaxTickets
      BY OrdersAre
    <2>2. orders[t].qty \in Nat /\ lots \in Nat \ {0}
      BY <2>1 DEF OrderRecord
    <2>3. o \in OrderRecord /\ o.leaves # 0
      BY <2>1, <2>2, BrokerAssumption DEF Placed, OrderRecord
    <2>4. fix.pc = "idle" /\ orders' = Append(orders, o)
      BY <1>3 DEF CloseTicket
    <2>5. DOMAIN ledger \subseteq Tickets
      BY <2>4, AccountsArePlaced
    <2> HIDE DEF o
    <2>6. QED
      BY <1>1, <2>3, <2>4, <2>5, AppendedCosts
  <1>4. QED
    BY <1>2, <1>3

\* A live order that executes or is cancelled keeps its margin.
LEMMA ReplacedCosts ==
    ASSUME TypeOK, Costs, NEW t \in Tickets, NEW o \in OrderRecord,
           orders' = [orders EXCEPT ![t] = o], UNCHANGED <<ledger, fix>>,
           o.price = orders[t].price, o.qty = orders[t].qty, o.closes = orders[t].closes,
           IsLive(t), feed.pc = "idle", feed'.ticket = t,
           \/ feed'.pc = "free" /\ o.cancelled
           \/ feed'.pc = "settle" /\ ~o.cancelled
    PROVE  Costs'
  <1>1. Tickets' = Tickets
        /\ \A u \in Tickets : orders'[u] = IF u = t THEN o ELSE orders[u]
    BY Replaced
  <1>2. ASSUME NEW u \in DOMAIN ledger, u # t PROVE MarginIs(u)'
    <2>1. CASE u \in Tickets
      <3>1. orders'[u] = orders[u] /\ u \in Tickets'
        BY <1>1, <1>2, <2>1
      <3>2. /\ Filled(u)' <=> Filled(u)
            /\ Opening(u)' <=> Opening(u)
            /\ ~BeingSettled(u)' /\ ~BeingSettled(u)
            /\ Charged(u)' = Charged(u) /\ Frozen(u)' = Frozen(u)
        BY <1>2, <2>1, <3>1 DEF Filled, Opening, BeingSettled, Charged, Frozen
      <3>3. QED
        BY <2>1, <3>1, <3>2 DEF Costs, MarginIs
    <2>2. CASE u \notin Tickets
      BY <1>1, <2>2 DEF Costs, MarginIs, Opening
    <2>3. QED
      BY <2>1, <2>2
  <1>3. ASSUME t \in DOMAIN ledger PROVE MarginIs(t)'
    <2>1. orders'[t] = o /\ t \in Tickets'
      BY <1>1
    <2>2. Frozen(t)' = Frozen(t) /\ ~Filled(t) /\ (Opening(t)' => Opening(t))
      BY <2>1 DEF Frozen, Filled, IsLive, Opening
    <2>3. Opening(t)' => BeingSettled(t)'
      BY <2>1 DEF Opening, BeingSettled
    <2>4. MarginIs(t)
      BY <1>3 DEF Costs
    <2>5. QED
      BY <2>1, <2>2, <2>3, <2>4 DEF MarginIs
  <1>4. feed'.pc = "free" => orders'[feed'.ticket].cancelled
    BY <1>1
  <1>5. QED
    BY <1>2, <1>3, <1>4 DEF Costs

LEMMA TradesCosts ==
    ASSUME TypeOK, Places, Costs, NEW t \in Tickets,
           \/ \E p \in Prices : \E q \in 1 .. orders[t].qty : Execute(t, p, q)
           \/ Cancel(t)
    PROVE  Costs'
  <1>1. orders[t] \in OrderRecord
    BY OrdersAre
  <1>2. ASSUME NEW p \in Prices, NEW q \in 1 .. orders[t].qty, Execute(t, p, q)
        PROVE  Costs'
    <2> DEFINE o == Executed(orders[t], p, q)
    <2>1. q \in Nat /\ q <= orders[t].leaves /\ Effect(p, q) \in Nat
      <3>1. q \in Nat /\ p \in Nat
        BY <1>1, BrokerAssumption DEF OrderRecord
      <3>2. QED
        BY <1>2, <3>1, Amounts DEF Execute
    <2>2. orders[t].leaves - q \in Nat /\ orders[t].amount + Effect(p, q) \in Nat
      BY <1>1, <2>1 DEF OrderRecord
    <2>3. /\ o \in OrderRecord /\ o.price = orders[t].price /\ o.qty = orders[t].qty
          /\ o.closes = orders[t].closes /\ o.cancelled = orders[t].cancelled
      BY <1>1, <2>2 DEF OrderRecord, Executed
    <2>4. /\ orders' = [orders EXCEPT ![t] = o] /\ IsLive(t) /\ feed.pc = "idle"
          /\ feed' = [pc |-> "settle", ticket |-> t] /\ UNCHANGED <<ledger, fix>>
      BY <1>2 DEF Execute
    <2>5. ~o.cancelled /\ feed'.pc = "settle" /\ feed'.ticket = t
      BY <2>3, <2>4 DEF IsLive
    <2> HIDE DEF o
    <2>6. QED
      BY <2>3, <2>4, <2>5, ReplacedCosts
  <1>3. CASE Cancel(t)
    <2> DEFINE o == [orders[t] EXCEPT !.cancelled = TRUE]
    <2>1. /\ o \in OrderRecord /\ o.price = orders[t].price /\ o.qty = orders[t].qty
          /\ o.closes = orders[t].closes /\ o.cancelled
      BY <1>1 DEF OrderRecord
    <2>2. /\ orders' = [orders EXCEPT ![t] = o] /\ IsLive(t) /\ feed.pc = "idle"
          /\ feed' = [pc |-> "free", ticket |-> t] /\ UNCHANGED <<ledger, fix>>
      BY <1>3 DEF Cancel
    <2>3. feed'.pc = "free" /\ feed'.ticket = t
      BY <2>2
    <2> HIDE DEF o
    <2>4. QED
      BY <2>1, <2>2, <2>3, ReplacedCosts
  <1>4. QED
    BY <1>2, <1>3

\* A step of the feed thread that may change the account of its own ticket.
LEMMA TicketCosts ==
    ASSUME TypeOK, Places, Costs, UNCHANGED <<orders, fix>>, feed.pc # "idle",
           feed'.pc \notin {"settle", "free"},
           DOMAIN ledger' \subseteq DOMAIN ledger \cup {feed.ticket},
           \A u \in DOMAIN ledger \ {feed.ticket} : ledger'[u].margin = ledger[u].margin,
           Opening(feed.ticket) /\ feed.ticket \in DOMAIN ledger'
              => ledger'[feed.ticket].margin = IF Filled(feed.ticket)
                                               THEN Charged(feed.ticket)
                                               ELSE Frozen(feed.ticket)
    PROVE  Costs'
  <1>1. PICK t : t = feed.ticket
    OBVIOUS
  <1>2. t \in Tickets
    BY <1>1 DEF Places
  <1>3. Tickets' = Tickets
        /\ \A u : /\ Filled(u)' <=> Filled(u)
                  /\ Opening(u)' <=> Opening(u)
                  /\ ~BeingSettled(u)'
                  /\ Charged(u)' = Charged(u) /\ Frozen(u)' = Frozen(u)
    BY DEF Tickets, Filled, Opening, BeingSettled, Charged, Frozen
  <1>4. ASSUME NEW u \in DOMAIN ledger, u # t PROVE MarginIs(u)'
    <2>1. ~BeingSettled(u) /\ ledger'[u].margin = ledger[u].margin
      BY <1>1, <1>4 DEF BeingSettled
    <2>2. QED
      BY <1>3, <2>1 DEF Costs, MarginIs
  <1>5. ASSUME t \in DOMAIN ledger' PROVE MarginIs(t)'
    BY <1>1, <1>2, <1>3, <1>5 DEF MarginIs
  <1>6. ASSUME NEW u \in DOMAIN ledger' PROVE MarginIs(u)'
    BY <1>1, <1>4, <1>5
  <1>7. QED
    BY <1>6 DEF Costs

LEMMA SettleCloseCosts ==
    ASSUME TypeOK, Places, Costs, SettleClose
    PROVE  Costs'
  <1>0. PICK t : t = feed.ticket
    OBVIOUS
  <1>1. PICK o : o = orders[t]
    OBVIOUS
  <1> DEFINE known == o.closes \in DOMAIN ledger
             settled == IF t \in DOMAIN ledger
                        THEN [ledger EXCEPT ![t].equity = o.amount]
                        ELSE Put(t, Account(o.owner, 0, o.amount, o.qty))
  <1>2. /\ feed.pc = "settle" /\ o.closes # NoTicket /\ UNCHANGED <<orders, fix>>
        /\ feed'.pc \notin {"settle", "free"}
    <2>1. feed'.pc \in {"fee", "thrown"}
      BY <1>0, <1>1, AfterSettleIs DEF SettleClose
    <2>2. QED
      BY <1>0, <1>1, <2>1 DEF SettleClose
  <1>3. ledger' = settled \/ (known /\ ledger' = [settled EXCEPT ![o.closes].report = TRUE])
    BY <1>0, <1>1 DEF SettleClose
  <1>4. \A u \in DOMAIN ledger : ledger[u] \in AccountRecord
    BY DEF TypeOK
  <1>5. DOMAIN settled = DOMAIN ledger \cup {t}
        /\ \A u \in DOMAIN ledger \ {t} : settled[u] = ledger[u]
    BY DEF Put
  <1>6. DOMAIN ledger' = DOMAIN ledger \cup {t}
    <2> HIDE DEF settled
    <2>1. QED
      BY <1>3, <1>5
  <1>7. ASSUME NEW u \in DOMAIN ledger \ {t} PROVE ledger'[u].margin = ledger[u].margin
    <2> HIDE DEF settled
    <2>1. settled[u] = ledger[u] /\ ledger[u] \in AccountRecord /\ u \in DOMAIN settled
      BY <1>4, <1>5
    <2>2. [ledger[u] EXCEPT !.report = TRUE].margin = ledger[u].margin
      BY <2>1 DEF AccountRecord
    <2>3. QED
      BY <1>3, <2>1, <2>2
  <1>8. ~Opening(t)
    BY <1>1, <1>2 DEF Opening
  <1>9. QED
    BY <1>0, <1>2, <1>6, <1>7, <1>8, TicketCosts

LEMMA SettleOpenCosts ==
    ASSUME TypeOK, Places, Costs, SettleOpen
    PROVE  Costs'
  <1>0. PICK t : t = feed.ticket
    OBVIOUS
  <1>1. PICK o : o = orders[t]
    OBVIOUS
  <1>2. /\ feed.pc = "settle" /\ o.closes = NoTicket /\ UNCHANGED <<orders, fix>>
        /\ feed'.pc \notin {"settle", "free"} /\ o \in OrderRecord /\ t \in Tickets
    <2>1. feed'.pc \in {"fee", "thrown"}
      BY <1>0, <1>1, AfterSettleIs DEF SettleOpen
    <2>2. QED
      BY <1>0, <1>1, <2>1, AtFeed DEF SettleOpen
  <1>3. CASE t \notin DOMAIN ledger
    <2>1. ledger' = ledger
      BY <1>0, <1>3 DEF SettleOpen
    <2>2. QED
      BY <1>0, <1>2, <1>3, <2>1, TicketCosts
  <1>4. CASE t \in DOMAIN ledger
    <2>0. PICK m : m = ledger[t].margin
      OBVIOUS
    <2>1. ledger[t] \in AccountRecord /\ m \in Nat /\ o.amount \in Nat
      BY <1>2, <1>4, <2>0 DEF TypeOK, AccountRecord, OrderRecord
    <2>2. Opening(t) => m = Frozen(t)
      BY <1>0, <1>2, <1>4, <2>0 DEF Costs, MarginIs, BeingSettled
    <2>3. ASSUME NEW a, ledger' = [ledger EXCEPT ![t] = a],
                 Opening(t) => a.margin = IF Filled(t) THEN Charged(t) ELSE Frozen(t)
          PROVE  Costs'
      <3>1. /\ DOMAIN ledger' = DOMAIN ledger /\ ledger'[t] = a
            /\ \A u \in DOMAIN ledger \ {t} : ledger'[u] = ledger[u]
        BY <1>4, <2>3
      <3>2. QED
        BY <1>0, <1>2, <1>4, <2>3, <3>1, TicketCosts
    <2>4. CASE ~Filled(t) \/ (TifDay /\ o.amount > m)
      <3> DEFINE a == [ledger[t] EXCEPT !.equity = o.amount]
      <3>1. ledger' = [ledger EXCEPT ![t] = a]
        BY <1>0, <1>1, <1>4, <2>0, <2>4 DEF SettleOpen
      <3>2. a.margin = m
        BY <2>0, <2>1 DEF AccountRecord
      <3> HIDE DEF a
      <3>3. Opening(t) => a.margin = IF Filled(t) THEN Charged(t) ELSE Frozen(t)
        BY <1>1, <2>2, <2>4, <3>2 DEF Charged
      <3>4. QED
        BY <2>3, <3>1, <3>3
    <2>5. CASE Filled(t) /\ ~(TifDay /\ o.amount > m)
      <3> DEFINE a == [ledger[t] EXCEPT !.equity = o.amount, !.margin = o.amount]
      <3>1. ledger' = [ledger EXCEPT ![t] = a]
        BY <1>0, <1>1, <1>4, <2>0, <2>5 DEF SettleOpen
      <3>2. a.margin = o.amount
        BY <2>1 DEF AccountRecord
      <3> HIDE DEF a
      <3>3. Opening(t) => a.margin = IF Filled(t) THEN Charged(t) ELSE Frozen(t)
        BY <1>1, <2>2, <2>5, <3>2 DEF Charged
      <3>4. QED
        BY <2>3, <3>1, <3>3
    <2>6. QED
      BY <2>4, <2>5
  <1>5. QED
    BY <1>3, <1>4

LEMMA FreeMarginCosts ==
    ASSUME TypeOK, Places, MoneyParts, Costs, FreeMargin
    PROVE  Costs'
  <1>1. /\ feed.pc = "free" /\ UNCHANGED <<orders, fix>> /\ feed'.pc = "idle"
    BY DEF FreeMargin, Idle
  <1>2. ~Opening(feed.ticket)
    BY <1>1 DEF Costs, Opening
  <1>3. DOMAIN ledger' = DOMAIN ledger
        /\ \A u \in DOMAIN ledger \ {feed.ticket} : ledger'[u].margin = ledger[u].margin
    BY DEF FreeMargin
  <1>4. QED
    BY <1>1, <1>2, <1>3, TicketCosts

LEMMA FixCosts ==
    ASSUME TypeOK, Places, MoneyParts, Costs, FixThread
    PROVE  Costs'
  <1>1. ASSUME NEW s \in Traders, NEW amount \in Deposits, Apply(s, amount)
        PROVE  Costs'
    BY <1>1, CostsStay DEF Apply
  <1>2. ASSUME NEW s \in Traders, NEW p \in Prices, NEW q \in Quantities,
               CheckMargin(s, p, q)
        PROVE  Costs'
    BY <1>2, AccountsArePlaced, CostsStay DEF CheckMargin
  <1>3. CASE MarginTest
    BY <1>3, AccountsArePlaced, CostsStay DEF MarginTest
  <1>4. CASE Margin
    BY <1>4, MarginCosts
  <1>5. CASE ProcessOrder \/ \E t \in Tickets, p \in Prices :
                                \E lots \in 1 .. orders[t].qty : CloseTicket(t, p, lots)
    BY <1>5, OrdersCosts
  <1>6. QED
    BY <1>1, <1>2, <1>3, <1>4, <1>5 DEF FixThread

LEMMA FeedCosts ==
    ASSUME TypeOK, Places, MoneyParts, Costs, FeedThread
    PROVE  Costs'
  <1>1. CASE FeeTest
    <2>1. feed \in FeedStep /\ feed.pc = "fee"
      BY <1>1, AtFeed DEF FeeTest
    <2>2. feed' = Idle \/ feed' = [feed EXCEPT !.pc = "charge"]
      BY <1>1 DEF FeeTest
    <2>3. feed'.pc \notin {"settle", "free"}
      BY <2>1, <2>2 DEF FeedStep, Idle
    <2>4. QED
      BY <1>1, <2>1, <2>3, CostsStay DEF FeeTest
  <1>2. CASE Charge
    BY <1>2, CostsStay DEF Charge, Idle
  <1>3. QED
    BY <1>1, <1>2, TradesCosts, SettleCloseCosts, SettleOpenCosts, FreeMarginCosts
       DEF FeedThread

LEMMA CostsInit == Init => Costs /\ SeenEnough
  BY DEF Init, Costs, SeenEnough, Idle

LEMMA CostsNext ==
    TypeOK /\ Places /\ MoneyParts /\ Costs /\ [Next]_vars => Costs'
  <1> SUFFICES ASSUME TypeOK, Places, MoneyParts, Costs, [Next]_vars PROVE Costs'
    OBVIOUS
  <1>1. CASE Consumer
    BY <1>1, CostsStay DEF Consumer, AddExdrCash
  <1>2. CASE UNCHANGED vars
    BY <1>2, CostsStay DEF vars
  <1>3. QED
    BY <1>1, <1>2, FixCosts, FeedCosts DEF Next

\* An opening order costs what it executed for, whatever lots it is executed in,
\* or what was frozen for it, for any traders, prices and factors.
THEOREM OrdersSettleAtCost == Spec => []SettledAtCost
  <1>1. Init => TypeOK /\ Places /\ MoneyParts /\ Costs
    BY TypeInit, MoneyInit, CostsInit
  <1>2. TypeOK /\ Places /\ MoneyParts /\ Costs /\ [Next]_vars
          => TypeOK' /\ Places' /\ MoneyParts' /\ Costs'
    BY TypeNext, MoneyNext, CostsNext
  <1>3. QED
    BY <1>1, <1>2, CostsImply, PTL DEF Spec

LEMMA SeenNext ==
    TypeOK /\ SeenEnough /\ [Next]_vars => SeenEnough'
  <1> SUFFICES ASSUME TypeOK, SeenEnough, [Next]_vars PROVE SeenEnough'
    OBVIOUS
  <1>1. CASE fix' = fix
    BY <1>1 DEF SeenEnough
  <1>2. ASSUME NEW s \in Traders, NEW p \in Prices, NEW q \in Quantities,
               CheckMargin(s, p, q)
        PROVE  SeenEnough'
    BY <1>2 DEF CheckMargin, SeenEnough
  <1>3. CASE MarginTest
    <2>1. fix \in FixStep
      BY <1>3, AtFix DEF MarginTest
    <2>2. fix'.pc # "margin"
      BY <1>3, <2>1 DEF MarginTest, FixStep
    <2>3. QED
      BY <2>2 DEF SeenEnough
  <1>4. CASE Margin
    <2>1. fix \in FixStep
      BY <1>4, AtFix DEF Margin
    <2>2. fix'.pc # "margin"
      BY <1>4, <2>1 DEF Margin, FixStep
    <2>3. QED
      BY <2>2 DEF SeenEnough
  <1>5. CASE ProcessOrder
    BY <1>5 DEF ProcessOrder, SeenEnough, Idle
  <1>6. fix' = fix \/ (\E s \in Traders, p \in Prices, q \in Quantities : CheckMargin(s, p, q))
        \/ MarginTest \/ Margin \/ ProcessOrder
    BY DEF Next, FixThread, FeedThread, Consumer, Apply, CloseTicket, Execute, Cancel,
           SettleClose, SettleOpen, FeeTest, Charge, FreeMargin, AddExdrCash, vars
  <1>7. QED
    BY <1>1, <1>2, <1>3, <1>4, <1>5, <1>6

\* An order is placed without its margin only if its trader's cash was spent
\* between the two tests, whatever the threads do.
THEOREM UncoveredOrdersAreARace == Spec => UncoveredOnlyInARace
  <1>1. Init => TypeOK /\ Places /\ SeenEnough
    BY TypeInit, CostsInit
  <1>2. TypeOK /\ Places /\ SeenEnough /\ [Next]_vars
          => TypeOK' /\ Places' /\ SeenEnough'
    BY TypeNext, SeenNext
  <1>3. TypeOK /\ SeenEnough
          => [MarginTest /\ fix'.pc = "insert" => cash[fix.owner] < fix.seen]_vars
    <2> SUFFICES ASSUME TypeOK, SeenEnough, MarginTest, fix'.pc = "insert"
                 PROVE  cash[fix.owner] < fix.seen
      OBVIOUS
    <2>1. fix.pc = "margin" /\ fix \in FixStep /\ fix.owner \in Traders
          /\ Equity(fix.price, fix.qty) \in Nat
      BY AtFix DEF MarginTest
    <2>2. cash[fix.owner] < Equity(fix.price, fix.qty)
      BY <2>1 DEF MarginTest, FixStep
    <2>3. fix.seen >= Equity(fix.price, fix.qty) /\ fix.seen \in Int
          /\ cash[fix.owner] \in Int
      BY <2>1 DEF SeenEnough, FixStep, TypeOK
    <2>4. QED
      BY <2>1, <2>2, <2>3
  <1>4. QED
    BY <1>1, <1>2, <1>3, PTL DEF Spec, UncoveredOnlyInARace

-----------------------------------------------------------------------------
(* The dividends of the feed.                                               *)

TradeRows == [stat : {"none", "new", "partly", "filled", "cancelled"},
              stock : Nat, closetck : Nat]

Consumers == [source : {"kafka", "csv"},
              at : {"poll", "batch", "select", "pay", "report", "ended"},
              run : BOOLEAN, left : 0..MaxBatch, seen : Nat, lastTime : Nat,
              tickets : SUBSET Orders, pay : SUBSET Orders,
              node : [ymd : Nat, extype : Nat]]

FeedTyped ==
    /\ consumer \in Consumers
    /\ fabr \in [exrd : Seq(ExDividends), enable_exrd : BOOLEAN, symbol : BOOLEAN,
                 offer_time : BOOLEAN, match_trigger : BOOLEAN]
    /\ base \in [stockinfo : Seq({Own, Other}), exdr : SUBSET (Nat \X ExDividends),
                 trades : [Orders -> TradeRows]]
    /\ deals \in [DOMAIN deals -> {"partly", "filled", "cancelled"}]
    /\ DOMAIN deals \subseteq Orders
    /\ paid \in [Orders -> Seq(ExDividends)] /\ told \in [Orders -> Seq(ExDividends)]
    /\ due \in [DOMAIN due -> SUBSET Orders] /\ DOMAIN due \subseteq ExDividends

OwnRows == {i \in DOMAIN base.stockinfo : base.stockinfo[i] = Own}

OwnRow == NewestOf(Own)

\* The row of the symbol, and whose the rows are that orders name.
FeedRows ==
    /\ OwnRows # {} => OwnRow \in OwnRows /\ \A j \in OwnRows : j <= OwnRow
    /\ fabr.symbol <=> OwnRows # {}
    /\ fabr.offer_time => fabr.symbol
    /\ \A t \in Orders : Trade(t).stat = "none" => Trade(t) = NoRow
    /\ \A t \in Orders : Trade(t).stat # "none" =>
          /\ fabr.offer_time
          /\ \/ Trade(t).stock = OwnRow
             \/ /\ Trade(t).stock \in DOMAIN base.stockinfo
                /\ base.stockinfo[Trade(t).stock] = Other

\* What the table holds under the newest row is what has been counted.
FeedTable ==
    /\ \A x \in base.exdr : x[1] <= Len(base.stockinfo)
    /\ \A d \in ExDividends :
          d \in DOMAIN due <=> fabr.symbol /\ <<OwnRow, d>> \in base.exdr

IsPaid(t, d) == \E i \in DOMAIN paid[t] : paid[t][i] = d

\* Who is paid what, by where the consumer is.
FeedPays ==
    /\ \A d \in DOMAIN due : \A t \in due[d] : Trade(t).stat # "none"
    /\ \A t \in Orders : \A i \in DOMAIN paid[t] :
          /\ paid[t][i] \in DOMAIN due /\ t \in due[paid[t][i]]
          /\ \A j \in DOMAIN paid[t] : paid[t][i] = paid[t][j] => i = j
    /\ \A t \in Orders : paid[t] = IF t \in consumer.tickets \ consumer.pay
                                   THEN Append(told[t], consumer.node) ELSE told[t]
    /\ consumer.at \notin {"pay", "report"} => consumer.tickets = {}
    /\ consumer.at # "pay" => consumer.pay = {}
    /\ consumer.pay \subseteq consumer.tickets
    /\ consumer.tickets # {} => consumer.node \in DOMAIN due
                                /\ consumer.tickets \subseteq due[consumer.node]
    /\ \A t \in consumer.pay : ~IsPaid(t, consumer.node)
    /\ consumer.at \in {"select", "pay", "report"} => consumer.node \in ExDividends
    /\ consumer.at = "select" =>
          /\ consumer.node \in DOMAIN due
          /\ due[consumer.node] = {t \in Orders : Held(t)}
          /\ \A t \in Orders : ~IsPaid(t, consumer.node)

\* Who is not paid, and why.
FeedMisses ==
    \A d \in DOMAIN due : \A t \in due[d] :
        \/ IsPaid(t, d)
        \/ AskedToClose(t)
        \/ base.stockinfo[Trade(t).stock] = Other
        \/ consumer.at = "select" /\ d = consumer.node
        \/ d = consumer.node /\ t \in consumer.pay

DividendsKept == FeedTyped /\ FeedRows /\ FeedTable /\ FeedPays /\ FeedMisses

LEMMA FeedConstants ==
    /\ Orders \subseteq Nat \ {0} /\ Times \subseteq Nat
    /\ ExDividends \subseteq [ymd : Nat, extype : Nat]
    /\ Rows \in Nat \ {0} /\ MaxMessages \in Nat /\ MaxBatch \in Nat \ {0}
  BY FeedAssumption

LEMMA DividendsImply == DividendsKept => DividendsInv
  <1> SUFFICES ASSUME DividendsKept PROVE DividendsInv
    OBVIOUS
  <1>1. FeedTypeOK
    BY DEF FeedTypeOK, DividendsKept, FeedTyped, FeedPays, Consumers
  <1>2. PaidOnce
    BY DEF PaidOnce, DividendsKept, FeedPays
  <1>3. NobodyIsMissed
    BY DEF NobodyIsMissed, DividendsKept, FeedPays, FeedMisses, IsPaid, Stands
  <1>4. ToldAsPaid
    <2>1. SUFFICES ASSUME consumer.at = "poll" PROVE told = paid
      BY DEF ToldAsPaid, Stands
    <2>2. \A t \in Orders : told[t] = paid[t]
      BY <2>1 DEF DividendsKept, FeedPays
    <2>3. QED
      BY <2>2 DEF DividendsKept, FeedTyped
  <1>5. QED
    BY <1>1, <1>2, <1>3, <1>4 DEF DividendsInv

LEMMA DividendsStart == FeedInit => DividendsKept
  <1> SUFFICES ASSUME FeedInit PROVE DividendsKept
    OBVIOUS
  <1>1. PICK source \in {"kafka", "csv"} :
            consumer = [source |-> source, at |-> "poll", run |-> TRUE, left |-> 0,
                        seen |-> 0, lastTime |-> 0, tickets |-> {}, pay |-> {},
                        node |-> [ymd |-> 0, extype |-> 0]]
    BY DEF FeedInit
  <1>2. PICK trigger \in BOOLEAN :
            fabr = [exrd |-> << >>, enable_exrd |-> FALSE, symbol |-> FALSE,
                    offer_time |-> FALSE, match_trigger |-> trigger]
    BY DEF FeedInit
  <1>3. /\ base = [stockinfo |-> << >>, exdr |-> {},
                   trades |-> [t \in Orders |-> NoRow]]
        /\ deals = [t \in {} |-> "part"] /\ due = [d \in {} |-> {}]
        /\ paid = [t \in Orders |-> << >>] /\ told = [t \in Orders |-> << >>]
    BY DEF FeedInit
  <1>4. FeedTyped
    <2>1. consumer \in Consumers
      BY <1>1, FeedConstants DEF Consumers
    <2>2. fabr \in [exrd : Seq(ExDividends), enable_exrd : BOOLEAN, symbol : BOOLEAN,
                 offer_time : BOOLEAN, match_trigger : BOOLEAN]
      BY <1>2
    <2>3. base \in [stockinfo : Seq({Own, Other}),
                    exdr : SUBSET (Nat \X ExDividends),
                    trades : [Orders -> TradeRows]]
      BY <1>3 DEF NoRow, TradeRows
    <2>4. QED
      BY <2>1, <2>2, <2>3, <1>3 DEF FeedTyped
  <1>5. OwnRows = {} /\ \A t \in Orders : Trade(t) = NoRow /\ Trade(t).stat = "none"
    BY <1>3 DEF OwnRows, Trade, NoRow
  <1>6. FeedRows /\ FeedTable
    BY <1>2, <1>3, <1>5 DEF FeedRows, FeedTable
  <1>7. FeedPays /\ FeedMisses
    BY <1>1, <1>3 DEF FeedPays, FeedMisses
  <1>8. QED
    BY <1>4, <1>6, <1>7 DEF DividendsKept

LEMMA OwnRowIs ==
    OwnRow = IF OwnRows = {} THEN 0
             ELSE CHOOSE i \in OwnRows : \A j \in OwnRows : j <= i
  BY DEF OwnRow, OwnRows, NewestOf

LEMMA OwnRowStays ==
    ASSUME OwnRows' = OwnRows
    PROVE  OwnRow' = OwnRow
  <1>1. OwnRow' = IF OwnRows' = {} THEN 0
                  ELSE CHOOSE i \in OwnRows' : \A j \in OwnRows' : j <= i
    BY DEF OwnRow, OwnRows, NewestOf
  <1>2. QED
    BY <1>1, OwnRowIs

\* What the consumer and the traders do that is not about dividends: orders go on,
\* and new ones name the newest row.
KeepsTrades ==
    \A t \in Orders :
        /\ Trade(t).stat # "none" =>
              /\ (Trade(t).stat # "none")'
              /\ Trade(t).stock' = Trade(t).stock
              /\ Trade(t).closetck' = Trade(t).closetck
        /\ Trade(t).stat = "none" =>
              \/ Trade(t)' = Trade(t)
              \/ /\ fabr.offer_time /\ (Trade(t).stat # "none")'
                 /\ Trade(t).stock' = Newest

KeepsAsking ==
    /\ consumer'.tickets = consumer.tickets /\ consumer'.pay = consumer.pay
    /\ consumer'.node = consumer.node
    /\ \/ consumer'.at = consumer.at
       \/ {consumer.at, consumer'.at} \subseteq {"poll", "batch", "ended"}
    /\ consumer.at = "select" => \A t \in Orders : Held(t)' <=> Held(t)

LEMMA AskedStays ==
    ASSUME FeedRows, KeepsTrades, NEW t \in Orders, AskedToClose(t)
    PROVE  AskedToClose(t)'
  <1>1. PICK u \in Orders : Trade(u).closetck = t
    BY DEF AskedToClose
  <1>2. t # 0
    BY FeedConstants
  <1>3. Trade(u).stat # "none"
    BY <1>1, <1>2 DEF FeedRows, NoRow
  <1>4. Trade(u).closetck' = t
    BY <1>1, <1>3 DEF KeepsTrades
  <1>5. QED
    BY <1>4 DEF AskedToClose

LEMMA FeedQuiet ==
    ASSUME DividendsKept, FeedTyped', KeepsTrades, KeepsAsking,
           UNCHANGED <<fabr, paid, told, due>>,
           base'.stockinfo = base.stockinfo, base'.exdr = base.exdr
    PROVE  DividendsKept'
  <1>1. OwnRows' = OwnRows
    BY DEF OwnRows
  <1>2. OwnRow' = OwnRow
    BY <1>1, OwnRowStays
  <1>3. FeedRows'
    <2>1. ASSUME NEW t \in Orders, (Trade(t).stat = "none")'
          PROVE  (Trade(t) = NoRow)'
      <3>1. Trade(t).stat = "none" /\ Trade(t)' = Trade(t)
        BY <2>1 DEF KeepsTrades
      <3>2. QED
        BY <3>1 DEF DividendsKept, FeedRows, NoRow
    <2>2. ASSUME NEW t \in Orders, (Trade(t).stat # "none")'
          PROVE  /\ fabr'.offer_time
                 /\ \/ Trade(t).stock' = OwnRow'
                    \/ /\ Trade(t).stock' \in DOMAIN base'.stockinfo
                       /\ base'.stockinfo[Trade(t).stock'] = Other
      <3>1. CASE Trade(t).stat # "none"
        BY <3>1, <1>2 DEF DividendsKept, FeedRows, KeepsTrades
      <3>2. CASE Trade(t).stat = "none"
        <4>1. fabr.offer_time /\ Trade(t).stock' = Len(base.stockinfo)
          BY <2>2, <3>2 DEF KeepsTrades, Newest
        <4>2. OwnRow \in OwnRows /\ \A j \in OwnRows : j <= OwnRow
          BY <4>1 DEF DividendsKept, FeedRows
        <4>3. OwnRow \in 1..Len(base.stockinfo) /\ Len(base.stockinfo) \in Nat
              /\ \A j \in 1..Len(base.stockinfo) : base.stockinfo[j] \in {Own, Other}
          BY <4>2 DEF OwnRows, DividendsKept, FeedTyped
        <4>4. CASE base.stockinfo[Len(base.stockinfo)] = Other
          BY <4>1, <4>3, <4>4 DEF DividendsKept, FeedTyped
        <4>5. CASE base.stockinfo[Len(base.stockinfo)] = Own
          <5>1. Len(base.stockinfo) \in OwnRows
            BY <4>3, <4>5 DEF OwnRows, DividendsKept, FeedTyped
          <5>2. Len(base.stockinfo) = OwnRow
            BY <5>1, <4>2, <4>3
          <5>3. QED
            BY <5>2, <4>1, <1>2
        <4>6. QED
          BY <4>3, <4>4, <4>5
      <3>3. QED
        BY <3>1, <3>2
    <2>3. (OwnRows # {} => OwnRow \in OwnRows /\ \A j \in OwnRows : j <= OwnRow)'
      BY <1>1, <1>2 DEF DividendsKept, FeedRows
    <2>4. (fabr.symbol <=> OwnRows # {})' /\ (fabr.offer_time => fabr.symbol)'
      BY <1>1 DEF DividendsKept, FeedRows
    <2>5. QED
      BY <2>1, <2>2, <2>3, <2>4 DEF FeedRows
  <1>4. FeedTable'
    BY <1>2 DEF DividendsKept, FeedTable
  <1>5. \A t \in Orders : \A d : IsPaid(t, d)' <=> IsPaid(t, d)
    BY DEF IsPaid
  <1>6. FeedPays'
    <2>1. (\A d \in DOMAIN due : \A t \in due[d] : Trade(t).stat # "none")'
      BY DEF DividendsKept, FeedTyped, FeedPays, KeepsTrades
    <2>2. (consumer.at = "select" =>
             /\ consumer.node \in DOMAIN due
             /\ due[consumer.node] = {t \in Orders : Held(t)}
             /\ \A t \in Orders : ~IsPaid(t, consumer.node))'
      <3>1. SUFFICES ASSUME consumer'.at = "select"
                     PROVE  /\ consumer'.node \in DOMAIN due'
                            /\ due'[consumer'.node] = {t \in Orders : Held(t)'}
                            /\ \A t \in Orders : ~IsPaid(t, consumer.node)'
        OBVIOUS
      <3>2. consumer.at = "select" /\ consumer'.node = consumer.node
        BY <3>1 DEF KeepsAsking
      <3>3. \A t \in Orders : Held(t)' <=> Held(t)
        BY <3>2 DEF KeepsAsking
      <3>4. {t \in Orders : Held(t)'} = {t \in Orders : Held(t)}
        BY <3>3
      <3>5. \A t \in Orders : IsPaid(t, consumer.node)' <=> IsPaid(t, consumer.node)
        BY <3>2 DEF IsPaid
      <3>6. QED
        BY <3>2, <3>4, <3>5 DEF DividendsKept, FeedPays
    <2>3. (\A t \in consumer.pay : ~IsPaid(t, consumer.node))'
      BY DEF DividendsKept, FeedPays, KeepsAsking, IsPaid
    <2>4. /\ (consumer.at \notin {"pay", "report"} => consumer.tickets = {})'
          /\ (consumer.at # "pay" => consumer.pay = {})'
          /\ (consumer.at \in {"select", "pay", "report"} =>
                 consumer.node \in ExDividends)'
      BY DEF DividendsKept, FeedPays, KeepsAsking
    <2>5. /\ (\A t \in Orders : \A i \in DOMAIN paid[t] :
                /\ paid[t][i] \in DOMAIN due /\ t \in due[paid[t][i]]
                /\ \A j \in DOMAIN paid[t] : paid[t][i] = paid[t][j] => i = j)'
          /\ (\A t \in Orders : paid[t] = IF t \in consumer.tickets \ consumer.pay
                                   THEN Append(told[t], consumer.node) ELSE told[t])'
          /\ (consumer.pay \subseteq consumer.tickets)'
          /\ (consumer.tickets # {} => consumer.node \in DOMAIN due
                                /\ consumer.tickets \subseteq due[consumer.node])'
      BY DEF DividendsKept, FeedPays, KeepsAsking
    <2>6. QED
      BY <2>1, <2>2, <2>3, <2>4, <2>5 DEF FeedPays
  <1>7. FeedMisses'
    <2>1. SUFFICES ASSUME NEW d \in DOMAIN due, NEW t \in due[d]
                   PROVE  \/ IsPaid(t, d)'
                          \/ AskedToClose(t)'
                          \/ base'.stockinfo[Trade(t).stock'] = Other
                          \/ consumer'.at = "select" /\ d = consumer'.node
                          \/ d = consumer'.node /\ t \in consumer'.pay
      BY DEF FeedMisses
    <2>2. t \in Orders /\ Trade(t).stat # "none"
      BY DEF DividendsKept, FeedTyped, FeedPays
    <2>3. Trade(t).stock' = Trade(t).stock
      BY <2>2 DEF KeepsTrades
    <2>4. AskedToClose(t) => AskedToClose(t)'
      BY <2>2, AskedStays DEF DividendsKept
    <2>5. consumer.at = "select" => consumer'.at = "select"
      BY DEF KeepsAsking
    <2>6. QED
      BY <2>2, <2>3, <2>4, <2>5, <1>5 DEF DividendsKept, FeedMisses, KeepsAsking
  <1>8. QED
    BY <1>3, <1>4, <1>6, <1>7 DEF DividendsKept

-----------------------------------------------------------------------------
(* What is not about dividends. *)

LEMMA MessageTaken ==
    ASSUME FeedTyped, Message
    PROVE  /\ OneTaken(consumer) \in Consumers /\ consumer.at = "batch"
           /\ OneTaken(consumer).at = "batch" /\ OneTaken(consumer).node = consumer.node
           /\ OneTaken(consumer).tickets = consumer.tickets
           /\ OneTaken(consumer).pay = consumer.pay
           /\ OneTaken(consumer).lastTime = consumer.lastTime
  <1>1. consumer.at = "batch" /\ consumer.left - 1 \in 0..MaxBatch
    BY FeedConstants DEF Message, Stands, FeedTyped, Consumers
  <1>2. OneTaken(consumer) = [consumer EXCEPT !.left = consumer.left - 1]
    BY DEF OneTaken
  <1>3. QED
    BY <1>1, <1>2 DEF FeedTyped, Consumers

\* Only the consumer goes on, with a message that says nothing of dividends.
ConsumerGoes ==
    /\ consumer' \in Consumers
    /\ {consumer.at, consumer'.at} \subseteq {"poll", "batch", "ended"}
    /\ consumer'.tickets = consumer.tickets /\ consumer'.pay = consumer.pay
    /\ consumer'.node = consumer.node

LEMMA ConsumerOnly ==
    ASSUME DividendsKept, ConsumerGoes, UNCHANGED <<fabr, base, deals, paid, told, due>>
    PROVE  DividendsKept'
  <1>1. FeedTyped'
    BY DEF DividendsKept, FeedTyped, ConsumerGoes
  <1>2. KeepsTrades
    BY DEF KeepsTrades, Trade
  <1>3. KeepsAsking
    BY DEF KeepsAsking, ConsumerGoes
  <1>4. QED
    BY <1>1, <1>2, <1>3, FeedQuiet

LEMMA CallbackGoes ==
    ASSUME FeedTyped, ConsumeCallback \/ Poll \/ ExitOrder \/ Line
    PROVE  ConsumerGoes
  <1>1. CASE ConsumeCallback
    <2>1. CASE consumer.run
      <3>1. PICK n \in 0..MaxBatch :
                consumer' = [consumer EXCEPT !.at = "batch", !.left = n,
                                             !.seen = consumer.seen + n]
        BY <1>1, <2>1 DEF ConsumeCallback
      <3>2. consumer.at = "poll"
        BY <1>1 DEF ConsumeCallback, Stands
      <3>3. n \in Nat /\ n \in 0..MaxBatch
        BY FeedConstants
      <3>4. consumer \in Consumers /\ consumer.seen + n \in Nat
        BY <3>3 DEF FeedTyped, Consumers
      <3>5. QED
        BY <3>1, <3>2, <3>3, <3>4 DEF ConsumerGoes, Consumers
    <2>2. CASE ~consumer.run
      <3>1. consumer.at = "poll" /\ consumer' = [consumer EXCEPT !.at = "ended"]
        BY <1>1, <2>2 DEF ConsumeCallback, Stands, Goes
      <3>2. QED
        BY <3>1 DEF ConsumerGoes, FeedTyped, Consumers
    <2>3. QED
      BY <2>1, <2>2 DEF FeedTyped, Consumers
  <1>2. CASE Poll
    <2>1. \/ consumer.at = "batch" /\ consumer' = [consumer EXCEPT !.at = "poll"]
          \/ consumer.at = "poll" /\ consumer' = [consumer EXCEPT !.run = FALSE]
      BY <1>2 DEF Poll, Stands, Goes
    <2>2. CASE consumer.at = "batch" /\ consumer' = [consumer EXCEPT !.at = "poll"]
      BY <2>2 DEF ConsumerGoes, FeedTyped, Consumers
    <2>3. CASE consumer.at = "poll" /\ consumer' = [consumer EXCEPT !.run = FALSE]
      BY <2>3 DEF ConsumerGoes, FeedTyped, Consumers
    <2>4. QED
      BY <2>1, <2>2, <2>3
  <1>3. CASE ExitOrder
    <2>1. consumer' = [OneTaken(consumer) EXCEPT !.run = FALSE] /\ Message
      BY <1>3 DEF ExitOrder
    <2>2. QED
      BY <2>1, MessageTaken DEF ConsumerGoes, Consumers
  <1>4. CASE Line
    <2>1. CASE consumer' = [consumer EXCEPT !.seen = consumer.seen + 1]
      <3>1. consumer.seen + 1 \in Nat /\ consumer.at = "poll"
        BY <1>4 DEF Line, Stands, FeedTyped, Consumers
      <3>2. QED
        BY <2>1, <3>1 DEF ConsumerGoes, FeedTyped, Consumers
    <2>2. CASE consumer' = [consumer EXCEPT !.at = "ended"]
      BY <1>4, <2>2 DEF Line, Stands, ConsumerGoes, FeedTyped, Consumers
    <2>3. QED
      BY <1>4, <2>1, <2>2 DEF Line, Goes
  <1>5. QED
    BY <1>1, <1>2, <1>3, <1>4

LEMMA CallbackKeeps ==
    ASSUME DividendsKept, ConsumeCallback \/ Poll \/ ExitOrder \/ Line
    PROVE  DividendsKept'
  <1>1. ConsumerGoes
    BY CallbackGoes DEF DividendsKept
  <1>2. UNCHANGED <<fabr, base, deals, paid, told, due>>
    BY DEF ConsumeCallback, Poll, ExitOrder, Line
  <1>3. QED
    BY <1>1, <1>2, ConsumerOnly

\* Only the rows of some orders change, and the consumer goes on or stays.
LEMMA TradesOnly ==
    ASSUME DividendsKept, NEW tr \in [Orders -> TradeRows],
           base' = [base EXCEPT !.trades = tr], KeepsTrades,
           \/ /\ consumer' = consumer
              /\ consumer.at = "select" => \A t \in Orders : Held(t)' <=> Held(t)
           \/ ConsumerGoes,
           UNCHANGED <<fabr, paid, told, due>>,
           deals' \in [DOMAIN deals' -> {"partly", "filled", "cancelled"}],
           DOMAIN deals' \subseteq Orders
    PROVE  DividendsKept'
  <1>1. /\ base'.stockinfo = base.stockinfo /\ base'.exdr = base.exdr
        /\ base' \in [stockinfo : Seq({Own, Other}), exdr : SUBSET (Nat \X ExDividends),
                      trades : [Orders -> TradeRows]]
    BY DEF DividendsKept, FeedTyped
  <1>2. consumer' \in Consumers
    BY DEF ConsumerGoes, DividendsKept, FeedTyped
  <1>3. FeedTyped'
    BY <1>1, <1>2 DEF DividendsKept, FeedTyped
  <1>4. KeepsAsking
    BY DEF KeepsAsking, ConsumerGoes
  <1>5. QED
    BY <1>1, <1>3, <1>4, FeedQuiet

\* Orders that execute stay on their rows.
LEMMA ExecutedRows ==
    ASSUME FeedTyped, NEW ts \in SUBSET Orders,
           NEW stat \in {"partly", "filled", "cancelled"}, Traded(ts, stat),
           \A t \in ts : Trade(t).stat # "none"
    PROVE  /\ \E tr \in [Orders -> TradeRows] : base' = [base EXCEPT !.trades = tr]
           /\ KeepsTrades
  <1> DEFINE tr == [t \in Orders |->
                      IF t \in ts THEN [Trade(t) EXCEPT !.stat = stat] ELSE Trade(t)]
  <1>1. base' = [base EXCEPT !.trades = tr]
    BY DEF Traded
  <1>2. \A t \in Orders : Trade(t) \in TradeRows
    BY DEF FeedTyped, Trade
  <1>3. \A t \in Orders : tr[t] \in TradeRows
    BY <1>2 DEF TradeRows
  <1>4. tr \in [Orders -> TradeRows]
    BY <1>3
  <1>5. \A t \in Orders : tr[t] = IF t \in ts THEN [Trade(t) EXCEPT !.stat = stat]
                                  ELSE Trade(t)
    OBVIOUS
  <1> HIDE DEF tr
  <1>6. \A t \in Orders : Trade(t)' = tr[t]
    BY <1>1 DEF Trade, FeedTyped
  <1>7. KeepsTrades
    BY <1>2, <1>5, <1>6 DEF KeepsTrades, TradeRows
  <1>8. QED
    BY <1>1, <1>4, <1>7

LEMMA TicketMsgKeeps ==
    ASSUME DividendsKept, NEW time \in Times, TicketMsg(time)
    PROVE  DividendsKept'
  <1>0. FeedTyped /\ Message /\ UNCHANGED <<fabr, deals, paid, told, due>>
    BY DEF DividendsKept, TicketMsg
  <1>1. CASE consumer' = OneTaken(consumer) /\ UNCHANGED base
    <2>1. ConsumerGoes
      BY <1>0, <1>1, MessageTaken DEF ConsumerGoes
    <2>2. QED
      BY <1>0, <1>1, <2>1, ConsumerOnly
  <1>2. CASE /\ consumer' = [OneTaken(consumer) EXCEPT !.lastTime = time]
             /\ \E ts \in IF fabr.match_trigger THEN {{}} ELSE SUBSET Booked,
                   stat \in {"partly", "filled"} : Traded(ts, stat)
    <2>1. PICK ts \in SUBSET Booked, stat \in {"partly", "filled"} : Traded(ts, stat)
      BY <1>2
    <2>2. ConsumerGoes
      BY <1>0, <1>2, MessageTaken, FeedConstants DEF ConsumerGoes, Consumers
    <2>3. ts \in SUBSET Orders /\ \A t \in ts : Trade(t).stat # "none"
      BY DEF Booked
    <2>4. /\ \E tr \in [Orders -> TradeRows] : base' = [base EXCEPT !.trades = tr]
          /\ KeepsTrades
      BY <1>0, <2>1, <2>3, ExecutedRows
    <2>5. PICK tr \in [Orders -> TradeRows] : base' = [base EXCEPT !.trades = tr]
      BY <2>4
    <2>6. /\ deals' \in [DOMAIN deals' -> {"partly", "filled", "cancelled"}]
          /\ DOMAIN deals' \subseteq Orders
      BY <1>0 DEF FeedTyped
    <2>7. QED
      BY <1>0, <2>2, <2>4, <2>5, <2>6, TradesOnly
  <1>3. QED
    BY <1>1, <1>2 DEF TicketMsg

LEMMA DealMatchMsgKeeps ==
    ASSUME DividendsKept, NEW t \in Orders,
           NEW qty \in {"partly", "filled", "cancelled"}, DealMatchMsg(t, qty)
    PROVE  DividendsKept'
  <1> DEFINE asked == IF t \in DOMAIN deals THEN deals
                      ELSE [u \in DOMAIN deals \cup {t} |->
                               IF u = t THEN qty ELSE deals[u]]
             first == CHOOSE u \in DOMAIN asked : \A v \in DOMAIN asked : u <= v
  <1>0. /\ FeedTyped /\ Message /\ consumer' = OneTaken(consumer)
        /\ UNCHANGED <<fabr, paid, told, due>>
    BY DEF DividendsKept, DealMatchMsg
  <1>1. /\ asked \in [DOMAIN asked -> {"partly", "filled", "cancelled"}]
        /\ DOMAIN asked \subseteq Orders /\ t \in DOMAIN asked
    BY <1>0 DEF FeedTyped
  <1>2. ConsumerGoes
    BY <1>0, MessageTaken DEF ConsumerGoes
  <1>3. \/ deals' = asked /\ UNCHANGED base
        \/ /\ deals' = [u \in DOMAIN asked \ {first} |-> asked[u]]
           /\ Traded(Booked \cap {first}, asked[first])
    BY DEF DealMatchMsg
  <1>4. first \in DOMAIN asked
    <2> HIDE DEF asked
    <2> DEFINE low == {u \in DOMAIN asked : u <= t}
    <2>1. low \subseteq 0..t /\ low \subseteq Int /\ t \in low /\ t \in Nat
      BY <1>1, FeedConstants
    <2>2. IsFiniteSet(low)
      BY <2>1, FS_Interval, FS_Subset, 0 \in Int
    <2>3. PICK u \in low : \A v \in low : u <= v
      BY <2>1, <2>2, LeastOfIntegers
    <2>4. \A v \in DOMAIN asked : u <= v
      BY <1>1, <2>1, <2>3, FeedConstants
    <2>5. QED
      BY <2>3, <2>4
  <1> HIDE DEF asked, first
  <1>5. CASE deals' = asked /\ UNCHANGED base
    <2>1. FeedTyped'
      BY <1>0, <1>1, <1>2, <1>5 DEF FeedTyped, ConsumerGoes
    <2>2. KeepsTrades
      BY <1>5 DEF KeepsTrades, Trade
    <2>3. KeepsAsking
      BY <1>2 DEF KeepsAsking, ConsumerGoes
    <2>4. QED
      BY <1>0, <1>5, <2>1, <2>2, <2>3, FeedQuiet
  <1>6. CASE /\ deals' = [u \in DOMAIN asked \ {first} |-> asked[u]]
             /\ Traded(Booked \cap {first}, asked[first])
    <2>1. asked[first] \in {"partly", "filled", "cancelled"}
      BY <1>1, <1>4
    <2>2. /\ Booked \cap {first} \in SUBSET Orders
          /\ \A u \in Booked \cap {first} : Trade(u).stat # "none"
      BY DEF Booked
    <2>3. /\ \E tr \in [Orders -> TradeRows] : base' = [base EXCEPT !.trades = tr]
          /\ KeepsTrades
      BY <1>0, <1>6, <2>1, <2>2, ExecutedRows
    <2>4. PICK tr \in [Orders -> TradeRows] : base' = [base EXCEPT !.trades = tr]
      BY <2>3
    <2>5. /\ deals' \in [DOMAIN deals' -> {"partly", "filled", "cancelled"}]
          /\ DOMAIN deals' \subseteq Orders
      BY <1>1, <1>6
    <2>6. QED
      BY <1>0, <1>2, <2>3, <2>4, <2>5, TradesOnly
  <1>7. QED
    BY <1>3, <1>5, <1>6

LEMMA OrdersKeep ==
    ASSUME DividendsKept, NEW t \in Orders, InsertOrder(t) \/ CancelOrder(t)
    PROVE  DividendsKept'
  <1>0. FeedTyped /\ UNCHANGED <<consumer, fabr, deals, paid, told, due>>
    BY DEF DividendsKept, InsertOrder, CancelOrder
  <1>1. \E row \in TradeRows :
            /\ base' = [base EXCEPT !.trades[t] = row]
            /\ \/ /\ Trade(t).stat = "none" /\ fabr.offer_time
                  /\ row.stat = "new" /\ row.stock = Newest
               \/ /\ Trade(t).stat = "new" /\ row = [Trade(t) EXCEPT !.stat = "cancelled"]
    <2>1. CASE InsertOrder(t)
      <3>1. PICK c \in {0} \cup {u \in Orders : Held(u)} :
                base' = [base EXCEPT !.trades[t] =
                            [stat |-> "new", stock |-> Newest, closetck |-> c]]
        BY <2>1 DEF InsertOrder
      <3>2. Newest \in Nat /\ c \in Nat
        BY <1>0, FeedConstants DEF Newest, FeedTyped
      <3>3. [stat |-> "new", stock |-> Newest, closetck |-> c] \in TradeRows
        BY <3>2 DEF TradeRows
      <3>4. QED
        BY <2>1, <3>1, <3>3 DEF InsertOrder
    <2>2. CASE CancelOrder(t)
      <3>1. Trade(t) \in TradeRows /\ Trade(t) = base.trades[t]
        BY <1>0 DEF FeedTyped, Trade
      <3>2. base' = [base EXCEPT !.trades[t] = [base.trades[t] EXCEPT !.stat = "cancelled"]]
        BY <2>2, <3>1, <1>0 DEF CancelOrder, FeedTyped, TradeRows
      <3>3. [Trade(t) EXCEPT !.stat = "cancelled"] \in TradeRows
        BY <3>1 DEF TradeRows
      <3>4. QED
        BY <2>2, <3>1, <3>2, <3>3 DEF CancelOrder
    <2>3. QED
      BY <2>1, <2>2
  <1>2. PICK row \in TradeRows :
            /\ base' = [base EXCEPT !.trades[t] = row]
            /\ \/ /\ Trade(t).stat = "none" /\ fabr.offer_time
                  /\ row.stat = "new" /\ row.stock = Newest
               \/ /\ Trade(t).stat = "new" /\ row = [Trade(t) EXCEPT !.stat = "cancelled"]
    BY <1>1
  <1> DEFINE tr == [base.trades EXCEPT ![t] = row]
  <1>3. base' = [base EXCEPT !.trades = tr] /\ tr \in [Orders -> TradeRows]
    BY <1>0, <1>2 DEF FeedTyped
  <1>4. \A u \in Orders : Trade(u)' = IF u = t THEN row ELSE Trade(u)
    BY <1>0, <1>2 DEF FeedTyped, Trade
  <1>5. Trade(t) \in TradeRows
    BY <1>0 DEF FeedTyped, Trade
  <1>6. KeepsTrades
    BY <1>2, <1>4, <1>5 DEF KeepsTrades, TradeRows
  <1>7. \A u \in Orders : Held(u)' <=> Held(u)
    BY <1>2, <1>4, <1>5 DEF Held, TradeRows
  <1>8. /\ deals' \in [DOMAIN deals' -> {"partly", "filled", "cancelled"}]
        /\ DOMAIN deals' \subseteq Orders
    BY <1>0 DEF FeedTyped
  <1> HIDE DEF tr
  <1>9. QED
    BY <1>0, <1>3, <1>6, <1>7, <1>8, TradesOnly

-----------------------------------------------------------------------------
(* Rows of the symbol. *)

LEMMA OwnRowIn ==
    ASSUME FeedTyped, FeedRows
    PROVE  /\ OwnRows = {} => OwnRow = 0
           /\ OwnRows # {} => OwnRow \in 1..Len(base.stockinfo)
           /\ Len(base.stockinfo) \in Nat
           /\ DOMAIN base.stockinfo = 1..Len(base.stockinfo)
  <1>1. base.stockinfo \in Seq({Own, Other})
    BY DEF FeedTyped
  <1>2. /\ Len(base.stockinfo) \in Nat
        /\ DOMAIN base.stockinfo = 1..Len(base.stockinfo)
    BY <1>1
  <1>3. OwnRows = {} => OwnRow = 0
    BY OwnRowIs
  <1>4. OwnRows # {} => OwnRow \in DOMAIN base.stockinfo
    BY DEF FeedRows, OwnRows
  <1>5. QED
    BY <1>2, <1>3, <1>4

\* Before the opening nobody has an order, so that nobody is owed anything.
LEMMA BeforeOpening ==
    ASSUME DividendsKept, ~fabr.offer_time
    PROVE  /\ \A t \in Orders : Trade(t) = NoRow
           /\ \A t \in Orders : DOMAIN paid[t] = {}
  <1>1. \A t \in Orders : Trade(t).stat = "none" /\ Trade(t) = NoRow
    BY DEF DividendsKept, FeedRows
  <1>2. \A d \in DOMAIN due : due[d] \subseteq Orders
    BY DEF DividendsKept, FeedTyped
  <1>3. \A d \in DOMAIN due : due[d] = {}
    BY <1>1, <1>2 DEF DividendsKept, FeedPays
  <1>4. \A t \in Orders : \A i \in DOMAIN paid[t] : FALSE
    BY <1>3 DEF DividendsKept, FeedPays
  <1>5. QED
    BY <1>1, <1>4

LEMMA EnteredRow ==
    ASSUME FeedTyped, base' = [base EXCEPT !.stockinfo = Append(base.stockinfo, Own)]
    PROVE  /\ OwnRow' = Len(base.stockinfo) + 1
           /\ OwnRow' \in OwnRows' /\ \A j \in OwnRows' : j <= OwnRow'
           /\ base'.stockinfo = Append(base.stockinfo, Own)
           /\ base'.exdr = base.exdr /\ base'.trades = base.trades
  <1> DEFINE L == Len(base.stockinfo)
  <1>1. /\ base'.stockinfo = Append(base.stockinfo, Own)
        /\ base'.exdr = base.exdr /\ base'.trades = base.trades
    BY DEF FeedTyped
  <1>2. base.stockinfo \in Seq({Own, Other}) /\ L \in Nat
    BY DEF FeedTyped
  <1>3. DOMAIN base'.stockinfo = 1..L + 1 /\ base'.stockinfo[L + 1] = Own
    BY <1>1, <1>2
  <1>4. L + 1 \in OwnRows' /\ \A j \in OwnRows' : j <= L + 1 /\ j \in Nat
    BY <1>2, <1>3 DEF OwnRows
  <1>5. OwnRow' = IF OwnRows' = {} THEN 0
                  ELSE CHOOSE i \in OwnRows' : \A j \in OwnRows' : j <= i
    BY DEF OwnRow, OwnRows, NewestOf
  <1>6. OwnRow' \in OwnRows' /\ \A j \in OwnRows' : j <= OwnRow'
    BY <1>4, <1>5
  <1>7. OwnRow' = L + 1
    BY <1>2, <1>4, <1>6
  <1>8. QED
    BY <1>1, <1>6, <1>7

LEMMA SymbolInitKeeps ==
    ASSUME DividendsKept, SymbolInit
    PROVE  DividendsKept'
  <1>0. /\ FeedTyped /\ FeedRows /\ FeedTable /\ FeedPays /\ Message
        /\ consumer' = OneTaken(consumer) /\ UNCHANGED <<deals, paid, told>>
    BY DEF DividendsKept, SymbolInit
  <1>1. ConsumerGoes
    BY <1>0, MessageTaken DEF ConsumerGoes
  <1>2. CASE fabr.offer_time
    <2>1. UNCHANGED <<fabr, base, due>>
      BY <1>2 DEF SymbolInit
    <2>2. QED
      BY <1>0, <1>1, <2>1, ConsumerOnly
  <1>3. CASE ~fabr.offer_time
    <2>1. /\ due' = [d \in {} |-> {}]
          /\ base' = [base EXCEPT !.stockinfo = Append(base.stockinfo, Own)]
      BY <1>3 DEF SymbolInit
    <2>2. PICK pull \in BOOLEAN :
              fabr' = [fabr EXCEPT !.symbol = TRUE, !.offer_time = pull]
      BY <1>3 DEF SymbolInit
    <2>3. /\ OwnRow' = Len(base.stockinfo) + 1
          /\ OwnRow' \in OwnRows' /\ \A j \in OwnRows' : j <= OwnRow'
          /\ base'.stockinfo = Append(base.stockinfo, Own)
          /\ base'.exdr = base.exdr /\ base'.trades = base.trades
      BY <1>0, <2>1, EnteredRow
    <2>4. /\ \A t \in Orders : Trade(t) = NoRow /\ Trade(t)' = NoRow
          /\ \A t \in Orders : DOMAIN paid[t] = {}
      BY <1>3, <2>3, BeforeOpening DEF Trade
    <2>5. fabr' \in [exrd : Seq(ExDividends), enable_exrd : BOOLEAN, symbol : BOOLEAN,
                     offer_time : BOOLEAN, match_trigger : BOOLEAN] /\ fabr'.symbol
      BY <1>0, <2>2 DEF FeedTyped
    <2>6. base' \in [stockinfo : Seq({Own, Other}),
                     exdr : SUBSET (Nat \X ExDividends),
                     trades : [Orders -> TradeRows]]
      <3>1. Append(base.stockinfo, Own) \in Seq({Own, Other})
        BY <1>0 DEF FeedTyped
      <3>2. QED
        BY <1>0, <2>1, <3>1 DEF FeedTyped
    <2>7. FeedTyped'
      BY <1>0, <1>1, <2>1, <2>5, <2>6 DEF FeedTyped, ConsumerGoes
    <2>8. FeedRows'
      BY <2>3, <2>4, <2>5 DEF FeedRows, NoRow
    <2>9. FeedTable'
      <3>1. Len(base.stockinfo) \in Nat
            /\ Len(base'.stockinfo) = Len(base.stockinfo) + 1
        BY <1>0, <2>3 DEF FeedTyped
      <3>2. \A x \in base.exdr : x[1] \in Nat /\ x[1] <= Len(base.stockinfo)
        BY <1>0 DEF FeedTyped, FeedTable
      <3>3. \A d : <<OwnRow', d>> \notin base.exdr
        BY <2>3, <3>1, <3>2
      <3>4. QED
        BY <2>1, <2>3, <3>1, <3>2, <3>3 DEF FeedTable
    <2>10. FeedPays'
      <3>1. consumer.tickets = {} /\ consumer.pay = {}
        BY <1>0, MessageTaken DEF FeedPays
      <3>2. consumer'.at = "batch" /\ consumer'.tickets = {} /\ consumer'.pay = {}
        BY <1>0, <3>1, MessageTaken
      <3>3. \A t \in Orders : paid'[t] = told'[t]
        BY <1>0, <3>1 DEF FeedPays
      <3>4. QED
        BY <1>0, <2>1, <2>4, <3>2, <3>3 DEF FeedPays
    <2>11. FeedMisses'
      BY <2>1 DEF FeedMisses
    <2>12. QED
      BY <2>7, <2>8, <2>9, <2>10, <2>11 DEF DividendsKept
  <1>4. QED
    BY <1>2, <1>3

LEMMA OtherProcessKeeps ==
    ASSUME DividendsKept, OtherProcess
    PROVE  DividendsKept'
  <1> DEFINE L == Len(base.stockinfo)
  <1>0. /\ FeedTyped /\ FeedRows /\ FeedTable /\ FeedPays /\ FeedMisses
        /\ base' = [base EXCEPT !.stockinfo = Append(base.stockinfo, Other)]
        /\ UNCHANGED <<consumer, fabr, deals, paid, told, due>>
    BY DEF DividendsKept, OtherProcess
  <1>1. /\ base'.stockinfo = Append(base.stockinfo, Other)
        /\ base'.exdr = base.exdr /\ base'.trades = base.trades
    BY <1>0 DEF FeedTyped
  <1>2. base.stockinfo \in Seq({Own, Other}) /\ L \in Nat
    BY <1>0 DEF FeedTyped
  <1>3. /\ DOMAIN base'.stockinfo = 1..L + 1 /\ base'.stockinfo[L + 1] = Other
        /\ Len(base'.stockinfo) = L + 1 /\ DOMAIN base.stockinfo = 1..L
        /\ \A i \in 1..L : base'.stockinfo[i] = base.stockinfo[i]
    BY <1>1, <1>2
  <1>4. OwnRows' = OwnRows
    BY <1>2, <1>3 DEF OwnRows, Own, Other
  <1>5. OwnRow' = OwnRow
    BY <1>4, OwnRowStays
  <1>6. \A t \in Orders : Trade(t)' = Trade(t)
    BY <1>1 DEF Trade
  <1>7. FeedTyped'
    <2>1. base' \in [stockinfo : Seq({Own, Other}),
                     exdr : SUBSET (Nat \X ExDividends),
                     trades : [Orders -> TradeRows]]
      <3>1. Append(base.stockinfo, Other) \in Seq({Own, Other})
        BY <1>0 DEF FeedTyped
      <3>2. QED
        BY <1>0, <3>1 DEF FeedTyped
    <2>2. QED
      BY <1>0, <2>1 DEF FeedTyped
  <1>8. FeedRows'
    <2>1. ASSUME NEW t \in Orders, Trade(t).stat # "none"
          PROVE  /\ fabr.offer_time
                 /\ \/ Trade(t).stock = OwnRow
                    \/ /\ Trade(t).stock \in DOMAIN base'.stockinfo
                       /\ base'.stockinfo[Trade(t).stock] = Other
      BY <1>0, <1>2, <1>3, <2>1 DEF FeedRows
    <2>2. QED
      BY <1>0, <1>4, <1>5, <1>6, <2>1 DEF FeedRows
  <1>9. FeedTable'
    <2>1. \A x \in base.exdr : x[1] \in Nat /\ x[1] <= L
      BY <1>0 DEF FeedTyped, FeedTable
    <2>2. QED
      BY <1>0, <1>1, <1>2, <1>3, <1>5, <2>1 DEF FeedTable
  <1>10. \A t \in Orders : (Held(t)' <=> Held(t)) /\ (AskedToClose(t)' <=> AskedToClose(t))
    BY <1>6 DEF Held, AskedToClose
  <1>11. FeedPays'
    <2>1. {t \in Orders : Held(t)}' = {t \in Orders : Held(t)}
      BY <1>10
    <2>2. QED
      BY <1>0, <1>6, <2>1 DEF FeedPays, IsPaid, FeedTyped
  <1>12. FeedMisses'
    <2>0. \A t, d : IsPaid(t, d)' <=> IsPaid(t, d)
      BY <1>0 DEF IsPaid
    <2>1. SUFFICES ASSUME NEW d \in DOMAIN due, NEW t \in due[d]
                   PROVE  \/ IsPaid(t, d)
                          \/ AskedToClose(t)
                          \/ base'.stockinfo[Trade(t).stock] = Other
                          \/ consumer.at = "select" /\ d = consumer.node
                          \/ d = consumer.node /\ t \in consumer.pay
      BY <1>0, <1>6, <1>10, <2>0 DEF FeedMisses, FeedTyped
    <2>2. t \in Orders /\ Trade(t).stat # "none"
      BY <1>0 DEF FeedTyped, FeedPays
    <2>3. CASE Trade(t).stock = OwnRow
      <3>1. OwnRow \in OwnRows
        BY <1>0, <2>2 DEF FeedRows
      <3>2. base.stockinfo[Trade(t).stock] # Other
        BY <2>3, <3>1 DEF OwnRows, Own, Other
      <3>3. QED
        BY <1>0, <3>2 DEF FeedMisses
    <2>4. CASE /\ Trade(t).stock \in DOMAIN base.stockinfo
               /\ base.stockinfo[Trade(t).stock] = Other
      BY <1>3, <2>4
    <2>5. QED
      BY <1>0, <2>2, <2>3, <2>4 DEF FeedRows
  <1>13. QED
    BY <1>7, <1>8, <1>9, <1>11, <1>12 DEF DividendsKept

-----------------------------------------------------------------------------
(* A dividend comes. *)

\* In the middle of a batch nobody is about to be paid.
LEMMA InBatch ==
    ASSUME DividendsKept, Message
    PROVE  /\ consumer.at = "batch" /\ consumer.tickets = {} /\ consumer.pay = {}
           /\ \A t \in Orders : paid[t] = told[t]
  BY DEF DividendsKept, FeedPays, Message, Stands

LEMMA ListedOnce ==
    ASSUME DividendsKept, NEW d \in ExDividends
    PROVE  InTable(d) <=> d \in DOMAIN due
  <1>1. NewestOf(Own) = OwnRow
    BY DEF OwnRow
  <1>2. OwnRow # 0 <=> fabr.symbol
    BY OwnRowIn DEF DividendsKept, FeedRows
  <1>3. QED
    BY <1>1, <1>2 DEF InTable, DividendsKept, FeedTable

LEMMA ListedIn ==
    ASSUME DividendsKept, NEW d \in ExDividends,
           fabr' = [fabr EXCEPT !.exrd = Append(fabr.exrd, d)],
           base' = [base EXCEPT !.exdr = base.exdr \cup {<<NewestOf(Own), d>>}]
    PROVE  /\ fabr'.symbol = fabr.symbol /\ fabr'.offer_time = fabr.offer_time
           /\ base'.stockinfo = base.stockinfo /\ base'.trades = base.trades
           /\ base'.exdr = base.exdr \cup {<<OwnRow, d>>}
           /\ FeedRows' /\ OwnRow' = OwnRow
           /\ \A t \in Orders : /\ Trade(t)' = Trade(t) /\ (Held(t)' <=> Held(t))
                                /\ (AskedToClose(t)' <=> AskedToClose(t))
           /\ fabr' \in [exrd : Seq(ExDividends), enable_exrd : BOOLEAN,
                         symbol : BOOLEAN, offer_time : BOOLEAN,
                         match_trigger : BOOLEAN]
           /\ base' \in [stockinfo : Seq({Own, Other}),
                         exdr : SUBSET (Nat \X ExDividends),
                         trades : [Orders -> TradeRows]]
  <1>1. /\ fabr'.symbol = fabr.symbol /\ fabr'.offer_time = fabr.offer_time
        /\ base'.stockinfo = base.stockinfo /\ base'.trades = base.trades
        /\ base'.exdr = base.exdr \cup {<<OwnRow, d>>}
    BY DEF DividendsKept, FeedTyped, OwnRow
  <1>2. OwnRows' = OwnRows
    BY <1>1 DEF OwnRows
  <1>3. OwnRow' = OwnRow
    BY <1>2, OwnRowStays
  <1>4. \A t \in Orders : Trade(t)' = Trade(t)
    BY <1>1 DEF Trade
  <1>5. \A t \in Orders : (Held(t)' <=> Held(t)) /\ (AskedToClose(t)' <=> AskedToClose(t))
    BY <1>4 DEF Held, AskedToClose
  <1>6. FeedRows'
    BY <1>1, <1>2, <1>3, <1>4 DEF DividendsKept, FeedRows
  <1>7. fabr' \in [exrd : Seq(ExDividends), enable_exrd : BOOLEAN, symbol : BOOLEAN,
                   offer_time : BOOLEAN, match_trigger : BOOLEAN]
    <2>1. Append(fabr.exrd, d) \in Seq(ExDividends)
      BY DEF DividendsKept, FeedTyped
    <2>2. QED
      BY <2>1 DEF DividendsKept, FeedTyped
  <1>8. OwnRow \in Nat
    BY OwnRowIn DEF DividendsKept
  <1>9. base' \in [stockinfo : Seq({Own, Other}), exdr : SUBSET (Nat \X ExDividends),
                   trades : [Orders -> TradeRows]]
    <2>1. base.exdr \cup {<<NewestOf(Own), d>>} \in SUBSET (Nat \X ExDividends)
      BY <1>8 DEF DividendsKept, FeedTyped, OwnRow
    <2>2. QED
      BY <2>1 DEF DividendsKept, FeedTyped
  <1>10. QED
    BY <1>1, <1>3, <1>4, <1>5, <1>6, <1>7, <1>9

\* Without the symbol nobody is paid, and the nodes are told of it all the same.
LEMMA UnknownKeeps ==
    ASSUME DividendsKept, NEW d \in ExDividends, SymbolExrd(d), ~Stale(d), ~fabr.symbol
    PROVE  DividendsKept'
  <1>0. /\ FeedTyped /\ FeedRows /\ FeedTable /\ FeedPays /\ FeedMisses /\ Message
        /\ UNCHANGED <<deals, paid, told>>
        /\ fabr' = [fabr EXCEPT !.exrd = Append(fabr.exrd, d)]
        /\ base' = [base EXCEPT !.exdr = base.exdr \cup {<<NewestOf(Own), d>>}]
        /\ Counted(d)
    BY DEF DividendsKept, SymbolExrd
  <1>1. DOMAIN due = {} /\ due' = due
    BY <1>0 DEF FeedTyped, FeedTable, Counted
  <1>2. consumer' = [OneTaken(consumer) EXCEPT !.at = "report", !.node = d]
    BY <1>1, ListedOnce DEF SymbolExrd
  <1>3. /\ consumer' \in Consumers /\ consumer'.at = "report" /\ consumer'.node = d
        /\ consumer'.tickets = {} /\ consumer'.pay = {}
    BY <1>0, <1>2, MessageTaken, InBatch, FeedConstants DEF Consumers
  <1>4. /\ fabr'.symbol = fabr.symbol /\ base'.stockinfo = base.stockinfo
        /\ base'.exdr = base.exdr \cup {<<OwnRow, d>>} /\ FeedRows' /\ OwnRow' = OwnRow
        /\ fabr' \in [exrd : Seq(ExDividends), enable_exrd : BOOLEAN,
                         symbol : BOOLEAN, offer_time : BOOLEAN,
                         match_trigger : BOOLEAN]
        /\ base' \in [stockinfo : Seq({Own, Other}),
                         exdr : SUBSET (Nat \X ExDividends),
                         trades : [Orders -> TradeRows]]
    BY <1>0, ListedIn
  <1>5. FeedTyped'
    BY <1>0, <1>1, <1>3, <1>4 DEF FeedTyped
  <1>6. FeedTable'
    <2>1. OwnRow = 0 /\ Len(base.stockinfo) \in Nat
      BY <1>0, OwnRowIn DEF FeedRows
    <2>2. \A x \in base'.exdr : x[1] <= Len(base.stockinfo)
      BY <1>0, <1>4, <2>1 DEF FeedTable
    <2>3. QED
      BY <1>1, <1>4, <2>2 DEF FeedTable
  <1>7. FeedPays'
    BY <1>0, <1>1, <1>3, InBatch DEF FeedPays
  <1>8. FeedMisses'
    BY <1>1 DEF FeedMisses
  <1>9. QED
    BY <1>4, <1>5, <1>6, <1>7, <1>8 DEF DividendsKept

\* A dividend that the table lists is in memory again, and nothing else.
LEMMA ListedKeeps ==
    ASSUME DividendsKept, NEW d \in ExDividends, SymbolExrd(d), ~Stale(d), InTable(d)
    PROVE  DividendsKept'
  <1>0. /\ FeedTyped /\ FeedRows /\ FeedTable /\ FeedPays /\ FeedMisses /\ Message
        /\ UNCHANGED <<deals, paid, told>>
        /\ fabr' = [fabr EXCEPT !.exrd = Append(fabr.exrd, d)]
        /\ base' = [base EXCEPT !.exdr = base.exdr \cup {<<NewestOf(Own), d>>}]
        /\ Counted(d) /\ consumer' = OneTaken(consumer)
    BY DEF DividendsKept, SymbolExrd
  <1>1. d \in DOMAIN due /\ due' = due /\ <<OwnRow, d>> \in base.exdr
    BY <1>0, ListedOnce DEF Counted, FeedTable
  <1>2. /\ fabr'.symbol = fabr.symbol /\ base'.stockinfo = base.stockinfo
        /\ base'.exdr = base.exdr /\ FeedRows' /\ OwnRow' = OwnRow
        /\ \A t \in Orders : /\ Trade(t)' = Trade(t) /\ (Held(t)' <=> Held(t))
                             /\ (AskedToClose(t)' <=> AskedToClose(t))
        /\ fabr' \in [exrd : Seq(ExDividends), enable_exrd : BOOLEAN,
                         symbol : BOOLEAN, offer_time : BOOLEAN,
                         match_trigger : BOOLEAN]
        /\ base' \in [stockinfo : Seq({Own, Other}),
                         exdr : SUBSET (Nat \X ExDividends),
                         trades : [Orders -> TradeRows]]
    <2>1. base'.exdr = base.exdr \cup {<<OwnRow, d>>}
      BY <1>0, ListedIn
    <2>2. base'.exdr = base.exdr
      BY <1>1, <2>1
    <2>3. QED
      BY <1>0, <2>2, ListedIn
  <1>3. /\ consumer' \in Consumers /\ consumer'.at = "batch"
        /\ consumer'.tickets = {} /\ consumer'.pay = {}
        /\ consumer.at = "batch" /\ consumer.tickets = {} /\ consumer.pay = {}
    BY <1>0, MessageTaken, InBatch
  <1>4. FeedTyped'
    BY <1>0, <1>1, <1>2, <1>3 DEF FeedTyped
  <1>5. FeedTable'
    BY <1>0, <1>1, <1>2 DEF FeedTable
  <1>6. FeedPays'
    BY <1>0, <1>1, <1>2, <1>3, InBatch DEF FeedPays, FeedTyped
  <1>7. FeedMisses'
    <2>1. \A t, e : IsPaid(t, e)' <=> IsPaid(t, e)
      BY <1>0 DEF IsPaid
    <2>2. ASSUME NEW e \in DOMAIN due, NEW t \in due[e]
          PROVE  \/ IsPaid(t, e)
                 \/ AskedToClose(t)'
                 \/ base'.stockinfo[Trade(t).stock'] = Other
      <3>1. t \in Orders
        BY <1>0 DEF FeedTyped
      <3>2. QED
        BY <1>0, <1>2, <1>3, <3>1 DEF FeedMisses
    <2>3. QED
      BY <1>1, <1>3, <2>1, <2>2 DEF FeedMisses
  <1>8. QED
    BY <1>2, <1>4, <1>5, <1>6, <1>7 DEF DividendsKept

\* A new one is owed to those who hold the symbol.
LEMMA NewKeeps ==
    ASSUME DividendsKept, NEW d \in ExDividends, SymbolExrd(d), ~Stale(d), ~InTable(d),
           fabr.symbol
    PROVE  DividendsKept'
  <1>0. /\ FeedTyped /\ FeedRows /\ FeedTable /\ FeedPays /\ FeedMisses /\ Message
        /\ UNCHANGED <<deals, paid, told>>
        /\ fabr' = [fabr EXCEPT !.exrd = Append(fabr.exrd, d)]
        /\ base' = [base EXCEPT !.exdr = base.exdr \cup {<<NewestOf(Own), d>>}]
        /\ Counted(d)
        /\ consumer' = [OneTaken(consumer) EXCEPT !.at = "select", !.node = d]
    BY DEF DividendsKept, SymbolExrd
  <1> DEFINE holders == {t \in Orders : Held(t)}
  <1>1. /\ d \notin DOMAIN due /\ DOMAIN due' = DOMAIN due \cup {d}
        /\ due'[d] = holders /\ \A x \in DOMAIN due : due'[x] = due[x]
        /\ due' \in [DOMAIN due' -> SUBSET Orders]
    <2>1. d \notin DOMAIN due
      BY ListedOnce
    <2>2. due' = [x \in DOMAIN due \cup {d} |-> IF x = d THEN holders ELSE due[x]]
      BY <1>0, <2>1 DEF Counted
    <2>3. QED
      BY <1>0, <2>1, <2>2 DEF FeedTyped
  <1>2. /\ fabr'.symbol = fabr.symbol /\ base'.stockinfo = base.stockinfo
        /\ base'.exdr = base.exdr \cup {<<OwnRow, d>>} /\ FeedRows' /\ OwnRow' = OwnRow
        /\ \A t \in Orders : /\ Trade(t)' = Trade(t) /\ (Held(t)' <=> Held(t))
                             /\ (AskedToClose(t)' <=> AskedToClose(t))
        /\ fabr' \in [exrd : Seq(ExDividends), enable_exrd : BOOLEAN,
                         symbol : BOOLEAN, offer_time : BOOLEAN,
                         match_trigger : BOOLEAN]
        /\ base' \in [stockinfo : Seq({Own, Other}),
                         exdr : SUBSET (Nat \X ExDividends),
                         trades : [Orders -> TradeRows]]
    BY <1>0, ListedIn
  <1>3. /\ consumer' \in Consumers /\ consumer'.at = "select" /\ consumer'.node = d
        /\ consumer'.tickets = {} /\ consumer'.pay = {}
        /\ consumer.at = "batch" /\ consumer.tickets = {} /\ consumer.pay = {}
    BY <1>0, MessageTaken, InBatch, FeedConstants DEF Consumers
  <1>4. FeedTyped'
    BY <1>0, <1>1, <1>2, <1>3 DEF FeedTyped
  <1>5. FeedTable'
    <2>1. OwnRow \in 1..Len(base.stockinfo)
      BY <1>0, OwnRowIn DEF FeedRows
    <2>2. \A x \in base'.exdr : x[1] <= Len(base.stockinfo)
      BY <1>0, <1>2, <2>1 DEF FeedTable
    <2>3. \A e \in ExDividends :
              <<OwnRow, e>> \in base'.exdr <=> e = d \/ <<OwnRow, e>> \in base.exdr
      BY <1>2
    <2>4. QED
      BY <1>0, <1>1, <1>2, <2>2, <2>3 DEF FeedTable
  <1>6. {t \in Orders : Held(t)'} = holders
    BY <1>2
  <1>7. \A t \in Orders : ~IsPaid(t, d)'
    BY <1>0, <1>1 DEF FeedPays, IsPaid
  <1>8. \A t \in holders : Trade(t).stat # "none"
    BY DEF Held
  <1> HIDE DEF holders
  <1>9. FeedPays'
    <2>1. (\A e \in DOMAIN due : \A t \in due[e] : Trade(t).stat # "none")'
      BY <1>0, <1>1, <1>2, <1>8 DEF FeedPays, FeedTyped
    <2>2. (\A t \in Orders : \A i \in DOMAIN paid[t] :
              /\ paid[t][i] \in DOMAIN due /\ t \in due[paid[t][i]]
              /\ \A j \in DOMAIN paid[t] : paid[t][i] = paid[t][j] => i = j)'
      BY <1>0, <1>1 DEF FeedPays
    <2>3. (consumer.at = "select" =>
             /\ consumer.node \in DOMAIN due
             /\ due[consumer.node] = {t \in Orders : Held(t)}
             /\ \A t \in Orders : ~IsPaid(t, consumer.node))'
      BY <1>1, <1>3, <1>6, <1>7 DEF IsPaid
    <2>4. QED
      BY <1>0, <1>3, <2>1, <2>2, <2>3, InBatch DEF FeedPays
  <1>10. FeedMisses'
    <2>1. \A t, e : IsPaid(t, e)' <=> IsPaid(t, e)
      BY <1>0 DEF IsPaid
    <2>2. ASSUME NEW e \in DOMAIN due, NEW t \in due[e]
          PROVE  \/ IsPaid(t, e)
                 \/ AskedToClose(t)'
                 \/ base'.stockinfo[Trade(t).stock'] = Other
      <3>1. t \in Orders
        BY <1>0 DEF FeedTyped
      <3>2. QED
        BY <1>0, <1>2, <1>3, <3>1 DEF FeedMisses
    <2>3. QED
      BY <1>1, <1>3, <2>1, <2>2 DEF FeedMisses
  <1>11. QED
    BY <1>2, <1>4, <1>5, <1>9, <1>10 DEF DividendsKept

LEMMA SymbolExrdKeeps ==
    ASSUME DividendsKept, NEW d \in ExDividends, SymbolExrd(d)
    PROVE  DividendsKept'
  <1>1. CASE Stale(d)
    <2>1. /\ Message /\ consumer' = OneTaken(consumer) /\ FeedTyped
          /\ UNCHANGED <<fabr, base, deals, paid, told, due>>
      BY <1>1 DEF SymbolExrd, DividendsKept
    <2>2. ConsumerGoes
      BY <2>1, MessageTaken DEF ConsumerGoes
    <2>3. QED
      BY <2>1, <2>2, ConsumerOnly
  <1>2. CASE ~Stale(d)
    BY <1>2, UnknownKeeps, ListedKeeps, NewKeeps
  <1>3. QED
    BY <1>1, <1>2

-----------------------------------------------------------------------------
(* It is paid, and the nodes hear of it. *)

LEMMA SelectKeeps ==
    ASSUME DividendsKept, SelectTickets
    PROVE  DividendsKept'
  <1> DEFINE T == {t \in Orders : /\ Held(t) /\ ~AskedToClose(t)
                                  /\ Trade(t).stock = NewestOf(Own)}
  <1>0. /\ FeedTyped /\ FeedRows /\ FeedTable /\ FeedPays /\ FeedMisses
        /\ UNCHANGED <<fabr, base, deals, paid, told, due>>
        /\ consumer.at = "select"
        /\ consumer' = [consumer EXCEPT !.at = "pay", !.tickets = T, !.pay = T]
    BY DEF DividendsKept, SelectTickets, Stands
  <1>1. /\ consumer.tickets = {} /\ consumer.pay = {}
        /\ consumer.node \in DOMAIN due /\ due[consumer.node] = {t \in Orders : Held(t)}
        /\ \A t \in Orders : ~IsPaid(t, consumer.node)
        /\ consumer.node \in ExDividends
    BY <1>0 DEF FeedPays
  <1>2. /\ T \subseteq Orders /\ T \subseteq due[consumer.node]
        /\ \A t \in due[consumer.node] \ T :
              AskedToClose(t) \/ Trade(t).stock # NewestOf(Own)
    BY <1>1
  <1> HIDE DEF T
  <1>3. /\ consumer' \in Consumers /\ consumer'.at = "pay"
        /\ consumer'.tickets = T /\ consumer'.pay = T /\ consumer'.node = consumer.node
    BY <1>0, <1>2 DEF FeedTyped, Consumers
  <1>4. FeedTyped'
    BY <1>0, <1>3 DEF FeedTyped
  <1>5. OwnRows' = OwnRows
    BY <1>0 DEF OwnRows
  <1>6. OwnRow' = OwnRow
    BY <1>5, OwnRowStays
  <1>7. \A t \in Orders : /\ Trade(t)' = Trade(t)
                          /\ (AskedToClose(t)' <=> AskedToClose(t))
    BY <1>0 DEF Trade, AskedToClose
  <1>8. FeedRows' /\ FeedTable'
    BY <1>0, <1>5, <1>6, <1>7 DEF FeedRows, FeedTable
  <1>9. \A t, d : IsPaid(t, d)' <=> IsPaid(t, d)
    BY <1>0 DEF IsPaid
  <1>10. FeedPays'
    <2>1. (\A d \in DOMAIN due : \A t \in due[d] : Trade(t).stat # "none")'
      BY <1>0, <1>7 DEF FeedPays, FeedTyped
    <2>2. (\A t \in Orders : paid[t] = IF t \in consumer.tickets \ consumer.pay
                                       THEN Append(told[t], consumer.node) ELSE told[t])'
      BY <1>0, <1>1, <1>3 DEF FeedPays
    <2>3. (\A t \in consumer.pay : ~IsPaid(t, consumer.node))'
      BY <1>1, <1>2, <1>3, <1>9 DEF IsPaid
    <2>4. (\A t \in Orders : \A i \in DOMAIN paid[t] :
              /\ paid[t][i] \in DOMAIN due /\ t \in due[paid[t][i]]
              /\ \A j \in DOMAIN paid[t] : paid[t][i] = paid[t][j] => i = j)'
      BY <1>0 DEF FeedPays
    <2>5. QED
      BY <1>0, <1>1, <1>2, <1>3, <2>1, <2>2, <2>3, <2>4 DEF FeedPays
  <1>11. FeedMisses'
    <2>1. SUFFICES ASSUME NEW d \in DOMAIN due, NEW t \in due[d]
                   PROVE  \/ IsPaid(t, d)
                          \/ AskedToClose(t)
                          \/ base.stockinfo[Trade(t).stock] = Other
                          \/ d = consumer.node /\ t \in T
      <3>1. \A d \in DOMAIN due : due[d] \subseteq Orders
        BY <1>0 DEF FeedTyped
      <3>2. QED
        BY <1>0, <1>3, <1>7, <1>9, <3>1 DEF FeedMisses
    <2>2. t \in Orders /\ Trade(t).stat # "none"
      BY <1>0 DEF FeedTyped, FeedPays
    <2>3. CASE d = consumer.node /\ t \notin T
      <3>1. AskedToClose(t) \/ Trade(t).stock # OwnRow
        BY <1>2, <2>3 DEF OwnRow
      <3>2. QED
        BY <1>0, <2>2, <3>1 DEF FeedRows
    <2>4. CASE d # consumer.node
      BY <1>0, <1>1, <2>4 DEF FeedMisses
    <2>5. QED
      BY <2>3, <2>4
  <1>12. QED
    BY <1>4, <1>8, <1>10, <1>11 DEF DividendsKept

LEMMA ChangeKeeps ==
    ASSUME DividendsKept, ExdrChange
    PROVE  DividendsKept'
  <1>0. /\ FeedTyped /\ FeedRows /\ FeedTable /\ FeedPays /\ FeedMisses
        /\ UNCHANGED <<fabr, base, deals, told, due>> /\ consumer.at = "pay"
    BY DEF DividendsKept, ExdrChange, Stands
  <1>1. OwnRows' = OwnRows
    BY <1>0 DEF OwnRows
  <1>2. OwnRow' = OwnRow
    BY <1>1, OwnRowStays
  <1>3. \A t \in Orders : /\ Trade(t)' = Trade(t)
                          /\ (AskedToClose(t)' <=> AskedToClose(t))
    BY <1>0 DEF Trade, AskedToClose
  <1>4. FeedRows' /\ FeedTable'
    BY <1>0, <1>1, <1>2, <1>3 DEF FeedRows, FeedTable
  <1>5. CASE consumer.pay = {} /\ consumer' = [consumer EXCEPT !.at = "report"]
               /\ paid' = paid
    <2>1. /\ consumer' \in Consumers /\ consumer'.at = "report"
          /\ consumer'.tickets = consumer.tickets /\ consumer'.pay = {}
          /\ consumer'.node = consumer.node
      BY <1>0, <1>5 DEF FeedTyped, Consumers
    <2>2. \A t, d : IsPaid(t, d)' <=> IsPaid(t, d)
      BY <1>5 DEF IsPaid
    <2>3. FeedTyped'
      BY <1>0, <1>5, <2>1 DEF FeedTyped
    <2>4. (\A d \in DOMAIN due : \A t \in due[d] : Trade(t).stat # "none")'
      BY <1>0, <1>3 DEF FeedPays, FeedTyped
    <2>5. FeedPays'
      BY <1>0, <1>5, <2>1, <2>4 DEF FeedPays
    <2>6. \A d \in DOMAIN due : due[d] \subseteq Orders
      BY <1>0 DEF FeedTyped
    <2>7. FeedMisses'
      BY <1>0, <1>3, <1>5, <2>1, <2>2, <2>6 DEF FeedMisses
    <2>8. QED
      BY <1>4, <2>3, <2>5, <2>7 DEF DividendsKept
  <1>6. CASE \E t \in consumer.pay :
               /\ paid' = [paid EXCEPT ![t] = Append(paid[t], consumer.node)]
               /\ consumer' = [consumer EXCEPT !.pay = consumer.pay \ {t}]
    <2>1. PICK t \in consumer.pay :
               /\ paid' = [paid EXCEPT ![t] = Append(paid[t], consumer.node)]
               /\ consumer' = [consumer EXCEPT !.pay = consumer.pay \ {t}]
      BY <1>6
    <2> DEFINE node == consumer.node
    <2>2. /\ consumer' \in Consumers /\ consumer'.at = "pay"
          /\ consumer'.tickets = consumer.tickets /\ consumer'.pay = consumer.pay \ {t}
          /\ consumer'.node = node
      BY <1>0, <2>1 DEF FeedTyped, Consumers
    <2>3. /\ t \in Orders /\ t \in consumer.tickets /\ node \in DOMAIN due
          /\ t \in due[node] /\ ~IsPaid(t, node) /\ node \in ExDividends
          /\ consumer.tickets \subseteq due[node]
      BY <1>0 DEF FeedTyped, Consumers, FeedPays
    <2>4. /\ paid'[t] = Append(paid[t], node) /\ paid[t] \in Seq(ExDividends)
          /\ \A u \in Orders \ {t} : paid'[u] = paid[u]
          /\ paid' \in [Orders -> Seq(ExDividends)]
      <3>1. paid[t] \in Seq(ExDividends) /\ Append(paid[t], node) \in Seq(ExDividends)
        BY <1>0, <2>3 DEF FeedTyped
      <3>2. QED
        BY <1>0, <2>1, <2>3, <3>1 DEF FeedTyped
    <2> DEFINE L == Len(paid[t])
    <2>5. /\ DOMAIN paid[t] = 1..L /\ DOMAIN paid'[t] = 1..L + 1 /\ L \in Nat
          /\ paid'[t][L + 1] = node /\ \A i \in 1..L : paid'[t][i] = paid[t][i]
      BY <2>4
    <2>6. /\ \A i \in 1..L : paid[t][i] # node
          /\ \A u \in Orders \ {t} : \A d : IsPaid(u, d)' <=> IsPaid(u, d)
          /\ \A d : IsPaid(t, d)' <=> IsPaid(t, d) \/ d = node
      <3>1. \A i \in 1..L : paid[t][i] # node
        BY <2>3, <2>5 DEF IsPaid
      <3>2. \A u \in Orders \ {t} : \A d : IsPaid(u, d)' <=> IsPaid(u, d)
        BY <2>4 DEF IsPaid
      <3>3. \A d : IsPaid(t, d)' <=> IsPaid(t, d) \/ d = node
        <4>1. /\ L + 1 \in 1..L + 1 /\ 1..L \subseteq 1..L + 1
              /\ \A i \in 1..L + 1 : i \in 1..L \/ i = L + 1
          BY <2>5
        <4>2. QED
          BY <2>5, <4>1 DEF IsPaid
      <3>4. QED
        BY <3>1, <3>2, <3>3
    <2> HIDE DEF node, L
    <2>7. FeedTyped'
      BY <1>0, <2>2, <2>4 DEF FeedTyped
    <2>8. (\A d \in DOMAIN due : \A u \in due[d] : Trade(u).stat # "none")'
      BY <1>0, <1>3 DEF FeedPays, FeedTyped
    <2>9. ASSUME NEW u \in Orders, NEW i \in DOMAIN paid'[u]
          PROVE  /\ paid'[u][i] \in DOMAIN due /\ u \in due[paid'[u][i]]
                 /\ \A j \in DOMAIN paid'[u] : paid'[u][i] = paid'[u][j] => i = j
      <3>1. CASE u # t
        BY <1>0, <2>4, <3>1 DEF FeedPays
      <3>2. CASE u = t
        <4>1. \A j \in 1..L : /\ paid[t][j] \in DOMAIN due /\ t \in due[paid[t][j]]
                              /\ \A k \in 1..L : paid[t][j] = paid[t][k] => j = k
          BY <1>0, <2>3, <2>5 DEF FeedPays
        <4>2. \A j \in 1..L + 1 : j \in 1..L \/ j = L + 1
          BY <2>5
        <4>3. QED
          BY <2>3, <2>5, <2>6, <3>2, <4>1, <4>2
      <3>3. QED
        BY <3>1, <3>2
    <2>10. ASSUME NEW u \in Orders
           PROVE  paid'[u] = IF u \in consumer'.tickets \ consumer'.pay
                             THEN Append(told[u], node) ELSE told[u]
      <3>1. paid[u] = IF u \in consumer.tickets \ consumer.pay
                      THEN Append(told[u], node) ELSE told[u]
        BY <1>0 DEF FeedPays, node
      <3>2. QED
        BY <2>2, <2>3, <2>4, <3>1
    <2>11. \A u \in consumer'.pay : \A d : d = node => ~IsPaid(u, d)'
      <3>1. \A u \in consumer.pay : ~IsPaid(u, node) /\ u \in Orders
        BY <1>0 DEF FeedPays, FeedTyped, Consumers, node
      <3>2. QED
        BY <2>2, <2>6, <3>1
    <2>12. FeedPays'
      <3>1. (\A u \in consumer.pay : ~IsPaid(u, consumer.node))'
        BY <2>2, <2>11 DEF IsPaid
      <3>2. (\A u \in Orders : \A i \in DOMAIN paid[u] :
              /\ paid[u][i] \in DOMAIN due /\ u \in due[paid[u][i]]
              /\ \A j \in DOMAIN paid[u] : paid[u][i] = paid[u][j] => i = j)'
        BY <1>0, <2>9
      <3>3. (\A u \in Orders : paid[u] = IF u \in consumer.tickets \ consumer.pay
                                   THEN Append(told[u], consumer.node) ELSE told[u])'
        BY <1>0, <2>2, <2>10
      <3>4. /\ consumer.pay \subseteq consumer.tickets
            /\ consumer'.tickets # {}
        BY <1>0, <2>2, <2>3 DEF FeedPays
      <3>5. QED
        BY <1>0, <2>2, <2>3, <2>8, <3>1, <3>2, <3>3, <3>4 DEF FeedPays
    <2>13. FeedMisses'
      <3>1. SUFFICES ASSUME NEW d \in DOMAIN due, NEW u \in due[d]
                     PROVE  \/ IsPaid(u, d)'
                            \/ AskedToClose(u)
                            \/ base.stockinfo[Trade(u).stock] = Other
                            \/ d = node /\ u \in consumer.pay \ {t}
        <4>1. \A d \in DOMAIN due : due[d] \subseteq Orders
          BY <1>0 DEF FeedTyped
        <4>2. QED
          BY <1>0, <1>3, <2>2, <4>1 DEF FeedMisses
      <3>2. u \in Orders
        BY <1>0 DEF FeedTyped
      <3>3. \/ IsPaid(u, d)
            \/ AskedToClose(u)
            \/ base.stockinfo[Trade(u).stock] = Other
            \/ d = node /\ u \in consumer.pay
        BY <1>0 DEF FeedMisses, node
      <3>4. QED
        BY <2>6, <3>2, <3>3
    <2>14. QED
      BY <1>4, <2>7, <2>12, <2>13 DEF DividendsKept
  <1>7. QED
    BY <1>5, <1>6 DEF ExdrChange, Goes

LEMMA ReportKeeps ==
    ASSUME DividendsKept, QuoteStatusReport
    PROVE  DividendsKept'
  <1>0. /\ FeedTyped /\ FeedRows /\ FeedTable /\ FeedPays /\ FeedMisses
        /\ UNCHANGED <<base, deals, paid, due>> /\ consumer.at = "report"
        /\ fabr' = [fabr EXCEPT !.enable_exrd = TRUE]
        /\ consumer' = [consumer EXCEPT !.at = "batch", !.tickets = {}]
        /\ told' = [t \in Orders |-> IF t \in consumer.tickets
                                     THEN Append(told[t], consumer.node) ELSE told[t]]
    BY DEF DividendsKept, QuoteStatusReport, Stands
  <1>1. OwnRows' = OwnRows
    BY <1>0 DEF OwnRows
  <1>2. OwnRow' = OwnRow
    BY <1>1, OwnRowStays
  <1>3. \A t \in Orders : /\ Trade(t)' = Trade(t)
                          /\ (AskedToClose(t)' <=> AskedToClose(t))
    BY <1>0 DEF Trade, AskedToClose
  <1>4. /\ consumer' \in Consumers /\ consumer'.at = "batch" /\ consumer'.tickets = {}
        /\ consumer'.pay = {} /\ consumer.pay = {} /\ consumer.node \in ExDividends
    BY <1>0 DEF FeedTyped, Consumers, FeedPays
  <1>5. /\ fabr' \in [exrd : Seq(ExDividends), enable_exrd : BOOLEAN, symbol : BOOLEAN,
                      offer_time : BOOLEAN, match_trigger : BOOLEAN]
        /\ fabr'.symbol = fabr.symbol /\ fabr'.offer_time = fabr.offer_time
    BY <1>0 DEF FeedTyped
  <1>6. FeedRows' /\ FeedTable'
    BY <1>0, <1>1, <1>2, <1>3, <1>5 DEF FeedRows, FeedTable
  <1>7. \A t \in Orders : told'[t] = paid[t]
    BY <1>0, <1>4 DEF FeedPays
  <1>8. told' \in [Orders -> Seq(ExDividends)]
    BY <1>0, <1>7 DEF FeedTyped
  <1>9. FeedTyped'
    BY <1>0, <1>4, <1>5, <1>8 DEF FeedTyped
  <1>10. (\A d \in DOMAIN due : \A t \in due[d] : Trade(t).stat # "none")'
    BY <1>0, <1>3 DEF FeedPays, FeedTyped
  <1>11. FeedPays'
    BY <1>0, <1>4, <1>7, <1>10 DEF FeedPays
  <1>12. \A t, d : IsPaid(t, d)' <=> IsPaid(t, d)
    BY <1>0 DEF IsPaid
  <1>13. \A d \in DOMAIN due : due[d] \subseteq Orders
    BY <1>0 DEF FeedTyped
  <1>14. FeedMisses'
    BY <1>0, <1>3, <1>4, <1>12, <1>13 DEF FeedMisses
  <1>15. QED
    BY <1>6, <1>9, <1>11, <1>14 DEF DividendsKept

LEMMA DividendsNext == DividendsKept /\ [FeedNext]_feedVars => DividendsKept'
  <1> SUFFICES ASSUME DividendsKept, [FeedNext]_feedVars PROVE DividendsKept'
    OBVIOUS
  <1>1. CASE ConsumeCallback \/ Poll \/ ExitOrder \/ Line
    BY <1>1, CallbackKeeps
  <1>2. CASE SymbolInit
    BY <1>2, SymbolInitKeeps
  <1>3. CASE \E d \in ExDividends : SymbolExrd(d)
    BY <1>3, SymbolExrdKeeps
  <1>4. CASE SelectTickets
    BY <1>4, SelectKeeps
  <1>5. CASE ExdrChange
    BY <1>5, ChangeKeeps
  <1>6. CASE QuoteStatusReport
    BY <1>6, ReportKeeps
  <1>7. CASE \E time \in Times : TicketMsg(time)
    BY <1>7, TicketMsgKeeps
  <1>8. CASE \E t \in Orders, qty \in {"partly", "filled", "cancelled"} :
               DealMatchMsg(t, qty)
    BY <1>8, DealMatchMsgKeeps
  <1>9. CASE \E t \in Orders : InsertOrder(t) \/ CancelOrder(t)
    BY <1>9, OrdersKeep
  <1>10. CASE OtherProcess
    BY <1>10, OtherProcessKeeps
  <1>11. CASE UNCHANGED feedVars
    <2>1. /\ UNCHANGED <<consumer, fabr, base, deals, paid, told, due>>
      BY <1>11 DEF feedVars
    <2>2. FeedTyped'
      BY <2>1 DEF DividendsKept, FeedTyped
    <2>3. KeepsTrades
      BY <2>1 DEF KeepsTrades, Trade
    <2>4. KeepsAsking
      BY <2>1 DEF KeepsAsking, Held, Trade
    <2>5. QED
      BY <2>1, <2>2, <2>3, <2>4, FeedQuiet
  <1>12. QED
    BY <1>1, <1>2, <1>3, <1>4, <1>5, <1>6, <1>7, <1>8, <1>9, <1>10, <1>11 DEF FeedNext

\* SymbolExrd() pays each dividend of the stream once to whoever held the symbol
\* when it came first, but for the tickets that NobodyIsMissed excepts, and tells the
\* nodes the same: however the stream repeats and reorders them, and whatever orders,
\* deals and other processes do between two of its statements.
THEOREM DividendsPaidOnce == FeedSpec => []DividendsInv
  <1>1. QED
    BY DividendsStart, DividendsNext, DividendsImply, PTL DEF FeedSpec

=============================================================================
