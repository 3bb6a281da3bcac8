----------------------------- MODULE NodeProofs -----------------------------
(****************************************************************************)
(* Proofs about what the threads of a trader node share, for any number of   *)
(* threads, indexes, sizes and prices: the orders that scripts send and the  *)
(* FIX thread hears of, with the cash that is frozen for them, and the user's *)
(* own data that scripts read while the FIX thread writes it.                *)
(****************************************************************************)
EXTENDS TraderNode, CustomData, Arithmetic, SequenceTheorems, TLAPS

(****************************************************************************)
(* Orders.                                                                  *)
(*                                                                          *)
(* What the node, the exchange and the messages between them say of an order *)
(* fits together: a request is of an order that nothing else is known of,    *)
(* a report names the ticket that the exchange gave the order, the first of  *)
(* an order's reports is that it was placed, and nothing follows the last.   *)
(* From this follows what is frozen: an opening order's cost is frozen       *)
(* while the order has no ticket, unless the exchange refused it before it   *)
(* gave it one; and, for a node that opens its orders by buying, that a       *)
(* ticket is locked while, and only while, one order that closes it is on its *)
(* way.                                                                      *)
(****************************************************************************)

Sends == [pc : {"send"}, side : Sides, price : Prices, qty : Quantities, seen : Int]
Requests ==
    [key : Nat, side : {"buy", "sell"}, price : Nat, qty : Nat \ {0}, closes : Nat]
Entry ==
    [key : Nat, price : Nat, qty : Nat \ {0}, leaves : Nat, open : Nat, amount : Nat,
     closes : Nat, margin : Nat, split : Nat, lots : Nat \ {0}, live : BOOLEAN]
Reports ==
    [kind : {"new", "partial", "filled", "canceled"}, key : Nat, ticket : Nat,
     closes : Nat, cum : Nat, leaves : Nat, margin : Nat, commission : Nat]
Rejects == [kind : {"reject"}, key : Nat, ticket : Nat, responseTo : {"1", "2"}]
Exdrs == [kind : {"exdr"}, tickets : SUBSET Nat, cash : Nat, split : Nat, paid : Int]

\* What is known of the values of each variable on its own.
OrdersTyped ==
    /\ mode \in [split : BOOLEAN, day : BOOLEAN]
    /\ script \in [Threads -> {Idle} \cup Sends]
    /\ orders \in Seq(OrderRecord) /\ book \in Seq(Entry)
    /\ ticketOf \in [DOMAIN ticketOf -> Nat] /\ margins \in [DOMAIN margins -> Nat]
    /\ cash \in [Accounts -> Int] /\ freeze \in [Accounts -> Int]
    /\ toExchange \in Seq(Requests)
    /\ toNode \in Seq(Reports \cup Rejects \cup Exdrs)
    /\ credit \in Int /\ drift \in Int /\ lost \in Nat /\ dividends \in Nat

\* The bound counts the orders that are being sent; what is being sent was
\* covered when its thread looked.
Covered ==
    /\ Len(orders) + Cardinality(Sending) + lost + dividends <= MaxEvents
    /\ \A t \in Sending : Equity(script[t].price, script[t].qty) <= script[t].seen

Booked(k) == \E t \in Tickets : book[t].key = k
Alive(k) == \E t \in Tickets : book[t].key = k /\ book[t].live
About(i, k) == toNode[i].kind # "exdr" /\ toNode[i].key = k
Answered(k) == \E i \in DOMAIN toNode : About(i, k)
Cost(k) == Equity(orders[k].price, orders[k].qty)
Untouched(k) == orders[k].ticket = NoTicket /\ orders[k].trading = "PENDING"

\* The exchange's orders are the node's, one each.
Booking ==
    \A t \in Tickets :
        /\ book[t].key \in Keys
        /\ book[t].closes = orders[book[t].key].closes
        /\ book[t].leaves <= book[t].qty
        /\ book[t].live => book[t].leaves > 0
        /\ \A u \in Tickets : book[u].key = book[t].key => u = t

\* What the node calls a ticket is one, and its order's.
Ticketing ==
    /\ DOMAIN ticketOf \subseteq Tickets /\ DOMAIN margins \subseteq Tickets
    /\ \A t \in DOMAIN ticketOf :
          ticketOf[t] = book[t].key /\ orders[ticketOf[t]].ticket = t
    /\ \A k \in Keys :
          /\ orders[k].ticket # NoTicket =>
                orders[k].ticket \in DOMAIN ticketOf /\ ticketOf[orders[k].ticket] = k
          /\ orders[k].closes # NoTicket => orders[k].closes \in DOMAIN ticketOf

\* A request is of an order of which nothing else is known.
Asking(r) ==
    /\ r.key \in Keys
    /\ r.closes = orders[r.key].closes /\ r.side = orders[r.key].side
    /\ Untouched(r.key) /\ ~Booked(r.key) /\ ~Answered(r.key)
    /\ r.closes = NoTicket =>
          r.price = orders[r.key].price /\ r.qty = orders[r.key].qty
AskedOnce ==
    \A i \in DOMAIN toExchange :
        /\ Asking(toExchange[i])
        /\ \A j \in DOMAIN toExchange : toExchange[j].key = toExchange[i].key => j = i

\* A report is of an order that the exchange has.
Reporting(m) ==
    m.kind \in {"new", "partial", "filled", "canceled"} =>
        /\ m.ticket \in Tickets
        /\ m.key = book[m.ticket].key /\ m.closes = book[m.ticket].closes
        /\ m.kind \in {"new", "partial"} => m.leaves > 0
        /\ m.kind = "new" =>
              /\ m.cum = 0 /\ Untouched(m.key)
              /\ m.margin = IF m.closes = NoTicket THEN Cost(m.key) ELSE 0
        /\ m.kind = "filled" => m.leaves = 0 /\ m.cum > 0
        /\ m.kind \in {"filled", "canceled"} => ~book[m.ticket].live

\* A refusal is of an order that the exchange does not have, or found no cash for.
Rejecting(m) ==
    m.kind = "reject" =>
        /\ m.key \in Keys /\ ~Alive(m.key) /\ orders[m.key].ticket = NoTicket
        /\ m.responseTo = IF orders[m.key].side = "buy" THEN "1" ELSE "2"
        /\ \/ /\ orders[m.key].closes # NoTicket /\ ~Booked(m.key)
              /\ m.ticket = orders[m.key].closes
           \/ /\ orders[m.key].closes = NoTicket /\ ~Booked(m.key)
              /\ m.ticket = NoTicket /\ orders[m.key].trading = "PENDING"
           \/ /\ orders[m.key].closes = NoTicket
              /\ m.ticket \in Tickets /\ book[m.ticket].key = m.key

Sound(m) ==
    /\ Reporting(m) /\ Rejecting(m)
    /\ m.kind = "exdr" => m.tickets \subseteq Tickets
Answering == \A i \in DOMAIN toNode : Sound(toNode[i])

\* That an order was placed is told first, how it ended last; a refused one was
\* at most cancelled before.
Final(m) ==
    \/ m.kind \in {"filled", "reject"}
    \/ m.kind = "canceled" /\ m.closes # NoTicket
InTurn ==
    \A i, j \in DOMAIN toNode :
        i # j /\ toNode[j].kind # "exdr" /\ About(i, toNode[j].key) =>
            /\ toNode[j].kind = "new" => j < i
            /\ Final(toNode[j]) => i < j
            /\ toNode[j].kind = "reject" => toNode[i].kind = "canceled"

\* The node knows of an order that was placed, or will before it hears more.
Known(k) ==
    \/ orders[k].ticket # NoTicket
    \/ \E i \in DOMAIN toNode : toNode[i].kind = "new" /\ toNode[i].key = k
Announcing ==
    lost = 0 =>
        /\ \A t \in Tickets : book[t].live => Known(book[t].key)
        /\ \A i \in DOMAIN toNode :
              toNode[i].kind \in {"partial", "filled"} => Known(toNode[i].key)

\* What is frozen covers what is held, and is no more unless a report was lost.
Costs == [k \in Keys |-> Cost(k)]
Freezing ==
    \A a \in Accounts :
        LET held == SumFunctionOnSet(Costs, Held(a))
        IN  held <= freeze[a] /\ (lost = 0 => held = freeze[a])

\* A node that buys first: its closing orders sell, and close what was opened.
Closes(k) == orders[k].closes # NoTicket
Closed(k) == ticketOf[orders[k].closes]
Buying == \A k \in Keys : orders[k].side = "buy" <=> ~Closes(k)
ClosesAnOpener == \A k \in Keys : Closes(k) => ~Closes(Closed(k))

\* Of an order that is in the market nothing more is to come.
Over == {"MARKET", "CLOSEING", "CLOSED"}
InMarket ==
    \A k \in Keys : ~Closes(k) /\ orders[k].trading \in Over =>
        orders[k].ticket # NoTicket /\ ~Alive(k) /\ ~Answered(k)

\* How a closing order ended is told while anything is.
Asked(k) == \E i \in DOMAIN toExchange : toExchange[i].key = k
Pending(k) == Asked(k) \/ Alive(k) \/ Answered(k)
Ending ==
    \A k \in Keys : Closes(k) /\ Answered(k) /\ ~Asked(k) /\ ~Alive(k) =>
        \E i \in DOMAIN toNode : About(i, k) /\ Final(toNode[i])

\* A ticket is locked by the one order that closes it, until that has ended.
Locks ==
    /\ \A k \in Keys : Closes(k) /\ Pending(k) =>
          /\ orders[Closed(k)].trading = "CLOSEING"
          /\ \A j \in Keys : Pending(j) /\ orders[j].closes = orders[k].closes => j = k
    /\ \A o \in Keys : ~Closes(o) /\ orders[o].trading = "CLOSEING" =>
          \E k \in Keys : orders[k].closes = orders[o].ticket /\ Pending(k)
Locking ==
    Sides \subseteq {"buy"} /\ lost = 0 => Buying /\ ClosesAnOpener /\ InMarket /\ Ending /\ Locks

OrdersInv ==
    /\ OrdersTyped /\ Covered /\ Booking /\ Ticketing /\ AskedOnce
    /\ Answering /\ InTurn /\ Announcing /\ Freezing /\ Locking

\* What the exchange has booked already and the node will book with the message m.
Due(m) ==
    IF m.kind = "exdr" THEN m.paid
    ELSE IF m.kind = "new" THEN -m.margin
    ELSE IF m.kind = "filled" THEN
        IF m.closes = NoTicket THEN Cost(m.key) - m.margin - m.commission
        ELSE m.margin - m.commission
    ELSE IF m.kind = "canceled" THEN
        IF m.closes = NoTicket /\ book[m.ticket].open = 0 THEN Cost(m.key) ELSE 0
    ELSE 0
Dues == [i \in DOMAIN toNode |-> Due(toNode[i])]
Mirroring ==
    SumFunctionOnSet(cash, Accounts) + SumFunctionOnSet(Dues, DOMAIN toNode)
        = credit + drift

\* The ledger holds the cost of an opening order while it is live, and nothing for
\* a closing one.
Charging ==
    \A t \in Tickets : book[t].live =>
        book[t].margin = IF book[t].closes = NoTicket THEN Cost(book[t].key) ELSE 0

\* The node holds the cost of an order from its ticket until it hears the end.
Keeping ==
    \A t \in Tickets : book[t].closes = NoTicket =>
        /\ orders[book[t].key].ticket = NoTicket => t \notin DOMAIN margins
        /\ /\ orders[book[t].key].ticket # NoTicket
           /\ Alive(book[t].key) \/ Answered(book[t].key)
           => t \in DOMAIN margins /\ margins[t] = Cost(book[t].key)

\* Of the orders that are cancelled the node knows those that were in the market;
\* only that the order is refused is told after that.
Refusing ==
    \A i \in DOMAIN toNode :
        LET m == toNode[i]
        IN  m.kind = "canceled" /\ m.closes = NoTicket =>
                /\ book[m.ticket].open = 0 <=> Known(m.key)
                /\ \A j \in DOMAIN toNode :
                      i < j /\ About(j, m.key) => toNode[j].kind = "reject"
LedgerInv ==
    Sides \subseteq {"buy"} /\ lost = 0 => Charging /\ Keeping /\ Refusing /\ Mirroring

\* An order that is in the market has a ticket, and executes no more; neither does
\* one that another closes.
OverIsNotLive ==
    \A k \in Keys :
        /\ orders[k].trading \in Over =>
              ~Closes(k) /\ orders[k].ticket # NoTicket /\ ~Alive(k)
        /\ Closes(k) => ~Closes(Closed(k)) /\ ~Alive(Closed(k))

\* An opening order has a price.
Priced == \A k \in Keys : ~Closes(k) => orders[k].price # 0

\* What has executed can be closed; no report has more than was ordered.
Counting ==
    /\ \A k \in Keys : ~Closes(k) =>
          orders[k].cumqty <= orders[k].openqty /\ orders[k].cumqty <= orders[k].qty
    /\ \A t \in Tickets : book[t].live /\ book[t].closes = NoTicket =>
          book[t].qty <= orders[book[t].key].qty
    /\ \A i \in DOMAIN toNode :
          toNode[i].kind \in {"new", "partial", "filled"} /\ toNode[i].closes = NoTicket =>
              toNode[i].cum <= orders[toNode[i].key].qty
CountInv == OverIsNotLive /\ Priced /\ Counting

-----------------------------------------------------------------------------
(* Numbers and sequences. *)

LEMMA EquityIsNat ==
    ASSUME NEW p \in Nat, NEW q \in Nat
    PROVE  Equity(p, q) \in Nat
  <1>1. PICK f \in Nat : f = MarginFactor
    BY TraderNodeAssumption
  <1>2. p * q \in Nat
    OBVIOUS
  <1>3. PICK x \in Nat : x = p * q
    BY <1>2
  <1>4. x * f \in Nat
    OBVIOUS
  <1> QED
    BY <1>1, <1>3, <1>4 DEF Equity

LEMMA FeeIsNat ==
    ASSUME NEW o \in Entry
    PROVE  Fee(o) \in Nat
  <1>1. PICK f \in Nat : f = FeeFactor
    BY TraderNodeAssumption
  <1>2. PICK p \in Nat, q \in Nat : p = o.price /\ q = o.qty
    BY DEF Entry
  <1>3. PICK x \in Nat : x = p * q
    OBVIOUS
  <1>4. x * f \in Nat
    OBVIOUS
  <1> QED
    BY <1>1, <1>2, <1>3, <1>4 DEF Fee

LEMMA FiniteAccounts == IsFiniteSet(Accounts) /\ Accounts # {}
  BY TraderNodeAssumption, FS_Singleton DEF Accounts

\* Functions on 1 .. n are sequences, and sequences are such functions.
LEMMA FunctionIsSeq ==
    ASSUME NEW S, NEW n \in Nat, NEW f \in [1 .. n -> S]
    PROVE  f \in Seq(S) /\ Len(f) = n /\ DOMAIN f = 1 .. n
  <1>1. f \in Seq(S)
    BY SeqDef
  <1> QED
    BY <1>1, LenProperties

LEMMA SeqIsFunction ==
    ASSUME NEW S, NEW q \in Seq(S)
    PROVE  /\ Len(q) \in Nat /\ DOMAIN q = 1 .. Len(q)
           /\ q \in [1 .. Len(q) -> S] /\ \A i \in 1 .. Len(q) : q[i] \in S
  BY LenProperties

LEMMA AppendIs ==
    ASSUME NEW S, NEW q \in Seq(S), NEW e \in S
    PROVE  /\ Append(q, e) \in Seq(S) /\ Len(Append(q, e)) = Len(q) + 1
           /\ DOMAIN Append(q, e) = 1 .. Len(q) + 1
           /\ \A i \in 1 .. Len(q) : Append(q, e)[i] = q[i]
           /\ Append(q, e)[Len(q) + 1] = e
  BY AppendProperties, LenProperties

LEMMA TailIs ==
    ASSUME NEW S, NEW q \in Seq(S), q # << >>
    PROVE  /\ Tail(q) \in Seq(S) /\ Len(Tail(q)) = Len(q) - 1 /\ Len(q) > 0
           /\ Head(q) = q[1] /\ Head(q) \in S
           /\ DOMAIN Tail(q) = 1 .. Len(q) - 1
           /\ \A i \in 1 .. Len(q) - 1 : Tail(q)[i] = q[i + 1]
  <1>1. Len(q) \in Nat /\ Len(q) # 0
    BY EmptySeq, LenProperties
  <1> QED
    BY <1>1, HeadTailProperties, LenProperties

\* The domains of what OrdersTyped types.
LEMMA OrdersDomains ==
    ASSUME OrdersTyped
    PROVE  /\ Len(orders) \in Nat /\ Keys = 1 .. Len(orders)
           /\ \A k \in Keys : orders[k] \in OrderRecord
           /\ Len(book) \in Nat /\ Tickets = 1 .. Len(book)
           /\ \A t \in Tickets : book[t] \in Entry
           /\ Len(toExchange) \in Nat /\ DOMAIN toExchange = 1 .. Len(toExchange)
           /\ \A i \in DOMAIN toExchange : toExchange[i] \in Requests
           /\ Len(toNode) \in Nat /\ DOMAIN toNode = 1 .. Len(toNode)
           /\ \A i \in DOMAIN toNode : toNode[i] \in Reports \cup Rejects \cup Exdrs
           /\ NoTicket \notin Tickets
  <1>1. /\ orders \in Seq(OrderRecord) /\ book \in Seq(Entry)
        /\ toExchange \in Seq(Requests)
        /\ toNode \in Seq(Reports \cup Rejects \cup Exdrs)
    BY DEF OrdersTyped
  <1>2. Len(orders) \in Nat /\ Keys = 1 .. Len(orders)
        /\ \A k \in Keys : orders[k] \in OrderRecord
    BY <1>1, SeqIsFunction DEF Keys
  <1>3. Len(book) \in Nat /\ Tickets = 1 .. Len(book)
        /\ \A t \in Tickets : book[t] \in Entry
    BY <1>1, SeqIsFunction DEF Tickets
  <1>4. Len(toExchange) \in Nat /\ DOMAIN toExchange = 1 .. Len(toExchange)
        /\ \A i \in DOMAIN toExchange : toExchange[i] \in Requests
    BY <1>1, SeqIsFunction
  <1>5. Len(toNode) \in Nat /\ DOMAIN toNode = 1 .. Len(toNode)
        /\ \A i \in DOMAIN toNode : toNode[i] \in Reports \cup Rejects \cup Exdrs
    BY <1>1, SeqIsFunction
  <1>6. NoTicket \notin Tickets
    BY <1>3 DEF NoTicket
  <1> QED
    BY <1>2, <1>3, <1>4, <1>5, <1>6

LEMMA MessageIs ==
    ASSUME NEW m \in Reports \cup Rejects \cup Exdrs
    PROVE  /\ m.kind \in {"new", "partial", "filled", "canceled"} => m \in Reports
           /\ m.kind = "reject" => m \in Rejects
           /\ m.kind = "exdr" => m \in Exdrs
           /\ m.kind \in {"new", "partial", "filled", "canceled", "reject", "exdr"}
  BY DEF Reports, Rejects, Exdrs

-----------------------------------------------------------------------------
(* A script sends an order. *)

\* What a step that sends the request r does to what it says of orders.
Same(k) ==
    /\ orders'[k].thread = orders[k].thread /\ orders'[k].side = orders[k].side
    /\ orders'[k].price = orders[k].price /\ orders'[k].qty = orders[k].qty
    /\ orders'[k].closes = orders[k].closes
    /\ orders'[k].ticket = orders[k].ticket
    /\ orders[k].ticket = NoTicket => orders'[k].trading = orders[k].trading
Sent(r) ==
    LET n == Len(orders) + 1
        o == orders'[n]
    IN  /\ r \in Requests /\ r.key = n
        /\ Len(orders') = n /\ DOMAIN orders' = 1 .. n
        /\ \A k \in Keys : Same(k)
        /\ o.ticket = NoTicket /\ o.trading = "PENDING"
        /\ o.closes = r.closes /\ o.side = r.side
        /\ r.closes # NoTicket => r.closes \in DOMAIN ticketOf
        /\ r.closes = NoTicket => r.price = o.price /\ r.qty = o.qty
        /\ toExchange' = Append(toExchange, r)
        /\ ticketOf' = ticketOf /\ margins' = margins
        /\ book' = book /\ toNode' = toNode /\ lost' = lost

\* What it does to what is counted and to the accounts: an order that is closed is in
\* the market.
Registers(r) ==
    LET n == Len(orders) + 1
    IN  /\ cash' = cash /\ credit' = credit /\ drift' = drift
        /\ \A k \in Keys :
              /\ orders'[k].cumqty = orders[k].cumqty
              /\ orders'[k].openqty = orders[k].openqty
              /\ orders'[k].trading # orders[k].trading => orders[k].trading = "MARKET"
        /\ orders'[n].cumqty = 0 /\ orders'[n].openqty >= 0
        /\ IF r.closes = NoTicket THEN orders'[n].price # 0
           ELSE \E k \in Keys : orders[k].ticket = r.closes /\ orders[k].trading = "MARKET"

LEMMA SentKeeps ==
    ASSUME OrdersInv, NEW r, Sent(r)
    PROVE  Booking' /\ Ticketing' /\ AskedOnce' /\ Answering' /\ InTurn' /\ Announcing'
<1> DEFINE n == Len(orders) + 1
<1>1. /\ OrdersTyped /\ Booking /\ Ticketing /\ AskedOnce
      /\ Answering /\ InTurn /\ Announcing
  BY DEF OrdersInv
<1>2. /\ Len(orders) \in Nat /\ Keys = 1 .. Len(orders)
      /\ Keys' = 1 .. n /\ n \notin Keys /\ Keys \subseteq Keys' /\ n \in Keys'
      /\ Tickets' = Tickets
      /\ \A k \in Keys' : k \in Keys \/ k = n
  BY <1>1, OrdersDomains DEF Sent, Keys, Tickets
<1>3. /\ \A k \in Keys : Same(k)
      /\ orders'[n].ticket = NoTicket /\ orders'[n].trading = "PENDING"
      /\ orders'[n].closes = r.closes /\ orders'[n].side = r.side
      /\ r.closes # NoTicket => r.closes \in DOMAIN ticketOf
      /\ r.closes = NoTicket => r.price = orders'[n].price /\ r.qty = orders'[n].qty
      /\ ticketOf' = ticketOf /\ margins' = margins
      /\ book' = book /\ toNode' = toNode /\ lost' = lost
      /\ r \in Requests /\ r.key = n
  BY DEF Sent
<1> HIDE DEF n
<1>4. /\ \A t \in Tickets : book[t].key \in Keys
      /\ \A i \in DOMAIN toNode : toNode[i].kind # "exdr" => toNode[i].key \in Keys
  <2>1. \A i \in DOMAIN toNode : toNode[i].kind
            \in {"new", "partial", "filled", "canceled", "reject", "exdr"}
    BY <1>1, OrdersDomains, MessageIs
  <2> QED
    BY <1>1, <2>1 DEF Booking, Answering, Sound, Reporting, Rejecting
<1>5. Booking'
  BY <1>1, <1>2, <1>3, <1>4 DEF Booking, Same
<1>6. Ticketing'
  <2>1. \A t \in DOMAIN ticketOf : ticketOf[t] \in Keys
    BY <1>1, <1>4 DEF Ticketing
  <2>2. /\ DOMAIN ticketOf' \subseteq Tickets' /\ DOMAIN margins' \subseteq Tickets'
        /\ \A t \in DOMAIN ticketOf' : ticketOf'[t] = book'[t].key
    BY <1>1, <1>2, <1>3 DEF Ticketing
  <2>3. \A t \in DOMAIN ticketOf' : orders'[ticketOf'[t]].ticket = t
    BY <1>1, <1>3, <2>1 DEF Ticketing, Same
  <2>4. \A k \in Keys : orders'[k].ticket = orders[k].ticket /\ orders'[k].closes = orders[k].closes
    BY <1>3 DEF Same
  <2>5. ASSUME NEW k \in Keys'
        PROVE  /\ orders'[k].ticket # NoTicket =>
                     orders'[k].ticket \in DOMAIN ticketOf /\ ticketOf[orders'[k].ticket] = k
               /\ orders'[k].closes # NoTicket => orders'[k].closes \in DOMAIN ticketOf
    <3>1. CASE k \in Keys
      BY <1>1, <2>4, <3>1 DEF Ticketing
    <3>2. CASE k = n
      BY <1>3, <3>2
    <3> QED
      BY <1>2, <2>5, <3>1, <3>2
  <2> QED
    BY <1>3, <2>2, <2>3, <2>5 DEF Ticketing
<1>7. AskedOnce'
  <2>1. /\ Len(toExchange) \in Nat /\ DOMAIN toExchange = 1 .. Len(toExchange)
        /\ DOMAIN toExchange' = 1 .. Len(toExchange) + 1
        /\ \A i \in DOMAIN toExchange : toExchange'[i] = toExchange[i]
        /\ toExchange'[Len(toExchange) + 1] = r
    <3>1. toExchange \in Seq(Requests) /\ r \in Requests /\ toExchange' = Append(toExchange, r)
      BY <1>1 DEF OrdersTyped, Sent
    <3> QED
      BY <3>1, SeqIsFunction, AppendIs
  <2>2. ASSUME NEW q, Asking(q)
        PROVE  Asking(q)' /\ q.key \in Keys /\ q.key # n
    BY <1>1, <1>2, <1>3, <2>2
       DEF Asking, Untouched, Same, Booked, Answered, About
  <2>3. Asking(r)'
    BY <1>2, <1>3, <1>4 DEF Asking, Untouched, Booked, Answered, About
  <2> QED
    BY <1>1, <1>2, <1>3, <2>1, <2>2, <2>3 DEF AskedOnce
<1>8. Answering'
  <2>1. ASSUME NEW m, Reporting(m) PROVE Reporting(m)'
    BY <1>2, <1>3, <1>4, <2>1 DEF Reporting, Untouched, Cost, Same
  <2>2. ASSUME NEW m, Rejecting(m) PROVE Rejecting(m)'
    BY <1>2, <1>3, <1>4, <2>2 DEF Rejecting, Alive, Booked, Same
  <2> QED
    BY <1>1, <1>2, <1>3, <2>1, <2>2 DEF Answering, Sound
<1>9. InTurn'
  BY <1>1, <1>3 DEF InTurn, About
<1>10. Announcing'
  <2>1. \A k \in Keys : Known(k)' <=> Known(k)
    BY <1>3 DEF Known, Same
  <2> QED
    BY <1>1, <1>2, <1>3, <1>4, <2>1 DEF Announcing
<1> QED
  BY <1>5, <1>6, <1>7, <1>8, <1>9, <1>10

\* What the request r does to the status of the orders there are.
Asks(r) ==
    LET n == Len(orders) + 1
        x == ticketOf[r.closes]
    IN  /\ r.closes = NoTicket =>
              /\ orders'[n].side \in Sides
              /\ \A k \in Keys : orders'[k].trading = orders[k].trading
        /\ r.closes # NoTicket =>
              /\ orders'[n].side = Opposite(orders[x].side)
              /\ ~Closes(x) /\ orders[x].trading = "MARKET"
              /\ orders'[x].trading = "CLOSEING"
              /\ \A k \in Keys \ {x} : orders'[k].trading = orders[k].trading

LEMMA LockingSent ==
    ASSUME OrdersInv, NEW r, Sent(r), Asks(r)
    PROVE  Locking'
<1>0. PICK n, x : n = Len(orders) + 1 /\ x = ticketOf[r.closes]
  OBVIOUS
<1>1. SUFFICES ASSUME Sides \subseteq {"buy"}, lost' = 0
               PROVE  (Buying /\ ClosesAnOpener /\ InMarket /\ Ending /\ Locks)'
  BY DEF Locking
<1>2. /\ OrdersTyped /\ Booking /\ Ticketing /\ AskedOnce /\ Answering
      /\ Buying /\ ClosesAnOpener /\ InMarket /\ Ending /\ Locks
  BY <1>1 DEF OrdersInv, Locking, Sent
<1>3. /\ \A k \in Keys : Same(k)
      /\ orders'[n].ticket = NoTicket /\ orders'[n].trading = "PENDING"
      /\ orders'[n].closes = r.closes
      /\ r.closes # NoTicket => r.closes \in DOMAIN ticketOf
      /\ ticketOf' = ticketOf /\ book' = book /\ toNode' = toNode /\ r.key = n
      /\ toExchange' = Append(toExchange, r) /\ r \in Requests
  BY <1>0 DEF Sent
<1>4. /\ Keys' = Keys \cup {n} /\ n \notin Keys /\ Tickets' = Tickets
  <2>1. Len(orders) \in Nat /\ Keys = 1 .. Len(orders) /\ Keys' = 1 .. n
    BY <1>0, <1>2, OrdersDomains DEF Sent, Keys
  <2> QED
    BY <1>0, <1>3, <2>1 DEF Tickets
<1>5. /\ r.closes = NoTicket =>
            /\ orders'[n].side \in Sides
            /\ \A k \in Keys : orders'[k].trading = orders[k].trading
      /\ r.closes # NoTicket =>
            /\ orders'[n].side = Opposite(orders[x].side)
            /\ ~Closes(x) /\ orders[x].trading = "MARKET"
            /\ orders'[x].trading = "CLOSEING"
            /\ \A k \in Keys \ {x} : orders'[k].trading = orders[k].trading
  BY <1>0 DEF Asks
<1>6. /\ \A t \in DOMAIN ticketOf : ticketOf[t] \in Keys /\ orders[ticketOf[t]].ticket = t
      /\ \A k \in Keys : orders[k].closes # NoTicket => orders[k].closes \in DOMAIN ticketOf
      /\ r.closes # NoTicket => x \in Keys /\ orders[x].ticket = r.closes
  BY <1>0, <1>2, <1>3 DEF Ticketing, Booking
<1>7. /\ \A k \in Keys : /\ Closes(k)' <=> Closes(k)
                         /\ Closes(k) => Closed(k)' = Closed(k) /\ Closed(k) \in Keys
      /\ Closes(n)' <=> r.closes # NoTicket
      /\ Closes(n)' => Closed(n)' = x
  BY <1>0, <1>3, <1>6 DEF Closes, Closed, Same
<1>8. /\ \A k \in Keys : /\ Asked(k)' <=> Asked(k)
                         /\ Alive(k)' <=> Alive(k)
                         /\ Answered(k)' <=> Answered(k)
                         /\ Pending(k)' <=> Pending(k)
      /\ Asked(n)' /\ Pending(n)'
  <2>1. /\ Len(toExchange) \in Nat /\ DOMAIN toExchange = 1 .. Len(toExchange)
        /\ DOMAIN toExchange' = 1 .. Len(toExchange) + 1
        /\ \A i \in DOMAIN toExchange : toExchange'[i] = toExchange[i]
        /\ toExchange'[Len(toExchange) + 1] = r
    <3>1. toExchange \in Seq(Requests)
      BY <1>2 DEF OrdersTyped
    <3> QED
      BY <1>3, <3>1, SeqIsFunction, AppendIs
  <2>2. \A k \in Keys : Asked(k)' <=> Asked(k)
    BY <1>3, <1>4, <2>1 DEF Asked
  <2>3. \A k : (Alive(k)' <=> Alive(k)) /\ (Answered(k)' <=> Answered(k))
    BY <1>3, <1>4 DEF Alive, Answered, About
  <2>4. Asked(n)'
    BY <1>0, <1>3, <2>1 DEF Asked
  <2> QED
    BY <2>2, <2>3, <2>4 DEF Pending
<1>9. Buying' /\ ClosesAnOpener'
  <2>1. orders'[n].side = "buy" <=> ~Closes(n)'
    BY <1>1, <1>2, <1>5, <1>6, <1>7 DEF Buying, Opposite
  <2>2. Buying'
    BY <1>2, <1>3, <1>4, <1>7, <2>1 DEF Buying, Same
  <2>3. ClosesAnOpener'
    BY <1>2, <1>4, <1>5, <1>6, <1>7 DEF ClosesAnOpener
  <2> QED
    BY <2>2, <2>3
<1>10. InMarket'
  <2>1. \A k \in Keys : orders'[k].trading \in Over => orders[k].trading \in Over
    BY <1>5 DEF Over
  <2>2. orders'[n].trading \notin Over
    BY <1>3 DEF Over
  <2> QED
    BY <1>2, <1>3, <1>4, <1>7, <1>8, <2>1, <2>2 DEF InMarket, Same
<1>11. Ending'
  BY <1>2, <1>3, <1>4, <1>7, <1>8 DEF Ending, About
<1>12. Locks'
  <2>1. ASSUME NEW k \in Keys, Closes(k), Pending(k)
        PROVE  /\ orders[Closed(k)].trading = "CLOSEING"
               /\ orders'[Closed(k)].trading = "CLOSEING"
               /\ r.closes # NoTicket => orders[k].closes # r.closes
    <3>1. orders[Closed(k)].trading = "CLOSEING" /\ Closed(k) \in Keys
      BY <1>2, <1>7, <2>1 DEF Locks
    <3>2. r.closes # NoTicket => Closed(k) # x
      BY <1>5, <3>1
    <3> QED
      BY <1>0, <1>5, <3>1, <3>2 DEF Closed
  <2>2. ASSUME NEW k \in Keys', Closes(k)', Pending(k)'
        PROVE  orders'[Closed(k)'].trading = "CLOSEING"
    BY <1>4, <1>5, <1>7, <1>8, <2>1, <2>2
  <2>3. ASSUME NEW k \in Keys', Closes(k)', Pending(k)',
               NEW j \in Keys', Pending(j)', orders'[j].closes = orders'[k].closes
        PROVE  j = k
    <3>1. Closes(j)'
      BY <2>3 DEF Closes
    <3>2. CASE j \in Keys /\ k \in Keys
      <4>1. Closes(k) /\ Pending(k) /\ Pending(j)
        BY <1>7, <1>8, <2>3, <3>2
      <4>2. orders[j].closes = orders[k].closes
        BY <1>3, <2>3, <3>2 DEF Same
      <4> QED
        BY <1>2, <3>2, <4>1, <4>2 DEF Locks
    <3>3. ASSUME NEW i \in Keys, Closes(i)', Pending(i)', orders'[i].closes = r.closes
          PROVE  FALSE
      BY <1>3, <1>7, <1>8, <2>1, <3>3 DEF Same, Closes
    <3> QED
      BY <1>3, <1>4, <2>3, <3>1, <3>2, <3>3
  <2>4. ASSUME NEW o \in Keys', ~Closes(o)', orders'[o].trading = "CLOSEING"
        PROVE  \E k \in Keys' : orders'[k].closes = orders'[o].ticket /\ Pending(k)'
    <3>1. o \in Keys
      BY <1>3, <1>4, <2>4
    <3>2. CASE r.closes # NoTicket /\ o = x
      <4>1. orders'[n].closes = orders'[o].ticket
        BY <1>3, <1>6, <3>1, <3>2 DEF Same
      <4> QED
        BY <1>4, <1>8, <4>1
    <3>3. CASE ~(r.closes # NoTicket /\ o = x)
      <4>1. orders[o].trading = "CLOSEING" /\ ~Closes(o)
        BY <1>5, <1>7, <2>4, <3>1, <3>3
      <4>2. PICK k \in Keys : orders[k].closes = orders[o].ticket /\ Pending(k)
        BY <1>2, <3>1, <4>1 DEF Locks
      <4> QED
        BY <1>3, <1>4, <1>8, <3>1, <4>2 DEF Same
    <3> QED
      BY <3>2, <3>3
  <2>5. \A k \in Keys' : Closes(k)' /\ Pending(k)' =>
           /\ orders'[Closed(k)'].trading = "CLOSEING"
           /\ \A j \in Keys' : Pending(j)' /\ orders'[j].closes = orders'[k].closes => j = k
    BY <2>2, <2>3
  <2>6. \A o \in Keys' : ~Closes(o)' /\ orders'[o].trading = "CLOSEING" =>
           \E k \in Keys' : orders'[k].closes = orders'[o].ticket /\ Pending(k)'
    BY <2>4
  <2> QED
    BY <2>5, <2>6 DEF Locks
<1> QED
  BY <1>9, <1>10, <1>11, <1>12

-----------------------------------------------------------------------------
(* The exchange takes a request or executes or cancels an order. *)

\* What a step of the exchange about the order k does to what it says of orders;
\* no order's key is NoTicket.
Taken(k) ==
    \/ ~Asked(k) /\ toExchange' = toExchange /\ DOMAIN book' = Tickets
    \/ /\ toExchange # << >> /\ toExchange' = Tail(toExchange)
       /\ Head(toExchange).key = k
Exchanged(k) ==
    /\ mode' = mode /\ orders' = orders /\ ticketOf' = ticketOf
    /\ margins' = margins /\ freeze' = freeze
    /\ lost' \in Nat /\ (lost' = 0 => lost = 0)
    /\ Taken(k)
    /\ DOMAIN toNode \subseteq DOMAIN toNode'
    /\ \A i \in DOMAIN toNode : toNode'[i] = toNode[i]
    /\ \A i \in DOMAIN toNode' \ DOMAIN toNode :
          toNode'[i].kind # "exdr" => toNode'[i].key = k
    /\ Tickets \subseteq DOMAIN book'
    /\ \A t \in Tickets :
          /\ book'[t].key = book[t].key /\ book'[t].closes = book[t].closes
          /\ book'[t].live => book[t].live
    /\ \A t \in DOMAIN book' :
          /\ book'[t].leaves <= book'[t].qty
          /\ book'[t].live => book'[t].leaves > 0
    /\ \A t \in DOMAIN book' \ Tickets :
          /\ book'[t].key = k /\ k \in Keys /\ book'[t].closes = orders[k].closes
          /\ \A u \in DOMAIN book' \ Tickets : u = t

\* Of an order whose request is taken nothing was known.
LEMMA TakenIsUnknown ==
    ASSUME OrdersInv, NEW k, Taken(k), DOMAIN book' # Tickets
    PROVE  Untouched(k) /\ ~Booked(k) /\ ~Answered(k)
<1>1. /\ toExchange # << >> /\ Head(toExchange).key = k
      /\ toExchange \in Seq(Requests) /\ AskedOnce
  BY DEF Taken, OrdersInv, OrdersTyped
<1>2. 1 \in DOMAIN toExchange /\ Head(toExchange) = toExchange[1]
  BY <1>1, TailIs, SeqIsFunction
<1> QED
  BY <1>1, <1>2 DEF AskedOnce, Asking

LEMMA ExchangedKeeps ==
    ASSUME OrdersInv, NEW k, Exchanged(k)
    PROVE  /\ Booking' /\ Ticketing' /\ AskedOnce' /\ Freezing'
           /\ \A m : (\E i \in DOMAIN toNode : m = toNode[i]) => Sound(m)'
<1>1. /\ OrdersTyped /\ Booking /\ Ticketing /\ AskedOnce
      /\ Answering /\ Freezing
  BY DEF OrdersInv
<1>2. /\ mode' = mode /\ orders' = orders /\ ticketOf' = ticketOf
      /\ margins' = margins /\ freeze' = freeze
      /\ lost' \in Nat /\ (lost' = 0 => lost = 0)
      /\ DOMAIN toNode \subseteq DOMAIN toNode'
      /\ \A i \in DOMAIN toNode : toNode'[i] = toNode[i]
      /\ \A i \in DOMAIN toNode' \ DOMAIN toNode :
            toNode'[i].kind # "exdr" => toNode'[i].key = k
  BY DEF Exchanged
<1>3. /\ Keys' = Keys /\ Tickets' = DOMAIN book' /\ Tickets \subseteq Tickets'
      /\ \A t \in Tickets :
            /\ book'[t].key = book[t].key /\ book'[t].closes = book[t].closes
            /\ book'[t].live => book[t].live
      /\ \A t \in Tickets' :
            /\ book'[t].leaves <= book'[t].qty
            /\ book'[t].live => book'[t].leaves > 0
      /\ \A t \in Tickets' \ Tickets :
            /\ book'[t].key = k /\ k \in Keys /\ book'[t].closes = orders[k].closes
            /\ \A u \in Tickets' \ Tickets : u = t
  BY <1>2 DEF Exchanged, Keys, Tickets
<1>4. Tickets' # Tickets => Untouched(k) /\ ~Booked(k) /\ ~Answered(k)
  BY <1>3, TakenIsUnknown DEF Exchanged
<1>5. Booking'
  <2>1. \A t \in Tickets : book[t].key = k => Tickets' = Tickets
    BY <1>4 DEF Booked
  <2> QED
    BY <1>1, <1>2, <1>3, <2>1 DEF Booking
<1>6. Ticketing'
  <2>1. \A t \in DOMAIN ticketOf : book'[t].key = book[t].key
    BY <1>1, <1>3 DEF Ticketing
  <2> QED
    BY <1>1, <1>2, <1>3, <2>1 DEF Ticketing
<1>7. ASSUME NEW j, j # k PROVE (Booked(j) <=> Booked(j)') /\ (Answered(j) <=> Answered(j)')
  BY <1>2, <1>3, <1>7 DEF Booked, Answered, About
<1>8. AskedOnce'
  <2>1. ASSUME NEW r, Asking(r), r.key # k PROVE Asking(r)'
    BY <1>2, <1>3, <1>7, <2>1 DEF Asking, Untouched
  <2>2. CASE ~Asked(k) /\ toExchange' = toExchange
    BY <1>1, <2>1, <2>2 DEF AskedOnce, Asked
  <2>3. CASE /\ toExchange # << >> /\ toExchange' = Tail(toExchange)
             /\ Head(toExchange).key = k
    <3>1. toExchange \in Seq(Requests)
      BY <1>1 DEF OrdersTyped
    <3>2. /\ Len(toExchange) \in Nat /\ DOMAIN toExchange = 1 .. Len(toExchange)
          /\ DOMAIN toExchange' = 1 .. Len(toExchange) - 1
          /\ \A i \in DOMAIN toExchange' : toExchange'[i] = toExchange[i + 1]
          /\ toExchange[1].key = k /\ 1 \in DOMAIN toExchange
      BY <2>3, <3>1, TailIs, SeqIsFunction
    <3>3. \A i \in DOMAIN toExchange' : i + 1 \in DOMAIN toExchange /\ i + 1 # 1
      BY <3>2
    <3>4. \A i \in DOMAIN toExchange' : toExchange'[i].key # k
      BY <1>1, <3>2, <3>3 DEF AskedOnce
    <3>5. \A i \in DOMAIN toExchange' : Asking(toExchange[i + 1])
      BY <1>1, <3>3 DEF AskedOnce
    <3>6. \A i, j \in DOMAIN toExchange' : toExchange'[j].key = toExchange'[i].key => j = i
      <4>1. TAKE i, j \in DOMAIN toExchange'
      <4>2. toExchange'[j].key = toExchange'[i].key => i + 1 = j + 1
        BY <1>1, <3>2, <3>3, <4>1 DEF AskedOnce
      <4>3. i \in Int /\ j \in Int
        BY <3>2, <4>1
      <4> QED
        BY <4>2, <4>3
    <3>7. \A i \in DOMAIN toExchange' : \E r : r = toExchange'[i] /\ Asking(r) /\ r.key # k
      BY <3>2, <3>4, <3>5
    <3>8. \A i \in DOMAIN toExchange' : \E r : r = toExchange'[i] /\ Asking(r)'
      BY <2>1, <3>7
    <3> QED
      BY <3>6, <3>8 DEF AskedOnce
  <2> QED
    BY <2>2, <2>3 DEF Exchanged, Taken
<1>9. ASSUME NEW m, NEW i \in DOMAIN toNode, m = toNode[i]
      PROVE  Sound(m)'
  <2>1. /\ Reporting(m) /\ Rejecting(m)
        /\ m.kind = "exdr" => m.tickets \subseteq Tickets
    BY <1>1, <1>9 DEF Answering, Sound
  <2>2. Reporting(m)'
    BY <1>2, <1>3, <2>1 DEF Reporting, Untouched, Cost
  <2>3. ASSUME m.kind = "reject" PROVE Rejecting(m)'
    <3>1. Answered(m.key)
      BY <1>9, <2>3 DEF Answered, About
    <3>2. m.key = k => Tickets' = Tickets
      BY <1>4, <3>1
    <3>3. (Booked(m.key) <=> Booked(m.key)') /\ (Alive(m.key)' => Alive(m.key))
      BY <1>3, <3>2 DEF Booked, Alive
    <3> QED
      BY <1>2, <1>3, <2>1, <3>3 DEF Rejecting
  <2> QED
    BY <1>3, <2>1, <2>2, <2>3 DEF Rejecting, Sound
<1>10. Freezing'
  <2>1. Costs' = Costs /\ Accounts' = Accounts
    BY <1>2, <1>3 DEF Costs, Cost, Accounts
  <2>2. ASSUME NEW a \in Accounts PROVE Held(a)' = Held(a)
    <3>1. ASSUME NEW j \in Keys, orders[j].trading = "REJECT"
          PROVE  Booked(j) <=> Booked(j)'
      BY <1>2, <1>3, <1>4, <3>1 DEF Booked, Untouched
    <3> QED
      BY <1>2, <1>3, <3>1 DEF Held, Owner, Account, Booked
  <2> QED
    BY <1>1, <1>2, <2>1, <2>2 DEF Freezing
<1> QED
  BY <1>2, <1>5, <1>6, <1>8, <1>9, <1>10

\* What a step about the order k adds to what the node will hear.
Tells(k) ==
    /\ toNode' \in Seq(Reports \cup Rejects \cup Exdrs)
    /\ \A i \in DOMAIN toNode' \ DOMAIN toNode :
          /\ \E m : m = toNode'[i] /\ Sound(m)'
          /\ \A j \in DOMAIN toNode' \ DOMAIN toNode :
                i < j => /\ toNode'[i].kind = "canceled"
                         /\ toNode'[i].closes = NoTicket
                         /\ toNode'[j].kind = "reject"
          /\ toNode'[i].kind \in {"partial", "filled"} => Alive(k)
          /\ toNode'[i].kind \in {"new", "reject"} => ~Answered(k)
    /\ Alive(k) \/ ~Answered(k)
    /\ lost' = 0 => \A t \in DOMAIN book' \ Tickets : book'[t].live =>
          \E i \in DOMAIN toNode' : toNode'[i].kind = "new" /\ toNode'[i].key = k

LEMMA ToldInTurn ==
    ASSUME OrdersInv, NEW k, Exchanged(k), Tells(k)
    PROVE  Answering' /\ InTurn' /\ Announcing'
<1> DEFINE old == DOMAIN toNode
           more == DOMAIN toNode' \ DOMAIN toNode
<1>1. /\ OrdersTyped /\ Booking /\ Answering /\ InTurn /\ Announcing
  BY DEF OrdersInv
<1>2. /\ mode' = mode /\ orders' = orders
      /\ lost' \in Nat /\ (lost' = 0 => lost = 0)
      /\ old \subseteq DOMAIN toNode'
      /\ \A i \in old : toNode'[i] = toNode[i]
      /\ \A i \in more : toNode'[i].kind # "exdr" => toNode'[i].key = k
      /\ \A i \in DOMAIN toNode' : i \in old \/ i \in more
  BY DEF Exchanged
<1>3. /\ Tickets \subseteq DOMAIN book' /\ Tickets' = DOMAIN book'
      /\ \A t \in Tickets :
            /\ book'[t].key = book[t].key /\ (book'[t].live => book[t].live)
      /\ \A t \in DOMAIN book' \ Tickets : book'[t].key = k
  BY DEF Exchanged, Tickets
<1>4. /\ \A i, j \in more : i < j => /\ toNode'[i].kind = "canceled"
                                     /\ toNode'[i].closes = NoTicket
                                     /\ toNode'[j].kind = "reject"
      /\ \A i \in more : toNode'[i].kind \in {"partial", "filled"} => Alive(k)
      /\ \A i \in more : toNode'[i].kind \in {"new", "reject"} => ~Answered(k)
      /\ Alive(k) \/ ~Answered(k)
      /\ lost' = 0 => \A t \in DOMAIN book' \ Tickets : book'[t].live =>
            \E i \in DOMAIN toNode' : toNode'[i].kind = "new" /\ toNode'[i].key = k
  BY DEF Tells
<1>5. Answering'
  <2>1. \A i \in more : \E m : m = toNode'[i] /\ Sound(m)'
    BY DEF Tells
  <2>2. \A i \in old : \E m : m = toNode'[i] /\ Sound(m)'
    BY <1>2, ExchangedKeeps
  <2>3. \A i \in DOMAIN toNode' : \E m : m = toNode'[i] /\ Sound(m)'
    BY <1>2, <2>1, <2>2
  <2> QED
    BY <2>3 DEF Answering
<1>6. /\ \A i \in old, j \in more : i < j
      /\ \A i, j \in more : i # j => i < j \/ j < i
  <2>1. /\ Len(toNode) \in Nat /\ old = 1 .. Len(toNode)
        /\ Len(toNode') \in Nat /\ DOMAIN toNode' = 1 .. Len(toNode')
    BY <1>1, OrdersDomains, SeqIsFunction DEF Tells
  <2> QED
    BY <2>1
<1>7. \A i \in old : toNode[i].key = k /\ toNode[i].kind # "exdr" /\ Alive(k) =>
          /\ ~Final(toNode[i])
          /\ toNode[i].kind \in {"new", "partial"}
  <2>1. ASSUME NEW i \in old, toNode[i].key = k, toNode[i].kind # "exdr", Alive(k)
        PROVE  /\ ~Final(toNode[i])
               /\ toNode[i].kind \in {"new", "partial"}
    <3>1. PICK m : m = toNode[i]
      OBVIOUS
    <3>2. /\ Reporting(m) /\ Rejecting(m)
          /\ m.kind \in {"new", "partial", "filled", "canceled", "reject", "exdr"}
      BY <1>1, <3>1, MessageIs, OrdersDomains DEF Answering, Sound
    <3>3. PICK t \in Tickets : book[t].key = k /\ book[t].live
      BY <2>1 DEF Alive
    <3>4. m.kind # "reject" => m.ticket = t
      BY <1>1, <2>1, <3>1, <3>2, <3>3 DEF Reporting, Booking
    <3>5. m.kind \in {"new", "partial"}
      BY <2>1, <3>1, <3>2, <3>3, <3>4 DEF Reporting, Rejecting
    <3> QED
      BY <3>1, <3>5 DEF Final
  <2> QED
    BY <2>1
<1> HIDE DEF old, more
<1>8. InTurn'
  <2>1. ASSUME NEW i \in DOMAIN toNode', NEW j \in DOMAIN toNode', i # j,
               toNode'[j].kind # "exdr", toNode'[i].kind # "exdr",
               toNode'[i].key = toNode'[j].key
        PROVE  /\ toNode'[j].kind = "new" => j < i
               /\ Final(toNode'[j]) => i < j
               /\ toNode'[j].kind = "reject" => toNode'[i].kind = "canceled"
    <3>1. CASE i \in old /\ j \in old
      BY <1>1, <1>2, <2>1, <3>1 DEF InTurn, About, old
    <3>2. CASE i \in old /\ j \in more
      <4>1. toNode[i].key = k /\ toNode[i].kind # "exdr" /\ i < j
        BY <1>2, <1>6, <2>1, <3>2
      <4>2. Answered(k)
        BY <3>2, <4>1 DEF Answered, About, old
      <4> QED
        BY <1>4, <3>2, <4>1, <4>2
    <3>3. CASE i \in more /\ j \in old
      <4>1. toNode[j].key = k /\ toNode[j].kind # "exdr" /\ j < i /\ toNode'[j] = toNode[j]
        BY <1>2, <1>6, <2>1, <3>3
      <4>2. Answered(k)
        BY <3>3, <4>1 DEF Answered, About, old
      <4> QED
        BY <1>4, <1>7, <3>3, <4>1, <4>2
    <3>4. CASE i \in more /\ j \in more
      BY <1>4, <1>6, <2>1, <3>4 DEF Final
    <3> QED
      BY <1>2, <3>1, <3>2, <3>3, <3>4
  <2> QED
    BY <2>1 DEF InTurn, About
<1>9. Announcing'
  <2>1. ASSUME NEW j, Known(j) PROVE Known(j)'
    BY <1>2, <2>1 DEF Known, old
  <2>2. ASSUME lost' = 0
        PROVE  /\ \A t \in Tickets : book[t].live => Known(book[t].key)
               /\ \A i \in old : toNode[i].kind \in {"partial", "filled"} =>
                     Known(toNode[i].key)
    BY <1>1, <1>2, <2>2 DEF Announcing, old
  <2>3. lost' = 0 /\ Alive(k) => Known(k)
    BY <2>2 DEF Alive
  <2>4. ASSUME lost' = 0, NEW t \in Tickets', book'[t].live, NEW j, j = book'[t].key
        PROVE  Known(j)'
    <3>1. CASE t \in Tickets
      BY <1>3, <2>1, <2>2, <2>4, <3>1
    <3>2. CASE t \notin Tickets
      BY <1>3, <1>4, <2>4, <3>2 DEF Known
    <3> QED
      BY <3>1, <3>2
  <2>5. ASSUME lost' = 0, NEW i \in DOMAIN toNode', toNode'[i].kind \in {"partial", "filled"},
               NEW j, j = toNode'[i].key
        PROVE  Known(j)'
    <3>1. CASE i \in old
      BY <1>2, <2>1, <2>2, <2>5, <3>1
    <3>2. CASE i \in more
      BY <1>2, <1>4, <2>1, <2>3, <2>5, <3>2
    <3> QED
      BY <1>2, <3>1, <3>2
  <2> QED
    BY <2>4, <2>5 DEF Announcing
<1> QED
  BY <1>5, <1>8, <1>9

\* What the step means for the order k if it closes a ticket: it is in the market
\* still, or how it ended is told, unless that was lost.
EndsIn(k) ==
    /\ \A t \in Tickets : book[t].key # k => (book'[t].live <=> book[t].live)
    /\ (\E i \in DOMAIN toNode' \ DOMAIN toNode : toNode'[i].kind # "exdr") =>
          Asked(k) \/ Alive(k)
    /\ lost' = 0 /\ k \in Keys /\ Closes(k) /\ (Asked(k) \/ Alive(k)) =>
          \/ \E t \in DOMAIN book' : book'[t].key = k /\ book'[t].live
          \/ \E i \in DOMAIN toNode' \ DOMAIN toNode :
                toNode'[i].kind # "exdr" /\ toNode'[i].key = k /\ Final(toNode'[i])

LEMMA LockingExchanged ==
    ASSUME OrdersInv, NEW k, Exchanged(k), EndsIn(k)
    PROVE  Locking'
<1>1. SUFFICES ASSUME Sides \subseteq {"buy"}, lost' = 0
               PROVE  (Buying /\ ClosesAnOpener /\ InMarket /\ Ending /\ Locks)'
  BY DEF Locking
<1>2. /\ OrdersTyped /\ Booking /\ Ticketing /\ AskedOnce
      /\ Buying /\ ClosesAnOpener /\ InMarket /\ Ending /\ Locks
  BY <1>1 DEF OrdersInv, Locking, Exchanged
<1>3. /\ orders' = orders /\ ticketOf' = ticketOf
      /\ DOMAIN toNode \subseteq DOMAIN toNode'
      /\ \A i \in DOMAIN toNode : toNode'[i] = toNode[i]
      /\ \A i \in DOMAIN toNode' \ DOMAIN toNode :
            toNode'[i].kind # "exdr" => toNode'[i].key = k
      /\ Tickets \subseteq DOMAIN book'
      /\ \A t \in Tickets :
            book'[t].key = book[t].key /\ (book'[t].live => book[t].live)
      /\ \A t \in DOMAIN book' \ Tickets : book'[t].key = k
      /\ Taken(k)
  BY DEF Exchanged
<1>4. /\ Keys' = Keys /\ Tickets' = DOMAIN book'
      /\ \A j : (Closes(j)' <=> Closes(j)) /\ Closed(j)' = Closed(j)
      /\ \A j \in Keys : Closes(j) => Closed(j) \in Keys
  BY <1>2, <1>3 DEF Keys, Tickets, Closes, Closed, Ticketing, Booking
<1>5. ~Asked(k)' /\ \A j : j # k => (Asked(j)' <=> Asked(j))
  <2>1. CASE ~Asked(k) /\ toExchange' = toExchange
    BY <2>1 DEF Asked
  <2>2. CASE /\ toExchange # << >> /\ toExchange' = Tail(toExchange)
             /\ Head(toExchange).key = k
    <3>1. toExchange \in Seq(Requests)
      BY <1>2 DEF OrdersTyped
    <3>2. /\ Len(toExchange) \in Nat /\ DOMAIN toExchange = 1 .. Len(toExchange)
          /\ DOMAIN toExchange' = 1 .. Len(toExchange) - 1
          /\ \A i \in DOMAIN toExchange' : toExchange'[i] = toExchange[i + 1]
          /\ toExchange[1].key = k /\ 1 \in DOMAIN toExchange
      BY <2>2, <3>1, TailIs, SeqIsFunction
    <3>3. \A i \in DOMAIN toExchange' : i + 1 \in DOMAIN toExchange /\ i + 1 # 1
      BY <3>2
    <3>4. \A i \in DOMAIN toExchange' : toExchange'[i].key # k
      BY <1>2, <3>2, <3>3 DEF AskedOnce
    <3>5. ASSUME NEW j, j # k PROVE Asked(j)' <=> Asked(j)
      <4>1. ASSUME NEW i \in DOMAIN toExchange, toExchange[i].key = j
            PROVE  i - 1 \in DOMAIN toExchange' /\ toExchange'[i - 1].key = j
        <5>1. i # 1 /\ i \in 1 .. Len(toExchange)
          BY <3>2, <3>5, <4>1
        <5>2. i - 1 \in DOMAIN toExchange' /\ (i - 1) + 1 = i
          BY <3>2, <5>1
        <5> QED
          BY <3>2, <4>1, <5>2
      <4> QED
        BY <3>2, <3>3, <4>1 DEF Asked
    <3> QED
      BY <3>4, <3>5 DEF Asked
  <2> QED
    BY <1>3, <2>1, <2>2 DEF Taken
<1>6. /\ \A t \in Tickets : book[t].key # k => (book'[t].live <=> book[t].live)
      /\ (\E i \in DOMAIN toNode' \ DOMAIN toNode : toNode'[i].kind # "exdr") =>
            Asked(k) \/ Alive(k)
      /\ k \in Keys /\ Closes(k) /\ (Asked(k) \/ Alive(k)) =>
            \/ \E t \in DOMAIN book' : book'[t].key = k /\ book'[t].live
            \/ \E i \in DOMAIN toNode' \ DOMAIN toNode :
                  toNode'[i].kind # "exdr" /\ toNode'[i].key = k /\ Final(toNode'[i])
  BY <1>1 DEF EndsIn
<1>7. ASSUME NEW j, j # k
      PROVE  /\ Alive(j)' <=> Alive(j)
             /\ Answered(j)' <=> Answered(j)
             /\ Pending(j)' <=> Pending(j)
  <2>1. Alive(j)' <=> Alive(j)
    BY <1>3, <1>4, <1>6, <1>7 DEF Alive
  <2>2. Answered(j)' <=> Answered(j)
    BY <1>3, <1>7 DEF Answered, About
  <2> QED
    BY <1>5, <1>7, <2>1, <2>2 DEF Pending
<1>8. /\ Alive(k)' => Alive(k) \/ Asked(k)
      /\ Answered(k)' => Answered(k) \/ Alive(k) \/ Asked(k)
      /\ Pending(k)' => Pending(k)
  <2>1. DOMAIN book' # Tickets => Asked(k)
    <3>1. toExchange \in Seq(Requests)
      BY <1>2 DEF OrdersTyped
    <3>2. toExchange # << >> => 1 \in DOMAIN toExchange /\ Head(toExchange) = toExchange[1]
      BY <3>1, TailIs, SeqIsFunction
    <3> QED
      BY <1>3, <3>2 DEF Taken, Asked
  <2>2. Alive(k)' => Alive(k) \/ Asked(k)
    BY <1>3, <1>4, <2>1 DEF Alive
  <2>3. Answered(k)' => Answered(k) \/ Alive(k) \/ Asked(k)
    BY <1>3, <1>6 DEF Answered, About
  <2> QED
    BY <1>5, <2>2, <2>3 DEF Pending
<1>9. k \in Keys /\ Closes(k) /\ Pending(k) => Pending(k)'
  <2>1. Answered(k) => Answered(k)'
    BY <1>3 DEF Answered, About
  <2>2. k \in Keys /\ Closes(k) /\ (Asked(k) \/ Alive(k)) => Alive(k)' \/ Answered(k)'
    BY <1>4, <1>6 DEF Alive, Answered, About
  <2> QED
    BY <2>1, <2>2 DEF Pending
<1>10. Buying' /\ ClosesAnOpener'
  BY <1>2, <1>3, <1>4 DEF Buying, ClosesAnOpener
<1>11. InMarket'
  <2>1. ASSUME NEW j \in Keys, ~Closes(j), orders[j].trading \in Over
        PROVE  orders[j].ticket # NoTicket /\ ~Alive(j)' /\ ~Answered(j)'
    <3>1. orders[j].ticket # NoTicket /\ ~Alive(j) /\ ~Answered(j)
      BY <1>2, <2>1 DEF InMarket
    <3>2. ~Asked(j)
      BY <1>2, <2>1 DEF Asked, AskedOnce, Asking, Untouched, Over
    <3> QED
      BY <1>7, <1>8, <3>1, <3>2
  <2> QED
    BY <1>3, <1>4, <2>1 DEF InMarket
<1>12. Ending'
  <2>1. ASSUME NEW j \in Keys, Closes(j), Answered(j)', ~Asked(j)', ~Alive(j)'
        PROVE  \E i \in DOMAIN toNode' :
                  toNode'[i].kind # "exdr" /\ toNode'[i].key = j /\ Final(toNode'[i])
    <3>1. CASE j = k /\ (Asked(k) \/ Alive(k))
      BY <1>4, <1>6, <2>1, <3>1 DEF Alive
    <3>2. CASE j # k \/ ~(Asked(k) \/ Alive(k))
      <4>1. Answered(j) /\ ~Asked(j) /\ ~Alive(j)
        BY <1>5, <1>7, <1>8, <2>1, <3>2
      <4>2. PICK i \in DOMAIN toNode : About(i, j) /\ Final(toNode[i])
        BY <1>2, <2>1, <4>1 DEF Ending
      <4> QED
        BY <1>3, <4>2 DEF About
    <3> QED
      BY <3>1, <3>2
  <2> QED
    BY <1>4, <2>1 DEF Ending, About
<1>13. Locks'
  <2>1. \A j : Pending(j)' => Pending(j)
    BY <1>7, <1>8
  <2>2. \A j \in Keys : Closes(j) /\ Pending(j) => Pending(j)'
    BY <1>7, <1>9
  <2>3. ASSUME NEW o \in Keys, ~Closes(o), orders[o].trading = "CLOSEING"
        PROVE  \E j \in Keys : orders[j].closes = orders[o].ticket /\ Pending(j)'
    <3>1. PICK j \in Keys : orders[j].closes = orders[o].ticket /\ Pending(j)
      BY <1>2, <2>3 DEF Locks
    <3>2. Closes(j)
      BY <1>2, <2>3, <3>1 DEF InMarket, Over, Closes
    <3> QED
      BY <2>2, <3>1, <3>2
  <2>4. ASSUME NEW i \in Keys, Closes(i), Pending(i)'
        PROVE  /\ orders[Closed(i)].trading = "CLOSEING"
               /\ \A j \in Keys : Pending(j)' /\ orders[j].closes = orders[i].closes => j = i
    <3>1. Pending(i)
      BY <2>1, <2>4
    <3>2. /\ orders[Closed(i)].trading = "CLOSEING"
          /\ \A j \in Keys : Pending(j) /\ orders[j].closes = orders[i].closes => j = i
      BY <1>2, <2>4, <3>1 DEF Locks
    <3> QED
      BY <2>1, <3>2
  <2> QED
    BY <1>3, <1>4, <2>3, <2>4 DEF Locks
<1> QED
  BY <1>10, <1>11, <1>12, <1>13

\* What a step about the order k does to what is charged and counted: what it tells
\* is what it books.
Squares ==
    SumFunctionOnSet(Dues', DOMAIN toNode') + credit + drift
        = SumFunctionOnSet(Dues', DOMAIN toNode) + credit' + drift'
Charges(k) ==
    /\ cash' = cash
    /\ \A i \in DOMAIN toNode' \ DOMAIN toNode :
          /\ toNode'[i].kind \in {"partial", "filled"} =>
                \E t \in Tickets : /\ book[t].live /\ book[t].key = toNode'[i].key
                                   /\ book[t].closes = toNode'[i].closes
                                   /\ toNode'[i].cum <= book[t].qty
          /\ toNode'[i].kind = "canceled" /\ toNode'[i].closes = NoTicket =>
                (book'[toNode'[i].ticket].open = 0 <=> Alive(k))
    /\ \A t \in Tickets :
          /\ book'[t].live => /\ book'[t].margin = book[t].margin
                              /\ (book'[t].qty = book[t].qty \/ (k \in Keys /\ t = orders[k].closes))
          /\ book'[t].open # book[t].open =>
                \/ book[t].live
                \/ \E u \in Tickets : book[u].live /\ book[u].closes = t
    /\ \A t \in DOMAIN book' \ Tickets : book'[t].live =>
          /\ book'[t].margin = IF Closes(k) THEN 0 ELSE Cost(k)
          /\ Closes(k) \/ book'[t].qty = orders[k].qty
    /\ lost' = 0 /\ Charging => Squares
Exchanging(k) == Exchanged(k) /\ Tells(k) /\ EndsIn(k) /\ Charges(k)

LEMMA ExchangedInv ==
    ASSUME OrdersInv, NEW k, Exchanged(k), Tells(k), EndsIn(k), OrdersTyped', Covered'
    PROVE  OrdersInv'
  BY ExchangedKeeps, ToldInTurn, LockingExchanged DEF OrdersInv

LEMMA CostsTyped == OrdersTyped => \A k \in Keys : Costs[k] = Cost(k) /\ Costs[k] \in Nat
<1> SUFFICES ASSUME OrdersTyped, NEW k \in Keys
             PROVE  Costs[k] = Cost(k) /\ Costs[k] \in Nat
  OBVIOUS
<1>1. orders[k] \in OrderRecord
  BY OrdersDomains
<1>2. orders[k].price \in Prices \cup {0} /\ orders[k].qty \in Nat
  BY <1>1 DEF OrderRecord
<1>3. orders[k].price \in Nat
  <2>1. \A p \in Prices : p \in Nat
    BY TraderNodeAssumption
  <2> QED
    BY <1>2, <2>1
<1> QED
  BY <1>2, <1>3, EquityIsNat DEF Costs, Cost

\* What the messages are due is a number.
LEMMA DuesTyped ==
    OrdersInv => \A i \in DOMAIN toNode : Dues[i] = Due(toNode[i]) /\ Dues[i] \in Int
<1> SUFFICES ASSUME OrdersInv, NEW i \in DOMAIN toNode
             PROVE  Dues[i] = Due(toNode[i]) /\ Dues[i] \in Int
  OBVIOUS
<1>1. OrdersTyped /\ Booking /\ Answering
  BY DEF OrdersInv
<1>2. PICK m : m = toNode[i]
  OBVIOUS
<1>3. /\ m \in Reports \cup Rejects \cup Exdrs /\ Sound(m)
      /\ m.kind \in {"new", "partial", "filled", "canceled", "reject", "exdr"}
  BY <1>1, <1>2, OrdersDomains, MessageIs DEF Answering
<1>4. CASE m.kind = "exdr"
  <2>1. m.paid \in Int
    BY <1>3, <1>4, MessageIs DEF Exdrs
  <2> QED
    BY <1>2, <1>4, <2>1 DEF Dues, Due
<1>5. CASE m.kind \in {"new", "partial", "filled", "canceled"}
  <2>1. m \in Reports
    BY <1>3, <1>5, MessageIs
  <2>2. m.margin \in Int /\ m.commission \in Int
    BY <2>1 DEF Reports
  <2>3. m.key \in Keys
    BY <1>1, <1>3, <1>5 DEF Sound, Reporting, Booking
  <2>4. Cost(m.key) \in Int
    BY <1>1, <2>3, CostsTyped
  <2>5. PICK c \in Int : c = Cost(m.key)
    BY <2>4
  <2>6. Due(m) \in Int
    BY <1>5, <2>2, <2>5 DEF Due
  <2> QED
    BY <1>2, <2>6 DEF Dues
<1>6. CASE m.kind = "reject"
  BY <1>2, <1>6 DEF Dues, Due
<1> QED
  BY <1>3, <1>4, <1>5, <1>6

\* A step that tells one message, which is what it books.
LEMMA SquaresOne ==
    ASSUME OrdersInv, OrdersInv', NEW m, toNode' = Append(toNode, m),
           credit' + drift' = credit + drift + Due(m)'
    PROVE  Squares
<1>1. /\ OrdersTyped /\ OrdersTyped'
      /\ (\A i \in DOMAIN toNode : Dues[i] = Due(toNode[i]) /\ Dues[i] \in Int)'
  <2>1. (\A i \in DOMAIN toNode : Dues[i] = Due(toNode[i]) /\ Dues[i] \in Int)'
    BY DuesTyped, PTL
  <2> QED
    BY <2>1 DEF OrdersInv
<1>2. PICK f, n, D : f = Dues' /\ n = Len(toNode) + 1 /\ D = DOMAIN toNode
  OBVIOUS
<1>3. /\ DOMAIN toNode' = D \cup {n} /\ n \notin D /\ toNode'[n] = m
      /\ IsFiniteSet(D)
  <2>1. toNode \in Seq(Reports \cup Rejects \cup Exdrs) /\ Len(toNode) \in Nat
        /\ D = 1 .. Len(toNode)
    BY <1>1, <1>2, OrdersDomains DEF OrdersTyped
  <2>2. toNode' \in Seq(Reports \cup Rejects \cup Exdrs)
    BY <1>1 DEF OrdersTyped
  <2>3. DOMAIN toNode' = 1 .. Len(toNode) + 1 /\ toNode'[Len(toNode) + 1] = m
    BY <2>1, <2>2, AppendIs, AppendProperties, LenProperties
  <2>4. /\ 1 .. Len(toNode) + 1 = (1 .. Len(toNode)) \cup {Len(toNode) + 1}
        /\ Len(toNode) + 1 \notin 1 .. Len(toNode)
    BY <2>1
  <2>5. IsFiniteSet(D)
    BY <2>1, FS_Interval
  <2> QED
    BY <1>2, <2>1, <2>3, <2>4, <2>5
<1>4. f[n] = Due(m)' /\ f[n] \in Int /\ \A i \in D : f[i] \in Int
  BY <1>1, <1>2, <1>3 DEF Due, Cost, Equity
<1>5. SumFunctionOnSet(f, D \cup {n}) = f[n] + SumFunctionOnSet(f, D)
  BY <1>3, <1>4, SumAdded
<1>6. SumFunctionOnSet(f, D) \in Int
  BY <1>3, <1>4, SumInt
<1>7. credit \in Int /\ drift \in Int /\ credit' \in Int /\ drift' \in Int
  BY <1>1 DEF OrdersTyped
<1>8. PICK x, y : x = f[n] /\ y = SumFunctionOnSet(f, D)
  OBVIOUS
<1>9. SumFunctionOnSet(f, DOMAIN toNode') = x + y /\ SumFunctionOnSet(f, DOMAIN toNode) = y
  BY <1>2, <1>3, <1>5, <1>8
<1>10. credit' + drift' = credit + drift + x /\ x \in Int /\ y \in Int
  BY <1>4, <1>6, <1>8
<1>11. (x + y) + credit + drift = y + credit' + drift'
  <2>1. PICK a, b, c, d : a = credit /\ b = drift /\ c = credit' /\ d = drift'
    OBVIOUS
  <2>2. /\ a \in Int /\ b \in Int /\ c \in Int /\ d \in Int
        /\ x \in Int /\ y \in Int /\ c + d = a + b + x
    BY <1>7, <1>10, <2>1
  <2>3. (x + y) + a + b = y + c + d
    BY ONLY <2>2
  <2> QED
    BY <2>1, <2>3
<1> QED
  BY <1>2, <1>9, <1>11 DEF Squares

-----------------------------------------------------------------------------
(* Each step. *)

LEMMA OrdersInit == Init => OrdersInv
<1> SUFFICES ASSUME Init PROVE OrdersInv
  OBVIOUS
<1>1. /\ orders = << >> /\ ticketOf = << >> /\ margins = << >>
      /\ toExchange = << >> /\ toNode = << >> /\ book = << >>
      /\ lost = 0 /\ dividends = 0 /\ drift = 0 /\ credit = Deposit
      /\ script = [t \in Threads |-> Idle]
      /\ mode \in [split : Split, day : TifDay]
      /\ cash = [a \in Accounts |-> Deposit \div Cardinality(Accounts)]
      /\ freeze = [a \in Accounts |-> 0]
  BY DEF Init
<1>2. \A S : << >> \in Seq(S)
  BY EmptySeq
<1>3. Len(<< >>) = 0 /\ DOMAIN << >> = {}
  <2>1. << >> \in Seq({}) /\ Len(<< >>) = 0
    BY EmptySeq
  <2> QED
    BY <2>1, SeqIsFunction
<1>4. Keys = {} /\ Tickets = {}
  BY <1>1, <1>3 DEF Keys, Tickets
<1>5. Sending = {}
  BY <1>1 DEF Sending, Idle
<1>6. Cardinality(Sending) = 0
  BY <1>5, FS_EmptySet
<1>7. OrdersTyped
  <2>1. Deposit \div Cardinality(Accounts) \in Int
    <3>1. Cardinality(Accounts) \in Nat /\ Cardinality(Accounts) # 0
      BY FiniteAccounts, FS_CardinalityType, FS_EmptySet
    <3>2. PICK c \in Nat \ {0}, d \in Nat : c = Cardinality(Accounts) /\ d = Deposit
      BY <3>1, TraderNodeAssumption
    <3>3. d \div c \in Int
      OBVIOUS
    <3> QED
      BY <3>2, <3>3
  <2>2. mode \in [split : BOOLEAN, day : BOOLEAN]
    BY <1>1, TraderNodeAssumption
  <2>3. ticketOf \in [DOMAIN ticketOf -> Nat] /\ margins \in [DOMAIN margins -> Nat]
    BY <1>1, <1>3
  <2> QED
    BY <1>1, <1>2, <2>1, <2>2, <2>3, TraderNodeAssumption DEF OrdersTyped
<1>8. Covered
  BY <1>1, <1>3, <1>5, <1>6, TraderNodeAssumption DEF Covered
<1>9. Freezing
  <2>1. \A a \in Accounts : Held(a) = {}
    BY <1>4 DEF Held
  <2>2. \A a \in Accounts : freeze[a] = 0 /\ SumFunctionOnSet(Costs, Held(a)) = 0
    BY <1>1, <2>1, SumEmpty
  <2> QED
    BY <2>2 DEF Freezing
<1>10. Locking
  BY <1>4 DEF Locking, Buying, ClosesAnOpener, InMarket, Ending, Locks
<1> QED
  BY <1>1, <1>3, <1>4, <1>7, <1>8, <1>9, <1>10
     DEF OrdersInv, Booking, Ticketing, AskedOnce, Answering, InTurn, Announcing

\* Only the thread moves: nothing else that the invariant speaks of changes.
LEMMA ThreadMoves ==
    ASSUME OrdersInv,
           UNCHANGED <<mode, node, toExchange, toNode, exchange, lost, dividends>>
    PROVE  /\ Booking' /\ Ticketing' /\ AskedOnce' /\ Answering' /\ InTurn'
           /\ Announcing' /\ Freezing' /\ Locking'
<1>1. /\ mode' = mode /\ orders' = orders /\ ticketOf' = ticketOf /\ freeze' = freeze
      /\ margins' = margins /\ toExchange' = toExchange /\ toNode' = toNode
      /\ book' = book /\ lost' = lost
  BY DEF node, exchange
<1>2. /\ Booking /\ Ticketing /\ AskedOnce /\ Answering /\ InTurn /\ Announcing
      /\ Freezing /\ Locking
  BY DEF OrdersInv
<1>3. Keys' = Keys /\ Tickets' = Tickets
  BY <1>1 DEF Keys, Tickets
<1>4. Booking' /\ Ticketing' /\ InTurn'
  BY <1>1, <1>2, <1>3 DEF Booking, Ticketing, InTurn, About
<1>5. AskedOnce'
  BY <1>1, <1>2, <1>3 DEF AskedOnce, Asking, Untouched, Booked, Answered, About
<1>6. Answering'
  BY <1>1, <1>2, <1>3
     DEF Answering, Sound, Reporting, Rejecting, Untouched, Cost, Alive, Booked
<1>7. Announcing'
  BY <1>1, <1>2, <1>3 DEF Announcing, Known
<1>8. Freezing'
  BY <1>1, <1>2, <1>3 DEF Freezing, Held, Costs, Cost, Owner, Account, Accounts
<1>9. Locking'
  <2>1. \A k : /\ Closes(k)' <=> Closes(k)
               /\ Closed(k)' = Closed(k)
               /\ Asked(k)' <=> Asked(k)
               /\ Alive(k)' <=> Alive(k)
               /\ Answered(k)' <=> Answered(k)
               /\ Pending(k)' <=> Pending(k)
    BY <1>1, <1>3 DEF Closes, Closed, Asked, Alive, Answered, About, Pending
  <2> QED
    BY <1>1, <1>2, <1>3, <2>1 DEF Locking, Buying, ClosesAnOpener, InMarket, Ending, Locks, About
<1> QED
  BY <1>4, <1>5, <1>6, <1>7, <1>8, <1>9

LEMMA SendingIsFinite ==
    IsFiniteSet(Sending) /\ Cardinality(Sending) \in Nat
<1>1. Sending \subseteq Threads /\ IsFiniteSet(Threads)
  BY TraderNodeAssumption DEF Sending
<1> QED
  BY <1>1, FS_Subset, FS_CardinalityType

LEMMA OrderSendTestKeeps ==
    ASSUME OrdersInv, NEW t \in Threads, NEW side \in Sides, NEW p \in Prices,
           NEW q \in Quantities, OrderSendTest(t, side, p, q)
    PROVE  OrdersInv'
<1> DEFINE free == cash[Account(t)] - freeze[Account(t)]
           s == [pc |-> "send", side |-> side, price |-> p, qty |-> q, seen |-> free]
<1>1. /\ script[t].pc = "idle" /\ MoreEvents /\ Equity(p, q) <= free
      /\ script' = [script EXCEPT ![t] = s]
      /\ UNCHANGED <<mode, node, toExchange, toNode, exchange, lost, dividends>>
  BY DEF OrderSendTest
<1>2. OrdersTyped /\ Covered
  BY DEF OrdersInv
<1>3. Account(t) \in Accounts
  BY DEF Account, Accounts
<1>4. free \in Int /\ s \in Sends
  BY <1>2, <1>3 DEF OrdersTyped, Sends
<1>5. /\ script'[t] = s /\ \A u \in Threads \ {t} : script'[u] = script[u]
      /\ script' \in [Threads -> {Idle} \cup Sends]
  BY <1>1, <1>2, <1>4 DEF OrdersTyped
<1>6. Sending' = Sending \cup {t} /\ t \notin Sending
  BY <1>1, <1>5 DEF Sending
<1>7. Cardinality(Sending') = Cardinality(Sending) + 1
  BY <1>6, SendingIsFinite, FS_AddElement
<1>8. OrdersTyped'
  BY <1>1, <1>2, <1>5 DEF OrdersTyped, node, exchange, Accounts, Account
<1>9. Covered'
  <2>1. /\ Len(orders') = Len(orders) /\ lost' = lost /\ dividends' = dividends
        /\ Len(orders) \in Nat /\ lost \in Nat /\ dividends \in Nat /\ MaxEvents \in Nat
        /\ Cardinality(Sending) \in Nat
    BY <1>1, <1>2, SendingIsFinite, OrdersDomains, TraderNodeAssumption
       DEF node, OrdersTyped
  <2>2. Len(orders') + Cardinality(Sending') + lost' + dividends' <= MaxEvents
    BY <1>1, <1>7, <2>1 DEF MoreEvents
  <2>3. \A u \in Sending' : Equity(script'[u].price, script'[u].qty) <= script'[u].seen
    BY <1>1, <1>2, <1>5, <1>6 DEF Covered, Sending
  <2> QED
    BY <2>2, <2>3 DEF Covered, Equity
<1> QED
  BY <1>1, <1>8, <1>9, ThreadMoves DEF OrdersInv

LEMMA HeldIs ==
    ASSUME OrdersTyped, NEW a
    PROVE  /\ IsFiniteSet(Held(a)) /\ Held(a) \subseteq Keys
           /\ SumFunctionOnSet(Costs, Held(a)) \in Int
<1>1. IsFiniteSet(Keys) /\ Held(a) \subseteq Keys
  BY OrdersDomains, FS_Interval DEF Held
<1>2. IsFiniteSet(Held(a))
  BY <1>1, FS_Subset
<1>3. SumFunctionOnSet(Costs, Held(a)) \in Int
  BY <1>1, <1>2, CostsTyped, SumInt
<1> QED
  BY <1>1, <1>2, <1>3

\* A new order is held; what was held costs the same.
LEMMA SentHeld ==
    ASSUME OrdersInv, NEW r, Sent(r), mode' = mode, NEW a
    PROVE  LET n == Len(orders) + 1
           IN  /\ SumFunctionOnSet(Costs', Held(a)) = SumFunctionOnSet(Costs, Held(a))
               /\ n \notin Held(a)
               /\ Held(a)' =
                    IF r.closes = NoTicket /\ Account(orders'[n].thread) = a
                    THEN Held(a) \cup {n} ELSE Held(a)
<1> DEFINE n == Len(orders) + 1
<1>1. OrdersTyped
  BY DEF OrdersInv
<1>2. /\ n \notin Keys /\ Keys' = Keys \cup {n}
  <2>1. Len(orders) \in Nat /\ Keys = 1 .. Len(orders) /\ Keys' = 1 .. n
    BY <1>1, OrdersDomains DEF Sent, Keys
  <2> QED
    BY <2>1
<1>3. /\ \A k \in Keys : Same(k)
      /\ orders'[n].ticket = NoTicket /\ orders'[n].trading = "PENDING"
      /\ orders'[n].closes = r.closes /\ book' = book /\ Tickets' = Tickets
  BY DEF Sent, Tickets
<1> HIDE DEF n
<1>4. \A k \in Keys : Costs'[k] = Costs[k]
  BY <1>2, <1>3 DEF Costs, Cost, Same
<1>5. SumFunctionOnSet(Costs', Held(a)) = SumFunctionOnSet(Costs, Held(a))
  <2>1. PICK f : f = Costs'
    OBVIOUS
  <2>2. IsFiniteSet(Held(a)) /\ \A k \in Held(a) : f[k] = Costs[k]
    BY <1>1, <1>4, <2>1, HeldIs
  <2>3. SumFunctionOnSet(f, Held(a)) = SumFunctionOnSet(Costs, Held(a))
    BY <2>2, SumSame
  <2> QED
    BY <2>1, <2>3
<1>6. \A k \in Keys : k \in Held(a)' <=> k \in Held(a)
  BY <1>2, <1>3 DEF Held, Owner, Account, Same
<1>7. n \in Held(a)' <=> r.closes = NoTicket /\ Account(orders'[n].thread) = a
  BY <1>2, <1>3 DEF Held, Owner, Account
<1>8. Held(a)' \subseteq Keys' /\ Held(a) \subseteq Keys
  BY DEF Held
<1>9. /\ n \notin Held(a)
      /\ Held(a)' = IF r.closes = NoTicket /\ Account(orders'[n].thread) = a
                    THEN Held(a) \cup {n} ELSE Held(a)
  BY <1>2, <1>6, <1>7, <1>8
<1> QED
  BY <1>5, <1>9 DEF n

LEMMA OrderSendKeeps ==
    ASSUME OrdersInv, NEW t \in Threads, OrderSend(t)
    PROVE  OrdersInv' /\ \E r : Sent(r) /\ Registers(r)
<1> DEFINE n == Len(orders) + 1
           s == script[t]
           a == Account(t)
           c == Equity(s.price, s.qty)
           o == OrderInfo(t, s.side, s.price, s.qty, NoTicket)
           r == Request(n, s.side, s.price, s.qty, NoTicket)
<1>1. /\ s.pc = "send"
      /\ freeze' = [freeze EXCEPT ![a] = @ + c]
      /\ orders' = Append(orders, o) /\ toExchange' = Append(toExchange, r)
      /\ script' = [script EXCEPT ![t] = Idle]
      /\ UNCHANGED <<mode, ticketOf, cash, margins, toNode, exchange, lost, dividends>>
  BY DEF OrderSend
<1>2. OrdersTyped /\ Covered /\ Freezing
  BY DEF OrdersInv
<1>3. a \in Accounts
  BY DEF Account, Accounts
<1>4. s \in Sends
  BY <1>1, <1>2 DEF OrdersTyped, Idle
<1>5. /\ s.side \in {"buy", "sell"} /\ s.price \in Prices /\ s.price \in Nat
      /\ s.qty \in Nat \ {0}
  BY <1>4, TraderNodeAssumption DEF Sends
<1>6. c \in Nat
  BY <1>5, EquityIsNat
<1>7. Len(orders) \in Nat /\ n \in Nat /\ orders \in Seq(OrderRecord)
  BY <1>2, OrdersDomains DEF OrdersTyped
<1>8. o \in OrderRecord /\ r \in Requests
  BY <1>5, <1>7 DEF OrderInfo, OrderRecord, Request, Requests, NoTicket
<1>9. /\ orders' \in Seq(OrderRecord) /\ Len(orders') = n /\ DOMAIN orders' = 1 .. n
      /\ \A k \in 1 .. Len(orders) : orders'[k] = orders[k]
      /\ orders'[n] = o
  BY <1>1, <1>7, <1>8, AppendIs
<1>10. Keys = 1 .. Len(orders)
  BY <1>2, OrdersDomains
<1>11. /\ o.thread = t /\ o.side = s.side /\ o.price = s.price /\ o.qty = s.qty
       /\ o.ticket = NoTicket /\ o.closes = NoTicket /\ o.trading = "PENDING"
       /\ r.key = n /\ r.side = s.side /\ r.price = s.price /\ r.qty = s.qty
       /\ r.closes = NoTicket /\ o.cumqty = 0 /\ o.openqty = 0
  BY DEF OrderInfo, Request
<1> HIDE DEF o, r, c, s
<1>12. Sent(r)
  BY <1>1, <1>8, <1>9, <1>10, <1>11 DEF Sent, Same, exchange
<1>13. /\ script' \in [Threads -> {Idle} \cup Sends]
       /\ script'[t] = Idle /\ \A u \in Threads \ {t} : script'[u] = script[u]
  BY <1>1, <1>2 DEF OrdersTyped
<1>14. toExchange' \in Seq(Requests)
  BY <1>1, <1>2, <1>8, AppendIs DEF OrdersTyped
<1>15. /\ freeze' \in [Accounts -> Int] /\ freeze'[a] = freeze[a] + c
       /\ \A b \in Accounts \ {a} : freeze'[b] = freeze[b]
       /\ \A b \in Accounts : freeze[b] \in Int
  BY <1>1, <1>2, <1>3, <1>6 DEF OrdersTyped
<1>16. OrdersTyped'
  BY <1>1, <1>2, <1>9, <1>13, <1>14, <1>15
     DEF OrdersTyped, exchange, Accounts
<1>17. Covered'
  <2>1. Sending' = Sending \ {t} /\ t \in Sending
    BY <1>1, <1>13 DEF Sending, Idle, s
  <2>2. Cardinality(Sending') = Cardinality(Sending) - 1
    BY <2>1, SendingIsFinite, FS_RemoveElement
  <2>3. /\ lost' = lost /\ dividends' = dividends
        /\ lost \in Nat /\ dividends \in Nat /\ MaxEvents \in Nat
        /\ Cardinality(Sending) \in Nat
    BY <1>1, <1>2, SendingIsFinite, TraderNodeAssumption DEF OrdersTyped
  <2>4. Len(orders') + Cardinality(Sending') + lost' + dividends' <= MaxEvents
    BY <1>2, <1>7, <1>9, <2>2, <2>3 DEF Covered
  <2>5. \A u \in Sending' : Equity(script'[u].price, script'[u].qty) <= script'[u].seen
    BY <1>2, <1>13, <2>1 DEF Covered, Sending
  <2> QED
    BY <2>4, <2>5 DEF Covered, Equity
<1>18. Freezing'
  <2>1. ASSUME NEW b \in Accounts
        PROVE  LET held == SumFunctionOnSet(Costs', Held(b)')
               IN  held <= freeze'[b] /\ (lost' = 0 => held = freeze'[b])
    <3> DEFINE old == SumFunctionOnSet(Costs, Held(b))
               held == SumFunctionOnSet(Costs', Held(b)')
    <3>1. /\ SumFunctionOnSet(Costs', Held(b)) = old /\ n \notin Held(b)
          /\ Held(b)' = IF a = b THEN Held(b) \cup {n} ELSE Held(b)
      BY <1>1, <1>9, <1>11, <1>12, SentHeld
    <3>2. /\ old <= freeze[b] /\ (lost = 0 => old = freeze[b])
          /\ old \in Int /\ lost' = lost
      BY <1>1, <1>2, HeldIs DEF Freezing
    <3>3. CASE a # b
      BY <1>15, <3>1, <3>2, <3>3
    <3>4. CASE a = b
      <4>1. PICK f : f = Costs'
        OBVIOUS
      <4>2. f[n] = c /\ c \in Int /\ \A k \in Held(b) : f[k] \in Int
        <5>1. (\A k \in Keys : Costs[k] = Cost(k) /\ Costs[k] \in Nat)'
          BY <1>16, CostsTyped, PTL
        <5>2. n \in Keys' /\ Held(b) \subseteq Keys'
          BY <1>7, <1>9, <1>10 DEF Keys, Held
        <5>3. \A k \in Keys' : f[k] \in Nat
                                /\ f[k] = Equity(orders'[k].price, orders'[k].qty)
          BY <4>1, <5>1 DEF Cost, Equity
        <5>4. f[n] = c
          BY <1>9, <1>11, <5>2, <5>3 DEF c
        <5> QED
          BY <1>6, <5>2, <5>3, <5>4
      <4>3. IsFiniteSet(Held(b))
        BY <1>2, HeldIs
      <4>4. SumFunctionOnSet(f, Held(b) \cup {n}) = f[n] + SumFunctionOnSet(f, Held(b))
        BY <3>1, <4>2, <4>3, SumAdded
      <4>5. held = c + old
        BY <3>1, <3>4, <4>1, <4>2, <4>4
      <4> QED
        BY <1>6, <1>15, <3>2, <3>4, <4>5
    <3> QED
      BY <3>3, <3>4
  <2>2. Accounts' = Accounts
    BY <1>1 DEF Accounts
  <2> QED
    BY <2>1, <2>2 DEF Freezing
<1>19. Asks(r)
  <2>1. \A k \in Keys : orders'[k] = orders[k]
    BY <1>9, <1>10
  <2>2. orders'[n].side \in Sides
    BY <1>4, <1>9, <1>11 DEF Sends
  <2> QED
    BY <1>11, <2>1, <2>2 DEF Asks
<1>20. Registers(r)
  <2>1. s.price # 0
    BY <1>5, TraderNodeAssumption
  <2>2. cash' = cash /\ credit' = credit /\ drift' = drift
    BY <1>1 DEF exchange
  <2> QED
    BY <1>9, <1>10, <1>11, <2>1, <2>2 DEF Registers
<1>21. OrdersInv'
  BY <1>12, <1>16, <1>17, <1>18, <1>19, SentKeeps, LockingSent DEF OrdersInv
<1> QED
  BY <1>12, <1>20, <1>21

LEMMA OrderCloseKeeps ==
    ASSUME OrdersInv, NEW key \in Keys, NEW lots \in 1 .. orders[key].qty,
           OrderClose(key, lots)
    PROVE  OrdersInv' /\ \E r : Sent(r) /\ Registers(r)
<1> DEFINE n == Len(orders) + 1
           side == Opposite(orders[key].side)
           o == OrderInfo(orders[key].thread, side, 0, lots, orders[key].ticket)
           r == Request(n, side, orders[key].price, lots, orders[key].ticket)
           e == [orders[key] EXCEPT !.trading = "CLOSEING"]
<1>1. /\ MoreEvents /\ orders[key].ticket # NoTicket
      /\ orders' = Append(Locked(key), o) /\ toExchange' = Append(toExchange, r)
      /\ UNCHANGED <<mode, script, ticketOf, cash, freeze, margins, toNode,
                     exchange, lost, dividends>>
  BY DEF OrderClose, OrderReplaceRequest
<1>2. OrdersTyped /\ Covered /\ Ticketing /\ Freezing
  BY DEF OrdersInv
<1>3. /\ Len(orders) \in Nat /\ n \in Nat /\ orders \in Seq(OrderRecord)
      /\ Keys = 1 .. Len(orders) /\ orders[key] \in OrderRecord
  BY <1>2, OrdersDomains DEF OrdersTyped
<1>4. /\ orders[key].qty \in Nat /\ orders[key].thread \in Threads
      /\ orders[key].side \in {"buy", "sell"} /\ orders[key].ticket \in Nat
      /\ orders[key].price \in Nat
  <2>1. \A p \in Prices : p \in Nat
    BY TraderNodeAssumption
  <2>2. /\ orders[key].qty \in Nat /\ orders[key].thread \in Threads
        /\ orders[key].side \in {"buy", "sell"} /\ orders[key].ticket \in Nat
        /\ orders[key].price \in Prices \cup {0}
    BY <1>3 DEF OrderRecord
  <2> QED
    BY <2>1, <2>2
<1>0. lots \in Nat \ {0} /\ side \in {"buy", "sell"}
  BY <1>4 DEF Opposite
<1>5. /\ Locked(key) = [orders EXCEPT ![key] = e] /\ e \in OrderRecord
  BY <1>3 DEF Locked, OrderRecord
<1>6. /\ Locked(key) \in Seq(OrderRecord) /\ Len(Locked(key)) = Len(orders)
      /\ Locked(key)[key] = e
      /\ \A k \in Keys \ {key} : Locked(key)[k] = orders[k]
  BY <1>3, <1>5, ExceptSeq
<1>7. o \in OrderRecord /\ r \in Requests
  <2>1. PICK u, w, k, p : /\ u = orders[key].thread /\ w = side
                          /\ k = orders[key].ticket /\ p = orders[key].price
    OBVIOUS
  <2>2. u \in Threads /\ w \in {"buy", "sell"} /\ k \in Nat /\ p \in Nat
    BY <1>0, <1>4, <2>1
  <2>3. OrderInfo(u, w, 0, lots, k) \in OrderRecord
    BY <1>0, <2>2 DEF OrderInfo, OrderRecord, NoTicket
  <2>4. Request(n, w, p, lots, k) \in Requests
    BY <1>0, <1>3, <2>2 DEF Request, Requests
  <2> QED
    BY <2>1, <2>3, <2>4
<1>8. /\ orders' \in Seq(OrderRecord) /\ Len(orders') = n /\ DOMAIN orders' = 1 .. n
      /\ \A k \in Keys \ {key} : orders'[k] = orders[k]
      /\ orders'[key] = e /\ orders'[n] = o
  BY <1>1, <1>3, <1>6, <1>7, AppendIs
<1>9. \A k \in Keys : Same(k)
  <2>1. /\ e.thread = orders[key].thread /\ e.side = orders[key].side
        /\ e.price = orders[key].price /\ e.qty = orders[key].qty
        /\ e.closes = orders[key].closes /\ e.ticket = orders[key].ticket
    BY <1>3 DEF OrderRecord
  <2> HIDE DEF e
  <2> QED
    BY <1>1, <1>3, <1>8, <2>1 DEF Same
<1>10. /\ o.side = side /\ o.qty = lots
       /\ o.ticket = NoTicket /\ o.closes = orders[key].ticket /\ o.trading = "PENDING"
       /\ r.key = n /\ r.side = side /\ r.qty = lots
       /\ r.closes = orders[key].ticket /\ o.cumqty = 0 /\ o.openqty \in {0, lots}
  BY DEF OrderInfo, Request
<1> HIDE DEF o, r, e, side
<1>11. r.closes \in DOMAIN ticketOf
  BY <1>1, <1>2, <1>10 DEF Ticketing
<1>12. Sent(r)
  BY <1>1, <1>7, <1>8, <1>9, <1>10, <1>11 DEF Sent, exchange
<1>13. toExchange' \in Seq(Requests)
  BY <1>1, <1>2, <1>7, AppendIs DEF OrdersTyped
<1>14. OrdersTyped'
  BY <1>1, <1>2, <1>8, <1>13 DEF OrdersTyped, exchange, Accounts
<1>15. Covered'
  <2>1. Sending' = Sending
    BY <1>1 DEF Sending
  <2>2. /\ lost' = lost /\ dividends' = dividends
        /\ lost \in Nat /\ dividends \in Nat /\ MaxEvents \in Nat
        /\ Cardinality(Sending) \in Nat
    BY <1>1, <1>2, SendingIsFinite, TraderNodeAssumption DEF OrdersTyped
  <2>5. Cardinality(Sending') = Cardinality(Sending) /\ MoreEvents /\ Len(orders') = n
    BY <1>1, <1>8, <2>1
  <2>3. Len(orders') + Cardinality(Sending') + lost' + dividends' <= MaxEvents
    BY <1>3, <2>2, <2>5 DEF MoreEvents
  <2>4. \A u \in Sending' : Equity(script'[u].price, script'[u].qty) <= script'[u].seen
    BY <1>1, <1>2, <2>1 DEF Covered
  <2> QED
    BY <2>3, <2>4 DEF Covered, Equity
<1>16. Freezing'
  <2>1. ASSUME NEW b \in Accounts
        PROVE  LET held == SumFunctionOnSet(Costs', Held(b)')
               IN  held <= freeze'[b] /\ (lost' = 0 => held = freeze'[b])
    <3>1. /\ SumFunctionOnSet(Costs', Held(b)) = SumFunctionOnSet(Costs, Held(b))
          /\ Held(b)' = Held(b)
      BY <1>1, <1>10, <1>12, SentHeld
    <3> QED
      BY <1>1, <1>2, <3>1 DEF Freezing
  <2>2. Accounts' = Accounts
    BY <1>1 DEF Accounts
  <2> QED
    BY <2>1, <2>2 DEF Freezing
<1>17. Asks(r)
  <2>1. orders[key].closes = NoTicket /\ orders[key].trading = "MARKET"
    BY DEF OrderClose
  <2>2. ticketOf[r.closes] = key
    BY <1>1, <1>2, <1>10 DEF Ticketing
  <2>3. orders'[key].trading = "CLOSEING"
    BY <1>3, <1>8 DEF e, OrderRecord
  <2> QED
    BY <1>1, <1>8, <1>10, <2>1, <2>2, <2>3 DEF Asks, Closes, side
<1>18. Registers(r)
  <2>1. cash' = cash /\ credit' = credit /\ drift' = drift
    BY <1>1 DEF exchange
  <2>2. orders[key].trading = "MARKET"
    BY DEF OrderClose
  <2>3. e.cumqty = orders[key].cumqty /\ e.openqty = orders[key].openqty
    BY <1>3 DEF e, OrderRecord
  <2>4. r.closes # NoTicket /\ orders[key].ticket = r.closes
    BY <1>1, <1>10
  <2>5. o.openqty >= 0
    BY <1>0, <1>10
  <2> QED
    BY <1>8, <1>10, <2>1, <2>2, <2>3, <2>4, <2>5 DEF Registers
<1>19. OrdersInv'
  BY <1>12, <1>14, <1>15, <1>16, <1>17, SentKeeps, LockingSent DEF OrdersInv
<1> QED
  BY <1>12, <1>18, <1>19

LEMMA CoveredKept ==
    ASSUME OrdersInv, orders' = orders, script' = script,
           \/ lost' = lost /\ dividends' = dividends
           \/ MoreEvents /\ lost' = lost + 1 /\ dividends' = dividends
           \/ MoreEvents /\ lost' = lost /\ dividends' = dividends + 1
    PROVE  Covered'
<1>1. OrdersTyped /\ Covered
  BY DEF OrdersInv
<1>2. Sending' = Sending
  BY DEF Sending
<1>3. Cardinality(Sending') = Cardinality(Sending) /\ Cardinality(Sending) \in Nat
  BY <1>2, SendingIsFinite
<1>4. /\ Len(orders') = Len(orders) /\ Len(orders) \in Nat
      /\ lost \in Nat /\ dividends \in Nat /\ MaxEvents \in Nat
  BY <1>1, OrdersDomains, TraderNodeAssumption DEF OrdersTyped
<1>5. Len(orders) + Cardinality(Sending) + lost + dividends <= MaxEvents
  BY <1>1 DEF Covered
<1>6. Len(orders') + Cardinality(Sending') + lost' + dividends' <= MaxEvents
  BY <1>3, <1>4, <1>5 DEF MoreEvents
<1>7. \A u \in Sending' : Equity(script'[u].price, script'[u].qty) <= script'[u].seen
  BY <1>1, <1>2 DEF Covered
<1> QED
  BY <1>6, <1>7 DEF Covered, Equity

\* The request at hand is of an order that nothing is known of.
LEMMA RequestIs ==
    ASSUME OrdersInv, toExchange # << >>, toExchange' = Tail(toExchange),
           NEW r, r = Head(toExchange)
    PROVE  /\ r \in Requests /\ Asking(r) /\ Taken(r.key) /\ Asked(r.key)
           /\ toExchange' \in Seq(Requests)
           /\ r.closes \in Tickets \cup {NoTicket}
<1>1. toExchange \in Seq(Requests) /\ AskedOnce /\ Ticketing
  BY DEF OrdersInv, OrdersTyped
<1>2. /\ 1 \in DOMAIN toExchange /\ Head(toExchange) = toExchange[1]
      /\ toExchange' \in Seq(Requests) /\ r \in Requests
  BY <1>1, TailIs, SeqIsFunction
<1>3. Asking(r)
  BY <1>1, <1>2 DEF AskedOnce
<1>4. r.closes # NoTicket => r.closes \in DOMAIN ticketOf
  BY <1>1, <1>3 DEF Asking, Ticketing
<1> QED
  BY <1>1, <1>2, <1>3, <1>4 DEF Taken, Asked, Ticketing

\* One message about the order k.
LEMMA SaysOne ==
    ASSUME OrdersInv, NEW k, NEW m \in Reports \cup Rejects \cup Exdrs,
           \/ toNode' = Append(toNode, m) /\ lost' = lost
           \/ toNode' = toNode /\ lost' = lost + 1,
           Sound(m)',
           m.kind # "exdr" => m.key = k,
           m.kind \in {"partial", "filled"} => Alive(k),
           m.kind \in {"new", "reject"} => ~Answered(k),
           Alive(k) \/ ~Answered(k),
           \A t \in DOMAIN book' \ Tickets : book'[t].live => m.kind = "new" /\ m.key = k
    PROVE  /\ Tells(k)
           /\ lost' \in Nat /\ (lost' = 0 => lost = 0)
           /\ DOMAIN toNode \subseteq DOMAIN toNode'
           /\ \A i \in DOMAIN toNode : toNode'[i] = toNode[i]
           /\ \A i \in DOMAIN toNode' \ DOMAIN toNode :
                 toNode'[i].kind # "exdr" => toNode'[i].key = k
           /\ \A i \in DOMAIN toNode' \ DOMAIN toNode : toNode'[i] = m
           /\ lost' = 0 => \E i \in DOMAIN toNode' \ DOMAIN toNode : toNode'[i] = m
<1>1. toNode \in Seq(Reports \cup Rejects \cup Exdrs) /\ lost \in Nat
  BY DEF OrdersInv, OrdersTyped
<1>2. CASE toNode' = Append(toNode, m) /\ lost' = lost
  <2>1. /\ toNode' \in Seq(Reports \cup Rejects \cup Exdrs)
        /\ Len(toNode) \in Nat /\ DOMAIN toNode = 1 .. Len(toNode)
        /\ DOMAIN toNode' = 1 .. Len(toNode) + 1
        /\ \A i \in DOMAIN toNode : toNode'[i] = toNode[i]
        /\ toNode'[Len(toNode) + 1] = m
    BY <1>1, <1>2, AppendIs, SeqIsFunction
  <2>2. /\ DOMAIN toNode \subseteq DOMAIN toNode'
        /\ DOMAIN toNode' \ DOMAIN toNode = {Len(toNode) + 1}
        /\ Len(toNode) + 1 \in DOMAIN toNode'
    BY <2>1
  <2>3. /\ \A i \in DOMAIN toNode' \ DOMAIN toNode : toNode'[i] = m
        /\ \A i, j \in DOMAIN toNode' \ DOMAIN toNode : ~(i < j)
    BY <2>1, <2>2
  <2>4. Tells(k)
    BY <2>1, <2>2, <2>3 DEF Tells
  <2> QED
    BY <1>1, <1>2, <2>1, <2>2, <2>3, <2>4
<1>3. CASE toNode' = toNode /\ lost' = lost + 1
  BY <1>1, <1>3 DEF Tells
<1> QED
  BY <1>2, <1>3

\* The refusal of a request.
LEMMA RejectIs ==
    ASSUME NEW r \in Requests, NEW t \in Nat
    PROVE  /\ Reject(r, t) \in Rejects
           /\ Reject(r, t).kind = "reject" /\ Reject(r, t).key = r.key
           /\ Reject(r, t).ticket = t
           /\ Reject(r, t).responseTo = IF r.side = "buy" THEN "1" ELSE "2"
  BY DEF Reject, Rejects, Requests

\* RefuseOrder and RefuseClose.
LEMMA RefuseKeeps ==
    ASSUME OrdersInv, toExchange # << >>, toExchange' = Tail(toExchange),
           NEW r, r = Head(toExchange),
           toNode' = Append(toNode, Reject(r, r.closes)),
           UNCHANGED <<exchange, lost>>, UNCHANGED <<mode, script, node, dividends>>
    PROVE  OrdersInv' /\ \E k : Exchanging(k)
<1> DEFINE m == Reject(r, r.closes)
<1>1. OrdersTyped /\ Booking
  BY DEF OrdersInv
<1>2. /\ r \in Requests /\ Asking(r) /\ Taken(r.key) /\ Asked(r.key)
      /\ toExchange' \in Seq(Requests)
  BY RequestIs
<1>3. /\ mode' = mode /\ script' = script /\ orders' = orders /\ ticketOf' = ticketOf
      /\ margins' = margins /\ freeze' = freeze /\ cash' = cash
      /\ book' = book /\ credit' = credit /\ drift' = drift
      /\ lost' = lost /\ dividends' = dividends
      /\ Keys' = Keys /\ Tickets' = Tickets
  BY DEF node, exchange, Keys, Tickets
<1>4. /\ m \in Rejects /\ m.kind = "reject" /\ m.key = r.key /\ m.ticket = r.closes
      /\ m.responseTo = IF r.side = "buy" THEN "1" ELSE "2"
  <2>1. r.closes \in Nat
    BY <1>2 DEF Requests
  <2> QED
    BY <1>2, <2>1, RejectIs
<1>5. toNode' = Append(toNode, m)
  OBVIOUS
<1> HIDE DEF m
<1>6. /\ r.key \in Keys /\ r.closes = orders[r.key].closes
      /\ r.side = orders[r.key].side /\ ~Booked(r.key) /\ ~Alive(r.key)
      /\ orders[r.key].ticket = NoTicket /\ orders[r.key].trading = "PENDING"
      /\ ~Answered(r.key)
  BY <1>2 DEF Asking, Untouched, Booked, Alive
<1>7. Sound(m)'
  <2>1. ~Booked(m.key)' /\ ~Alive(m.key)'
    BY <1>3, <1>4, <1>6 DEF Booked, Alive
  <2>2. Rejecting(m)'
    BY <1>3, <1>4, <1>6, <2>1 DEF Rejecting
  <2> QED
    BY <1>4, <2>2 DEF Sound, Reporting
<1>8. /\ Tells(r.key)
      /\ lost' \in Nat /\ (lost' = 0 => lost = 0)
      /\ DOMAIN toNode \subseteq DOMAIN toNode'
      /\ \A i \in DOMAIN toNode : toNode'[i] = toNode[i]
      /\ \A i \in DOMAIN toNode' \ DOMAIN toNode :
            toNode'[i].kind # "exdr" => toNode'[i].key = r.key
      /\ \A i \in DOMAIN toNode' \ DOMAIN toNode : toNode'[i] = m
      /\ lost' = 0 => \E i \in DOMAIN toNode' \ DOMAIN toNode : toNode'[i] = m
  <2>1. \A t \in DOMAIN book' \ Tickets : book'[t].live => m.kind = "new" /\ m.key = r.key
    BY <1>3 DEF Tickets
  <2> HIDE DEF Tells
  <2> QED
    BY <1>3, <1>4, <1>5, <1>6, <1>7, <2>1, SaysOne
<1>9. Exchanged(r.key)
  BY <1>1, <1>2, <1>3, <1>8 DEF Exchanged, Booking, Tickets
<1>10. OrdersTyped'
  BY <1>1, <1>2, <1>3, <1>8 DEF OrdersTyped, Tells, Accounts
<1>11. Covered'
  BY <1>3, CoveredKept
<1>12. EndsIn(r.key)
  BY <1>2, <1>3, <1>4, <1>8 DEF EndsIn, Final
<1>13. OrdersInv'
  BY <1>8, <1>9, <1>10, <1>11, <1>12, ExchangedInv
<1>14. Charges(r.key)
  <2>1. Due(m)' = 0
    BY <1>4 DEF Due
  <2>2. credit' + drift' = credit + drift + Due(m)'
    BY <1>1, <1>3, <2>1 DEF OrdersTyped
  <2>3. Squares
    BY <1>5, <1>13, <2>2, SquaresOne
  <2> QED
    BY <1>3, <1>4, <1>8, <2>3 DEF Charges, Tickets
<1> QED
  BY <1>8, <1>9, <1>12, <1>13, <1>14 DEF Exchanging

\* What a report tells of the order b with the ticket t.
ReportOf(m, kind, b, t, c) ==
    /\ m \in Reports /\ m.kind = kind /\ m.key = b.key /\ m.ticket = t
    /\ m.closes = b.closes /\ m.leaves = b.leaves /\ m.cum = b.qty - b.leaves
    /\ m.margin = LedgerEquity(kind, b) /\ m.commission = c

LEMMA ReportIs ==
    ASSUME NEW b \in Entry, b.leaves <= b.qty, NEW t \in Nat, b = book'[t],
           NEW kind \in {"new", "partial", "filled", "canceled"}, NEW c \in Nat,
           NEW m, m = Report(kind, t, c)
    PROVE  ReportOf(m, kind, b, t, c)
<1>1. /\ b.qty - b.leaves \in Nat /\ LedgerEquity(kind, b) \in Nat
      /\ b.key \in Nat /\ b.closes \in Nat /\ b.leaves \in Nat
  BY DEF Entry, LedgerEquity
<1>2. PICK x, y : x = b.qty - b.leaves /\ y = LedgerEquity(kind, b)
  OBVIOUS
<1>3. m = [kind |-> kind, key |-> b.key, ticket |-> t,
           closes |-> b.closes, cum |-> x, leaves |-> b.leaves,
           margin |-> y, commission |-> c]
  BY <1>2 DEF Report, Lots, LedgerEquity
<1> QED
  BY <1>1, <1>2, <1>3 DEF Reports, ReportOf

\* What is known of an order that has just been placed.
Fresh(b, r, q, g) ==
    /\ b \in Entry /\ b.key = r.key /\ b.closes = r.closes /\ b.qty = q
    /\ b.leaves = q /\ b.margin = g /\ b.live = TRUE

LEMMA PlacedIs ==
    ASSUME NEW r \in Requests, NEW q \in Nat \ {0}, NEW g \in Nat,
           NEW b, b = Placed(r, q, g)
    PROVE  Fresh(b, r, q, g)
<1>1. r.key \in Nat /\ r.price \in Nat /\ r.closes \in Nat
  BY DEF Requests
<1> QED
  BY <1>1 DEF Placed, Entry, Fresh

LEMMA RefusedIs ==
    ASSUME NEW b \in Entry, NEW e, e = [b EXCEPT !.live = FALSE]
    PROVE  /\ e \in Entry /\ e.key = b.key /\ e.closes = b.closes /\ e.qty = b.qty
           /\ e.leaves = b.leaves /\ e.live = FALSE /\ e.open = b.open
  BY DEF Entry

\* An order is placed, PlaceOrder and PlaceClose.
LEMMA PlaceKeeps ==
    ASSUME OrdersInv, toExchange # << >>, toExchange' = Tail(toExchange),
           NEW r, r = Head(toExchange),
           UNCHANGED <<mode, script, node, dividends>>, drift' = drift,
           NEW q \in Nat \ {0}, NEW g \in Nat,
           g = IF r.closes = NoTicket THEN Equity(r.price, r.qty) ELSE 0,
           book' \in Seq(Entry), Len(book') = Len(book) + 1,
           book'[Len(book) + 1] = Placed(r, q, g),
           \A t \in Tickets :
              /\ book'[t].key = book[t].key /\ book'[t].closes = book[t].closes
              /\ book'[t].live = book[t].live /\ book'[t].leaves <= book'[t].qty
              /\ book'[t].leaves = book[t].leaves,
           \A t \in Tickets :
              /\ book'[t].open = book[t].open /\ book'[t].margin = book[t].margin
              /\ book'[t].qty = book[t].qty \/ t = r.closes,
           r.closes = NoTicket => q = r.qty, credit' = credit - g, Send(Report("new", Len(book) + 1, 0))
    PROVE  OrdersInv' /\ \E k : Exchanging(k)
<1>0. PICK n, m, b : /\ n = Len(book) + 1 /\ m = Report("new", n, 0)
                     /\ b = Placed(r, q, g) /\ b = book'[n]
  OBVIOUS
<1>1. OrdersTyped /\ Booking
  BY DEF OrdersInv
<1>2. /\ r \in Requests /\ Asking(r) /\ Taken(r.key) /\ Asked(r.key)
      /\ toExchange' \in Seq(Requests)
  BY RequestIs
<1>3. /\ mode' = mode /\ script' = script /\ orders' = orders /\ ticketOf' = ticketOf
      /\ margins' = margins /\ freeze' = freeze /\ cash' = cash
      /\ dividends' = dividends /\ Keys' = Keys
  BY DEF node, Keys
<1>4. /\ Len(book) \in Nat /\ n \in Nat /\ Tickets = 1 .. Len(book) /\ DOMAIN book' = 1 .. n
      /\ n \notin Tickets /\ Tickets' = DOMAIN book' /\ n \in Tickets'
      /\ Tickets \subseteq Tickets' /\ Tickets' \ Tickets = {n}
      /\ DOMAIN book' \ Tickets = {n}
  <2>1. Len(book) \in Nat /\ n \in Nat /\ Tickets = 1 .. Len(book) /\ DOMAIN book' = 1 .. n
    BY <1>0, <1>1, OrdersDomains, SeqIsFunction
  <2> QED
    BY <2>1 DEF Tickets
<1>5. /\ b \in Entry /\ b.key = r.key /\ b.closes = r.closes /\ b.qty = q
      /\ b.leaves = q /\ b.margin = g /\ b.live = TRUE
  <2>1. r \in Requests /\ q \in Nat \ {0} /\ g \in Nat /\ b = Placed(r, q, g)
    BY <1>0, <1>2
  <2>2. Fresh(b, r, q, g)
    BY <2>1, PlacedIs
  <2> QED
    BY <2>2 DEF Fresh
<1>6. /\ r.key \in Keys /\ r.closes = orders[r.key].closes
      /\ ~Booked(r.key) /\ ~Alive(r.key) /\ Untouched(r.key) /\ ~Answered(r.key)
      /\ r.closes = NoTicket =>
            r.price = orders[r.key].price /\ r.qty = orders[r.key].qty
  BY <1>2 DEF Asking, Booked, Alive
<1>7. /\ m \in Reports /\ m.kind = "new" /\ m.key = b.key /\ m.ticket = n
      /\ m.closes = b.closes /\ m.leaves = b.leaves /\ m.cum = b.qty - b.leaves
      /\ m.margin = LedgerEquity("new", b)
  <2>1. b = book'[n] /\ b.leaves <= b.qty
    BY <1>0, <1>5
  <2>2. ReportOf(m, "new", b, n, 0)
    BY <1>0, <1>4, <1>5, <2>1, ReportIs
  <2> QED
    BY <2>2 DEF ReportOf
<1>8. /\ book'[n] = b
      /\ \/ toNode' = Append(toNode, m) /\ lost' = lost
         \/ MoreEvents /\ toNode' = toNode /\ lost' = lost + 1
  BY <1>0 DEF Send
<1>9. m.leaves > 0 /\ m.cum = 0 /\ m.margin = g /\ m.key = r.key /\ m.closes = r.closes
  BY <1>5, <1>7 DEF LedgerEquity
<1>10. Sound(m)'
  <2>1. Reporting(m)'
    <3>1. Untouched(m.key)'
      BY <1>3, <1>6, <1>9 DEF Untouched
    <3>2. g = IF m.closes = NoTicket THEN Cost(m.key)' ELSE 0
      BY <1>3, <1>6, <1>9 DEF Cost, Equity
    <3> QED
      BY <1>4, <1>5, <1>7, <1>8, <1>9, <3>1, <3>2 DEF Reporting
  <2> QED
    BY <1>7, <2>1 DEF Sound, Rejecting
<1>11. /\ Tells(r.key)
       /\ lost' \in Nat /\ (lost' = 0 => lost = 0)
       /\ DOMAIN toNode \subseteq DOMAIN toNode'
       /\ \A i \in DOMAIN toNode : toNode'[i] = toNode[i]
       /\ \A i \in DOMAIN toNode' \ DOMAIN toNode :
             toNode'[i].kind # "exdr" => toNode'[i].key = r.key
       /\ \A i \in DOMAIN toNode' \ DOMAIN toNode : toNode'[i] = m
  <2> HIDE DEF Tells
  <2> QED
    BY <1>6, <1>7, <1>8, <1>9, <1>10, SaysOne
<1>12. Exchanged(r.key)
  <2>1. \A t \in Tickets : book'[t].live => book'[t].leaves > 0
    BY <1>1 DEF Booking
  <2>2. \A t \in DOMAIN book' : /\ book'[t].leaves <= book'[t].qty
                                /\ book'[t].live => book'[t].leaves > 0
    BY <1>4, <1>5, <1>8, <2>1
  <2> QED
    BY <1>2, <1>3, <1>4, <1>5, <1>6, <1>8, <1>11, <2>2 DEF Exchanged
<1>13. OrdersTyped'
  <2>1. credit' \in Int
    BY <1>1 DEF OrdersTyped
  <2> QED
    BY <1>1, <1>2, <1>3, <1>11, <2>1 DEF OrdersTyped, Tells, Accounts
<1>14. Covered'
  BY <1>3, <1>8, CoveredKept
<1>15. EndsIn(r.key)
  BY <1>2, <1>4, <1>5, <1>8 DEF EndsIn
<1>16. OrdersInv'
  BY <1>11, <1>12, <1>13, <1>14, <1>15, ExchangedInv
<1>17. Charges(r.key)
  <2>1. Due(m)' = -g
    BY <1>7, <1>9 DEF Due
  <2>2. credit' + drift' = credit + drift + Due(m)'
    BY <1>1, <2>1 DEF OrdersTyped
  <2>3. lost' = 0 => toNode' = Append(toNode, m)
    <3>1. lost \in Nat
      BY <1>1 DEF OrdersTyped
    <3> QED
      BY <1>8, <3>1
  <2>4. lost' = 0 => Squares
    BY <1>16, <2>2, <2>3, SquaresOne
  <2>5. book'[n].margin = IF Closes(r.key) THEN 0 ELSE Cost(r.key)
    BY <1>5, <1>6, <1>8 DEF Closes, Cost
  <2>6. Closes(r.key) \/ book'[n].qty = orders[r.key].qty
    BY <1>5, <1>6, <1>8 DEF Closes
  <2> QED
    BY <1>3, <1>4, <1>6, <1>7, <1>11, <2>4, <2>5, <2>6 DEF Charges
<1> QED
  BY <1>11, <1>12, <1>15, <1>16, <1>17 DEF Exchanging

LEMMA PlaceOrderKeeps ==
    ASSUME OrdersInv, toExchange # << >>, toExchange' = Tail(toExchange),
           UNCHANGED <<mode, script, node, dividends>>,
           NEW r, r = Head(toExchange), PlaceOrder(r)
    PROVE  OrdersInv' /\ \E k : Exchanging(k)
<1>1. OrdersTyped /\ Booking /\ r \in Requests
  BY RequestIs DEF OrdersInv
<1>2. r.price \in Nat /\ r.qty \in Nat \ {0}
  BY <1>1 DEF Requests
<1>3. PICK g, q : g = Equity(r.price, r.qty) /\ q = r.qty
  OBVIOUS
<1>4. g \in Nat /\ q \in Nat \ {0}
  BY <1>2, <1>3, EquityIsNat
<1>5. /\ r.closes = NoTicket /\ book' = Append(book, Placed(r, q, g))
      /\ credit' = credit - g /\ drift' = drift
      /\ Send(Report("new", Len(book) + 1, 0))
  BY <1>3 DEF PlaceOrder
<1>6. book \in Seq(Entry) /\ Placed(r, q, g) \in Entry /\ credit' \in Int
  <2>1. Placed(r, q, g) \in Entry
    BY <1>1, <1>4, PlacedIs DEF Fresh
  <2> QED
    BY <1>1, <1>4, <1>5, <2>1 DEF OrdersTyped
<1>7. /\ book' \in Seq(Entry) /\ Len(book') = Len(book) + 1
      /\ book'[Len(book) + 1] = Placed(r, q, g)
      /\ \A t \in Tickets : book'[t] = book[t]
  BY <1>5, <1>6, AppendIs, SeqIsFunction DEF Tickets
<1>8. \A t \in Tickets :
         /\ book'[t].key = book[t].key /\ book'[t].closes = book[t].closes
         /\ book'[t].live = book[t].live /\ book'[t].leaves <= book'[t].qty
         /\ book'[t].leaves = book[t].leaves
  BY <1>1, <1>7 DEF Booking
<1>9. g = IF r.closes = NoTicket THEN Equity(r.price, r.qty) ELSE 0
  BY <1>3, <1>5
<1>10. \A t \in Tickets :
         /\ book'[t].open = book[t].open /\ book'[t].margin = book[t].margin
         /\ book'[t].qty = book[t].qty \/ t = r.closes
  BY <1>7
<1> QED
  BY <1>3, <1>4, <1>5, <1>6, <1>7, <1>8, <1>9, <1>10, PlaceKeeps

LEMMA PlaceCloseKeeps ==
    ASSUME OrdersInv, toExchange # << >>, toExchange' = Tail(toExchange),
           UNCHANGED <<mode, script, node, dividends>>,
           NEW r, r = Head(toExchange), PlaceClose(r)
    PROVE  OrdersInv' /\ \E k : Exchanging(k)
<1>1. /\ OrdersTyped /\ Booking /\ r \in Requests
      /\ r.closes \in Tickets \cup {NoTicket}
  BY RequestIs DEF OrdersInv
<1>2. r.closes # NoTicket /\ r.closes \in Tickets
  BY <1>1 DEF PlaceClose
<1>3. PICK o, all, c : o = book[r.closes] /\ all = o.qty * (1 + o.split) /\ c = r.closes
  OBVIOUS
<1>4. /\ o \in Entry /\ all \in Nat \ {0} /\ all >= o.qty
  <2>1. o \in Entry
    BY <1>1, <1>2, <1>3, OrdersDomains
  <2>2. PICK x \in Nat \ {0}, y \in Nat : x = o.qty /\ y = o.split
    BY <2>1 DEF Entry
  <2>3. x * (1 + y) \in Nat /\ x * (1 + y) >= x
    <3>1. x * y \in Nat
      OBVIOUS
    <3>2. x * (1 + y) = x + x * y
      OBVIOUS
    <3> QED
      BY <3>1, <3>2
  <2> QED
    BY <1>3, <2>1, <2>2, <2>3
<1>5. PICK q : q = Smaller(r.qty, all)
  OBVIOUS
<1>6. q \in Nat \ {0}
  BY <1>1, <1>4, <1>5 DEF Smaller, Requests
<1>7. PICK e : e = [o EXCEPT !.qty = all, !.split = 0]
  OBVIOUS
<1>8. /\ e \in Entry /\ e.key = o.key /\ e.closes = o.closes /\ e.live = o.live
      /\ e.leaves = o.leaves /\ e.qty = all /\ e.open = o.open /\ e.margin = o.margin
  BY <1>4, <1>7 DEF Entry
<1>9. PICK old : old = [book EXCEPT ![c].qty = all, ![c].split = 0]
  OBVIOUS
<1>10. /\ book' = Append(old, Placed(r, q, 0))
       /\ credit' = credit /\ drift' = drift
       /\ Send(Report("new", Len(book) + 1, 0))
  BY <1>3, <1>5, <1>9 DEF PlaceClose
<1>11. /\ book \in Seq(Entry) /\ Len(book) \in Nat /\ Tickets = 1 .. Len(book)
       /\ c \in Tickets
  BY <1>1, <1>2, <1>3, OrdersDomains DEF OrdersTyped
<1>12. old = [book EXCEPT ![c] = e]
  BY <1>3, <1>7, <1>9, <1>11, SeqIsFunction DEF Tickets
<1>13. /\ old \in Seq(Entry) /\ Len(old) = Len(book) /\ old[c] = e
       /\ \A t \in Tickets \ {c} : old[t] = book[t]
  BY <1>8, <1>11, <1>12, ExceptSeq
<1>14. Placed(r, q, 0) \in Entry
  BY <1>1, <1>6, PlacedIs DEF Fresh
<1>15. /\ book' \in Seq(Entry) /\ Len(book') = Len(book) + 1
       /\ book'[Len(book) + 1] = Placed(r, q, 0)
       /\ book'[c] = e /\ \A t \in Tickets \ {c} : book'[t] = book[t]
  <2>1. PICK p : p = Placed(r, q, 0)
    OBVIOUS
  <2>2. /\ book' \in Seq(Entry) /\ Len(book') = Len(old) + 1
        /\ \A i \in 1 .. Len(old) : book'[i] = old[i]
        /\ book'[Len(old) + 1] = p
    BY <1>10, <1>13, <1>14, <2>1, AppendIs
  <2> QED
    BY <1>11, <1>13, <2>1, <2>2
<1>16. \A t \in Tickets :
         /\ book'[t].key = book[t].key /\ book'[t].closes = book[t].closes
         /\ book'[t].live = book[t].live /\ book'[t].leaves <= book'[t].qty
         /\ book'[t].leaves = book[t].leaves
  <2>1. book[c].leaves <= book[c].qty /\ book[c].leaves \in Nat /\ book[c].qty \in Nat
    BY <1>1, <1>3, <1>4, <1>11 DEF Booking, Entry
  <2>2. e.leaves <= all
    BY <1>3, <1>4, <1>8, <2>1
  <2> QED
    BY <1>1, <1>3, <1>8, <1>15, <2>2 DEF Booking
<1>17. 0 = IF r.closes = NoTicket THEN Equity(r.price, r.qty) ELSE 0
  BY <1>2
<1>18. credit' = credit - 0
  BY <1>1, <1>10 DEF OrdersTyped
<1>19. \A t \in Tickets :
         /\ book'[t].open = book[t].open /\ book'[t].margin = book[t].margin
         /\ book'[t].qty = book[t].qty \/ t = r.closes
  BY <1>3, <1>8, <1>15
<1>20. PICK g \in Nat : g = 0
  OBVIOUS
<1>21. /\ g = IF r.closes = NoTicket THEN Equity(r.price, r.qty) ELSE 0
       /\ credit' = credit - g /\ (r.closes = NoTicket => q = r.qty)
       /\ book' \in Seq(Entry) /\ Len(book') = Len(book) + 1
       /\ book'[Len(book) + 1] = Placed(r, q, g)
       /\ drift' = drift /\ Send(Report("new", Len(book) + 1, 0))
  BY <1>2, <1>10, <1>15, <1>17, <1>18, <1>20
<1> HIDE DEF Exchanging
<1> QED
  BY <1>6, <1>16, <1>19, <1>21, PlaceKeeps

LEMMA RefuseMarginKeeps ==
    ASSUME OrdersInv, toExchange # << >>, toExchange' = Tail(toExchange),
           UNCHANGED <<mode, script, node, dividends>>,
           NEW r, r = Head(toExchange), RefuseMargin(r)
    PROVE  OrdersInv' /\ \E k : Exchanging(k)
<1>0. PICK n, b, m, w : /\ n = Len(book) + 1
                        /\ b = [Placed(r, r.qty, 0) EXCEPT !.live = FALSE]
                        /\ m = Report("canceled", n, 0) /\ w = Reject(r, n)
  OBVIOUS
<1>1. OrdersTyped /\ Booking
  BY DEF OrdersInv
<1>2. /\ r \in Requests /\ Asking(r) /\ Taken(r.key) /\ Asked(r.key)
      /\ toExchange' \in Seq(Requests)
  BY RequestIs
<1>3. /\ mode' = mode /\ script' = script /\ orders' = orders /\ ticketOf' = ticketOf
      /\ margins' = margins /\ freeze' = freeze /\ cash' = cash
      /\ dividends' = dividends /\ Keys' = Keys
  BY DEF node, Keys
<1>4. /\ r.closes = NoTicket /\ book' = Append(book, b)
      /\ toNode' = toNode \o <<m, w>>
      /\ credit' = credit /\ drift' = drift /\ lost' = lost
  BY <1>0 DEF RefuseMargin
<1>5. /\ b \in Entry /\ b.key = r.key /\ b.closes = r.closes /\ b.qty = r.qty
      /\ b.leaves = r.qty /\ b.live = FALSE /\ b.open = r.qty
  <2>1. r.qty \in Nat \ {0} /\ r \in Requests
    BY <1>2 DEF Requests
  <2>2. PICK e : e = Placed(r, r.qty, 0)
    OBVIOUS
  <2>3. Fresh(e, r, r.qty, 0)
    BY <2>1, <2>2, PlacedIs
  <2>4. /\ e \in Entry /\ e.key = r.key /\ e.closes = r.closes /\ e.qty = r.qty
        /\ e.leaves = r.qty /\ e.open = r.qty
    BY <2>2, <2>3 DEF Fresh, Placed
  <2>5. b = [e EXCEPT !.live = FALSE]
    BY <1>0, <2>2
  <2> QED
    BY <2>4, <2>5, RefusedIs
<1>6. /\ Len(book) \in Nat /\ n \in Nat /\ Tickets = 1 .. Len(book)
      /\ book' \in Seq(Entry) /\ DOMAIN book' = 1 .. n /\ book'[n] = b
      /\ \A t \in Tickets : book'[t] = book[t]
  <2>1. book \in Seq(Entry) /\ Len(book) \in Nat /\ Tickets = 1 .. Len(book)
    BY <1>1, OrdersDomains DEF OrdersTyped
  <2>2. /\ book' \in Seq(Entry) /\ DOMAIN book' = 1 .. Len(book) + 1
        /\ \A i \in 1 .. Len(book) : book'[i] = book[i]
        /\ book'[Len(book) + 1] = b
    BY <1>4, <1>5, <2>1, AppendIs
  <2> QED
    BY <1>0, <2>1, <2>2
<1>7. /\ n \notin Tickets /\ Tickets' = DOMAIN book' /\ n \in Tickets'
      /\ Tickets \subseteq Tickets' /\ Tickets' \ Tickets = {n}
      /\ DOMAIN book' \ Tickets = {n}
  <2>1. n = Len(book) + 1
    BY <1>0
  <2> QED
    BY <1>6, <2>1 DEF Tickets
<1>8. /\ r.key \in Keys /\ r.closes = orders[r.key].closes
      /\ ~Booked(r.key) /\ ~Alive(r.key) /\ Untouched(r.key) /\ ~Answered(r.key)
      /\ r.side = orders[r.key].side
  BY <1>2 DEF Asking, Booked, Alive
<1>9. /\ m \in Reports /\ m.kind = "canceled" /\ m.key = r.key /\ m.ticket = n
      /\ m.closes = NoTicket
  <2>1. r.qty \in Nat
    BY <1>2 DEF Requests
  <2>2. b = book'[n] /\ b.leaves <= b.qty /\ b \in Entry
    BY <1>5, <1>6, <2>1
  <2>3. ReportOf(m, "canceled", b, n, 0)
    BY <1>0, <1>6, <2>2, ReportIs
  <2> QED
    BY <1>4, <1>5, <2>3 DEF ReportOf
<1>10. /\ w \in Rejects /\ w.kind = "reject" /\ w.key = r.key /\ w.ticket = n
       /\ w.responseTo = IF r.side = "buy" THEN "1" ELSE "2"
  BY <1>0, <1>2, <1>6, RejectIs
<1>11. Sound(m)'
  <2>1. Reporting(m)'
    BY <1>4, <1>5, <1>6, <1>7, <1>9 DEF Reporting
  <2> QED
    BY <1>9, <2>1 DEF Sound, Rejecting
<1>12. Sound(w)'
  <2>1. ~Alive(w.key)'
    BY <1>5, <1>6, <1>7, <1>8, <1>10 DEF Alive
  <2>2. Rejecting(w)'
    BY <1>3, <1>4, <1>5, <1>6, <1>7, <1>8, <1>10, <2>1 DEF Rejecting, Untouched
  <2> QED
    BY <1>10, <2>2 DEF Sound, Reporting
<1>13. PICK x : x = Len(toNode)
  OBVIOUS
<1>14. /\ x \in Nat /\ DOMAIN toNode = 1 .. x
       /\ toNode' \in Seq(Reports \cup Rejects \cup Exdrs) /\ DOMAIN toNode' = 1 .. x + 2
       /\ \A i \in DOMAIN toNode : toNode'[i] = toNode[i]
       /\ toNode'[x + 1] = m /\ toNode'[x + 2] = w
  <2>1. PICK S : S = Reports \cup Rejects \cup Exdrs
    OBVIOUS
  <2>2. m \in S /\ w \in S /\ toNode \in Seq(S)
    BY <1>1, <1>9, <1>10, <2>1 DEF OrdersTyped
  <2>3. <<m, w>> \in Seq(S) /\ Len(<<m, w>>) = 2 /\ <<m, w>>[1] = m /\ <<m, w>>[2] = w
    BY <2>2
  <2>4. /\ toNode' \in Seq(S) /\ Len(toNode') = x + 2 /\ x \in Nat
        /\ \A i \in 1 .. Len(toNode') :
              toNode'[i] = IF i <= x THEN toNode[i] ELSE <<m, w>>[i - x]
    BY <1>4, <1>13, <2>2, <2>3, ConcatProperties, SeqIsFunction
  <2>5. DOMAIN toNode = 1 .. x /\ DOMAIN toNode' = 1 .. x + 2
    BY <1>13, <2>2, <2>4, SeqIsFunction
  <2>6. toNode'[x + 1] = <<m, w>>[1] /\ toNode'[x + 2] = <<m, w>>[2]
    <3>1. /\ x + 1 \in 1 .. x + 2 /\ ~(x + 1 <= x) /\ (x + 1) - x = 1
          /\ x + 2 \in 1 .. x + 2 /\ ~(x + 2 <= x) /\ (x + 2) - x = 2
      BY <2>4
    <3> QED
      BY <2>4, <3>1
  <2>7. \A i \in DOMAIN toNode : toNode'[i] = toNode[i]
    <3>1. \A i \in 1 .. x : i \in 1 .. x + 2 /\ i <= x
      BY <2>4
    <3> QED
      BY <2>4, <2>5, <3>1
  <2> QED
    BY <2>1, <2>3, <2>4, <2>5, <2>6, <2>7
<1>15. /\ DOMAIN toNode \subseteq DOMAIN toNode'
       /\ \A i \in DOMAIN toNode' \ DOMAIN toNode : i = x + 1 \/ i = x + 2
       /\ x + 1 < x + 2
  BY <1>14
<1>16. Tells(r.key)
  <2>1. \A i \in DOMAIN toNode' \ DOMAIN toNode :
          /\ toNode'[i] \in {m, w} /\ \E v : v = toNode'[i] /\ Sound(v)'
          /\ toNode'[i].kind \in {"canceled", "reject"}
    BY <1>9, <1>10, <1>11, <1>12, <1>14, <1>15
  <2>2. \A i, j \in DOMAIN toNode' \ DOMAIN toNode :
          i < j => i = x + 1 /\ j = x + 2
    BY <1>14, <1>15
  <2>3. DOMAIN book' \ Tickets = {n} /\ ~book'[n].live
    BY <1>5, <1>6, <1>7
  <2> QED
    BY <1>8, <1>9, <1>10, <1>14, <2>1, <2>2, <2>3 DEF Tells
<1>17. Exchanged(r.key)
  <2>1. \A t \in DOMAIN book' : /\ book'[t].leaves <= book'[t].qty
                                /\ book'[t].live => book'[t].leaves > 0
    <3>1. r.qty \in Nat
      BY <1>2 DEF Requests
    <3> QED
      BY <1>1, <1>5, <1>6, <1>7, <3>1 DEF Booking
  <2>2. \A i \in DOMAIN toNode' \ DOMAIN toNode : toNode'[i].key = r.key
    BY <1>9, <1>10, <1>14, <1>15
  <2>3. lost' \in Nat /\ lost' = lost
    BY <1>1, <1>4 DEF OrdersTyped
  <2> QED
    BY <1>2, <1>3, <1>4, <1>5, <1>6, <1>7, <1>8, <1>14, <1>15, <2>1, <2>2, <2>3
       DEF Exchanged
<1>18. OrdersTyped'
  BY <1>1, <1>2, <1>3, <1>4, <1>6, <1>14 DEF OrdersTyped, Accounts
<1>19. Covered'
  BY <1>3, <1>4, CoveredKept
<1>20. EndsIn(r.key)
  BY <1>2, <1>4, <1>6, <1>8 DEF EndsIn, Closes
<1>21. OrdersInv'
  BY <1>16, <1>17, <1>18, <1>19, <1>20, ExchangedInv
<1>22. Charges(r.key)
  <2>1. Squares
    <3>1. PICK f, D, S : /\ f = Dues' /\ D = DOMAIN toNode /\ S = D \cup {x + 1}
                         /\ f[x + 1] = 0 /\ f[x + 2] = 0
                         /\ \A i \in DOMAIN toNode' : f[i] \in Int
      <4>1. (\A i \in DOMAIN toNode : Dues[i] = Due(toNode[i]) /\ Dues[i] \in Int)'
        BY <1>21, DuesTyped, PTL
      <4>2. x + 1 \in DOMAIN toNode' /\ x + 2 \in DOMAIN toNode'
        BY <1>14
      <4>3. b.open # 0
        BY <1>2, <1>5 DEF Requests
      <4>4. Due(m)' = 0 /\ Due(w)' = 0
        BY <1>6, <1>9, <1>10, <4>3 DEF Due
      <4> QED
        BY <1>14, <4>1, <4>2, <4>4 DEF Due, Cost, Equity
    <3>2. /\ DOMAIN toNode' = S \cup {x + 2} /\ x + 2 \notin S /\ x + 1 \notin D
          /\ IsFiniteSet(D) /\ IsFiniteSet(S)
          /\ D \subseteq DOMAIN toNode' /\ S \subseteq DOMAIN toNode'
      <4>1. D = 1 .. x /\ DOMAIN toNode' = 1 .. x + 2 /\ x \in Nat
        BY <1>14, <3>1
      <4>2. S = 1 .. x + 1
        BY <3>1, <4>1
      <4>3. IsFiniteSet(D) /\ IsFiniteSet(S)
        BY <4>1, <4>2, FS_Interval
      <4> QED
        BY <4>1, <4>2, <4>3
    <3>3. SumFunctionOnSet(f, S) = 0 + SumFunctionOnSet(f, D)
      BY <3>1, <3>2, SumAdded
    <3>4. SumFunctionOnSet(f, S \cup {x + 2}) = 0 + SumFunctionOnSet(f, S)
      <4>1. PICK y : y = x + 2
        OBVIOUS
      <4>2. y \notin S /\ f[y] = 0 /\ \A i \in S : f[i] \in Int
        BY <3>1, <3>2, <4>1
      <4>3. SumFunctionOnSet(f, S \cup {y}) = f[y] + SumFunctionOnSet(f, S)
        BY <3>2, <4>2, SumAdded
      <4> QED
        BY <4>1, <4>2, <4>3
    <3>5. SumFunctionOnSet(f, D) \in Int
      BY <3>1, <3>2, SumInt
    <3>6. SumFunctionOnSet(f, DOMAIN toNode') = SumFunctionOnSet(f, DOMAIN toNode)
      BY <3>1, <3>2, <3>3, <3>4, <3>5
    <3> QED
      BY <1>4, <3>1, <3>6 DEF Squares
  <2>2. \A i \in DOMAIN toNode' \ DOMAIN toNode :
           /\ toNode'[i].kind \notin {"partial", "filled"}
           /\ toNode'[i].kind = "canceled" => toNode'[i].ticket = n
    BY <1>9, <1>10, <1>14, <1>15
  <2>3. b.open # 0
    BY <1>2, <1>5 DEF Requests
  <2> QED
    BY <1>3, <1>5, <1>6, <1>7, <1>8, <2>1, <2>2, <2>3 DEF Charges
<1> QED
  BY <1>16, <1>17, <1>20, <1>21, <1>22 DEF Exchanging

LEMMA LobKeeps == ASSUME OrdersInv, Lob PROVE OrdersInv' /\ \E k : Exchanging(k)
<1>1. PICK r : r = Head(toExchange)
  OBVIOUS
<1>2. /\ toExchange # << >> /\ toExchange' = Tail(toExchange)
      /\ UNCHANGED <<mode, script, node, dividends>>
      /\ \/ RefuseOrder(r) \/ RefuseMargin(r) \/ PlaceOrder(r)
         \/ RefuseClose(r) \/ PlaceClose(r)
  BY <1>1 DEF Lob
<1>3. CASE RefuseOrder(r)
  <2>1. /\ toNode' = Append(toNode, Reject(r, r.closes))
        /\ UNCHANGED <<exchange, lost>>
    BY <1>3 DEF RefuseOrder
  <2> QED
    BY <1>1, <1>2, <2>1, RefuseKeeps
<1>4. CASE RefuseClose(r)
  <2>1. /\ toNode' = Append(toNode, Reject(r, r.closes))
        /\ UNCHANGED <<exchange, lost>>
    BY <1>4 DEF RefuseClose
  <2> QED
    BY <1>1, <1>2, <2>1, RefuseKeeps
<1> QED
  BY <1>1, <1>2, <1>3, <1>4, RefuseMarginKeeps, PlaceOrderKeeps, PlaceCloseKeeps

\* Execute, Cancel and AddExdrCash: the exchange changes its orders and tells so.
LEMMA FeedKeeps ==
    ASSUME OrdersInv, NEW k, NEW m \in Reports \cup Rejects \cup Exdrs,
           UNCHANGED <<mode, script, node, toExchange>>,
           \/ toNode' = Append(toNode, m) /\ lost' = lost
           \/ toNode' = toNode /\ lost' = lost + 1,
           Sound(m)', m.kind # "exdr" => m.key = k /\ Alive(k),
           m.kind \notin {"new", "reject"}, Alive(k) \/ ~Answered(k), ~Asked(k),
           book' \in Seq(Entry), DOMAIN book' = Tickets,
           \A t \in Tickets :
              /\ book'[t].key = book[t].key /\ book'[t].closes = book[t].closes
              /\ book'[t].live => book[t].live
              /\ book'[t].leaves <= book'[t].qty
              /\ book'[t].live => book'[t].leaves > 0
              /\ book[t].key # k => (book'[t].live <=> book[t].live),
           k \in Keys /\ Closes(k) /\ Alive(k) =>
              \/ \E t \in Tickets : book'[t].key = k /\ book'[t].live
              \/ m.kind # "exdr" /\ Final(m),
           m.kind \in {"partial", "filled"} =>
              \E t \in Tickets : /\ book[t].live /\ book[t].key = m.key
                                 /\ book[t].closes = m.closes /\ m.cum <= book[t].qty,
           m.kind = "canceled" => book'[m.ticket].open = 0,
           \A t \in Tickets :
              /\ book'[t].live => book'[t].margin = book[t].margin
                                 /\ book'[t].qty = book[t].qty
              /\ book'[t].open # book[t].open =>
                    \/ book[t].live
                    \/ \E u \in Tickets : book[u].live /\ book[u].closes = t,
           Charging => credit' + drift' = credit + drift + Due(m)',
           credit' \in Int, drift' \in Int, dividends' \in Nat, Covered'
    PROVE  OrdersInv' /\ Exchanging(k)
<1>1. OrdersTyped
  BY DEF OrdersInv
<1>2. /\ mode' = mode /\ script' = script /\ orders' = orders /\ ticketOf' = ticketOf
      /\ margins' = margins /\ freeze' = freeze /\ cash' = cash
      /\ toExchange' = toExchange
  BY DEF node
<1>3. /\ Tells(k)
      /\ lost' \in Nat /\ (lost' = 0 => lost = 0)
      /\ DOMAIN toNode \subseteq DOMAIN toNode'
      /\ \A i \in DOMAIN toNode : toNode'[i] = toNode[i]
      /\ \A i \in DOMAIN toNode' \ DOMAIN toNode :
            toNode'[i].kind # "exdr" => toNode'[i].key = k
      /\ \A i \in DOMAIN toNode' \ DOMAIN toNode : toNode'[i] = m
      /\ lost' = 0 => \E i \in DOMAIN toNode' \ DOMAIN toNode : toNode'[i] = m
  <2>1. \A t \in DOMAIN book' \ Tickets : book'[t].live => m.kind = "new" /\ m.key = k
    OBVIOUS
  <2> HIDE DEF Tells
  <2> QED
    BY <2>1, SaysOne
<1>4. Exchanged(k)
  BY <1>2, <1>3 DEF Exchanged, Taken
<1>5. OrdersTyped'
  <2>1. toNode' \in Seq(Reports \cup Rejects \cup Exdrs)
    BY <1>3 DEF Tells
  <2> QED
    BY <1>1, <1>2, <1>3, <2>1 DEF OrdersTyped, Accounts
<1>6. EndsIn(k)
  BY <1>3 DEF EndsIn
<1>7. OrdersInv'
  BY <1>3, <1>4, <1>5, <1>6, ExchangedInv, SMTT(20)
<1>8. Charges(k)
  <2>1. lost' = 0 => toNode' = Append(toNode, m)
    <3>1. lost \in Nat
      BY <1>1 DEF OrdersTyped
    <3> QED
      BY <3>1
  <2>2. lost' = 0 /\ Charging => Squares
    BY <1>7, <2>1, SquaresOne
  <2>3. DOMAIN book' \ Tickets = {}
    OBVIOUS
  <2>4. \A i \in DOMAIN toNode' \ DOMAIN toNode :
          /\ toNode'[i].kind \in {"partial", "filled"} =>
                \E t \in Tickets : /\ book[t].live /\ book[t].key = toNode'[i].key
                                   /\ book[t].closes = toNode'[i].closes
                                   /\ toNode'[i].cum <= book[t].qty
          /\ toNode'[i].kind = "canceled" /\ toNode'[i].closes = NoTicket =>
                (book'[toNode'[i].ticket].open = 0 <=> Alive(k))
    <3>1. \A i \in DOMAIN toNode' \ DOMAIN toNode : toNode'[i] = m
      BY <1>3
    <3>2. m.kind = "canceled" => Alive(k) /\ book'[m.ticket].open = 0
      OBVIOUS
    <3> QED
      BY <3>1, <3>2
  <2>5. \A t \in Tickets :
          /\ book'[t].live => /\ book'[t].margin = book[t].margin
                              /\ (book'[t].qty = book[t].qty \/ (k \in Keys /\ t = orders[k].closes))
          /\ book'[t].open # book[t].open =>
                \/ book[t].live
                \/ \E u \in Tickets : book[u].live /\ book[u].closes = t
    OBVIOUS
  <2> QED
    BY <1>2, <2>2, <2>3, <2>4, <2>5 DEF Charges
<1> QED
  BY <1>3, <1>4, <1>6, <1>7, <1>8 DEF Exchanging

LEMMA SendIs ==
    ASSUME NEW m, Send(m)
    PROVE  \/ toNode' = Append(toNode, m) /\ lost' = lost
           \/ MoreEvents /\ toNode' = toNode /\ lost' = lost + 1
  BY DEF Send

LEMMA SettledIs ==
    ASSUME NEW o \in Entry
    PROVE  /\ Settled(o) \in Int /\ Told(o) \in Int
           /\ o.closes = NoTicket => o.margin - Settled(o) \in Nat
  BY DEF Entry, Settled, Told

\* A live order is not asked for any more.
LEMMA LiveIsNotAsked ==
    ASSUME OrdersInv, NEW t \in Tickets, book[t].live
    PROVE  ~Asked(book[t].key) /\ Alive(book[t].key)
  BY DEF OrdersInv, AskedOnce, Asking, Asked, Booked, Alive

LEMMA ExecuteKeeps ==
    ASSUME OrdersInv, NEW t \in Tickets, NEW p \in Prices, NEW q \in 1 .. book[t].leaves,
           Execute(t, p, q)
    PROVE  OrdersInv' /\ \E k : Exchanging(k)
<1>1. OrdersTyped /\ Booking
  BY DEF OrdersInv
<1>2. book[t] \in Entry /\ Len(book) \in Nat /\ Tickets = 1 .. Len(book) /\ t \in Nat
  BY <1>1, OrdersDomains
<1>3. PICK a, l, x : a = book[t].amount /\ l = book[t].leaves /\ x = Effect(p, q)
  OBVIOUS
<1>4. a \in Nat /\ l \in Nat /\ q \in Nat \ {0} /\ q <= l /\ x \in Nat
  <2>1. a \in Nat /\ l \in Nat
    BY <1>2, <1>3 DEF Entry
  <2>2. q \in Nat \ {0} /\ q <= l
    BY <1>3, <2>1
  <2>3. p \in Nat
    BY TraderNodeAssumption
  <2>4. p * q \in Nat
    BY <2>2, <2>3
  <2> QED
    BY <1>3, <2>1, <2>2, <2>4 DEF Effect
<1>5. PICK o : o = [book[t] EXCEPT !.leaves = l - q, !.amount = a + x]
  OBVIOUS
<1>6. /\ o \in Entry /\ o.leaves = l - q /\ o.key = book[t].key /\ o.qty = book[t].qty
      /\ o.closes = book[t].closes /\ o.margin \in Nat /\ o.leaves \in Nat
      /\ o.margin = book[t].margin /\ o.open = book[t].open /\ o.amount = a + x
  <2>1. PICK y \in Nat, z \in Nat : y = l - q /\ z = a + x
    BY <1>4
  <2>2. PICK e \in Entry : e = book[t]
    BY <1>2
  <2>3. o = [e EXCEPT !.leaves = y, !.amount = z]
    BY <1>5, <2>1, <2>2
  <2>4. /\ o \in Entry /\ o.leaves = y /\ o.key = e.key /\ o.qty = e.qty
        /\ o.closes = e.closes /\ o.margin \in Nat /\ o.margin = e.margin
        /\ o.open = e.open /\ o.amount = z
    BY <2>3 DEF Entry
  <2> QED
    BY <2>1, <2>2, <2>4
<1>7. PICK filled \in BOOLEAN : filled <=> o.leaves = 0
  <2>1. (o.leaves = 0) \in BOOLEAN
    OBVIOUS
  <2> QED
    BY <2>1
<1>8. PICK settled : settled = IF filled THEN Settled(o) ELSE 0
  OBVIOUS
<1>9. PICK margin : margin = IF filled /\ o.closes = NoTicket THEN o.margin - settled
                             ELSE o.margin
  OBVIOUS
<1>10. settled \in Int /\ margin \in Nat
  BY <1>6, <1>8, <1>9, SettledIs
<1>11. PICK fee \in Nat : fee = Fee(o)
  BY <1>6, FeeIsNat
<1>12. PICK b : b = [o EXCEPT !.margin = margin, !.live = ~filled]
  OBVIOUS
<1>13. /\ b \in Entry /\ b.key = book[t].key /\ b.closes = book[t].closes
       /\ b.qty = book[t].qty /\ b.leaves = l - q /\ (b.live <=> ~filled)
       /\ b.margin = margin /\ b.open = book[t].open /\ b.amount = o.amount
  BY <1>6, <1>10, <1>12 DEF Entry
<1>14. PICK kind : kind = IF filled THEN "filled" ELSE "partial"
  OBVIOUS
<1>15. PICK m : m = Report(kind, t, fee)
  OBVIOUS
<1>16. /\ book[t].live /\ Send(m)
       /\ book' = [u \in Tickets |->
                     IF u = t THEN b
                     ELSE IF u = o.closes
                     THEN [book[u] EXCEPT !.open = IF q > @ THEN 0 ELSE @ - q]
                     ELSE book[u]]
       /\ credit' = credit + settled - (IF credit + settled < fee THEN 0 ELSE fee)
       /\ drift' = drift + (IF credit + settled < fee THEN 0 ELSE fee)
                     + (IF filled THEN Told(o) - fee - settled ELSE 0)
       /\ UNCHANGED <<mode, script, node, toExchange, dividends>>
  BY <1>3, <1>5, <1>7, <1>8, <1>9, <1>11, <1>12, <1>14, <1>15 DEF Execute
<1>17. /\ book'[t] = b /\ DOMAIN book' = Tickets
       /\ \A u \in Tickets \ {t} :
             /\ book'[u] \in Entry /\ book'[u].key = book[u].key
             /\ book'[u].closes = book[u].closes /\ book'[u].live = book[u].live
             /\ book'[u].leaves = book[u].leaves /\ book'[u].qty = book[u].qty
             /\ book'[u].margin = book[u].margin
             /\ book'[u].open # book[u].open => u = o.closes
  <2>1. book'[t] = b /\ DOMAIN book' = Tickets
    BY <1>16
  <2>2. ASSUME NEW u \in Tickets \ {t}
        PROVE  /\ book'[u] \in Entry /\ book'[u].key = book[u].key
               /\ book'[u].closes = book[u].closes /\ book'[u].live = book[u].live
               /\ book'[u].leaves = book[u].leaves /\ book'[u].qty = book[u].qty
               /\ book'[u].margin = book[u].margin
               /\ book'[u].open # book[u].open => u = o.closes
    <3>1. book[u] \in Entry
      BY <1>1, OrdersDomains
    <3>2. CASE u = o.closes
      <4>1. PICK y : y = IF q > book[u].open THEN 0 ELSE book[u].open - q
        OBVIOUS
      <4>2. y \in Nat
        BY <1>4, <3>1, <4>1 DEF Entry
      <4>3. book'[u] = [book[u] EXCEPT !.open = y]
        BY <1>16, <2>2, <3>2, <4>1
      <4>4. PICK e \in Entry : e = book[u]
        BY <3>1
      <4>5. PICK f : f = [e EXCEPT !.open = y]
        OBVIOUS
      <4>6. /\ f \in Entry /\ f.key = e.key /\ f.closes = e.closes /\ f.live = e.live
            /\ f.leaves = e.leaves /\ f.qty = e.qty /\ f.margin = e.margin
        BY <4>2, <4>5 DEF Entry
      <4> QED
        BY <3>2, <4>3, <4>4, <4>5, <4>6
    <3>3. CASE u # o.closes
      BY <1>16, <2>2, <3>1, <3>3
    <3> QED
      BY <3>2, <3>3
  <2> QED
    BY <2>1, <2>2
<1>18. /\ book' \in Seq(Entry) /\ Tickets' = Tickets
  <2>1. book' \in [1 .. Len(book) -> Entry]
    BY <1>2, <1>13, <1>16, <1>17
  <2> QED
    BY <1>2, <1>17, <2>1, FunctionIsSeq DEF Tickets
<1>19. /\ kind \in {"partial", "filled"} /\ m \in Reports /\ m.kind = kind
       /\ m.key = book[t].key /\ m.ticket = t /\ m.closes = book[t].closes
       /\ m.leaves = l - q /\ m.cum = book[t].qty - (l - q)
       /\ m.commission = fee /\ m.margin = LedgerEquity(kind, b)
  <2>1. b.leaves <= b.qty /\ b = book'[t]
    BY <1>1, <1>3, <1>4, <1>13, <1>17 DEF Booking, Entry
  <2>2. kind \in {"partial", "filled"}
    BY <1>14
  <2>3. ReportOf(m, kind, b, t, fee)
    BY <1>2, <1>13, <1>15, <2>1, <2>2, ReportIs
  <2> QED
    BY <1>13, <2>2, <2>3 DEF ReportOf
<1>20. Sound(m)'
  <2>1. m.kind = "partial" => m.leaves > 0
    BY <1>4, <1>6, <1>7, <1>14, <1>19
  <2>2. m.kind = "filled" => m.leaves = 0 /\ m.cum > 0 /\ ~book'[t].live
    <3>1. book[t].qty \in Nat \ {0}
      BY <1>2 DEF Entry
    <3> QED
      BY <1>6, <1>7, <1>13, <1>14, <1>17, <1>19, <3>1
  <2>3. Reporting(m)'
    BY <1>13, <1>17, <1>18, <1>19, <2>1, <2>2 DEF Reporting
  <2> QED
    BY <1>19, <2>3 DEF Sound, Rejecting
<1>21. \A u \in Tickets :
         /\ book'[u].key = book[u].key /\ book'[u].closes = book[u].closes
         /\ book'[u].live => book[u].live
         /\ book'[u].leaves <= book'[u].qty
         /\ book'[u].live => book'[u].leaves > 0
  <2>1. l <= book[t].qty /\ book[t].qty \in Nat
    BY <1>1, <1>2, <1>3 DEF Booking, Entry
  <2>2. /\ b.leaves <= b.qty /\ (b.live => b.leaves > 0)
    BY <1>4, <1>6, <1>7, <1>13, <2>1
  <2> QED
    BY <1>1, <1>13, <1>16, <1>17, <2>2 DEF Booking
<1>22. credit' \in Int /\ drift' \in Int /\ dividends' \in Nat
  <2>1. credit \in Int /\ drift \in Int /\ Told(o) \in Int /\ dividends \in Nat
    BY <1>1, <1>6, SettledIs DEF OrdersTyped
  <2> QED
    BY <1>10, <1>16, <2>1
<1>23. Covered'
  BY <1>16, CoveredKept, SendIs DEF node
<1>24. PICK k : k = book[t].key
  OBVIOUS
<1>25. ~Asked(k) /\ Alive(k)
  BY <1>16, <1>24, LiveIsNotAsked
<1>26. /\ \A u \in Tickets : book[u].key # k => (book'[u].live <=> book[u].live)
       /\ \/ \E u \in Tickets : book'[u].key = k /\ book'[u].live
          \/ m.kind # "exdr" /\ Final(m)
  BY <1>7, <1>13, <1>14, <1>17, <1>19, <1>24 DEF Final
<1>27. /\ m.kind # "exdr" => m.key = k /\ Alive(k)
       /\ m.kind \notin {"new", "reject"}
       /\ m \in Reports \cup Rejects \cup Exdrs
  BY <1>19, <1>24, <1>25
<1>28. /\ UNCHANGED <<mode, script, node, toExchange>>
       /\ \/ toNode' = Append(toNode, m) /\ lost' = lost
          \/ toNode' = toNode /\ lost' = lost + 1
       /\ book' \in Seq(Entry) /\ DOMAIN book' = Tickets
  BY <1>16, <1>17, <1>18, SendIs
<1>29. /\ m.kind \in {"partial", "filled"} =>
             \E u \in Tickets : /\ book[u].live /\ book[u].key = m.key
                                /\ book[u].closes = m.closes /\ m.cum <= book[u].qty
       /\ m.kind # "canceled"
  <2>1. m.cum <= book[t].qty
    <3>1. book[t].qty \in Nat
      BY <1>2 DEF Entry
    <3> QED
      BY <1>4, <1>6, <1>19, <3>1
  <2> QED
    BY <1>16, <1>19, <2>1
<1>30. \A u \in Tickets :
          /\ book'[u].live => book'[u].margin = book[u].margin
                             /\ book'[u].qty = book[u].qty
          /\ book'[u].open # book[u].open =>
                \/ book[u].live
                \/ \E w \in Tickets : book[w].live /\ book[w].closes = u
  <2>1. book'[t].live => book'[t].margin = book[t].margin
    BY <1>6, <1>9, <1>13, <1>17
  <2>2. book'[t].qty = book[t].qty /\ book'[t].open = book[t].open
    BY <1>13, <1>17
  <2> QED
    BY <1>6, <1>16, <1>17, <2>1, <2>2
<1>31. ASSUME Charging PROVE credit' + drift' = credit + drift + Due(m)'
  <2>1. /\ mode' = mode /\ orders' = orders /\ credit \in Int /\ drift \in Int
        /\ Told(o) \in Int
    BY <1>1, <1>6, <1>16, SettledIs DEF OrdersTyped, node
  <2>2. credit' + drift' = credit + drift + (IF filled THEN Told(o) - fee ELSE 0)
    <3>1. PICK c, d, h : c = credit /\ d = drift /\ h = Told(o)
      OBVIOUS
    <3>2. c \in Int /\ d \in Int /\ h \in Int
      BY <2>1, <3>1
    <3>3. credit' + drift' = c + d + (IF filled THEN h - fee ELSE 0)
      <4>1. PICK g : g = IF c + settled < fee THEN 0 ELSE fee
        OBVIOUS
      <4>2. credit' = c + settled - g /\ g \in Int
        BY <1>16, <3>1, <4>1
      <4>3. drift' = d + g + (IF filled THEN h - fee - settled ELSE 0)
        BY <1>16, <3>1, <4>1
      <4>4. ~filled => settled = 0
        BY <1>8
      <4>5. CASE filled
        BY ONLY <1>10, <3>2, <4>2, <4>3, <4>5
      <4>6. CASE ~filled
        BY ONLY <1>10, <3>2, <4>2, <4>3, <4>4, <4>6
      <4> QED
        BY <4>5, <4>6
    <3> QED
      BY <3>1, <3>3
  <2>3. CASE ~filled
    BY <1>14, <1>19, <2>1, <2>2, <2>3 DEF Due
  <2>4. CASE filled
    <3>1. m.kind = "filled" /\ m.margin = o.amount
      BY <1>13, <1>14, <1>19, <2>4 DEF LedgerEquity
    <3>2. o.closes = NoTicket => o.margin = Cost(m.key)'
      BY <1>6, <1>16, <1>19, <1>31, <2>1 DEF Charging, Cost, Equity
    <3>3. Told(o) - fee = Due(m)'
      BY <1>6, <1>19, <3>1, <3>2 DEF Told, Due
    <3> QED
      BY <2>2, <2>4, <3>3
  <2> QED
    BY <2>3, <2>4
<1> QED
  BY <1>20, <1>21, <1>22, <1>23, <1>25, <1>26, <1>27, <1>28, <1>29, <1>30, <1>31, FeedKeeps

LEMMA CancelKeeps ==
    ASSUME OrdersInv, NEW t \in Tickets, Cancel(t)
    PROVE  OrdersInv' /\ \E k : Exchanging(k)
<1>1. OrdersTyped /\ Booking
  BY DEF OrdersInv
<1>2. book[t] \in Entry /\ Len(book) \in Nat /\ Tickets = 1 .. Len(book) /\ t \in Nat
  BY <1>1, OrdersDomains
<1>3. PICK o : o = book[t]
  OBVIOUS
<1>4. PICK b : b = [o EXCEPT !.live = FALSE, !.margin = 0, !.open = 0]
  OBVIOUS
<1>5. /\ b \in Entry /\ b.key = o.key /\ b.closes = o.closes /\ b.qty = o.qty
      /\ b.leaves = o.leaves /\ b.live = FALSE /\ b.open = 0
  BY <1>2, <1>3, <1>4 DEF Entry
<1>6. PICK m : m = Report("canceled", t, 0)
  OBVIOUS
<1>7. /\ o.live /\ book' = [book EXCEPT ![t] = b] /\ credit' = credit + o.margin
      /\ toNode' = Append(toNode, m)
      /\ UNCHANGED <<mode, script, node, toExchange, drift, lost, dividends>>
  BY <1>3, <1>4, <1>6 DEF Cancel
<1>8. /\ book' \in Seq(Entry) /\ DOMAIN book' = Tickets /\ Tickets' = Tickets
      /\ book'[t] = b /\ \A u \in Tickets \ {t} : book'[u] = book[u]
  <2>1. book \in Seq(Entry) /\ t \in 1 .. Len(book)
    BY <1>1, <1>2 DEF OrdersTyped
  <2>2. /\ book' \in Seq(Entry) /\ Len(book') = Len(book)
        /\ book'[t] = b /\ \A u \in 1 .. Len(book) : u # t => book'[u] = book[u]
    BY <1>5, <1>7, <2>1, ExceptSeq
  <2> QED
    BY <1>2, <2>2, SeqIsFunction DEF Tickets
<1>9. /\ m \in Reports /\ m.kind = "canceled" /\ m.key = o.key /\ m.ticket = t
      /\ m.closes = o.closes
  <2>1. b.leaves <= b.qty /\ b = book'[t]
    BY <1>1, <1>3, <1>5, <1>8 DEF Booking
  <2>2. ReportOf(m, "canceled", b, t, 0)
    BY <1>2, <1>5, <1>6, <2>1, ReportIs
  <2> QED
    BY <1>5, <2>2 DEF ReportOf
<1>10. Sound(m)'
  <2>1. Reporting(m)'
    BY <1>5, <1>8, <1>9 DEF Reporting
  <2> QED
    BY <1>9, <2>1 DEF Sound, Rejecting
<1>11. \A u \in Tickets :
         /\ book'[u].key = book[u].key /\ book'[u].closes = book[u].closes
         /\ book'[u].live => book[u].live
         /\ book'[u].leaves <= book'[u].qty
         /\ book'[u].live => book'[u].leaves > 0
  BY <1>1, <1>3, <1>5, <1>8 DEF Booking
<1>12. credit' \in Int /\ drift' \in Int /\ dividends' \in Nat
  <2>1. credit \in Int /\ drift \in Int /\ o.margin \in Nat /\ dividends \in Nat
    BY <1>1, <1>2, <1>3 DEF OrdersTyped, Entry
  <2> QED
    BY <1>7, <2>1
<1>13. Covered'
  BY <1>7, CoveredKept DEF node
<1>14. ~Asked(o.key) /\ Alive(o.key)
  BY <1>3, <1>7, LiveIsNotAsked
<1>15. /\ \A u \in Tickets : book[u].key # o.key => (book'[u].live <=> book[u].live)
       /\ Closes(o.key) => Final(m)
  BY <1>1, <1>3, <1>8, <1>9 DEF Booking, Closes, Final
<1>16. UNCHANGED <<mode, script, node, toExchange>> /\ lost' = lost
  BY <1>7
<1>17. /\ m.kind \notin {"partial", "filled"} /\ book'[m.ticket].open = 0
       /\ \A u \in Tickets :
             /\ book'[u].live => book'[u].margin = book[u].margin
                                /\ book'[u].qty = book[u].qty
             /\ book'[u].open # book[u].open =>
                   \/ book[u].live
                   \/ \E w \in Tickets : book[w].live /\ book[w].closes = u
  BY <1>3, <1>5, <1>7, <1>8, <1>9
<1>18. ASSUME Charging PROVE credit' + drift' = credit + drift + Due(m)'
  <2>1. orders' = orders /\ drift' = drift /\ credit \in Int /\ drift \in Int
    BY <1>1, <1>7 DEF OrdersTyped, node
  <2>2. o.margin \in Int
    BY <1>2, <1>3 DEF Entry
  <2>3. o.margin = Due(m)'
    BY <1>3, <1>7, <1>9, <1>17, <1>18, <2>1 DEF Charging, Due, Cost, Equity
  <2> QED
    BY <1>7, <2>1, <2>2, <2>3
<1> QED
  BY <1>17, <1>18, <1>7, <1>8, <1>9, <1>10, <1>11, <1>12, <1>13, <1>14, <1>15, <1>16, FeedKeeps

LEMMA NoOrderWithoutKey ==
    ASSUME OrdersInv
    PROVE  ~Asked(NoTicket) /\ ~Answered(NoTicket)
<1>1. OrdersTyped /\ AskedOnce /\ Answering
  BY DEF OrdersInv
<1>2. NoTicket \notin Keys
  BY <1>1, OrdersDomains DEF NoTicket
<1>3. ~Asked(NoTicket)
  BY <1>1, <1>2 DEF Asked, AskedOnce, Asking
<1>4. ASSUME NEW i \in DOMAIN toNode, toNode[i].kind # "exdr"
      PROVE  toNode[i].key \in Keys
  <2>1. toNode[i].kind \in {"new", "partial", "filled", "canceled", "reject", "exdr"}
    BY <1>1, OrdersDomains, MessageIs
  <2>2. Sound(toNode[i])
    BY <1>1 DEF Answering
  <2> QED
    BY <1>1, <1>4, <2>1, <2>2 DEF Sound, Reporting, Rejecting, Booking, OrdersInv
<1> QED
  BY <1>2, <1>3, <1>4 DEF Answered, About

LEMMA AddExdrCashKeeps ==
    ASSUME OrdersInv, NEW amount \in Dividends, NEW split \in Splits,
           AddExdrCash(amount, split)
    PROVE  OrdersInv' /\ \E k : Exchanging(k)
<1>1. OrdersTyped /\ Booking
  BY DEF OrdersInv
<1>2. /\ Len(book) \in Nat /\ Tickets = 1 .. Len(book)
      /\ \A t \in Tickets : book[t] \in Entry
  BY <1>1, OrdersDomains
<1>3. amount \in Nat /\ split \in Nat
  BY TraderNodeAssumption
<1>4. PICK paid : paid = {t \in Tickets :
                   /\ book[t].closes = NoTicket /\ ~book[t].live
                   /\ book[t].leaves = 0 /\ orders[book[t].key].side = "buy"
                   /\ \A u \in Tickets : book[u].closes # t}
  OBVIOUS
<1>5. PICK all : all = SumFunctionOnSet([t \in Tickets |-> book[t].lots * amount], paid)
  OBVIOUS
<1>6. PICK m : m = [kind |-> "exdr", tickets |-> paid, cash |-> amount,
                    split |-> split, paid |-> all]
  OBVIOUS
<1>7. /\ MoreEvents /\ dividends' = dividends + 1
      /\ book' = [t \in Tickets |-> IF t \in paid
                       THEN [book[t] EXCEPT !.split = @ + split] ELSE book[t]]
      /\ credit' = credit + all
      /\ toNode' = Append(toNode, m)
      /\ UNCHANGED <<mode, script, node, toExchange, drift, lost>>
  BY <1>4, <1>5, <1>6 DEF AddExdrCash
<1>8. all \in Int
  <2>1. PICK f : f = [t \in Tickets |-> book[t].lots * amount]
    OBVIOUS
  <2>2. ASSUME NEW t \in Tickets PROVE f[t] \in Int
    <3>1. PICK l \in Nat : l = book[t].lots
      BY <1>2 DEF Entry
    <3>2. l * amount \in Int
      BY <1>3
    <3> QED
      BY <2>1, <3>1, <3>2
  <2>3. IsFiniteSet(paid) /\ paid \subseteq Tickets
    <3>1. IsFiniteSet(Tickets)
      BY <1>2, FS_Interval
    <3>2. paid \subseteq Tickets
      BY <1>4
    <3> QED
      BY <3>1, <3>2, FS_Subset
  <2>4. SumFunctionOnSet(f, paid) \in Int
    BY <2>2, <2>3, SumInt
  <2> QED
    BY <1>5, <2>1, <2>4
<1>9. m \in Exdrs /\ m.kind = "exdr" /\ m.tickets = paid /\ paid \subseteq Tickets
  <2>1. paid \subseteq Nat /\ paid \subseteq Tickets
    BY <1>2, <1>4
  <2> QED
    BY <1>3, <1>6, <1>8, <2>1 DEF Exdrs
<1>10. /\ DOMAIN book' = Tickets
       /\ \A u \in Tickets :
             /\ book'[u] \in Entry /\ book'[u].key = book[u].key
             /\ book'[u].closes = book[u].closes /\ book'[u].live = book[u].live
             /\ book'[u].leaves = book[u].leaves /\ book'[u].qty = book[u].qty
             /\ book'[u].open = book[u].open /\ book'[u].margin = book[u].margin
  <2>1. ASSUME NEW u \in Tickets
        PROVE  /\ book'[u] \in Entry /\ book'[u].key = book[u].key
               /\ book'[u].closes = book[u].closes /\ book'[u].live = book[u].live
               /\ book'[u].leaves = book[u].leaves /\ book'[u].qty = book[u].qty
               /\ book'[u].open = book[u].open /\ book'[u].margin = book[u].margin
    <3>1. book[u] \in Entry
      BY <1>2
    <3>2. CASE u \in paid
      <4>1. PICK y : y = book[u].split + split
        OBVIOUS
      <4>2. y \in Nat
        BY <1>3, <3>1, <4>1 DEF Entry
      <4>3. book'[u] = [book[u] EXCEPT !.split = y]
        BY <1>7, <3>2, <4>1
      <4> QED
        BY <3>1, <4>2, <4>3 DEF Entry
    <3>3. CASE u \notin paid
      BY <1>7, <3>1, <3>3
    <3> QED
      BY <3>2, <3>3
  <2> QED
    BY <1>7, <2>1
<1>11. book' \in Seq(Entry) /\ Tickets' = Tickets
  <2>1. book' \in [1 .. Len(book) -> Entry]
    BY <1>2, <1>7, <1>10
  <2> QED
    BY <1>2, <1>10, <2>1, FunctionIsSeq DEF Tickets
<1>12. Sound(m)'
  BY <1>9, <1>11 DEF Sound, Reporting, Rejecting
<1>13. \A u \in Tickets :
         /\ book'[u].key = book[u].key /\ book'[u].closes = book[u].closes
         /\ book'[u].live => book[u].live
         /\ book'[u].leaves <= book'[u].qty
         /\ book'[u].live => book'[u].leaves > 0
  BY <1>1, <1>10 DEF Booking
<1>14. credit' \in Int /\ drift' \in Int /\ dividends' \in Nat
  <2>1. credit \in Int /\ drift \in Int /\ dividends \in Nat
    BY <1>1 DEF OrdersTyped
  <2> QED
    BY <1>7, <1>8, <2>1
<1>15. Covered'
  BY <1>7, CoveredKept DEF node
<1>16. ~Asked(NoTicket) /\ ~Answered(NoTicket) /\ NoTicket \notin Keys
  BY <1>1, NoOrderWithoutKey, OrdersDomains DEF NoTicket
<1>17. \A u \in Tickets : book'[u].live <=> book[u].live
  BY <1>10
<1>18. /\ m.kind \notin {"partial", "filled"} /\ m.kind # "canceled"
       /\ \A u \in Tickets :
             /\ book'[u].live => book'[u].margin = book[u].margin
                                /\ book'[u].qty = book[u].qty
             /\ book'[u].open # book[u].open =>
                   \/ book[u].live
                   \/ \E w \in Tickets : book[w].live /\ book[w].closes = u
  BY <1>9, <1>10
<1>19. credit' + drift' = credit + drift + Due(m)'
  <2>1. Due(m)' = all
    BY <1>6, <1>9 DEF Due
  <2>2. credit \in Int /\ drift \in Int
    BY <1>1 DEF OrdersTyped
  <2> QED
    BY <1>7, <1>8, <2>1, <2>2
<1> QED
  BY <1>7, <1>9, <1>11, <1>12, <1>13, <1>14, <1>15, <1>16, <1>17, <1>18, <1>19, FeedKeeps

-----------------------------------------------------------------------------
(* The FIX thread takes a message. *)

ReportKinds == {"new", "partial", "filled"}

\* An order that the message is not about: only a ticket that is closed, or paid
\* a dividend, changes.
Kept(k) ==
    /\ orders'[k].thread = orders[k].thread /\ orders'[k].side = orders[k].side
    /\ orders'[k].price = orders[k].price
    /\ orders'[k].closes = orders[k].closes
    /\ orders'[k].ticket = orders[k].ticket
    /\ orders[k].ticket = NoTicket =>
          orders'[k].trading = orders[k].trading /\ orders'[k].qty = orders[k].qty

\* What a step that takes the message m does to what it says of orders.
Hears(m) ==
    /\ toNode # << >> /\ m = Head(toNode) /\ toNode' = Tail(toNode)
    /\ mode' = mode /\ book' = book /\ toExchange' = toExchange /\ lost' = lost
    /\ DOMAIN orders' = Keys
    /\ \A k \in Keys : (m.kind # "exdr" => k # m.key) => Kept(k)
    /\ m.kind # "exdr" =>
          /\ orders'[m.key].thread = orders[m.key].thread
          /\ orders'[m.key].side = orders[m.key].side
          /\ orders'[m.key].price = orders[m.key].price
          /\ orders'[m.key].closes = orders[m.key].closes
          /\ orders'[m.key].qty = orders[m.key].qty
          /\ orders'[m.key].ticket = IF m.kind \in ReportKinds THEN m.ticket
                                     ELSE orders[m.key].ticket
    /\ ticketOf' = IF m.kind \in ReportKinds /\ m.ticket \notin DOMAIN ticketOf
                   THEN Put(ticketOf, m.ticket, m.key) ELSE ticketOf
    /\ DOMAIN margins' \subseteq Tickets

\* The message at hand is sound, and the others follow it.
LEMMA FirstIs ==
    ASSUME OrdersInv, toNode # << >>, NEW m, m = Head(toNode)
    PROVE  /\ m \in Reports \cup Rejects \cup Exdrs /\ Sound(m)
           /\ m.kind \in ReportKinds \cup {"canceled"} => m \in Reports
           /\ m.kind = "reject" => m \in Rejects
           /\ m.kind = "exdr" => m \in Exdrs
           /\ m.kind \in ReportKinds \cup {"canceled", "reject", "exdr"}
           /\ m.kind # "exdr" => m.key \in Keys
           /\ m = toNode[1] /\ 1 \in DOMAIN toNode
<1>1. OrdersTyped /\ Booking /\ Answering
  BY DEF OrdersInv
<1>2. /\ m = toNode[1] /\ 1 \in DOMAIN toNode
      /\ m \in Reports \cup Rejects \cup Exdrs
  <2>1. PICK S : S = Reports \cup Rejects \cup Exdrs
    OBVIOUS
  <2>2. toNode \in Seq(S)
    BY <1>1, <2>1 DEF OrdersTyped
  <2>3. m = toNode[1] /\ Len(toNode) > 0 /\ DOMAIN toNode = 1 .. Len(toNode)
        /\ Len(toNode) \in Nat
    BY <2>2, TailIs, SeqIsFunction
  <2>4. 1 \in DOMAIN toNode
    BY <2>3
  <2> QED
    BY <1>1, <2>3, <2>4, OrdersDomains
<1>3. Sound(m)
  BY <1>1, <1>2 DEF Answering
<1>4. /\ m.kind \in ReportKinds \cup {"canceled"} => m \in Reports
      /\ m.kind = "reject" => m \in Rejects
      /\ m.kind = "exdr" => m \in Exdrs
      /\ m.kind \in ReportKinds \cup {"canceled", "reject", "exdr"}
  BY <1>2, MessageIs DEF ReportKinds
<1>5. m.kind # "exdr" => m.key \in Keys
  BY <1>1, <1>3, <1>4 DEF Sound, Reporting, Rejecting, Booking, ReportKinds
<1> QED
  BY <1>2, <1>3, <1>4, <1>5

LEMMA RestIs ==
    ASSUME OrdersTyped, toNode # << >>, toNode' = Tail(toNode)
    PROVE  /\ toNode' \in Seq(Reports \cup Rejects \cup Exdrs)
           /\ DOMAIN toNode' \subseteq Nat
           /\ \A i \in DOMAIN toNode' :
                 i + 1 \in DOMAIN toNode /\ i + 1 > 1 /\ toNode'[i] = toNode[i + 1]
           /\ \A i \in DOMAIN toNode : i = 1 \/ (i - 1 \in DOMAIN toNode'
                                                 /\ toNode'[i - 1] = toNode[i])
<1>1. PICK S : S = Reports \cup Rejects \cup Exdrs
  OBVIOUS
<1>2. toNode \in Seq(S)
  BY <1>1 DEF OrdersTyped
<1>3. PICK x : x = Len(toNode)
  OBVIOUS
<1>4. /\ toNode' \in Seq(S) /\ x \in Nat /\ DOMAIN toNode = 1 .. x
      /\ DOMAIN toNode' = 1 .. x - 1
      /\ \A i \in 1 .. x - 1 : toNode'[i] = toNode[i + 1]
  BY <1>2, <1>3, TailIs, SeqIsFunction
<1>5. \A i \in 1 .. x - 1 : i + 1 \in 1 .. x /\ i + 1 > 1 /\ i \in Nat
  BY <1>4
<1>6. \A i \in 1 .. x : i = 1 \/ (i - 1 \in 1 .. x - 1 /\ (i - 1) + 1 = i)
  BY <1>4
<1>7. \A i \in DOMAIN toNode : i = 1 \/ (i - 1 \in DOMAIN toNode'
                                         /\ toNode'[i - 1] = toNode[i])
  BY <1>4, <1>6
<1> QED
  BY <1>1, <1>4, <1>5, <1>7

LEMMA HeardKeeps ==
    ASSUME OrdersInv, NEW m, Hears(m)
    PROVE  Booking' /\ Ticketing' /\ AskedOnce' /\ Answering' /\ InTurn' /\ Announcing'
<1>1. /\ OrdersTyped /\ Booking /\ Ticketing /\ AskedOnce
      /\ Answering /\ InTurn /\ Announcing
  BY DEF OrdersInv
<1>2. /\ toNode # << >> /\ m = Head(toNode) /\ toNode' = Tail(toNode)
      /\ book' = book /\ toExchange' = toExchange /\ lost' = lost
      /\ Keys' = Keys /\ Tickets' = Tickets
  BY DEF Hears, Keys, Tickets
<1>3. /\ Sound(m) /\ m = toNode[1] /\ 1 \in DOMAIN toNode
      /\ m.kind \in ReportKinds \cup {"canceled", "reject", "exdr"}
      /\ m.kind # "exdr" => m.key \in Keys
  BY <1>2, FirstIs
<1>4. \A k \in Keys :
        /\ orders'[k].thread = orders[k].thread /\ orders'[k].side = orders[k].side
        /\ orders'[k].price = orders[k].price
        /\ orders'[k].closes = orders[k].closes
        /\ orders'[k].ticket = IF m.kind \in ReportKinds /\ k = m.key THEN m.ticket
                               ELSE orders[k].ticket
  BY <1>3 DEF Hears, Kept, ReportKinds
<1>5. \A k \in Keys : (m.kind # "exdr" => k # m.key) /\ orders[k].ticket = NoTicket =>
        orders'[k].trading = orders[k].trading /\ orders'[k].qty = orders[k].qty
  BY DEF Hears, Kept
<1>6. /\ \A i \in DOMAIN toNode' :
            i + 1 \in DOMAIN toNode /\ i + 1 > 1 /\ toNode'[i] = toNode[i + 1]
      /\ DOMAIN toNode' \subseteq Nat
      /\ \A i \in DOMAIN toNode : i = 1 \/ (i - 1 \in DOMAIN toNode'
                                            /\ toNode'[i - 1] = toNode[i])
  BY <1>1, <1>2, RestIs
<1>7. m.kind \in ReportKinds =>
        /\ m.ticket \in Tickets /\ m.key = book[m.ticket].key /\ m.ticket # NoTicket
  BY <1>1, <1>3, OrdersDomains DEF Sound, Reporting, ReportKinds
<1>8. Booking'
  BY <1>1, <1>2, <1>4 DEF Booking
<1>9. Ticketing'
  <2>1. /\ DOMAIN ticketOf' \subseteq Tickets /\ DOMAIN margins' \subseteq Tickets
        /\ \A t \in DOMAIN ticketOf : t \in DOMAIN ticketOf' /\ ticketOf'[t] = ticketOf[t]
        /\ \A t \in DOMAIN ticketOf' : t \in DOMAIN ticketOf \/
              (m.kind \in ReportKinds /\ t = m.ticket /\ ticketOf'[t] = m.key)
        /\ m.kind \in ReportKinds => m.ticket \in DOMAIN ticketOf'
    BY <1>1, <1>7 DEF Hears, Put, Ticketing
  <2>2. ASSUME NEW t \in DOMAIN ticketOf'
        PROVE  ticketOf'[t] = book[t].key /\ orders'[ticketOf'[t]].ticket = t
    <3>1. CASE t \in DOMAIN ticketOf
      <4>1. /\ ticketOf'[t] = book[t].key /\ t \in Tickets
            /\ orders[book[t].key].ticket = t /\ book[t].key \in Keys
        BY <1>1, <2>1, <3>1 DEF Ticketing, Booking
      <4>2. m.kind \in ReportKinds /\ book[t].key = m.key => t = m.ticket
        BY <1>1, <1>7, <4>1 DEF Booking
      <4> QED
        BY <1>4, <4>1, <4>2
    <3>2. CASE m.kind \in ReportKinds /\ t = m.ticket /\ ticketOf'[t] = m.key
      BY <1>3, <1>4, <1>7, <3>2 DEF ReportKinds
    <3> QED
      BY <2>1, <3>1, <3>2
  <2>3. ASSUME NEW k \in Keys, orders'[k].ticket # NoTicket
        PROVE  orders'[k].ticket \in DOMAIN ticketOf' /\ ticketOf'[orders'[k].ticket] = k
    <3>1. CASE m.kind \in ReportKinds /\ k = m.key
      BY <1>4, <1>7, <2>1, <2>2, <3>1
    <3>2. CASE ~(m.kind \in ReportKinds /\ k = m.key)
      BY <1>1, <1>4, <2>1, <2>3, <3>2 DEF Ticketing
    <3> QED
      BY <3>1, <3>2
  <2> QED
    BY <1>1, <1>2, <1>4, <2>1, <2>2, <2>3 DEF Ticketing
<1>10. AskedOnce'
  <2>1. m.kind # "exdr" => Answered(m.key)
    BY <1>3 DEF Answered, About
  <2>2. \A k : Answered(k)' => Answered(k)
    BY <1>6 DEF Answered, About
  <2>3. ASSUME NEW r, Asking(r) PROVE Asking(r)'
    <3>1. r.key \in Keys /\ (m.kind # "exdr" => r.key # m.key)
      BY <2>1, <2>3 DEF Asking
    <3>2. PICK k : k = r.key
      OBVIOUS
    <3>3. k \in Keys /\ Untouched(k) /\ (m.kind # "exdr" => k # m.key)
      BY <2>3, <3>1, <3>2 DEF Asking
    <3>5. /\ orders'[k].ticket = orders[k].ticket
          /\ orders'[k].trading = orders[k].trading /\ orders'[k].qty = orders[k].qty
          /\ orders'[k].side = orders[k].side /\ orders'[k].price = orders[k].price
          /\ orders'[k].closes = orders[k].closes
      BY <1>3, <1>4, <1>5, <3>3 DEF Untouched, ReportKinds
    <3>6. Untouched(k)' /\ ~Booked(k)' /\ ~Answered(k)'
      BY <1>2, <2>2, <2>3, <3>2, <3>3, <3>5 DEF Asking, Untouched, Booked
    <3> QED
      BY <1>2, <2>3, <3>2, <3>5, <3>6 DEF Asking
  <2> QED
    BY <1>1, <1>2, <2>3 DEF AskedOnce
<1>11. \A i \in DOMAIN toNode' : m.kind # "exdr" /\ About(i, m.key)' =>
          /\ toNode'[i].kind # "new" /\ ~Final(m)
          /\ toNode'[i].kind = "reject" => m.kind = "canceled"
  <2>1. ASSUME NEW i \in DOMAIN toNode', m.kind # "exdr",
               toNode'[i].kind # "exdr", toNode'[i].key = m.key
        PROVE  /\ toNode'[i].kind # "new" /\ ~Final(m)
               /\ toNode'[i].kind = "reject" => m.kind = "canceled"
    <3>1. PICK j \in DOMAIN toNode : j = i + 1 /\ toNode'[i] = toNode[j] /\ j > 1 /\ j # 1
      BY <1>6, <2>1
    <3>2. About(1, toNode[j].key) /\ About(j, toNode[1].key)
      BY <1>3, <2>1, <3>1 DEF About
    <3>3. /\ toNode[j].kind = "new" => j < 1
          /\ Final(toNode[1]) => j < 1
          /\ toNode[j].kind = "reject" => toNode[1].kind = "canceled"
      BY <1>1, <1>3, <2>1, <3>1, <3>2 DEF InTurn
    <3>4. ~(j < 1)
      BY <1>6, <2>1, <3>1
    <3> QED
      BY <1>3, <3>1, <3>3, <3>4
  <2> QED
    BY <2>1 DEF About
<1>12. Answering'
  <2>1. ASSUME NEW i \in DOMAIN toNode', NEW w, w = toNode'[i]
        PROVE  Sound(w)'
    <3>1. Sound(w) /\ w.kind \in {"new", "partial", "filled", "canceled", "reject", "exdr"}
      BY <1>1, <1>6, <2>1, OrdersDomains, MessageIs DEF Answering
    <3>2. m.kind # "exdr" /\ w.kind # "exdr" /\ w.key = m.key =>
             /\ w.kind # "new" /\ ~Final(m)
             /\ w.kind = "reject" => m.kind = "canceled"
      BY <1>11, <2>1 DEF About
    <3>3. Reporting(w)'
      <4>1. ASSUME w.kind = "new" PROVE Untouched(w.key)' /\ Cost(w.key)' = Cost(w.key)
        <5>1. w.key \in Keys /\ Untouched(w.key)
          BY <1>1, <3>1, <4>1 DEF Sound, Reporting, Booking
        <5>2. PICK k : k = w.key
          OBVIOUS
        <5>3. k \in Keys /\ (m.kind # "exdr" => k # m.key) /\ orders[k].ticket = NoTicket
              /\ orders[k].trading = "PENDING"
          BY <1>3, <3>1, <3>2, <4>1, <5>1, <5>2 DEF Untouched
        <5>4. /\ orders'[k].ticket = orders[k].ticket
              /\ orders'[k].trading = orders[k].trading
              /\ orders'[k].qty = orders[k].qty /\ orders'[k].price = orders[k].price
          BY <1>3, <1>4, <1>5, <5>3 DEF ReportKinds
        <5>5. Untouched(k)' /\ Cost(k)' = Cost(k)
          BY <5>3, <5>4 DEF Untouched, Cost
        <5> QED
          BY <5>2, <5>5
      <4> QED
        BY <1>2, <3>1, <4>1 DEF Sound, Reporting
    <3>4. ASSUME w.kind = "reject" PROVE Rejecting(w)'
      <4>1. Rejecting(w) /\ w.key \in Keys
        BY <3>1, <3>4 DEF Sound, Rejecting
      <4>2. m.kind \in ReportKinds => w.key # m.key
        BY <1>3, <3>2, <3>4 DEF ReportKinds
      <4>3. m.kind # "exdr" /\ w.key = m.key => Booked(w.key)
        <5>1. ASSUME m.kind # "exdr", w.key = m.key PROVE Booked(w.key)
          <6>1. m.kind = "canceled"
            BY <3>2, <3>4, <5>1
          <6> QED
            BY <1>3, <5>1, <6>1 DEF Sound, Reporting, Booked
        <5> QED
          BY <5>1
      <4>4. /\ (Alive(w.key)' <=> Alive(w.key)) /\ (Booked(w.key)' <=> Booked(w.key))
            /\ orders'[w.key].ticket = orders[w.key].ticket
            /\ orders'[w.key].side = orders[w.key].side
            /\ orders'[w.key].closes = orders[w.key].closes
        BY <1>2, <1>4, <4>1, <4>2 DEF Alive, Booked
      <4>5. ~Booked(w.key) => orders'[w.key].trading = orders[w.key].trading
        BY <1>5, <3>4, <4>1, <4>3 DEF Rejecting
      <4> QED
        BY <1>2, <3>4, <4>1, <4>4, <4>5 DEF Rejecting
    <3> QED
      BY <1>2, <3>1, <3>3, <3>4 DEF Sound, Rejecting
  <2>2. \A i \in DOMAIN toNode' : \E w : w = toNode'[i] /\ Sound(w)'
    BY <2>1
  <2> QED
    BY <2>2 DEF Answering
<1>13. InTurn'
  <2>1. ASSUME NEW i \in DOMAIN toNode', NEW j \in DOMAIN toNode', i # j,
               toNode'[j].kind # "exdr", toNode'[i].kind # "exdr",
               toNode'[i].key = toNode'[j].key
        PROVE  /\ toNode'[j].kind = "new" => j < i
               /\ Final(toNode'[j]) => i < j
               /\ toNode'[j].kind = "reject" => toNode'[i].kind = "canceled"
    <3>1. PICK x \in DOMAIN toNode, y \in DOMAIN toNode :
             /\ x = i + 1 /\ y = j + 1 /\ x # y
             /\ toNode'[i] = toNode[x] /\ toNode'[j] = toNode[y]
      <4>1. i \in Nat /\ j \in Nat
        BY <1>6
      <4> QED
        BY <1>6, <2>1, <4>1
    <3>2. /\ toNode[y].kind = "new" => y < x
          /\ Final(toNode[y]) => x < y
          /\ toNode[y].kind = "reject" => toNode[x].kind = "canceled"
      BY <1>1, <2>1, <3>1 DEF InTurn, About
    <3>3. (y < x => j < i) /\ (x < y => i < j)
      <4>1. i \in Nat /\ j \in Nat
        BY <1>6
      <4> QED
        BY <3>1, <4>1
    <3> QED
      BY <3>1, <3>2, <3>3
  <2> QED
    BY <2>1 DEF InTurn, About
<1>14. Announcing'
  <2>1. ASSUME NEW k \in Keys, Known(k) PROVE Known(k)'
    <3>1. CASE orders[k].ticket # NoTicket
      BY <1>4, <1>7, <3>1 DEF Known
    <3>2. CASE \E i \in DOMAIN toNode : toNode[i].kind = "new" /\ toNode[i].key = k
      <4>1. PICK i \in DOMAIN toNode : toNode[i].kind = "new" /\ toNode[i].key = k
        BY <3>2
      <4>2. CASE i = 1
        BY <1>3, <1>4, <1>7, <4>1, <4>2 DEF Known, ReportKinds
      <4>3. CASE i # 1
        BY <1>6, <4>1, <4>3 DEF Known
      <4> QED
        BY <4>2, <4>3
    <3> QED
      BY <2>1, <3>1, <3>2 DEF Known
  <2>2. \A t \in Tickets : book[t].key \in Keys
    BY <1>1 DEF Booking
  <2>3. \A i \in DOMAIN toNode' : toNode'[i].kind \in {"partial", "filled"} =>
           toNode'[i].key \in Keys
    <3>1. \A i \in DOMAIN toNode : toNode[i].kind \in {"partial", "filled"} =>
             toNode[i].key \in Keys
      BY <1>1, <2>2 DEF Answering, Sound, Reporting
    <3> QED
      BY <1>6, <3>1
  <2>4. ASSUME lost' = 0, NEW t \in Tickets, book[t].live, NEW k, k = book[t].key
        PROVE  Known(k)'
    BY <1>1, <1>2, <2>1, <2>2, <2>4 DEF Announcing
  <2>5. ASSUME lost' = 0, NEW i \in DOMAIN toNode',
               toNode'[i].kind \in {"partial", "filled"}, NEW k, k = toNode'[i].key
        PROVE  Known(k)'
    BY <1>1, <1>2, <1>6, <2>1, <2>3, <2>5 DEF Announcing
  <2> QED
    BY <1>2, <2>4, <2>5 DEF Announcing
<1> QED
  BY <1>8, <1>9, <1>10, <1>12, <1>13, <1>14

LEMMA TicketsAre ==
    ASSUME OrdersInv
    PROVE  \A t \in DOMAIN ticketOf :
              /\ ticketOf[t] \in Keys /\ orders[ticketOf[t]].ticket = t
              /\ t # NoTicket /\ t \in Tickets
  BY OrdersDomains DEF OrdersInv, Ticketing, Booking

\* Of what is held only the order that the message is about can change.
LEMMA HeardHeld ==
    ASSUME OrdersInv, NEW m, Hears(m), NEW a
    PROVE  /\ \A k : (m.kind # "exdr" => k # m.key) =>
                        (k \in Held(a)' <=> k \in Held(a))
           /\ Held(a)' \subseteq Keys
           /\ SumFunctionOnSet(Costs', Held(a)) = SumFunctionOnSet(Costs, Held(a))
           /\ \A k \in Held(a) : Costs'[k] = Costs[k]
<1>1. OrdersTyped
  BY DEF OrdersInv
<1>2. /\ mode' = mode /\ book' = book /\ Keys' = Keys /\ Tickets' = Tickets
      /\ \A k \in Keys : (m.kind # "exdr" => k # m.key) => Kept(k)
      /\ m.kind # "exdr" =>
            /\ orders'[m.key].price = orders[m.key].price
            /\ orders'[m.key].qty = orders[m.key].qty
  BY DEF Hears, Keys, Tickets
<1>3. ASSUME NEW k \in Keys, m.kind # "exdr" => k # m.key
      PROVE  k \in Held(a)' <=> k \in Held(a)
  BY <1>2, <1>3 DEF Held, Kept, Owner, Account
<1>4. Held(a)' \subseteq Keys /\ Held(a) \subseteq Keys
  BY <1>2 DEF Held
<1>5. ASSUME NEW k \in Held(a) PROVE Costs'[k] = Costs[k]
  <2>1. k \in Keys /\ orders[k].ticket = NoTicket
    BY DEF Held
  <2>2. orders'[k].price = orders[k].price /\ orders'[k].qty = orders[k].qty
    BY <1>2, <2>1 DEF Kept
  <2> QED
    BY <1>2, <2>1, <2>2 DEF Costs, Cost
<1>6. SumFunctionOnSet(Costs', Held(a)) = SumFunctionOnSet(Costs, Held(a))
  <2>1. PICK f : f = Costs'
    OBVIOUS
  <2>2. IsFiniteSet(Held(a)) /\ \A k \in Held(a) : f[k] = Costs[k]
    BY <1>1, <1>5, <2>1, HeldIs
  <2>3. SumFunctionOnSet(f, Held(a)) = SumFunctionOnSet(Costs, Held(a))
    BY <2>2, SumSame
  <2> QED
    BY <2>1, <2>3
<1> QED
  BY <1>3, <1>4, <1>5, <1>6

\* What becomes of the cash that is frozen for the order of a message: it stays as
\* the order is held, it is given back once, or the order was not held.
StaysFrozen(m) ==
    /\ freeze' = freeze
    /\ m.kind # "exdr" => \A a : m.key \in Held(a)' <=> m.key \in Held(a)
IsFreed(m) ==
    /\ m.kind # "exdr" /\ freeze' = Unfrozen(m.key)
    /\ m.key \in Held(Owner(m.key)) /\ \A a : m.key \notin Held(a)'
IsNotHeld(m) ==
    /\ m.kind # "exdr" /\ freeze' = freeze /\ \A a : m.key \notin Held(a)'
    /\ lost = 0 => \A a : m.key \notin Held(a)

LEMMA FreezingHeard ==
    ASSUME OrdersInv, NEW m, Hears(m),
           StaysFrozen(m) \/ IsFreed(m) \/ IsNotHeld(m)
    PROVE  Freezing' /\ freeze' \in [Accounts -> Int]
<1>1. OrdersTyped /\ Freezing
  BY DEF OrdersInv
<1>2. Accounts' = Accounts /\ lost' = lost
  BY DEF Hears, Accounts
<1>3. freeze \in [Accounts -> Int]
  BY <1>1 DEF OrdersTyped
<1>4. ASSUME IsFreed(m)
      PROVE  /\ Owner(m.key) \in Accounts /\ m.key \in Keys
             /\ Cost(m.key) \in Nat
             /\ freeze' = [freeze EXCEPT ![Owner(m.key)] = @ - Cost(m.key)]
  <2>1. m.key \in Keys
    BY <1>4 DEF IsFreed, Held
  <2>2. orders[m.key] \in OrderRecord
    BY <1>1, <2>1, OrdersDomains
  <2>3. Owner(m.key) \in Accounts
    BY <2>2 DEF OrderRecord, Owner, Account, Accounts
  <2> QED
    BY <1>1, <1>4, <2>1, <2>3, CostsTyped DEF IsFreed, Unfrozen, Cost
<1>5. freeze' \in [Accounts -> Int]
  <2>1. CASE IsFreed(m)
    BY <1>3, <1>4, <2>1
  <2> QED
    BY <1>3, <2>1 DEF StaysFrozen, IsNotHeld
<1>6. ASSUME NEW a \in Accounts
      PROVE  LET held == SumFunctionOnSet(Costs', Held(a)')
             IN  held <= freeze'[a] /\ (lost = 0 => held = freeze'[a])
  <2>1. PICK f, h, g : f = Costs' /\ h = Held(a) /\ g = Held(a)'
    OBVIOUS
  <2>2. PICK old : old = SumFunctionOnSet(f, h)
    OBVIOUS
  <2>3. old \in Int /\ old <= freeze[a] /\ (lost = 0 => old = freeze[a])
    <3>1. old = SumFunctionOnSet(Costs, Held(a))
      BY <2>1, <2>2, HeardHeld
    <3> QED
      BY <1>1, <3>1, HeldIs DEF Freezing
  <2>4. /\ IsFiniteSet(h) /\ g \subseteq Keys /\ h \subseteq Keys
        /\ \A k : (m.kind # "exdr" => k # m.key) => (k \in g <=> k \in h)
        /\ \A k \in h : f[k] = Cost(k) /\ f[k] \in Nat
    <3>1. \A k \in Held(a) : Costs[k] = Cost(k) /\ Costs[k] \in Nat
      BY <1>1, CostsTyped, HeldIs
    <3>2. /\ g \subseteq Keys
          /\ \A k : (m.kind # "exdr" => k # m.key) => (k \in g <=> k \in h)
          /\ \A k \in h : f[k] = Costs[k]
      BY <2>1, HeardHeld
    <3>3. IsFiniteSet(h) /\ h \subseteq Keys
      BY <1>1, <2>1, HeldIs
    <3> QED
      BY <2>1, <3>1, <3>2, <3>3
  <2>5. PICK held : held = SumFunctionOnSet(f, g)
    OBVIOUS
  <2>6. CASE StaysFrozen(m)
    <3>1. \A k : k \in g <=> k \in h
      BY <2>1, <2>4, <2>6 DEF StaysFrozen
    <3>2. g = h
      BY <3>1
    <3> QED
      BY <2>1, <2>2, <2>3, <2>5, <2>6, <3>2 DEF StaysFrozen
  <2>7. CASE m.kind # "exdr" /\ m.key \notin g
    <3>1. PICK x : x = m.key
      OBVIOUS
    <3>2. g = h \ {x}
      BY <2>4, <2>7, <3>1
    <3>3. x \in h => old = f[x] + held
      <4>1. \A k \in h : f[k] \in Int
        BY <2>4
      <4>2. ASSUME x \in h PROVE SumFunctionOnSet(f, h) = f[x] + SumFunctionOnSet(f, h \ {x})
        BY <2>4, <4>1, <4>2, SumTake
      <4> QED
        BY <2>2, <2>5, <3>2, <4>2
    <3>4. x \notin h => old = held
      BY <2>2, <2>5, <3>2
    <3>5. held \in Int
      <4>1. \A k \in g : f[k] \in Int
        BY <2>4, <3>2
      <4>2. IsFiniteSet(g)
        BY <2>4, <3>2, FS_Subset
      <4> QED
        BY <2>5, <4>1, <4>2, SumInt
    <3>6. x \in h => f[x] \in Nat /\ f[x] = Cost(x) /\ Owner(x) = a
      BY <2>1, <2>4 DEF Held
    <3>7. freeze[a] \in Int
      BY <1>3
    <3>8. CASE IsFreed(m)
      <4>1. x \in h <=> Owner(x) = a
        BY <2>1, <3>1, <3>8 DEF IsFreed, Held
      <4>2. freeze'[a] = IF Owner(x) = a THEN freeze[a] - Cost(x) ELSE freeze[a]
        BY <1>3, <1>4, <3>1, <3>8
      <4>3. held <= freeze'[a] /\ (lost = 0 => held = freeze'[a])
        BY <2>3, <3>3, <3>4, <3>5, <3>6, <3>7, <4>1, <4>2
      <4> QED
        BY <2>1, <2>5, <4>3
    <3>9. CASE IsNotHeld(m)
      <4>1. freeze' = freeze /\ (lost = 0 => x \notin h)
        BY <2>1, <3>1, <3>9 DEF IsNotHeld
      <4>2. held <= freeze[a] /\ (lost = 0 => held = freeze[a])
        BY <2>3, <3>3, <3>4, <3>5, <3>6, <3>7, <4>1
      <4> QED
        BY <2>1, <2>5, <4>1, <4>2
    <3>10. CASE StaysFrozen(m)
      BY <2>6, <3>10
    <3> QED
      BY <3>8, <3>9, <3>10
  <2> QED
    BY <2>1, <2>6, <2>7 DEF IsFreed, IsNotHeld
<1> QED
  BY <1>2, <1>5, <1>6 DEF Freezing

\* What the message m does to the status of orders: if it ends a closing order, the
\* ticket is unlocked; its own order comes into the market only by being filled.
Ended(m) == m.kind # "exdr" /\ Final(m) /\ Closes(m.key)
Unlocks(m, k) == Ended(m) /\ k = Closed(m.key)
Moves(m) ==
    /\ \A k \in Keys : (m.kind # "exdr" => k # m.key) /\ ~Unlocks(m, k) =>
          orders'[k].trading = orders[k].trading
    /\ \A k \in Keys : Unlocks(m, k) => orders'[k].trading \in {"MARKET", "CLOSED"}
    /\ m.kind # "exdr" /\ ~Closes(m.key) =>
          /\ orders'[m.key].trading # "CLOSEING"
          /\ orders'[m.key].trading \in Over => m.kind = "filled"

LEMMA LockingHeard ==
    ASSUME OrdersInv, NEW m, Hears(m), Sides \subseteq {"buy"} /\ lost = 0 => Moves(m)
    PROVE  Locking'
<1>1. SUFFICES ASSUME Sides \subseteq {"buy"}, lost' = 0
               PROVE  (Buying /\ ClosesAnOpener /\ InMarket /\ Ending /\ Locks)'
  BY DEF Locking
<1>2. /\ toNode # << >> /\ m = Head(toNode) /\ toNode' = Tail(toNode)
      /\ book' = book /\ toExchange' = toExchange /\ lost' = lost
      /\ Keys' = Keys /\ Tickets' = Tickets
  BY DEF Hears, Keys, Tickets
<1>3. /\ OrdersTyped /\ Booking /\ Ticketing /\ AskedOnce /\ InTurn
      /\ Buying /\ ClosesAnOpener /\ InMarket /\ Ending /\ Locks /\ Moves(m)
  BY <1>1, <1>2 DEF OrdersInv, Locking
<1>4. /\ Sound(m) /\ m = toNode[1] /\ 1 \in DOMAIN toNode
      /\ m.kind \in ReportKinds \cup {"canceled", "reject", "exdr"}
      /\ m.kind # "exdr" => m.key \in Keys /\ Answered(m.key)
  BY <1>2, FirstIs DEF Answered, About
<1>5. \A k \in Keys :
        /\ orders'[k].side = orders[k].side
        /\ orders'[k].closes = orders[k].closes
        /\ (m.kind # "exdr" => k # m.key) => orders'[k].ticket = orders[k].ticket
  BY <1>4 DEF Hears, Kept
<1>6. /\ \A k \in Keys : Closes(k)' <=> Closes(k)
      /\ \A k \in Keys : Closes(k) =>
            /\ Closed(k)' = Closed(k) /\ Closed(k) \in Keys
            /\ orders[Closed(k)].ticket = orders[k].closes
  <2>1. \A t \in DOMAIN ticketOf : t \in DOMAIN ticketOf' /\ ticketOf'[t] = ticketOf[t]
    BY DEF Hears, Put
  <2>2. ASSUME NEW k \in Keys, Closes(k)
        PROVE  orders[k].closes \in DOMAIN ticketOf
    BY <1>3, <2>2 DEF Ticketing, Closes
  <2>3. \A t \in DOMAIN ticketOf : ticketOf[t] \in Keys /\ orders[ticketOf[t]].ticket = t
    BY TicketsAre
  <2>4. \A k \in Keys : Closes(k)' <=> Closes(k)
    BY <1>5 DEF Closes
  <2>5. ASSUME NEW k \in Keys, Closes(k)
        PROVE  /\ Closed(k)' = Closed(k) /\ Closed(k) \in Keys
               /\ orders[Closed(k)].ticket = orders[k].closes
    BY <1>5, <2>1, <2>2, <2>3, <2>5 DEF Closed
  <2> QED
    BY <2>4, <2>5
<1>7. /\ \A i \in DOMAIN toNode' :
            i + 1 \in DOMAIN toNode /\ i + 1 > 1 /\ toNode'[i] = toNode[i + 1]
      /\ \A i \in DOMAIN toNode : i = 1 \/ (i - 1 \in DOMAIN toNode'
                                            /\ toNode'[i - 1] = toNode[i])
      /\ DOMAIN toNode' \subseteq Nat
  BY <1>2, <1>3, RestIs
<1>8. \A k : /\ Asked(k)' <=> Asked(k)
             /\ Alive(k)' <=> Alive(k)
             /\ Answered(k)' => Answered(k)
             /\ (m.kind # "exdr" => k # m.key) => (Answered(k) => Answered(k)')
  <2>1. \A k : (Asked(k)' <=> Asked(k)) /\ (Alive(k)' <=> Alive(k))
    BY <1>2 DEF Asked, Alive
  <2>2. \A k : Answered(k)' => Answered(k)
    BY <1>7 DEF Answered, About
  <2>3. ASSUME NEW k, m.kind # "exdr" => k # m.key, Answered(k)
        PROVE  Answered(k)'
    <3>1. PICK i \in DOMAIN toNode : toNode[i].kind # "exdr" /\ toNode[i].key = k
      BY <2>3 DEF Answered, About
    <3>2. i # 1
      BY <1>4, <2>3, <3>1
    <3> QED
      BY <1>7, <3>1, <3>2 DEF Answered, About
  <2> QED
    BY <2>1, <2>2, <2>3
<1>9. m.kind # "exdr" /\ Final(m) => ~Pending(m.key)'
  <2>1. ASSUME m.kind # "exdr", Final(m) PROVE ~Asked(m.key) /\ ~Alive(m.key)
    <3>1. ~Asked(m.key)
      BY <1>3, <1>4, <2>1 DEF Asked, AskedOnce, Asking
    <3>2. ~Alive(m.key)
      BY <1>3, <1>4, <2>1 DEF Sound, Reporting, Rejecting, Final, Booking, Alive
    <3> QED
      BY <3>1, <3>2
  <2>2. ASSUME m.kind # "exdr", Final(m) PROVE ~Answered(m.key)'
    <3>1. ASSUME NEW i \in DOMAIN toNode', toNode'[i].kind # "exdr", toNode'[i].key = m.key
          PROVE  FALSE
      <4>1. PICK j \in DOMAIN toNode : j = i + 1 /\ toNode'[i] = toNode[j] /\ j > 1 /\ j # 1
        BY <1>7, <3>1
      <4>2. About(j, toNode[1].key)
        BY <1>4, <3>1, <4>1 DEF About
      <4>3. j < 1
        BY <1>3, <1>4, <2>2, <4>1, <4>2 DEF InTurn
      <4>4. ~(j < 1)
        BY <1>7, <3>1, <4>1
      <4> QED
        BY <4>3, <4>4
    <3> QED
      BY <3>1 DEF Answered, About
  <2> QED
    BY <1>8, <2>1, <2>2 DEF Pending
<1>10. m.kind # "exdr" /\ Closes(m.key) /\ ~Final(m) => Pending(m.key)'
  <2>1. ASSUME m.kind # "exdr", Closes(m.key), ~Final(m), ~Asked(m.key), ~Alive(m.key)
        PROVE  Answered(m.key)'
    <3>1. PICK i \in DOMAIN toNode : About(i, m.key) /\ Final(toNode[i])
      BY <1>3, <1>4, <2>1 DEF Ending
    <3>2. i # 1
      BY <1>4, <2>1, <3>1
    <3> QED
      BY <1>7, <3>1, <3>2 DEF Answered, About
  <2> QED
    BY <1>8, <2>1 DEF Pending
<1>11. \A k \in Keys : Closes(k) => (Pending(k)' <=> Pending(k) /\ ~(Ended(m) /\ k = m.key))
  <2>1. ASSUME NEW k \in Keys, Closes(k), m.kind # "exdr", k = m.key
        PROVE  Pending(k)' <=> Pending(k) /\ ~Ended(m)
    BY <1>4, <1>9, <1>10, <2>1 DEF Ended, Pending
  <2>2. ASSUME NEW k \in Keys, m.kind # "exdr" => k # m.key
        PROVE  Pending(k)' <=> Pending(k)
    BY <1>8, <2>2 DEF Pending
  <2> QED
    BY <2>1, <2>2 DEF Ended
<1>12. Buying' /\ ClosesAnOpener'
  BY <1>2, <1>3, <1>5, <1>6 DEF Buying, ClosesAnOpener
\* What a ticket that is unlocked is.
<1>13. ASSUME NEW k \in Keys, Unlocks(m, k)
       PROVE  /\ ~Closes(k) /\ orders[k].trading = "CLOSEING" /\ k # m.key
              /\ m.key \in Keys /\ Closes(m.key) /\ Pending(m.key)
              /\ orders[k].ticket = orders[m.key].closes
  <2>1. m.key \in Keys /\ Closes(m.key) /\ Pending(m.key) /\ k = Closed(m.key)
    BY <1>4, <1>13 DEF Unlocks, Ended, Pending
  <2> QED
    BY <1>3, <1>6, <2>1 DEF ClosesAnOpener, Locks
<1>14. InMarket'
  <2>1. ASSUME NEW k \in Keys, ~Closes(k), orders'[k].trading \in Over
        PROVE  orders'[k].ticket # NoTicket /\ ~Alive(k)' /\ ~Answered(k)'
    <3>1. CASE m.kind # "exdr" /\ k = m.key
      <4>1. m.kind = "filled"
        BY <1>3, <2>1, <3>1 DEF Moves
      <4>2. m.ticket # NoTicket
        BY <1>3, <1>4, <4>1, OrdersDomains DEF Sound, Reporting
      <4>3. orders'[k].ticket = m.ticket
        BY <3>1, <4>1 DEF Hears, ReportKinds
      <4>4. ~Pending(k)'
        BY <1>9, <3>1, <4>1 DEF Final
      <4> QED
        BY <4>2, <4>3, <4>4 DEF Pending
    <3>2. CASE m.kind # "exdr" => k # m.key
      <4>1. orders[k].trading \in Over
        <5>1. CASE Unlocks(m, k)
          BY <1>13, <5>1 DEF Over
        <5>2. CASE ~Unlocks(m, k)
          BY <1>3, <2>1, <3>2, <5>2 DEF Moves
        <5> QED
          BY <5>1, <5>2
      <4>2. orders[k].ticket # NoTicket /\ ~Alive(k) /\ ~Answered(k)
        BY <1>3, <2>1, <4>1 DEF InMarket
      <4> QED
        BY <1>5, <1>8, <3>2, <4>2
    <3> QED
      BY <3>1, <3>2
  <2> QED
    BY <1>2, <1>6, <2>1 DEF InMarket
<1>15. Ending'
  <2>1. ASSUME NEW k \in Keys, Closes(k), Answered(k)', ~Asked(k)', ~Alive(k)'
        PROVE  \E i \in DOMAIN toNode' :
                  toNode'[i].kind # "exdr" /\ toNode'[i].key = k /\ Final(toNode'[i])
    <3>1. PICK i \in DOMAIN toNode : About(i, k) /\ Final(toNode[i])
      BY <1>3, <1>8, <2>1 DEF Ending
    <3>2. i # 1
      BY <1>4, <1>9, <2>1, <3>1 DEF About, Pending
    <3> QED
      BY <1>7, <3>1, <3>2 DEF About
  <2> QED
    BY <1>2, <1>6, <2>1 DEF Ending, About
<1>16. Locks'
  <2>1. ASSUME NEW k \in Keys, Closes(k), Pending(k)'
        PROVE  /\ orders'[Closed(k)].trading = "CLOSEING"
               /\ \A j \in Keys : Pending(j)' /\ orders[j].closes = orders[k].closes => j = k
    <3>1. Pending(k) /\ ~(Ended(m) /\ k = m.key)
      BY <1>11, <2>1
    <3>2. /\ orders[Closed(k)].trading = "CLOSEING" /\ Closed(k) \in Keys
          /\ \A j \in Keys : Pending(j) /\ orders[j].closes = orders[k].closes => j = k
      BY <1>3, <1>6, <2>1, <3>1 DEF Locks
    <3>3. m.kind # "exdr" => Closed(k) # m.key
      BY <1>3, <1>4, <2>1, <3>2 DEF ClosesAnOpener, InMarket, Over
    <3>4. ~Unlocks(m, Closed(k))
      <4>1. ASSUME Unlocks(m, Closed(k)) PROVE FALSE
        <5>1. /\ m.key \in Keys /\ Pending(m.key)
              /\ orders[Closed(k)].ticket = orders[m.key].closes
          BY <1>13, <3>2, <4>1
        <5>2. m.key = k
          BY <1>6, <2>1, <3>2, <5>1
        <5> QED
          BY <3>1, <4>1, <5>2 DEF Unlocks
      <4> QED
        BY <4>1
    <3>5. orders'[Closed(k)].trading = "CLOSEING"
      BY <1>3, <3>2, <3>3, <3>4 DEF Moves
    <3>6. \A j \in Keys : Pending(j)' /\ orders[j].closes = orders[k].closes => Pending(j)
      BY <1>11, <2>1 DEF Closes
    <3> QED
      BY <3>2, <3>5, <3>6
  <2>2. ASSUME NEW o \in Keys, ~Closes(o), orders'[o].trading = "CLOSEING"
        PROVE  \E k \in Keys : orders[k].closes = orders'[o].ticket /\ Pending(k)'
    <3>1. (m.kind # "exdr" => o # m.key) /\ ~Unlocks(m, o)
      BY <1>3, <2>2 DEF Moves
    <3>2. orders[o].trading = "CLOSEING" /\ orders'[o].ticket = orders[o].ticket
      BY <1>3, <1>5, <2>2, <3>1 DEF Moves
    <3>3. PICK k \in Keys : orders[k].closes = orders[o].ticket /\ Pending(k)
      BY <1>3, <2>2, <3>2 DEF Locks
    <3>4. Closes(k) /\ Closed(k) = o
      BY <1>3, <2>2, <3>2, <3>3 DEF InMarket, Over, Closes, Closed, Ticketing
    <3>5. Pending(k)'
      BY <1>11, <3>1, <3>3, <3>4 DEF Unlocks
    <3> QED
      BY <3>2, <3>3, <3>5
  <2> QED
    BY <1>2, <1>5, <1>6, <2>1, <2>2 DEF Locks
<1> QED
  BY <1>12, <1>14, <1>15, <1>16

-----------------------------------------------------------------------------
(* The FIX thread's steps. *)

\* What a step of the FIX thread leaves well typed.
Took(m) ==
    /\ Hears(m)
    /\ orders' \in Seq(OrderRecord)
    /\ cash' \in [Accounts -> Int] /\ margins' \in [DOMAIN margins' -> Nat]
    /\ drift' \in Int
    /\ UNCHANGED <<mode, script, toExchange, book, credit, lost, dividends>>

LEMMA TookKeeps ==
    ASSUME OrdersInv, NEW m, Took(m), Sides \subseteq {"buy"} /\ lost = 0 => Moves(m),
           StaysFrozen(m) \/ IsFreed(m) \/ IsNotHeld(m)
    PROVE  OrdersInv'
<1>1. OrdersTyped /\ Covered /\ Hears(m)
  BY DEF OrdersInv, Took
<1>2. /\ orders' \in Seq(OrderRecord) /\ DOMAIN orders' = Keys
      /\ toNode # << >> /\ m = Head(toNode) /\ toNode' = Tail(toNode)
      /\ UNCHANGED <<mode, script, toExchange, book, credit, lost, dividends>>
  BY DEF Took, Hears
<1>3. Freezing' /\ freeze' \in [Accounts -> Int]
  BY <1>1, FreezingHeard
<1>4. toNode' \in Seq(Reports \cup Rejects \cup Exdrs)
  BY <1>1, <1>2, RestIs
<1>5. ticketOf' \in [DOMAIN ticketOf' -> Nat]
  <2>1. ticketOf \in [DOMAIN ticketOf -> Nat]
    BY <1>1 DEF OrdersTyped
  <2>2. m.kind \in ReportKinds => m.key \in Nat
    <3>1. m.kind \in ReportKinds => m \in Reports
      BY <1>2, FirstIs
    <3> QED
      BY <3>1 DEF Reports
  <2>3. ticketOf' = IF m.kind \in ReportKinds /\ m.ticket \notin DOMAIN ticketOf
                    THEN Put(ticketOf, m.ticket, m.key) ELSE ticketOf
    BY <1>1 DEF Hears
  <2> QED
    BY <2>1, <2>2, <2>3 DEF Put
<1>6. OrdersTyped'
  BY <1>1, <1>2, <1>3, <1>4, <1>5 DEF OrdersTyped, Took, Accounts
<1>7. Covered'
  <2>1. Len(orders') = Len(orders)
    <3>1. /\ Len(orders) \in Nat /\ Keys = 1 .. Len(orders)
          /\ Len(orders') \in Nat /\ DOMAIN orders' = 1 .. Len(orders')
      BY <1>1, <1>2, OrdersDomains, SeqIsFunction
    <3> QED
      BY <1>2, <3>1
  <2>2. Sending' = Sending
    BY <1>2 DEF Sending
  <2>3. Len(orders') + Cardinality(Sending') + lost' + dividends' <= MaxEvents
    BY <1>1, <1>2, <2>1, <2>2 DEF Covered
  <2>4. \A u \in Sending' : Equity(script'[u].price, script'[u].qty) <= script'[u].seen
    BY <1>1, <1>2, <2>2 DEF Covered
  <2> QED
    BY <2>3, <2>4 DEF Covered, Equity
<1>8. Locking'
  BY <1>1, LockingHeard
<1> QED
  BY <1>1, <1>3, <1>6, <1>7, <1>8, HeardKeeps DEF OrdersInv

\* The accounts' books stay typed.
LEMMA AppendedIs ==
    ASSUME OrdersInv, NEW k, NEW margin \in Int, NEW fee \in Int
    PROVE  Appended(k, margin, fee) \in [Accounts -> Int]
<1>1. cash \in [Accounts -> Int]
  BY DEF OrdersInv, OrdersTyped
<1>2. PICK a : a = Owner(k)
  OBVIOUS
<1>3. [cash EXCEPT ![a] = @ + margin - fee] \in [Accounts -> Int]
  <2>1. a \in Accounts => cash[a] + margin - fee \in Int
    BY <1>1
  <2> QED
    BY <1>1, <2>1
<1> QED
  BY <1>2, <1>3 DEF Appended

LEMMA MarginsAre ==
    ASSUME OrdersInv
    PROVE  /\ \A t \in DOMAIN margins : margins[t] \in Nat
           /\ DOMAIN margins \subseteq Tickets
           /\ \A t, x : x \in Nat /\ t \in Tickets =>
                 /\ Put(margins, t, x) \in [DOMAIN Put(margins, t, x) -> Nat]
                 /\ DOMAIN Put(margins, t, x) \subseteq Tickets
           /\ \A t : /\ Drop(margins, t) \in [DOMAIN Drop(margins, t) -> Nat]
                     /\ DOMAIN Drop(margins, t) \subseteq Tickets
<1>1. margins \in [DOMAIN margins -> Nat] /\ DOMAIN margins \subseteq Tickets
  BY DEF OrdersInv, OrdersTyped, Ticketing
<1>2. \A t \in DOMAIN margins : margins[t] \in Nat
  BY <1>1
<1>3. ASSUME NEW t \in Tickets, NEW x \in Nat
      PROVE  /\ Put(margins, t, x) \in [DOMAIN Put(margins, t, x) -> Nat]
             /\ DOMAIN Put(margins, t, x) \subseteq Tickets
  BY <1>1, <1>2 DEF Put
<1>4. ASSUME NEW t
      PROVE  /\ Drop(margins, t) \in [DOMAIN Drop(margins, t) -> Nat]
             /\ DOMAIN Drop(margins, t) \subseteq Tickets
  BY <1>1, <1>2 DEF Drop
<1> QED
  BY <1>1, <1>2, <1>3, <1>4

\* Marking the order of a ticket changes no order without one.
Statuses ==
    {"PENDING", "PARTIALLY_FILLED", "MARKET", "CLOSEING", "FILLED", "CLOSED", "REJECT",
     "CANCEL"}
Marks(r, q, x, status) ==
    /\ r \in Seq(OrderRecord) /\ DOMAIN r = Keys
    /\ \A k \in Keys \ {x} : r[k] = q[k]
    /\ r[x].thread = q[x].thread /\ r[x].side = q[x].side
    /\ r[x].price = q[x].price /\ r[x].closes = q[x].closes
    /\ r[x].ticket = q[x].ticket /\ r[x].qty = q[x].qty
    /\ r[x].cumqty = q[x].cumqty /\ r[x].openqty = q[x].openqty
    /\ r[x].trading = status

LEMMA MarkedIs ==
    ASSUME NEW q \in Seq(OrderRecord), DOMAIN q = Keys, NEW x \in Keys,
           NEW status \in Statuses,
           NEW r, r = [q EXCEPT ![x].trading = status]
    PROVE  Marks(r, q, x, status)
<1>1. PICK e : e = [q[x] EXCEPT !.trading = status]
  OBVIOUS
<1>2. Len(q) \in Nat /\ Keys = 1 .. Len(q) /\ q[x] \in OrderRecord
  BY SeqIsFunction
<1>3. /\ e \in OrderRecord
      /\ e.thread = q[x].thread /\ e.side = q[x].side
      /\ e.price = q[x].price /\ e.closes = q[x].closes
      /\ e.ticket = q[x].ticket /\ e.qty = q[x].qty /\ e.trading = status
      /\ e.cumqty = q[x].cumqty /\ e.openqty = q[x].openqty
  BY <1>1, <1>2 DEF OrderRecord, Statuses
<1>4. r = [q EXCEPT ![x] = e]
  BY <1>1
<1>5. /\ r \in Seq(OrderRecord) /\ Len(r) = Len(q) /\ r[x] = e
      /\ \A k \in Keys \ {x} : r[k] = q[k]
  <2>1. x \in 1 .. Len(q) /\ e \in OrderRecord
    BY <1>2, <1>3
  <2>2. /\ r \in Seq(OrderRecord) /\ Len(r) = Len(q) /\ r[x] = e
        /\ \A k \in 1 .. Len(q) : k # x => r[k] = q[k]
    BY <1>4, <2>1, ExceptSeq
  <2> QED
    BY <1>2, <2>2
<1>6. DOMAIN r = Keys
  BY <1>2, <1>5, SeqIsFunction
<1> QED
  BY <1>3, <1>5, <1>6 DEF Marks

LEMMA ExecutionReportKeeps ==
    ASSUME OrdersInv, toNode # << >>, toNode' = Tail(toNode),
           NEW m, m = Head(toNode), m.kind \in ReportKinds, ExecutionReport(m),
           UNCHANGED <<mode, script, toExchange, book, credit, lost, dividends>>
    PROVE  OrdersInv' /\ Took(m)
<1>1. OrdersTyped /\ Booking /\ InTurn /\ Announcing
  BY DEF OrdersInv
<1>2. /\ m \in Reports /\ Sound(m) /\ m.key \in Keys /\ m = toNode[1] /\ 1 \in DOMAIN toNode
      /\ m.kind # "exdr" /\ m.kind \notin {"canceled", "reject"}
  BY FirstIs DEF ReportKinds
<1>3. /\ m.ticket \in Tickets /\ m.ticket # NoTicket
      /\ m.closes = orders[m.key].closes
      /\ m.kind = "partial" => m.leaves > 0
      /\ m.kind = "filled" => m.leaves = 0 /\ m.cum > 0
      /\ m.kind = "new" =>
            /\ orders[m.key].ticket = NoTicket /\ orders[m.key].trading = "PENDING"
            /\ m.cum = 0
            /\ m.margin = IF m.closes = NoTicket THEN Cost(m.key) ELSE 0
  <2>1. Reporting(m)
    BY <1>2 DEF Sound
  <2> QED
    BY <1>1, <1>2, <2>1, OrdersDomains DEF Reporting, Booking, ReportKinds, Untouched
<1>4. /\ m.cum \in Nat /\ m.leaves \in Nat /\ m.ticket \in Nat /\ m.margin \in Nat
      /\ m.commission \in Nat /\ m.key \in Nat
  BY <1>2 DEF Reports
<1>5. PICK q : q = Reported(m)
  OBVIOUS
<1>6. /\ q \in Seq(OrderRecord) /\ DOMAIN q = Keys
      /\ \A k \in Keys \ {m.key} : q[k] = orders[k]
      /\ q[m.key].thread = orders[m.key].thread /\ q[m.key].side = orders[m.key].side
      /\ q[m.key].price = orders[m.key].price /\ q[m.key].closes = orders[m.key].closes
      /\ q[m.key].qty = orders[m.key].qty /\ q[m.key].ticket = m.ticket
      /\ q[m.key].trading = IF m.cum = 0 THEN "PENDING"
                            ELSE IF m.leaves > 0 THEN "PARTIALLY_FILLED"
                            ELSE IF m.closes = NoTicket THEN "MARKET" ELSE "FILLED"
  <2>1. PICK o, y, x, z : /\ o = orders[m.key] /\ x = m.key
           /\ y = (IF m.closes = NoTicket THEN o.openqty + m.cum ELSE o.openqty - m.cum)
           /\ z = (IF m.cum = 0 THEN "PENDING"
                   ELSE IF m.leaves > 0 THEN "PARTIALLY_FILLED"
                   ELSE IF m.closes = NoTicket THEN "MARKET" ELSE "FILLED")
    OBVIOUS
  <2>2. PICK e : e = [o EXCEPT !.ticket = m.ticket, !.cumqty = m.cum,
                               !.leaves = m.leaves, !.openqty = y, !.trading = z]
    OBVIOUS
  <2>3. /\ o \in OrderRecord /\ orders \in Seq(OrderRecord)
        /\ Len(orders) \in Nat /\ Keys = 1 .. Len(orders) /\ x \in Keys
    BY <1>1, <1>2, <2>1, OrdersDomains DEF OrdersTyped
  <2>4. /\ y \in Int
        /\ z \in {"PENDING", "PARTIALLY_FILLED", "MARKET", "CLOSEING", "FILLED",
                  "CLOSED", "REJECT", "CANCEL"}
    <3>1. o.openqty \in Int
      BY <2>3 DEF OrderRecord
    <3> QED
      BY <1>4, <2>1, <3>1
  <2>5. /\ e \in OrderRecord
        /\ e.thread = o.thread /\ e.side = o.side /\ e.price = o.price
        /\ e.closes = o.closes /\ e.qty = o.qty /\ e.ticket = m.ticket
        /\ e.trading = z
    BY <1>4, <2>2, <2>3, <2>4 DEF OrderRecord
  <2>6. q = [orders EXCEPT ![x] = e]
    BY <1>5, <2>1, <2>2 DEF Reported
  <2>7. /\ q \in Seq(OrderRecord) /\ Len(q) = Len(orders) /\ q[x] = e
        /\ \A k \in 1 .. Len(orders) : k # x => q[k] = orders[k]
    BY <2>3, <2>5, <2>6, ExceptSeq
  <2>8. DOMAIN q = Keys
    BY <2>3, <2>7, SeqIsFunction
  <2> QED
    BY <2>1, <2>3, <2>5, <2>7, <2>8
<1>7. /\ ticketOf' = IF m.ticket \in DOMAIN ticketOf THEN ticketOf
                     ELSE Put(ticketOf, m.ticket, m.key)
      /\ orders' = IF m.closes \in DOMAIN ticketOf' /\ m.cum > 0 /\ m.leaves = 0
                   THEN [q EXCEPT ![ticketOf'[m.closes]].trading = "CLOSED"]
                   ELSE q
      /\ drift' = drift
  BY <1>5 DEF ExecutionReport
<1>8. ASSUME m.closes \in DOMAIN ticketOf'
      PROVE  \E x \in Keys : /\ x = ticketOf'[m.closes]
                             /\ x = m.key \/ orders[x].ticket # NoTicket
  <2>1. CASE m.closes \in DOMAIN ticketOf
    <3>1. ticketOf'[m.closes] = ticketOf[m.closes]
      BY <1>7, <2>1 DEF Put
    <3> QED
      BY <2>1, <3>1, TicketsAre
  <2>2. CASE m.closes \notin DOMAIN ticketOf
    BY <1>2, <1>7, <1>8, <2>2 DEF Put
  <2> QED
    BY <2>1, <2>2
<1>9. /\ orders' \in Seq(OrderRecord) /\ DOMAIN orders' = Keys
      /\ \A k \in Keys \ {m.key} : Kept(k)
      /\ orders'[m.key].thread = orders[m.key].thread
      /\ orders'[m.key].side = orders[m.key].side
      /\ orders'[m.key].price = orders[m.key].price
      /\ orders'[m.key].closes = orders[m.key].closes
      /\ orders'[m.key].qty = orders[m.key].qty /\ orders'[m.key].ticket = m.ticket
  <2>1. CASE m.closes \in DOMAIN ticketOf' /\ m.cum > 0 /\ m.leaves = 0
    <3>1. PICK x \in Keys : /\ x = ticketOf'[m.closes]
                            /\ x = m.key \/ orders[x].ticket # NoTicket
      BY <1>8, <2>1
    <3>2. orders' = [q EXCEPT ![x].trading = "CLOSED"]
      BY <1>7, <2>1, <3>1
    <3>3. PICK r : r = orders' /\ r = [q EXCEPT ![x].trading = "CLOSED"]
      BY <3>2
    <3>4. "CLOSED" \in Statuses
      BY DEF Statuses
    <3>5. Marks(r, q, x, "CLOSED")
      BY <1>6, <3>1, <3>3, <3>4, MarkedIs
    <3> QED
      <4>1. orders' = r /\ DOMAIN r = Keys
        BY <1>6, <3>3, <3>5 DEF Marks
      <4>2. ASSUME NEW k \in Keys \ {m.key} PROVE Kept(k)
        BY <1>6, <3>1, <3>5, <4>1, <4>2 DEF Kept, Marks
      <4> QED
        BY <1>2, <1>6, <3>5, <4>1, <4>2 DEF Marks
  <2>2. CASE ~(m.closes \in DOMAIN ticketOf' /\ m.cum > 0 /\ m.leaves = 0)
    BY <1>2, <1>6, <1>7, <2>2 DEF Kept
  <2> QED
    BY <2>1, <2>2
<1>10. /\ cash' \in [Accounts -> Int] /\ margins' \in [DOMAIN margins' -> Nat]
       /\ DOMAIN margins' \subseteq Tickets
  <2>1. /\ cash \in [Accounts -> Int] /\ margins \in [DOMAIN margins -> Nat]
        /\ DOMAIN margins \subseteq Tickets
    BY DEF OrdersInv, OrdersTyped, Ticketing
  <2>2. CASE m.kind = "new"
    <3>1. BookNew(m)
      BY <2>2 DEF ExecutionReport
    <3>2. -m.margin \in Int /\ 0 \in Int
      BY <1>4
    <3>3. Appended(m.key, -m.margin, 0) \in [Accounts -> Int]
      BY <3>2, AppendedIs
    <3> QED
      BY <1>3, <1>4, <2>1, <3>1, <3>3, MarginsAre DEF BookNew
  <2>3. CASE m.kind = "filled"
    <3>1. BookFilled(m)
      BY <2>3 DEF ExecutionReport
    <3>2. PICK b : b = (IF m.closes # NoTicket THEN m.margin
                        ELSE IF m.ticket \in DOMAIN margins
                             THEN margins[m.ticket] - m.margin ELSE 0)
      OBVIOUS
    <3>3. b \in Int /\ m.commission \in Int
      BY <1>4, <3>2, MarginsAre
    <3>4. Appended(m.key, b, m.commission) \in [Accounts -> Int]
      BY <3>3, AppendedIs
    <3>5. cash' = Appended(m.key, b, m.commission)
      BY <3>1, <3>2 DEF BookFilled
    <3> QED
      BY <1>3, <1>4, <2>1, <3>1, <3>4, <3>5, MarginsAre DEF BookFilled
  <2>4. CASE m.kind = "partial"
    BY <2>1, <2>4 DEF ExecutionReport
  <2> QED
    BY <2>2, <2>3, <2>4 DEF ReportKinds
<1>11. Took(m)
  <2>1. drift' \in Int
    BY <1>1, <1>7 DEF OrdersTyped
  <2>2. ticketOf' = IF m.kind \in ReportKinds /\ m.ticket \notin DOMAIN ticketOf
                    THEN Put(ticketOf, m.ticket, m.key) ELSE ticketOf
    BY <1>7
  <2>3. Hears(m)
    BY <1>2, <1>9, <1>10, <2>2 DEF Hears
  <2> QED
    BY <1>9, <1>10, <2>1, <2>3 DEF Took
<1>12. \A a : m.key \notin Held(a)'
  BY <1>3, <1>9 DEF Held
<1>13. Moves(m)
  <2>1. CASE ~Closes(m.key)
    <3>1. m.closes \notin DOMAIN ticketOf'
      <4>1. m.closes \notin DOMAIN ticketOf /\ m.closes # m.ticket
        BY <1>3, <2>1, TicketsAre DEF Closes
      <4> QED
        BY <1>7, <4>1 DEF Put
    <3>2. orders' = q
      BY <1>7, <3>1
    <3>3. /\ q[m.key].trading # "CLOSEING"
          /\ q[m.key].trading \in Over => m.kind = "filled"
      BY <1>3, <1>6 DEF Over, ReportKinds
    <3> QED
      BY <1>2, <1>6, <2>1, <3>2, <3>3 DEF Moves, Unlocks, Ended
  <2>2. CASE Closes(m.key)
    <3>1. PICK x \in Keys : x = Closed(m.key) /\ m.closes \in DOMAIN ticketOf /\ x = ticketOf[m.closes]
      BY <1>1, <1>2, <1>3, <2>2, TicketsAre DEF OrdersInv, Ticketing, Closes, Closed
    <3>2. m.closes \in DOMAIN ticketOf' /\ ticketOf'[m.closes] = x
      BY <1>7, <3>1 DEF Put
    <3>3. Ended(m) <=> m.kind = "filled"
      BY <1>2, <2>2 DEF Ended, Final
    <3>4. CASE m.kind = "filled"
      <4>1. PICK r : r = orders' /\ r = [q EXCEPT ![x].trading = "CLOSED"]
        BY <1>3, <1>7, <3>2, <3>4
      <4>2. "CLOSED" \in Statuses
        BY DEF Statuses
      <4>3. Marks(r, q, x, "CLOSED")
        BY <1>6, <4>1, <4>2, MarkedIs
      <4> QED
        <5>1. /\ \A k \in Keys : Unlocks(m, k) <=> k = x
              /\ Ended(m)
          BY <2>2, <3>1, <3>3, <3>4 DEF Unlocks
        <5>2. /\ orders'[x].trading = "CLOSED"
              /\ \A k \in Keys \ {m.key, x} : orders'[k].trading = orders[k].trading
          BY <1>6, <4>1, <4>3 DEF Marks
        <5> QED
          BY <1>2, <2>2, <5>1, <5>2 DEF Moves
    <3>5. CASE m.kind # "filled"
      <4>1. orders' = q
        <5>1. ~(m.cum > 0 /\ m.leaves = 0)
          BY <1>3, <1>4, <3>5 DEF ReportKinds
        <5> QED
          BY <1>7, <5>1
      <4> QED
        BY <1>2, <1>6, <2>2, <3>3, <3>5, <4>1 DEF Moves, Unlocks
    <3> QED
      BY <3>4, <3>5
  <2> QED
    BY <2>1, <2>2
<1>14. CASE m.kind = "new"
  <2>1. BookNew(m)
    BY <1>14 DEF ExecutionReport
  <2>2. CASE m.closes # NoTicket
    <3>1. freeze' = freeze
      BY <1>3, <1>14, <2>1, <2>2 DEF BookNew
    <3>2. \A a : m.key \notin Held(a)
      BY <1>3, <2>2 DEF Held
    <3> QED
      BY <1>2, <1>11, <1>12, <3>1, <3>2, <1>13, TookKeeps DEF IsNotHeld
  <2>3. CASE m.closes = NoTicket
    <3>1. m.key \in Held(Owner(m.key))
      BY <1>2, <1>3, <1>14, <2>3 DEF Held
    <3>2. freeze' = Unfrozen(m.key)
      <4>1. CASE m.margin = 0
        <5>1. Cost(m.key) = 0 /\ freeze' = freeze
          BY <1>3, <1>14, <2>1, <2>3, <4>1 DEF BookNew
        <5>2. PICK a : a = Owner(m.key)
          OBVIOUS
        <5>3. freeze \in [Accounts -> Int]
          BY <1>1 DEF OrdersTyped
        <5>4. [freeze EXCEPT ![a] = @ - 0] = freeze
          BY <5>3
        <5> QED
          BY <5>1, <5>2, <5>4 DEF Unfrozen, Cost
      <4>2. CASE m.margin # 0
        BY <2>1, <4>2 DEF BookNew
      <4> QED
        BY <4>1, <4>2
    <3> QED
      BY <1>2, <1>11, <1>12, <3>1, <3>2, <1>13, TookKeeps DEF IsFreed
  <2> QED
    BY <2>2, <2>3
<1>15. CASE m.kind # "new"
  <2>1. freeze' = freeze
    BY <1>15 DEF ExecutionReport, BookFilled, ReportKinds
  <2>2. ASSUME lost = 0 PROVE orders[m.key].ticket # NoTicket
    <3>1. Known(m.key)
      BY <1>1, <1>2, <1>15, <2>2 DEF Announcing, ReportKinds
    <3>2. ASSUME NEW i \in DOMAIN toNode, toNode[i].kind = "new", toNode[i].key = m.key
          PROVE  FALSE
      <4>1. i # 1 /\ About(1, toNode[i].key) /\ toNode[i].kind # "exdr"
        BY <1>2, <1>15, <3>2 DEF About
      <4>2. i < 1
        BY <1>1, <1>2, <3>2, <4>1 DEF InTurn
      <4>3. i \in Nat /\ i > 0
        BY <1>1, OrdersDomains
      <4> QED
        BY <4>2, <4>3
    <3> QED
      BY <3>1, <3>2 DEF Known
  <2>3. lost = 0 => \A a : m.key \notin Held(a)
    BY <2>2 DEF Held
  <2> QED
    BY <1>2, <1>11, <1>12, <2>1, <2>3, <1>13, TookKeeps DEF IsNotHeld
<1> QED
  BY <1>11, <1>14, <1>15

\* An order that has failed keeps everything but its status; so does its ticket,
\* which is in the market again.
Reopens(key, closes) ==
    \A k \in Keys : IF closes \in DOMAIN ticketOf /\ k = ticketOf[closes]
                    THEN orders'[k].trading = "MARKET"
                    ELSE k # key => orders'[k].trading = orders[k].trading

LEMMA FailedTakes ==
    ASSUME OrdersInv, toNode # << >>, toNode' = Tail(toNode),
           NEW m, m = Head(toNode), m.kind \in {"canceled", "reject"},
           NEW ticket, NEW closes, NEW status \in {"CANCEL", "REJECT"},
           RejectOrCancelNewOrder(m.key, ticket, closes, status),
           UNCHANGED <<mode, script, toExchange, book, credit, lost, dividends>>
    PROVE  /\ Took(m)
           /\ orders'[m.key].trading = status
              \/ (closes # NoTicket /\ orders'[m.key].trading = "MARKET")
           /\ Reopens(m.key, closes)
<1>1. OrdersTyped
  BY DEF OrdersInv
<1>2. m.key \in Keys /\ m.kind # "exdr" /\ m.kind \notin ReportKinds
  BY FirstIs DEF ReportKinds
<1>3. PICK k : k = m.key
  OBVIOUS
<1>4. PICK q : q = [orders EXCEPT ![k].trading = status]
  OBVIOUS
<1>5. Marks(q, orders, k, status)
  <2>1. orders \in Seq(OrderRecord) /\ DOMAIN orders = Keys /\ k \in Keys
        /\ status \in Statuses
    BY <1>1, <1>2, <1>3 DEF OrdersTyped, Keys, Statuses
  <2> QED
    BY <1>4, <2>1, MarkedIs
<1>6. orders' = IF closes \in DOMAIN ticketOf
                THEN [q EXCEPT ![ticketOf[closes]].trading = "MARKET"] ELSE q
  BY <1>3, <1>4 DEF RejectOrCancelNewOrder, Failed
<1>7. /\ orders' \in Seq(OrderRecord) /\ DOMAIN orders' = Keys
      /\ \A i \in Keys \ {k} : Kept(i)
      /\ orders'[k].thread = orders[k].thread /\ orders'[k].side = orders[k].side
      /\ orders'[k].price = orders[k].price /\ orders'[k].closes = orders[k].closes
      /\ orders'[k].qty = orders[k].qty /\ orders'[k].ticket = orders[k].ticket
      /\ orders'[k].trading = status
         \/ (closes # NoTicket /\ orders'[k].trading = "MARKET")
      /\ Reopens(k, closes)
  <2>1. CASE closes \in DOMAIN ticketOf
    <3>1. PICK x \in Keys : x = ticketOf[closes] /\ orders[x].ticket # NoTicket
      BY <2>1, TicketsAre
    <3>2. PICK r : r = orders' /\ r = [q EXCEPT ![x].trading = "MARKET"]
      BY <1>6, <2>1, <3>1
    <3>3. "MARKET" \in Statuses
      BY DEF Statuses
    <3>4. Marks(r, q, x, "MARKET")
      <4>1. q \in Seq(OrderRecord) /\ DOMAIN q = Keys
        BY <1>5 DEF Marks
      <4> QED
        BY <3>1, <3>2, <3>3, <4>1, MarkedIs
    <3>5. closes # NoTicket
      BY <2>1, TicketsAre
    <3> QED
      BY <1>2, <1>3, <1>5, <2>1, <3>1, <3>2, <3>4, <3>5 DEF Kept, Marks, Reopens
  <2>2. CASE closes \notin DOMAIN ticketOf
    BY <1>2, <1>3, <1>5, <1>6, <2>2 DEF Kept, Marks, Reopens
  <2> QED
    BY <2>1, <2>2
<1>8. /\ cash' \in [Accounts -> Int] /\ margins' \in [DOMAIN margins' -> Nat]
      /\ DOMAIN margins' \subseteq Tickets
  <2>1. /\ cash \in [Accounts -> Int] /\ margins \in [DOMAIN margins -> Nat]
        /\ DOMAIN margins \subseteq Tickets
    BY DEF OrdersInv, OrdersTyped, Ticketing
  <2>2. CASE cash' = cash /\ margins' = margins
    BY <2>1, <2>2
  <2>3. CASE /\ ticket \in DOMAIN margins
             /\ cash' = Appended(k, margins[ticket], 0)
             /\ margins' = Drop(margins, ticket)
    <3>1. margins[ticket] \in Int /\ 0 \in Int
      BY <2>3, MarginsAre
    <3>2. Appended(k, margins[ticket], 0) \in [Accounts -> Int]
      BY <3>1, AppendedIs
    <3> QED
      BY <2>3, <3>2, MarginsAre
  <2> QED
    BY <1>3, <2>2, <2>3 DEF RejectOrCancelNewOrder
<1>9. ticketOf' = ticketOf /\ drift' = drift
  BY DEF RejectOrCancelNewOrder
<1>10. Hears(m)
  BY <1>2, <1>3, <1>7, <1>8, <1>9 DEF Hears
<1>11. drift' \in Int
  BY <1>1, <1>9 DEF OrdersTyped
<1> QED
  BY <1>3, <1>7, <1>8, <1>10, <1>11 DEF Took

LEMMA CanceledKeeps ==
    ASSUME OrdersInv, toNode # << >>, toNode' = Tail(toNode),
           NEW m, m = Head(toNode), m.kind = "canceled",
           RejectOrCancelNewOrder(m.key, m.ticket, m.closes, "CANCEL"),
           UNCHANGED <<mode, script, toExchange, book, credit, lost, dividends>>
    PROVE  OrdersInv' /\ Took(m)
<1>1. OrdersTyped /\ Booking
  BY DEF OrdersInv
<1>2. m.kind # "exdr" /\ m.key \in Keys /\ m.ticket \in Tickets /\ m.ticket # NoTicket
      /\ Booked(m.key) /\ m.closes = orders[m.key].closes
  <2>1. Sound(m) /\ m.key \in Keys
    BY FirstIs
  <2> QED
    BY <1>1, <2>1, OrdersDomains DEF Sound, Reporting, Booking, Booked
<1>3. /\ Took(m) /\ Hears(m)
      /\ orders'[m.key].trading # "REJECT"
      /\ m.closes = NoTicket => orders'[m.key].trading = "CANCEL"
      /\ Reopens(m.key, m.closes)
  <2>1. "CANCEL" \in {"CANCEL", "REJECT"} /\ m.kind \in {"canceled", "reject"}
    OBVIOUS
  <2>2. /\ Took(m)
        /\ orders'[m.key].trading = "CANCEL"
           \/ (m.closes # NoTicket /\ orders'[m.key].trading = "MARKET")
        /\ Reopens(m.key, m.closes)
    BY <2>1, FailedTakes
  <2> QED
    BY <2>2 DEF Took
<1>4. freeze' = freeze
  BY <1>2 DEF RejectOrCancelNewOrder
<1>5. \A a : m.key \in Held(a)' <=> m.key \in Held(a)
  BY <1>2, <1>3 DEF Held, Hears, Keys, Owner, Account, Booked, Tickets, ReportKinds
<1>6. Moves(m)
  <2>1. CASE ~Closes(m.key)
    <3>1. m.closes = NoTicket /\ m.closes \notin DOMAIN ticketOf
      BY <1>2, <2>1, TicketsAre DEF Closes
    <3> QED
      BY <1>3, <2>1, <3>1 DEF Moves, Unlocks, Ended, Reopens, Over
  <2>2. CASE Closes(m.key)
    <3>1. m.closes \in DOMAIN ticketOf /\ ticketOf[m.closes] = Closed(m.key) /\ Ended(m)
      BY <1>1, <1>2, <2>2 DEF OrdersInv, Ticketing, Closes, Closed, Ended, Final
    <3> QED
      BY <1>3, <2>2, <3>1 DEF Moves, Unlocks, Reopens
  <2> QED
    BY <2>1, <2>2
<1> QED
  BY <1>2, <1>3, <1>4, <1>5, <1>6, TookKeeps DEF StaysFrozen

LEMMA OrderCancelRejectKeeps ==
    ASSUME OrdersInv, toNode # << >>, toNode' = Tail(toNode),
           NEW m, m = Head(toNode), m.kind = "reject", OrderCancelReject(m),
           UNCHANGED <<mode, script, toExchange, book, credit, lost, dividends>>
    PROVE  OrdersInv' /\ Took(m)
<1>1. OrdersTyped /\ Booking
  BY DEF OrdersInv
<1>2. m.kind # "exdr" /\ m.key \in Keys /\ Rejecting(m) /\ m.kind \notin ReportKinds
  BY FirstIs DEF Sound, ReportKinds
<1>3. PICK ticket, closes :
        /\ RejectOrCancelNewOrder(m.key, ticket, closes, "REJECT")
        /\ \/ m.responseTo = "2" /\ ticket = NoTicket /\ closes = m.ticket
           \/ m.responseTo # "2" /\ ticket = m.ticket /\ closes = NoTicket
  <2>1. CASE m.responseTo = "2"
    BY <2>1 DEF OrderCancelReject
  <2>2. CASE m.responseTo # "2"
    BY <2>2 DEF OrderCancelReject
  <2> QED
    BY <2>1, <2>2
<1>4. /\ Took(m) /\ Hears(m)
      /\ orders'[m.key].trading = "REJECT"
         \/ (closes # NoTicket /\ orders'[m.key].trading = "MARKET")
      /\ Reopens(m.key, closes)
  <2>1. "REJECT" \in {"CANCEL", "REJECT"} /\ m.kind \in {"canceled", "reject"}
    OBVIOUS
  <2>2. /\ Took(m)
        /\ orders'[m.key].trading = "REJECT"
           \/ (closes # NoTicket /\ orders'[m.key].trading = "MARKET")
        /\ Reopens(m.key, closes)
    BY <1>3, <2>1, FailedTakes
  <2> QED
    BY <2>2 DEF Took
<1>5. /\ orders'[m.key].ticket = orders[m.key].ticket
      /\ orders'[m.key].closes = orders[m.key].closes
      /\ \A a : Owner(m.key)' = a <=> Owner(m.key) = a
      /\ Keys' = Keys /\ (Booked(m.key)' <=> Booked(m.key))
  BY <1>2, <1>4 DEF Hears, Keys, Owner, Account, Booked, Tickets
<1>6. \A a : /\ m.key \in Held(a) <=>
                   /\ orders[m.key].closes = NoTicket /\ orders[m.key].ticket = NoTicket
                   /\ Owner(m.key) = a
                   /\ orders[m.key].trading = "REJECT" => Booked(m.key)
             /\ m.key \in Held(a)' <=>
                   /\ orders[m.key].closes = NoTicket /\ orders[m.key].ticket = NoTicket
                   /\ Owner(m.key) = a
                   /\ orders'[m.key].trading = "REJECT" => Booked(m.key)
  BY <1>2, <1>5 DEF Held, Booked
<1>7. ASSUME Sides \subseteq {"buy"}, lost = 0 PROVE Moves(m)
  <2>1. Buying
    BY <1>7 DEF OrdersInv, Locking
  <2>2. CASE ~Closes(m.key)
    <3>1. orders[m.key].side = "buy" /\ m.responseTo = "1"
      BY <1>2, <2>1, <2>2 DEF Buying, Rejecting
    <3>2. closes = NoTicket /\ closes \notin DOMAIN ticketOf
      BY <1>3, <3>1, TicketsAre
    <3> QED
      BY <1>4, <2>2, <3>2 DEF Moves, Unlocks, Ended, Reopens, Over
  <2>3. CASE Closes(m.key)
    <3>1. orders[m.key].side # "buy" /\ m.responseTo = "2"
      BY <1>2, <2>1, <2>3 DEF Buying, Rejecting
    <3>2. closes = orders[m.key].closes
      BY <1>2, <1>3, <2>3, <3>1 DEF Rejecting, Closes
    <3>3. closes \in DOMAIN ticketOf /\ ticketOf[closes] = Closed(m.key) /\ Ended(m)
      BY <1>2, <2>3, <3>2 DEF OrdersInv, Ticketing, Closes, Closed, Ended, Final
    <3> QED
      BY <1>4, <2>3, <3>3 DEF Moves, Unlocks, Reopens
  <2> QED
    BY <2>2, <2>3
<1>8. CASE /\ orders[m.key].closes = NoTicket /\ ~Booked(m.key)
           /\ m.ticket = NoTicket /\ orders[m.key].trading = "PENDING"
  <2>1. freeze' = Unfrozen(m.key)
    <3>1. NoTicket \notin DOMAIN margins
      BY <1>1, MarginsAre, OrdersDomains
    <3> QED
      BY <1>3, <1>8, <3>1 DEF RejectOrCancelNewOrder
  <2>2. orders'[m.key].trading = "REJECT"
    BY <1>3, <1>4, <1>8
  <2>3. orders[m.key].ticket = NoTicket
    BY <1>2 DEF Rejecting
  <2>4. m.key \in Held(Owner(m.key)) /\ \A a : m.key \notin Held(a)'
    BY <1>6, <1>8, <2>2, <2>3
  <2> QED
    BY <1>2, <1>4, <2>1, <2>4, <1>7, TookKeeps DEF IsFreed
<1>9. CASE m.ticket # NoTicket
  <2>1. freeze' = freeze
    BY <1>3, <1>9 DEF RejectOrCancelNewOrder
  <2>2. orders[m.key].closes = NoTicket => Booked(m.key)
    BY <1>2, <1>9 DEF Rejecting, Booked
  <2>3. \A a : m.key \in Held(a)' <=> m.key \in Held(a)
    BY <1>6, <2>2
  <2> QED
    BY <1>2, <1>4, <2>1, <2>3, <1>7, TookKeeps DEF StaysFrozen
<1>10. m.ticket = NoTicket => orders[m.key].closes = NoTicket
  BY <1>1, <1>2, OrdersDomains DEF Rejecting
<1> QED
  BY <1>1, <1>2, <1>4, <1>8, <1>9, <1>10, OrdersDomains DEF Rejecting

LEMMA QuoteStatusReportKeeps ==
    ASSUME OrdersInv, toNode # << >>, toNode' = Tail(toNode),
           NEW m, m = Head(toNode), m.kind = "exdr", QuoteStatusReport(m),
           UNCHANGED <<mode, script, toExchange, book, credit, lost, dividends>>
    PROVE  OrdersInv' /\ Took(m)
<1>1. /\ OrdersTyped
      /\ DOMAIN margins \subseteq Tickets
  BY DEF OrdersInv, Ticketing
<1>2. m \in Exdrs /\ m.tickets \subseteq Tickets /\ m.kind \notin ReportKinds
  BY FirstIs DEF Sound, ReportKinds
<1>3. m.split \in Nat /\ m.cash \in Nat /\ m.paid \in Int
  BY <1>2 DEF Exdrs
<1>4. PICK paid : paid = {key \in Keys : /\ orders[key].ticket \in m.tickets
                                         /\ orders[key].side = "buy"
                                         /\ orders[key].trading = "MARKET"}
  OBVIOUS
<1>5. PICK parts : parts = [key \in Keys |-> orders[key].qty * m.cash]
  OBVIOUS
<1>6. PICK of : of = [a \in Accounts |->
                        SumFunctionOnSet(parts, {key \in paid : Owner(key) = a})]
  OBVIOUS
<1>7. /\ cash' = [a \in Accounts |-> cash[a] + of[a]]
      /\ orders' = [key \in Keys |->
                      IF key \in paid
                      THEN [orders[key] EXCEPT !.qty = orders[key].qty * (1 + m.split),
                                               !.openqty = orders[key].qty * (1 + m.split)]
                      ELSE orders[key]]
      /\ drift' = drift + SumFunctionOnSet(of, Accounts) - m.paid
      /\ UNCHANGED <<ticketOf, freeze, margins>>
  BY <1>4, <1>5, <1>6 DEF QuoteStatusReport
<1>8. IsFiniteSet(Keys) /\ Len(orders) \in Nat /\ Keys = 1 .. Len(orders)
      /\ \A k \in Keys : orders[k] \in OrderRecord
  BY <1>1, OrdersDomains, FS_Interval
<1>9. \A k \in Keys : parts[k] \in Int
  <2>1. ASSUME NEW k \in Keys PROVE parts[k] \in Int
    <3>1. PICK x \in Nat : x = orders[k].qty
      BY <1>8 DEF OrderRecord
    <3>2. x * m.cash \in Int
      BY <1>3
    <3> QED
      BY <1>5, <3>1, <3>2
  <2> QED
    BY <2>1
<1>10. \A a \in Accounts : of[a] \in Int
  <2>1. ASSUME NEW a \in Accounts PROVE of[a] \in Int
    <3>1. PICK S : S = {key \in paid : Owner(key) = a}
      OBVIOUS
    <3>2. S \subseteq Keys
      BY <1>4, <3>1
    <3>3. IsFiniteSet(S) /\ \A k \in S : parts[k] \in Int
      BY <1>8, <1>9, <3>2, FS_Subset
    <3> QED
      BY <1>6, <3>1, <3>3, SumInt
  <2> QED
    BY <2>1
<1>11. cash' \in [Accounts -> Int] /\ drift' \in Int
  <2>1. cash \in [Accounts -> Int] /\ drift \in Int
    BY <1>1 DEF OrdersTyped
  <2>2. SumFunctionOnSet(of, Accounts) \in Int
    BY <1>10, FiniteAccounts, SumInt
  <2>3. \A a \in Accounts : cash[a] + of[a] \in Int
    BY <1>10, <2>1
  <2>4. cash' \in [Accounts -> Int]
    BY <1>7, <2>3
  <2>5. drift + SumFunctionOnSet(of, Accounts) - m.paid \in Int
    BY <1>3, <2>1, <2>2
  <2> QED
    BY <1>7, <2>4, <2>5
<1>12. ASSUME NEW k \in Keys
       PROVE  /\ orders'[k] \in OrderRecord /\ Kept(k)
              /\ orders'[k].trading = orders[k].trading
  <2>1. orders[k] \in OrderRecord
    BY <1>8
  <2>2. CASE k \in paid
    <3>1. PICK y : y = orders[k].qty * (1 + m.split)
      OBVIOUS
    <3>2. y \in Nat \ {0}
      <4>1. PICK x \in Nat \ {0} : x = orders[k].qty
        BY <2>1 DEF OrderRecord
      <4>2. PICK z \in Nat \ {0} : z = 1 + m.split
        BY <1>3
      <4>3. x * z \in Nat \ {0}
        OBVIOUS
      <4> QED
        BY <3>1, <4>1, <4>2, <4>3
    <3>3. PICK o, e : o = orders[k] /\ e = [o EXCEPT !.qty = y, !.openqty = y]
      OBVIOUS
    <3>5. orders'[k] = e
      BY <1>7, <2>2, <3>1, <3>3
    <3>6. /\ e \in OrderRecord
          /\ e.thread = o.thread /\ e.side = o.side /\ e.price = o.price
          /\ e.closes = o.closes /\ e.ticket = o.ticket /\ e.trading = o.trading
      <4>1. o \in OrderRecord /\ y \in Int /\ y \in Nat \ {0}
        BY <2>1, <3>2, <3>3
      <4> QED
        BY <3>3, <4>1 DEF OrderRecord
    <3>4. orders[k].ticket # NoTicket
      BY <1>1, <1>2, <1>4, <2>2, OrdersDomains
    <3> QED
      BY <3>3, <3>4, <3>5, <3>6 DEF Kept
  <2>3. CASE k \notin paid
    <3>1. orders'[k] = orders[k]
      BY <1>7, <2>3
    <3> QED
      BY <2>1, <3>1 DEF Kept
  <2> QED
    BY <2>2, <2>3
<1>13. orders' \in Seq(OrderRecord) /\ DOMAIN orders' = Keys
  <2>1. orders' \in [1 .. Len(orders) -> OrderRecord]
    BY <1>7, <1>8, <1>12
  <2> QED
    BY <1>7, <1>8, <2>1, FunctionIsSeq
<1>14. Took(m)
  <2>1. Hears(m)
    BY <1>1, <1>2, <1>7, <1>12, <1>13 DEF Hears
  <2>2. margins' \in [DOMAIN margins' -> Nat]
    BY <1>1, <1>7 DEF OrdersTyped
  <2> QED
    BY <1>11, <1>13, <2>1, <2>2 DEF Took
<1>15. StaysFrozen(m)
  BY <1>7 DEF StaysFrozen
<1>16. Moves(m)
  BY <1>12 DEF Moves, Unlocks, Ended
<1> QED
  BY <1>14, <1>15, <1>16, TookKeeps

LEMMA FromAppKeeps == ASSUME OrdersInv, FromApp PROVE OrdersInv'
<1>1. PICK m : m = Head(toNode)
  OBVIOUS
<1>2. /\ toNode # << >> /\ toNode' = Tail(toNode) /\ m = Head(toNode)
      /\ UNCHANGED <<mode, script, toExchange, book, credit, lost, dividends>>
  BY <1>1 DEF FromApp
<1>3. \/ m.kind \in ReportKinds /\ ExecutionReport(m)
      \/ /\ m.kind = "canceled"
         /\ RejectOrCancelNewOrder(m.key, m.ticket, m.closes, "CANCEL")
      \/ m.kind = "reject" /\ OrderCancelReject(m)
      \/ m.kind = "exdr" /\ QuoteStatusReport(m)
  BY <1>1 DEF FromApp, ReportKinds
<1>4. CASE m.kind \in ReportKinds /\ ExecutionReport(m)
  BY <1>2, <1>4, ExecutionReportKeeps
<1>5. CASE /\ m.kind = "canceled"
           /\ RejectOrCancelNewOrder(m.key, m.ticket, m.closes, "CANCEL")
  BY <1>2, <1>5, CanceledKeeps
<1>6. CASE m.kind = "reject" /\ OrderCancelReject(m)
  BY <1>2, <1>6, OrderCancelRejectKeeps
<1>7. CASE m.kind = "exdr" /\ QuoteStatusReport(m)
  BY <1>2, <1>7, QuoteStatusReportKeeps
<1> QED
  BY <1>3, <1>4, <1>5, <1>6, <1>7

LEMMA OrdersNext == OrdersInv /\ [Next]_vars => OrdersInv'
<1> SUFFICES ASSUME OrdersInv, [Next]_vars PROVE OrdersInv'
  OBVIOUS
<1>1. CASE Script
  BY <1>1, OrderSendTestKeeps, OrderSendKeeps, OrderCloseKeeps DEF Script
<1>2. CASE Lob
  BY <1>2, LobKeeps
<1>3. CASE Feed
  <2>1. ASSUME NEW t \in Tickets, NEW p \in Prices, NEW q \in 1 .. book[t].leaves,
               Execute(t, p, q)
        PROVE  OrdersInv'
    BY <2>1, ExecuteKeeps
  <2>2. ASSUME NEW t \in Tickets, Cancel(t) PROVE OrdersInv'
    BY <2>2, CancelKeeps
  <2>3. ASSUME NEW amount \in Dividends, NEW split \in Splits, AddExdrCash(amount, split)
        PROVE  OrdersInv'
    BY <2>3, AddExdrCashKeeps
  <2> QED
    BY <1>3, <2>1, <2>2, <2>3 DEF Feed
<1>4. CASE FromApp
  BY <1>4, FromAppKeeps
<1>5. CASE UNCHANGED vars
  <2>1. UNCHANGED <<mode, node, toExchange, toNode, exchange, lost, dividends>>
    BY <1>5 DEF vars, node, exchange
  <2>2. OrdersTyped' /\ Covered'
    BY <1>5 DEF vars, OrdersInv, OrdersTyped, Accounts, Covered, Sending, Equity
  <2> QED
    BY <2>1, <2>2, ThreadMoves DEF OrdersInv
<1> QED
  BY <1>1, <1>2, <1>3, <1>4, <1>5 DEF Next

\* What the node, the exchange and the messages between them say of each order fits
\* together in every reachable state: requests and reports cross, are lost for want of
\* a connection, and threads send and close orders meanwhile (OrderSend, OrderClose,
\* FixApplication::lob, FixGuard::updateOrder, FixAccount).
THEOREM OrdersFitTogether == Spec => []OrdersInv
<1>1. OrdersInv /\ [Next]_vars => OrdersInv'
  BY OrdersNext
<1> QED
  BY <1>1, OrdersInit, PTL DEF Spec

\* The state has its types; the tickets that the node has booked or holds a margin of
\* are the exchange's, and are the orders' that the exchange has for them.
THEOREM TypeCorrect == Spec => []TypeOK
<1>1. ASSUME OrdersInv PROVE TypeOK
  <2>1. OrdersTyped /\ Covered /\ Ticketing
    BY <1>1 DEF OrdersInv
  <2>2. \A t \in Threads : script[t].pc \in {"idle", "send"}
    <3>1. \A t \in Threads : script[t] = Idle \/ script[t] \in Sends
      BY <2>1 DEF OrdersTyped
    <3> QED
      BY <3>1 DEF Idle, Sends
  <2>3. Len(orders) + lost + dividends <= MaxEvents
    <3>1. /\ Len(orders) \in Nat /\ Cardinality(Sending) \in Nat /\ lost \in Nat
          /\ dividends \in Nat /\ MaxEvents \in Nat
      BY <2>1, OrdersDomains, SendingIsFinite, TraderNodeAssumption DEF OrdersTyped
    <3> QED
      BY <2>1, <3>1 DEF Covered
  <2>4. \A t \in DOMAIN margins : margins[t] \in Nat
    BY <1>1, MarginsAre
  <2> QED
    BY <2>1, <2>2, <2>3, <2>4 DEF TypeOK, OrdersTyped, Ticketing
<1> QED
  BY <1>1, OrdersFitTogether, PTL

\* Unless a report was lost, an account has frozen the cost of the orders that were
\* sent and not answered, of each of them once, whatever order answers came in
\* (OrderSend, ost_New, RejectOrCancelNewOrder).
THEOREM FrozenIsUnanswered == Spec => []FrozenForUnanswered
<1>1. ASSUME OrdersInv PROVE FrozenForUnanswered
  <2>1. Costs = [k \in Keys |-> Equity(orders[k].price, orders[k].qty)]
    BY DEF Costs, Cost
  <2> QED
    BY <1>1, <2>1 DEF OrdersInv, Freezing, FrozenForUnanswered
<1> QED
  BY <1>1, OrdersFitTogether, PTL

\* Even with reports lost, an account has frozen at least what is unanswered.
FrozenCoversUnanswered ==
    \A a \in Accounts : SumFunctionOnSet(Costs, Held(a)) <= freeze[a]
THEOREM NeverFreesTooMuch == Spec => []FrozenCoversUnanswered
<1>1. ASSUME OrdersInv PROVE FrozenCoversUnanswered
  BY <1>1 DEF OrdersInv, Freezing, FrozenCoversUnanswered
<1> QED
  BY <1>1, OrdersFitTogether, PTL

\* A thread that finds cash for an order sends it for no more than it found: more is
\* frozen than there is only if something else took the cash in between (OrderSend()
\* holds no lock from its look at the cash to the freeze).
THEOREM OverspendingIsARace == Spec => OverspendsOnlyInARace
<1>1. ASSUME OrdersInv, NEW t \in Threads, OrderSend(t), NEW a, a = Account(t),
             cash[a] < freeze'[a]
      PROVE  cash[a] - freeze[a] # script[t].seen
  <2>1. OrdersTyped /\ Covered
    BY <1>1 DEF OrdersInv
  <2>2. /\ script[t].pc = "send" /\ t \in Sending
        /\ freeze' = [freeze EXCEPT ![Account(t)] = @ + Equity(script[t].price, script[t].qty)]
    BY <1>1 DEF OrderSend, Sending
  <2>3. PICK c : c = Equity(script[t].price, script[t].qty)
    OBVIOUS
  <2>4. /\ a \in Accounts /\ cash[a] \in Int /\ freeze[a] \in Int
        /\ freeze'[a] = freeze[a] + c
    BY <1>1, <2>1, <2>2, <2>3 DEF OrdersTyped, Account, Accounts
  <2>5. c <= script[t].seen
    BY <2>1, <2>2, <2>3 DEF Covered
  <2>6. c \in Int /\ script[t].seen \in Int
    <3>1. script[t] \in Sends
      BY <2>1, <2>2 DEF OrdersTyped, Idle
    <3>2. script[t].price \in Nat /\ script[t].qty \in Nat /\ script[t].seen \in Int
      BY <3>1, TraderNodeAssumption DEF Sends
    <3> QED
      BY <2>3, <3>2, EquityIsNat
  <2> QED
    BY <1>1, <2>4, <2>5, <2>6
<1>2. OrdersInv =>
        [\A t \in Threads :
            LET a == Account(t)
            IN  OrderSend(t) /\ cash[a] < freeze'[a]
                => cash[a] - freeze[a] # script[t].seen]_vars
  BY <1>1
<1> QED
  BY <1>2, OrdersFitTogether, PTL DEF OverspendsOnlyInARace

\* Of a node that buys first, a ticket is locked exactly while one order that closes it
\* is under way, unless a report was lost: OrderClose() locks a ticket that is in the
\* market, and it is unlocked, by the report that ends the order that closes it or by
\* its refusal, only then (OrderClose, FixAccount::ost_Filled, RejectOrCancelNewOrder).
THEOREM TicketsLockedWhileClosing ==
    ASSUME Sides \subseteq {"buy"} PROVE Spec => []LockedWhileClosing
<1>1. ASSUME OrdersInv, lost = 0, NEW o \in Keys,
             orders[o].closes = NoTicket, orders[o].ticket # NoTicket
      PROVE  Cardinality(Closing(orders[o].ticket))
                = IF orders[o].trading = "CLOSEING" THEN 1 ELSE 0
  <2>1. Locks /\ Ticketing
    BY <1>1 DEF OrdersInv, Locking
  <2>2. PICK t : t = orders[o].ticket
    OBVIOUS
  <2>3. t # NoTicket /\ ~Closes(o) /\ ticketOf[t] = o
    BY <1>1, <2>1, <2>2 DEF Ticketing, Closes
  <2>4. Closing(t) = {k \in Keys : orders[k].closes = t /\ Pending(k)}
    BY DEF Closing, Pending, Asked, Alive, Answered, About, Keys, Tickets
  <2>5. CASE orders[o].trading = "CLOSEING"
    <3>1. PICK k \in Keys : orders[k].closes = t /\ Pending(k)
      BY <2>1, <2>2, <2>3, <2>5 DEF Locks
    <3>2. \A j \in Keys : Pending(j) /\ orders[j].closes = t => j = k
      BY <2>1, <2>3, <3>1 DEF Locks, Closes
    <3>3. Closing(t) = {k}
      BY <2>4, <3>1, <3>2
    <3> QED
      BY <2>2, <2>5, <3>3, FS_Singleton
  <2>6. CASE orders[o].trading # "CLOSEING"
    <3>1. ASSUME NEW k \in Keys, orders[k].closes = t, Pending(k) PROVE FALSE
      BY <2>1, <2>3, <2>6, <3>1 DEF Locks, Closes, Closed
    <3>2. Closing(t) = {}
      BY <2>4, <3>1
    <3> QED
      BY <2>2, <2>6, <3>2, FS_EmptySet
  <2> QED
    BY <2>5, <2>6
<1>2. OrdersInv => LockedWhileClosing
  BY <1>1 DEF LockedWhileClosing, Keys
<1> QED
  BY <1>2, OrdersFitTogether, PTL

-----------------------------------------------------------------------------
(* What scripts scan: what has executed of an order can be closed. *)

LEMMA CountInit == Init => CountInv
<1> SUFFICES ASSUME Init PROVE CountInv
  OBVIOUS
<1>1. orders = << >> /\ toNode = << >> /\ book = << >>
  BY DEF Init
<1>2. DOMAIN << >> = {}
  <2>1. << >> \in Seq({}) /\ Len(<< >>) = 0
    BY EmptySeq
  <2> QED
    BY <2>1, SeqIsFunction
<1>3. Keys = {} /\ Tickets = {} /\ DOMAIN toNode = {}
  BY <1>1, <1>2 DEF Keys, Tickets
<1> QED
  BY <1>3 DEF CountInv, OverIsNotLive, Priced, Counting

\* Reports name orders, and numbers.
Numbered ==
    /\ \A t \in Tickets :
          /\ book[t].key \in Keys /\ book[t].closes = orders[book[t].key].closes
          /\ book[t].qty \in Nat /\ book[t].closes \in Nat
    /\ \A i \in DOMAIN toNode :
          toNode[i].kind \in {"new", "partial", "filled", "canceled"} =>
             /\ toNode[i].key \in Keys /\ toNode[i].closes = orders[toNode[i].key].closes
             /\ toNode[i].cum \in Nat /\ (toNode[i].kind = "new" => toNode[i].cum = 0)
    /\ \A k \in Keys : /\ orders[k].cumqty \in Nat /\ orders[k].openqty \in Int
                       /\ orders[k].qty \in Nat \ {0} /\ orders[k].closes \in Nat

LEMMA AllNumbered == OrdersInv => Numbered
<1> SUFFICES ASSUME OrdersInv PROVE Numbered
  OBVIOUS
<1>1. OrdersTyped /\ Booking /\ Answering
  BY DEF OrdersInv
<1>2. \A k \in Keys : orders[k] \in OrderRecord
  BY <1>1, OrdersDomains
<1>3. \A t \in Tickets : book[t] \in Entry
  BY <1>1, OrdersDomains
<1>4. \A i \in DOMAIN toNode :
         toNode[i].kind \in {"new", "partial", "filled", "canceled"} =>
            toNode[i] \in Reports /\ Reporting(toNode[i])
  BY <1>1, OrdersDomains, MessageIs DEF Answering, Sound
<1>5. \A k \in Keys : /\ orders[k].cumqty \in Nat /\ orders[k].openqty \in Int
                      /\ orders[k].qty \in Nat \ {0} /\ orders[k].closes \in Nat
  BY <1>2 DEF OrderRecord
<1>6. \A t \in Tickets : book[t].qty \in Nat /\ book[t].closes \in Nat
  BY <1>3 DEF Entry
<1>7. \A i \in DOMAIN toNode :
         toNode[i].kind \in {"new", "partial", "filled", "canceled"} =>
            /\ toNode[i].key \in Keys /\ toNode[i].closes = orders[toNode[i].key].closes
            /\ toNode[i].cum \in Nat /\ (toNode[i].kind = "new" => toNode[i].cum = 0)
  BY <1>1, <1>4 DEF Reporting, Booking, Reports
<1> QED
  BY <1>1, <1>5, <1>6, <1>7 DEF Booking, Numbered

\* An order that is sent has executed nothing yet, and closes one in the market.
LEMMA CountSent ==
    ASSUME OrdersInv, CountInv, NEW r, Sent(r), Registers(r), OrdersInv'
    PROVE  CountInv'
<1> DEFINE n == Len(orders) + 1
<1>1. /\ OrdersTyped /\ Ticketing /\ OverIsNotLive /\ Priced /\ Counting
  BY DEF OrdersInv, CountInv
<1>2. /\ Keys' = Keys \cup {n} /\ n \notin Keys /\ Tickets' = Tickets
      /\ \A k \in Keys' : k \in Keys \/ k = n
  <2>1. Len(orders) \in Nat /\ Keys = 1 .. Len(orders) /\ Keys' = 1 .. n
    BY <1>1, OrdersDomains DEF Sent, Keys
  <2>2. 1 .. n = (1 .. Len(orders)) \cup {n} /\ n \notin 1 .. Len(orders)
    BY <2>1
  <2> QED
    BY <2>1, <2>2 DEF Sent, Tickets
<1>3. /\ \A k \in Keys : Same(k)
      /\ orders'[n].ticket = NoTicket /\ orders'[n].trading = "PENDING"
      /\ orders'[n].closes = r.closes
      /\ ticketOf' = ticketOf /\ book' = book /\ toNode' = toNode
  BY DEF Sent
<1>4. /\ \A k \in Keys :
           /\ orders'[k].cumqty = orders[k].cumqty
           /\ orders'[k].openqty = orders[k].openqty
           /\ orders'[k].trading # orders[k].trading => orders[k].trading = "MARKET"
      /\ orders'[n].cumqty = 0 /\ orders'[n].openqty >= 0
      /\ IF r.closes = NoTicket THEN orders'[n].price # 0
         ELSE \E k \in Keys : orders[k].ticket = r.closes /\ orders[k].trading = "MARKET"
  BY DEF Registers
<1>5. Numbered /\ Numbered'
  BY AllNumbered, PTL
<1> HIDE DEF n
<1>6. /\ \A k \in Keys : (Closes(k)' <=> Closes(k)) /\ Closed(k)' = Closed(k)
      /\ \A k : Alive(k)' <=> Alive(k)
      /\ \A k \in Keys : Closes(k) => Closed(k) \in Keys
  <2>1. \A k \in Keys : Closes(k) => Closed(k) \in Keys
    BY <1>1, TicketsAre DEF Ticketing, Closes, Closed
  <2> QED
    BY <1>2, <1>3, <2>1 DEF Same, Closes, Closed, Alive
<1>7. OverIsNotLive'
  <2>1. ASSUME NEW k \in Keys'
        PROVE  /\ orders'[k].trading \in Over =>
                     ~Closes(k)' /\ orders'[k].ticket # NoTicket /\ ~Alive(k)'
               /\ Closes(k)' => ~Closes(Closed(k))' /\ ~Alive(Closed(k))'
    <3>1. CASE k \in Keys
      <4>1. orders'[k].ticket = orders[k].ticket
        BY <1>3, <3>1 DEF Same
      <4>2. orders'[k].trading \in Over => orders[k].trading \in Over
        BY <1>4, <3>1 DEF Over
      <4>3. Closes(k)' => Closes(k) /\ Closed(k) \in Keys /\ Closed(k)' = Closed(k)
        BY <1>6, <3>1
      <4>4. Closes(k)' => ~Closes(Closed(k)) /\ ~Alive(Closed(k))
        BY <1>1, <3>1, <4>3 DEF OverIsNotLive
      <4>5. ASSUME Closes(k)' PROVE ~Closes(Closed(k))' /\ ~Alive(Closed(k))'
        <5>1. PICK c \in Keys : c = Closed(k)
          BY <4>3, <4>5
        <5>2. ~Closes(c)' /\ ~Alive(c)' /\ c = Closed(k)'
          BY <1>6, <4>3, <4>4, <4>5, <5>1
        <5> QED
          BY <5>2 DEF Closes, Alive
      <4> QED
        BY <1>1, <1>6, <3>1, <4>1, <4>2, <4>5 DEF OverIsNotLive
    <3>2. CASE k = n
      <4>1. ASSUME Closes(k)' PROVE ~Closes(Closed(k))' /\ ~Alive(Closed(k))'
        <5>1. r.closes # NoTicket /\ Closed(k)' = ticketOf[r.closes]
          BY <1>3, <3>2, <4>1 DEF Closes, Closed
        <5>2. PICK c \in Keys : orders[c].ticket = r.closes /\ orders[c].trading = "MARKET"
          BY <1>4, <5>1
        <5>3. ticketOf[r.closes] = c
          BY <1>1, <5>1, <5>2 DEF Ticketing
        <5>4. ~Closes(c) /\ ~Alive(c)
          BY <1>1, <5>2 DEF OverIsNotLive, Over
        <5>5. ~Closes(c)' /\ ~Alive(c)' /\ c = Closed(k)'
          BY <1>6, <5>1, <5>3, <5>4
        <5> QED
          BY <5>5 DEF Closes, Alive
      <4> QED
        BY <1>3, <3>2, <4>1 DEF Over
    <3> QED
      BY <1>2, <3>1, <3>2
  <2> QED
    BY <2>1 DEF OverIsNotLive
<1>8. Priced'
  <2>1. ASSUME NEW k \in Keys', ~Closes(k)' PROVE orders'[k].price # 0
    <3>1. CASE k \in Keys
      BY <1>1, <1>3, <1>6, <2>1, <3>1 DEF Priced, Same
    <3>2. CASE k = n
      BY <1>3, <1>4, <2>1, <3>2 DEF Closes
    <3> QED
      BY <1>2, <3>1, <3>2
  <2> QED
    BY <2>1 DEF Priced
<1>9. Counting'
  <2>1. ASSUME NEW k \in Keys', ~Closes(k)'
        PROVE  orders'[k].cumqty <= orders'[k].openqty /\ orders'[k].cumqty <= orders'[k].qty
    <3>1. CASE k \in Keys
      BY <1>1, <1>3, <1>4, <1>6, <2>1, <3>1 DEF Counting, Same
    <3>2. CASE k = n
      BY <1>4, <1>5, <2>1, <3>2 DEF Numbered
    <3> QED
      BY <1>2, <3>1, <3>2
  <2>2. \A k \in Keys : orders'[k].qty = orders[k].qty
    BY <1>3 DEF Same
  <2>3. \A t \in Tickets : book[t].live /\ book[t].closes = NoTicket =>
           book[t].qty <= orders'[book[t].key].qty
    BY <1>1, <1>5, <2>2 DEF Counting, Numbered
  <2>4. \A i \in DOMAIN toNode :
           toNode[i].kind \in {"new", "partial", "filled"} /\ toNode[i].closes = NoTicket =>
              toNode[i].cum <= orders'[toNode[i].key].qty
    BY <1>1, <1>5, <2>2 DEF Counting, Numbered
  <2> QED
    BY <1>2, <1>3, <2>1, <2>3, <2>4 DEF Counting
<1> QED
  BY <1>7, <1>8, <1>9 DEF CountInv

\* An order executes at most what was ordered, and none that is in the market does.
LEMMA CountExchanged ==
    ASSUME OrdersInv, CountInv, NEW k, Exchanging(k), OrdersInv'
    PROVE  CountInv'
<1>0. Numbered /\ Numbered'
  BY AllNumbered, PTL
<1>1. /\ OrdersTyped /\ Ticketing /\ OverIsNotLive /\ Priced /\ Counting
  BY DEF OrdersInv, CountInv
<1>2. /\ orders' = orders /\ ticketOf' = ticketOf /\ Keys' = Keys
      /\ DOMAIN toNode \subseteq DOMAIN toNode'
      /\ \A i \in DOMAIN toNode : toNode'[i] = toNode[i]
      /\ Tickets' = DOMAIN book' /\ Tickets \subseteq Tickets'
      /\ \A t \in Tickets :
            /\ book'[t].key = book[t].key /\ book'[t].closes = book[t].closes
            /\ book'[t].live => book[t].live
      /\ \A t \in Tickets' \ Tickets : book'[t].key = k /\ book'[t].closes = orders[k].closes
  BY DEF Exchanging, Exchanged, Keys, Tickets
<1>3. Tickets' # Tickets => orders[k].ticket = NoTicket
  BY <1>2, TakenIsUnknown DEF Exchanging, Exchanged, Untouched
<1>4. /\ \A i \in DOMAIN toNode' \ DOMAIN toNode :
           toNode'[i].kind \in {"partial", "filled"} =>
              \E t \in Tickets : /\ book[t].live /\ book[t].key = toNode'[i].key
                                 /\ book[t].closes = toNode'[i].closes
                                 /\ toNode'[i].cum <= book[t].qty
      /\ \A t \in Tickets :
            book'[t].live => (book'[t].qty = book[t].qty \/ (k \in Keys /\ t = orders[k].closes))
      /\ \A t \in Tickets' \ Tickets : book'[t].live =>
            Closes(k) \/ book'[t].qty = orders[k].qty
  BY <1>2 DEF Exchanging, Charges
<1>5. \A j : Alive(j)' => Alive(j) \/ (j = k /\ orders[k].ticket = NoTicket)
  BY <1>2, <1>3 DEF Alive
<1>6. /\ \A j : (Closes(j)' <=> Closes(j)) /\ Closed(j)' = Closed(j)
      /\ \A j \in Keys : Closes(j) =>
            /\ Closed(j) \in Keys /\ orders[Closed(j)].ticket = orders[j].closes
            /\ orders[j].closes # NoTicket
  <2>1. \A j \in Keys : Closes(j) =>
            /\ Closed(j) \in Keys /\ orders[Closed(j)].ticket = orders[j].closes
            /\ orders[j].closes # NoTicket
    BY <1>1, TicketsAre DEF Ticketing, Closes, Closed
  <2> QED
    BY <1>2, <2>1 DEF Closes, Closed
<1>7. OverIsNotLive'
  <2>1. ASSUME NEW j \in Keys
        PROVE  /\ orders[j].trading \in Over =>
                     ~Closes(j) /\ orders[j].ticket # NoTicket /\ ~Alive(j)'
               /\ Closes(j) => ~Closes(Closed(j)) /\ \E c : c = Closed(j) /\ ~Alive(c)'
    BY <1>1, <1>5, <1>6 DEF OverIsNotLive
  <2>2. ASSUME NEW j \in Keys, Closes(j)
        PROVE  ~Closes(Closed(j))' /\ ~Alive(Closed(j))'
    <3>1. PICK c : c = Closed(j) /\ ~Alive(c)' /\ ~Closes(c)
      BY <2>1, <2>2
    <3>2. c = Closed(j)' /\ ~Alive(c)' /\ ~Closes(c)'
      BY <1>6, <3>1
    <3> QED
      BY <3>2 DEF Closes, Alive
  <2> QED
    BY <1>2, <1>6, <2>1, <2>2 DEF OverIsNotLive
<1>8. Priced'
  BY <1>1, <1>2, <1>6 DEF Priced
<1>9. Counting'
  <2>1. ASSUME NEW t \in Tickets', book'[t].live, book'[t].closes = NoTicket
        PROVE  book'[t].qty <= orders[book'[t].key].qty
    <3>1. CASE t \in Tickets
      <4>1. book[t].live /\ book[t].closes = NoTicket /\ book'[t].key = book[t].key
        BY <1>2, <2>1, <3>1
      <4>2. ~(k \in Keys /\ t = orders[k].closes)
        <5>1. ASSUME k \in Keys, t = orders[k].closes PROVE FALSE
          <6>1. NoTicket \notin Tickets
            BY <1>1, OrdersDomains
          <6>2. Closes(k)
            BY <3>1, <5>1, <6>1 DEF Closes
          <6>3. Closed(k) = book[t].key
            BY <1>1, <5>1, <6>2 DEF Ticketing, Closes, Closed
          <6>4. Alive(book[t].key)
            BY <3>1, <4>1 DEF Alive
          <6> QED
            BY <1>1, <5>1, <6>2, <6>3, <6>4 DEF OverIsNotLive
        <5> QED
          BY <5>1
      <4>3. book'[t].qty = book[t].qty
        BY <1>4, <2>1, <3>1, <4>2
      <4> QED
        BY <1>1, <3>1, <4>1, <4>3 DEF Counting
    <3>2. CASE t \notin Tickets
      <4>1. /\ t \in Tickets' \ Tickets /\ book'[t].key = k /\ orders[k].closes = NoTicket
        BY <1>2, <2>1, <3>2
      <4>2. book'[t].qty = orders[k].qty
        BY <1>4, <2>1, <4>1 DEF Closes
      <4>4. orders[k].qty \in Nat
        BY <1>0, <1>2, <4>1 DEF Numbered
      <4> QED
        BY <4>1, <4>2, <4>4
    <3> QED
      BY <3>1, <3>2
  <2>2. ASSUME NEW i \in DOMAIN toNode', toNode'[i].kind \in {"new", "partial", "filled"},
               toNode'[i].closes = NoTicket
        PROVE  toNode'[i].cum <= orders[toNode'[i].key].qty
    <3>1. CASE i \in DOMAIN toNode
      BY <1>1, <1>2, <2>2, <3>1 DEF Counting
    <3>2. CASE i \notin DOMAIN toNode /\ toNode'[i].kind \in {"partial", "filled"}
      <4>1. PICK t \in Tickets : /\ book[t].live /\ book[t].key = toNode'[i].key
                                 /\ book[t].closes = NoTicket /\ toNode'[i].cum <= book[t].qty
        BY <1>4, <2>2, <3>2
      <4>2. book[t].qty <= orders[toNode'[i].key].qty
        BY <1>1, <4>1 DEF Counting
      <4>3. book[t].qty \in Nat /\ orders[toNode'[i].key].qty \in Nat
        BY <1>0, <4>1 DEF Numbered
      <4>4. toNode'[i].cum \in Nat
        BY <1>0, <3>2 DEF Numbered
      <4> QED
        BY <4>1, <4>2, <4>3, <4>4
    <3>3. CASE toNode'[i].kind = "new"
      <4>1. toNode'[i].cum = 0 /\ toNode'[i].key \in Keys
        BY <1>0, <1>2, <3>3 DEF Numbered
      <4>2. orders[toNode'[i].key].qty \in Nat
        BY <1>0, <4>1 DEF Numbered
      <4> QED
        BY <4>1, <4>2
    <3> QED
      BY <2>2, <3>1, <3>2, <3>3
  <2> QED
    BY <1>1, <1>2, <1>6, <2>1, <2>2 DEF Counting
<1> QED
  BY <1>7, <1>8, <1>9 DEF CountInv

\* What a message does to what is counted.
Recounts ==
    \A k \in Keys :
        /\ ~Closes(k) => /\ orders'[k].cumqty <= orders'[k].openqty
                         /\ orders'[k].cumqty <= orders'[k].qty
        /\ orders[k].qty <= orders'[k].qty
        /\ orders'[k].trading \in Over /\ orders[k].trading \notin Over =>
              ~Closes(k) /\ ~Alive(k) /\ orders'[k].ticket # NoTicket

LEMMA CountHeard ==
    ASSUME OrdersInv, CountInv, NEW m, Hears(m), Recounts, OrdersInv'
    PROVE  CountInv'
<1>0. Numbered /\ Numbered'
  BY AllNumbered, PTL
<1>1. /\ OrdersTyped /\ Ticketing /\ OverIsNotLive /\ Priced /\ Counting
  BY DEF OrdersInv, CountInv
<1>2. /\ toNode # << >> /\ m = Head(toNode) /\ toNode' = Tail(toNode)
      /\ book' = book /\ Keys' = Keys /\ Tickets' = Tickets
  BY DEF Hears, Keys, Tickets
<1>3. /\ Sound(m) /\ m.kind # "exdr" => m.key \in Keys
      /\ m.kind \in ReportKinds => m.ticket \in Tickets /\ m.ticket # NoTicket
  BY <1>1, <1>2, FirstIs, OrdersDomains DEF Sound, Reporting, ReportKinds
<1>4. \A k \in Keys :
        /\ orders'[k].price = orders[k].price
        /\ orders'[k].closes = orders[k].closes
        /\ orders[k].ticket # NoTicket => orders'[k].ticket # NoTicket
  BY <1>3, FirstIs DEF Hears, Kept, ReportKinds
<1>5. \A t \in DOMAIN ticketOf : t \in DOMAIN ticketOf' /\ ticketOf'[t] = ticketOf[t]
  BY DEF Hears, Put
<1>6. /\ \A k \in Keys : (Closes(k)' <=> Closes(k))
      /\ \A k \in Keys : Closes(k) => Closed(k)' = Closed(k) /\ Closed(k) \in Keys
      /\ \A k : Alive(k)' <=> Alive(k)
  <2>1. \A k \in Keys : Closes(k) => orders[k].closes \in DOMAIN ticketOf /\ Closed(k) \in Keys
    BY <1>1, TicketsAre DEF Ticketing, Closes, Closed
  <2> QED
    BY <1>2, <1>4, <1>5, <2>1 DEF Closes, Closed, Alive
<1>7. OverIsNotLive'
  <2>1. ASSUME NEW k \in Keys, orders'[k].trading \in Over
        PROVE  ~Closes(k)' /\ orders'[k].ticket # NoTicket /\ ~Alive(k)'
    BY <1>1, <1>4, <1>6, <2>1 DEF OverIsNotLive, Recounts
  <2>2. ASSUME NEW k \in Keys, Closes(k)
        PROVE  ~Closes(Closed(k))' /\ ~Alive(Closed(k))'
    <3>1. PICK c \in Keys : c = Closed(k) /\ ~Alive(c) /\ ~Closes(c)
      BY <1>1, <1>6, <2>2 DEF OverIsNotLive
    <3>2. c = Closed(k)' /\ ~Alive(c)' /\ ~Closes(c)'
      BY <1>6, <2>2, <3>1
    <3> QED
      BY <3>2 DEF Closes, Alive
  <2> QED
    BY <1>2, <1>6, <2>1, <2>2 DEF OverIsNotLive
<1>8. Priced'
  BY <1>1, <1>2, <1>4, <1>6 DEF Priced
<1>9. Counting'
  <2>1. \A k \in Keys : ~Closes(k)' =>
          orders'[k].cumqty <= orders'[k].openqty /\ orders'[k].cumqty <= orders'[k].qty
    BY <1>6 DEF Recounts
  <2>2. \A k \in Keys : /\ orders[k].qty <= orders'[k].qty
                        /\ orders[k].qty \in Nat /\ orders'[k].qty \in Nat
    BY <1>0, <1>2 DEF Recounts, Numbered
  <2>3. \A t \in Tickets : book[t].live /\ book[t].closes = NoTicket =>
           book[t].qty <= orders'[book[t].key].qty
    <3>1. ASSUME NEW t \in Tickets, book[t].live, book[t].closes = NoTicket
          PROVE  book[t].qty <= orders'[book[t].key].qty
      <4>1. book[t].qty <= orders[book[t].key].qty
        BY <1>1, <3>1 DEF Counting
      <4>2. book[t].key \in Keys /\ book[t].qty \in Nat
        BY <1>0 DEF Numbered
      <4> QED
        BY <2>2, <4>1, <4>2
    <3> QED
      BY <3>1
  <2>4. ASSUME NEW i \in DOMAIN toNode', toNode'[i].kind \in {"new", "partial", "filled"},
               toNode'[i].closes = NoTicket
        PROVE  toNode'[i].cum <= orders'[toNode'[i].key].qty
    <3>1. PICK j \in DOMAIN toNode : toNode'[i] = toNode[j]
      BY <1>1, <1>2, RestIs
    <3>2. toNode[j].cum <= orders[toNode[j].key].qty
      BY <1>1, <2>4, <3>1 DEF Counting
    <3>3. toNode[j].key \in Keys /\ toNode[j].cum \in Nat
      BY <1>0, <2>4, <3>1 DEF Numbered
    <3> QED
      BY <2>2, <3>1, <3>2, <3>3
  <2> QED
    BY <1>2, <2>1, <2>3, <2>4 DEF Counting
<1> QED
  BY <1>7, <1>8, <1>9 DEF CountInv

\* What a report says of its order.
LEMMA ReportedIs ==
    ASSUME OrdersInv, NEW m \in Reports, m.key \in Keys, NEW q, q = Reported(m)
    PROVE  /\ q \in Seq(OrderRecord) /\ DOMAIN q = Keys
           /\ \A k \in Keys \ {m.key} : q[k] = orders[k]
           /\ q[m.key].qty = orders[m.key].qty /\ q[m.key].ticket = m.ticket
           /\ q[m.key].cumqty = m.cum
           /\ m.closes = NoTicket => q[m.key].openqty = orders[m.key].openqty + m.cum
           /\ q[m.key].trading = IF m.cum = 0 THEN "PENDING"
                                 ELSE IF m.leaves > 0 THEN "PARTIALLY_FILLED"
                                 ELSE IF m.closes = NoTicket THEN "MARKET" ELSE "FILLED"
<1>1. OrdersTyped
  BY DEF OrdersInv
<1>2. PICK o, y, x, z : /\ o = orders[m.key] /\ x = m.key
         /\ y = (IF m.closes = NoTicket THEN o.openqty + m.cum ELSE o.openqty - m.cum)
         /\ z = (IF m.cum = 0 THEN "PENDING"
                 ELSE IF m.leaves > 0 THEN "PARTIALLY_FILLED"
                 ELSE IF m.closes = NoTicket THEN "MARKET" ELSE "FILLED")
  OBVIOUS
<1>3. PICK e : e = [o EXCEPT !.ticket = m.ticket, !.cumqty = m.cum,
                             !.leaves = m.leaves, !.openqty = y, !.trading = z]
  OBVIOUS
<1>4. /\ o \in OrderRecord /\ orders \in Seq(OrderRecord)
      /\ Len(orders) \in Nat /\ Keys = 1 .. Len(orders) /\ x \in Keys
  BY <1>1, <1>2, OrdersDomains DEF OrdersTyped
<1>5. m.cum \in Nat /\ m.leaves \in Nat /\ m.ticket \in Nat
  BY DEF Reports
<1>6. /\ y \in Int
      /\ z \in {"PENDING", "PARTIALLY_FILLED", "MARKET", "CLOSEING", "FILLED",
                "CLOSED", "REJECT", "CANCEL"}
  <2>1. o.openqty \in Int
    BY <1>4 DEF OrderRecord
  <2> QED
    BY <1>2, <1>5, <2>1
<1>7. /\ e \in OrderRecord
      /\ e.qty = o.qty /\ e.ticket = m.ticket /\ e.cumqty = m.cum
      /\ e.openqty = y /\ e.trading = z
  BY <1>3, <1>4, <1>5, <1>6 DEF OrderRecord
<1>8. q = [orders EXCEPT ![x] = e]
  BY <1>2, <1>3 DEF Reported
<1>9. /\ q \in Seq(OrderRecord) /\ Len(q) = Len(orders) /\ q[x] = e
      /\ \A k \in 1 .. Len(orders) : k # x => q[k] = orders[k]
  BY <1>4, <1>7, <1>8, ExceptSeq
<1>10. DOMAIN q = Keys
  BY <1>4, <1>9, SeqIsFunction
<1> QED
  BY <1>2, <1>4, <1>7, <1>9, <1>10

LEMMA ReportRecounts ==
    ASSUME OrdersInv, CountInv, toNode # << >>,
           NEW m, m = Head(toNode), m.kind \in ReportKinds, ExecutionReport(m)
    PROVE  Recounts
<1>1. OrdersTyped /\ Booking /\ Ticketing /\ OverIsNotLive /\ Counting /\ Numbered
  BY AllNumbered DEF OrdersInv, CountInv
<1>2. /\ m \in Reports /\ Sound(m) /\ m.key \in Keys /\ m = toNode[1] /\ 1 \in DOMAIN toNode
  BY FirstIs DEF ReportKinds
<1>3. /\ m.ticket \in Tickets /\ m.ticket # NoTicket /\ m.closes = orders[m.key].closes
      /\ m.kind = "partial" => m.leaves > 0
      /\ m.kind = "filled" => ~Alive(m.key)
      /\ m.kind = "new" => m.cum = 0
  <2>1. Reporting(m)
    BY <1>2 DEF Sound
  <2> QED
    BY <1>1, <1>2, <2>1, OrdersDomains DEF Reporting, Booking, ReportKinds, Alive
<1>4. PICK q : q = Reported(m)
  OBVIOUS
<1>5. /\ q \in Seq(OrderRecord) /\ DOMAIN q = Keys
      /\ \A k \in Keys \ {m.key} : q[k] = orders[k]
      /\ q[m.key].qty = orders[m.key].qty /\ q[m.key].ticket = m.ticket
      /\ q[m.key].cumqty = m.cum
      /\ m.closes = NoTicket => q[m.key].openqty = orders[m.key].openqty + m.cum
      /\ q[m.key].trading = IF m.cum = 0 THEN "PENDING"
                            ELSE IF m.leaves > 0 THEN "PARTIALLY_FILLED"
                            ELSE IF m.closes = NoTicket THEN "MARKET" ELSE "FILLED"
  BY <1>2, <1>4, ReportedIs
<1>6. m.cum \in Nat /\ m.leaves \in Nat
  BY <1>2 DEF Reports
<1>7. ASSUME NEW k \in Keys
      PROVE  /\ ~Closes(k) => q[k].cumqty <= q[k].openqty /\ q[k].cumqty <= q[k].qty
             /\ orders[k].qty <= q[k].qty
             /\ q[k].trading \in Over /\ orders[k].trading \notin Over =>
                   ~Closes(k) /\ ~Alive(k) /\ q[k].ticket # NoTicket
             /\ orders[k].ticket # NoTicket => q[k].ticket # NoTicket
  <2>0. orders[k].qty \in Nat /\ orders[k].cumqty \in Nat /\ orders[k].openqty \in Int
    BY <1>1 DEF Numbered
  <2>1. CASE k # m.key
    BY <1>1, <1>5, <2>0, <2>1 DEF Counting
  <2>2. CASE k = m.key
    <3>1. ASSUME ~Closes(k) PROVE q[k].cumqty <= q[k].openqty /\ q[k].cumqty <= q[k].qty
      <4>1. m.closes = NoTicket
        BY <1>3, <2>2, <3>1 DEF Closes
      <4>2. m.cum <= orders[k].qty
        BY <1>1, <1>2, <2>2, <4>1 DEF Counting, ReportKinds
      <4>3. orders[k].cumqty <= orders[k].openqty
        BY <1>1, <3>1 DEF Counting
      <4> QED
        BY <1>5, <1>6, <2>0, <2>2, <4>1, <4>2, <4>3
    <3>2. q[k].trading \in Over => m.kind = "filled" /\ m.closes = NoTicket
      BY <1>3, <1>5, <1>6, <2>2 DEF Over, ReportKinds
    <3> QED
      BY <1>3, <1>5, <2>0, <2>2, <3>1, <3>2 DEF Closes
  <2> QED
    BY <2>1, <2>2
<1>8. /\ ticketOf' = IF m.ticket \in DOMAIN ticketOf THEN ticketOf
                     ELSE Put(ticketOf, m.ticket, m.key)
      /\ orders' = IF m.closes \in DOMAIN ticketOf' /\ m.cum > 0 /\ m.leaves = 0
                   THEN [q EXCEPT ![ticketOf'[m.closes]].trading = "CLOSED"]
                   ELSE q
  BY <1>4 DEF ExecutionReport
<1>9. CASE m.closes \in DOMAIN ticketOf' /\ m.cum > 0 /\ m.leaves = 0
  <2>1. m.closes # NoTicket
    <3>1. NoTicket \notin DOMAIN ticketOf'
      BY <1>1, <1>3, <1>8, OrdersDomains DEF Ticketing, Put
    <3> QED
      BY <1>9, <3>1
  <2>2. Closes(m.key) /\ m.closes \in DOMAIN ticketOf
    BY <1>1, <1>2, <1>3, <2>1 DEF Closes, Ticketing
  <2>3. PICK x : x = Closed(m.key)
    OBVIOUS
  <2>4. /\ x \in Keys /\ x = ticketOf'[m.closes] /\ orders[x].ticket # NoTicket
        /\ ~Closes(x) /\ ~Alive(x)
    <3>1. x = ticketOf[m.closes] /\ x \in Keys /\ orders[x].ticket # NoTicket
      BY <1>3, <2>2, <2>3, TicketsAre DEF Closed
    <3>2. ~Closes(x) /\ ~Alive(x)
      BY <1>1, <1>2, <2>2, <2>3 DEF OverIsNotLive
    <3> QED
      BY <1>8, <2>2, <3>1, <3>2 DEF Put
  <2>5. PICK r : r = orders' /\ r = [q EXCEPT ![x].trading = "CLOSED"]
    BY <1>8, <1>9, <2>4
  <2>6. Marks(r, q, x, "CLOSED")
    <3>1. "CLOSED" \in Statuses
      BY DEF Statuses
    <3> QED
      BY <1>5, <2>4, <2>5, <3>1, MarkedIs
  <2>7. ASSUME NEW k \in Keys
        PROVE  /\ r[k].cumqty = q[k].cumqty /\ r[k].openqty = q[k].openqty
               /\ r[k].qty = q[k].qty /\ r[k].ticket = q[k].ticket
               /\ k # x => r[k].trading = q[k].trading
    BY <2>6 DEF Marks
  <2> QED
    BY <1>7, <2>4, <2>5, <2>7 DEF Recounts
<1>10. CASE ~(m.closes \in DOMAIN ticketOf' /\ m.cum > 0 /\ m.leaves = 0)
  <2>1. orders' = q
    BY <1>8, <1>10
  <2> QED
    BY <1>7, <2>1 DEF Recounts
<1> QED
  BY <1>9, <1>10

LEMMA FailureRecounts ==
    ASSUME OrdersInv, CountInv, NEW k \in Keys, NEW ticket, NEW closes,
           NEW status \in {"CANCEL", "REJECT"},
           RejectOrCancelNewOrder(k, ticket, closes, status),
           closes \in DOMAIN ticketOf => closes = orders[k].closes
    PROVE  Recounts
<1>1. OrdersTyped /\ Ticketing /\ OverIsNotLive /\ Counting /\ Numbered
  BY AllNumbered DEF OrdersInv, CountInv
<1>2. PICK q : q = [orders EXCEPT ![k].trading = status]
  OBVIOUS
<1>3. Marks(q, orders, k, status)
  <2>1. orders \in Seq(OrderRecord) /\ DOMAIN orders = Keys /\ status \in Statuses
    BY <1>1 DEF OrdersTyped, Keys, Statuses
  <2> QED
    BY <1>2, <2>1, MarkedIs
<1>4. orders' = IF closes \in DOMAIN ticketOf
                THEN [q EXCEPT ![ticketOf[closes]].trading = "MARKET"] ELSE q
  BY <1>2 DEF RejectOrCancelNewOrder, Failed
<1>5. ASSUME NEW j \in Keys
      PROVE  /\ ~Closes(j) => q[j].cumqty <= q[j].openqty /\ q[j].cumqty <= q[j].qty
             /\ orders[j].qty <= q[j].qty
             /\ q[j].trading \in Over => orders[j].trading \in Over
             /\ q[j].ticket = orders[j].ticket
  <2>1. /\ q[j].cumqty = orders[j].cumqty /\ q[j].openqty = orders[j].openqty
        /\ q[j].qty = orders[j].qty /\ q[j].ticket = orders[j].ticket
        /\ q[j].trading \in Over => orders[j].trading \in Over
    BY <1>3 DEF Marks, Over
  <2>2. orders[j].qty \in Nat
    BY <1>1 DEF Numbered
  <2> QED
    BY <1>1, <2>1, <2>2 DEF Counting
<1>6. CASE closes \in DOMAIN ticketOf
  <2>1. Closes(k) /\ closes = orders[k].closes
    BY <1>6, TicketsAre DEF Closes
  <2>2. PICK x : x = Closed(k)
    OBVIOUS
  <2>3. /\ x \in Keys /\ x = ticketOf[closes] /\ orders[x].ticket # NoTicket
        /\ ~Closes(x) /\ ~Alive(x)
    BY <1>1, <1>6, <2>1, <2>2, TicketsAre DEF Closed, OverIsNotLive
  <2>4. PICK r : r = orders' /\ r = [q EXCEPT ![x].trading = "MARKET"]
    BY <1>4, <1>6, <2>3
  <2>5. Marks(r, q, x, "MARKET")
    <3>1. "MARKET" \in Statuses /\ q \in Seq(OrderRecord) /\ DOMAIN q = Keys
      BY <1>3 DEF Statuses, Marks
    <3> QED
      BY <2>3, <2>4, <3>1, MarkedIs
  <2>6. ASSUME NEW j \in Keys
        PROVE  /\ r[j].cumqty = q[j].cumqty /\ r[j].openqty = q[j].openqty
               /\ r[j].qty = q[j].qty /\ r[j].ticket = q[j].ticket
               /\ j # x => r[j].trading = q[j].trading
    BY <2>5 DEF Marks
  <2> QED
    BY <1>5, <2>3, <2>4, <2>6 DEF Recounts
<1>7. CASE closes \notin DOMAIN ticketOf
  <2>1. orders' = q
    BY <1>4, <1>7
  <2> QED
    BY <1>5, <2>1 DEF Recounts
<1> QED
  BY <1>6, <1>7

LEMMA DividendRecounts ==
    ASSUME OrdersInv, CountInv, NEW m \in Exdrs, QuoteStatusReport(m)
    PROVE  Recounts
<1>1. OrdersTyped /\ Counting /\ Numbered
  BY AllNumbered DEF OrdersInv, CountInv
<1>2. PICK paid : orders' = [key \in Keys |->
                      IF key \in paid
                      THEN [orders[key] EXCEPT !.qty = orders[key].qty * (1 + m.split),
                                               !.openqty = orders[key].qty * (1 + m.split)]
                      ELSE orders[key]]
  BY DEF QuoteStatusReport
<1>3. ASSUME NEW k \in Keys
      PROVE  /\ ~Closes(k) => /\ orders'[k].cumqty <= orders'[k].openqty
                              /\ orders'[k].cumqty <= orders'[k].qty
             /\ orders[k].qty <= orders'[k].qty
             /\ orders'[k].trading = orders[k].trading
  <2>1. orders[k] \in OrderRecord
    BY <1>1, OrdersDomains
  <2>2. PICK x \in Nat, c \in Nat : x = orders[k].qty /\ c = orders[k].cumqty
    BY <1>1 DEF Numbered
  <2>3. ~Closes(k) => c <= orders[k].openqty /\ c <= x
    BY <1>1, <2>2 DEF Counting
  <2>4. CASE k \in paid
    <3>1. PICK y : y = x * (1 + m.split)
      OBVIOUS
    <3>2. y \in Int /\ x <= y
      <4>1. PICK z \in Nat : z = m.split
        BY DEF Exdrs
      <4>2. x * z \in Nat
        OBVIOUS
      <4>3. x * (1 + z) = x + x * z
        OBVIOUS
      <4> QED
        BY <3>1, <4>1, <4>2, <4>3
    <3>3. PICK o, e : o = orders[k] /\ e = [o EXCEPT !.qty = y, !.openqty = y]
      OBVIOUS
    <3>4. e.qty = y /\ e.openqty = y /\ e.cumqty = o.cumqty /\ e.trading = o.trading
      BY <2>1, <3>3 DEF OrderRecord
    <3>5. orders'[k] = e
      BY <1>2, <2>2, <2>4, <3>1, <3>3
    <3>6. /\ orders'[k].qty = y /\ orders'[k].openqty = y
          /\ orders'[k].cumqty = c /\ orders'[k].trading = orders[k].trading
      BY <2>2, <3>3, <3>4, <3>5
    <3> QED
      BY <2>2, <2>3, <3>2, <3>6
  <2>5. CASE k \notin paid
    <3>1. orders'[k] = orders[k]
      BY <1>2, <2>5
    <3> QED
      BY <2>2, <2>3, <3>1
  <2> QED
    BY <2>4, <2>5
<1> QED
  BY <1>3 DEF Recounts

LEMMA FromAppCounts == ASSUME OrdersInv, CountInv, FromApp PROVE CountInv'
<1>1. PICK m : m = Head(toNode)
  OBVIOUS
<1>2. /\ toNode # << >> /\ toNode' = Tail(toNode) /\ m = Head(toNode)
      /\ UNCHANGED <<mode, script, toExchange, book, credit, lost, dividends>>
  BY <1>1 DEF FromApp
<1>3. \/ m.kind \in ReportKinds /\ ExecutionReport(m)
      \/ /\ m.kind = "canceled"
         /\ RejectOrCancelNewOrder(m.key, m.ticket, m.closes, "CANCEL")
      \/ m.kind = "reject" /\ OrderCancelReject(m)
      \/ m.kind = "exdr" /\ QuoteStatusReport(m)
  BY <1>1 DEF FromApp, ReportKinds
<1>4. /\ Sound(m) /\ (m.kind # "exdr" => m.key \in Keys) /\ (m.kind = "exdr" => m \in Exdrs)
      /\ Booking /\ Ticketing
  BY <1>2, FirstIs DEF OrdersInv
<1>5. CASE m.kind \in ReportKinds /\ ExecutionReport(m)
  <2>1. Recounts
    BY <1>2, <1>5, ReportRecounts
  <2>2. OrdersInv' /\ Hears(m)
    BY <1>2, <1>5, ExecutionReportKeeps DEF Took
  <2> QED
    BY <2>1, <2>2, CountHeard
<1>6. CASE /\ m.kind = "canceled"
           /\ RejectOrCancelNewOrder(m.key, m.ticket, m.closes, "CANCEL")
  <2>1. m.closes = orders[m.key].closes
    BY <1>4, <1>6 DEF Sound, Reporting, Booking
  <2>2. Recounts
    <3>1. "CANCEL" \in {"CANCEL", "REJECT"} /\ m.key \in Keys
      BY <1>4, <1>6
    <3> QED
      BY <1>6, <2>1, <3>1, FailureRecounts
  <2>3. OrdersInv' /\ Hears(m)
    BY <1>2, <1>6, CanceledKeeps DEF Took
  <2> QED
    BY <2>2, <2>3, CountHeard
<1>7. CASE m.kind = "reject" /\ OrderCancelReject(m)
  <2>1. PICK ticket, closes :
          /\ RejectOrCancelNewOrder(m.key, ticket, closes, "REJECT")
          /\ closes \in {m.ticket, NoTicket}
    BY <1>7 DEF OrderCancelReject
  <2>2. closes \in DOMAIN ticketOf => closes = orders[m.key].closes
    <3>1. Rejecting(m) /\ m.key \in Keys
      BY <1>4, <1>7 DEF Sound
    <3> QED
      BY <1>4, <1>7, <2>1, <3>1, TicketsAre DEF Rejecting, Ticketing
  <2>3. Recounts
    <3>1. "REJECT" \in {"CANCEL", "REJECT"} /\ m.key \in Keys
      BY <1>4, <1>7
    <3> QED
      BY <2>1, <2>2, <3>1, FailureRecounts
  <2>4. OrdersInv' /\ Hears(m)
    BY <1>2, <1>7, OrderCancelRejectKeeps DEF Took
  <2> QED
    BY <2>3, <2>4, CountHeard
<1>8. CASE m.kind = "exdr" /\ QuoteStatusReport(m)
  <2>1. Recounts
    BY <1>4, <1>8, DividendRecounts
  <2>2. OrdersInv' /\ Hears(m)
    BY <1>2, <1>8, QuoteStatusReportKeeps DEF Took
  <2> QED
    BY <2>1, <2>2, CountHeard
<1> QED
  BY <1>3, <1>5, <1>6, <1>7, <1>8

LEMMA CountNext == OrdersInv /\ CountInv /\ [Next]_vars => CountInv'
<1> SUFFICES ASSUME OrdersInv, CountInv, [Next]_vars PROVE CountInv'
  OBVIOUS
<1>0. OrdersInv'
  BY OrdersNext
<1>1. ASSUME UNCHANGED <<orders, ticketOf, book, toNode>> PROVE CountInv'
  <2>1. Keys' = Keys /\ Tickets' = Tickets
    BY <1>1 DEF Keys, Tickets
  <2>2. \A k : (Closes(k)' <=> Closes(k)) /\ Closed(k)' = Closed(k) /\ (Alive(k)' <=> Alive(k))
    BY <1>1, <2>1 DEF Closes, Closed, Alive
  <2>3. \A k : (Closes(Closed(k))' <=> Closes(Closed(k))) /\ (Alive(Closed(k))' <=> Alive(Closed(k)))
    BY <1>1, <2>1 DEF Closes, Closed, Alive
  <2> QED
    BY <1>1, <2>1, <2>2, <2>3 DEF CountInv, OverIsNotLive, Priced, Counting
<1>2. CASE Script
  <2>1. ASSUME NEW t \in Threads, NEW side \in Sides, NEW p \in Prices,
               NEW q \in Quantities, OrderSendTest(t, side, p, q)
        PROVE  CountInv'
    BY <1>1, <2>1 DEF OrderSendTest, node, exchange
  <2>2. ASSUME NEW t \in Threads, OrderSend(t) PROVE CountInv'
    BY <1>0, <2>2, OrderSendKeeps, CountSent
  <2>3. ASSUME NEW key \in Keys, NEW lots \in 1 .. orders[key].qty, OrderClose(key, lots)
        PROVE  CountInv'
    BY <1>0, <2>3, OrderCloseKeeps, CountSent
  <2> QED
    BY <1>2, <2>1, <2>2, <2>3 DEF Script
<1>3. CASE Lob
  BY <1>0, <1>3, LobKeeps, CountExchanged
<1>4. CASE Feed
  <2>1. ASSUME NEW t \in Tickets, NEW p \in Prices, NEW q \in 1 .. book[t].leaves,
               Execute(t, p, q)
        PROVE  CountInv'
    BY <1>0, <2>1, ExecuteKeeps, CountExchanged
  <2>2. ASSUME NEW t \in Tickets, Cancel(t) PROVE CountInv'
    BY <1>0, <2>2, CancelKeeps, CountExchanged
  <2>3. ASSUME NEW amount \in Dividends, NEW split \in Splits, AddExdrCash(amount, split)
        PROVE  CountInv'
    BY <1>0, <2>3, AddExdrCashKeeps, CountExchanged
  <2> QED
    BY <1>4, <2>1, <2>2, <2>3 DEF Feed
<1>5. CASE FromApp
  BY <1>5, FromAppCounts
<1>6. CASE UNCHANGED vars
  BY <1>1, <1>6 DEF vars
<1> QED
  BY <1>2, <1>3, <1>4, <1>5, <1>6 DEF Next

\* What has executed of an order can be closed, and an order in the market has its
\* ticket and executes no more, whatever requests and reports cross or are lost.
THEOREM ExecutedCanBeClosed == Spec => []CountInv
<1>1. OrdersInv /\ CountInv /\ [Next]_vars => CountInv'
  BY CountNext
<1> QED
  BY <1>1, CountInit, OrdersFitTogether, PTL DEF Spec

\* The statuses that a script counts as open, and those of the history.
LEMMA EachIsCounted ==
    ASSUME OrdersInv, NEW t
    PROVE  OrdersTotal(t) + OrdersHistoryTotal(t) = Cardinality(Own(t))
<1>1. PICK A, B : /\ A = With(t, {"PENDING", "PARTIALLY_FILLED", "MARKET", "CLOSEING"})
                  /\ B = With(t, {"FILLED", "CLOSED", "REJECT", "CANCEL"})
  OBVIOUS
<1>2. A \cup B = Own(t) /\ A \cap B = {}
  <2>1. ASSUME NEW k \in Keys PROVE orders[k].trading \in Statuses
    <3>1. orders[k] \in OrderRecord
      BY OrdersDomains DEF OrdersInv
    <3> QED
      BY <3>1 DEF OrderRecord, Statuses
  <2> QED
    BY <1>1, <2>1 DEF With, Own, Statuses
<1>3. IsFiniteSet(A) /\ IsFiniteSet(B)
  <2>1. IsFiniteSet(Keys)
    BY OrdersDomains, FS_Interval DEF OrdersInv
  <2>2. A \in SUBSET Keys /\ B \in SUBSET Keys
    BY <1>1 DEF With, Own
  <2> QED
    BY <2>1, <2>2, FS_Subset
<1>4. Cardinality(A \cup B) = Cardinality(A) + Cardinality(B)
  <2>1. Cardinality(A \cup B) = Cardinality(A) + Cardinality(B) - Cardinality(A \cap B)
    BY <1>3, FS_Union
  <2>2. Cardinality(A \cap B) = 0
    BY <1>2, FS_EmptySet
  <2>3. Cardinality(A) \in Nat /\ Cardinality(B) \in Nat
    BY <1>3, FS_CardinalityType
  <2> QED
    BY <2>1, <2>2, <2>3
<1> QED
  BY <1>1, <1>2, <1>4 DEF OrdersTotal, OrdersHistoryTotal

\* At a position is the order of that place in the list, or none.
LEMMA PositionIs ==
    ASSUME OrdersInv, NEW t
    PROVE  /\ \A k \in Listed(t) :
                 /\ Cardinality(Lower(Listed(t), k)) \in 0 .. OrdersTotal(t) - 1
                 /\ OrderTicket(t, Cardinality(Lower(Listed(t), k))) = orders[k].ticket
           /\ \A pos : \/ OrderTicket(t, pos) = NoTicket
                       \/ \E k \in Listed(t) :
                             /\ pos = Cardinality(Lower(Listed(t), k))
                             /\ OrderTicket(t, pos) = orders[k].ticket
<1>1. PICK S, A : S = Listed(t) /\ A = With(t, {"PENDING", "PARTIALLY_FILLED", "MARKET", "CLOSEING"})
  OBVIOUS
<1>2. /\ IsFiniteSet(S) /\ IsFiniteSet(A) /\ S \subseteq Int
      /\ Cardinality(S) <= Cardinality(A) /\ Cardinality(A) = OrdersTotal(t)
      /\ Cardinality(S) \in Nat /\ Cardinality(A) \in Nat
  <2>1. IsFiniteSet(Keys) /\ Keys \subseteq Int
    BY OrdersDomains, FS_Interval DEF OrdersInv
  <2>2. A \in SUBSET Keys /\ S \in SUBSET A
    BY <1>1 DEF Listed, With, Own
  <2>3. IsFiniteSet(A)
    BY <2>1, <2>2, FS_Subset
  <2>4. IsFiniteSet(S) /\ Cardinality(S) <= Cardinality(A)
    BY <2>2, <2>3, FS_Subset
  <2> QED
    BY <1>1, <2>1, <2>2, <2>3, <2>4, FS_CardinalityType DEF OrdersTotal
<1>3. \A x, y \in S : Cardinality(Lower(S, x)) = Cardinality(Lower(S, y)) => x = y
  BY <1>2, RanksDiffer
<1>4. \A pos : OrderTicket(t, pos) =
                  LET at == {k \in S : Cardinality(Lower(S, k)) = pos}
                  IN  IF at = {} THEN NoTicket ELSE orders[CHOOSE k \in at : TRUE].ticket
  BY <1>1 DEF OrderTicket, Lower
<1>5. ASSUME NEW k \in S
      PROVE  /\ Cardinality(Lower(S, k)) \in 0 .. OrdersTotal(t) - 1
             /\ OrderTicket(t, Cardinality(Lower(S, k))) = orders[k].ticket
  <2>1. Cardinality(Lower(S, k)) \in 0 .. Cardinality(S) - 1
    BY <1>2, Ranks
  <2>2. PICK pos : pos = Cardinality(Lower(S, k))
    OBVIOUS
  <2>3. {x \in S : Cardinality(Lower(S, x)) = pos} = {k}
    BY <1>3, <2>2
  <2>4. OrderTicket(t, pos) = orders[k].ticket
    BY <1>4, <2>3
  <2>5. pos \in 0 .. OrdersTotal(t) - 1
    BY <1>2, <2>1, <2>2
  <2> QED
    BY <2>2, <2>4, <2>5
<1>6. ASSUME NEW pos, OrderTicket(t, pos) # NoTicket
      PROVE  \E k \in S : /\ pos = Cardinality(Lower(S, k))
                          /\ OrderTicket(t, pos) = orders[k].ticket
  <2>1. PICK at : at = {k \in S : Cardinality(Lower(S, k)) = pos}
    OBVIOUS
  <2>2. at # {} /\ OrderTicket(t, pos) = orders[CHOOSE k \in at : TRUE].ticket
    BY <1>4, <1>6, <2>1
  <2>3. PICK k : k = CHOOSE j \in at : TRUE
    OBVIOUS
  <2>4. k \in at
    BY <2>2, <2>3
  <2> QED
    BY <2>1, <2>2, <2>3, <2>4
<1> QED
  BY <1>1, <1>5, <1>6

\* A script that asks for the positions 0 .. OrdersTotal() - 1 gets each ticket once.
LEMMA EachIsFound ==
    ASSUME OrdersInv, NEW t
    PROVE  /\ {OrderTicket(t, pos) : pos \in 0 .. OrdersTotal(t) - 1} \ {NoTicket}
                = {orders[k].ticket : k \in Listed(t)} \ {NoTicket}
           /\ \A m, n \in 0 .. OrdersTotal(t) - 1 :
                 m # n /\ OrderTicket(t, m) = OrderTicket(t, n)
                 => OrderTicket(t, m) = NoTicket
<1>1. \A x, y \in Listed(t) :
          orders[x].ticket = orders[y].ticket /\ orders[x].ticket # NoTicket => x = y
  BY DEF OrdersInv, Ticketing, Listed, With, Own
<1>2. PICK rank : rank = [k \in Listed(t) |-> Cardinality(Lower(Listed(t), k))]
  OBVIOUS
<1>3. /\ \A k \in Listed(t) : /\ rank[k] \in 0 .. OrdersTotal(t) - 1
                              /\ OrderTicket(t, rank[k]) = orders[k].ticket
      /\ \A pos : \/ OrderTicket(t, pos) = NoTicket
                  \/ \E k \in Listed(t) : /\ pos = rank[k]
                                          /\ OrderTicket(t, pos) = orders[k].ticket
  BY <1>2, PositionIs
<1>4. {OrderTicket(t, pos) : pos \in 0 .. OrdersTotal(t) - 1} \ {NoTicket}
         \subseteq {orders[k].ticket : k \in Listed(t)} \ {NoTicket}
  BY <1>3
<1>5. {orders[k].ticket : k \in Listed(t)} \ {NoTicket}
         \subseteq {OrderTicket(t, pos) : pos \in 0 .. OrdersTotal(t) - 1} \ {NoTicket}
  BY <1>3
<1>6. ASSUME NEW m, NEW n, m # n, OrderTicket(t, m) = OrderTicket(t, n),
             OrderTicket(t, m) # NoTicket
      PROVE  FALSE
  <2>1. PICK x \in Listed(t) : m = rank[x] /\ OrderTicket(t, m) = orders[x].ticket
    BY <1>3, <1>6
  <2>2. PICK y \in Listed(t) : n = rank[y] /\ OrderTicket(t, n) = orders[y].ticket
    BY <1>3, <1>6
  <2>3. x = y
    BY <1>1, <1>6, <2>1, <2>2
  <2> QED
    BY <1>6, <2>1, <2>2, <2>3
<1> QED
  BY <1>4, <1>5, <1>6

\* A script that asks for the positions 0 .. OrdersTotal() - 1 gets every ticket that
\* is open and not being closed, each once; a ticket in the market has at least the
\* lots that were executed, and each order is open or over (OrdersTotal,
\* OrdersHistoryTotal, OrderSelect, OrderLots).
THEOREM EveryTicketIsScanned == Spec => []ScansOrders
<1>1. ASSUME OrdersInv, CountInv, NEW t, NEW key \in With(t, {"MARKET"})
      PROVE  OrderLots(t, orders[key].ticket) >= orders[key].cumqty
  <2>1. key \in Own(t) /\ key \in Keys /\ orders[key].trading = "MARKET"
    BY DEF With, Own
  <2>2. ~Closes(key) /\ orders[key].ticket # NoTicket
    BY <1>1, <2>1 DEF CountInv, OverIsNotLive, Over
  <2>3. \A k \in Own(t) : orders[k].ticket = orders[key].ticket => k = key
    BY <1>1, <2>1, <2>2 DEF OrdersInv, Ticketing, Own
  <2>4. PICK with : with = {k \in Own(t) : orders[k].ticket = orders[key].ticket}
    OBVIOUS
  <2>5. with = {key} /\ key \in Int
    BY <1>1, <2>1, <2>3, <2>4, OrdersDomains DEF OrdersInv
  <2>6. Min(with) = key
    <3>1. Min(with) \in with
      BY <2>5 DEF Min
    <3> QED
      BY <2>5, <3>1
  <2>7. OrderLots(t, orders[key].ticket) = orders[key].openqty
    BY <2>4, <2>5, <2>6 DEF OrderLots
  <2>8. orders[key].cumqty <= orders[key].openqty
    BY <1>1, <2>1, <2>2 DEF CountInv, Counting
  <2>9. orders[key].cumqty \in Int /\ orders[key].openqty \in Int
    BY <1>1, <2>1, AllNumbered DEF Numbered
  <2> QED
    BY <2>7, <2>8, <2>9
<1>2. OrdersInv /\ CountInv => ScansOrders
  BY <1>1, EachIsCounted, EachIsFound DEF ScansOrders
<1> QED
  BY <1>2, OrdersFitTogether, ExecutedCanBeClosed, PTL

\* A thread never finds more to spend than its account holds; with positions, the
\* profits recorded of threads with one open ticket each are all the cash and all the
\* margins (AccountEquity, AccountBalance, AccountMargin, UpdateQuantProfit).
THEOREM AccountIsRead == Spec => []ReadsAccount
<1>1. ASSUME OrdersInv, NEW t \in Threads, AccountBalance(t) >= 0
      PROVE  AccountEquity(t) <= AccountBalance(t)
  <2>1. PICK a : a = Account(t)
    OBVIOUS
  <2>2. a \in Accounts /\ cash[a] \in Int /\ freeze[a] \in Int
    BY <1>1, <2>1 DEF OrdersInv, OrdersTyped, Account, Accounts
  <2>3. PICK held : held = SumFunctionOnSet(Costs, Held(a))
    OBVIOUS
  <2>4. held \in Nat
    <3>1. IsFiniteSet(Held(a)) /\ Held(a) \subseteq Keys
      BY <1>1, HeldIs DEF OrdersInv
    <3>2. \A k \in Held(a) : Costs[k] \in Nat
      BY <1>1, <3>1, CostsTyped DEF OrdersInv
    <3> QED
      BY <2>3, <3>1, <3>2, SumNat
  <2>5. held <= freeze[a]
    BY <1>1, <2>2, <2>3 DEF OrdersInv, Freezing
  <2>6. freeze[a] >= 0
    BY <2>2, <2>4, <2>5
  <2> QED
    BY <1>1, <2>1, <2>2, <2>6 DEF AccountEquity, AccountBalance
<1>2. ASSUME OrdersInv, mode.split,
             \A m, n \in DOMAIN margins :
                orders[book[m].key].thread = orders[book[n].key].thread => m = n
      PROVE  SumFunctionOnSet([t \in Threads |-> QuantProfit(t)], Threads)
                = SumFunctionOnSet([t \in Threads |-> AccountBalance(t)], Threads)
                    + AccountMargin
  <2>1. OrdersTyped /\ Booking /\ Ticketing /\ IsFiniteSet(Threads)
    BY <1>2, TraderNodeAssumption DEF OrdersInv
  <2>2. PICK D : D = DOMAIN margins
    OBVIOUS
  <2>3. /\ D \subseteq Tickets /\ D \subseteq Int /\ IsFiniteSet(D)
        /\ \A m \in D : margins[m] \in Int
        /\ \A m \in D : orders[book[m].key].thread \in Threads
    <3>1. D \subseteq Tickets /\ \A m \in D : margins[m] \in Nat
      BY <2>1, <2>2, <1>2, MarginsAre DEF Ticketing
    <3>2. IsFiniteSet(Tickets) /\ Tickets \subseteq Int
      BY <2>1, OrdersDomains, FS_Interval
    <3>3. IsFiniteSet(D)
      BY <3>1, <3>2, FS_Subset
    <3>4. ASSUME NEW m \in D PROVE orders[book[m].key].thread \in Threads
      <4>1. book[m].key \in Keys
        BY <2>1, <3>1 DEF Booking
      <4>2. orders[book[m].key] \in OrderRecord
        BY <2>1, <4>1, OrdersDomains
      <4> QED
        BY <4>2 DEF OrderRecord
    <3> QED
      BY <3>1, <3>2, <3>3, <3>4
  <2>4. PICK thread : thread = [m \in D |-> orders[book[m].key].thread]
    OBVIOUS
  <2>5. PICK first : first = [t \in Threads |->
                        LET own == {m \in D : thread[m] = t}
                        IN  IF own = {} THEN 0 ELSE margins[Min(own)]]
    OBVIOUS
  <2>6. ASSUME NEW m \in D
        PROVE  thread[m] \in Threads /\ first[thread[m]] = margins[m]
    <3>1. PICK own : own = {n \in D : thread[n] = thread[m]}
      OBVIOUS
    <3>2. own = {m} /\ m \in Int
      BY <1>2, <2>2, <2>3, <2>4, <3>1
    <3>3. Min(own) = m
      <4>1. Min(own) \in own
        BY <3>2 DEF Min
      <4> QED
        BY <3>2, <4>1
    <3>4. thread[m] \in Threads
      BY <2>3, <2>4
    <3> QED
      BY <2>5, <3>1, <3>2, <3>3, <3>4
  <2>7. ASSUME NEW t \in Threads PROVE first[t] = 0 \/ \E m \in D : t = thread[m]
    BY <2>5
  <2>8. SumFunctionOnSet(first, Threads) = SumFunctionOnSet(margins, D)
    <3>1. \A m \in D : margins[m] \in Int /\ thread[m] \in Threads /\ first[thread[m]] = margins[m]
      BY <2>3, <2>6
    <3>2. \A m, n \in D : thread[m] = thread[n] => m = n
      BY <1>2, <2>2, <2>4
    <3> QED
      BY <2>1, <2>3, <2>7, <3>1, <3>2, SumNamed
  <2>9. PICK e, f : /\ e = [t \in Threads |-> QuantProfit(t)]
                    /\ f = [t \in Threads |-> AccountBalance(t)]
    OBVIOUS
  <2>10. ASSUME NEW t \in Threads
         PROVE  f[t] \in Int /\ first[t] \in Int /\ e[t] = f[t] + first[t]
    <3>1. f[t] \in Int
      BY <1>2, <2>1, <2>9 DEF OrdersTyped, AccountBalance, Account, Accounts
    <3>2. first[t] \in Int
      <4>1. CASE \E m \in D : t = thread[m]
        BY <2>3, <2>6, <4>1
      <4>2. CASE ~ \E m \in D : t = thread[m]
        BY <2>7, <4>2
      <4> QED
        BY <4>1, <4>2
    <3>3. {m \in D : orders[book[m].key].thread = t} = {m \in D : thread[m] = t}
      BY <2>4
    <3>4. QuantProfit(t) = cash[Account(t)] + first[t]
      BY <2>2, <2>5, <3>3 DEF QuantProfit
    <3> QED
      BY <2>9, <3>1, <3>2, <3>4 DEF AccountBalance
  <2>11. SumFunctionOnSet(e, Threads) = SumFunctionOnSet(f, Threads) + SumFunctionOnSet(first, Threads)
    BY <2>1, <2>10, SumOfSums
  <2> QED
    BY <2>2, <2>8, <2>9, <2>11 DEF AccountMargin
<1>3. OrdersInv => ReadsAccount
  BY <1>1, <1>2 DEF ReadsAccount
<1> QED
  BY <1>3, OrdersFitTogether, PTL

-----------------------------------------------------------------------------
(* The cash: what the exchange has booked the node books. *)

\* What the messages of before are due changes with the cost of an order and with
\* what can be closed of a cancelled one only.
LEMMA DuesSame ==
    ASSUME OrdersInv, OrdersInv',
           DOMAIN toNode \subseteq DOMAIN toNode',
           \A i \in DOMAIN toNode : toNode'[i] = toNode[i],
           \A k \in Keys : orders'[k].price = orders[k].price /\ orders'[k].qty = orders[k].qty,
           \A i \in DOMAIN toNode :
              toNode[i].kind = "canceled" /\ toNode[i].closes = NoTicket =>
                 (book'[toNode[i].ticket].open = 0 <=> book[toNode[i].ticket].open = 0)
    PROVE  /\ SumFunctionOnSet(Dues', DOMAIN toNode) = SumFunctionOnSet(Dues, DOMAIN toNode)
           /\ SumFunctionOnSet(Dues, DOMAIN toNode) \in Int
           /\ SumFunctionOnSet(Dues', DOMAIN toNode') \in Int
<1>1. /\ OrdersTyped /\ Booking /\ Answering
      /\ \A i \in DOMAIN toNode : Dues[i] = Due(toNode[i]) /\ Dues[i] \in Int
      /\ (\A i \in DOMAIN toNode : Dues[i] = Due(toNode[i]) /\ Dues[i] \in Int)'
  <2>1. (\A i \in DOMAIN toNode : Dues[i] = Due(toNode[i]) /\ Dues[i] \in Int)'
    BY DuesTyped, PTL
  <2> QED
    BY <2>1, DuesTyped DEF OrdersInv
<1>2. PICK e, f, D, E : e = Dues' /\ f = Dues /\ D = DOMAIN toNode /\ E = DOMAIN toNode'
  OBVIOUS
<1>3. IsFiniteSet(D) /\ IsFiniteSet(E)
  <2>1. Len(toNode) \in Nat /\ D = 1 .. Len(toNode)
    BY <1>1, <1>2, OrdersDomains
  <2>2. toNode' \in Seq(Reports \cup Rejects \cup Exdrs)
    BY DEF OrdersInv, OrdersTyped
  <2>3. Len(toNode') \in Nat /\ E = 1 .. Len(toNode')
    BY <1>2, <2>2, LenProperties
  <2> QED
    BY <2>1, <2>3, FS_Interval
<1>4. ASSUME NEW i \in D PROVE e[i] = f[i]
  <2>1. PICK m : m = toNode[i]
    OBVIOUS
  <2>2. m = toNode'[i] /\ i \in DOMAIN toNode'
    BY <1>2, <2>1
  <2>3. m.kind \in {"filled", "canceled"} => m.key \in Keys
    BY <1>1, <1>2, <2>1 DEF Answering, Sound, Reporting, Booking
  <2>4. m.kind \in {"filled", "canceled"} => Cost(m.key)' = Cost(m.key)
    BY <2>3 DEF Cost
  <2>5. m.kind = "canceled" /\ m.closes = NoTicket =>
            (book'[m.ticket].open = 0 <=> book[m.ticket].open = 0)
    BY <1>2, <2>1
  <2>6. Due(m)' = Due(m)
    BY <2>4, <2>5 DEF Due
  <2>7. f[i] = Due(m)
    BY <1>1, <1>2, <2>1
  <2>8. e[i] = Due(m)'
    BY <1>1, <1>2, <2>2 DEF Due, Cost
  <2> QED
    BY <2>6, <2>7, <2>8
<1>5. SumFunctionOnSet(e, D) = SumFunctionOnSet(f, D)
  BY <1>3, <1>4, SumSame
<1>6. SumFunctionOnSet(f, D) \in Int
  BY <1>1, <1>2, <1>3, SumInt
<1>7. SumFunctionOnSet(e, E) \in Int
  BY <1>1, <1>2, <1>3, SumInt
<1> QED
  BY <1>2, <1>5, <1>6, <1>7

\* An order that is sent is in no message, and nothing is booked of it.
LEMMA LedgerSent ==
    ASSUME OrdersInv, LedgerInv, NEW r, Sent(r), Registers(r), mode' = mode, OrdersInv'
    PROVE  LedgerInv'
<1>1. SUFFICES ASSUME Sides \subseteq {"buy"}, lost' = 0
               PROVE  (Charging /\ Keeping /\ Refusing /\ Mirroring)'
  BY DEF LedgerInv
<1>2. /\ OrdersTyped /\ Booking /\ Answering
      /\ Charging /\ Keeping /\ Refusing /\ Mirroring
      /\ book' = book /\ toNode' = toNode /\ margins' = margins
      /\ cash' = cash /\ credit' = credit /\ drift' = drift
      /\ Tickets' = Tickets /\ Accounts' = Accounts
  BY <1>1 DEF OrdersInv, LedgerInv, Sent, Registers, Tickets, Accounts
<1>3. \A k \in Keys : /\ orders'[k].price = orders[k].price /\ orders'[k].qty = orders[k].qty
                      /\ orders'[k].ticket = orders[k].ticket
  BY DEF Sent, Same
<1>4. \A k \in Keys : /\ Cost(k)' = Cost(k) /\ (Alive(k)' <=> Alive(k))
                      /\ (Answered(k)' <=> Answered(k)) /\ (Known(k)' <=> Known(k))
  BY <1>2, <1>3 DEF Cost, Alive, Answered, About, Known
<1>5. \A t \in Tickets : book[t].key \in Keys
  BY <1>2 DEF Booking
<1>6. Charging'
  <2>1. ASSUME NEW t \in Tickets, book[t].live
        PROVE  book[t].margin = IF book[t].closes = NoTicket THEN Cost(book[t].key)' ELSE 0
    <3>1. PICK k \in Keys : k = book[t].key
      BY <1>5
    <3>2. Cost(k)' = Cost(k)
      BY <1>4
    <3>3. book[t].margin = IF book[t].closes = NoTicket THEN Cost(k) ELSE 0
      BY <1>2, <2>1, <3>1 DEF Charging
    <3>4. Cost(book[t].key)' = Cost(k)'
      BY <1>2, <3>1 DEF Cost
    <3> QED
      BY <3>2, <3>3, <3>4
  <2> QED
    BY <1>2, <2>1 DEF Charging, Cost
<1>7. Keeping'
  <2>1. ASSUME NEW t \in Tickets, book[t].closes = NoTicket
        PROVE  \E k \in Keys :
                  /\ k = book[t].key
                  /\ orders'[k].ticket = NoTicket => t \notin DOMAIN margins
                  /\ orders'[k].ticket # NoTicket /\ (Alive(k)' \/ Answered(k)')
                     => t \in DOMAIN margins /\ margins[t] = Cost(k)'
    <3>1. PICK k \in Keys : k = book[t].key
      BY <1>5
    <3>2. /\ orders[k].ticket = NoTicket => t \notin DOMAIN margins
          /\ orders[k].ticket # NoTicket /\ (Alive(k) \/ Answered(k))
             => t \in DOMAIN margins /\ margins[t] = Cost(k)
      BY <1>2, <2>1, <3>1 DEF Keeping
    <3> QED
      BY <1>3, <1>4, <3>1, <3>2
  <2> QED
    BY <1>2, <2>1 DEF Keeping, Cost, Alive, Answered, About
<1>8. Refusing'
  <2>1. ASSUME NEW i \in DOMAIN toNode, NEW m, m = toNode[i],
               m.kind = "canceled", m.closes = NoTicket
        PROVE  /\ book[m.ticket].open = 0 <=> Known(m.key)'
               /\ \A j \in DOMAIN toNode : i < j /\ About(j, m.key) => toNode[j].kind = "reject"
    <3>1. m.key \in Keys
      BY <1>2, <2>1 DEF Answering, Sound, Reporting, Booking
    <3>2. /\ book[m.ticket].open = 0 <=> Known(m.key)
          /\ \A j \in DOMAIN toNode : i < j /\ About(j, m.key) => toNode[j].kind = "reject"
      BY <1>2, <2>1 DEF Refusing
    <3> QED
      BY <1>4, <3>1, <3>2
  <2> QED
    BY <1>2, <2>1 DEF Refusing, Known, About
<1>9. Mirroring'
  <2>1. /\ DOMAIN toNode \subseteq DOMAIN toNode'
        /\ \A i \in DOMAIN toNode : toNode'[i] = toNode[i]
        /\ \A i \in DOMAIN toNode :
              toNode[i].kind = "canceled" /\ toNode[i].closes = NoTicket =>
                 (book'[toNode[i].ticket].open = 0 <=> book[toNode[i].ticket].open = 0)
    BY <1>2
  <2>2. SumFunctionOnSet(Dues', DOMAIN toNode) = SumFunctionOnSet(Dues, DOMAIN toNode)
    BY <1>3, <2>1, DuesSame
  <2>3. SumFunctionOnSet(Dues', DOMAIN toNode') = SumFunctionOnSet(Dues, DOMAIN toNode)
    BY <1>2, <2>2
  <2> HIDE DEF Dues, Accounts
  <2> QED
    BY <1>2, <2>3 DEF Mirroring
<1> QED
  BY <1>6, <1>7, <1>8, <1>9

\* What the exchange tells of an order is what it books of it; the node hears of an
\* order that it knows, or before it can know more.
LEMMA LedgerExchanged ==
    ASSUME OrdersInv, LedgerInv, NEW k, Exchanging(k), OrdersInv'
    PROVE  LedgerInv'
<1>1. SUFFICES ASSUME Sides \subseteq {"buy"}, lost' = 0
               PROVE  (Charging /\ Keeping /\ Refusing /\ Mirroring)'
  BY DEF LedgerInv
<1>2. PICK old, more : old = DOMAIN toNode /\ more = DOMAIN toNode' \ DOMAIN toNode
  OBVIOUS
<1>3. /\ lost = 0 /\ Exchanged(k) /\ Tells(k) /\ EndsIn(k) /\ Charges(k)
      /\ OrdersTyped /\ Booking /\ Ticketing /\ AskedOnce /\ Answering /\ InTurn /\ Announcing
      /\ Charging /\ Keeping /\ Refusing /\ Mirroring /\ InMarket /\ Locks
  BY <1>1 DEF OrdersInv, LedgerInv, Exchanging, Exchanged, Locking
<1>4. /\ orders' = orders /\ margins' = margins /\ cash' = cash
      /\ Keys' = Keys /\ Tickets' = DOMAIN book' /\ Tickets \subseteq Tickets'
      /\ Accounts' = Accounts
      /\ \A j : Cost(j)' = Cost(j) /\ (Closes(j)' <=> Closes(j))
  BY <1>3 DEF Exchanged, Charges, Keys, Tickets, Accounts, Cost, Closes
<1>5. /\ old \subseteq DOMAIN toNode' /\ DOMAIN toNode' = old \cup more
      /\ \A i \in old : toNode'[i] = toNode[i]
      /\ \A i \in more : toNode'[i].kind # "exdr" => toNode'[i].key = k
      /\ \A i \in old, j \in more : i < j
  <2>1. Len(toNode) \in Nat /\ old = 1 .. Len(toNode)
    BY <1>2, <1>3, OrdersDomains
  <2>2. toNode' \in Seq(Reports \cup Rejects \cup Exdrs)
    BY DEF OrdersInv, OrdersTyped
  <2>3. Len(toNode') \in Nat /\ DOMAIN toNode' = 1 .. Len(toNode')
    BY <2>2, LenProperties
  <2>4. \A i \in old, j \in more : i < j
    BY <1>2, <2>1, <2>3
  <2> QED
    BY <1>2, <1>3, <2>4 DEF Exchanged
<1>6. \A t \in Tickets :
         /\ book'[t].key = book[t].key /\ book'[t].closes = book[t].closes
         /\ book[t].key \in Keys
         /\ book'[t].live => book[t].live /\ book'[t].margin = book[t].margin
  BY <1>3 DEF Exchanged, Charges, Booking
<1>7. \A t \in Tickets' \ Tickets :
         /\ book'[t].key = k /\ k \in Keys /\ book'[t].closes = orders[k].closes
         /\ book'[t].live => book'[t].margin = IF Closes(k) THEN 0 ELSE Cost(k)
  BY <1>3, <1>4 DEF Exchanged, Charges
\* Of an order that is asked for nothing is known.
<1>8. Asked(k) => k \in Keys /\ Untouched(k) /\ ~Answered(k) /\ ~Booked(k)
  BY <1>3 DEF Asked, AskedOnce, Asking
<1>9. \A t \in Tickets' \ Tickets : Asked(k)
  <2>1. toExchange # << >> => 1 \in DOMAIN toExchange /\ toExchange[1] = Head(toExchange)
    BY <1>3, TailIs DEF OrdersTyped
  <2> QED
    BY <1>3, <1>4, <2>1 DEF Exchanged, Taken, Asked
\* What is told of the order is told while it is asked for, or executes.
<1>10. \A i \in more : toNode'[i].kind # "exdr" => Asked(k) \/ Alive(k)
  BY <1>2, <1>3 DEF EndsIn
<1>11. Charging'
  <2>1. ASSUME NEW t \in Tickets', book'[t].live
        PROVE  book'[t].margin = IF book'[t].closes = NoTicket THEN Cost(book'[t].key) ELSE 0
    <3>1. CASE t \in Tickets
      BY <1>3, <1>6, <2>1, <3>1 DEF Charging
    <3>2. CASE t \notin Tickets
      BY <1>7, <2>1, <3>2 DEF Closes
    <3> QED
      BY <3>1, <3>2
  <2> QED
    BY <1>4, <2>1 DEF Charging, Cost, Equity
<1>12. Keeping'
  <2>1. ASSUME NEW t \in Tickets', book'[t].closes = NoTicket
        PROVE  \E j \in Keys :
                  /\ j = book'[t].key
                  /\ orders[j].ticket = NoTicket => t \notin DOMAIN margins
                  /\ orders[j].ticket # NoTicket /\ (Alive(j)' \/ Answered(j)')
                     => t \in DOMAIN margins /\ margins[t] = Cost(j)
    <3>1. CASE t \in Tickets
      <4>1. PICK j \in Keys : j = book[t].key /\ j = book'[t].key
        BY <1>6, <3>1
      <4>2. /\ orders[j].ticket = NoTicket => t \notin DOMAIN margins
            /\ orders[j].ticket # NoTicket /\ (Alive(j) \/ Answered(j))
               => t \in DOMAIN margins /\ margins[t] = Cost(j)
        BY <1>3, <1>6, <2>1, <3>1, <4>1 DEF Keeping
      <4>3. ASSUME Alive(j)', orders[j].ticket # NoTicket PROVE Alive(j)
        <5>1. PICK u \in Tickets' : book'[u].key = j /\ book'[u].live
          BY <4>3 DEF Alive
        <5>2. u \in Tickets
          BY <1>7, <1>8, <1>9, <4>3, <5>1 DEF Untouched
        <5> QED
          BY <1>6, <5>1, <5>2 DEF Alive
      <4>4. ASSUME Answered(j)', orders[j].ticket # NoTicket PROVE Alive(j) \/ Answered(j)
        <5>1. PICK i \in DOMAIN toNode' : toNode'[i].kind # "exdr" /\ toNode'[i].key = j
          BY <4>4 DEF Answered, About
        <5>2. CASE i \in old
          BY <1>2, <1>5, <5>1, <5>2 DEF Answered, About
        <5>3. CASE i \in more
          BY <1>5, <1>8, <1>10, <4>4, <5>1, <5>3 DEF Untouched
        <5> QED
          BY <1>5, <5>2, <5>3
      <4> QED
        BY <4>1, <4>2, <4>3, <4>4
    <3>2. CASE t \notin Tickets
      <4>1. k \in Keys /\ k = book'[t].key /\ orders[k].ticket = NoTicket
        BY <1>7, <1>8, <1>9, <3>2 DEF Untouched
      <4>2. t \notin DOMAIN margins
        BY <1>3, <3>2 DEF Ticketing
      <4> QED
        BY <4>1, <4>2
    <3> QED
      BY <3>1, <3>2
  <2> QED
    BY <1>4, <2>1 DEF Keeping, Cost, Alive, Answered, About
\* What can be closed of an order that is cancelled does not change: no order closes it.
<1>13. ASSUME NEW i \in old, NEW m, m = toNode[i], m.kind = "canceled", m.closes = NoTicket
       PROVE  /\ m.key \in Keys /\ m.ticket \in Tickets /\ ~Alive(m.key) /\ Answered(m.key)
              /\ book'[m.ticket].open = 0 <=> book[m.ticket].open = 0
  <2>1. /\ m.ticket \in Tickets /\ m.key = book[m.ticket].key /\ m.key \in Keys
        /\ ~book[m.ticket].live /\ m.closes = orders[m.key].closes
    BY <1>2, <1>3, <1>13 DEF Answering, Sound, Reporting, Booking
  <2>2. ~Alive(m.key)
    BY <1>3, <2>1 DEF Alive, Booking
  <2>3. Answered(m.key)
    BY <1>2, <1>13 DEF Answered, About
  <2>4. ASSUME NEW u \in Tickets, book[u].live, book[u].closes = m.ticket PROVE FALSE
    <3>1. PICK j \in Keys : j = book[u].key /\ orders[j].closes = m.ticket /\ Alive(j)
      BY <1>3, <2>4 DEF Booking, Alive
    <3>2. m.ticket # NoTicket
      BY <1>3, <2>1, OrdersDomains
    <3>3. Closes(j) /\ m.ticket \in DOMAIN ticketOf /\ Closed(j) = m.key
      BY <1>3, <2>1, <3>1, <3>2 DEF Closes, Closed, Ticketing
    <3>4. orders[m.key].trading = "CLOSEING"
      BY <1>3, <3>1, <3>3 DEF Locks, Pending
    <3>5. ~Closes(m.key)
      BY <1>13, <2>1 DEF Closes
    <3> QED
      BY <1>3, <2>1, <2>3, <3>4, <3>5 DEF InMarket, Over
  <2>5. book'[m.ticket].open = 0 <=> book[m.ticket].open = 0
    BY <1>3, <2>1, <2>4 DEF Charges
  <2> QED
    BY <2>1, <2>2, <2>3, <2>5
<1>14. Refusing'
  <2>1. ASSUME NEW i \in DOMAIN toNode', NEW m, m = toNode'[i],
               m.kind = "canceled", m.closes = NoTicket
        PROVE  /\ book'[m.ticket].open = 0 <=> Known(m.key)'
               /\ \A j \in DOMAIN toNode' :
                     i < j /\ toNode'[j].kind # "exdr" /\ toNode'[j].key = m.key
                        => toNode'[j].kind = "reject"
    <3>1. CASE i \in old
      <4>1. m = toNode[i] /\ i \in DOMAIN toNode
        BY <1>2, <1>5, <2>1, <3>1
      <4>2. /\ m.key \in Keys /\ m.ticket \in Tickets /\ ~Alive(m.key) /\ Answered(m.key)
            /\ book'[m.ticket].open = 0 <=> book[m.ticket].open = 0
        BY <1>13, <2>1, <3>1, <4>1
      <4>3. /\ book[m.ticket].open = 0 <=> Known(m.key)
            /\ \A j \in DOMAIN toNode : i < j /\ About(j, m.key) => toNode[j].kind = "reject"
        BY <1>3, <2>1, <4>1 DEF Refusing
      <4>4. \A j \in more : toNode'[j].kind # "exdr" => toNode'[j].key # m.key
        BY <1>5, <1>8, <1>10, <4>2
      <4>5. Known(m.key)' <=> Known(m.key)
        BY <1>2, <1>4, <1>5, <4>4 DEF Known
      <4> QED
        BY <1>2, <1>5, <4>2, <4>3, <4>4, <4>5 DEF About
    <3>2. CASE i \in more
      <4>1. m.key = k
        BY <1>5, <2>1, <3>2
      <4>2. book'[m.ticket].open = 0 <=> Alive(k)
        BY <1>2, <1>3, <2>1, <3>2 DEF Charges
      <4>3. \A j \in more : i < j => toNode'[j].kind = "reject"
        BY <1>2, <1>3, <2>1, <3>2 DEF Tells
      <4>4. \A j \in more : j < i => toNode'[j].kind = "canceled"
        BY <1>2, <1>3, <2>1, <3>2 DEF Tells
      <4>5. i \in Int /\ \A j \in more : j \in Int
        <5>1. toNode' \in Seq(Reports \cup Rejects \cup Exdrs)
          BY DEF OrdersInv, OrdersTyped
        <5>2. DOMAIN toNode' = 1 .. Len(toNode')
          BY <5>1, LenProperties
        <5>3. \A j \in DOMAIN toNode' : j \in Int
          BY <5>2
        <5> QED
          BY <2>1, <1>5, <5>3
      <4>6. Alive(k) => Known(k)'
        <5>1. Alive(k) => Known(k)
          BY <1>3 DEF Announcing, Alive
        <5> QED
          BY <1>2, <1>4, <1>5, <5>1 DEF Known
      <4>7. ASSUME Known(k)', ~Alive(k) PROVE FALSE
        <5>1. Asked(k)
          BY <1>10, <2>1, <3>2, <4>7
        <5>2. orders[k].ticket = NoTicket /\ ~Answered(k)
          BY <1>8, <5>1 DEF Untouched
        <5>3. PICK j \in DOMAIN toNode' : toNode'[j].kind = "new" /\ toNode'[j].key = k
          BY <1>4, <4>7, <5>2 DEF Known
        <5>4. j \in more
          BY <1>2, <1>5, <5>2, <5>3 DEF Answered, About
        <5>5. j # i
          BY <2>1, <5>3
        <5>6. j < i \/ i < j
          BY <4>5, <5>4, <5>5
        <5> QED
          BY <4>3, <4>4, <5>3, <5>4, <5>6
      <4>8. \A j \in old : ~(i < j)
        <5>1. ASSUME NEW j \in old, i < j PROVE FALSE
          <6>1. j < i /\ j \in Int
            BY <1>2, <1>3, <1>5, <3>2, <5>1, OrdersDomains
          <6> QED
            BY <4>5, <5>1, <6>1
        <5> QED
          BY <5>1
      <4> QED
        BY <1>5, <4>1, <4>2, <4>3, <4>6, <4>7, <4>8
    <3> QED
      BY <1>5, <3>1, <3>2
  <2> QED
    BY <2>1 DEF Refusing, Known, About
<1>15. Mirroring'
  <2>1. \A i \in DOMAIN toNode :
           toNode[i].kind = "canceled" /\ toNode[i].closes = NoTicket =>
              (book'[toNode[i].ticket].open = 0 <=> book[toNode[i].ticket].open = 0)
    BY <1>2, <1>13
  <2>2. \A j \in Keys : orders'[j].price = orders[j].price /\ orders'[j].qty = orders[j].qty
    BY <1>4
  <2>3. DOMAIN toNode \subseteq DOMAIN toNode' /\ \A i \in DOMAIN toNode : toNode'[i] = toNode[i]
    BY <1>2, <1>5
  <2>4. /\ SumFunctionOnSet(Dues', DOMAIN toNode) = SumFunctionOnSet(Dues, DOMAIN toNode)
        /\ SumFunctionOnSet(Dues, DOMAIN toNode) \in Int
        /\ SumFunctionOnSet(Dues', DOMAIN toNode') \in Int
    BY <2>1, <2>2, <2>3, DuesSame
  <2>5. /\ SumFunctionOnSet(Dues', DOMAIN toNode') + credit + drift
             = SumFunctionOnSet(Dues', DOMAIN toNode) + credit' + drift'
    BY <1>1, <1>3 DEF Charges, Squares
  <2>6. SumFunctionOnSet(cash, Accounts) \in Int
    BY <1>3, FiniteAccounts, SumInt DEF OrdersTyped
  <2>7. credit \in Int /\ drift \in Int /\ credit' \in Int /\ drift' \in Int
    BY DEF OrdersInv, OrdersTyped
  <2>8. PICK x, y, z : /\ x = SumFunctionOnSet(Dues', DOMAIN toNode')
                       /\ y = SumFunctionOnSet(Dues, DOMAIN toNode)
                       /\ z = SumFunctionOnSet(cash, Accounts)
    OBVIOUS
  <2>9. z + y = credit + drift
    BY <1>3, <2>8 DEF Mirroring
  <2>10. PICK a, b, c, d : a = credit /\ b = drift /\ c = credit' /\ d = drift'
    OBVIOUS
  <2>11. /\ x + a + b = y + c + d /\ z + y = a + b
         /\ x \in Int /\ y \in Int /\ z \in Int
         /\ a \in Int /\ b \in Int /\ c \in Int /\ d \in Int
    BY <2>4, <2>5, <2>6, <2>7, <2>8, <2>9, <2>10
  <2>12. z + x = c + d
    BY ONLY <2>11
  <2> HIDE DEF Dues, Accounts
  <2> QED
    BY <1>4, <2>8, <2>10, <2>12 DEF Mirroring
<1> QED
  BY <1>11, <1>12, <1>14, <1>15

\* The first message has been heard, the others are due what they were.
LEMMA LedgerTook ==
    ASSUME OrdersInv, LedgerInv, NEW m, Took(m), OrdersInv',
           Sides \subseteq {"buy"} /\ lost = 0 =>
              /\ SumFunctionOnSet(cash', Accounts) + drift
                    = SumFunctionOnSet(cash, Accounts) + Due(m) + drift'
              /\ \A k \in Keys : Alive(k) \/ Answered(k) => orders'[k].qty = orders[k].qty
              /\ Keeping'
    PROVE  LedgerInv'
<1>1. SUFFICES ASSUME Sides \subseteq {"buy"}, lost' = 0
               PROVE  (Charging /\ Keeping /\ Refusing /\ Mirroring)'
  BY DEF LedgerInv
<1>2. /\ lost = 0 /\ Hears(m)
      /\ OrdersTyped /\ Booking /\ Answering /\ Announcing
      /\ Charging /\ Keeping /\ Refusing /\ Mirroring
      /\ SumFunctionOnSet(cash', Accounts) + drift
            = SumFunctionOnSet(cash, Accounts) + Due(m) + drift'
      /\ \A k \in Keys : Alive(k) \/ Answered(k) => orders'[k].qty = orders[k].qty
      /\ Keeping'
  BY <1>1 DEF OrdersInv, LedgerInv, Took
<1>3. /\ mode' = mode /\ book' = book /\ credit' = credit
      /\ Tickets' = Tickets /\ Accounts' = Accounts /\ Keys' = Keys
  BY <1>2 DEF Hears, Took, Tickets, Accounts, Keys
<1>4. PICK n : n = Len(toNode)
  OBVIOUS
<1>5. /\ n \in Nat \ {0} /\ DOMAIN toNode = 1 .. n /\ DOMAIN toNode' = 1 .. n - 1
      /\ m = toNode[1] /\ \A i \in 1 .. n - 1 : toNode'[i] = toNode[i + 1]
  <2>1. /\ toNode \in Seq(Reports \cup Rejects \cup Exdrs) /\ toNode # << >>
        /\ toNode' = Tail(toNode) /\ m = Head(toNode)
    BY <1>2 DEF Hears, OrdersTyped
  <2>2. n \in Nat /\ n > 0 /\ DOMAIN toNode = 1 .. n
    BY <1>2, <1>4, <2>1, TailIs, OrdersDomains
  <2>3. /\ DOMAIN Tail(toNode) = 1 .. n - 1 /\ Head(toNode) = toNode[1]
        /\ \A i \in 1 .. n - 1 : Tail(toNode)[i] = toNode[i + 1]
    BY <1>4, <2>1, TailIs
  <2> QED
    BY <2>1, <2>2, <2>3
<1>6. \A i \in 1 .. n - 1 : i + 1 \in 1 .. n /\ i + 1 # 1
  BY <1>5
<1>7. \A i \in 1 .. n : i = 1 \/ \E j \in 1 .. n - 1 : i = j + 1
  <2>1. ASSUME NEW i \in 1 .. n, i # 1 PROVE i - 1 \in 1 .. n - 1 /\ i = (i - 1) + 1
    BY <1>5, <2>1
  <2> QED
    BY <2>1
<1>8. Sound(m) /\ (m.kind # "exdr" => m.key \in Keys)
  BY <1>2, FirstIs DEF Hears
<1>9. ASSUME NEW k \in Keys
      PROVE  /\ Alive(k)' <=> Alive(k)
             /\ orders'[k].price = orders[k].price
             /\ Alive(k) \/ Answered(k) => Cost(k)' = Cost(k)
             /\ Known(k)' <=> Known(k)
  <2>1. Alive(k)' <=> Alive(k)
    BY <1>3 DEF Alive
  <2>2. orders'[k].price = orders[k].price
    BY <1>2 DEF Hears, Kept
  <2>3. Alive(k) \/ Answered(k) => Cost(k)' = Cost(k)
    BY <1>2, <2>2 DEF Cost
  <2>4. CASE m.kind \in ReportKinds /\ k = m.key
    <3>1. orders'[k].ticket = m.ticket /\ m.ticket \in Tickets
      BY <1>2, <1>8, <2>4 DEF Hears, Sound, Reporting, ReportKinds
    <3>2. m.ticket # NoTicket
      BY <1>2, <3>1, OrdersDomains
    <3>3. Known(k)
      BY <1>2, <1>5, <2>4 DEF Announcing, Known, ReportKinds
    <3> QED
      BY <2>1, <2>2, <2>3, <3>1, <3>2, <3>3 DEF Known
  <2>5. CASE ~(m.kind \in ReportKinds /\ k = m.key)
    <3>1. orders'[k].ticket = orders[k].ticket
      BY <1>2, <2>5 DEF Hears, Kept
    <3>2. ~(m.kind = "new" /\ m.key = k)
      BY <2>5 DEF ReportKinds
    <3>3. (\E i \in 1 .. n - 1 : toNode'[i].kind = "new" /\ toNode'[i].key = k)
             <=> (\E i \in 1 .. n : toNode[i].kind = "new" /\ toNode[i].key = k)
      <4>1. ASSUME NEW i \in 1 .. n - 1, toNode'[i].kind = "new", toNode'[i].key = k
            PROVE  \E j \in 1 .. n : toNode[j].kind = "new" /\ toNode[j].key = k
        <5>1. i + 1 \in 1 .. n /\ toNode'[i] = toNode[i + 1]
          BY <1>5, <1>6
        <5> QED
          BY <4>1, <5>1
      <4>2. ASSUME NEW i \in 1 .. n, toNode[i].kind = "new", toNode[i].key = k
            PROVE  \E j \in 1 .. n - 1 : toNode'[j].kind = "new" /\ toNode'[j].key = k
        <5>1. i # 1
          BY <1>5, <3>2, <4>2
        <5>2. PICK j \in 1 .. n - 1 : i = j + 1
          BY <1>7, <5>1
        <5> QED
          BY <1>5, <4>2, <5>2
      <4> QED
        BY <4>1, <4>2
    <3>4. Known(k)' <=> Known(k)
      BY <1>5, <3>1, <3>3 DEF Known
    <3> QED
      BY <2>1, <2>2, <2>3, <3>4
  <2> QED
    BY <2>4, <2>5
<1>10. Charging'
  <2>1. ASSUME NEW t \in Tickets, book[t].live
        PROVE  \E k \in Keys :
                  /\ k = book[t].key
                  /\ book[t].margin = IF book[t].closes = NoTicket THEN Cost(k)' ELSE 0
    <3>1. PICK k \in Keys : k = book[t].key
      BY <1>2 DEF Booking
    <3>2. Alive(k)
      BY <2>1, <3>1 DEF Alive
    <3> QED
      BY <1>2, <1>9, <2>1, <3>1, <3>2 DEF Charging
  <2> QED
    BY <1>3, <2>1 DEF Charging, Cost
<1>11. ASSUME NEW i \in 1 .. n - 1, NEW e, e = toNode[i + 1],
              e.kind \in {"filled", "canceled"}
       PROVE  e.key \in Keys /\ Answered(e.key)
  BY <1>2, <1>5, <1>6, <1>11 DEF Answering, Sound, Reporting, Booking, Answered, About
<1>12. Refusing'
  <2>1. ASSUME NEW i \in 1 .. n - 1, NEW e, e = toNode[i + 1],
               e.kind = "canceled", e.closes = NoTicket
        PROVE  /\ book[e.ticket].open = 0 <=> Known(e.key)'
               /\ \A j \in 1 .. n - 1 :
                     i < j /\ toNode[j + 1].kind # "exdr" /\ toNode[j + 1].key = e.key
                        => toNode[j + 1].kind = "reject"
    <3>1. /\ book[e.ticket].open = 0 <=> Known(e.key)
          /\ \A j \in 1 .. n : i + 1 < j /\ About(j, e.key) => toNode[j].kind = "reject"
      BY <1>2, <1>5, <1>6, <2>1 DEF Refusing
    <3>2. e.key \in Keys
      BY <1>11, <2>1
    <3>3. ASSUME NEW j \in 1 .. n - 1, i < j, About(j + 1, e.key) PROVE toNode[j + 1].kind = "reject"
      <4>1. i + 1 < j + 1
        BY <1>5, <3>3
      <4> QED
        BY <1>6, <3>1, <3>3, <4>1
    <3> QED
      BY <1>9, <3>1, <3>2, <3>3 DEF About
  <2>2. ASSUME NEW i \in 1 .. n - 1, NEW e, e = toNode'[i],
               e.kind = "canceled", e.closes = NoTicket
        PROVE  /\ book[e.ticket].open = 0 <=> Known(e.key)'
               /\ \A j \in 1 .. n - 1 :
                     i < j /\ toNode'[j].kind # "exdr" /\ toNode'[j].key = e.key
                        => toNode'[j].kind = "reject"
    BY <1>5, <2>1, <2>2
  <2> QED
    BY <1>3, <1>5, <2>2 DEF Refusing, Known, About
<1>13. Mirroring'
  <2>1. PICK e, f : e = Dues /\ f = Dues'
    OBVIOUS
  <2>2. /\ \A i \in DOMAIN toNode : Dues[i] = Due(toNode[i]) /\ Dues[i] \in Int
        /\ (\A i \in DOMAIN toNode : Dues[i] = Due(toNode[i]) /\ Dues[i] \in Int)'
    <3>1. (\A i \in DOMAIN toNode : Dues[i] = Due(toNode[i]) /\ Dues[i] \in Int)'
      BY DuesTyped, PTL
    <3> QED
      BY <3>1, DuesTyped
  <2>3. ASSUME NEW i \in 1 .. n - 1 PROVE f[i] = e[i + 1]
    <3>1. PICK x : x = toNode[i + 1] /\ x = toNode'[i]
      BY <1>5
    <3>2. x.kind \in {"filled", "canceled"} => Cost(x.key)' = Cost(x.key)
      BY <1>9, <1>11, <3>1
    <3>3. Due(x)' = Due(x)
      BY <1>3, <3>2 DEF Due
    <3>4. e[i + 1] = Due(x)
      BY <1>5, <1>6, <2>1, <2>2, <3>1
    <3>5. f[i] = Due(x)'
      BY <1>5, <2>1, <2>2, <3>1 DEF Due, Cost
    <3> QED
      BY <3>3, <3>4, <3>5
  <2>4. \A i \in 1 .. n : e[i] \in Int
    BY <1>5, <2>1, <2>2
  <2>5. SumFunctionOnSet(e, 1 .. n) = e[1] + SumFunctionOnSet(f, 1 .. n - 1)
    BY <1>5, <2>3, <2>4, SumTail
  <2>6. e[1] = Due(m) /\ e[1] \in Int
    <3>1. 1 \in 1 .. n
      BY <1>5
    <3> QED
      BY <1>5, <2>1, <2>2, <3>1
  <2>7. \A i \in 1 .. n - 1 : f[i] \in Int
    BY <1>5, <2>1, <2>2
  <2>8. SumFunctionOnSet(f, 1 .. n - 1) \in Int
    <3>1. IsFiniteSet(1 .. n - 1)
      BY <1>5, FS_Interval
    <3> QED
      BY <2>7, <3>1, SumInt
  <2>9. SumFunctionOnSet(cash, Accounts) \in Int /\ SumFunctionOnSet(cash', Accounts) \in Int
    <3>1. cash \in [Accounts -> Int] /\ cash' \in [Accounts -> Int]
      BY <1>2, <1>3 DEF OrdersTyped, Took
    <3> QED
      BY <3>1, FiniteAccounts, SumInt
  <2>10. credit \in Int /\ drift \in Int /\ drift' \in Int
    BY DEF OrdersInv, OrdersTyped
  <2>11. PICK x, y, z, w, a, b, c :
            /\ x = Due(m) /\ y = SumFunctionOnSet(f, 1 .. n - 1)
            /\ z = SumFunctionOnSet(cash, Accounts) /\ w = SumFunctionOnSet(cash', Accounts)
            /\ a = drift /\ b = drift' /\ c = credit
    OBVIOUS
  <2>12. SumFunctionOnSet(Dues, DOMAIN toNode) = x + y
    BY <1>5, <2>1, <2>5, <2>6, <2>11
  <2>13. z + (x + y) = c + a
    BY <1>2, <2>11, <2>12 DEF Mirroring
  <2>14. w + a = z + x + b
    BY <1>2, <2>11
  <2>15. /\ x \in Int /\ y \in Int /\ z \in Int /\ w \in Int /\ a \in Int /\ b \in Int /\ c \in Int
         /\ z + (x + y) = c + a /\ w + a = z + x + b
    BY <2>6, <2>8, <2>9, <2>10, <2>11, <2>13, <2>14
  <2>16. w + y = c + b
    BY ONLY <2>15
  <2>17. SumFunctionOnSet(Dues', DOMAIN toNode') = y
    BY <1>5, <2>1, <2>11
  <2> HIDE DEF Dues, Accounts
  <2> QED
    BY <1>3, <2>11, <2>16, <2>17 DEF Mirroring
<1> QED
  BY <1>2, <1>10, <1>12, <1>13

\* Neither a report nor a refusal changes what was ordered.
LEMMA MarkedQty ==
    ASSUME NEW q \in Seq(OrderRecord), DOMAIN q = Keys, NEW x,
           NEW status \in Statuses,
           NEW r, r = [q EXCEPT ![x].trading = status]
    PROVE  /\ r \in Seq(OrderRecord) /\ DOMAIN r = Keys
           /\ \A k \in Keys : r[k].qty = q[k].qty
<1>1. CASE x \in Keys
  <2>1. Marks(r, q, x, status)
    BY <1>1, MarkedIs
  <2> QED
    BY <2>1 DEF Marks
<1>2. CASE x \notin Keys
  <2>1. r = q
    BY <1>2, SeqIsFunction
  <2> QED
    BY <2>1
<1> QED
  BY <1>1, <1>2

LEMMA ReportedQty ==
    ASSUME OrdersInv, NEW m \in Reports, m.key \in Keys, ExecutionReport(m)
    PROVE  \A k \in Keys : orders'[k].qty = orders[k].qty
<1>1. PICK q, x : q = Reported(m) /\ x = ticketOf'[m.closes]
  OBVIOUS
<1>2. q \in Seq(OrderRecord) /\ DOMAIN q = Keys /\ \A k \in Keys : q[k].qty = orders[k].qty
  BY <1>1, ReportedIs
<1>3. orders' = q \/ orders' = [q EXCEPT ![x].trading = "CLOSED"]
  BY <1>1 DEF ExecutionReport
<1>4. "CLOSED" \in Statuses
  BY DEF Statuses
<1>5. PICK r : r = [q EXCEPT ![x].trading = "CLOSED"]
  OBVIOUS
<1>6. \A k \in Keys : r[k].qty = q[k].qty
  BY <1>2, <1>4, <1>5, MarkedQty
<1> QED
  BY <1>2, <1>3, <1>5, <1>6

LEMMA FailedQty ==
    ASSUME OrdersInv, NEW k \in Keys, NEW ticket, NEW closes,
           NEW status \in {"CANCEL", "REJECT"},
           RejectOrCancelNewOrder(k, ticket, closes, status)
    PROVE  \A j \in Keys : orders'[j].qty = orders[j].qty
<1>1. PICK q, x : q = [orders EXCEPT ![k].trading = status] /\ x = ticketOf[closes]
  OBVIOUS
<1>2. Marks(q, orders, k, status)
  <2>1. orders \in Seq(OrderRecord) /\ DOMAIN orders = Keys /\ status \in Statuses
    BY DEF OrdersInv, OrdersTyped, Keys, Statuses
  <2> QED
    BY <1>1, <2>1, MarkedIs
<1>3. q \in Seq(OrderRecord) /\ DOMAIN q = Keys /\ \A j \in Keys : q[j].qty = orders[j].qty
  BY <1>2 DEF Marks
<1>4. PICK r : r = [q EXCEPT ![x].trading = "MARKET"]
  OBVIOUS
<1>5. "MARKET" \in Statuses
  BY DEF Statuses
<1>6. \A j \in Keys : r[j].qty = q[j].qty
  BY <1>3, <1>4, <1>5, MarkedQty
<1>7. orders' = q \/ orders' = r
  BY <1>1, <1>4 DEF RejectOrCancelNewOrder, Failed
<1> QED
  BY <1>3, <1>6, <1>7

\* What is appended to one account is appended to all the cash.
LEMMA CashAppended ==
    ASSUME OrdersInv, NEW k \in Keys, NEW margin \in Int, NEW fee \in Int,
           cash' = Appended(k, margin, fee)
    PROVE  SumFunctionOnSet(cash', Accounts)
               = SumFunctionOnSet(cash, Accounts) + (margin - fee)
<1>1. PICK a, b, A : a = cash /\ b = cash' /\ A = Accounts
  OBVIOUS
<1>2. PICK x : x = Owner(k)
  OBVIOUS
<1>3. x \in A
  <2>1. orders[k] \in OrderRecord
    BY OrdersDomains DEF OrdersInv
  <2>2. orders[k].thread \in Threads
    BY <2>1 DEF OrderRecord
  <2> QED
    BY <1>1, <1>2, <2>2 DEF Owner, Account, Accounts
<1>4. a \in [A -> Int] /\ IsFiniteSet(A)
  BY <1>1, FiniteAccounts DEF OrdersInv, OrdersTyped
<1>5. PICK y \in Int : y = a[x]
  BY <1>3, <1>4
<1>6. b = [a EXCEPT ![x] = y + margin - fee]
  BY <1>1, <1>2, <1>5 DEF Appended
<1>7. b[x] = y + margin - fee /\ \A z \in A \ {x} : b[z] = a[z]
  BY <1>3, <1>4, <1>6
<1>8. \A z \in A : a[z] \in Int /\ b[z] \in Int
  BY <1>4, <1>5, <1>7
<1>9. SumFunctionOnSet(b, A) = SumFunctionOnSet(a, A) - a[x] + b[x]
  BY <1>3, <1>4, <1>7, <1>8, SumChanged
<1>10. SumFunctionOnSet(a, A) \in Int
  BY <1>4, <1>8, SumInt
<1>11. PICK s, v : s = SumFunctionOnSet(a, A) /\ v = SumFunctionOnSet(b, A)
  OBVIOUS
<1>12. s \in Int /\ v = s - y + (y + margin - fee)
  BY <1>5, <1>7, <1>9, <1>10, <1>11
<1>13. v = s + (margin - fee)
  BY <1>12
<1> QED
  BY <1>1, <1>11, <1>13

LEMMA CostIsNotZero ==
    ASSUME OrdersInv, CountInv, NEW k \in Keys, ~Closes(k)
    PROVE  Cost(k) # 0
<1>1. orders[k] \in OrderRecord /\ orders[k].price # 0
  BY OrdersDomains DEF OrdersInv, CountInv, Priced
<1>2. PICK p, q : p = orders[k].price /\ q = orders[k].qty
  OBVIOUS
<1>3. p \in Nat /\ p # 0 /\ q \in Nat /\ q # 0
  <2>1. p \in Prices \cup {0} /\ q \in Nat \ {0}
    BY <1>1, <1>2 DEF OrderRecord
  <2>2. \A z \in Prices : z \in Nat
    BY TraderNodeAssumption
  <2> QED
    BY <1>1, <1>2, <2>1, <2>2
<1>4. PICK r \in Nat \ {0} : r = p * q
  BY <1>3
<1>5. PICK f \in Nat \ {0} : f = MarginFactor
  BY TraderNodeAssumption
<1>6. r * f # 0
  OBVIOUS
<1> QED
  BY <1>2, <1>4, <1>5, <1>6 DEF Cost, Equity

\* The margins that the node holds are the costs of the orders that it knows and that
\* are not over, if the message changes no other.
LEMMA KeepingTook ==
    ASSUME OrdersInv, Keeping, NEW m, Took(m), OrdersInv',
           \A k \in Keys : Alive(k) \/ Answered(k) => orders'[k].qty = orders[k].qty,
           \A t \in Tickets, k \in Keys : book[t].closes = NoTicket /\ k = book[t].key =>
              \/ /\ t \in DOMAIN margins' <=> t \in DOMAIN margins
                 /\ t \in DOMAIN margins => margins'[t] = margins[t]
                 /\ orders'[k].ticket = orders[k].ticket
              \/ /\ t \in DOMAIN margins' /\ margins'[t] = Cost(k)
                 /\ orders'[k].ticket # NoTicket
              \/ /\ orders'[k].ticket # NoTicket /\ ~Alive(k)
                 /\ \A i \in DOMAIN toNode : About(i, k) => i = 1
    PROVE  Keeping'
<1>1. /\ OrdersTyped /\ Booking /\ Hears(m)
      /\ book' = book /\ Tickets' = Tickets
  BY DEF OrdersInv, Took, Hears, Tickets
<1>2. PICK n : n = Len(toNode)
  OBVIOUS
<1>3. /\ n \in Nat \ {0} /\ DOMAIN toNode = 1 .. n /\ DOMAIN toNode' = 1 .. n - 1
      /\ \A i \in 1 .. n - 1 : toNode'[i] = toNode[i + 1]
      /\ \A i \in 1 .. n - 1 : i + 1 \in 1 .. n /\ i + 1 # 1
  <2>1. /\ toNode \in Seq(Reports \cup Rejects \cup Exdrs) /\ toNode # << >>
        /\ toNode' = Tail(toNode)
    BY <1>1 DEF Hears, OrdersTyped
  <2>2. n \in Nat /\ n > 0 /\ DOMAIN toNode = 1 .. n
    BY <1>1, <1>2, <2>1, TailIs, OrdersDomains
  <2>3. DOMAIN Tail(toNode) = 1 .. n - 1 /\ \A i \in 1 .. n - 1 : Tail(toNode)[i] = toNode[i + 1]
    BY <1>2, <2>1, TailIs
  <2> QED
    BY <2>1, <2>2, <2>3
<1>4. ASSUME NEW t \in Tickets, book[t].closes = NoTicket
      PROVE  \E k \in Keys :
                /\ k = book[t].key
                /\ orders'[k].ticket = NoTicket => t \notin DOMAIN margins'
                /\ orders'[k].ticket # NoTicket /\ (Alive(k)' \/ Answered(k)')
                   => t \in DOMAIN margins' /\ margins'[t] = Cost(k)'
  <2>1. PICK k \in Keys : k = book[t].key
    BY <1>1 DEF Booking
  <2>2. /\ orders[k].ticket = NoTicket => t \notin DOMAIN margins
        /\ orders[k].ticket # NoTicket /\ (Alive(k) \/ Answered(k))
           => t \in DOMAIN margins /\ margins[t] = Cost(k)
    BY <1>4, <2>1 DEF Keeping
  <2>3. Alive(k)' <=> Alive(k)
    BY <1>1 DEF Alive
  <2>4. Answered(k)' => \E i \in 1 .. n : i # 1 /\ About(i, k)
    BY <1>3 DEF Answered, About
  <2>5. (\E i \in 1 .. n : i # 1 /\ About(i, k)) => Answered(k)
    BY <1>3 DEF Answered
  <2>6. Alive(k) \/ Answered(k) => Cost(k)' = Cost(k)
    BY <1>1 DEF Cost, Hears, Kept
  <2>7. CASE /\ t \in DOMAIN margins' <=> t \in DOMAIN margins
             /\ t \in DOMAIN margins => margins'[t] = margins[t]
             /\ orders'[k].ticket = orders[k].ticket
    BY <2>1, <2>2, <2>3, <2>4, <2>5, <2>6, <2>7
  <2>8. CASE /\ t \in DOMAIN margins' /\ margins'[t] = Cost(k)
             /\ orders'[k].ticket # NoTicket
    BY <2>1, <2>3, <2>4, <2>5, <2>6, <2>8
  <2>9. CASE /\ orders'[k].ticket # NoTicket /\ ~Alive(k)
             /\ \A i \in DOMAIN toNode : About(i, k) => i = 1
    BY <1>3, <2>1, <2>3, <2>4, <2>9
  <2> QED
    BY <1>4, <2>1, <2>7, <2>8, <2>9
<1> QED
  BY <1>1, <1>4 DEF Keeping, Cost, Alive, Answered, About

\* A report: the margin of a new order leaves the cash, what a filled one did not cost,
\* or brought, comes back.
LEMMA LedgerReported ==
    ASSUME OrdersInv, CountInv, LedgerInv, toNode # << >>, toNode' = Tail(toNode),
           NEW m, m = Head(toNode), m.kind \in ReportKinds, ExecutionReport(m),
           UNCHANGED <<mode, script, toExchange, book, credit, lost, dividends>>
    PROVE  LedgerInv'
<1>1. OrdersInv' /\ Took(m)
  BY ExecutionReportKeeps
<1>2. ASSUME Sides \subseteq {"buy"}, lost = 0
      PROVE  /\ SumFunctionOnSet(cash', Accounts) + drift
                   = SumFunctionOnSet(cash, Accounts) + Due(m) + drift'
             /\ \A k \in Keys : Alive(k) \/ Answered(k) => orders'[k].qty = orders[k].qty
             /\ Keeping'
  <2>1. /\ OrdersTyped /\ Booking /\ Ticketing /\ InTurn /\ Announcing
        /\ InMarket /\ Locks /\ ClosesAnOpener /\ Keeping /\ Hears(m)
    BY <1>1, <1>2 DEF OrdersInv, Locking, LedgerInv, Took
  <2>2. /\ m \in Reports /\ m.key \in Keys /\ m = toNode[1] /\ 1 \in DOMAIN toNode
        /\ m.kind \in {"new", "partial", "filled"} /\ Sound(m)
    BY FirstIs DEF ReportKinds
  <2>3. /\ m.ticket \in Tickets /\ m.ticket # NoTicket /\ m.key = book[m.ticket].key
        /\ m.closes = book[m.ticket].closes /\ m.closes = orders[m.key].closes
        /\ m.kind = "new" =>
              /\ orders[m.key].ticket = NoTicket
              /\ m.margin = IF m.closes = NoTicket THEN Cost(m.key) ELSE 0
        /\ m.kind = "filled" => ~book[m.ticket].live
        /\ \A t \in Tickets : book[t].key = m.key => t = m.ticket
    <3>1. Reporting(m)
      BY <2>2 DEF Sound
    <3> QED
      BY <2>1, <2>2, <3>1, OrdersDomains DEF Reporting, Booking, Untouched
  <2>4. m.margin \in Nat /\ m.commission \in Nat
    BY <2>2 DEF Reports
  <2>5. Answered(m.key)
    BY <2>2 DEF Answered, About
  <2>6. \A k \in Keys : orders'[k].qty = orders[k].qty
    BY <2>2, ReportedQty
  <2>7. drift' = drift /\ drift \in Int /\ SumFunctionOnSet(cash, Accounts) \in Int
    <3>1. cash \in [Accounts -> Int] /\ drift \in Int
      BY <2>1 DEF OrdersTyped
    <3> QED
      BY <3>1, FiniteAccounts, SumInt DEF ExecutionReport
  <2>8. \A k \in Keys : orders'[k].ticket = IF k = m.key THEN m.ticket ELSE orders[k].ticket
    BY <2>1, <2>2 DEF Hears, Kept, ReportKinds
  <2>9. \A t \in Tickets, k \in Keys : k = book[t].key => (k = m.key <=> t = m.ticket)
    BY <2>3
  <2>10. ASSUME cash' = cash, margins' = margins, Due(m) = 0,
                m.closes = NoTicket => orders[m.key].ticket = m.ticket
         PROVE  /\ SumFunctionOnSet(cash', Accounts) + drift
                      = SumFunctionOnSet(cash, Accounts) + Due(m) + drift'
                /\ Keeping'
    <3>1. \A t \in Tickets, k \in Keys : book[t].closes = NoTicket /\ k = book[t].key =>
             orders'[k].ticket = orders[k].ticket
      BY <2>3, <2>8, <2>9, <2>10
    <3>2. Keeping'
      BY <1>1, <2>1, <2>6, <2>10, <3>1, KeepingTook
    <3> QED
      BY <2>7, <2>10, <3>2
  <2>11. ASSUME NEW margin \in Int, NEW fee \in Int, cash' = Appended(m.key, margin, fee),
                Due(m) = margin - fee
         PROVE  SumFunctionOnSet(cash', Accounts) + drift
                   = SumFunctionOnSet(cash, Accounts) + Due(m) + drift'
    <3>1. SumFunctionOnSet(cash', Accounts) = SumFunctionOnSet(cash, Accounts) + (margin - fee)
      BY <2>2, <2>11, CashAppended
    <3> QED
      BY <2>7, <2>11, <3>1
  <2>12. m.kind # "new" => orders[m.key].ticket = m.ticket
    <3>1. SUFFICES ASSUME m.kind # "new" PROVE orders[m.key].ticket = m.ticket
      OBVIOUS
    <3>2. Known(m.key)
      BY <1>2, <2>1, <2>2, <3>1 DEF Announcing
    <3>3. ASSUME NEW i \in DOMAIN toNode, toNode[i].kind = "new", toNode[i].key = m.key
          PROVE  FALSE
      <4>1. i # 1 /\ About(1, m.key)
        BY <2>2, <3>1, <3>3 DEF About
      <4>2. i < 1
        BY <2>1, <2>2, <3>3, <4>1 DEF InTurn
      <4> QED
        BY <2>1, <4>2, OrdersDomains
    <3>4. orders[m.key].ticket # NoTicket
      BY <3>2, <3>3 DEF Known
    <3> QED
      BY <2>1, <2>2, <2>3, <3>4 DEF Ticketing
  <2>13. CASE m.kind = "new"
    <3>1. BookNew(m)
      BY <2>13 DEF ExecutionReport
    <3>2. CASE m.closes # NoTicket
      <4>1. m.margin = 0
        BY <2>3, <2>13, <3>2
      <4>2. Due(m) = 0
        BY <2>13, <4>1 DEF Due
      <4>3. cash' = cash /\ margins' = margins
        BY <3>1, <4>1 DEF BookNew
      <4> QED
        BY <2>6, <2>10, <3>2, <4>2, <4>3
    <3>3. CASE m.closes = NoTicket
      <4>1. m.margin = Cost(m.key) /\ m.margin # 0
        BY <2>2, <2>3, <2>13, <3>3, CostIsNotZero DEF Closes
      <4>2. m.ticket \notin DOMAIN margins
        BY <2>1, <2>3, <2>13, <3>3 DEF Keeping
      <4>3. cash' = Appended(m.key, -m.margin, 0) /\ margins' = Put(margins, m.ticket, m.margin)
        BY <3>1, <4>1, <4>2 DEF BookNew
      <4>4. PICK x \in Int : x = -m.margin
        BY <2>4
      <4>5. Due(m) = x - 0 /\ cash' = Appended(m.key, x, 0)
        BY <2>13, <4>3, <4>4 DEF Due
      <4>6. \A t \in Tickets, k \in Keys : book[t].closes = NoTicket /\ k = book[t].key =>
               \/ /\ t \in DOMAIN margins' <=> t \in DOMAIN margins
                  /\ t \in DOMAIN margins => margins'[t] = margins[t]
                  /\ orders'[k].ticket = orders[k].ticket
               \/ /\ t \in DOMAIN margins' /\ margins'[t] = Cost(k)
                  /\ orders'[k].ticket # NoTicket
        BY <2>3, <2>8, <2>9, <4>1, <4>3 DEF Put
      <4>7. Keeping'
        BY <1>1, <2>1, <2>6, <4>6, KeepingTook
      <4> QED
        BY <2>6, <2>11, <4>5, <4>7
    <3> QED
      BY <3>2, <3>3
  <2>14. CASE m.kind = "partial"
    <3>1. cash' = cash /\ margins' = margins
      BY <2>14 DEF ExecutionReport
    <3>2. Due(m) = 0
      BY <2>14 DEF Due
    <3> QED
      BY <2>6, <2>10, <2>12, <2>14, <3>1, <3>2
  <2>15. CASE m.kind = "filled"
    <3>1. BookFilled(m)
      BY <2>15 DEF ExecutionReport
    <3>2. CASE m.closes = NoTicket
      <4>1. m.ticket \in DOMAIN margins /\ margins[m.ticket] = Cost(m.key)
        BY <2>1, <2>3, <2>5, <2>12, <2>15, <3>2 DEF Keeping
      <4>2. PICK c \in Nat : c = Cost(m.key)
        BY <2>1, <2>2, CostsTyped
      <4>3. PICK x \in Int : x = c - m.margin
        BY <2>4
      <4>4. /\ cash' = Appended(m.key, x, m.commission)
            /\ margins' = Put(margins, m.ticket, m.margin)
        BY <3>1, <3>2, <4>1, <4>2, <4>3 DEF BookFilled
      <4>5. Due(m) = x - m.commission
        BY <2>15, <3>2, <4>2, <4>3 DEF Due
      <4>6. ~Alive(m.key)
        BY <2>3, <2>15 DEF Alive
      <4>7. ASSUME NEW i \in DOMAIN toNode, About(i, m.key), i # 1 PROVE FALSE
        <5>1. i < 1
          BY <2>1, <2>2, <2>15, <4>7 DEF InTurn, Final
        <5> QED
          BY <2>1, <5>1, OrdersDomains
      <4>8. \A t \in Tickets, k \in Keys : book[t].closes = NoTicket /\ k = book[t].key =>
               \/ /\ t \in DOMAIN margins' <=> t \in DOMAIN margins
                  /\ t \in DOMAIN margins => margins'[t] = margins[t]
                  /\ orders'[k].ticket = orders[k].ticket
               \/ /\ orders'[k].ticket # NoTicket /\ ~Alive(k)
                  /\ \A i \in DOMAIN toNode : About(i, k) => i = 1
        BY <2>3, <2>8, <2>9, <4>4, <4>6, <4>7 DEF Put
      <4>9. Keeping'
        BY <1>1, <2>1, <2>6, <4>8, KeepingTook
      <4> QED
        BY <2>4, <2>6, <2>11, <4>4, <4>5, <4>9
    <3>3. CASE m.closes # NoTicket
      <4>1. cash' = Appended(m.key, m.margin, m.commission) /\ margins' = Drop(margins, m.closes)
        BY <3>1, <3>3 DEF BookFilled
      <4>2. Due(m) = m.margin - m.commission
        BY <2>15, <3>3 DEF Due
      <4>3. PICK x : x = Closed(m.key)
        OBVIOUS
      <4>4. /\ x \in Keys /\ x = book[m.closes].key /\ m.closes \in Tickets
            /\ orders[x].ticket # NoTicket /\ ~Closes(x) /\ x # m.key
        <5>1. Closes(m.key) /\ m.closes \in DOMAIN ticketOf /\ x = ticketOf[m.closes]
          BY <2>1, <2>2, <2>3, <3>3, <4>3 DEF Ticketing, Closes, Closed
        <5>2. x \in Keys /\ orders[x].ticket = m.closes /\ m.closes \in Tickets
          BY <5>1, TicketsAre
        <5>3. x = book[m.closes].key
          BY <2>1, <5>1 DEF Ticketing
        <5>4. ~Closes(x)
          BY <2>1, <2>2, <4>3, <5>1 DEF ClosesAnOpener
        <5> QED
          BY <3>3, <5>1, <5>2, <5>3, <5>4
      <4>5. orders[x].trading = "CLOSEING"
        BY <2>1, <2>2, <2>3, <2>5, <3>3, <4>3 DEF Locks, Pending, Closes
      <4>6. ~Alive(x) /\ ~Answered(x)
        BY <2>1, <4>4, <4>5 DEF InMarket, Over
      <4>7. \A t \in Tickets, k \in Keys : book[t].closes = NoTicket /\ k = book[t].key =>
               \/ /\ t \in DOMAIN margins' <=> t \in DOMAIN margins
                  /\ t \in DOMAIN margins => margins'[t] = margins[t]
                  /\ orders'[k].ticket = orders[k].ticket
               \/ /\ orders'[k].ticket # NoTicket /\ ~Alive(k)
                  /\ \A i \in DOMAIN toNode : About(i, k) => i = 1
        <5>1. ASSUME NEW t \in Tickets, NEW k \in Keys, book[t].closes = NoTicket, k = book[t].key
              PROVE  k # m.key /\ orders'[k].ticket = orders[k].ticket
          BY <2>3, <2>8, <2>9, <3>3, <5>1
        <5>2. ASSUME NEW t \in Tickets, t # m.closes
              PROVE  /\ t \in DOMAIN margins' <=> t \in DOMAIN margins
                     /\ t \in DOMAIN margins => margins'[t] = margins[t]
          BY <4>1, <5>2 DEF Drop
        <5>3. \A i \in DOMAIN toNode : ~About(i, x)
          BY <4>6 DEF Answered
        <5> QED
          BY <4>4, <4>6, <5>1, <5>2, <5>3
      <4>8. Keeping'
        BY <1>1, <2>1, <2>6, <4>7, KeepingTook
      <4> QED
        BY <2>4, <2>6, <2>11, <4>1, <4>2, <4>8
    <3> QED
      BY <3>2, <3>3
  <2> QED
    BY <2>2, <2>13, <2>14, <2>15
<1> QED
  BY <1>1, <1>2, LedgerTook

\* A failure changes no ticket; what it gives back is the margin that the node holds.
LEMMA FailureTook ==
    ASSUME OrdersInv, LedgerInv, toNode # << >>,
           NEW m, m \in Reports \cup Rejects, m = Head(toNode), m.kind \notin ReportKinds,
           m.key \in Keys, Took(m), OrdersInv',
           NEW ticket, NEW closes, NEW status \in {"CANCEL", "REJECT"},
           RejectOrCancelNewOrder(m.key, ticket, closes, status),
           Sides \subseteq {"buy"}, lost = 0, cash' = cash, margins' = margins, Due(m) = 0
    PROVE  /\ SumFunctionOnSet(cash', Accounts) + drift
                = SumFunctionOnSet(cash, Accounts) + Due(m) + drift'
           /\ \A k \in Keys : Alive(k) \/ Answered(k) => orders'[k].qty = orders[k].qty
           /\ Keeping'
<1>1. Hears(m) /\ Keeping /\ OrdersTyped
  BY DEF Took, LedgerInv, OrdersInv
<1>2. \A k \in Keys : orders'[k].qty = orders[k].qty
  BY FailedQty
<1>3. \A k \in Keys : orders'[k].ticket = orders[k].ticket
  <2>1. m.kind # "exdr"
    BY DEF Reports, Rejects
  <2> QED
    BY <1>1, <2>1 DEF Hears, Kept
<1>4. \A t \in Tickets : book[t].key \in Keys
  BY DEF OrdersInv, Booking
<1>5. Keeping'
  BY <1>1, <1>2, <1>3, KeepingTook
<1>6. drift' = drift /\ drift \in Int /\ SumFunctionOnSet(cash, Accounts) \in Int
  <2>1. cash \in [Accounts -> Int] /\ drift \in Int
    BY <1>1 DEF OrdersTyped
  <2> QED
    BY <2>1, FiniteAccounts, SumInt DEF RejectOrCancelNewOrder
<1> QED
  BY <1>2, <1>5, <1>6

\* A cancellation: the node gives back what it holds, as the exchange does.
LEMMA LedgerCanceled ==
    ASSUME OrdersInv, LedgerInv, toNode # << >>, toNode' = Tail(toNode),
           NEW m, m = Head(toNode), m.kind = "canceled",
           RejectOrCancelNewOrder(m.key, m.ticket, m.closes, "CANCEL"),
           UNCHANGED <<mode, script, toExchange, book, credit, lost, dividends>>
    PROVE  LedgerInv'
<1>1. OrdersInv' /\ Took(m)
  BY CanceledKeeps
<1>2. ASSUME Sides \subseteq {"buy"}, lost = 0
      PROVE  /\ SumFunctionOnSet(cash', Accounts) + drift
                   = SumFunctionOnSet(cash, Accounts) + Due(m) + drift'
             /\ \A k \in Keys : Alive(k) \/ Answered(k) => orders'[k].qty = orders[k].qty
             /\ Keeping'
  <2>1. /\ OrdersTyped /\ Booking /\ Ticketing /\ InTurn
        /\ Keeping /\ Refusing /\ Hears(m)
    BY <1>1, <1>2 DEF OrdersInv, LedgerInv, Took
  <2>2. /\ m \in Reports /\ m.key \in Keys /\ m = toNode[1] /\ 1 \in DOMAIN toNode
        /\ Sound(m) /\ m.kind # "exdr" /\ m.kind \notin ReportKinds
    BY FirstIs DEF ReportKinds
  <2>3. /\ m.ticket \in Tickets /\ m.ticket # NoTicket /\ m.key = book[m.ticket].key
        /\ m.closes = book[m.ticket].closes
        /\ ~book[m.ticket].live
        /\ \A t \in Tickets : book[t].key = m.key => t = m.ticket
    <3>1. Reporting(m)
      BY <2>2 DEF Sound
    <3> QED
      BY <2>1, <3>1, OrdersDomains DEF Reporting, Booking
  <2>4. \A k \in Keys : orders'[k].qty = orders[k].qty
    <3>1. "CANCEL" \in {"CANCEL", "REJECT"}
      OBVIOUS
    <3> QED
      BY <2>2, <3>1, FailedQty
  <2>5. drift' = drift /\ drift \in Int /\ SumFunctionOnSet(cash, Accounts) \in Int
    <3>1. cash \in [Accounts -> Int] /\ drift \in Int
      BY <2>1 DEF OrdersTyped
    <3> QED
      BY <3>1, FiniteAccounts, SumInt DEF RejectOrCancelNewOrder
  <2>6. \A k \in Keys : orders'[k].ticket = orders[k].ticket
    BY <2>1, <2>2 DEF Hears, Kept
  <2>7. ASSUME cash' = cash, margins' = margins, Due(m) = 0
        PROVE  /\ SumFunctionOnSet(cash', Accounts) + drift
                     = SumFunctionOnSet(cash, Accounts) + Due(m) + drift'
               /\ Keeping'
    <3>1. "CANCEL" \in {"CANCEL", "REJECT"} /\ m \in Reports \cup Rejects
      BY <2>2
    <3> QED
      BY <1>1, <1>2, <2>2, <2>7, <3>1, FailureTook
  <2>8. Answered(m.key) /\ ~Alive(m.key)
    BY <2>2, <2>3 DEF Answered, About, Alive
  <2>9. CASE m.closes # NoTicket
    <3>1. cash' = cash /\ margins' = margins
      BY <2>9 DEF RejectOrCancelNewOrder
    <3>2. Due(m) = 0
      BY <2>9 DEF Due
    <3> QED
      BY <2>4, <2>7, <3>1, <3>2
  <2>10. ASSUME m.closes = NoTicket
         PROVE  /\ book[m.ticket].open = 0 <=> Known(m.key)
                /\ \A j \in DOMAIN toNode : 1 < j /\ About(j, m.key) => toNode[j].kind = "reject"
    BY <2>1, <2>2, <2>10 DEF Refusing
  <2>11. CASE m.closes = NoTicket /\ m.ticket \in DOMAIN margins
    <3>1. orders[m.key].ticket # NoTicket
      BY <2>1, <2>3, <2>11 DEF Keeping
    <3>2. margins[m.ticket] = Cost(m.key)
      BY <2>1, <2>3, <2>8, <2>11, <3>1 DEF Keeping
    <3>3. Due(m) = Cost(m.key)
      <4>1. Known(m.key)
        BY <3>1 DEF Known
      <4> QED
        BY <2>10, <2>11, <4>1 DEF Due
    <3>4. PICK c \in Nat : c = Cost(m.key)
      BY <2>1, <2>2, CostsTyped
    <3>5. cash' = Appended(m.key, c, 0) /\ margins' = Drop(margins, m.ticket)
      BY <2>3, <2>11, <3>2, <3>4 DEF RejectOrCancelNewOrder
    <3>6. SumFunctionOnSet(cash', Accounts) = SumFunctionOnSet(cash, Accounts) + (c - 0)
      <4>1. c \in Int /\ 0 \in Int
        OBVIOUS
      <4> QED
        BY <2>2, <3>5, <4>1, CashAppended
    <3>7. SumFunctionOnSet(cash', Accounts) + drift
             = SumFunctionOnSet(cash, Accounts) + Due(m) + drift'
      BY <2>5, <3>3, <3>4, <3>6
    <3>8. ASSUME NEW i \in DOMAIN toNode, About(i, m.key), i # 1 PROVE FALSE
      <4>1. 1 < i
        BY <2>1, <3>8, OrdersDomains
      <4>2. toNode[i].kind = "reject" /\ toNode[i].key = m.key
        BY <2>10, <2>11, <3>8, <4>1 DEF About
      <4>3. Rejecting(toNode[i])
        BY <3>8 DEF OrdersInv, Answering, Sound
      <4> QED
        BY <3>1, <4>2, <4>3 DEF Rejecting
    <3>9. \A t \in Tickets, k \in Keys : book[t].closes = NoTicket /\ k = book[t].key =>
             \/ /\ t \in DOMAIN margins' <=> t \in DOMAIN margins
                /\ t \in DOMAIN margins => margins'[t] = margins[t]
                /\ orders'[k].ticket = orders[k].ticket
             \/ /\ orders'[k].ticket # NoTicket /\ ~Alive(k)
                /\ \A i \in DOMAIN toNode : About(i, k) => i = 1
      BY <2>2, <2>3, <2>6, <2>8, <3>1, <3>5, <3>8 DEF Drop
    <3>10. Keeping'
      BY <1>1, <2>1, <2>4, <3>9, KeepingTook
    <3> QED
      BY <2>4, <3>7, <3>10
  <2>12. CASE m.closes = NoTicket /\ m.ticket \notin DOMAIN margins
    <3>1. cash' = cash /\ margins' = margins
      BY <2>3, <2>12 DEF RejectOrCancelNewOrder
    <3>2. orders[m.key].ticket = NoTicket
      BY <2>1, <2>3, <2>8, <2>12 DEF Keeping
    <3>3. ASSUME NEW i \in DOMAIN toNode, toNode[i].kind = "new", toNode[i].key = m.key
          PROVE  FALSE
      <4>1. i # 1 /\ About(1, m.key)
        BY <2>2, <3>3 DEF About
      <4>2. i < 1
        BY <2>1, <2>2, <3>3, <4>1 DEF InTurn
      <4> QED
        BY <2>1, <4>2, OrdersDomains
    <3>4. ~Known(m.key)
      BY <3>2, <3>3 DEF Known
    <3>5. Due(m) = 0
      BY <2>10, <2>12, <3>4 DEF Due
    <3> QED
      BY <2>4, <2>7, <3>1, <3>5
  <2> QED
    BY <2>9, <2>11, <2>12
<1> QED
  BY <1>1, <1>2, LedgerTook

\* A refusal: of an order that has no ticket the node holds no margin.
LEMMA LedgerRejected ==
    ASSUME OrdersInv, LedgerInv, toNode # << >>, toNode' = Tail(toNode),
           NEW m, m = Head(toNode), m.kind = "reject", OrderCancelReject(m),
           UNCHANGED <<mode, script, toExchange, book, credit, lost, dividends>>
    PROVE  LedgerInv'
<1>1. OrdersInv' /\ Took(m)
  BY OrderCancelRejectKeeps
<1>2. ASSUME Sides \subseteq {"buy"}, lost = 0
      PROVE  /\ SumFunctionOnSet(cash', Accounts) + drift
                   = SumFunctionOnSet(cash, Accounts) + Due(m) + drift'
             /\ \A k \in Keys : Alive(k) \/ Answered(k) => orders'[k].qty = orders[k].qty
             /\ Keeping'
  <2>1. OrdersTyped /\ Booking /\ Ticketing /\ Buying /\ Keeping
    BY <1>2 DEF OrdersInv, Locking, LedgerInv
  <2>2. /\ m \in Reports \cup Rejects /\ m.key \in Keys /\ Rejecting(m)
        /\ m.kind \notin ReportKinds
    BY FirstIs DEF Sound, ReportKinds
  <2>3. Due(m) = 0
    BY DEF Due
  <2>4. CASE Closes(m.key)
    <3>1. m.responseTo = "2" /\ m.ticket # NoTicket
      BY <2>1, <2>2, <2>4 DEF Buying, Rejecting, Closes
    <3>2. RejectOrCancelNewOrder(m.key, NoTicket, m.ticket, "REJECT")
      BY <3>1 DEF OrderCancelReject
    <3>3. cash' = cash /\ margins' = margins
      BY <3>1, <3>2 DEF RejectOrCancelNewOrder
    <3>4. "REJECT" \in {"CANCEL", "REJECT"}
      OBVIOUS
    <3> QED
      BY <1>1, <1>2, <2>2, <2>3, <3>2, <3>3, <3>4, FailureTook
  <2>5. CASE ~Closes(m.key)
    <3>1. m.responseTo = "1" /\ orders[m.key].ticket = NoTicket
      BY <2>1, <2>2, <2>5 DEF Buying, Rejecting
    <3>2. RejectOrCancelNewOrder(m.key, m.ticket, NoTicket, "REJECT")
      BY <3>1 DEF OrderCancelReject
    <3>3. m.ticket \notin DOMAIN margins
      <4>1. SUFFICES ASSUME m.ticket \in DOMAIN margins PROVE FALSE
        OBVIOUS
      <4>2. m.ticket \in Tickets /\ m.ticket # NoTicket
        BY <2>1, <4>1, OrdersDomains DEF Ticketing
      <4>3. book[m.ticket].key = m.key
        BY <2>2, <2>5, <4>2 DEF Rejecting, Closes
      <4>4. book[m.ticket].closes = NoTicket
        BY <2>1, <2>5, <4>2, <4>3 DEF Booking, Closes
      <4> QED
        BY <2>1, <3>1, <4>1, <4>2, <4>3, <4>4 DEF Keeping
    <3>4. cash' = cash /\ margins' = margins
      BY <3>2, <3>3 DEF RejectOrCancelNewOrder
    <3>5. "REJECT" \in {"CANCEL", "REJECT"}
      OBVIOUS
    <3> QED
      BY <1>1, <1>2, <2>2, <2>3, <3>2, <3>4, <3>5, FailureTook
  <2> QED
    BY <2>4, <2>5
<1> QED
  BY <1>1, <1>2, LedgerTook

\* A dividend: what the accounts are paid is what the exchange paid, but for the drift.
LEMMA LedgerPaid ==
    ASSUME OrdersInv, LedgerInv, toNode # << >>, toNode' = Tail(toNode),
           NEW m, m = Head(toNode), m.kind = "exdr", QuoteStatusReport(m),
           UNCHANGED <<mode, script, toExchange, book, credit, lost, dividends>>
    PROVE  LedgerInv'
<1>1. OrdersInv' /\ Took(m)
  BY QuoteStatusReportKeeps
<1>2. ASSUME Sides \subseteq {"buy"}, lost = 0
      PROVE  /\ SumFunctionOnSet(cash', Accounts) + drift
                   = SumFunctionOnSet(cash, Accounts) + Due(m) + drift'
             /\ \A k \in Keys : Alive(k) \/ Answered(k) => orders'[k].qty = orders[k].qty
             /\ Keeping'
  <2>1. OrdersTyped /\ Booking /\ Buying /\ InMarket /\ Keeping /\ Hears(m)
    BY <1>1, <1>2 DEF OrdersInv, Locking, LedgerInv, Took
  <2>2. m.paid \in Int
    <3>1. m \in Exdrs
      BY FirstIs
    <3> QED
      BY <3>1 DEF Exdrs
  <2>3. PICK paid : paid = {key \in Keys : /\ orders[key].ticket \in m.tickets
                                           /\ orders[key].side = "buy"
                                           /\ orders[key].trading = "MARKET"}
    OBVIOUS
  <2>4. PICK parts : parts = [key \in Keys |-> orders[key].qty * m.cash]
    OBVIOUS
  <2>5. PICK of : of = [a \in Accounts |->
                          SumFunctionOnSet(parts, {key \in paid : Owner(key) = a})]
    OBVIOUS
  <2>6. /\ cash' = [a \in Accounts |-> cash[a] + of[a]]
        /\ \A k \in Keys \ paid : orders'[k] = orders[k]
        /\ drift' = drift + SumFunctionOnSet(of, Accounts) - m.paid
        /\ margins' = margins
    BY <2>3, <2>4, <2>5 DEF QuoteStatusReport
  <2>7. cash \in [Accounts -> Int] /\ cash' \in [Accounts -> Int] /\ drift \in Int
    BY <1>1, <2>1 DEF OrdersTyped, Took, Accounts
  <2>8. PICK A, f, g : A = Accounts /\ f = cash /\ g = cash'
    OBVIOUS
  <2>9. \A a \in A : f[a] \in Int /\ of[a] \in Int /\ g[a] = f[a] + of[a]
    <3>1. \A k \in Keys : parts[k] \in Int
      <4>1. ASSUME NEW k \in Keys PROVE parts[k] \in Int
        <5>1. orders[k] \in OrderRecord
          BY <2>1, OrdersDomains
        <5>2. PICK x \in Nat, y \in Nat : x = orders[k].qty /\ y = m.cash
          <6>1. m \in Exdrs
            BY FirstIs
          <6> QED
            BY <5>1, <6>1 DEF OrderRecord, Exdrs
        <5>3. x * y \in Int
          OBVIOUS
        <5> QED
          BY <2>4, <5>2, <5>3
      <4> QED
        BY <4>1
    <3>2. IsFiniteSet(Keys)
      BY <2>1, OrdersDomains, FS_Interval
    <3>3. ASSUME NEW a \in Accounts PROVE of[a] \in Int
      <4>1. PICK S : S = {key \in paid : Owner(key) = a}
        OBVIOUS
      <4>2. S \subseteq Keys
        BY <2>3, <4>1
      <4>3. IsFiniteSet(S) /\ \A k \in S : parts[k] \in Int
        BY <3>1, <3>2, <4>2, FS_Subset
      <4> QED
        BY <2>5, <4>1, <4>3, SumInt
    <3> QED
      BY <2>6, <2>7, <2>8, <3>3
  <2>10. SumFunctionOnSet(g, A) = SumFunctionOnSet(f, A) + SumFunctionOnSet(of, A)
    BY <2>8, <2>9, FiniteAccounts, SumOfSums
  <2>11. SumFunctionOnSet(f, A) \in Int /\ SumFunctionOnSet(of, A) \in Int
    BY <2>8, <2>9, FiniteAccounts, SumInt
  <2>12. Due(m) = m.paid
    BY DEF Due
  <2>13. SumFunctionOnSet(cash', Accounts) + drift
             = SumFunctionOnSet(cash, Accounts) + Due(m) + drift'
    <3>1. PICK x, y, z, p, d, e : /\ x = SumFunctionOnSet(f, A) /\ y = SumFunctionOnSet(of, A)
                                  /\ z = SumFunctionOnSet(g, A) /\ p = m.paid
                                  /\ d = drift /\ e = drift'
      OBVIOUS
    <3>2. /\ x \in Int /\ y \in Int /\ p \in Int /\ d \in Int
          /\ z = x + y /\ e = d + y - p
      BY <2>2, <2>6, <2>7, <2>8, <2>10, <2>11, <3>1
    <3>3. z + d = x + p + e
      BY ONLY <3>2
    <3> QED
      BY <2>8, <2>12, <3>1, <3>3
  <2>14. ASSUME NEW k \in Keys, Alive(k) \/ Answered(k) PROVE orders'[k].qty = orders[k].qty
    <3>1. k \notin paid
      BY <2>1, <2>3, <2>14 DEF Buying, InMarket, Over
    <3> QED
      BY <2>6, <3>1
  <2>15. \A k \in Keys : orders'[k].ticket = orders[k].ticket
    BY <2>1 DEF Hears, Kept
  <2>16. Keeping'
    BY <1>1, <2>1, <2>6, <2>14, <2>15, KeepingTook
  <2> QED
    BY <2>13, <2>14, <2>16
<1> QED
  BY <1>1, <1>2, LedgerTook

LEMMA LedgerHeard == ASSUME OrdersInv, CountInv, LedgerInv, FromApp PROVE LedgerInv'
<1>1. PICK m : m = Head(toNode)
  OBVIOUS
<1>2. /\ toNode # << >> /\ toNode' = Tail(toNode) /\ m = Head(toNode)
      /\ UNCHANGED <<mode, script, toExchange, book, credit, lost, dividends>>
  BY <1>1 DEF FromApp
<1>3. \/ m.kind \in ReportKinds /\ ExecutionReport(m)
      \/ /\ m.kind = "canceled"
         /\ RejectOrCancelNewOrder(m.key, m.ticket, m.closes, "CANCEL")
      \/ m.kind = "reject" /\ OrderCancelReject(m)
      \/ m.kind = "exdr" /\ QuoteStatusReport(m)
  BY <1>1 DEF FromApp, ReportKinds
<1>4. CASE m.kind \in ReportKinds /\ ExecutionReport(m)
  BY <1>2, <1>4, LedgerReported
<1>5. CASE /\ m.kind = "canceled"
           /\ RejectOrCancelNewOrder(m.key, m.ticket, m.closes, "CANCEL")
  BY <1>2, <1>5, LedgerCanceled
<1>6. CASE m.kind = "reject" /\ OrderCancelReject(m)
  BY <1>2, <1>6, LedgerRejected
<1>7. CASE m.kind = "exdr" /\ QuoteStatusReport(m)
  BY <1>2, <1>7, LedgerPaid
<1> QED
  BY <1>3, <1>4, <1>5, <1>6, <1>7

LEMMA LedgerNext == OrdersInv /\ CountInv /\ LedgerInv /\ [Next]_vars => LedgerInv'
<1> SUFFICES ASSUME OrdersInv, CountInv, LedgerInv, [Next]_vars PROVE LedgerInv'
  OBVIOUS
<1>0. OrdersInv'
  BY OrdersNext
<1>1. ASSUME UNCHANGED <<mode, orders, cash, margins, toNode, book, credit, drift, lost>>
      PROVE  LedgerInv'
  <2>1. Keys' = Keys /\ Tickets' = Tickets /\ Accounts' = Accounts
    BY <1>1 DEF Keys, Tickets, Accounts
  <2>2. \A k : /\ Cost(k)' = Cost(k) /\ (Alive(k)' <=> Alive(k))
               /\ (Answered(k)' <=> Answered(k)) /\ (Known(k)' <=> Known(k))
    BY <1>1, <2>1 DEF Cost, Equity, Alive, Answered, About, Known
  <2>3. Charging => Charging'
    BY <1>1, <2>1 DEF Charging, Cost, Equity
  <2>4. Keeping => Keeping'
    BY <1>1, <2>1 DEF Keeping, Cost, Equity, Alive, Answered, About
  <2>5. Refusing => Refusing'
    BY <1>1, <2>1 DEF Refusing, Known, About
  <2>6. Dues' = Dues
    BY <1>1 DEF Dues, Due, Cost, Equity
  <2>7. Mirroring => Mirroring'
    <3> HIDE DEF Dues, Accounts
    <3> QED
      BY <1>1, <2>1, <2>6 DEF Mirroring
  <2> QED
    BY <1>1, <2>3, <2>4, <2>5, <2>7 DEF LedgerInv
<1>2. CASE Script
  <2>1. ASSUME NEW t \in Threads, NEW side \in Sides, NEW p \in Prices,
               NEW q \in Quantities, OrderSendTest(t, side, p, q)
        PROVE  LedgerInv'
    BY <1>1, <2>1 DEF OrderSendTest, node, exchange
  <2>2. ASSUME NEW t \in Threads, OrderSend(t) PROVE LedgerInv'
    <3>1. mode' = mode
      BY <2>2 DEF OrderSend
    <3> QED
      BY <1>0, <2>2, <3>1, OrderSendKeeps, LedgerSent
  <2>3. ASSUME NEW key \in Keys, NEW lots \in 1 .. orders[key].qty, OrderClose(key, lots)
        PROVE  LedgerInv'
    <3>1. mode' = mode
      BY <2>3 DEF OrderClose
    <3> QED
      BY <1>0, <2>3, <3>1, OrderCloseKeeps, LedgerSent
  <2> QED
    BY <1>2, <2>1, <2>2, <2>3 DEF Script
<1>3. CASE Lob
  BY <1>0, <1>3, LobKeeps, LedgerExchanged
<1>4. CASE Feed
  <2>1. ASSUME NEW t \in Tickets, NEW p \in Prices, NEW q \in 1 .. book[t].leaves,
               Execute(t, p, q)
        PROVE  LedgerInv'
    BY <1>0, <2>1, ExecuteKeeps, LedgerExchanged
  <2>2. ASSUME NEW t \in Tickets, Cancel(t) PROVE LedgerInv'
    BY <1>0, <2>2, CancelKeeps, LedgerExchanged
  <2>3. ASSUME NEW amount \in Dividends, NEW split \in Splits, AddExdrCash(amount, split)
        PROVE  LedgerInv'
    BY <1>0, <2>3, AddExdrCashKeeps, LedgerExchanged
  <2> QED
    BY <1>4, <2>1, <2>2, <2>3 DEF Feed
<1>5. CASE FromApp
  BY <1>5, LedgerHeard
<1>6. CASE UNCHANGED vars
  BY <1>1, <1>6 DEF vars
<1> QED
  BY <1>2, <1>3, <1>4, <1>5, <1>6 DEF Next

\* What the broker grants is shared out to the accounts.
LEMMA GrantShared ==
    ASSUME Init, Split \subseteq {FALSE} \/ Deposit % Cardinality(Threads) = 0
    PROVE  SumFunctionOnSet(cash, Accounts) = Deposit
<1>1. IsFiniteSet(Accounts) /\ Accounts # {} /\ Deposit \in Nat
  BY FiniteAccounts, TraderNodeAssumption
<1>2. Cardinality(Accounts) \in Nat \ {0}
  BY <1>1, FS_CardinalityType, FS_EmptySet
<1>3. PICK n \in Nat \ {0} : n = Cardinality(Accounts)
  BY <1>2
<1>4. PICK c : c = Deposit \div n
  OBVIOUS
<1>5. c \in Int /\ Deposit = n * c + (Deposit % n)
  <2>1. PICK d \in Nat : d = Deposit
    BY <1>1
  <2>2. d \div n \in Int /\ d = n * (d \div n) + (d % n)
    BY DivMod
  <2> QED
    BY <1>4, <2>1, <2>2
<1>6. Deposit % n = 0
  <2>1. CASE mode.split
    <3>1. mode.split \in Split
      BY DEF Init
    <3>2. n = Cardinality(Threads)
      BY <1>3, <2>1 DEF Accounts
    <3> QED
      BY <2>1, <3>1, <3>2
  <2>2. CASE ~mode.split
    <3>1. n = 1
      BY <1>3, <2>2, FS_Singleton DEF Accounts
    <3> QED
      BY <1>1, <3>1
  <2> QED
    BY <2>1, <2>2
<1>7. \A a \in Accounts : cash[a] = c
  BY <1>3, <1>4 DEF Init
<1>8. SumFunctionOnSet(cash, Accounts) = c * n
  <2>1. PICK f, A : f = cash /\ A = Accounts
    OBVIOUS
  <2>2. SumFunctionOnSet(f, A) = c * Cardinality(A)
    BY <1>1, <1>5, <1>7, <2>1, SumConstant
  <2> QED
    BY <1>3, <2>1, <2>2
<1>9. c * n = n * c /\ n * c \in Int
  BY <1>5
<1> QED
  BY <1>1, <1>5, <1>6, <1>8, <1>9

LEMMA LedgerInit ==
    ASSUME Split \subseteq {FALSE} \/ Deposit % Cardinality(Threads) = 0
    PROVE  Init => LedgerInv
<1> SUFFICES ASSUME Init PROVE LedgerInv
  OBVIOUS
<1>1. toNode = << >> /\ book = << >> /\ credit = Deposit /\ drift = 0
  BY DEF Init
<1>2. DOMAIN toNode = {} /\ Tickets = {}
  BY <1>1 DEF Tickets
<1>3. Charging /\ Keeping /\ Refusing
  BY <1>2 DEF Charging, Keeping, Refusing
<1>4. SumFunctionOnSet(cash, Accounts) = Deposit /\ Deposit \in Nat
  BY GrantShared, TraderNodeAssumption
<1>5. SumFunctionOnSet(Dues, DOMAIN toNode) = 0
  BY <1>2, SumEmpty
<1>6. Mirroring
  BY <1>1, <1>4, <1>5 DEF Mirroring
<1> QED
  BY <1>3, <1>6 DEF LedgerInv

\* Of a node that buys first and has heard every report, the cash is the exchange's
\* once nothing is on its way, whatever requests and reports crossed before (BookNew,
\* FixAccount::ost_Filled, RejectOrCancelNewOrder, QuoteStatusReport).  The broker's
\* grant must divide among the accounts, which whole numbers do not do by themselves.
THEOREM CashMirrorsLedger ==
    ASSUME Sides \subseteq {"buy"},
           Split \subseteq {FALSE} \/ Deposit % Cardinality(Threads) = 0
    PROVE  Spec => []MirrorsLedger
<1>1. Init => LedgerInv
  BY LedgerInit
<1>2. OrdersInv /\ CountInv /\ LedgerInv /\ [Next]_vars => LedgerInv'
  BY LedgerNext
<1>3. ASSUME OrdersInv, LedgerInv, toNode = << >>, lost = 0
      PROVE  SumFunctionOnSet(cash, Accounts) = credit + drift
  <2>1. DOMAIN toNode = {}
    BY <1>3
  <2>2. SumFunctionOnSet(Dues, DOMAIN toNode) = 0
    BY <2>1, SumEmpty
  <2>3. SumFunctionOnSet(cash, Accounts) \in Int
    BY <1>3, FiniteAccounts, SumInt DEF OrdersInv, OrdersTyped
  <2> QED
    BY <1>3, <2>2, <2>3 DEF LedgerInv, Mirroring
<1>4. OrdersInv /\ LedgerInv => MirrorsLedger
  BY <1>3 DEF MirrorsLedger, Quiet
<1> QED
  BY <1>1, <1>2, <1>4, OrdersFitTogether, ExecutedCanBeClosed, PTL DEF Spec

\* All that the runs check of the orders of a node that buys first: its books tell what
\* the ledger tells, and its scripts read what there is (MirrorsLedger,
\* FrozenForUnanswered, ScansOrders, ReadsAccount).
THEOREM CashIsRight ==
    ASSUME Sides \subseteq {"buy"},
           Split \subseteq {FALSE} \/ Deposit % Cardinality(Threads) = 0
    PROVE  Spec => []CashInv
<1>1. Spec => []MirrorsLedger
  BY CashMirrorsLedger
<1>2. TypeOK /\ MirrorsLedger /\ FrozenForUnanswered /\ ScansOrders /\ ReadsAccount
      => CashInv
  BY DEF CashInv
<1> QED
  BY <1>1, <1>2, TypeCorrect, FrozenIsUnanswered, EveryTicketIsScanned, AccountIsRead, PTL

-----------------------------------------------------------------------------
(****************************************************************************)
(* The user's own data.                                                     *)
(*                                                                          *)
(* A reader takes no mutex.  What it may trust is that the number counts the *)
(* groups opened since it looked (Read), and that the writer goes through the *)
(* places in order, so that beyond its position the values are those of the  *)
(* group before, and elsewhere those of the last one (Filling).              *)
(****************************************************************************)

Values == UNION {[0..n - 1 -> Nat] : n \in GroupSizes}
Entries == [number : Nat, values : Values]
Pushes == [at : {"push"}, idx : Indexes, size : GroupSizes, pos : Nat]

\* What there is of an index has come, and the writer is inside a group.
CustomTyped ==
    /\ store \in [DOMAIN store -> Entries]
    /\ DOMAIN store \subseteq Indexes
    /\ came \in [Indexes -> [groups : Nat, even : BOOLEAN]]
    /\ \A i \in Indexes : came[i].groups >= 1 <=> i \in DOMAIN store
    /\ sent \in Seq([idx : Indexes, size : GroupSizes])
    /\ writer \in Pushes \cup {NotWriting}

\* The writer has places left, and they are those of the group if all are as large.
Pushing ==
    writer.at = "push" =>
        /\ writer.idx \in DOMAIN store /\ writer.pos < writer.size
        /\ came[writer.idx].even => writer.size = Size(writer.idx)

Beyond(i, p) == writer.at = "push" /\ writer.idx = i /\ p >= writer.pos

\* A place beyond the writer's has the value of the group before.
Filling ==
    \A i \in DOMAIN store : \A p \in DOMAIN store[i].values :
        /\ store[i].values[p] \in 0..came[i].groups
        /\ came[i].even => store[i].values[p] >= came[i].groups - 1
        /\ came[i].even /\ ~Beyond(i, p) => store[i].values[p] = came[i].groups

ReadRecently ==
    \A p \in DOMAIN reader.values : reader.values[p] \in {reader.from - 1, reader.from}

\* The number has grown with the groups since the reader looked.
Reading ==
    /\ reader.at \in {"idle", "get", "done"}
    /\ reader.values \in Seq(Nat) /\ reader.number \in Nat
    /\ reader.from \in Nat /\ reader.again \in Nat
    /\ reader.at # "idle" =>
          /\ reader.idx \in DOMAIN store /\ reader.from <= came[reader.idx].groups
          /\ store[reader.idx].number - reader.number
                = came[reader.idx].groups - reader.from
    /\ reader.at = "get" /\ came[reader.idx].even
       /\ came[reader.idx].groups = reader.from => ReadRecently
    /\ reader.at = "done" /\ came[reader.idx].even
       /\ reader.again = reader.number => ReadRecently

CustomIInv == CustomTyped /\ Pushing /\ Filling /\ Reading

\* A group of n values has the places 0 .. n - 1.
LEMMA SizeOfValues ==
    ASSUME NEW values \in Values
    PROVE  /\ Cardinality(DOMAIN values) \in GroupSizes
           /\ Cardinality(DOMAIN values) \in Nat \ {0}
           /\ DOMAIN values = 0..Cardinality(DOMAIN values) - 1
           /\ values \in [DOMAIN values -> Nat]
<1>1. PICK n \in GroupSizes : values \in [0..n - 1 -> Nat]
  BY DEF Values
<1>2. n \in Nat \ {0}
  BY CustomAssumption
<1>3. DOMAIN values = 0..n - 1
  BY <1>1
<1>4. Cardinality(0..n - 1) = (n - 1) - 0 + 1
  BY <1>2, FS_Interval
<1> QED
  BY <1>1, <1>2, <1>3, <1>4

\* The same of an index of the store.
LEMMA SizeOfIndex ==
    ASSUME CustomTyped, NEW i \in DOMAIN store
    PROVE  /\ store[i] \in Entries
           /\ Size(i) \in GroupSizes /\ Size(i) \in Nat \ {0}
           /\ DOMAIN store[i].values = 0..Size(i) - 1
           /\ store[i].values \in [DOMAIN store[i].values -> Nat]
           /\ i \in Indexes /\ came[i] \in [groups : Nat, even : BOOLEAN]
<1>1. store[i] \in Entries /\ store[i].values \in Values
  BY DEF CustomTyped, Entries
<1> QED
  BY <1>1, SizeOfValues DEF Size, CustomTyped

LEMMA CustomStarts == CustomInit => CustomIInv
<1> SUFFICES ASSUME CustomInit PROVE CustomIInv
  OBVIOUS
<1>1. store = [i \in {} |-> NotWriting] /\ DOMAIN store = {}
  BY DEF CustomInit
<1>2. CustomTyped
  BY <1>1 DEF CustomInit, CustomTyped
<1> QED
  BY <1>1, <1>2
  DEF CustomInit, CustomIInv, Pushing, Filling, Reading, NotWriting, NotReading

\* A group is opened: the values there are those of the group before.
LEMMA OpenGroupKeeps ==
    ASSUME CustomIInv, BidResponse
    PROVE  CustomIInv'
<1>2. CustomTyped /\ Pushing /\ Filling /\ Reading
  BY DEF CustomIInv
<1>3. /\ Head(sent) \in [idx : Indexes, size : GroupSizes]
      /\ Tail(sent) \in Seq([idx : Indexes, size : GroupSizes])
  <2>1. sent # << >> /\ sent \in Seq([idx : Indexes, size : GroupSizes])
    BY <1>2 DEF BidResponse, CustomTyped
  <2> QED
    BY <2>1, HeadTailProperties
<1>4. PICK i \in Indexes, n \in GroupSizes : Head(sent).idx = i /\ Head(sent).size = n
  BY <1>3
<1>1. /\ writer.at = "idle" /\ sent # << >> /\ sent' = Tail(sent)
      /\ store' = Opened(i, n)
      /\ writer' = [at |-> "push", idx |-> i, size |-> n, pos |-> 0]
      /\ came' = [came EXCEPT
            ![i] = [groups |-> @.groups + 1,
                    even |-> @.even /\ (i \in DOMAIN store => n = Size(i))]]
      /\ reader' = reader
  BY <1>4 DEF BidResponse, OpenGroup
<1> n \in Nat \ {0}
  BY CustomAssumption
<1>5. DOMAIN store' = DOMAIN store \cup {i}
  BY <1>1 DEF Opened
<1>6. ASSUME NEW x \in DOMAIN store
      PROVE  /\ store'[x].values = store[x].values
             /\ store'[x].number = IF x = i THEN store[x].number + 1
                                   ELSE store[x].number
             /\ store'[x] \in Entries
  <2>1. store[x] \in Entries
    BY <1>2, SizeOfIndex
  <2>2. store'[x] = IF x = i THEN [store[x] EXCEPT !.number = @ + 1] ELSE store[x]
    BY <1>1 DEF Opened
  <2> QED
    BY <2>1, <2>2 DEF Entries
<1>7. ASSUME i \notin DOMAIN store
      PROVE  /\ store'[i] \in Entries
             /\ store'[i].values = [p \in 0..n - 1 |-> 0]
  <2>1. store'[i] = New(n)
    BY <1>1, <1>7 DEF Opened
  <2>2. [p \in 0..n - 1 |-> 0] \in Values
    BY <1>4 DEF Values
  <2> QED
    BY <2>1, <2>2 DEF New, Entries
<1>8. /\ came'[i].groups = came[i].groups + 1
      /\ came'[i].even = (came[i].even /\ (i \in DOMAIN store => n = Size(i)))
      /\ \A x \in Indexes \ {i} : came'[x] = came[x]
      /\ came' \in [Indexes -> [groups : Nat, even : BOOLEAN]]
      /\ came[i].groups \in Nat /\ came[i].even \in BOOLEAN
  <2>1. came \in [Indexes -> [groups : Nat, even : BOOLEAN]]
    BY <1>2 DEF CustomTyped
  <2> QED
    BY <1>1, <1>4, <2>1
<1>9. CustomTyped'
  <2>1. \A x \in DOMAIN store' : store'[x] \in Entries
    <3> TAKE x \in DOMAIN store'
    <3>1. CASE x \in DOMAIN store
      BY <1>6, <3>1
    <3>2. CASE x = i /\ i \notin DOMAIN store
      BY <1>7, <3>2
    <3> QED
      BY <1>5, <3>1, <3>2
  <2>5. \A x \in Indexes : came'[x].groups >= 1 <=> x \in DOMAIN store'
    <3> TAKE x \in Indexes
    <3>1. CASE x = i
      BY <1>5, <1>8, <3>1
    <3>2. CASE x # i
      BY <1>2, <1>5, <1>8, <3>2 DEF CustomTyped
    <3> QED
      BY <3>1, <3>2
  <2>2. store' \in [DOMAIN store' -> Entries]
    BY <1>1, <2>1 DEF Opened
  <2>3. DOMAIN store' \subseteq Indexes
    BY <1>2, <1>4, <1>5 DEF CustomTyped
  <2>4. writer' \in Pushes
    BY <1>1, <1>4 DEF Pushes
  <2>6. sent' \in Seq([idx : Indexes, size : GroupSizes])
    BY <1>1, <1>3
  <2> QED
    BY <1>8, <2>2, <2>3, <2>4, <2>5, <2>6 DEF CustomTyped
<1>10. ASSUME NEW x \in DOMAIN store PROVE Size(x)' = Size(x)
  BY <1>6, <1>10 DEF Size
<1>11. Pushing'
  <2>1. ASSUME i \notin DOMAIN store PROVE Size(i)' = n
    <3>1. DOMAIN (store'[i].values) = 0..n - 1
      BY <1>7, <2>1
    <3>2. Cardinality(0..n - 1) = n
      BY <1>4, FS_Interval
    <3> QED
      BY <3>1, <3>2 DEF Size
  <2>2. came'[i].even => n = Size(i)'
    BY <1>8, <1>10, <2>1
  <2>3. writer'.idx = i /\ writer'.size = n /\ writer'.pos = 0
    BY <1>1
  <2> QED
    BY <1>4, <1>5, <2>2, <2>3 DEF Pushing
<1>12. Filling'
  <2>1. SUFFICES ASSUME NEW x \in DOMAIN store', NEW p \in DOMAIN store'[x].values
                 PROVE  /\ store'[x].values[p] \in 0..came'[x].groups
                        /\ came'[x].even => store'[x].values[p] >= came'[x].groups - 1
                        /\ came'[x].even /\ ~Beyond(x, p)'
                              => store'[x].values[p] = came'[x].groups
    BY DEF Filling
  <2>2. CASE x \in DOMAIN store
    <3>1. /\ store[x].values[p] \in 0..came[x].groups
          /\ came[x].even => store[x].values[p] = came[x].groups
          /\ store'[x].values = store[x].values
          /\ came[x].groups \in Nat
      BY <1>1, <1>2, <1>6, <2>1, <2>2, SizeOfIndex DEF Filling, Beyond
    <3>2. CASE x = i
      <4>1. Beyond(x, p)'
        <5>1. p \in 0..Size(x) - 1
          BY <1>2, <2>1, <2>2, <3>1, SizeOfIndex
        <5> QED
          BY <1>1, <1>2, <2>2, <3>2, <5>1, SizeOfIndex DEF Beyond
      <4> QED
        BY <1>8, <3>1, <3>2, <4>1
    <3>3. CASE x # i
      BY <1>2, <1>8, <2>2, <3>1, <3>3 DEF CustomTyped
    <3> QED
      BY <3>2, <3>3
  <2>3. CASE x = i /\ i \notin DOMAIN store
    <3>1. store'[x].values[p] = 0 /\ p \in 0..n - 1
      BY <1>7, <2>1, <2>3
    <3>2. Beyond(x, p)'
      BY <1>1, <1>4, <2>3, <3>1 DEF Beyond
    <3>3. came[x].groups = 0
      BY <1>2, <1>8, <2>3 DEF CustomTyped
    <3>4. came'[x].groups = 1
      BY <1>8, <2>3, <3>3
    <3> QED
      BY <3>1, <3>2, <3>4
  <2> QED
    BY <1>5, <2>1, <2>2, <2>3
<1>13. Reading'
  <2>1. CASE reader.at = "idle"
    BY <1>1, <1>2, <2>1 DEF Reading
  <2>2. CASE reader.at # "idle"
    <3>1. PICK j \in DOMAIN store : reader.idx = j
      BY <1>2, <2>2 DEF Reading
    <3>2. /\ store[j].number \in Nat /\ j \in Indexes
          /\ came[j].groups \in Nat /\ came[j].even \in BOOLEAN
      BY <1>2, SizeOfIndex DEF Entries
    <3>3. /\ store'[j].number = IF j = i THEN store[j].number + 1 ELSE store[j].number
          /\ came'[j].groups = IF j = i THEN came[j].groups + 1 ELSE came[j].groups
          /\ came'[j].even => came[j].even
          /\ j \in DOMAIN store'
      BY <1>5, <1>6, <1>8, <3>2
    <3>4. ReadRecently' <=> ReadRecently
      BY <1>1 DEF ReadRecently
    <3>5. /\ reader' = reader /\ reader.from \in Nat /\ reader.number \in Nat
          /\ reader.from <= came[j].groups
          /\ store[j].number - reader.number = came[j].groups - reader.from
      BY <1>1, <1>2, <2>2, <3>1 DEF Reading
    <3>6. /\ reader.from <= came'[j].groups
          /\ store'[j].number - reader.number = came'[j].groups - reader.from
          /\ came'[j].groups = reader.from => came[j].groups = reader.from
      BY <3>2, <3>3, <3>5
    <3>7. /\ reader.at = "get" /\ came'[j].even /\ came'[j].groups = reader.from
               => ReadRecently
          /\ reader.at = "done" /\ came'[j].even /\ reader.again = reader.number
               => ReadRecently
      BY <1>2, <3>1, <3>3, <3>6 DEF Reading
    <3> QED
      BY <1>2, <3>1, <3>3, <3>4, <3>5, <3>6, <3>7 DEF Reading
  <2> QED
    BY <2>1, <2>2
<1> QED
  BY <1>9, <1>11, <1>12, <1>13 DEF CustomIInv

\* A value is written: it is the last one's, at the writer's place.
LEMMA PushBackKeeps ==
    ASSUME CustomIInv, PushBack
    PROVE  CustomIInv'
<1>1. CustomTyped /\ Pushing /\ Filling /\ Reading /\ writer.at = "push"
  BY DEF CustomIInv, PushBack
<1>2. writer \in Pushes
  BY <1>1 DEF CustomTyped, NotWriting
<1>3. PICK i \in DOMAIN store, n \in GroupSizes, k \in Nat :
        i = writer.idx /\ n = writer.size /\ k = writer.pos
  BY <1>1, <1>2 DEF Pushes, Pushing
<1>4. PICK s : s = Size(i)
  OBVIOUS
<1>5. PICK g : g = came[i].groups
  OBVIOUS
<1>6. /\ s \in Nat \ {0} /\ n \in Nat \ {0} /\ k < n
      /\ g \in Nat /\ came[i].even \in BOOLEAN /\ i \in Indexes
      /\ store[i] \in Entries /\ DOMAIN store[i].values = 0..s - 1
      /\ store[i].values \in [0..s - 1 -> Nat]
      /\ came[i].even => n = s
  BY <1>1, <1>3, <1>4, <1>5, SizeOfIndex, CustomAssumption DEF Pushing
<1>7. PICK q : q = k % s
  OBVIOUS
<1>8. /\ q \in 0..s - 1
      /\ k < s => q = k
  <2>1. q \in 0..s - 1
    BY <1>6, <1>7, DivMod
  <2>2. ASSUME k < s PROVE q = k
    <3>1. k \in 0..s - 1
      BY <2>2, <1>6
    <3> QED
      BY <1>6, <1>7, <3>1, ModSmall
  <2> QED
    BY <2>1, <2>2
<1>9. /\ store' = [store EXCEPT ![i].values[q] = g]
      /\ writer' = IF k + 1 = n THEN NotWriting ELSE [writer EXCEPT !.pos = k + 1]
      /\ sent' = sent /\ came' = came /\ reader' = reader
  BY <1>3, <1>4, <1>5, <1>7 DEF PushBack
<1>10. /\ DOMAIN store' = DOMAIN store
       /\ \A x \in DOMAIN store \ {i} : store'[x] = store[x]
       /\ store'[i] = [store[i] EXCEPT !.values[q] = g]
  BY <1>1, <1>3, <1>9 DEF CustomTyped
<1>11. /\ store'[i].values = [store[i].values EXCEPT ![q] = g]
       /\ store'[i].number = store[i].number
       /\ store'[i] \in [number : Nat, values : {store'[i].values}]
  BY <1>6, <1>10 DEF Entries
<1>12. /\ store'[i].values \in [0..s - 1 -> Nat]
       /\ store'[i].values[q] = g
       /\ \A p \in 0..s - 1 : p # q => store'[i].values[p] = store[i].values[p]
  BY <1>6, <1>8, <1>11
<1>13. store'[i] \in Entries
  <2>1. s \in GroupSizes
    BY <1>1, <1>4, SizeOfIndex
  <2>2. store'[i].values \in Values
    BY <1>12, <2>1 DEF Values
  <2> QED
    BY <1>11, <2>2 DEF Entries
<1>14. CustomTyped'
  <2>1. store' \in [DOMAIN store' -> Entries]
    <3>1. \A x \in DOMAIN store' : store'[x] \in Entries
      BY <1>1, <1>10, <1>13 DEF CustomTyped
    <3> QED
      BY <1>1, <1>9, <3>1 DEF CustomTyped
  <2>2. writer' \in Pushes \cup {NotWriting}
    BY <1>2, <1>3, <1>9 DEF Pushes
  <2> QED
    BY <1>1, <1>9, <1>10, <2>1, <2>2 DEF CustomTyped
<1>15. \A x \in DOMAIN store : Size(x)' = Size(x)
  BY <1>6, <1>10, <1>12 DEF Size
<1>16. Pushing'
  <2>1. CASE k + 1 = n
    BY <1>9, <2>1 DEF Pushing, NotWriting
  <2>2. CASE k + 1 # n
    <3>1. writer'.idx = i /\ writer'.size = n /\ writer'.pos = k + 1
      BY <1>2, <1>3, <1>9, <2>2 DEF Pushes
    <3>2. came'[i].even => n = Size(i)'
      BY <1>4, <1>6, <1>9, <1>15
    <3> QED
      BY <1>3, <1>6, <1>10, <2>2, <3>1, <3>2 DEF Pushing
  <2> QED
    BY <2>1, <2>2
<1>17. Filling'
  <2>1. SUFFICES ASSUME NEW x \in DOMAIN store', NEW p \in DOMAIN store'[x].values
                 PROVE  /\ store'[x].values[p] \in 0..came'[x].groups
                        /\ came'[x].even => store'[x].values[p] >= came'[x].groups - 1
                        /\ came'[x].even /\ ~Beyond(x, p)'
                              => store'[x].values[p] = came'[x].groups
    BY DEF Filling
  <2>2. CASE x # i
    <3>1. Beyond(x, p)' => Beyond(x, p)
      BY <1>2, <1>3, <1>9, <2>2 DEF Beyond, NotWriting, Pushes
    <3>2. ~Beyond(x, p)
      BY <1>3, <2>2 DEF Beyond
    <3> QED
      BY <1>1, <1>9, <1>10, <2>1, <2>2, <3>2 DEF Filling
  <2>3. CASE x = i /\ p = q
    <3>1. store'[x].values[p] = g /\ came'[x].groups = g
      BY <1>5, <1>9, <1>12, <2>3
    <3> QED
      BY <1>6, <3>1
  <2>4. CASE x = i /\ p # q
    <3>1. p \in 0..s - 1 /\ store'[i].values[p] = store[i].values[p]
      BY <1>12, <2>1, <2>4
    <3>2. /\ store[i].values[p] \in 0..g
          /\ came[i].even => store[i].values[p] >= g - 1
          /\ came[i].even /\ ~Beyond(i, p) => store[i].values[p] = g
      BY <1>1, <1>5, <1>6, <3>1 DEF Filling
    <3>3. came[i].even /\ ~Beyond(i, p)' => ~Beyond(i, p)
      <4>1. ASSUME came[i].even, Beyond(i, p) PROVE Beyond(i, p)'
        <5>1. p >= k /\ q = k /\ p > k /\ k + 1 # n
          BY <1>1, <1>3, <1>6, <1>8, <2>4, <3>1, <4>1 DEF Beyond
        <5>2. writer'.at = "push" /\ writer'.idx = i /\ writer'.pos = k + 1
          BY <1>2, <1>3, <1>9, <5>1 DEF Pushes
        <5> QED
          BY <1>3, <3>1, <5>1, <5>2 DEF Beyond
      <4> QED
        BY <4>1
    <3> QED
      BY <1>5, <1>9, <2>4, <3>1, <3>2, <3>3
  <2> QED
    BY <2>2, <2>3, <2>4
<1>18. Reading'
  <2>1. \A x \in DOMAIN store : store'[x].number = store[x].number
    BY <1>10, <1>11
  <2>2. ReadRecently' <=> ReadRecently
    BY <1>9 DEF ReadRecently
  <2> QED
    BY <1>1, <1>9, <1>10, <2>1, <2>2 DEF Reading
<1> QED
  BY <1>14, <1>16, <1>17, <1>18 DEF CustomIInv

\* A script looks at the number.
LEMMA ReadNumberKeeps ==
    ASSUME CustomIInv, NEW i \in Indexes, ReadNumber(i)
    PROVE  CustomIInv'
<1>1. CustomTyped /\ Pushing /\ Filling /\ i \in DOMAIN store
  BY DEF CustomIInv, ReadNumber
<1>2. /\ reader' = [NotReading EXCEPT !.at = "get", !.idx = i,
                       !.number = store[i].number, !.from = came[i].groups]
      /\ UNCHANGED <<sent, store, came, writer>>
  BY DEF ReadNumber
<1>3. store[i].number \in Nat /\ came[i].groups \in Nat
  BY <1>1, SizeOfIndex DEF Entries
<1>4. Reading'
  BY <1>1, <1>2, <1>3 DEF Reading, NotReading, ReadRecently
<1>5. CustomTyped' /\ Pushing' /\ Filling'
  BY <1>1, <1>2 DEF CustomTyped, Pushing, Filling, Beyond, Size
<1> QED
  BY <1>4, <1>5 DEF CustomIInv

\* A script reads a value, or the number again.
LEMMA GetKeeps ==
    ASSUME CustomIInv, Get
    PROVE  CustomIInv'
<1>1. CustomTyped /\ Pushing /\ Filling /\ Reading /\ reader.at = "get"
  BY DEF CustomIInv, Get
<1>2. PICK i \in DOMAIN store : reader.idx = i
  BY <1>1 DEF Reading
<1>3. PICK p : p = Len(reader.values)
  OBVIOUS
<1>4. /\ UNCHANGED <<sent, store, came, writer>>
      /\ reader' = IF p \in DOMAIN store[i].values
                   THEN [reader EXCEPT !.values = Append(@, store[i].values[p])]
                   ELSE [reader EXCEPT !.at = "done", !.again = store[i].number]
  BY <1>2, <1>3 DEF Get
<1>5. CustomTyped' /\ Pushing' /\ Filling'
  BY <1>1, <1>4 DEF CustomTyped, Pushing, Filling, Beyond, Size
<1>6. /\ store[i].number \in Nat /\ came[i].groups \in Nat /\ reader.from \in Nat
      /\ reader.number \in Nat /\ reader.values \in Seq(Nat) /\ reader.from <= came[i].groups
      /\ store[i].number - reader.number = came[i].groups - reader.from
      /\ came[i].even /\ came[i].groups = reader.from => ReadRecently
  BY <1>1, <1>2, SizeOfIndex DEF Reading, Entries
<1>7. CASE p \in DOMAIN store[i].values
  <2>1. PICK v : v = store[i].values[p]
    OBVIOUS
  <2>2. /\ v \in Nat /\ v <= came[i].groups
        /\ came[i].even => v \in {came[i].groups - 1, came[i].groups}
    <3>1. /\ v \in 0..came[i].groups
          /\ came[i].even => v >= came[i].groups - 1
      BY <1>1, <1>7, <2>1 DEF Filling
    <3> QED
      BY <1>6, <3>1
  <2>3. /\ reader'.values = Append(reader.values, v) /\ reader'.at = "get"
        /\ reader'.idx = i /\ reader'.number = reader.number
        /\ reader'.from = reader.from /\ reader'.again = reader.again
    BY <1>1, <1>2, <1>4, <1>7, <2>1 DEF Reading
  <2>4. came[i].even /\ came[i].groups = reader.from => ReadRecently'
    BY <1>6, <2>2, <2>3 DEF ReadRecently
  <2>5. reader'.values \in Seq(Nat)
    BY <1>6, <2>2, <2>3
  <2> QED
    BY <1>1, <1>4, <1>5, <1>6, <2>3, <2>4, <2>5 DEF Reading, CustomIInv
<1>8. CASE p \notin DOMAIN store[i].values
  <2>1. /\ reader'.values = reader.values /\ reader'.at = "done"
        /\ reader'.idx = i /\ reader'.number = reader.number
        /\ reader'.from = reader.from /\ reader'.again = store[i].number
    BY <1>1, <1>2, <1>4, <1>8 DEF Reading
  <2>2. ReadRecently' <=> ReadRecently
    BY <2>1 DEF ReadRecently
  <2>3. came[i].even /\ store[i].number = reader.number => ReadRecently
    BY <1>6
  <2>4. Reading'
    BY <1>4, <1>6, <2>1, <2>2, <2>3 DEF Reading
  <2> QED
    BY <1>5, <2>4 DEF CustomIInv
<1> QED
  BY <1>7, <1>8

LEMMA CustomStep == CustomIInv /\ [CustomNext]_customVars => CustomIInv'
<1> SUFFICES ASSUME CustomIInv, [CustomNext]_customVars PROVE CustomIInv'
  OBVIOUS
<1>1. CustomTyped /\ Pushing /\ Filling /\ Reading
  BY DEF CustomIInv
<1>2. ASSUME NEW i \in Indexes, NEW size \in GroupSizes, CustomMsg(i, size)
      PROVE  CustomIInv'
  <2>1. sent' \in Seq([idx : Indexes, size : GroupSizes])
    <3>1. PICK S : S = [idx : Indexes, size : GroupSizes]
      OBVIOUS
    <3>2. PICK m : m = [idx |-> i, size |-> size]
      OBVIOUS
    <3>3. m \in S
      BY <3>1, <3>2
    <3>4. sent' \in {sent, Append(sent, m)}
      BY <1>2, <3>2 DEF CustomMsg, CustemRequest
    <3>5. sent \in Seq(S)
      BY <1>1, <3>1 DEF CustomTyped
    <3>6. sent' \in Seq(S)
      BY ONLY <3>3, <3>4, <3>5
    <3> QED
      BY <3>1, <3>6
  <2>2. UNCHANGED <<store, came, writer, reader>>
    BY <1>2 DEF CustomMsg
  <2> QED
    BY <1>1, <2>1, <2>2
    DEF CustomIInv, CustomTyped, Pushing, Filling, Beyond, Size, Reading, ReadRecently
<1>3. CASE Done
  <2>1. /\ UNCHANGED <<sent, store, came, writer>> /\ reader' = NotReading
    BY <1>3 DEF Done
  <2>2. CustomTyped' /\ Pushing' /\ Filling'
    BY <1>1, <2>1 DEF CustomTyped, Pushing, Filling, Beyond, Size
  <2>3. Reading'
    BY <2>1 DEF Reading, NotReading
  <2> QED
    BY <2>2, <2>3 DEF CustomIInv
<1>4. CASE UNCHANGED customVars
  BY <1>1, <1>4
  DEF customVars, CustomIInv, CustomTyped, Pushing, Filling, Beyond, Size, Reading,
      ReadRecently
<1> QED
  BY <1>2, <1>3, <1>4, OpenGroupKeeps, PushBackKeeps, ReadNumberKeeps, GetKeeps
  DEF CustomNext

LEMMA CustomReads == CustomIInv => CustomInv
<1> SUFFICES ASSUME CustomIInv PROVE CustomInv
  OBVIOUS
<1>1. CustomTyped /\ Filling /\ Reading
  BY DEF CustomIInv
<1>2. CustomTypeOK
  BY <1>1 DEF CustomTyped, Filling, Reading, CustomTypeOK, Pushes, NotWriting
<1>3. ReadsAreRecent
  BY <1>1 DEF Reading, ReadsAreRecent, ReadRecently
<1> QED
  BY <1>2, <1>3 DEF CustomInv

\* A script that reads a group of the user's own data without a lock, and finds its
\* number unchanged, has values of that group or of the one before it, whatever the
\* FIX thread wrote meanwhile.
THEOREM ReadersSeeOneGroup == CustomSpec => []CustomInv
<1>1. CustomIInv /\ [CustomNext]_customVars => CustomIInv'
  BY CustomStep
<1> QED
  BY <1>1, CustomStarts, CustomReads, PTL DEF CustomSpec
=============================================================================
