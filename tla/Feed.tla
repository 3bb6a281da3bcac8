-------------------------------- MODULE Feed ---------------------------------
(****************************************************************************)
(* What the exchange's consumer thread does with the stream that is not      *)
(* about sessions (those are in Session): ticks, external deals, and the     *)
(* ex-dividend messages that pay the holders of a symbol; or the rows of a   *)
(* csv file instead of a stream.                                             *)
(*                                                                          *)
(* One symbol.  The FIX thread accepts and cancels orders between any two    *)
(* statements of the consumer, and other processes, with a version of their  *)
(* own, enter the same symbol into the database they share.                  *)
(****************************************************************************)
EXTENDS Integers, Sequences, FiniteSets

CONSTANTS Orders,        \* numbers of orders
          ExDividends,    \* the records [ymd, extype] of the stream
          Times,          \* of ticks
          Rows,           \* lines of a csv file, the title included
          MaxMessages,    \* bound: messages of the stream
          MaxBatch        \* bound: messages that one call of consume_callback brings

ASSUME FeedAssumption ==
    /\ Orders \subseteq Nat \ {0} /\ Times \subseteq Nat
    /\ ExDividends \subseteq [ymd : Nat, extype : Nat]
    /\ Rows \in Nat \ {0} /\ MaxMessages \in Nat /\ MaxBatch \in Nat \ {0}

VARIABLES
    consumer,      \* KafkaFeed, KfConsumeCb or Tunnel
    fabr,          \* FinFabr: _exrd of the symbol, _enable_exrd, _offer_time > 0
    base,          \* the database: stockinfo, exdr, trades
    deals,         \* TraderAlgorithms: _rd_qty
    paid,          \* of each ticket: dividends the broker has credited
    told,          \* of each ticket: dividends its node has been told of
    due            \* history: who held the symbol when a dividend of it came first,
                   \* since the symbol was entered last

feedVars == <<consumer, fabr, base, deals, paid, told, due>>

Own == 1          \* the version of this process, FinFabr->_QuantVerId
Other == 2
NoRow == [stat |-> "none", stock |-> 0, closetck |-> 0]

FeedInit ==
    /\ \E source \in {"kafka", "csv"} :
          consumer = [source |-> source, at |-> "poll", run |-> TRUE, left |-> 0,
                      seen |-> 0, lastTime |-> 0, tickets |-> {}, pay |-> {},
                      node |-> [ymd |-> 0, extype |-> 0]]
    /\ \E trigger \in BOOLEAN :
          fabr = [exrd |-> << >>, enable_exrd |-> FALSE, symbol |-> FALSE,
                  offer_time |-> FALSE, match_trigger |-> trigger]
    /\ base = [stockinfo |-> << >>, exdr |-> {}, trades |-> [t \in Orders |-> NoRow]]
    /\ deals = [t \in {} |-> "part"]
    /\ paid = [t \in Orders |-> << >>] /\ told = [t \in Orders |-> << >>]
    /\ due = [d \in {} |-> {}]

Trade(t) == base.trades[t]
Booked == {t \in Orders : Trade(t).stat \in {"new", "partly"}}
AskedToClose(t) == \E u \in Orders : Trade(u).closetck = t
Held(t) == Trade(t).stat = "filled" /\ Trade(t).closetck = 0

\* SELECT id FROM stockinfo ... ORDER BY id DESC LIMIT 1, with AND verid = v, and
\* without.
NewestOf(v) ==
    LET mine == {i \in DOMAIN base.stockinfo : base.stockinfo[i] = v}
    IN  IF mine = {} THEN 0 ELSE CHOOSE i \in mine : \A j \in mine : j <= i
Newest == Len(base.stockinfo)

Stands(pc) == consumer.at = pc
Goes(pc) == consumer' = [consumer EXCEPT !.at = pc]

\* A message of the batch is taken from the stream.
OneTaken(c) == [c EXCEPT !.left = @ - 1]
Message == Stands("batch") /\ consumer.left > 0

-----------------------------------------------------------------------------
(* KafkaFeed::handle(): consume_callback() brings what came within a second. *)

ConsumeCallback ==
    /\ Stands("poll") /\ consumer.source = "kafka"
    /\ IF consumer.run
       THEN \E n \in 0..MaxBatch :
               /\ consumer.seen + n <= MaxMessages /\ n > 0
               /\ consumer' = [consumer EXCEPT !.at = "batch", !.left = n,
                                               !.seen = @ + n]
       ELSE Goes("ended")          \* and FeedData::ctrl() ends the bus
    /\ UNCHANGED <<fabr, base, deals, paid, told, due>>

\* poll(): between batches a fatal event or a signal may end the loop.
Poll ==
    /\ consumer.source = "kafka"
    /\ \/ Stands("batch") /\ consumer.left = 0 /\ Goes("poll")
       \/ Stands("poll") /\ consumer.run
          /\ consumer' = [consumer EXCEPT !.run = FALSE]
    /\ UNCHANGED <<fabr, base, deals, paid, told, due>>

\* Events(): EXIT, and msg_consume(): an error.  The rest of the batch is handled.
ExitOrder ==
    /\ Message /\ consumer' = [OneTaken(consumer) EXCEPT !.run = FALSE]
    /\ UNCHANGED <<fabr, base, deals, paid, told, due>>

\* INIT of the symbol; whether it is the last one of the list (PULL).  What comes
\* after that is ignored.  History: the table has no dividends of the new row.
SymbolInit ==
    /\ Message /\ consumer' = OneTaken(consumer)
    /\ \/ fabr.offer_time /\ UNCHANGED <<fabr, base, due>>
       \/ /\ ~fabr.offer_time /\ due' = [d \in {} |-> {}]
          /\ base' = [base EXCEPT !.stockinfo = Append(@, Own)]
          /\ \E pull \in BOOLEAN :
                fabr' = [fabr EXCEPT !.symbol = TRUE, !.offer_time = pull]
    /\ UNCHANGED <<deals, paid, told>>

-----------------------------------------------------------------------------
(* KfConsumeCb::SymbolExrd() *)

\* History: who holds the symbol when d comes first.
Counted(d) ==
    due' = IF d \in DOMAIN due \/ ~fabr.symbol THEN due
           ELSE [x \in DOMAIN due \cup {d} |->
                   IF x = d THEN {t \in Orders : Held(t)} ELSE due[x]]

\* Memory: _exrd.back() tells whether the message is new.
Stale(d) ==
    /\ fabr.exrd # << >>
    /\ LET back == fabr.exrd[Len(fabr.exrd)] IN back.ymd > d.ymd \/ back = d

\* The table, under the newest row of the symbol (NULL equals nothing).
InTable(d) == NewestOf(Own) # 0 /\ <<NewestOf(Own), d>> \in base.exdr

\* A slip: what the table holds already does not end the handler.
ExrdTwice(d) ==
    /\ Message
    /\ IF Stale(d) THEN consumer' = OneTaken(consumer) /\ UNCHANGED <<fabr, base, due>>
       ELSE /\ fabr' = [fabr EXCEPT !.exrd = Append(@, d)]
            /\ base' = [base EXCEPT !.exdr = @ \cup {<<NewestOf(Own), d>>}]
            /\ Counted(d)
            /\ consumer' = [OneTaken(consumer) EXCEPT
                  !.at = IF fabr.symbol THEN "select" ELSE "report", !.node = d]
    /\ UNCHANGED <<deals, paid, told>>

SymbolExrd(d) ==
    /\ Message
    /\ IF Stale(d) THEN consumer' = OneTaken(consumer) /\ UNCHANGED <<fabr, base, due>>
       ELSE /\ fabr' = [fabr EXCEPT !.exrd = Append(@, d)]
            /\ base' = [base EXCEPT !.exdr = @ \cup {<<NewestOf(Own), d>>}]
            /\ Counted(d)
            /\ consumer' = IF InTable(d) THEN OneTaken(consumer)
                           ELSE [OneTaken(consumer) EXCEPT
                                   !.at = IF fabr.symbol THEN "select" ELSE "report",
                                   !.node = d]
    /\ UNCHANGED <<deals, paid, told>>

\* The tickets: bought under the newest row of the symbol, filled, and no row of the
\* table closes them.
SelectTickets ==
    /\ Stands("select")
    /\ LET tickets == {t \in Orders : /\ Held(t) /\ ~AskedToClose(t)
                                       /\ Trade(t).stock = NewestOf(Own)}
       IN  consumer' = [consumer EXCEPT !.at = "pay", !.tickets = tickets,
                                        !.pay = tickets]
    /\ UNCHANGED <<fabr, base, deals, paid, told, due>>

\* ExdrChange(): the ledger credits the holder (Broker).
ExdrChange ==
    /\ Stands("pay")
    /\ \/ \E t \in consumer.pay :
             /\ \A u \in consumer.pay : t <= u
             /\ paid' = [paid EXCEPT ![t] = Append(@, consumer.node)]
             /\ consumer' = [consumer EXCEPT !.pay = @ \ {t}]
       \/ consumer.pay = {} /\ Goes("report") /\ UNCHANGED paid
    /\ UNCHANGED <<fabr, base, deals, told, due>>

\* QuoteStatusReport() to every session: a node credits those of the tickets that
\* are its own (TraderNode).
QuoteStatusReport ==
    /\ Stands("report")
    /\ told' = [t \in Orders |-> IF t \in consumer.tickets
                                  THEN Append(told[t], consumer.node) ELSE told[t]]
    /\ fabr' = [fabr EXCEPT !.enable_exrd = TRUE]
    /\ consumer' = [consumer EXCEPT !.at = "batch", !.tickets = {}]
    /\ UNCHANGED <<base, deals, paid, due>>

-----------------------------------------------------------------------------
(* Ticks and deals.  Which orders a price fills is Market's business.           *)

Traded(ts, stat) ==
    base' = [base EXCEPT !.trades = [t \in Orders |->
                IF t \in ts THEN [Trade(t) EXCEPT !.stat = stat] ELSE Trade(t)]]

\* TicketMsg(): older than the last one is dropped.  A price or a quantity of 0, or
\* external matching, and nothing is matched.
TicketMsg(time) ==
    /\ Message
    /\ \/ consumer.lastTime > time /\ consumer' = OneTaken(consumer)
          /\ UNCHANGED base
       \/ /\ consumer.lastTime <= time
          /\ consumer' = [OneTaken(consumer) EXCEPT !.lastTime = time]
          /\ \E ts \in IF fabr.match_trigger THEN {{}} ELSE SUBSET Booked,
                stat \in {"partly", "filled"} : Traded(ts, stat)
    /\ UNCHANGED <<fabr, deals, paid, told, due>>

\* DealMatchMsg(), and the matcher after it: the first quantity that came for a
\* ticket counts, and the lowest ticket is served.  Without an order in the book the
\* matcher returns before it has looked.
DealMatchMsg(t, qty) ==
    LET asked == IF t \in DOMAIN deals THEN deals
                 ELSE [u \in DOMAIN deals \cup {t} |->
                          IF u = t THEN qty ELSE deals[u]]
        first == CHOOSE u \in DOMAIN asked : \A v \in DOMAIN asked : u <= v
    IN  /\ Message /\ fabr.match_trigger /\ consumer' = OneTaken(consumer)
        /\ IF Booked = {} THEN deals' = asked /\ UNCHANGED base
           ELSE /\ deals' = [u \in DOMAIN asked \ {first} |-> asked[u]]
                /\ Traded(Booked \cap {first}, asked[first])
        /\ UNCHANGED <<fabr, paid, told, due>>

-----------------------------------------------------------------------------
(* Tunnel::handle(): title and last line are not rows.  Symbol 0 matches nothing. *)

Line ==
    /\ consumer.source = "csv" /\ Stands("poll")
    /\ IF consumer.seen + 2 < Rows
       THEN consumer' = [consumer EXCEPT !.seen = @ + 1]
       ELSE Goes("ended")
    /\ UNCHANGED <<fabr, base, deals, paid, told, due>>

-----------------------------------------------------------------------------
(* The FIX thread, and the other process. *)

\* insertOrder(): a row for the order, under the newest row of the symbol, whosever
\* that is.
InsertOrder(t) ==
    /\ fabr.offer_time /\ ~Stands("ended") /\ Trade(t).stat = "none"
    /\ \E c \in {0} \cup {u \in Orders : Held(u)} :
          base' = [base EXCEPT !.trades[t] =
                      [stat |-> "new", stock |-> Newest, closetck |-> c]]
    /\ UNCHANGED <<consumer, fabr, deals, paid, told, due>>

\* The row of an order that is cancelled stays.
CancelOrder(t) ==
    /\ Trade(t).stat = "new"
    /\ base' = [base EXCEPT !.trades[t].stat = "cancelled"]
    /\ UNCHANGED <<consumer, fabr, deals, paid, told, due>>

OtherProcess ==
    /\ Other \notin {base.stockinfo[i] : i \in DOMAIN base.stockinfo}
    /\ base' = [base EXCEPT !.stockinfo = Append(@, Other)]
    /\ UNCHANGED <<consumer, fabr, deals, paid, told, due>>

FeedNext ==
    \/ ConsumeCallback \/ Poll \/ ExitOrder \/ SymbolInit \/ Line
    \/ \E d \in ExDividends : SymbolExrd(d)
    \/ SelectTickets \/ ExdrChange \/ QuoteStatusReport
    \/ \E time \in Times : TicketMsg(time)
    \/ \E t \in Orders, qty \in {"partly", "filled", "cancelled"} :
          DealMatchMsg(t, qty)
    \/ \E t \in Orders : InsertOrder(t) \/ CancelOrder(t)
    \/ OtherProcess

FeedSpec == FeedInit /\ [][FeedNext]_feedVars

-----------------------------------------------------------------------------
(* Properties. *)

\* Types.
FeedTypeOK ==
    /\ consumer.at \in {"poll", "batch", "select", "pay", "report", "ended"}
    /\ consumer.left \in 0..MaxBatch /\ consumer.pay \subseteq consumer.tickets
    /\ \A t \in Orders : paid[t] \in Seq(ExDividends) /\ told[t] \in Seq(ExDividends)

\* However often the stream repeats a dividend, and in whatever order, a ticket gets
\* it at most once, and only if it was held when the dividend came first after the
\* symbol was entered last.
PaidOnce ==
    \A t \in Orders : \A i, j \in DOMAIN paid[t] :
        /\ t \in due[paid[t][i]]
        /\ paid[t][i] = paid[t][j] => i = j

\* When its message has been handled, everyone who held the symbol then has been
\* paid, except tickets that an order was to close, even one that was cancelled or
\* closed a part, and tickets whose row names the symbol of another process.
NobodyIsMissed ==
    Stands("poll") =>
        \A d \in DOMAIN due : \A t \in due[d] :
            \/ \E i \in DOMAIN paid[t] : paid[t][i] = d
            \/ AskedToClose(t)
            \/ base.stockinfo[Trade(t).stock] = Other

\* Nodes are told of what the ledger has paid, in the same order.
ToldAsPaid == Stands("poll") => told = paid

\* Holders get each dividend once, on both sides.
DividendsInv == FeedTypeOK /\ PaidOnce /\ NobodyIsMissed /\ ToldAsPaid
=============================================================================
