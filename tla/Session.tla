------------------------------ MODULE Session -------------------------------
(****************************************************************************)
(* The sessions of trader nodes with the exchange: who is offered which     *)
(* symbols, who is subscribed and has an account, who gets which quotes, and *)
(* how nodes leave when a symbol is delisted or the stream ends.            *)
(*                                                                          *)
(* Threads of the exchange: the feed (KfConsumeCb, FeedDataHandle), the FIX *)
(* acceptor (FixApplication) and the bus slave (FixBeam).  Threads of a     *)
(* node: the FIX thread (FixAccount), the script thread (MachineOS::ctrl,   *)
(* runScript, quit) and main (FixAccount::wait).  The two buses between     *)
(* them keep their promise (Multicast).                                     *)
(****************************************************************************)
EXTENDS Integers, Sequences, FiniteSets, SequencesExt

CONSTANTS Nodes,        \* sessions; their IDs give the order of SessionSymList
          Codes,        \* CfiCodes of symbols; 0 is the index
          Opening,      \* those that INIT messages bring, the others are listed later
          Picks,        \* symbols that a node's script may choose; {}: all
          Locking,      \* settings of _fix_symbol_only_for_ea == LOCKFOREA (where it
                        \* is TRUE the instance lets scripts take any symbol)
          MaxEvents,    \* bound: feed messages after the opening, trades, crashes
          MaxLogons     \* bound: logons of all nodes

ASSUME SessionAssumption ==
    /\ Nodes \subseteq Nat /\ IsFiniteSet(Nodes)
    /\ Codes \subseteq Nat /\ Opening \subseteq Codes
    /\ Picks \subseteq SUBSET (Codes \ {0})
    /\ Locking \subseteq BOOLEAN
    /\ MaxEvents \in Nat /\ MaxLogons \in Nat

VARIABLES
    mode,        \* lock, and what each node's script has chosen
    market,      \* FinFabr->_fix_symbols: code -> dia, locked
    ready,       \* FinFabr->_offer_time > 0
    stop,        \* FinFabr->_StopOrder
    feed,        \* run, exit, end, stopped
    bus,         \* quotes deposited that FixBeam has not seen
    ticks,       \* history: quotes of each code
    sessions,    \* SessionSymList
    accounts,    \* traders of the ledger
    login,       \* sessions that are not to be used again (fixsession.login)
    node,        \* the nodes' state
    toNode,      \* messages of the exchange on their way
    events, logons

\* Under LOCKFOREA nodes compete: more logons, fewer events.
Allowed ==
    IF mode.lock THEN [events |-> MaxEvents - 1, logons |-> MaxLogons]
    ELSE [events |-> MaxEvents, logons |-> MaxLogons - 1]

exchange == <<market, ready, stop, sessions, accounts, login>>
counters == <<events, logons>>
vars == <<mode, exchange, feed, bus, ticks, node, toNode, counters>>

Fresh(n) ==
    [pc |-> "off", symbols |-> << >>, mine |-> mode.chosen[n], down |-> {},
     applied |-> FALSE, suspended |-> FALSE, holds |-> FALSE, bus |-> "open",
     unread |-> FALSE, blocked |-> FALSE, last |-> [c \in Codes |-> 0]]

Init ==
    /\ mode \in {m \in [lock : Locking, chosen : [Nodes -> Picks]] :
                    m.lock => \A n \in Nodes : m.chosen[n] = {}}
    /\ market = << >> /\ ready = FALSE /\ stop = FALSE
    /\ feed = "run" /\ bus = << >> /\ ticks = [c \in Codes |-> 0]
    /\ sessions = << >> /\ accounts = {} /\ login = {}
    /\ node = [n \in Nodes |-> Fresh(n)]
    /\ toNode = [n \in Nodes |-> << >>]
    /\ events = 0 /\ logons = 0

Online(n) == node[n].pc # "off"
Known == DOMAIN sessions
Put(f, x, y) == [z \in DOMAIN f \cup {x} |-> IF z = x THEN y ELSE f[z]]

\* sendToTarget(): who is not logged on gets nothing.
Sent(queues, n, m) ==
    IF Online(n) THEN [queues EXCEPT ![n] = Append(@, m)] ELSE queues
Broadcast(targets, m) ==
    [n \in Nodes |-> IF n \in targets /\ Online(n)
                     THEN Append(toNode[n], m) ELSE toNode[n]]

-----------------------------------------------------------------------------
(* The exchange's offers. *)

\* A slip in MassQuote(): the code that is offered stays free.
LocksNothing(m, codes) == m

\* Under LOCKFOREA the code offered is locked.
Lock(m, codes) ==
    [c \in DOMAIN m |-> IF mode.lock /\ c \in codes \ {0}
                        THEN [m[c] EXCEPT !.locked = TRUE] ELSE m[c]]

\* What MassQuote() puts in the message: all codes, or the index and the first
\* one that is free.
Offer(m) ==
    LET free == {c \in DOMAIN m : m[c].dia # "DELISTING" /\ ~m[c].locked}
    IN  IF mode.lock
        THEN {c \in free : c = 0 \/ \A d \in free \ {0} : c <= d} ELSE free

\* MassQuote(): s.market, s.toNode and s.login after the offer to n.  With one
\* code or none there is nothing to offer, and the session is given up.
MassQuote(s, n) ==
    LET offer == Offer(s.market)
        locked == Lock(s.market, offer)
    IN  IF Cardinality(offer) <= 1
        THEN [s EXCEPT !.market = locked, !.login = @ \cup {n}]
        ELSE [s EXCEPT !.market = locked,
                       !.toNode = Sent(@, n, [kind |-> "MassQuote",
                                              codes |-> offer])]

\* A slip: only the first session gets an offer.
OffersToFirst(m, targets) ==
    MapThenFoldSet(LAMBDA n, s : MassQuote(s, n),
                   [market |-> m, toNode |-> toNode, login |-> login],
                   LAMBDA n : n, LAMBDA S : Max(S),
                   {n \in targets : \A k \in targets : n <= k})

\* To several sessions, in the order of SessionSymList: to the last one last.
MassQuotes(m, targets) ==
    MapThenFoldSet(LAMBDA n, s : MassQuote(s, n),
                   [market |-> m, toNode |-> toNode, login |-> login],
                   LAMBDA n : n, LAMBDA S : Max(S), targets)

Becomes(s) ==
    market' = s.market /\ toNode' = s.toNode /\ login' = s.login

-----------------------------------------------------------------------------
(* The feed: one message of the stream at a time. *)

Bounded == events < Allowed.events /\ events' = events + 1 /\ UNCHANGED logons

Event ==
    /\ feed = "run" /\ ready /\ Bounded /\ UNCHANGED <<mode, node>>

Listed == [dia |-> "LIST", locked |-> FALSE]

\* INIT, until the last symbol has come (PULL), which opens the market.
SymbolInit(code) ==
    LET known == IF code \in DOMAIN market THEN market
                 ELSE Put(market, code, Listed)
    IN  /\ feed = "run" /\ ~ready
        /\ \A c \in Opening : c < code => c \in DOMAIN market
        /\ IF \A c \in Opening : c <= code
           THEN ready' = TRUE /\ Becomes(MassQuotes(known, Known))
           ELSE market' = known /\ UNCHANGED <<ready, toNode, login>>
        /\ UNCHANGED <<mode, stop, feed, bus, ticks, sessions, accounts, node, counters>>

\* The news of a symbol, KfConsumeCb::Quote.
Quote(code, delisted) == [kind |-> "Quote", code |-> code, delisted |-> delisted]

\* MARKETING, a new symbol: news to subscribers, an offer to the others.
MarketList(code) ==
    LET s == MassQuotes(Put(market, code, Listed),
                        {n \in Known : sessions[n] = {}})
        news == Quote(code, FALSE)
    IN  /\ Event /\ code # 0 /\ code \notin DOMAIN market
        /\ Becomes([s EXCEPT !.toNode =
              [n \in Nodes |-> IF n \in Known /\ sessions[n] # {}
                               THEN Sent(@, n, news)[n] ELSE @[n]]])
        /\ UNCHANGED <<ready, stop, feed, bus, ticks, sessions, accounts>>

\* MARKETING, the end of a symbol: its subscribers are told.
MarketDelist(code) ==
    LET told == {n \in Known : code \in sessions[n]}
    IN  /\ Event /\ code # 0
        /\ code \in DOMAIN market /\ market[code].dia = "LIST"
        /\ market' = [market EXCEPT ![code].dia =
                         IF told = {} THEN "DELISTING" ELSE "THROWOUT"]
        /\ toNode' = Broadcast(told, Quote(code, TRUE))
        /\ UNCHANGED <<ready, stop, feed, bus, ticks, sessions, accounts, login>>

\* TICK of a symbol that the stream has brought: deposited.
Tick(code) ==
    /\ Event /\ code \in DOMAIN market
    /\ ticks' = [ticks EXCEPT ![code] = @ + 1]
    /\ bus' = Append(bus, [kind |-> "Data", code |-> code,
                           number |-> ticks'[code]])
    /\ UNCHANGED <<exchange, feed, toNode>>

\* A slip: RUN is not passed on.
TellsSuspensions(running) ==
    /\ Event /\ stop = running
    /\ stop' = ~running
    /\ toNode' = Broadcast(IF running THEN {} ELSE Known,
                          [kind |-> "Status", suspend |-> ~running])
    /\ UNCHANGED <<market, ready, feed, bus, ticks, sessions, accounts, login>>

\* SUSPEND, RUN; the stream alternates them.
StatusOrder(running) ==
    /\ Event /\ stop = running
    /\ stop' = ~running
    /\ toNode' = Broadcast(Known, [kind |-> "Status", suspend |-> ~running])
    /\ UNCHANGED <<market, ready, feed, bus, ticks, sessions, accounts, login>>

\* EXIT, the last message, ends the consumer's loop.
ExitOrder ==
    /\ feed = "run" /\ ready /\ events = Allowed.events /\ feed' = "exit"
    /\ UNCHANGED <<mode, exchange, bus, ticks, node, toNode, counters>>

\* Once the bus has been read, FeedDataHandle() cancels all sessions.
QuoteCancel ==
    /\ feed = "exit" /\ bus = << >> /\ feed' = "end"
    /\ toNode' = Broadcast(Known, [kind |-> "Cancel"])
    /\ UNCHANGED <<mode, exchange, bus, ticks, node, counters>>

\* RiskFix() sees the end and stops the acceptor.
AcceptorStop ==
    /\ feed = "end" /\ feed' = "stopped"
    /\ UNCHANGED <<mode, exchange, bus, ticks, node, toNode, counters>>

FeedNext ==
    \/ \E c \in Opening : SymbolInit(c)
    \/ \E c \in Codes : MarketList(c) \/ MarketDelist(c) \/ Tick(c)
    \/ \E running \in BOOLEAN : StatusOrder(running)
    \/ ExitOrder

\* CallFun(): the index goes to all subscribers, a quote to those of its symbol.
Receivers(quote) ==
    {n \in Known : /\ sessions[n] # {}
                   /\ \/ quote.code = 0
                      \/ quote.code \in sessions[n] \cap DOMAIN market}

\* A slip: the newest quote first.
NewestFirst ==
    /\ bus # << >> /\ bus' = Front(bus)
    /\ toNode' = Broadcast(Receivers(Last(bus)), Last(bus))
    /\ UNCHANGED <<mode, exchange, feed, ticks, node, counters>>

\* The bus slave: one quote at a time, to all its receivers.
FixBeam ==
    /\ bus # << >> /\ bus' = Tail(bus)
    /\ toNode' = Broadcast(Receivers(Head(bus)), Head(bus))
    /\ UNCHANGED <<mode, exchange, feed, ticks, node, counters>>

-----------------------------------------------------------------------------
(* The FIX acceptor: one message of a node at a time. *)

\* A subscription, an offer if one is wanted, the grant of the cash.  Nothing
\* happens while no code is free: MarketIng will see to it.
QuoteRequest(n, m, rest) ==
    LET before == [market |-> market, toNode |-> [toNode EXCEPT ![n] = rest],
                   login |-> login]
        after == IF m.ret THEN MassQuote(before, n) ELSE before
    IN  IF \A c \in DOMAIN market : market[c].locked
        THEN Becomes(before) /\ UNCHANGED <<sessions, accounts>>
        ELSE /\ sessions' = IF m.symbols = {} THEN sessions
                            ELSE Put(sessions, n, m.symbols)
             /\ IF m.cash
                THEN /\ accounts' = accounts \cup {n}
                     /\ Becomes([after EXCEPT !.toNode =
                                    Sent(@, n, [kind |-> "Granted"])])
                ELSE UNCHANGED accounts /\ Becomes(after)

\* A slip: the subscription outlives the logout.
KeepsSubscription(n) == sessions

\* SessionLogout() has closed the account; the subscription ends with it.
Unsubscribed(n) ==
    IF n \in Known THEN Put(sessions, n, {}) ELSE sessions

\* QuoteStatusReport of a node that leaves; after the end (_is_logout) it is
\* too late.
Leaving(n) ==
    /\ IF feed \in {"run", "exit"}
       THEN accounts' = accounts \ {n} /\ sessions' = Unsubscribed(n)
       ELSE UNCHANGED <<accounts, sessions>>
    /\ UNCHANGED <<market, toNode, login>>

\* A message of a node is handled as it is sent: the node could as well have
\* sent it later, and the acceptor that has stopped gets none.
Handles(n, m, v, rest) ==
    /\ node' = [node EXCEPT ![n] = v]
    /\ UNCHANGED <<mode, ready, stop, feed, bus, ticks, counters>>
    /\ IF feed = "stopped" \/ m.kind = "None"
       THEN toNode' = [toNode EXCEPT ![n] = rest]
            /\ UNCHANGED <<market, sessions, accounts, login>>
       ELSE \/ m.kind = "Request" /\ QuoteRequest(n, m, rest)
            \/ m.kind = "Leaving" /\ Leaving(n)

-----------------------------------------------------------------------------
(* A node's session and its script thread. *)

\* EaSetting() takes a session that is not given up; onLogon().
Logon(n) ==
    /\ ~Online(n) /\ n \notin login /\ feed # "stopped"
    /\ logons < Allowed.logons
    /\ logons' = logons + 1
    /\ node' = [node EXCEPT ![n] = [Fresh(n) EXCEPT !.pc = "on"]]
    /\ sessions' = IF n \in Known THEN sessions ELSE Put(sessions, n, {})
    /\ UNCHANGED <<mode, market, ready, stop, accounts, login, feed, bus, ticks,
                   toNode, events>>

Request(n, symbols, ret) ==
    [kind |-> "Request", symbols |-> symbols, ret |-> ret,
     cash |-> symbols # {} /\ ~node[n].applied]

\* MachineOS::ctrl() sets the node's bus up and asks for data.
Ctrl(n) ==
    /\ node[n].pc = "on"
    /\ Handles(n, Request(n, node[n].mine, TRUE), [node[n] EXCEPT !.pc = "run"],
               toNode[n])

\* The script opens a position on a listed symbol, or is rid of all of them.
Trade(n) ==
    /\ Bounded
    /\ node[n].pc = "run" /\ node[n].bus = "open" /\ node[n].applied
    /\ node[n].holds \/ \E c \in DOMAIN node[n].symbols \ {0} :
                            node[n].symbols[c] = "LIST"
    /\ node' = [node EXCEPT ![n].holds = ~@]
    /\ UNCHANGED <<mode, exchange, feed, bus, ticks, toNode>>

\* QuoteStatusReport() of status 0: the account leaves.
QuoteStatusReport == [kind |-> "Leaving"]

\* The slaves of the node's bus leave, perhaps after a record that came late;
\* runScript() returns, quit() reports it.
ScriptEnds(n) ==
    /\ node[n].pc = "run" /\ node[n].bus = "quit"
    /\ \E late \in BOOLEAN :
          Handles(n, QuoteStatusReport,
                  [node[n] EXCEPT !.pc = "left", !.bus = "gone",
                                  !.unread = @ /\ ~late,
                                  !.blocked = @ /\ ~late,
                                  !.down = {c \in @ :
                                         node[n].symbols[c] # "DELISTING"}],
                  toNode[n])

\* wait() ends; stopping the initiator joins the FIX thread.
InitiatorStop(n) ==
    /\ node[n].pc = "left" /\ ~node[n].blocked
    /\ node' = [node EXCEPT ![n] = Fresh(n)]
    /\ toNode' = [toNode EXCEPT ![n] = << >>]
    /\ UNCHANGED <<mode, exchange, feed, bus, ticks, counters>>

\* The node dies; what it has sent may still arrive.
Crash(n) ==
    /\ Bounded
    /\ Online(n)
    /\ node' = [node EXCEPT ![n] = Fresh(n)]
    /\ toNode' = [toNode EXCEPT ![n] = << >>]
    /\ UNCHANGED <<mode, exchange, feed, bus, ticks>>

-----------------------------------------------------------------------------
(* A node's FIX thread: each handler gives the node's next state and what it *)
(* sends.                                                                    *)

Silent(v) == [node |-> v, sends |-> [kind |-> "None"]]

\* A slip: quit() waits for the slaves without telling them.
WaitsOnly(v) == [v EXCEPT !.blocked = v.unread /\ v.bus # "open"]

\* _fq.quit(): comes back when the slaves have read everything; if there is a
\* record that slaves who are gone cannot read, never.
BusQuit(v) ==
    IF v.pc = "on" THEN v
    ELSE IF v.bus = "open" THEN [v EXCEPT !.bus = "quit"]
    ELSE [v EXCEPT !.blocked = v.unread]

\* _fq.handle().
Deposit(v) == [v EXCEPT !.unread = @ \/ (v.pc # "on" /\ v.bus # "open")]

\* A slip: the node subscribes and does not note what it has chosen.
NotesNothing(n, v, m) ==
    LET symbols == [c \in DOMAIN v.symbols \cup m.codes |->
                      IF c \in DOMAIN v.symbols THEN v.symbols[c] ELSE "LIST"]
    IN  IF v.mine # {} THEN Silent([v EXCEPT !.symbols = symbols])
        ELSE [node |-> [v EXCEPT !.symbols = symbols],
              sends |-> Request(n, m.codes \ {0}, FALSE)]

\* The codes offered; a node that has chosen none takes all and subscribes.
OnMassQuote(n, v, m) ==
    LET symbols == [c \in DOMAIN v.symbols \cup m.codes |->
                      IF c \in DOMAIN v.symbols THEN v.symbols[c] ELSE "LIST"]
        all == m.codes \ {0}
    IN  IF v.mine # {} THEN Silent([v EXCEPT !.symbols = symbols])
        ELSE [node |-> [v EXCEPT !.symbols = symbols, !.mine = all],
              sends |-> Request(n, all, FALSE)]

\* A slip: a new symbol is counted and not entered.
CountsOnly(v, m) ==
    IF m.delisted = (m.code \in DOMAIN v.symbols)
    THEN [v EXCEPT !.down = @ \cup {m.code}] ELSE v

\* News of a symbol: it is new, or at its end.
OnQuote(v, m) ==
    LET known == m.code \in DOMAIN v.symbols
    IN  IF ~m.delisted /\ ~known
        THEN [v EXCEPT !.symbols = Put(@, m.code, "LIST"), !.down = @ \cup {m.code}]
        ELSE IF m.delisted /\ known
        THEN [v EXCEPT !.symbols[m.code] = "DELISTING", !.down = @ \cup {m.code}]
        ELSE v

\* A quote of a delisted symbol ends a node that has no orders.
Delisting(v, code) ==
    IF /\ code # 0 /\ v.symbols[code] = "DELISTING"
       /\ v.pc # "left" /\ ~v.holds /\ code \in v.down
    THEN BusQuit([v EXCEPT !.down = @ \ {code}]) ELSE v

OnData(v, m) ==
    LET seen == [Deposit(v) EXCEPT !.last[m.code] = m.number]
    IN  IF v.mine = {} THEN v
        ELSE IF m.code \notin DOMAIN v.symbols THEN seen
        ELSE Delisting(seen, m.code)

Handled(n, v, m) ==
    CASE m.kind = "MassQuote" -> OnMassQuote(n, v, m)
      [] m.kind = "Quote" -> Silent(OnQuote(v, m))
      [] m.kind = "Granted" -> Silent([v EXCEPT !.applied = TRUE])
      [] m.kind = "Data" -> Silent(OnData(v, m))
      [] m.kind = "Status" -> Silent([v EXCEPT !.suspended = m.suspend])
      [] m.kind = "Cancel" -> Silent(BusQuit(v))

FromApp(n) ==
    LET r == Handled(n, node[n], Head(toNode[n]))
    IN  /\ toNode[n] # << >> /\ ~node[n].blocked
        /\ Handles(n, r.sends, r.node, Tail(toNode[n]))

NodeNext(n) ==
    Logon(n) \/ Ctrl(n) \/ Trade(n) \/ ScriptEnds(n) \/ InitiatorStop(n)
    \/ Crash(n) \/ FromApp(n)

Next ==
    \/ FeedNext \/ QuoteCancel \/ AcceptorStop \/ FixBeam
    \/ \E n \in Nodes : NodeNext(n)

Spec == Init /\ [][Next]_vars

\* Every thread that can go on does; the feed, the script's trades, logons and
\* crashes are not owed.
FairSpec ==
    /\ Spec
    /\ WF_vars(QuoteCancel) /\ WF_vars(FixBeam)
    /\ \A n \in Nodes :
          /\ WF_vars(Ctrl(n))
          /\ WF_vars(ScriptEnds(n)) /\ WF_vars(InitiatorStop(n))
          /\ WF_vars(FromApp(n))

-----------------------------------------------------------------------------
(* Properties. *)

Books == UNION {[D -> {"LIST", "DELISTING"}] : D \in SUBSET Codes}

NodeRecord ==
    [pc : {"off", "on", "run", "left"}, symbols : Books,
     mine : SUBSET (Codes \ {0}), down : SUBSET Codes, applied : BOOLEAN,
     suspended : BOOLEAN, holds : BOOLEAN, bus : {"open", "quit", "gone"},
     unread : BOOLEAN, blocked : BOOLEAN, last : [Codes -> Nat]]

\* Types of all the state; a node that counts a code down knows the code, and
\* what the exchange offers or subscribes exists in its market.
TypeOK ==
    /\ mode \in [lock : BOOLEAN, chosen : [Nodes -> SUBSET (Codes \ {0})]]
    /\ DOMAIN market \subseteq Codes
    /\ \A c \in DOMAIN market :
          market[c] \in [dia : {"LIST", "DELISTING", "THROWOUT"}, locked : BOOLEAN]
    /\ ready \in BOOLEAN /\ stop \in BOOLEAN
    /\ feed \in {"run", "exit", "end", "stopped"}
    /\ Known \subseteq Nodes /\ accounts \subseteq Known /\ login \subseteq Nodes
    /\ \A n \in Known : sessions[n] \subseteq Codes
    /\ \A n \in Nodes :
          /\ node[n] \in NodeRecord
          /\ node[n].down \subseteq DOMAIN node[n].symbols
          /\ DOMAIN node[n].symbols \subseteq DOMAIN market

\* A code locked for one node's script is subscribed by no other that was free
\* to take any, whatever logons, requests and listings cross.
OneOwner ==
    mode.lock =>
        \A m, n \in {k \in Known : mode.chosen[k] = {}} :
            m # n => sessions[m] \cap sessions[n] = {}

\* The ledger has an account for exactly the subscribers: a node that leaves
\* before the end takes both with it, one that dies keeps both.
AccountIffSubscribed == accounts = {n \in Known : sessions[n] # {}}

\* A node that has its cash is subscribed to what its script works on.
ServedAsAsked ==
    \A n \in Nodes :
        node[n].pc = "run" /\ node[n].applied => sessions[n] = node[n].mine

\* No node takes the trade for suspended when it is not, unless the news is on
\* its way.
NeverStuckSuspended ==
    \A n \in Nodes :
        node[n].suspended /\ ~stop =>
            \E i \in DOMAIN toNode[n] :
                toNode[n][i] = [kind |-> "Status", suspend |-> FALSE]

\* Who is subscribed to what, who pays for it and who is told: symbols have one
\* owner, subscribers an account, nodes what they asked for, and nobody waits for
\* a market that is open.
SessionInv ==
    TypeOK /\ OneOwner /\ AccountIffSubscribed /\ ServedAsAsked
        /\ NeverStuckSuspended

\* From its first quote of a symbol on, a node's FIX thread gets every quote of
\* it, once and in order, through two queues and the changes of subscriptions.
NoQuoteSkipped ==
    [][\A n \in Nodes, c \in Codes :
          node[n].last[c] > 0 /\ Online(n)' /\ node'[n].last[c] # node[n].last[c]
          => node'[n].last[c] = node[n].last[c] + 1]_vars

Cancelled(n) == \E i \in DOMAIN toNode[n] : toNode[n][i].kind = "Cancel"

\* At the end of the stream every node that runs ends, unless its FIX thread is
\* caught in the quit of a bus without slaves.
CancelledNodesLeave ==
    \A n \in Nodes :
        node[n].pc = "run" /\ Cancelled(n) ~> ~Online(n) \/ node[n].blocked

\* A node that may take any symbol gets its account once the market is open,
\* whether it logs on before or after, as long as the exchange runs.
AnyoneIsServed ==
    \A n \in Nodes :
        node[n].pc = "run" /\ mode.chosen[n] = {} /\ ready /\ 0 \in DOMAIN market
        ~> \/ node[n].applied \/ node[n].pc # "run" \/ n \in login
           \/ feed = "stopped"

\* A symbol whose end was announced is not offered any more (MassQuote).
DelistedNotOffered ==
    [][\A n \in Nodes :
          Len(toNode'[n]) > Len(toNode[n])
              /\ toNode'[n][Len(toNode'[n])].kind = "MassQuote"
          => \A c \in toNode'[n][Len(toNode'[n])].codes :
                market'[c].dia = "LIST"]_vars

\* A node that logs on before the market is open is served by what follows.
EarlyNodesAreServed ==
    \A n \in Nodes :
        node[n].pc = "run" /\ ready /\ 0 \in DOMAIN market
        ~> \/ node[n].applied \/ node[n].pc # "run" \/ n \in login
           \/ feed = "stopped"
=============================================================================
