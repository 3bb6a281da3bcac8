------------------------------- MODULE Script --------------------------------
(****************************************************************************)
(* What the scripts of a trader node keep: the settings that their            *)
(* configuration makes, positions and cash, the values they store from one    *)
(* tick to the next, and the indicators they declare.  Main runs the script   *)
(* once, to configure; then every thread of the pool runs it for every row    *)
(* (the pool itself is in Runtime), while the FIX thread brings symbols and   *)
(* cash.                                                                    *)
(*                                                                          *)
(* The script is the usual one: if isInit() says so it configures; then it     *)
(* stores something at some places and gives the arguments of an indicator.   *)
(****************************************************************************)
EXTENDS Integers, Sequences, FiniteSets, SequencesExt, Functions

CONSTANTS Pool,          \* threads of the pool
          Plans,         \* what the configuration may ask: ThreadPosition calls
          Sites,         \* places of the script that call StoreId()
          Argvs,         \* arguments of the indicator
          Grants,        \* what the exchange may grant of Asked
          MaxRows        \* bound: rows of the feed

ASSUME ScriptAssumption ==
    /\ IsFiniteSet(Pool) /\ Sites \in Nat /\ Argvs \in Nat /\ MaxRows \in Nat
    /\ Grants \subseteq Nat
    \* positions are shares of the cash: no script asks for a negative one
    /\ Plans \subseteq Seq([num : Nat, pct : Nat])

VARIABLES
    plan,      \* the ThreadPosition calls of this script
    cfg,       \* FixPtr: _ok, _fix_symbols, _tf, all_postion, _thread_pos, _tsize
    money,     \* FixPtr->_cash: total_cash, _total_cash of each number; granted
    clock,     \* container and runScript(): rows, now(), e2l_count, ticket_now
    numbers,   \* the pool's _thread_queue
    thread,    \* of each thread of the pool: where it is
    kept,      \* of each thread: AutoIncrement, Silk_t and Analse_t
    wrote      \* history: what each place of each thread stored last

scriptVars == <<plan, cfg, money, clock, numbers, thread, kept, wrote>>

Asked == 100       \* setCash(), as a percentage of itself
Absent == <<-1, 0>>
Undeclared == [init |-> -1, argv |-> << >>]
NotStarted == [at |-> "none", num |-> -1, queue |-> << >>, row |-> 0, step |-> 0,
               post |-> 0, read |-> Absent, last |-> Absent,
               configured |-> 0, runs |-> 0, cut |-> FALSE]

-----------------------------------------------------------------------------
(* The configuration, on a record c of settings and m of money. *)

\* tframe(): a frame is listed once.
Tframe(c, t) == IF \E i \in DOMAIN c.tf : c.tf[i] = t THEN c
                ELSE [c EXCEPT !.tf = Append(@, t)]

\* A slip: what is left is not asked.
Unclamped(c, pct) == pct

\* ThreadPosition(): at most what is left ...
Clamped(c, pct) == IF c.left < pct THEN c.left ELSE pct

\* ... is taken from it, and counted, although an entry that is there stays.
Positioned(c, num, post) ==
    [c EXCEPT !.left = @ - post, !.tsize = @ + 1,
              !.entries = [n \in DOMAIN @ \cup {num} |->
                              IF n \in DOMAIN @ THEN @[n] ELSE post]]

Called(c, call) == Positioned(c, call.num, Clamped(c, call.pct))

Configured(c) ==
    LET after[i \in 0..Len(plan)] ==
            IF i = 0 THEN Tframe(c, 5) ELSE Called(after[i - 1], plan[i])
    IN  after[Len(plan)]

ScriptInit ==
    /\ plan \in Plans
    /\ cfg = [ok |-> "none", symbols |-> FALSE, tf |-> << >>, left |-> 100,
              entries |-> [n \in {} |-> 0], tsize |-> 0]
    /\ money = [total |-> 0, own |-> [n \in {} |-> 0], granted |-> -1,
                thrown |-> FALSE, again |-> FALSE]
    /\ clock = [rows |-> 0, now |-> 0, count |-> 0, at |-> "look", ticket_now |-> 0]
    /\ numbers = << >>
    /\ thread = [w \in Pool |-> NotStarted]
    /\ kept = [w \in Pool |-> [id |-> 0, silk |-> [i \in {} |-> Absent],
                               analse |-> Undeclared]]
    /\ wrote = [w \in Pool |-> [s \in 1..Sites |-> Absent]]

\* ScriptThread::init() and ProgramInit(): there are no symbols yet, so that
\* isInit() leaves _ok as it is.
ProgramInit ==
    /\ cfg.ok = "none"
    /\ cfg' = [Configured(cfg) EXCEPT !.ok = "proc"]
    /\ money' = [money EXCEPT !.total = Asked]
    /\ numbers' = SetToSortSeq(IF plan = << >> THEN 0..Cardinality(Pool) - 1
                                ELSE DOMAIN Configured(cfg).entries, <)
    /\ UNCHANGED <<plan, clock, thread, kept, wrote>>

-----------------------------------------------------------------------------
(* The FIX thread. *)

MassQuote ==
    /\ cfg.ok # "none" /\ ~cfg.symbols
    /\ cfg' = [cfg EXCEPT !.symbols = TRUE]
    /\ UNCHANGED <<plan, money, clock, numbers, thread, kept, wrote>>

\* onMessage(QuoteResponse): the numbers 0.._tsize - 1 get their part, and at()
\* throws for one that has no position.
QuoteResponse(granted) ==
    /\ cfg.symbols /\ money.granted = -1
    /\ LET part(n) == (granted * cfg.entries[n]) \div 100
           all == 0..cfg.tsize - 1
           served == {n \in all : \A k \in 0..n : k \in DOMAIN cfg.entries}
           own == [n \in served |-> part(n)]
       IN  money' = [money EXCEPT
                       !.granted = granted, !.own = own,
                       !.total = granted - SumFunction(own),
                       !.thrown = served # all]
    /\ UNCHANGED <<plan, cfg, clock, numbers, thread, kept, wrote>>

-----------------------------------------------------------------------------
(* Container::push() and runScript().  The time of a row is its number. *)

PushRow ==
    /\ cfg.symbols /\ clock.now = clock.rows /\ clock.rows < MaxRows
    /\ clock' = [clock EXCEPT !.now = @ + 1]
    /\ UNCHANGED <<plan, cfg, money, numbers, thread, kept, wrote>>

CountRow ==
    /\ clock.now > clock.rows
    /\ clock' = [clock EXCEPT !.rows = @ + 1]
    /\ UNCHANGED <<plan, cfg, money, numbers, thread, kept, wrote>>

\* pool.emit(): the row is a job of every thread that has started.
EmitRow ==
    /\ clock.at = "look" /\ clock.count < clock.rows
    /\ clock' = [clock EXCEPT !.at = "emitted"]
    /\ thread' = [w \in Pool |->
          IF thread[w].at = "none" THEN thread[w]
          ELSE [thread[w] EXCEPT !.queue = Append(@, clock.count + 1)]]
    /\ UNCHANGED <<plan, cfg, money, numbers, kept, wrote>>

\* ... and then ticket_now is the time of the newest row, which may be a later one.
Stamped ==
    /\ clock.at = "emitted"
    /\ clock' = [clock EXCEPT !.at = "look", !.count = clock.count + 1,
                              !.ticket_now = clock.now]
    /\ UNCHANGED <<plan, cfg, money, numbers, thread, kept, wrote>>

-----------------------------------------------------------------------------
(* A thread of the pool. *)

\* job_init(): the next number, a counter of its own, no indicators.
JobInit(w) ==
    /\ cfg.symbols /\ thread[w].at = "none" /\ numbers # << >>
    /\ thread' = [thread EXCEPT ![w].at = "idle", ![w].num = Head(numbers)]
    /\ numbers' = Tail(numbers)
    /\ UNCHANGED <<plan, cfg, money, clock, kept, wrote>>

At(w, at) == thread[w].at = at
Moved(w, at) == [thread[w] EXCEPT !.at = at, !.step = 1]
Goes(w, t) == thread' = [thread EXCEPT ![w] = t]

\* job: AutoInit() sets the counter to 0; toScript().
StartRow(w) ==
    /\ At(w, "idle") /\ thread[w].queue # << >>
    /\ Goes(w, [Moved(w, "isInit") EXCEPT !.row = Head(thread[w].queue),
                                          !.queue = Tail(thread[w].queue)])
    /\ kept' = [kept EXCEPT ![w].id = 0]
    /\ UNCHANGED <<plan, cfg, money, clock, numbers, wrote>>

\* isInit(): main's run has left _ok as it was.  Two threads may find it so.
IsInit(w) ==
    /\ At(w, "isInit")
    /\ Goes(w, Moved(w, IF cfg.ok = "proc" THEN "init ok" ELSE "store"))
    /\ UNCHANGED <<plan, cfg, money, clock, numbers, kept, wrote>>

\* Then it configures again: setCash() sets what was asked for, ...
InitOk(w) ==
    /\ At(w, "init ok")
    /\ Goes(w, [Moved(w, "clamp") EXCEPT !.configured = @ + 1])
    /\ cfg' = [Tframe(cfg, 5) EXCEPT !.ok = "ok"]
    /\ money' = [money EXCEPT !.total = Asked, !.again = money.granted # -1]
    /\ UNCHANGED <<plan, clock, numbers, kept, wrote>>

\* ... ThreadPosition() takes more, in two steps without a mutex, ...
ThreadPosition(w) ==
    LET t == thread[w] IN
    /\ \/ /\ t.at = "clamp" /\ t.step <= Len(plan)
          /\ Goes(w, [t EXCEPT !.at = "insert",
                               !.post = Clamped(cfg, plan[t.step].pct)])
          /\ UNCHANGED cfg
       \/ /\ t.at = "insert"
          /\ Goes(w, [t EXCEPT !.at = "clamp", !.step = @ + 1])
          /\ cfg' = Positioned(cfg, plan[t.step].num, t.post)
    /\ UNCHANGED <<plan, money, clock, numbers, kept, wrote>>

\* ... and Analse() declares the indicator, at the time that ticket_now is then.
Analse(w) ==
    /\ At(w, "clamp") /\ thread[w].step > Len(plan) /\ Goes(w, Moved(w, "store"))
    /\ kept' = [kept EXCEPT ![w].analse = [init |-> clock.ticket_now,
                                           argv |-> << >>]]
    /\ UNCHANGED <<plan, cfg, money, clock, numbers, wrote>>

\* StoreId(), fetch() and store() at a place of the script.
Store(w) ==
    LET site == thread[w].step
        id == kept[w].id + 1
        silk == kept[w].silk
        val == <<site, thread[w].row>>
    IN  /\ At(w, "store") /\ site <= Sites
        /\ Goes(w, [thread[w] EXCEPT
                      !.step = @ + 1, !.last = wrote[w][site],
                      !.read = IF id \in DOMAIN silk THEN silk[id] ELSE Absent])
        /\ kept' = [kept EXCEPT ![w].id = id,
                                ![w].silk = [i \in DOMAIN silk \cup {id} |->
                                                IF i = id THEN val ELSE silk[i]]]
        /\ wrote' = [wrote EXCEPT ![w][site] = val]
        /\ UNCHANGED <<plan, cfg, money, clock, numbers>>

\* AnalseArgv(): only while ticket_now is what it was at the declaration.
AnalseArgv(w) ==
    LET arg == thread[w].step - Sites IN
    /\ At(w, "store") /\ arg \in 1..Argvs
    /\ Goes(w, [thread[w] EXCEPT !.step = @ + 1])
    /\ kept' = IF kept[w].analse.init = clock.ticket_now
               THEN [kept EXCEPT ![w].analse.argv = Append(@, arg)]
               ELSE kept
    /\ UNCHANGED <<plan, cfg, money, clock, numbers, wrote>>

\* The run ends, or an exception ends it, which the job swallows.
Runs(w) ==
    /\ At(w, "store")
    /\ LET ended == thread[w].step > Sites + Argvs IN
       Goes(w, [Moved(w, "idle") EXCEPT !.runs = IF ended THEN @ + 1 ELSE @,
                                        !.cut = @ \/ ~ended])
    /\ UNCHANGED <<plan, cfg, money, clock, numbers, kept, wrote>>

ScriptNext ==
    \/ ProgramInit \/ MassQuote \/ \E g \in Grants : QuoteResponse(g)
    \/ PushRow \/ CountRow \/ EmitRow \/ Stamped
    \/ \E w \in Pool :
          \/ JobInit(w) \/ StartRow(w) \/ IsInit(w) \/ InitOk(w)
          \/ ThreadPosition(w) \/ Analse(w)
          \/ Store(w) \/ AnalseArgv(w) \/ Runs(w)

ScriptSpec == ScriptInit /\ [][ScriptNext]_scriptVars

-----------------------------------------------------------------------------
(* Properties. *)

\* Types.
ScriptTypeOK ==
    /\ cfg.ok \in {"none", "proc", "ok"} /\ Len(cfg.tf) <= 1
    /\ \A w \in Pool :
          LET calls == IF thread[w].at \in {"clamp", "insert"} THEN Len(plan)
                       ELSE Sites + Argvs
          IN  thread[w].step \in 0..calls + 1 /\ kept[w].id \in 0..Sites
    /\ cfg.left \in Int /\ cfg.tsize \in Nat

\* What a place of the script fetches is what the same place stored last, in the same
\* thread, also after runs that an exception cut short.
PlacesKeepTheirs ==
    \A w \in Pool : thread[w].read = thread[w].last

\* A run is never more than one row behind in time: orders of a row are not stamped
\* with a time before the row that precedes it.
TimeKeepsUp ==
    \A w \in Pool : ~At(w, "none") /\ ~At(w, "idle")
                        => clock.ticket_now >= thread[w].row - 1

\* A thread configures in its first run only, and only what main has configured: main
\* and late threads leave no more than all of the cash to the positions.
PositionsAddUp ==
    /\ \A w \in Pool : thread[w].configured <= 1
    /\ SumFunction(cfg.entries) <= 100
    /\ \A n \in DOMAIN cfg.entries : cfg.entries[n] >= 0

\* What the exchange grants is divided without a rest; but a thread that configures
\* after that sets the undivided part to what was asked for.
CashAddsUp ==
    money.granted # -1 =>
        money.total = IF money.again THEN Asked
                      ELSE money.granted - SumFunction(money.own)

\* The arguments of an indicator are recorded in the order of the script; where two
\* rows carry one time they are recorded again, but none is left out in between.
ArgvInOrder ==
    \A w \in Pool : ~thread[w].cut =>
        \A i \in DOMAIN kept[w].analse.argv :
            kept[w].analse.argv[i] = ((i - 1) % Argvs) + 1

\* What scripts can rely on.
ScriptInv ==
    /\ ScriptTypeOK /\ PlacesKeepTheirs /\ TimeKeepsUp
    /\ PositionsAddUp /\ CashAddsUp /\ ArgvInOrder
=============================================================================
