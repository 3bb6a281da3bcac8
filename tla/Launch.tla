------------------------------- MODULE Launch --------------------------------
(****************************************************************************)
(* A launch of the program: main() forks a process per trader node and then  *)
(* becomes the exchange (Exchange::RiskFix), which opens the gate, a pipe,   *)
(* once its acceptor runs; the nodes (MachineOS) take a session out of the   *)
(* database and log on with it.  The database outlives the launch.           *)
(****************************************************************************)
EXTENDS Integers, Sequences, FiniteSets

CONSTANTS MaxNodes,      \* bound: trader nodes of a launch
          MaxForks,      \* bound: trader nodes of all launches
          Versions,      \* trade_info ids; 0 is that the script names none
          Tries,         \* 5: attempts to find a session, and to log on
          Processors     \* hardware_concurrency(), at most as many script threads

ASSUME LaunchAssumption ==
    /\ MaxNodes \in Nat \ {0} /\ MaxForks \in Nat
    /\ 1 \in Versions /\ Versions \subseteq Nat
    /\ Tries \in Nat \ {0} /\ Processors \in Nat \ {0}

VARIABLES parent,        \* main(): where it is, how many it has forked, now
          config,        \* what was asked for: nodes, process, version
          pipe,          \* bytes in it, who holds fd[1]
          acceptor,      \* up, the sessions it knows, application.end()
          child,         \* the trader nodes
          quant,         \* of those forked: the first identifier of their strategies
          account,       \* table account: session and version
          db,            \* fixsession 1..rows, login, the active version
          forks,
          raced          \* history: a login, or the end, came before all had picked

launchVars == <<parent, config, pipe, acceptor, child, quant, account, db,
                forks, raced>>

Numbers == 0..MaxNodes - 1
Main == MaxNodes         \* of the writers, the parent

Unborn == [pc |-> "none", sid |-> 0, tries |-> Tries,
           served |-> FALSE, first |-> FALSE, saw |-> << >>]

LaunchInit ==
    /\ parent = [pc |-> "idle", m |-> 0, now |-> 0]
    /\ config = [nodes |-> 1, process |-> 1, version |-> 0]
    /\ pipe = [bytes |-> 0, writers |-> {}]
    /\ acceptor = [up |-> FALSE, sessions |-> {}, end |-> FALSE, fresh |-> FALSE]
    /\ child = [n \in Numbers |-> Unborn]
    /\ quant = [n \in Numbers |-> 0]
    /\ account = << >> /\ db = [rows |-> 1, login |-> {}, active |-> 0]
    /\ forks = 0 /\ raced = FALSE

Before(n) == child[n].pc \in {"none", "born", "read", "pick"}
Over(n) == child[n].pc \in {"none", "end"}

-----------------------------------------------------------------------------
(* main() *)

\* -e for each node, -s, and -a, which may ask for more accounts.
Launch ==
    /\ parent.pc = "idle" /\ \A n \in Numbers : Over(n)
    /\ \E k \in 1..MaxNodes, v \in Versions \cup {0} :
          \E p \in {k, MaxNodes} :
             /\ forks + k <= MaxForks /\ forks' = forks + k
             /\ config' = [nodes |-> k, process |-> p, version |-> v]
    /\ parent' = [pc |-> "fork", m |-> 0, now |-> 0]
    /\ pipe' = [bytes |-> 0, writers |-> {Main}]
    /\ acceptor' = [up |-> FALSE, sessions |-> {}, end |-> FALSE, fresh |-> FALSE]
    /\ child' = [n \in Numbers |-> Unborn]
    /\ raced' = FALSE /\ UNCHANGED <<quant, account, db>>

\* A slip: now stays.
ForkSameTime ==
    /\ parent.pc = "fork" /\ parent.m < config.nodes
    /\ child' = [child EXCEPT ![parent.m].pc = "born"]
    /\ quant' = [quant EXCEPT ![parent.m] = parent.now + parent.m]
    /\ parent' = [parent EXCEPT !.m = @ + 1]
    /\ pipe' = [pipe EXCEPT !.writers = @ \cup {parent.m}]
    /\ UNCHANGED <<config, acceptor, account, db, forks, raced>>

Fork ==
    /\ parent.pc = "fork" /\ parent.m < config.nodes
    /\ child' = [child EXCEPT ![parent.m].pc = "born"]
    /\ quant' = [quant EXCEPT ![parent.m] = parent.now + parent.m]
    /\ parent' = [parent EXCEPT !.m = @ + 1, !.now = @ + Processors]
    /\ pipe' = [pipe EXCEPT !.writers = @ \cup {parent.m}]
    /\ UNCHANGED <<config, acceptor, account, db, forks, raced>>

\* fork() returns -1: exit(-1).
ForkFails ==
    /\ parent.pc = "fork" /\ parent.m < config.nodes
    /\ parent' = [parent EXCEPT !.pc = "idle"]
    /\ pipe' = [pipe EXCEPT !.writers = @ \ {Main}]
    /\ UNCHANGED <<config, acceptor, child, quant, account, db, forks, raced>>

\* The exchange's script: QuantVersion() makes its version the active one; without
\* it the active one is taken, or InitQVersion() makes the first.
Exchange ==
    /\ parent.pc = "fork" /\ parent.m = config.nodes
    /\ parent' = [parent EXCEPT !.pc = "setting"]
    /\ db' = [db EXCEPT !.active = CASE config.version # 0 -> config.version
                                     [] config.version = 0 /\ db.active = 0 -> 1
                                     [] OTHER -> db.active]
    /\ UNCHANGED <<config, pipe, acceptor, child, quant, account, forks, raced>>

Accounts(table) == {i \in DOMAIN table : table[i].verid = db.active}
Sessions(table, rows) == {table[i].sid : i \in rows}

\* ExSetting(): as many accounts as processes, or new sessions for those that
\* are missing; then the newest sessions are known.
ExSetting ==
    LET own == Accounts(account)
        need == config.process - Cardinality(own)
        rows == db.rows + need
    IN  /\ parent.pc = "setting"
        /\ parent' = [parent EXCEPT !.pc = "start"]
        /\ IF need <= 0
           THEN /\ acceptor' = [acceptor EXCEPT
                      !.sessions = Sessions(account, own),
                      !.fresh = Sessions(account, own) \cap db.login = {}]
                /\ UNCHANGED db
           ELSE /\ acceptor' = [acceptor EXCEPT
                      !.sessions = {s \in 1..rows : s > rows - config.process},
                      !.fresh = own = {}]
                /\ db' = [db EXCEPT !.rows = rows]
        /\ UNCHANGED <<config, pipe, child, quant, account, forks, raced>>

\* A slip: the gate is opened first.
StartLater ==
    /\ parent.pc = "start"
    /\ parent' = [parent EXCEPT !.pc = "gate"]
    /\ UNCHANGED <<config, pipe, acceptor, child, quant, account, db, forks, raced>>

AcceptorStart ==
    /\ parent.pc = "start"
    /\ parent' = [parent EXCEPT !.pc = "gate"]
    /\ acceptor' = [acceptor EXCEPT !.up = TRUE]
    /\ UNCHANGED <<config, pipe, child, quant, account, db, forks, raced>>

\* RiskFix() returns early, or catches an exception, before it opens the gate.
RiskFixFails ==
    /\ parent.pc \in {"setting", "start"}
    /\ parent' = [parent EXCEPT !.pc = "wait"]
    /\ UNCHANGED <<config, pipe, acceptor, child, quant, account, db, forks, raced>>

\* A slip in child_process(): fd[1] stays open.
GateLeftOpen ==
    /\ parent.pc = "gate"
    /\ pipe' = [pipe EXCEPT !.bytes = @ + 4]
    /\ parent' = [parent EXCEPT !.pc = "serve"]
    /\ UNCHANGED <<config, acceptor, child, quant, account, db, forks, raced>>

\* child_process(): four bytes, then fd[1] is closed.
Gate ==
    /\ parent.pc = "gate"
    /\ IF pipe.bytes = 0
       THEN pipe' = [pipe EXCEPT !.bytes = 4] /\ UNCHANGED parent
       ELSE /\ pipe' = [pipe EXCEPT !.writers = @ \ {Main}]
            /\ parent' = [parent EXCEPT !.pc = "serve"]
    /\ UNCHANGED <<config, acceptor, child, quant, account, db, forks, raced>>

\* The stream ends: FeedDataHandle() cancels all that are subscribed.
StreamEnds ==
    /\ parent.pc = "serve" /\ ~acceptor.end
    /\ \E n \in Numbers : child[n].pc = "trading" \/ child[n].served
    /\ acceptor' = [acceptor EXCEPT !.end = TRUE]
    /\ raced' = (raced \/ \E n \in 0..config.nodes - 1 : ~child[n].served)
    /\ UNCHANGED <<parent, config, pipe, child, quant, account, db, forks>>

AcceptorStop ==
    /\ parent.pc = "serve" /\ acceptor.end
    /\ acceptor' = [acceptor EXCEPT !.up = FALSE]
    /\ parent' = [parent EXCEPT !.pc = "wait"]
    /\ UNCHANGED <<config, pipe, child, quant, account, db, forks, raced>>

Wait ==
    /\ parent.pc = "wait" /\ \A n \in Numbers : Over(n)
    /\ parent' = [parent EXCEPT !.pc = "idle"]
    /\ UNCHANGED <<config, pipe, acceptor, child, quant, account, db, forks, raced>>

\* The user kills the launch.
Kill ==
    /\ parent.pc # "idle"
    /\ parent' = [parent EXCEPT !.pc = "idle"]
    /\ child' = [n \in Numbers |-> Unborn]
    /\ acceptor' = [acceptor EXCEPT !.up = FALSE]
    /\ UNCHANGED <<config, pipe, quant, account, db, forks, raced>>

-----------------------------------------------------------------------------
(* The child processes. *)

\* A slip: a child keeps fd[1].
KeepsWriter(n) ==
    /\ child[n].pc = "born"
    /\ child' = [child EXCEPT ![n].pc = "read"]
    /\ UNCHANGED <<parent, config, pipe, acceptor, quant, account, db, forks, raced>>

CloseWriter(n) ==
    /\ child[n].pc = "born"
    /\ child' = [child EXCEPT ![n].pc = "read"]
    /\ pipe' = [pipe EXCEPT !.writers = @ \ {n}]
    /\ UNCHANGED <<parent, config, acceptor, quant, account, db, forks, raced>>

\* read() of two bytes: returns with what there is, or when nobody can write.
Read(n) ==
    /\ child[n].pc = "read"
    /\ pipe.bytes > 0 \/ pipe.writers = {}
    /\ pipe' = [pipe EXCEPT !.bytes = IF @ > 2 THEN @ - 2 ELSE 0]
    /\ child' = [child EXCEPT ![n].pc = "pick"]
    /\ UNCHANGED <<parent, config, acceptor, quant, account, db, forks, raced>>

\* A slip: the oldest first.
NthOldest(set, k) ==
    IF k >= Cardinality(set) THEN 0
    ELSE CHOOSE s \in set : Cardinality({t \in set : t < s}) = k

Newer(set, s) == {t \in set : t > s}

\* The k-th of a set of rows, the newest first; 0 if there is none.
Nth(set, k) ==
    IF k >= Cardinality(set) THEN 0
    ELSE CHOOSE s \in set : Cardinality(Newer(set, s)) = k

\* What the queries see: who is in use, and the accounts.
Seen == <<db.login, account>>

Unused(seen) == {i \in Accounts(seen[2]) : seen[2][i].sid \notin seen[1]}
Free(seen) ==
    {s \in 2..db.rows : s \notin Sessions(seen[2], Accounts(seen[2])) \cup seen[1]}

\* A slip: the first of the list for every node.
EaSettingFirst(n, again, seen) ==
    IF Unused(seen) # {} THEN seen[2][Nth(Unused(seen), 0)].sid ELSE Nth(Free(seen), 0)

\* EaSetting(): the n-th account of the version that is not in use, else the n-th
\* session without an account; a later attempt takes the first of these.
EaSetting(n, again, seen) ==
    IF n < Cardinality(Unused(seen)) THEN seen[2][Nth(Unused(seen), n)].sid
    ELSE Nth(Free(seen), IF again THEN 0 ELSE n)

\* A slip: what was not found is taken.
PickUnchecked(n) ==
    LET c == child[n] IN
    /\ c.pc = "pick"
    /\ child' = [child EXCEPT ![n] =
          [c EXCEPT !.pc = "logon", !.sid = EaSetting(n, FALSE, Seen), !.first = TRUE,
                    !.saw = Seen]]
    /\ UNCHANGED <<parent, config, pipe, acceptor, quant, account, db, forks, raced>>

\* It is tried once, and then Tries times.
Pick(n) ==
    LET c == child[n]
        first == c.saw = << >>
        sid == EaSetting(n, ~first, Seen)
    IN  /\ c.pc = "pick"
        /\ child' = [child EXCEPT ![n] =
              IF sid # 0
              THEN [c EXCEPT !.pc = "logon", !.sid = sid, !.tries = Tries,
                             !.first = first, !.saw = Seen]
              ELSE IF ~first /\ c.tries = 1 THEN [c EXCEPT !.pc = "end"]
              ELSE [c EXCEPT !.tries = IF first THEN @ ELSE @ - 1,
                             !.saw = Seen]]
        /\ UNCHANGED <<parent, config, pipe, acceptor, quant, account, db, forks, raced>>

Online(n) == child[n].pc \in {"on", "trading", "late"}

\* A slip: the acceptor does not mind who is logged on.
AcceptsAny(n) == acceptor.up /\ child[n].sid \in acceptor.sessions

\* The acceptor knows the session, and nobody is logged on with it.
Accepts(n) ==
    /\ acceptor.up /\ child[n].sid \in acceptor.sessions
    /\ \A k \in Numbers : Online(k) => child[k].sid # child[n].sid

\* _initiator.start(): a logon that is accepted takes less than a second.  Who
\* comes when the stream has ended is not told so any more.
Logon(n) ==
    LET c == child[n] IN
    /\ c.pc = "logon"
    /\ child' = [child EXCEPT ![n] =
          IF Accepts(n)
          THEN [c EXCEPT !.pc = IF acceptor.end THEN "late" ELSE "on",
                         !.served = TRUE]
          ELSE IF c.tries > 1 THEN [c EXCEPT !.tries = @ - 1]
          ELSE [c EXCEPT !.pc = "end"]]
    /\ UNCHANGED <<parent, config, pipe, acceptor, quant, account, db, forks, raced>>

\* A slip: an account is always inserted.
TradersInserts(n) ==
    /\ child[n].pc = "on" /\ acceptor.up
    /\ child' = [child EXCEPT ![n].pc = "trading"]
    /\ account' = Append(account, [sid |-> child[n].sid, verid |-> db.active])
    /\ db' = [db EXCEPT !.login = @ \cup {child[n].sid}]
    /\ raced' = (raced \/ \E k \in 0..config.nodes - 1 : Before(k))
    /\ UNCHANGED <<parent, config, pipe, acceptor, quant, forks>>

\* traders(): the node subscribes; its session gets an account unless it has one
\* of whichever version, and is in use.
Traders(n) ==
    LET s == child[n].sid IN
    /\ child[n].pc = "on" /\ acceptor.up
    /\ child' = [child EXCEPT ![n].pc = "trading"]
    /\ account' = IF s \in Sessions(account, DOMAIN account) THEN account
                  ELSE Append(account, [sid |-> s, verid |-> db.active])
    /\ db' = [db EXCEPT !.login = @ \cup {s}]
    /\ raced' = (raced \/ \E k \in 0..config.nodes - 1 : Before(k))
    /\ UNCHANGED <<parent, config, pipe, acceptor, quant, forks>>

\* QuoteStatusReport(0) of a node that leaves: SessionLogout(), unless the stream
\* has ended.
Leave(n) ==
    /\ child[n].pc \in {"on", "trading"}
    /\ acceptor.end \/ child[n].pc = "trading"
    /\ child' = [child EXCEPT ![n].pc = "end"]
    /\ db' = [db EXCEPT !.login = IF acceptor.end THEN @ ELSE @ \ {child[n].sid}]
    /\ raced' = (raced \/ \E k \in 0..config.nodes - 1 : Before(k))
    /\ UNCHANGED <<parent, config, pipe, acceptor, quant, account, forks>>

-----------------------------------------------------------------------------
ParentSteps ==
    \/ Fork \/ Exchange \/ ExSetting \/ AcceptorStart \/ RiskFixFails
    \/ Gate \/ StreamEnds \/ AcceptorStop \/ Wait

ChildSteps(n) ==
    \/ CloseWriter(n) \/ Read(n) \/ Pick(n) \/ Logon(n) \/ Traders(n) \/ Leave(n)

LaunchNext ==
    \/ Launch \/ ForkFails \/ Kill \/ ParentSteps
    \/ \E n \in Numbers : ChildSteps(n)

\* The operating system runs every process; users need not launch or kill.
LaunchFair ==
    /\ WF_launchVars(ParentSteps)
    /\ \A n \in Numbers : WF_launchVars(ChildSteps(n))

LaunchSpec == LaunchInit /\ [][LaunchNext]_launchVars
FairLaunchSpec == LaunchSpec /\ LaunchFair

-----------------------------------------------------------------------------
(* Properties. *)

Started(n) == child[n].pc \notin {"none", "born", "read"}

\* Types.
LaunchTypeOK ==
    /\ parent \in [pc : {"idle", "fork", "setting", "start", "gate", "serve", "wait"},
                   m : 0..MaxNodes, now : Nat]
    /\ pipe \in [bytes : 0..4, writers : SUBSET (0..MaxNodes)]
    /\ \A n \in Numbers :
          /\ child[n].sid \in 0..db.rows
          /\ child[n].pc \in {"logon", "on", "trading", "late"} => child[n].sid # 0
    /\ db.login \subseteq 2..db.rows /\ db.active \in Versions \cup {0}
    /\ \A i \in DOMAIN account : account[i].sid \in 2..db.rows

\* No node starts before the acceptor runs, unless the launch has been given up.
GateInOrder ==
    \A n \in Numbers :
        Started(n) => acceptor.up \/ parent.pc \in {"wait", "idle"}

\* The strategies of a launch have different identifiers.
QuantIds(n) == quant[n] .. quant[n] + Processors - 1
QuantIdsDistinct ==
    \A n, k \in 0..parent.m - 1 : n # k => QuantIds(n) \cap QuantIds(k) = {}

\* Nodes that look at the same lists at their first attempt get different
\* sessions.
PicksAreDistinct ==
    \A n, k \in Numbers :
        /\ n # k /\ child[n].sid # 0 /\ child[k].sid # 0
        /\ child[n].first /\ child[k].first /\ child[n].saw = child[k].saw
        => child[n].sid # child[k].sid

\* A session has one account, although traders() looks for one of any version
\* and EaSetting() for those of the active one.
OneAccountEach ==
    \A i, j \in DOMAIN account :
        i # j => account[i].sid # account[j].sid

\* Nobody is turned away whose exchange made all sessions, or found all
\* accounts free, if no node was faster than another's choice.
NoneTurnedAway ==
    \A n \in Numbers :
        child[n].pc = "end" /\ acceptor.fresh /\ parent.pc = "serve" /\ ~raced
            => child[n].served

\* What is not in use can be chosen again: who is online is in use, once it has
\* subscribed.
InUse ==
    \A n \in Numbers : child[n].pc = "trading" => child[n].sid \in db.login

\* Four bytes and reads of two let every node through.
GateOpens ==
    \A n \in Numbers : parent.pc = "serve" /\ ~Over(n) ~> Started(n) \/ parent.pc = "idle"

\* A launch that has opened its gate ends, unless a node logs on after the stream
\* has ended, or nobody logs on at all.
LaunchEnds ==
    acceptor.end ~> parent.pc = "idle" \/ \E n \in Numbers : child[n].pc = "late"

\* A launch gives its nodes numbers, accounts and sessions of their own, after the
\* gate, and turns nobody away who came in time.
LaunchInv ==
    LaunchTypeOK /\ GateInOrder /\ QuantIdsDistinct /\ OneAccountEach
        /\ PicksAreDistinct /\ NoneTurnedAway /\ InUse

\* A launch goes on to its end: every node passes the gate, and the exchange
\* stops when its nodes are through.
LaunchProceeds == GateOpens /\ LaunchEnds

\* login: 0 not logged on, 1 logged on.
LoginTellsWhoIsOn ==
    parent.pc = "idle" /\ acceptor.end /\ (\A n \in Numbers : Over(n)) => db.login = {}
=============================================================================
