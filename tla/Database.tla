------------------------------ MODULE Database ------------------------------
(****************************************************************************)
(* The connections of a process to its database: PGConnectPool hands them to *)
(* threads, and a Pgsql keeps from call to call the statement that is being  *)
(* built, the result of the last one and a cursor in it.                     *)
(*                                                                          *)
(* getId() and release() hold the pool's mutex; ptr() does not, and looks    *)
(* twice at the vector, which getId() may be moving.                         *)
(****************************************************************************)
EXTENDS Integers, Sequences, FiniteSets

CONSTANTS Threads,
          Connections,   \* opened at the start: pg_max_connect, or 1 in a node
          Sizes,         \* tuples of results
          Fields,        \* columns of a result
          MaxFailures    \* bound: statements the server refuses

ASSUME DatabaseAssumption ==
    Connections \in Nat /\ Sizes \subseteq Nat /\ Fields \in Nat \ {0}
    /\ MaxFailures \in Nat

VARIABLES pool,          \* of each connection: nobody has it
          pg,            \* Pgsql of each connection
          user,          \* of each thread: where it is in the pool
          work,          \* of each thread: the statement it builds, the rows it reads
          failures

databaseVars == <<pool, pg, user, work, failures>>

\* transaction: none, open, or aborted by a statement that failed in it; strayed is
\* history: it got into the hands of a thread that had asked for another.
Pgsql ==
    [transaction |-> "none", fields |-> 0, set |-> 0, ntuples |-> 0,
     _idx |-> 0, _begin |-> 0, _end |-> 0, strayed |-> FALSE]

Idle == [at |-> "idle", idx |-> 0, vector |-> 0, conn |-> 0, moved |-> FALSE]
NoWork == [building |-> FALSE, built |-> [c \in 1..Fields |-> 0], rows |-> << >>]

DatabaseInit ==
    /\ pool = [k \in 1..Connections |-> TRUE]
    /\ pg = [k \in 1..Connections |-> Pgsql]
    /\ user = [t \in Threads |-> Idle]
    /\ work = [t \in Threads |-> NoWork]
    /\ failures = 0

-----------------------------------------------------------------------------
(* PGConnectPool *)

Takes(t, idx) ==
    user' = [user EXCEPT ![t] = [Idle EXCEPT !.at = "ptr", !.idx = idx]]

\* A slip: whoever looks does not mark what it found.
GetUnmarked(t) ==
    /\ user[t].at = "idle"
    /\ \E idx \in DOMAIN pool : pool[idx] /\ Takes(t, idx)
    /\ UNCHANGED <<pool, pg, work, failures>>

\* getId(): the first that is free, or a new one.
GetId(t) ==
    /\ user[t].at = "idle" /\ UNCHANGED <<work, failures>>
    /\ \/ \E idx \in DOMAIN pool :
             /\ pool[idx] /\ \A k \in 1..idx - 1 : ~pool[k]
             /\ pool' = [pool EXCEPT ![idx] = FALSE] /\ UNCHANGED pg
             /\ Takes(t, idx)
       \/ /\ \A k \in DOMAIN pool : ~pool[k]
          /\ pool' = Append(pool, FALSE) /\ pg' = Append(pg, Pgsql)
          /\ Takes(t, Len(pool) + 1)

\* ptr(): idx is compared with the size.
Ptr(t) ==
    /\ user[t].at = "ptr"
    /\ user' = [user EXCEPT ![t].at = "at", ![t].vector = Len(pool)]
    /\ UNCHANGED <<pool, pg, work, failures>>

\* ... and looked up.  If the vector has been moved in between, what is read is
\* anything (0: no connection of the pool).
PtrAt(t) ==
    /\ user[t].at = "at"
    /\ \E conn \in IF user[t].vector = Len(pool) THEN {user[t].idx}
                   ELSE 0..Len(pool) :
          /\ user' = [user EXCEPT ![t].at = IF conn = 0 THEN "lost" ELSE "has",
                                  ![t].conn = conn,
                                  ![t].moved = user[t].vector # Len(pool)]
          /\ pg' = [k \in DOMAIN pg |-> IF k = conn /\ k # user[t].idx
                       THEN [pg[k] EXCEPT !.strayed = TRUE] ELSE pg[k]]
    /\ UNCHANGED <<pool, work, failures>>

\* release(), by whoever has finished the statements it built.
GiveBack(t) ==
    /\ \/ user[t].at = "lost"
       \/ user[t].at = "has" /\ ~work[t].building
       \/ user[t].at \in {"has", "rows", "read"} /\ pg[user[t].conn].strayed
    /\ pool' = [pool EXCEPT ![user[t].idx] = TRUE]
    /\ user' = [user EXCEPT ![t] = Idle]
    /\ work' = [work EXCEPT ![t] = NoWork]
    /\ UNCHANGED <<pg, failures>>

-----------------------------------------------------------------------------
(* Pgsql.  The server refuses a statement, and must in an aborted transaction. *)

\* What two threads do to one connection at a time is not followed.
Mine(t) == pg[user[t].conn]
Has(t) == user[t].at = "has" /\ ~Mine(t).strayed

Succeeds(t) == Mine(t).transaction # "aborted" /\ UNCHANGED failures
Fails(t) ==
    \/ Mine(t).transaction = "aborted" /\ UNCHANGED failures
    \/ Mine(t).transaction # "aborted"
       /\ failures < MaxFailures /\ failures' = failures + 1

Refused(p) ==
    [p EXCEPT !.transaction = IF @ = "open" THEN "aborted" ELSE @]

Becomes(t, p) == pg' = [pg EXCEPT ![user[t].conn] = p]

\* t starts, or ends, to put a statement together.
Building(t, b) == work' = [work EXCEPT ![t].building = b] /\ UNCHANGED user

\* A slip: _idx keeps the last row of the result before.
SelectKeepsIdx(t) ==
    /\ Has(t) /\ ~work[t].building /\ UNCHANGED <<pool, work>>
    /\ \/ /\ Succeeds(t)
          /\ \E n \in Sizes : Becomes(t, [Mine(t) EXCEPT
                !.ntuples = n, !._begin = 0, !._end = 0])
          /\ user' = [user EXCEPT ![t].at = "rows"]
       \/ /\ Fails(t) /\ UNCHANGED user
          /\ Becomes(t, [Refused(Mine(t)) EXCEPT
                !.ntuples = 0, !._begin = 0, !._end = 0])

\* A slip: the loop goes on where the one before ended.
SelectKeepsCursor(t) ==
    /\ Has(t) /\ ~work[t].building /\ UNCHANGED <<pool, work>>
    /\ \/ /\ Succeeds(t)
          /\ \E n \in Sizes : Becomes(t, [Mine(t) EXCEPT
                !.ntuples = n, !._idx = 0])
          /\ user' = [user EXCEPT ![t].at = "rows"]
       \/ /\ Fails(t) /\ UNCHANGED user
          /\ Becomes(t, [Refused(Mine(t)) EXCEPT
                !.ntuples = 0, !._idx = 0, !._begin = 0, !._end = 0])

\* select_sql(), and begin() of the loop over its result.
SelectSQL(t) ==
    /\ Has(t) /\ ~work[t].building /\ UNCHANGED <<pool, work>>
    /\ \/ /\ Succeeds(t)
          /\ \E n \in Sizes : Becomes(t, [Mine(t) EXCEPT
                !.ntuples = n, !._idx = 0, !._begin = 0, !._end = 0])
          /\ user' = [user EXCEPT ![t].at = "rows"]
       \/ /\ Fails(t) /\ UNCHANGED user
          /\ Becomes(t, [Refused(Mine(t)) EXCEPT
                !.ntuples = 0, !._idx = 0, !._begin = 0, !._end = 0])

\* row(): the cursor has come to another row since the last call.
Row(p) == p._idx < p._begin

\* One round of the loop of ExSetting(): a value goes into the row that is being
\* built; at the first value of the next one it is complete.
PGResult(t) ==
    LET p == Mine(t)
        c == p._end + 1
        last == c = Fields
    IN  /\ user[t].at = "rows" /\ ~p.strayed /\ p._begin # p.ntuples
        /\ work' = [work EXCEPT
              ![t].rows = IF Row(p) THEN Append(@, work[t].built) ELSE @,
              ![t].built[c] = p._begin + 1]
        /\ Becomes(t, [p EXCEPT
              !._idx = IF Row(p) THEN p._begin ELSE @,
              !._end = IF last THEN 0 ELSE @ + 1,
              !._begin = IF last THEN @ + 1 ELSE @])
        /\ UNCHANGED <<pool, user, failures>>

\* After the loop: the last row.
LastRow(t) ==
    LET p == Mine(t) IN
    /\ user[t].at = "rows" /\ ~p.strayed /\ p._begin = p.ntuples
    /\ user' = [user EXCEPT ![t].at = "read"]
    /\ work' = [work EXCEPT
          ![t].rows = IF Row(p) THEN Append(@, work[t].built) ELSE @]
    /\ Becomes(t, [p EXCEPT !._idx = IF Row(p) THEN p._begin ELSE @])
    /\ UNCHANGED <<pool, failures>>

DoneReading(t) ==
    /\ user[t].at = "read"
    /\ user' = [user EXCEPT ![t].at = "has"]
    /\ work' = [work EXCEPT ![t] = NoWork]
    /\ UNCHANGED <<pool, pg, failures>>

\* insert_table(), insert_field(), update_table(), update_field(), and conditions.
Build(t) ==
    /\ Has(t) /\ ~work[t].building /\ Building(t, TRUE)
    /\ UNCHANGED <<pool, failures>>
    /\ \/ Mine(t).fields < 2 /\ Becomes(t, [Mine(t) EXCEPT !.fields = @ + 1])
       \/ Mine(t).set < 2 /\ Becomes(t, [Mine(t) EXCEPT !.set = @ + 1])

\* A slip: what was built is forgotten only if it was accepted.
InsertForgetsLate(t) ==
    /\ Has(t) /\ Mine(t).fields > 0 /\ Building(t, FALSE) /\ UNCHANGED pool
    /\ \/ Succeeds(t) /\ Becomes(t, [Mine(t) EXCEPT !.fields = 0])
       \/ Fails(t) /\ Becomes(t, Refused(Mine(t)))

\* insert_commit(), insert_sql(): what was built is forgotten.
InsertCommit(t) ==
    /\ Has(t) /\ Mine(t).fields > 0 /\ Building(t, FALSE) /\ UNCHANGED pool
    /\ \/ Succeeds(t) /\ Becomes(t, [Mine(t) EXCEPT !.fields = 0, !.ntuples = 0])
       \/ Fails(t) /\ Becomes(t, [Refused(Mine(t)) EXCEPT
                                     !.fields = 0, !.ntuples = 0,
                                     !._begin = 0, !._end = 0])

\* update_commit()
UpdateCommit(t) ==
    /\ Has(t) /\ Mine(t).set > 0 /\ Building(t, FALSE) /\ UNCHANGED pool
    /\ \/ Succeeds(t) /\ Becomes(t, [Mine(t) EXCEPT !.set = 0])
       \/ Fails(t) /\ Becomes(t, [Refused(Mine(t)) EXCEPT !.set = 0])

\* A new session, in ExSetting(): BEGIN, which an open transaction ignores, the
\* row, its name, COMMIT, which rolls an aborted one back.  Where the row is
\* refused and there was none before, the loop goes on without COMMIT.
NewSession(t) ==
    LET p == Mine(t)
        open == [p EXCEPT !.transaction = IF @ = "none" THEN "open" ELSE @]
    IN  /\ Has(t) /\ ~work[t].building /\ UNCHANGED <<pool, user, work>>
        /\ \/ Succeeds(t) /\ Becomes(t, [open EXCEPT !.transaction = "none",
                                                     !.ntuples = 0])
           \/ Fails(t) /\ Becomes(t, [Refused(open) EXCEPT
                                         !.ntuples = 0, !._begin = 0, !._end = 0])
           \/ Fails(t) /\ Becomes(t, [open EXCEPT
                 !.transaction = "none", !.ntuples = 0, !._begin = 0, !._end = 0])

DatabaseNext ==
    \E t \in Threads :
        \/ GetId(t) \/ Ptr(t) \/ PtrAt(t) \/ GiveBack(t)
        \/ SelectSQL(t) \/ PGResult(t) \/ LastRow(t) \/ DoneReading(t)
        \/ Build(t) \/ InsertCommit(t) \/ UpdateCommit(t) \/ NewSession(t)

DatabaseSpec == DatabaseInit /\ [][DatabaseNext]_databaseVars

-----------------------------------------------------------------------------
(* Properties. *)

Holds(t) == user[t].at \in {"has", "rows", "read"}

\* Types; the cursor is within the result.
DatabaseTypeOK ==
    /\ Len(pool) = Len(pg)
    /\ \A k \in DOMAIN pg :
          /\ pg[k].transaction \in {"none", "open", "aborted"}
          /\ pg[k].fields \in 0..2 /\ pg[k].set \in 0..2
          /\ pg[k]._end \in 0..Fields - 1 /\ pg[k]._idx \in Nat
    /\ \A t \in Threads :
          user[t].at = "rows" /\ ~Mine(t).strayed => Mine(t)._begin <= Mine(t).ntuples

\* Two threads have the same connection only after the pool has grown while one
\* of them was looking its own up.
OneUser ==
    \A t, u \in Threads :
        /\ t # u /\ Holds(t) /\ Holds(u) /\ user[t].conn = user[u].conn
        => user[t].moved \/ user[u].moved

\* Every row of a result is collected once, complete and in order, whatever the
\* connection was used for before.
RowsOnce ==
    \A t \in Threads :
        user[t].at = "read" /\ ~Mine(t).strayed =>
            work[t].rows = [r \in 1..Mine(t).ntuples |-> [c \in 1..Fields |-> r]]

\* A connection that is free has no half of a statement left, and is in a
\* transaction only if one failed in it.
CleanWhenFree ==
    \A k \in DOMAIN pool :
        pool[k] /\ ~pg[k].strayed =>
            /\ pg[k].transaction # "open"
            /\ pg[k].fields = 0 /\ pg[k].set = 0

\* A connection serves its users one after the other: each gets the rows of its
\* own statement, and leaves nothing behind for the next one.
ConnectionsInv == DatabaseTypeOK /\ OneUser /\ RowsOnce /\ CleanWhenFree
=============================================================================
