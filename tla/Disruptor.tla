------------------------------ MODULE Disruptor ------------------------------
(***************************************************************************)
(* The quote bus of a node: one master thread (FeedData on the exchange,   *)
(* FixQuote in a trader) deposits records into a SilkPermit ring, slave    *)
(* threads (FixBeam, OHLCBeam) follow the master's Sequence, a Trigger     *)
(* puts idle slaves to sleep, and a third thread (wait_slave) stops slaves *)
(* that have nothing left to read.  The bus never makes the master wait.   *)
(*                                                                         *)
(* One action is one access to state shared between the threads; reads of  *)
(* state only the same thread writes are part of the step that uses them.  *)
(***************************************************************************)
EXTENDS Integers, Sequences

CONSTANTS Slaves,      \* the threads that run Disruptor::wait_for
          Rows,        \* rows() of the ring
          MaxRecords,  \* length of the quote stream the master deposits
          PauseAfter,  \* sleep_time of wait_slave (3 in the code)
          Pauser,      \* whether the wait_slave thread runs
          SleepCovers, \* whether sleep(1) in quit() outlasts a slave's way
                       \* from its read of the sequence to subscriber()
          None,        \* no complete record: an empty or a torn row
          Refused      \* fixed() returned -1: no record was obtained

ASSUME BusAssumption ==
    /\ Slaves # {}
    /\ Rows \in Nat /\ Rows >= 3   \* SilkWormRow, 2^POWNum, is far larger
    /\ MaxRecords \in Nat \ {0}
    /\ PauseAfter \in Nat
    /\ Pauser \in BOOLEAN
    /\ SleepCovers \in BOOLEAN
    /\ None \notin Nat /\ Refused \notin Nat \cup {None}

E2Q_RUNING == "runing"
E2Q_STOP   == "stop"
E2Q_EXIST  == "exist"

VARIABLES
    \* shared memory
    status,      \* Trigger::_status
    seq,         \* the master's Sequence::_sequence
    alert,       \* the master's Sequence::_alert
    slots,       \* the data of the SilkPermit, one value per row
    writing,     \* *_writingIndex
    writed,      \* *_writedIndex
    tail,        \* *_tailIndex
    cursor,      \* cursor[s]: the Sequence of slave s
    \* master thread
    mpc,         \* the next step of the master
    next,        \* the record of the stream the master is about to deposit
    \* slave threads
    spc,         \* spc[s]: the next step of slave s; "asleep" is inside cv.wait
    follow,      \* follow[s]: follow_min of wait_for
    pos,         \* pos[s]: the row counter m of the callback's loop
    seen,        \* seen[s]: what fixed() loaded last: an index, a first column
    got,         \* got[s]: history of the records the callback obtained
    \* wait_slave thread
    ppc,         \* its next step
    seenRun,     \* whether now_stats was E2Q_RUNING
    seenSeq,     \* me
    waited       \* _wait_number

ring    == <<slots, writing, writed, tail>>
master  == <<mpc, next>>
slave   == <<spc, follow, pos, seen, got, cursor>>
pauser  == <<ppc, seenRun, seenSeq, waited>>
vars    == <<status, seq, alert, ring, master, slave, pauser>>

-----------------------------------------------------------------------------
MasterSteps == {"wait_next", "wake", "wakeEmit", "cursor", "lock", "write",
                "fill", "advance", "writed", "turn", "emit", "publish",
                "sleep", "exist", "existEmit", "distance", "alert", "done"}
SlaveSteps  == {"aquire", "sub", "wait", "asleep", "reload", "fixed", "range",
                "equal", "eqWriting", "eqWrited", "read", "last", "store",
                "quit", "done"}
PauserSteps == {"status", "me", "get_min", "stop", "stopEmit", "done"}

Init ==
    /\ status = E2Q_STOP
    /\ seq = 0
    /\ alert = E2Q_RUNING
    /\ slots = [i \in 0 .. Rows - 1 |-> None]
    /\ writing = 0 /\ writed = 0 /\ tail = 0
    /\ cursor = [s \in Slaves |-> 0]
    /\ mpc = "wait_next"
    /\ next = 0
    /\ spc = [s \in Slaves |-> "aquire"]
    /\ follow = [s \in Slaves |-> 0]
    /\ pos = [s \in Slaves |-> 0]
    /\ seen = [s \in Slaves |-> None]
    /\ got = [s \in Slaves |-> <<>>]
    /\ ppc = IF Pauser THEN "status" ELSE "done"
    /\ seenRun = FALSE
    /\ seenSeq = 0
    /\ waited = 0

-----------------------------------------------------------------------------
(* Trigger and barrier, as the threads use them.                           *)

\* emit() takes cv_m, which a waiter holds from its test of the status until
\* it sleeps: everyone asleep is notified, and tests the status again.
Emit == spc' = [s \in Slaves |-> IF spc[s] = "asleep" THEN "wait" ELSE spc[s]]

\* distance(): the master's sequence minus the least sequence of its slaves.
\* get_min() reads the slaves one by one; they only grow, so a comparison with
\* a threshold is what it would be at one moment of the scan.
DistanceExceeds(d) == \E s \in Slaves : seq - cursor[s] > d

-----------------------------------------------------------------------------
(* The master thread: wait_next(); deposit(data) for every record.         *)

Step(from, to) == mpc = from /\ mpc' = to

\* if the distance exceeds 2 the slaves are released, a full ring or not
WaitNext ==
    /\ mpc = "wait_next"
    /\ mpc' = IF DistanceExceeds(2) THEN "wake" ELSE "cursor"
    /\ UNCHANGED <<status, seq, alert, ring, next, slave, pauser>>

WaitNextTurn ==
    /\ Step("wake", "wakeEmit")
    /\ status' = E2Q_RUNING
    /\ UNCHANGED <<seq, alert, ring, next, slave, pauser>>

WaitNextEmit ==
    /\ Step("wakeEmit", "cursor")
    /\ Emit
    /\ UNCHANGED <<status, seq, alert, ring, next, follow, pos, seen, got,
                   cursor, pauser>>

\* A slip in wait_next(): the row is given up one record too late.
CursorLate ==
    /\ Step("cursor", "lock")
    /\ tail' = IF seq > Rows /\ writed # tail THEN (tail + 1) % Rows
                                               ELSE tail
    /\ UNCHANGED <<status, seq, alert, slots, writing, writed, next, slave,
                   pauser>>

\* cursor(): gives up the oldest row once Rows - 1 records were published,
\* whatever the slaves have read
Cursor ==
    /\ Step("cursor", "lock")
    /\ tail' = IF seq >= Rows - 1 /\ writed # tail THEN (tail + 1) % Rows
                                                    ELSE tail
    /\ UNCHANGED <<status, seq, alert, slots, writing, writed, next, slave,
                   pauser>>

IsFull == (writed + 1) % Rows = tail

AfterRecord == IF next + 1 < MaxRecords THEN "wait_next" ELSE "sleep"

\* insert(): check() refuses the record of a full ring, which is lost;
\* otherwise the Lock is taken, and that resets the trigger
Lock ==
    /\ mpc = "lock"
    /\ IF IsFull
       THEN mpc' = AfterRecord /\ next' = next + 1 /\ UNCHANGED status
       ELSE mpc' = "write" /\ status' = E2Q_STOP /\ UNCHANGED next
    /\ UNCHANGED <<seq, alert, ring, slave, pauser>>

\* the columns are copied one by one: the row is torn until the last one
Write ==
    /\ Step("write", "fill")
    /\ slots' = [slots EXCEPT ![writing] = None]
    /\ UNCHANGED <<status, seq, alert, writing, writed, tail, next, slave,
                   pauser>>

Fill ==
    /\ Step("fill", "advance")
    /\ slots' = [slots EXCEPT ![writing] = next]
    /\ UNCHANGED <<status, seq, alert, writing, writed, tail, next, slave,
                   pauser>>

\* A slip in insert(): the write index does not wrap.
AdvanceWithoutWrap ==
    /\ Step("advance", "writed")
    /\ writing' = writing + 1
    /\ UNCHANGED <<status, seq, alert, slots, writed, tail, next, slave,
                   pauser>>

Advance ==
    /\ Step("advance", "writed")
    /\ writing' = (writing + 1) % Rows
    /\ UNCHANGED <<status, seq, alert, slots, writed, tail, next, slave,
                   pauser>>

\* A slip in insert(): _writedIndex is set to the row of the next record.
WritedIsWriting ==
    /\ Step("writed", "turn")
    /\ writed' = writing
    /\ UNCHANGED <<status, seq, alert, slots, writing, tail, next, slave,
                   pauser>>

Writed ==
    /\ Step("writed", "turn")
    /\ writed' = IF writing = 0 THEN Rows - 1 ELSE writing - 1
    /\ UNCHANGED <<status, seq, alert, slots, writing, tail, next, slave,
                   pauser>>

\* A slip in Mutex::unlock(): emit() without turn().
TurnForgotten ==
    /\ Step("turn", "emit")
    /\ UNCHANGED <<status, seq, alert, ring, next, slave, pauser>>

\* ~Lock(): the slaves are released first, the sequence grows last
Turn ==
    /\ Step("turn", "emit")
    /\ status' = alert
    /\ UNCHANGED <<seq, alert, ring, next, slave, pauser>>

UnlockEmit ==
    /\ Step("emit", "publish")
    /\ Emit
    /\ UNCHANGED <<status, seq, alert, ring, next, follow, pos, seen, got,
                   cursor, pauser>>

Publish ==
    /\ mpc = "publish"
    /\ mpc' = AfterRecord
    /\ seq' = seq + 1
    /\ next' = next + 1
    /\ UNCHANGED <<status, alert, ring, slave, pauser>>

(* The end of the stream: quit() *)

\* With SleepCovers, a slave that has read the sequence reaches the trigger
\* within the second the master sleeps.
Sleep ==
    /\ Step("sleep", "exist")
    /\ SleepCovers => \A s \in Slaves : spc[s] = "sub" => follow[s] = seq
    /\ UNCHANGED <<status, seq, alert, ring, next, slave, pauser>>

QuitTurn ==
    /\ Step("exist", "existEmit")
    /\ status' = E2Q_EXIST
    /\ UNCHANGED <<seq, alert, ring, next, slave, pauser>>

QuitEmit ==
    /\ Step("existEmit", "distance")
    /\ Emit
    /\ UNCHANGED <<status, seq, alert, ring, next, follow, pos, seen, got,
                   cursor, pauser>>

\* A slip in quit(): leaves with one record unread.
QuitDistanceOne ==
    /\ mpc = "distance"
    /\ mpc' = IF DistanceExceeds(1) THEN "sleep" ELSE "alert"
    /\ UNCHANGED <<status, seq, alert, ring, next, slave, pauser>>

QuitDistance ==
    /\ mpc = "distance"
    /\ mpc' = IF DistanceExceeds(0) THEN "sleep" ELSE "alert"
    /\ UNCHANGED <<status, seq, alert, ring, next, slave, pauser>>

QuitAlert ==
    /\ Step("alert", "done")
    /\ alert' = E2Q_EXIST
    /\ UNCHANGED <<status, seq, ring, next, slave, pauser>>

Master == \/ WaitNext \/ WaitNextTurn \/ WaitNextEmit \/ Cursor
          \/ Lock \/ Write \/ Fill \/ Advance \/ Writed \/ Turn \/ UnlockEmit
          \/ Publish \/ Sleep \/ QuitTurn \/ QuitEmit \/ QuitDistance
          \/ QuitAlert

-----------------------------------------------------------------------------
(* A slave thread: wait_for(callback).                                     *)

SlaveStep(s, from, to) == spc[s] = from /\ spc' = [spc EXCEPT ![s] = to]

\* where the loop goes with the value of follow_min it has just read
Enter(s) ==
    /\ follow' = [follow EXCEPT ![s] = seq]
    /\ pos' = [pos EXCEPT ![s] = cursor[s]]
    /\ UNCHANGED <<seen, got, cursor>>

Aquire(s) ==
    /\ SlaveStep(s, "aquire", IF seq = cursor[s] THEN "sub" ELSE "fixed")
    /\ Enter(s)
    /\ UNCHANGED <<status, seq, alert, ring, master, pauser>>

\* subscriber(): the load before the mutex; -1 leaves the loop
Subscriber(s) ==
    /\ SlaveStep(s, "sub", CASE status = E2Q_EXIST  -> "done"
                             [] status = E2Q_RUNING -> "reload"
                             [] status = E2Q_STOP   -> "wait")
    /\ UNCHANGED <<status, seq, alert, ring, master, follow, pos, seen, got,
                   cursor, pauser>>

\* A slip in subscriber(): the predicate is _status == E2Q_RUNING.
WaitForRuning(s) ==
    /\ SlaveStep(s, "wait", IF status # E2Q_RUNING THEN "asleep" ELSE "reload")
    /\ UNCHANGED <<status, seq, alert, ring, master, follow, pos, seen, got,
                   cursor, pauser>>

\* cv.wait tests its predicate under cv_m and sleeps when it fails
Wait(s) ==
    /\ SlaveStep(s, "wait", IF status = E2Q_STOP THEN "asleep" ELSE "reload")
    /\ UNCHANGED <<status, seq, alert, ring, master, follow, pos, seen, got,
                   cursor, pauser>>

\* a condition variable may wake for no reason
SpuriousWake(s) ==
    /\ SlaveStep(s, "asleep", "wait")
    /\ UNCHANGED <<status, seq, alert, ring, master, follow, pos, seen, got,
                   cursor, pauser>>

Reload(s) ==
    /\ SlaveStep(s, "reload", IF cursor[s] < seq THEN "fixed" ELSE "store")
    /\ Enter(s)
    /\ UNCHANGED <<status, seq, alert, ring, master, pauser>>

(* fixed(&rec_data, pos[s] % Rows): three tests and the copy of the columns. *)
(* The master may move between any two of its loads.                        *)

Row(s) == pos[s] % Rows

\* ATOMICEBETWEEN loads the tail first ...
FixedTail(s) ==
    /\ SlaveStep(s, "fixed", "range")
    /\ seen' = [seen EXCEPT ![s] = tail]
    /\ UNCHANGED <<status, seq, alert, ring, master, follow, pos, got, cursor,
                   pauser>>

\* A slip in ATOMICEBETWEEN: a window that has wrapped is not recognised.
InWindowUnwrapped(low, row, high) == low <= row /\ row < high

\* ... and the write index next: the row is at or above the tail, or below
\* the next write.
InWindow(low, row, high) == low <= row \/ row < high

\* ATOMICEQ(_writedIndex, _writingIndex): the order of its two loads is the
\* compiler's choice.
FixedEqual(s) ==
    /\ \/ /\ SlaveStep(s, "equal", "eqWriting")
          /\ seen' = [seen EXCEPT ![s] = writed]
       \/ /\ SlaveStep(s, "equal", "eqWrited")
          /\ seen' = [seen EXCEPT ![s] = writing]
    /\ UNCHANGED <<status, seq, alert, ring, master, follow, pos, got, cursor,
                   pauser>>

Passes(s) ==
    CASE spc[s] = "range"     -> InWindow(seen[s], Row(s), writing)
      [] spc[s] = "eqWriting" -> seen[s] # writing
      [] spc[s] = "eqWrited"  -> seen[s] # writed

FixedPasses(s) ==
    /\ \/ SlaveStep(s, "range", "equal")
       \/ SlaveStep(s, "eqWriting", "read")
       \/ SlaveStep(s, "eqWrited", "read")
    /\ Passes(s)
    /\ seen' = [seen EXCEPT ![s] = None]
    /\ UNCHANGED <<status, seq, alert, ring, master, follow, pos, got, cursor,
                   pauser>>

\* the callback is done with row pos[s], of which it got v
Obtain(s, v, from) ==
    /\ SlaveStep(s, from, IF pos[s] + 1 < follow[s] THEN "fixed" ELSE "store")
    /\ got' = [got EXCEPT ![s] = Append(@, v)]
    /\ pos' = [pos EXCEPT ![s] = @ + 1]
    /\ seen' = [seen EXCEPT ![s] = None]
    /\ UNCHANGED <<status, seq, alert, ring, master, follow, cursor, pauser>>

\* -1: the callback logs the row and skips it
FixedRefused(s) ==
    /\ spc[s] \in {"range", "eqWriting", "eqWrited"}
    /\ ~Passes(s)
    /\ Obtain(s, Refused, spc[s])

\* the columns are copied one by one, here in two halves
FixedCopy(s) ==
    /\ SlaveStep(s, "read", "last")
    /\ seen' = [seen EXCEPT ![s] = slots[Row(s)]]
    /\ UNCHANGED <<status, seq, alert, ring, master, follow, pos, got, cursor,
                   pauser>>

FixedRead(s) ==
    Obtain(s, IF slots[Row(s)] = seen[s] THEN seen[s] ELSE None, "last")

\* A slip in wait_for(): the master's sequence is read once more.
StoreLatest(s) ==
    /\ SlaveStep(s, "store", "quit")
    /\ cursor' = [cursor EXCEPT ![s] = seq]
    /\ UNCHANGED <<status, seq, alert, ring, master, follow, pos, seen, got,
                   pauser>>

Store(s) ==
    /\ SlaveStep(s, "store", "quit")
    /\ cursor' = [cursor EXCEPT ![s] = follow[s]]
    /\ UNCHANGED <<status, seq, alert, ring, master, follow, pos, seen, got,
                   pauser>>

\* while (_barrier_list.quit()): the master's sequence is still running
BarrierQuit(s) ==
    /\ SlaveStep(s, "quit", IF alert = E2Q_RUNING THEN "aquire" ELSE "done")
    /\ UNCHANGED <<status, seq, alert, ring, master, follow, pos, seen, got,
                   cursor, pauser>>

SlaveRun(s) == \/ Aquire(s) \/ Subscriber(s) \/ Wait(s) \/ Reload(s)
               \/ FixedTail(s) \/ FixedEqual(s) \/ FixedPasses(s)
               \/ FixedRefused(s) \/ FixedCopy(s) \/ FixedRead(s)
               \/ Store(s) \/ BarrierQuit(s)

-----------------------------------------------------------------------------
(* The wait_slave thread: stops the slaves once it has seen them idle more *)
(* than PauseAfter times.                                                  *)

PauserStep(from, to) == ppc = from /\ ppc' = to

PauseStatus ==
    /\ PauserStep("status", IF status = E2Q_EXIST THEN "done" ELSE "me")
    /\ seenRun' = (status = E2Q_RUNING)
    /\ UNCHANGED <<status, seq, alert, ring, master, slave, seenSeq, waited>>

PauseMe ==
    /\ PauserStep("me", "get_min")
    /\ seenSeq' = seq
    /\ UNCHANGED <<status, seq, alert, ring, master, slave, seenRun, waited>>

\* get_min(): the least sequence among the slaves equals me.  (A slave that
\* passes me during the scan may add one to _wait_number: not modelled.)
Idle == /\ \A s \in Slaves : cursor[s] >= seenSeq
        /\ \E s \in Slaves : cursor[s] = seenSeq

PauseGetMin ==
    /\ ppc = "get_min"
    /\ IF Idle /\ seenRun
       THEN /\ waited' = waited + 1
            /\ ppc' = IF waited + 1 > PauseAfter THEN "stop" ELSE "status"
       ELSE UNCHANGED waited /\ ppc' = "status"
    /\ UNCHANGED <<status, seq, alert, ring, master, slave, seenRun, seenSeq>>

PauseTurn ==
    /\ PauserStep("stop", "stopEmit")
    /\ status' = E2Q_STOP
    /\ UNCHANGED <<seq, alert, ring, master, slave, seenRun, seenSeq, waited>>

PauseEmit ==
    /\ PauserStep("stopEmit", "status")
    /\ Emit
    /\ waited' = 0
    /\ UNCHANGED <<status, seq, alert, ring, master, follow, pos, seen, got,
                   cursor, seenRun, seenSeq>>

PauserRun == PauseStatus \/ PauseMe \/ PauseGetMin \/ PauseTurn \/ PauseEmit

-----------------------------------------------------------------------------
Finished == mpc = "done" /\ ppc = "done" /\ \A s \in Slaves : spc[s] = "done"

\* all threads have returned
Terminating == Finished /\ UNCHANGED vars

Next == \/ Master
        \/ \E s \in Slaves : SlaveRun(s) \/ SpuriousWake(s)
        \/ PauserRun
        \/ Terminating

Spec == Init /\ [][Next]_vars

\* The operating system keeps running every thread that can run; nothing is
\* assumed about spurious wake-ups.  A live feed may never bring the next
\* record nor end.
FeedMayStall == /\ Spec
                /\ WF_vars(Master /\ mpc \notin {"wait_next", "sleep"})
                /\ \A s \in Slaves : WF_vars(SlaveRun(s))
                /\ WF_vars(PauserRun)

-----------------------------------------------------------------------------
(* Correctness.                                                            *)

TypeOK ==
    /\ status \in {E2Q_RUNING, E2Q_STOP, E2Q_EXIST}
    /\ alert \in {E2Q_RUNING, E2Q_EXIST}
    /\ seq \in Nat
    /\ slots \in [0 .. Rows - 1 -> Nat \cup {None}]
    /\ writing \in 0 .. Rows - 1 /\ writed \in 0 .. Rows - 1
    /\ tail \in 0 .. Rows - 1
    /\ cursor \in [Slaves -> Nat]
    /\ mpc \in MasterSteps /\ next \in Nat
    /\ spc \in [Slaves -> SlaveSteps]
    /\ follow \in [Slaves -> Nat] /\ pos \in [Slaves -> Nat]
    /\ seen \in [Slaves -> Nat \cup {None}]
    /\ got \in [Slaves -> Seq(Nat \cup {None, Refused})]
    /\ ppc \in PauserSteps /\ seenRun \in BOOLEAN
    /\ seenSeq \in Nat /\ waited \in Nat

\* wait_next() before every deposit() makes check() succeed: no quote of the
\* stream is refused, however slow the slaves are.
NothingRefused == next = seq

\* The bus keeps the promise of Multicast: every slave goes through the records
\* in order, none twice and none left out; for a record at most Rows - 2 behind
\* the master it gets this record intact or is refused, never another or a torn
\* one; and the master's alert turns to E2Q_EXIST only when every slave has
\* gone through everything.
Bus == INSTANCE Multicast WITH Readers <- Slaves, Window <- Rows - 2,
                               sent <- seq, open <- alert = E2Q_RUNING
ImplementsMulticast == Bus!Spec

\* wait_next() keeps rows() - 1 records (its comment).  fixed() refuses a row
\* that holds one of the Rows - 2 latest only when an index it loaded for the
\* test in hand has moved before it loaded the other one.
RefusesKeptRowsOnlyInARace ==
    [][\A s \in Slaves :
          FixedRefused(s) /\ seq - pos[s] <= Rows - 2 =>
              seen[s] # CASE spc[s] = "range"     -> tail
                          [] spc[s] = "eqWriting" -> writed
                          [] spc[s] = "eqWrited"  -> writing]_vars

\* wait_slave stops the slaves once they "have all finished the data there
\* is" (comment of Disruptor::wait_slave): it never stops them while one has
\* records left to read.
StopsOnlyIdleSlaves ==
    [][PauseTurn => \A s \in Slaves : cursor[s] = seq]_vars

\* Shutdown: if the feed does not stall, the stream ends, and quit() brings
\* every slave, the wait_slave thread and the master itself to return.
EveryThreadReturns == WF_vars(Master) => <>Finished

\* No wake-up is lost: every record published is taken by every slave, even
\* when the master then waits for the feed for ever.
NothingStranded ==
    \A n \in 1 .. MaxRecords : \A s \in Slaves :
        (seq >= n) ~> (Len(got[s]) >= n)

-----------------------------------------------------------------------------
(* The inductive invariant behind NothingRefused and ImplementsMulticast:  *)
(* it says which record each index of the ring stands for at every step of *)
(* the master, and how far each slave is at every step of its loop.        *)

HasMoved  == mpc \in {"writed", "turn", "emit", "publish"}
HasClosed == mpc \in {"turn", "emit", "publish"}
HasRoom   == HasMoved \/ mpc \in {"lock", "write", "fill", "advance"}

\* Records written, also counted by _writedIndex, and the oldest one kept.
Written == IF HasMoved THEN seq + 1 ELSE seq
Closed  == IF HasClosed THEN seq + 1 ELSE seq
Oldest  == LET n == IF HasRoom THEN seq + 1 ELSE seq
           IN  IF n >= Rows THEN n - Rows + 1 ELSE 0

\* The three indices point where these counts say, and every record that is
\* not reclaimed is in its row.
RingInv ==
    /\ writing = Written % Rows
    /\ writed = IF Closed = 0 THEN 0 ELSE (Closed - 1) % Rows
    /\ tail = Oldest % Rows
    /\ \A k \in 0 .. seq - 1 : k >= Oldest => slots[k % Rows] = k
    /\ mpc = "advance" \/ HasMoved => slots[seq % Rows] = seq
    /\ \A i \in 0 .. Rows - 1 : slots[i] \in (0 .. seq) \cup {None}

InCallback == {"fixed", "range", "equal", "eqWriting", "eqWrited", "read",
               "last"}

\* A slave's Sequence lags what it has taken only inside the callback.
CursorInv ==
    \A s \in Slaves :
        /\ cursor[s] <= Len(got[s])
        /\ Len(got[s]) <= seq
        /\ follow[s] <= seq
        /\ spc[s] \in InCallback => pos[s] = Len(got[s]) /\ pos[s] < follow[s]
        /\ spc[s] = "store" => Len(got[s]) = follow[s]
        /\ spc[s] \notin InCallback \cup {"store"} => cursor[s] = Len(got[s])

\* The half of a kept record that a slave has copied is of this record.
CopyInv ==
    \A s \in Slaves :
        /\ spc[s] = "last" /\ pos[s] >= Oldest => seen[s] = pos[s]
        /\ spc[s] = "last" => seen[s] \in (0 .. seq) \cup {None}

\* The alert is raised last, and only when nobody is behind.
CloseInv ==
    /\ alert = E2Q_EXIST <=> mpc = "done"
    /\ mpc \in {"alert", "done"} => \A s \in Slaves : cursor[s] = seq

IInv == TypeOK /\ NothingRefused /\ RingInv /\ CursorInv /\ CopyInv
        /\ CloseInv
=============================================================================
