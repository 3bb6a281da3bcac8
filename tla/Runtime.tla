------------------------------ MODULE Runtime ------------------------------
(****************************************************************************)
(* From the bars to the script in a trader node: the bus slave OHLCBeam      *)
(* pushes ticks into the Container and counts them, the script thread        *)
(* (StrategyBase::runScript) follows the count and hands each one to every   *)
(* worker of the ThreadPool, and all of them end with the stream.            *)
(*                                                                          *)
(* The status word of the Container's Trigger is set by both of the first    *)
(* two threads; ThreadPool::emit() and exits() notify without the mutex.     *)
(****************************************************************************)
EXTENDS Integers, Sequences, FiniteSets

CONSTANTS Workers,     \* threads of the pool
          MaxTicks     \* bound: ticks of the stream that drive the script

ASSUME RuntimeAssumption ==
    IsFiniteSet(Workers) /\ MaxTicks \in Nat

VARIABLES
    sequence, listener, status,      \* of the Container and its Trigger
    opc,                             \* OHLCBeam: step
    spc, count, next, num,           \* runScript: step, locals
    active, wpc, jobs, known, last,  \* ThreadPool: workers
    lost                             \* history: notified before they slept

container == <<sequence, listener, status>>
script == <<spc, count, next, num>>
pool == <<active, wpc, jobs, known, last, lost>>
vars == <<container, opc, script, pool>>

Init ==
    /\ sequence = 0 /\ listener = 0 /\ status = "stop"
    /\ opc = "push"
    /\ spc = "aquire" /\ count = 0 /\ next = 0 /\ num = 0
    /\ active = TRUE /\ wpc = [w \in Workers |-> "new"]
    /\ jobs = [w \in Workers |-> << >>] /\ known = {}
    /\ last = [w \in Workers |-> -1] /\ lost = [w \in Workers |-> FALSE]

-----------------------------------------------------------------------------
(* OHLCBeam: a record of the bus is pushed into the cells of its code.       *)

\* Trigger::emit(): the script is woken and tests the status again.
WakeScript == spc' = IF spc = "asleep" THEN "wait" ELSE spc

\* A record has been pushed into its cells.  Ticks drive the script, or those
\* of the index do (_off); the others change nothing here, as those without
\* cells.
Push ==
    /\ opc = "push" /\ sequence < MaxTicks /\ opc' = "count"
    /\ UNCHANGED <<container, script, pool>>

Count ==
    /\ opc = "count" /\ opc' = "turn" /\ sequence' = sequence + 1
    /\ UNCHANGED <<listener, status, script, pool>>

Turn ==
    /\ opc = "turn" /\ opc' = "emit" /\ status' = "runing"
    /\ UNCHANGED <<sequence, listener, script, pool>>

Emit ==
    /\ opc = "emit" /\ opc' = "push" /\ WakeScript
    /\ UNCHANGED <<container, count, next, num, pool>>

\* The bus is closed.
StreamEnds ==
    /\ opc = "push" /\ opc' = "quit"
    /\ UNCHANGED <<container, script, pool>>

\* quit(): again and again while a listener is counted.
Quit ==
    /\ opc = "quit" /\ opc' = "tell" /\ status' = "exist"
    /\ UNCHANGED <<sequence, listener, script, pool>>

Tell ==
    /\ opc = "tell" /\ opc' = "listener" /\ WakeScript
    /\ UNCHANGED <<container, count, next, num, pool>>

\* A slip: the status is set once, before the loop.
TellsAgain ==
    /\ opc = "listener" /\ opc' = IF listener > 0 THEN "tell" ELSE "done"
    /\ UNCHANGED <<container, script, pool>>

Listeners ==
    /\ opc = "listener" /\ opc' = IF listener > 0 THEN "quit" ELSE "done"
    /\ UNCHANGED <<container, script, pool>>

Slave == Count \/ Turn \/ Emit \/ Quit \/ Tell \/ Listeners

-----------------------------------------------------------------------------
(* runScript(). *)

Script(from, to) ==
    /\ spc = from /\ spc' = to
    /\ UNCHANGED <<sequence, opc>>

Keep == UNCHANGED <<listener, status>>

Aquire ==
    /\ Script("aquire", "for") /\ next' = sequence
    /\ Keep /\ UNCHANGED <<count, num, pool>>

\* A slip: who sleeps gets no job.
QueueForAwake ==
    IF count = next THEN Script("for", "again") /\ UNCHANGED jobs
    ELSE /\ Script("for", "emit")
         /\ jobs' = [w \in Workers |-> IF w \in known /\ wpc[w] # "asleep"
                                      THEN Append(jobs[w], count) ELSE jobs[w]]

\* A slip: workers that have not started get jobs too.
QueueForAll ==
    IF count = next THEN Script("for", "again") /\ UNCHANGED jobs
    ELSE /\ Script("for", "emit")
         /\ jobs' = [w \in Workers |-> Append(jobs[w], count)]

\* for (; e2l_count < next_row; e2l_count++): ThreadPool::emit() goes through
\* _arg_jobs, which workers enter as they start.
Queue ==
    IF count = next THEN Script("for", "again") /\ UNCHANGED jobs
    ELSE /\ Script("for", "emit")
         /\ jobs' = [w \in Workers |-> IF w \in known THEN Append(jobs[w], count)
                                      ELSE jobs[w]]

For ==
    /\ Queue /\ Keep
    /\ UNCHANGED <<count, next, num, active, wpc, known, last, lost>>

\* A slip: notify_one().
WakesOne ==
    /\ \/ \E w \in Workers :
            wpc[w] = "asleep" /\ wpc' = [wpc EXCEPT ![w] = "lock"]
       \/ (\A w \in Workers : wpc[w] # "asleep") /\ UNCHANGED wpc
    /\ lost' = [w \in Workers |-> wpc[w] = "falling" \/
                                  (lost[w] /\ wpc[w] # "asleep")]

\* cv.notify_all(), without the mutex: who has tested the predicate and does not
\* sleep yet misses it.
NotifyAll ==
    /\ wpc' = [w \in Workers |-> IF wpc[w] = "asleep" THEN "lock" ELSE wpc[w]]
    /\ lost' = [w \in Workers |-> wpc[w] = "falling" \/
                                  (lost[w] /\ wpc[w] # "asleep")]

Emitted ==
    /\ Script("emit", "for")
    /\ count' = count + 1 /\ NotifyAll
    /\ Keep /\ UNCHANGED <<next, num, active, jobs, known, last>>

Again ==
    /\ Script("again", IF sequence = count THEN "enter" ELSE "runing")
    /\ next' = sequence
    /\ Keep /\ UNCHANGED <<count, num, pool>>

\* Container::wait_for(): listener is counted, the status tested and reset.
Enter ==
    /\ Script("enter", "test") /\ num' = listener /\ listener' = listener + 1
    /\ UNCHANGED <<status, count, next, pool>>

\* (here the listener stays counted)
Test ==
    /\ Script("test", IF status = "exist" THEN "runing" ELSE "start")
    /\ Keep /\ UNCHANGED <<count, next, num, pool>>

Start ==
    /\ Script("start", "sub") /\ status' = "stop"
    /\ UNCHANGED <<listener, count, next, num, pool>>

\* subscriber(): the first test is without the mutex.
Subscriber ==
    /\ Script("sub", IF status = "stop" THEN "wait" ELSE "leave")
    /\ Keep /\ UNCHANGED <<count, next, num, pool>>

\* A slip in the predicate: it waits for E2Q_RUNING only.
WaitRuning ==
    /\ Script("wait", IF status # "runing" THEN "asleep" ELSE "leave")
    /\ Keep /\ UNCHANGED <<count, next, num, pool>>

Wait ==
    /\ Script("wait", IF status = "stop" THEN "asleep" ELSE "leave")
    /\ Keep /\ UNCHANGED <<count, next, num, pool>>

\* num is the count before this wait: one too many is taken off.
Leave ==
    /\ Script("leave", "runing") /\ listener' = num - 1 /\ num' = num - 1
    /\ UNCHANGED <<status, count, next, pool>>

Runing ==
    /\ Script("runing", IF status = "exist" THEN "exits" ELSE "aquire")
    /\ Keep /\ UNCHANGED <<count, next, num, pool>>

Exits ==
    /\ Script("exits", "notify") /\ active' = FALSE
    /\ Keep /\ UNCHANGED <<count, next, num, wpc, jobs, known, last, lost>>

\* A slip: exits() notifies nobody.
JoinsAtOnce ==
    /\ Script("notify", "join")
    /\ Keep /\ UNCHANGED <<count, next, num, pool>>

Notify ==
    /\ Script("notify", "join") /\ NotifyAll
    /\ Keep /\ UNCHANGED <<count, next, num, active, jobs, known, last>>

Join ==
    /\ Script("join", "done") /\ \A w \in Workers : wpc[w] = "done"
    /\ Keep /\ UNCHANGED <<count, next, num, pool>>

ScriptStep ==
    \/ Aquire \/ For \/ Emitted \/ Again
    \/ Enter \/ Test \/ Start \/ Subscriber \/ Wait \/ Leave \/ Runing
    \/ Exits \/ Notify \/ Join

-----------------------------------------------------------------------------
(* ThreadPool::run(). *)

GuardIsFree == \A v \in Workers : wpc[v] # "falling"

Worker(w, from, to) ==
    /\ wpc[w] = from /\ wpc' = [wpc EXCEPT ![w] = to]
    /\ UNCHANGED <<container, opc, script, active, lost>>

\* while (_active)
WhileActive == IF active THEN "lock" ELSE "done"

Register(w) ==
    /\ Worker(w, "new", WhileActive) /\ GuardIsFree /\ known' = known \cup {w}
    /\ UNCHANGED <<jobs, last>>

\* The predicate holds: the worker ends if the pool does, whatever is queued.
Take(w) ==
    /\ jobs[w] # << >> \/ ~active
    /\ GuardIsFree
    /\ IF active
       THEN /\ Worker(w, "lock", "job")
            /\ jobs' = [jobs EXCEPT ![w] = Tail(@)]
            /\ last' = [last EXCEPT ![w] = Head(jobs[w])]
       ELSE Worker(w, "lock", "done") /\ UNCHANGED <<jobs, last>>
    /\ UNCHANGED known

\* It does not; the mutex is kept until the worker sleeps.
Fall(w) ==
    /\ jobs[w] = << >> /\ active /\ GuardIsFree
    /\ Worker(w, "lock", "falling") /\ UNCHANGED <<jobs, known, last>>

Sleep(w) == Worker(w, "falling", "asleep") /\ UNCHANGED <<jobs, known, last>>

\* The script runs once for the tick.
Job(w) == Worker(w, "job", WhileActive) /\ UNCHANGED <<jobs, known, last>>

WorkerStep(w) ==
    Register(w) \/ Take(w) \/ Fall(w) \/ Sleep(w) \/ Job(w)

Next ==
    \/ Push \/ StreamEnds \/ Slave \/ ScriptStep
    \/ \E w \in Workers : WorkerStep(w)

Spec == Init /\ [][Next]_vars

\* Each thread goes on; ticks and the end of the stream are not owed.
FairSpec ==
    /\ Spec /\ WF_vars(Slave) /\ WF_vars(ScriptStep)
    /\ \A w \in Workers : WF_vars(WorkerStep(w))

-----------------------------------------------------------------------------
(* Properties. *)

\* Types; a worker that has a job is in the table.
TypeOK ==
    /\ sequence \in 0..MaxTicks
    /\ listener \in Int /\ num \in Int
    /\ status \in {"stop", "runing", "exist"}
    /\ count \in 0..sequence /\ next \in 0..sequence
    /\ active \in BOOLEAN /\ known \subseteq Workers
    /\ \A w \in Workers : w \notin known => jobs[w] = << >> /\ last[w] = -1

Ended == spc \in {"exits", "notify", "join", "done"}

\* A worker gets every tick from the first one after it has registered on, once
\* and in order, whoever sleeps or wakes in between.
JobsInOrder ==
    \A w \in Workers :
        LET all == IF last[w] >= 0 THEN <<last[w]>> \o jobs[w] ELSE jobs[w]
        IN  /\ \A i \in 1..Len(all) - 1 : all[i + 1] = all[i] + 1
            /\ all # << >> =>
                  all[Len(all)] = IF spc = "emit"
                                  THEN count ELSE count - 1

\* The script thread ends with the stream, unless it has reset the status after
\* the last EXIST: then nobody wakes it.
LoopEnds ==
    opc = "done" ~> Ended \/ (spc = "asleep" /\ status = "stop")

\* quit() comes back, unless a wait that was given up is counted for ever.
QuitReturns ==
    opc = "quit" ~> opc = "done" \/ (Ended /\ listener > 0)

\* A queued job is run, unless the pool ends or its worker missed the call.
JobsAreRun ==
    \A w \in Workers :
        jobs[w] # << >> ~> jobs[w] = << >> \/ ~active \/ lost[w]

\* The pool is joined, unless a worker missed the call.
PoolEnds ==
    spc = "join" ~> spc = "done" \/ \E w \in Workers : lost[w]

\* Everybody leaves: the script thread with the stream, quit() with its last
\* listener, the pool with its workers.
ThreadsEnd == LoopEnds /\ QuitReturns /\ PoolEnds
=============================================================================
