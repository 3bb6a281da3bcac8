---------------------------- MODULE RuntimeProofs ----------------------------
(****************************************************************************)
(* A worker of the ThreadPool gets every tick from the first one after it    *)
(* has registered on, once and in order: for any number of workers and any   *)
(* stream, whoever sleeps, wakes or misses a call.                           *)
(*                                                                          *)
(* And what its scripts keep: for any number of threads, whatever they do at  *)
(* the same time and however a run ends, each place of a script finds what it  *)
(* has stored, an indicator its arguments in order, the positions no more than *)
(* all of the cash, and the orders of a row no time before its predecessor's.  *)
(*                                                                          *)
(* And what they read: the bar they have asked for or a newer one, and a       *)
(* closed bar whole, while the slave goes on writing bars to the same rings;   *)
(* and the bars it writes, one after the other and the sum of their ticks.     *)
(****************************************************************************)
EXTENDS Runtime, Script, Bars, SequenceTheorems, Arithmetic, TLAPS

Statuses == {"stop", "runing", "exist"}
Calls == {"aquire", "for", "emit", "again", "enter", "test", "start", "sub", "wait",
          "asleep", "leave", "runing", "exits", "notify", "join", "done"}

\* e2l_count follows the rows it has asked for, and they the ticks.
Typed ==
    /\ MaxTicks \in Nat /\ sequence \in 0..MaxTicks
    /\ opc = "count" => sequence < MaxTicks
    /\ listener \in Int /\ num \in Int /\ status \in Statuses
    /\ spc \in Calls
    /\ next \in 0..sequence /\ count \in 0..next
    /\ spc = "emit" => count < next
    /\ active \in BOOLEAN /\ known \subseteq Workers

Queued ==
    /\ jobs \in [Workers -> Seq(Nat)]
    /\ last \in [Workers -> Nat \cup {-1}]
    /\ DOMAIN wpc = Workers
    /\ \A w \in Workers : w \notin known =>
          wpc[w] = "new" /\ jobs[w] = << >> /\ last[w] = -1

\* The tick that was queued last.
Newest == IF spc = "emit" THEN count ELSE count - 1

\* The queue of a worker counts up to that tick, from the one after its last.
Counts(s, l, n) ==
    /\ \A i \in 1..Len(s) : s[i] = n - Len(s) + i
    /\ l >= 0 => l = n - Len(s)

\* Ticks one after the other, up to n.
InOrder(all, n) ==
    /\ \A i \in 1..Len(all) - 1 : all[i + 1] = all[i] + 1
    /\ all # << >> => all[Len(all)] = n

Follows == \A w \in Workers : Counts(jobs[w], last[w], Newest)

IInv == Typed /\ Queued /\ Follows

-----------------------------------------------------------------------------
(* Queues. *)

LEMMA CountsAppend ==
    ASSUME NEW s \in Seq(Nat), NEW l \in Int, NEW n \in Nat, Counts(s, l, n - 1)
    PROVE  Append(s, n) \in Seq(Nat) /\ Counts(Append(s, n), l, n)
<1>1. /\ Append(s, n) \in Seq(Nat) /\ Len(Append(s, n)) = Len(s) + 1
      /\ \A i \in 1..Len(s) : Append(s, n)[i] = s[i]
      /\ Append(s, n)[Len(s) + 1] = n
  BY AppendProperties
<1>2. Len(s) \in Nat
  OBVIOUS
<1>3. ASSUME NEW i \in 1..Len(s) + 1 PROVE Append(s, n)[i] = n - (Len(s) + 1) + i
  <2>1. CASE i \in 1..Len(s)
    BY <1>1, <1>2, <2>1 DEF Counts
  <2>2. CASE i = Len(s) + 1
    BY <1>1, <1>2, <2>2
  <2> QED
    BY <1>2, <2>1, <2>2
<1>4. l >= 0 => l = n - (Len(s) + 1)
  BY <1>2 DEF Counts
<1> QED
  BY <1>1, <1>3, <1>4 DEF Counts

LEMMA CountsTail ==
    ASSUME NEW s \in Seq(Nat), NEW l, NEW n \in Int, s # << >>, Counts(s, l, n)
    PROVE  /\ Tail(s) \in Seq(Nat) /\ Head(s) \in Nat
           /\ Counts(Tail(s), Head(s), n)
<1>1. /\ Tail(s) \in Seq(Nat) /\ Head(s) \in Nat /\ Head(s) = s[1]
      /\ Len(Tail(s)) = Len(s) - 1 /\ Len(s) \in Nat /\ Len(s) >= 1
  BY HeadTailProperties, EmptySeq
<1>2. \A i \in 1..Len(s) - 1 : Tail(s)[i] = s[i + 1]
  BY <1>1
<1>3. ASSUME NEW i \in 1..Len(s) - 1 PROVE Tail(s)[i] = n - (Len(s) - 1) + i
  <2>1. i + 1 \in 1..Len(s)
    BY <1>1
  <2> QED
    BY <1>1, <1>2, <2>1 DEF Counts
<1>4. Head(s) = n - (Len(s) - 1)
  <2>1. 1 \in 1..Len(s)
    BY <1>1
  <2>2. s[1] = n - Len(s) + 1
    BY <2>1 DEF Counts
  <2> QED
    BY <1>1, <2>2
<1> QED
  BY <1>1, <1>3, <1>4 DEF Counts

-----------------------------------------------------------------------------
(* The invariant. *)

LEMMA InitIInv == Init => IInv
<1> SUFFICES ASSUME Init PROVE IInv
  OBVIOUS
<1>1. Typed
  BY RuntimeAssumption DEF Init, Typed, Statuses, Calls
<1>2. Queued
  BY DEF Init, Queued
<1>3. Follows
  BY DEF Init, Follows, Newest, Counts
<1> QED
  BY <1>1, <1>2, <1>3 DEF IInv

\* A step that leaves the queues alone, and the tick that is being handed out.
Quiet ==
    /\ jobs' = jobs /\ last' = last /\ known' = known
    /\ wpc' = wpc
    /\ Newest' = Newest

LEMMA QuietQueues == Queued /\ Follows /\ Quiet => Queued' /\ Follows'
  BY DEF Queued, Follows, Quiet, Counts

LEMMA SlavesIInv ==
    ASSUME IInv, Push \/ StreamEnds \/ Slave
    PROVE  IInv'
<1>1. Typed'
  <2>1. CASE Push
    BY <2>1 DEF IInv, Typed, Push, container, script, pool
  <2>2. CASE StreamEnds
    BY <2>2 DEF IInv, Typed, StreamEnds, container, script, pool
  <2>3. CASE Count
    BY <2>3 DEF IInv, Typed, Count, script, pool
  <2>4. CASE Turn \/ Emit \/ Quit \/ Tell \/ Listeners
    BY <2>4 DEF IInv, Typed, Turn, Emit, Quit, Tell, Listeners, WakeScript, Statuses, Calls,
                container, script, pool
  <2> QED
    BY <2>1, <2>2, <2>3, <2>4 DEF Slave
<1>2. Quiet
  BY DEF Push, StreamEnds, Slave, Count, Turn, Emit, Quit, Tell, Listeners, WakeScript,
         container, script, pool, Quiet, Newest
<1> QED
  BY <1>1, <1>2, QuietQueues DEF IInv

LEMMA ForIInv == ASSUME IInv, For PROVE IInv'
<1>1. CASE count = next
  <2>1. Typed'
    BY <1>1 DEF IInv, Typed, For, Queue, Script, Keep, Calls
  <2>2. Quiet
    BY <1>1 DEF For, Queue, Script, Keep, Quiet, Newest
  <2> QED
    BY <2>1, <2>2, QuietQueues DEF IInv
<1>2. CASE count # next
  <2>1. /\ spc = "for" /\ spc' = "emit" /\ count' = count /\ known' = known
        /\ wpc' = wpc /\ last' = last
        /\ jobs' = [w \in Workers |-> IF w \in known THEN Append(jobs[w], count)
                                      ELSE jobs[w]]
    BY <1>2 DEF For, Queue, Script
  <2>2. Typed'
    BY <1>2 DEF IInv, Typed, For, Queue, Script, Keep, Calls
  <2>3. count \in Nat /\ Newest = count - 1 /\ Newest' = count
    BY <2>1 DEF IInv, Typed, Newest
  <2>4. ASSUME NEW w \in Workers
        PROVE  jobs'[w] \in Seq(Nat) /\ Counts(jobs'[w], last[w], count)
    <3>1. jobs[w] \in Seq(Nat) /\ last[w] \in Int
      BY DEF IInv, Queued
    <3>2. CASE w \in known
      <4>1. Counts(jobs[w], last[w], count - 1)
        BY <2>3 DEF IInv, Follows
      <4>2. Append(jobs[w], count) \in Seq(Nat) /\ Counts(Append(jobs[w], count), last[w], count)
        BY <2>3, <3>1, <4>1, CountsAppend
      <4> QED
        BY <2>1, <3>2, <4>2
    <3>3. CASE w \notin known
      <4>1. jobs'[w] = << >> /\ last[w] = -1
        BY <2>1, <3>3 DEF IInv, Queued
      <4> QED
        BY <4>1 DEF Counts
    <3> QED
      BY <3>2, <3>3
  <2>5. jobs' \in [Workers -> Seq(Nat)]
    BY <2>1, <2>4
  <2>6. Queued'
    BY <2>1, <2>5 DEF IInv, Queued
  <2>7. Follows'
    BY <2>1, <2>3, <2>4 DEF Follows
  <2> QED
    BY <2>2, <2>6, <2>7 DEF IInv
<1> QED
  BY <1>1, <1>2

LEMMA NotifiedQueues ==
    ASSUME IInv, NotifyAll, jobs' = jobs, last' = last, known' = known, Newest' = Newest
    PROVE  Queued' /\ Follows'
<1>1. /\ DOMAIN wpc' = Workers
      /\ \A w \in Workers : wpc[w] = "new" => wpc'[w] = "new"
  BY DEF NotifyAll
<1> QED
  BY <1>1 DEF IInv, Queued, Follows

LEMMA ScriptIInv == ASSUME IInv, ScriptStep PROVE IInv'
<1>1. CASE For
  BY <1>1, ForIInv
<1>2. CASE Emitted
  <2>1. Typed'
    BY <1>2 DEF IInv, Typed, Emitted, Script, Keep, Calls
  <2>2. Newest' = Newest
    BY <1>2 DEF IInv, Typed, Emitted, Script, Newest
  <2>3. NotifyAll /\ jobs' = jobs /\ last' = last /\ known' = known
    BY <1>2 DEF Emitted
  <2> QED
    BY <2>1, <2>2, <2>3, NotifiedQueues DEF IInv
<1>3. CASE Notify
  <2>1. Typed'
    BY <1>3 DEF IInv, Typed, Notify, Script, Keep, Calls
  <2>2. Newest' = Newest
    BY <1>3 DEF Notify, Script, Newest
  <2>3. NotifyAll /\ jobs' = jobs /\ last' = last /\ known' = known
    BY <1>3 DEF Notify
  <2> QED
    BY <2>1, <2>2, <2>3, NotifiedQueues DEF IInv
<1>4. CASE Aquire \/ Again
  <2>1. Typed'
    BY <1>4 DEF IInv, Typed, Aquire, Again, Script, Keep, Calls, pool
  <2>2. Quiet
    BY <1>4 DEF Aquire, Again, Script, Quiet, Newest, pool
  <2> QED
    BY <2>1, <2>2, QuietQueues DEF IInv
<1>5. CASE Enter \/ Test \/ Start \/ Subscriber \/ Wait \/ Leave \/ Runing \/ Exits \/ Join
  <2>1. Typed'
    <3>1. CASE Enter \/ Leave
      BY <3>1 DEF IInv, Typed, Enter, Leave, Script, Keep, Calls, pool
    <3>2. CASE Start \/ Exits \/ Join
      BY <3>2 DEF IInv, Typed, Start, Exits, Join, Script, Keep, Calls, Statuses, pool
    <3>3. CASE Test \/ Subscriber \/ Wait \/ Runing
      BY <3>3 DEF IInv, Typed, Test, Subscriber, Wait, Runing, Script, Keep, Calls, pool
    <3> QED
      BY <1>5, <3>1, <3>2, <3>3
  <2>2. Quiet
    BY <1>5 DEF Enter, Test, Start, Subscriber, Wait, Leave, Runing, Exits, Join,
                Script, Quiet, Newest, pool
  <2> QED
    BY <2>1, <2>2, QuietQueues DEF IInv
<1> QED
  BY <1>1, <1>2, <1>3, <1>4, <1>5 DEF ScriptStep

LEMMA WorkerIInv == ASSUME IInv, NEW w \in Workers, WorkerStep(w) PROVE IInv'
<1>1. /\ UNCHANGED <<sequence, listener, status, opc, spc, count, next, num, active>>
      /\ \E from \in {"new", "lock", "falling", "job"} : wpc[w] = from
      /\ \E to : wpc' = [wpc EXCEPT ![w] = to]
  BY DEF WorkerStep, Register, Take, Fall, Sleep, Job, Worker, container, script
<1>2. Newest' = Newest
  BY <1>1 DEF Newest
<1>3. known \subseteq known' /\ known' \subseteq Workers
  BY DEF WorkerStep, Register, Take, Fall, Sleep, Job, IInv, Typed
<1>4. Typed'
  BY <1>1, <1>3 DEF IInv, Typed
<1>5. w \in known'
  <2>1. CASE Register(w)
    BY <2>1 DEF Register
  <2>2. CASE ~Register(w)
    <3>1. wpc[w] # "new"
      BY <2>2 DEF WorkerStep, Take, Fall, Sleep, Job, Worker
    <3> QED
      BY <1>3, <3>1 DEF IInv, Queued
  <2> QED
    BY <2>1, <2>2
<1>6. /\ DOMAIN wpc' = Workers
      /\ \A v \in Workers : v # w => wpc'[v] = wpc[v]
  BY <1>1 DEF IInv, Queued
<1>7. CASE jobs' = jobs /\ last' = last
  <2>1. Queued'
    BY <1>3, <1>5, <1>6, <1>7 DEF IInv, Queued
  <2>2. Follows'
    BY <1>2, <1>7 DEF IInv, Follows
  <2> QED
    BY <1>4, <2>1, <2>2 DEF IInv
<1>8. CASE /\ jobs[w] # << >>
           /\ jobs' = [jobs EXCEPT ![w] = Tail(@)]
           /\ last' = [last EXCEPT ![w] = Head(jobs[w])]
  <2>1. jobs \in [Workers -> Seq(Nat)] /\ last \in [Workers -> Nat \cup {-1}]
    BY DEF IInv, Queued
  <2>2. Counts(jobs[w], last[w], Newest) /\ Newest \in Int
    BY DEF IInv, Follows, Newest, Typed
  <2>3. /\ Tail(jobs[w]) \in Seq(Nat) /\ Head(jobs[w]) \in Nat
        /\ Counts(Tail(jobs[w]), Head(jobs[w]), Newest)
    BY <1>8, <2>1, <2>2, CountsTail
  <2>4. /\ jobs' \in [Workers -> Seq(Nat)] /\ last' \in [Workers -> Nat \cup {-1}]
        /\ jobs'[w] = Tail(jobs[w]) /\ last'[w] = Head(jobs[w])
        /\ \A v \in Workers : v # w => jobs'[v] = jobs[v] /\ last'[v] = last[v]
    BY <1>8, <2>1, <2>3
  <2>5. Queued'
    BY <1>3, <1>5, <1>6, <2>4 DEF IInv, Queued
  <2>6. Follows'
    BY <1>2, <2>3, <2>4 DEF IInv, Follows
  <2> QED
    BY <1>4, <2>5, <2>6 DEF IInv
<1>9. (jobs' = jobs /\ last' = last)
      \/ (/\ jobs[w] # << >>
          /\ jobs' = [jobs EXCEPT ![w] = Tail(@)]
          /\ last' = [last EXCEPT ![w] = Head(jobs[w])])
  BY DEF WorkerStep, Register, Take, Fall, Sleep, Job
<1> QED
  BY <1>7, <1>8, <1>9

LEMMA NextIInv == IInv /\ [Next]_vars => IInv'
<1> SUFFICES ASSUME IInv, [Next]_vars PROVE IInv'
  OBVIOUS
<1>1. CASE UNCHANGED vars
  BY <1>1 DEF vars, container, script, pool, IInv, Typed, Queued, Follows, Newest
<1>2. CASE Next
  BY <1>2, SlavesIInv, ScriptIInv, WorkerIInv DEF Next
<1> QED
  BY <1>1, <1>2

-----------------------------------------------------------------------------

\* The ticks, the counts of the script and the status keep their ranges, and who
\* has no entry in _arg_jobs has no job.
THEOREM TypeCorrect == Spec => []TypeOK
<1>1. IInv => TypeOK
  BY DEF IInv, Typed, Queued, TypeOK, Statuses
<1> QED
  BY InitIInv, NextIInv, <1>1, PTL DEF Spec

\* ThreadPool::emit() gives every worker each tick once and in order, from its
\* entry in _arg_jobs on, for any workers and streams.
THEOREM WorkersGetEveryTick == Spec => []JobsInOrder
<1>1. IInv => JobsInOrder
  <2> SUFFICES ASSUME IInv, NEW w \in Workers
               PROVE  \A all : all = (IF last[w] >= 0 THEN <<last[w]>> \o jobs[w]
                                     ELSE jobs[w]) => InOrder(all, Newest)
    BY DEF JobsInOrder, Newest, InOrder
  <2>1. PICK s \in Seq(Nat) : s = jobs[w]
    BY DEF IInv, Queued
  <2>2. PICK l \in Nat \cup {-1} : l = last[w]
    BY DEF IInv, Queued
  <2>3. PICK n \in Int : n = Newest
    BY DEF IInv, Typed, Newest
  <2>4. Counts(s, l, n)
    BY <2>1, <2>2, <2>3 DEF IInv, Follows
  <2>5. Len(s) \in Nat
    OBVIOUS
  <2>6. CASE l < 0
    <3>1. \A i \in 1..Len(s) - 1 : s[i + 1] = s[i] + 1
      <4> SUFFICES ASSUME NEW i \in 1..Len(s) - 1 PROVE s[i + 1] = s[i] + 1
        OBVIOUS
      <4>1. i \in 1..Len(s) /\ i + 1 \in 1..Len(s)
        BY <2>5
      <4>2. s[i] = n - Len(s) + i /\ s[i + 1] = n - Len(s) + (i + 1)
        BY <2>4, <4>1 DEF Counts
      <4> QED
        BY <2>5, <4>2
    <3>2. s # << >> => s[Len(s)] = n
      <4> SUFFICES ASSUME s # << >> PROVE s[Len(s)] = n
        OBVIOUS
      <4>1. Len(s) \in 1..Len(s)
        BY <2>5, EmptySeq
      <4> QED
        BY <2>4, <2>5, <4>1 DEF Counts
    <3> QED
      <4>1. InOrder(s, n)
        BY <3>1, <3>2 DEF InOrder
      <4>2. ~(last[w] >= 0)
        BY <2>2, <2>6
      <4> QED
        BY <2>1, <2>3, <4>1, <4>2
  <2>7. CASE l >= 0
    <3>1. PICK a \in Seq(Nat) : a = <<l>> \o s
      <4>1. <<l>> \in Seq(Nat)
        BY <2>7
      <4> QED
        BY <4>1, ConcatProperties
    <3>2. /\ Len(a) = Len(s) + 1 /\ a[1] = l
          /\ \A i \in 2..Len(s) + 1 : a[i] = s[i - 1]
      <4>1. <<l>> \in Seq(Nat) /\ Len(<<l>>) = 1 /\ <<l>>[1] = l
        BY <2>7
      <4> QED
        BY <2>5, <3>1, <4>1, ConcatProperties
    <3>3. ASSUME NEW i \in 1..Len(a) PROVE a[i] = n - Len(s) + i - 1
      <4>1. CASE i = 1
        BY <2>4, <2>5, <2>7, <3>2, <4>1 DEF Counts
      <4>2. CASE i \in 2..Len(s) + 1
        <5>1. i - 1 \in 1..Len(s)
          BY <2>5, <4>2
        <5>2. s[i - 1] = n - Len(s) + (i - 1)
          BY <2>4, <5>1 DEF Counts
        <5> QED
          BY <2>5, <3>2, <4>2, <5>2
      <4> QED
        BY <2>5, <3>2, <4>1, <4>2
    <3>4. ASSUME NEW i \in 1..Len(a) - 1 PROVE a[i + 1] = a[i] + 1
      <4>1. i \in 1..Len(a) /\ i + 1 \in 1..Len(a)
        BY <2>5, <3>2
      <4>2. a[i] = n - Len(s) + i - 1 /\ a[i + 1] = n - Len(s) + (i + 1) - 1
        BY <3>3, <4>1
      <4> QED
        BY <2>5, <4>2
    <3>5. a[Len(a)] = n
      <4>1. Len(a) \in 1..Len(a)
        BY <2>5, <3>2
      <4> QED
        BY <2>5, <3>2, <3>3, <4>1
    <3> QED
      <4>1. InOrder(a, n)
        BY <3>4, <3>5 DEF InOrder
      <4>2. last[w] >= 0
        BY <2>2, <2>7
      <4> QED
        BY <2>1, <2>2, <2>3, <3>1, <4>1, <4>2
  <2>8. l < 0 \/ l >= 0
    OBVIOUS
  <2> QED
    BY <2>6, <2>7, <2>8
<1> QED
  BY InitIInv, NextIInv, <1>1, PTL DEF Spec

-----------------------------------------------------------------------------
(* The inductive invariant of the scripts. *)

Rounds == {"none", "idle", "isInit", "init ok", "clamp", "insert", "store"}

\* Before anything is stored in a row.
Early(at) == at \in {"isInit", "init ok", "clamp", "insert"}

Settings(c) == c = [ok |-> c.ok, symbols |-> c.symbols, tf |-> c.tf, left |-> c.left,
                    entries |-> c.entries, tsize |-> c.tsize]

Purse(m) == m = [total |-> m.total, own |-> m.own, granted |-> m.granted,
                 thrown |-> m.thrown, again |-> m.again]

Fields == {"at", "num", "queue", "row", "step", "post", "read", "last", "configured",
           "runs", "cut"}

Slot(t) == t = [f \in Fields |-> t[f]]

Memory(k) == /\ k = [id |-> k.id, silk |-> k.silk, analse |-> k.analse]
             /\ k.analse = [init |-> k.analse.init, argv |-> k.analse.argv]

\* The row that was given to the threads last.
Given(c) == IF c.at = "emitted" THEN c.count + 1 ELSE c.count

\* The clock: ticket_now follows the rows that are done, and they what has come.
ClockInv(c) ==
    /\ c \in [rows : Nat, now : Nat, count : Nat, at : {"look", "emitted"},
              ticket_now : Nat]
    /\ c.rows <= c.now /\ c.ticket_now <= c.now
    /\ c.count <= c.ticket_now /\ Given(c) <= c.rows

\* Positions c of which at most 100 are given away.
Shared(c) ==
    /\ Settings(c)
    /\ c.symbols \in BOOLEAN /\ c.tf \in {<< >>, <<5>>}
    /\ c.left \in Int /\ c.tsize \in Nat
    /\ IsFiniteSet(DOMAIN c.entries)
    /\ c.entries = [n \in DOMAIN c.entries |-> c.entries[n]]
    /\ \A n \in DOMAIN c.entries : c.entries[n] \in Nat
    /\ SumFunctionOnSet(c.entries, DOMAIN c.entries) <= 100

\* While main configures, what is left is what is not given away.
Whole(c) == /\ Shared(c) /\ c.left \in Nat
            /\ c.left + SumFunctionOnSet(c.entries, DOMAIN c.entries) <= 100

\* The settings: all numbers of the plan have an entry once main has configured.
ConfigInv(c, calls) ==
    /\ Shared(c) /\ c.ok \in {"none", "proc", "ok"}
    /\ c.ok = "none" => Whole(c) /\ ~c.symbols
    /\ c.ok # "none" => \A i \in DOMAIN calls : calls[i].num \in DOMAIN c.entries

MoneyInv(m, symbols) ==
    /\ Purse(m) /\ m.again \in BOOLEAN
    /\ m.granted = -1 => ~m.again
    /\ m.granted # -1 =>
          /\ symbols
          /\ m.total = IF m.again THEN Asked
                       ELSE m.granted - SumFunctionOnSet(m.own, DOMAIN m.own)

\* How many arguments the thread has given in its run.
Args(t) == IF t.at = "store" /\ t.step > Sites THEN t.step - Sites - 1 ELSE 0

\* What was read is what the place stored last.
Fetched(t) == t.read = t.last

\* No thread has a row that was not given.
RowsInv(t, given) ==
    /\ t.queue \in Seq(Nat) /\ \A i \in DOMAIN t.queue : t.queue[i] <= given
    /\ t.row \in Nat /\ t.row <= given

\* Where it is in the plan and in the script.
StepInv(t, calls) ==
    /\ t.at \in Rounds /\ t.step \in Nat /\ t.post \in Int
    /\ t.at \in {"clamp", "insert"} => t.step \in 1..Len(calls) + 1
    /\ t.at = "insert" => t.step <= Len(calls)
    /\ t.at \notin {"clamp", "insert"} => t.step <= Sites + Argvs + 1
    /\ t.at = "store" => t.step >= 1

\* It configures once, and then nobody does any more.
OnceInv(t, ok) ==
    /\ t.at # "none" => ok # "none"
    /\ t.configured \in 0..1 /\ (t.configured = 1 => ok = "ok")
    /\ t.at = "init ok" => t.configured = 0

\* A thread at its place; ...
PlaceInv(t, calls, ok, given) ==
    Slot(t) /\ RowsInv(t, given) /\ StepInv(t, calls) /\ OnceInv(t, ok) /\ Fetched(t)

\* ... what it keeps is what its places have stored, the counter is at the next one; ...
SilkInv(t, k, o) ==
    /\ k.id \in 0..Sites
    /\ Early(t.at) => k.id = 0
    /\ t.at = "store" => k.id = IF t.step <= Sites THEN t.step - 1 ELSE Sites
    /\ DOMAIN k.silk \subseteq 1..Sites
    /\ o = [s \in 1..Sites |-> o[s]]
    /\ \A s \in 1..Sites : o[s] = IF s \in DOMAIN k.silk THEN k.silk[s] ELSE Absent

\* ... and its indicator has the arguments of so many runs and of a part of one.
ArgvInv(t, k, now) ==
    /\ t.cut \in BOOLEAN
    /\ k.analse.init \in Int /\ k.analse.init <= now
    /\ k.analse.argv \in Seq(Nat)
    /\ ~t.cut =>
          /\ \A i \in DOMAIN k.analse.argv : k.analse.argv[i] = ((i - 1) % Argvs) + 1
          /\ k.analse.init = now =>
                \E q \in 0..Len(k.analse.argv) : Len(k.analse.argv) = (Argvs * q) + Args(t)

KeptIInv ==
    /\ plan \in Plans
    /\ ConfigInv(cfg, plan) /\ MoneyInv(money, cfg.symbols) /\ ClockInv(clock)
    /\ thread = [w \in Pool |-> thread[w]]
    /\ kept = [w \in Pool |-> kept[w]] /\ wrote = [w \in Pool |-> wrote[w]]
    /\ \A w \in Pool :
          /\ PlaceInv(thread[w], plan, cfg.ok, Given(clock)) /\ Memory(kept[w])
          /\ SilkInv(thread[w], kept[w], wrote[w])
          /\ ArgvInv(thread[w], kept[w], clock.ticket_now)

-----------------------------------------------------------------------------
(* The configuration: calls of ThreadPosition(). *)

LEMMA FrameOnce ==
    ASSUME NEW c, Shared(c)
    PROVE  /\ Shared(Tframe(c, 5)) /\ Tframe(c, 5).ok = c.ok
           /\ Tframe(c, 5).symbols = c.symbols /\ Tframe(c, 5).left = c.left
           /\ Tframe(c, 5).entries = c.entries
  <1>1. CASE \E i \in DOMAIN c.tf : c.tf[i] = 5
    BY <1>1 DEF Tframe
  <1>2. CASE ~ \E i \in DOMAIN c.tf : c.tf[i] = 5
    <2>1. PICK k, s, f, l, e, z : c = [ok |-> k, symbols |-> s, tf |-> f, left |-> l,
                                       entries |-> e, tsize |-> z]
      BY DEF Shared, Settings
    <2>2. f = << >>
      <3>1. f \in {<< >>, <<5>>}
        BY <2>1 DEF Shared
      <3>2. f # <<5>>
        BY <1>2, <2>1
      <3>3. QED
        BY <3>1, <3>2
    <2>3. Tframe(c, 5) = [ok |-> k, symbols |-> s, tf |-> <<5>>, left |-> l,
                          entries |-> e, tsize |-> z]
      BY <1>2, <2>1, <2>2 DEF Tframe
    <2>4. QED
      BY <2>1, <2>3 DEF Shared, Settings
  <1>3. QED
    BY <1>1, <1>2

\* Nothing but the state of the settings changes.
LEMMA StateSet ==
    ASSUME NEW c, Shared(c), NEW ok
    PROVE  /\ Shared([c EXCEPT !.ok = ok]) /\ [c EXCEPT !.ok = ok].ok = ok
           /\ [c EXCEPT !.ok = ok].symbols = c.symbols
           /\ [c EXCEPT !.ok = ok].entries = c.entries
  <1>1. PICK k, s, f, l, e, z : c = [ok |-> k, symbols |-> s, tf |-> f, left |-> l,
                                     entries |-> e, tsize |-> z]
    BY DEF Shared, Settings
  <1>2. [c EXCEPT !.ok = ok] = [ok |-> ok, symbols |-> s, tf |-> f, left |-> l,
                                entries |-> e, tsize |-> z]
    BY ONLY <1>1
  <1>3. QED
    BY <1>1, <1>2 DEF Shared, Settings

\* An entry that is there stays, whatever another thread takes.
LEMMA PositionKept ==
    ASSUME NEW c, Shared(c), NEW n \in DOMAIN c.entries, NEW p \in Int
    PROVE  /\ Shared(Positioned(c, n, p)) /\ Positioned(c, n, p).ok = c.ok
           /\ Positioned(c, n, p).symbols = c.symbols
           /\ Positioned(c, n, p).entries = c.entries
  <1>1. PICK k, s, f, l, e, z : c = [ok |-> k, symbols |-> s, tf |-> f, left |-> l,
                                     entries |-> e, tsize |-> z]
    BY DEF Shared, Settings
  <1>2. [x \in DOMAIN c.entries \cup {n} |-> IF x \in DOMAIN c.entries
                                            THEN c.entries[x] ELSE p] = e
    <2>1. e = [x \in DOMAIN e |-> e[x]] /\ DOMAIN e \cup {n} = DOMAIN e
      BY <1>1 DEF Shared
    <2>2. QED
      BY <1>1, <2>1
  <1>3. Positioned(c, n, p) = [[[c EXCEPT !.left = l - p] EXCEPT !.tsize = z + 1]
                                  EXCEPT !.entries = e]
    <2>1. PICK d : d = [x \in DOMAIN c.entries \cup {n} |-> IF x \in DOMAIN c.entries
                                                          THEN c.entries[x] ELSE p]
      OBVIOUS
    <2>2. d = e
      BY <1>2, <2>1
    <2>3. Positioned(c, n, p) = [[[c EXCEPT !.left = l - p] EXCEPT !.tsize = z + 1]
                                    EXCEPT !.entries = d]
      BY ONLY <1>1, <2>1 DEF Positioned
    <2>4. QED
      BY <2>2, <2>3
  <1>4. Positioned(c, n, p) = [ok |-> k, symbols |-> s, tf |-> f, left |-> l - p,
                               entries |-> e, tsize |-> z + 1]
    BY ONLY <1>1, <1>3
  <1>5. l - p \in Int /\ z + 1 \in Nat
    BY <1>1 DEF Shared
  <1>6. QED
    BY <1>1, <1>4, <1>5 DEF Shared, Settings

\* A position is taken from what is left.
LEMMA PositionTaken ==
    ASSUME NEW c, Whole(c), NEW call \in [num : Nat, pct : Nat]
    PROVE  /\ Whole(Called(c, call)) /\ Called(c, call).ok = c.ok
           /\ Called(c, call).symbols = c.symbols
           /\ DOMAIN Called(c, call).entries = DOMAIN c.entries \cup {call.num}
  <1>1. PICK k, s, f, l, e, z : c = [ok |-> k, symbols |-> s, tf |-> f, left |-> l,
                                     entries |-> e, tsize |-> z]
    BY DEF Whole, Shared, Settings
  <1>2. PICK n, p, D : n = call.num /\ p = Clamped(c, call.pct) /\ D = DOMAIN e
    OBVIOUS
  <1>3. n \in Nat /\ l \in Nat /\ p \in 0..l /\ z \in Nat
    BY <1>1, <1>2 DEF Whole, Shared, Clamped
  <1>4. PICK d : d = [x \in D \cup {n} |-> IF x \in D THEN e[x] ELSE p]
    OBVIOUS
  <1>5. Called(c, call) = [ok |-> k, symbols |-> s, tf |-> f, left |-> l - p,
                           entries |-> d, tsize |-> z + 1]
    <2>1. [x \in DOMAIN c.entries \cup {n} |-> IF x \in DOMAIN c.entries
                                              THEN c.entries[x] ELSE p] = d
      BY <1>1, <1>2, <1>4
    <2>2. Called(c, call) = [[[c EXCEPT !.left = l - p] EXCEPT !.tsize = z + 1]
                                EXCEPT !.entries = d]
      BY ONLY <1>1, <1>2, <2>1 DEF Called, Positioned
    <2>3. QED
      BY ONLY <1>1, <2>2
  <1>6. /\ IsFiniteSet(D) /\ \A x \in D : e[x] \in Nat
        /\ l + SumFunctionOnSet(e, D) <= 100
    BY <1>1, <1>2 DEF Whole, Shared
  <1>7. /\ DOMAIN d = D \cup {n} /\ \A x \in D \cup {n} : d[x] \in Nat
        /\ \A x \in D : d[x] = e[x] /\ d[x] \in Int
        /\ d = [x \in DOMAIN d |-> d[x]]
    BY <1>3, <1>4, <1>6
  <1>8. IsFiniteSet(D \cup {n})
    BY <1>6, FS_AddElement
  <1>9. PICK a, b : a = SumFunctionOnSet(e, D) /\ b = SumFunctionOnSet(d, D \cup {n})
    OBVIOUS
  <1>10. a \in Nat /\ SumFunctionOnSet(d, D) = a
    BY <1>6, <1>7, <1>9, SumNat, SumSame
  <1>11. b <= a + p
    <2>1. CASE n \in D
      <3>1. D \cup {n} = D
        BY <2>1
      <3>2. b = a
        BY <1>9, <1>10, <3>1
      <3>3. QED
        BY <1>3, <1>10, <3>2
    <2>2. CASE n \notin D
      <3>1. d[n] = p
        BY <1>4, <2>2
      <3>2. d[n] \in Int
        BY <1>3, <3>1
      <3>3. b = d[n] + SumFunctionOnSet(d, D)
        BY <1>6, <1>7, <1>9, <2>2, <3>2, SumAdded
      <3>4. QED
        BY <1>3, <1>10, <3>1, <3>3
    <2>3. QED
      BY <2>1, <2>2
  <1>12. b \in Nat
    BY <1>7, <1>8, <1>9, SumNat
  <1>13. l - p + b <= 100 /\ l - p \in Nat /\ b <= 100
    BY <1>3, <1>6, <1>9, <1>10, <1>11, <1>12
  <1>14. s \in BOOLEAN /\ f \in {<< >>, <<5>>}
    BY <1>1 DEF Whole, Shared
  <1>15. Whole(Called(c, call))
    BY <1>3, <1>5, <1>7, <1>8, <1>9, <1>13, <1>14 DEF Whole, Shared, Settings
  <1>16. QED
    BY <1>1, <1>2, <1>5, <1>7, <1>15

\* The calls one after the other.
Settled(g, c, n) ==
    g = [i \in 0..n |-> IF i = 0 THEN Tframe(c, 5) ELSE Called(g[i - 1], plan[i])]

LEMMA CallsExist ==
    ASSUME NEW c, NEW n \in Nat
    PROVE  \E g : Settled(g, c, n)
  <1> DEFINE F == {m \in 0..n : ~ \E g : Settled(g, c, m)}
  <1>1. SUFFICES ASSUME F # {} PROVE FALSE
    OBVIOUS
  <1>2. F \subseteq Int /\ IsFiniteSet(F)
    <2>1. IsFiniteSet(0..n) /\ F \subseteq 0..n
      BY FS_Interval
    <2>2. QED
      BY <2>1, FS_Subset
  <1>3. PICK m \in F : \A k \in F : m <= k
    <2> HIDE DEF F
    <2>1. QED
      BY <1>1, <1>2, LeastOfIntegers
  <1>4. m \in 0..n /\ ~ \E g : Settled(g, c, m)
    BY <1>3
  <1>5. CASE m = 0
    <2>1. Settled([i \in 0..0 |-> Tframe(c, 5)], c, 0)
      BY DEF Settled
    <2>2. QED
      BY <1>4, <1>5, <2>1
  <1>6. CASE m # 0
    <2>1. m - 1 \notin F /\ m - 1 \in 0..n
      BY <1>3, <1>4, <1>6
    <2>2. PICK g : Settled(g, c, m - 1)
      BY <2>1
    <2>3. PICK h : h = [i \in 0..m |-> IF i = m THEN Called(g[m - 1], plan[m]) ELSE g[i]]
      OBVIOUS
    <2>4. ASSUME NEW i \in 0..m
          PROVE  h[i] = IF i = 0 THEN Tframe(c, 5) ELSE Called(h[i - 1], plan[i])
      <3>1. CASE i = m
        BY <1>4, <1>6, <2>3, <3>1
      <3>2. CASE i # m
        <4>1. i \in 0..m - 1 /\ (i # 0 => i - 1 \in 0..m - 1 /\ i - 1 # m)
          BY <1>4, <3>2
        <4>2. h[i] = g[i] /\ (i # 0 => h[i - 1] = g[i - 1])
          BY <1>4, <2>3, <3>2, <4>1
        <4>3. g[i] = IF i = 0 THEN Tframe(c, 5) ELSE Called(g[i - 1], plan[i])
          BY <2>2, <4>1 DEF Settled
        <4>4. QED
          BY <4>2, <4>3
      <3>3. QED
        BY <3>1, <3>2
    <2>5. Settled(h, c, m)
      BY <2>3, <2>4 DEF Settled
    <2>6. QED
      BY <1>4, <2>5
  <1>7. QED
    BY <1>5, <1>6

\* What main has configured is shared out, with an entry for every number.
LEMMA ConfiguredWhole ==
    ASSUME plan \in Seq([num : Nat, pct : Nat]), NEW c, Whole(c)
    PROVE  /\ Whole(Configured(c)) /\ Configured(c).ok = c.ok
           /\ Configured(c).symbols = c.symbols
           /\ \A i \in DOMAIN plan : plan[i].num \in DOMAIN Configured(c).entries
  <1> DEFINE g == CHOOSE h : Settled(h, c, Len(plan))
             Good(i) == /\ Whole(g[i]) /\ g[i].ok = c.ok /\ g[i].symbols = c.symbols
                        /\ \A j \in 1..i : plan[j].num \in DOMAIN g[i].entries
             F == {i \in 0..Len(plan) : ~Good(i)}
  <1>1. Len(plan) \in Nat /\ DOMAIN plan = 1..Len(plan)
    OBVIOUS
  <1>2. Settled(g, c, Len(plan))
    BY <1>1, CallsExist
  <1>3. Configured(c) = g[Len(plan)]
    BY DEF Configured, Settled
  <1> HIDE DEF g
  <1>4. ASSUME F # {} PROVE FALSE
    <2>1. F \subseteq Int /\ IsFiniteSet(F)
      <3>1. IsFiniteSet(0..Len(plan)) /\ F \subseteq 0..Len(plan)
        BY <1>1, FS_Interval
      <3>2. QED
        BY <1>1, <3>1, FS_Subset
    <2>2. PICK m \in F : \A k \in F : m <= k
      <3> HIDE DEF F
      <3>1. QED
        BY <1>4, <2>1, LeastOfIntegers
    <2>3. m \in 0..Len(plan) /\ ~Good(m)
      BY <2>2
    <2>4. g[m] = IF m = 0 THEN Tframe(c, 5) ELSE Called(g[m - 1], plan[m])
      BY <1>2, <2>3 DEF Settled
    <2>5. CASE m = 0
      BY <2>3, <2>4, <2>5, FrameOnce DEF Whole
    <2>6. CASE m # 0
      <3>1. m - 1 \in 0..Len(plan) /\ m \in 1..Len(plan) /\ m - 1 \notin F
        BY <1>1, <2>2, <2>3, <2>6, SMTT(30)
      <3>2. Good(m - 1)
        BY <3>1
      <3>3. plan[m] \in [num : Nat, pct : Nat]
        <4>1. m \in 1..Len(plan)
          BY <1>1, <3>1
        <4>2. QED
          BY ONLY <4>1, plan \in Seq([num : Nat, pct : Nat]), ElementOfSeq
      <3>4. /\ Whole(g[m]) /\ g[m].ok = c.ok /\ g[m].symbols = c.symbols
            /\ DOMAIN g[m].entries = DOMAIN g[m - 1].entries \cup {plan[m].num}
        BY <2>4, <2>6, <3>2, <3>3, PositionTaken
      <3>5. ASSUME NEW j \in 1..m PROVE plan[j].num \in DOMAIN g[m].entries
        <4>1. j = m \/ j \in 1..m - 1
          BY <1>1, <2>3
        <4>2. QED
          BY <3>2, <3>4, <4>1
      <3>6. QED
        BY <2>3, <3>4, <3>5
    <2>7. QED
      BY <2>5, <2>6
  <1>5. Good(Len(plan))
    BY <1>1, <1>4
  <1>6. QED
    BY <1>1, <1>3, <1>5

-----------------------------------------------------------------------------
(* One thread. *)

\* Neither the rows that come nor another thread that configures disturb a thread.
LEMMA PlaceLater ==
    ASSUME NEW t, NEW calls, NEW ok, NEW e \in Nat, PlaceInv(t, calls, ok, e),
           NEW f \in Nat, e <= f, NEW new, new = ok \/ new = "ok" \/ ok = "none"
    PROVE  PlaceInv(t, calls, new, f)
  <1>1. RowsInv(t, f)
    <2>1. RowsInv(t, e)
      BY DEF PlaceInv
    <2>2. \A i \in DOMAIN t.queue : t.queue[i] \in Nat
      BY <2>1, ElementOfSeq DEF RowsInv
    <2>3. QED
      BY ONLY <2>1, <2>2, e \in Nat, f \in Nat, e <= f DEF RowsInv
  <1>2. OnceInv(t, new)
    <2>1. OnceInv(t, ok)
      BY DEF PlaceInv
    <2>2. QED
      <3>1. t.at # "none" => new # "none"
        BY ONLY <2>1, new = ok \/ new = "ok" \/ ok = "none" DEF OnceInv
      <3>2. t.configured = 1 => new = "ok"
        BY ONLY <2>1, new = ok \/ new = "ok" \/ ok = "none" DEF OnceInv
      <3>3. QED
        BY <2>1, <3>1, <3>2 DEF OnceInv
  <1>3. QED
    BY <1>1, <1>2 DEF PlaceInv

LEMMA ArgvLater ==
    ASSUME NEW t, NEW k, NEW n \in Nat, ArgvInv(t, k, n), NEW m \in Nat, n <= m
    PROVE  ArgvInv(t, k, m)
  <1>1. k.analse.init \in Int /\ k.analse.init <= n
    BY DEF ArgvInv
  <1>2. k.analse.init <= m /\ (k.analse.init = m => m = n)
    BY <1>1
  <1>3. QED
    BY <1>2 DEF ArgvInv

\* A step of thread w, to t, k and o.
LEMMA OneThread ==
    ASSUME KeptIInv, NEW w \in Pool, NEW t, NEW k, NEW o,
           thread' = [thread EXCEPT ![w] = t], kept' = [kept EXCEPT ![w] = k],
           wrote' = [wrote EXCEPT ![w] = o], UNCHANGED <<plan, clock>>,
           ConfigInv(cfg, plan)', MoneyInv(money, cfg.symbols)',
           cfg'.ok = cfg.ok \/ cfg'.ok = "ok" \/ cfg.ok = "none",
           PlaceInv(t, plan, cfg'.ok, Given(clock)), Memory(k), SilkInv(t, k, o),
           ArgvInv(t, k, clock.ticket_now)
    PROVE  KeptIInv'
  <1>1. Given(clock) \in Nat
    BY DEF KeptIInv, ClockInv, Given
  <1>2. ASSUME NEW v \in Pool
        PROVE  /\ PlaceInv(thread'[v], plan, cfg'.ok, Given(clock)) /\ Memory(kept'[v])
               /\ SilkInv(thread'[v], kept'[v], wrote'[v])
               /\ ArgvInv(thread'[v], kept'[v], clock.ticket_now)
    <2>1. CASE v = w
      <3>1. thread'[v] = t /\ kept'[v] = k /\ wrote'[v] = o
        BY <2>1 DEF KeptIInv
      <3>2. QED
        BY <3>1
    <2>2. CASE v # w
      <3>1. thread'[v] = thread[v] /\ kept'[v] = kept[v] /\ wrote'[v] = wrote[v]
        BY <2>2 DEF KeptIInv
      <3>2. /\ PlaceInv(thread[v], plan, cfg.ok, Given(clock)) /\ Memory(kept[v])
            /\ SilkInv(thread[v], kept[v], wrote[v])
            /\ ArgvInv(thread[v], kept[v], clock.ticket_now)
        BY DEF KeptIInv
      <3>3. PlaceInv(thread[v], plan, cfg'.ok, Given(clock))
        <4>1. Given(clock) <= Given(clock)
          BY <1>1
        <4>2. QED
          BY <1>1, <3>2, <4>1, PlaceLater
      <3>4. QED
        BY <3>1, <3>2, <3>3
    <2>3. QED
      BY <2>1, <2>2
  <1>3. /\ thread' = [v \in Pool |-> thread'[v]] /\ kept' = [v \in Pool |-> kept'[v]]
        /\ wrote' = [v \in Pool |-> wrote'[v]]
    BY DEF KeptIInv
  <1>4. plan' = plan /\ clock' = clock /\ plan' \in Plans /\ ClockInv(clock')
    BY DEF KeptIInv
  <1>5. QED
    BY <1>2, <1>3, <1>4 DEF KeptIInv

LEMMA ThreadIs ==
    ASSUME KeptIInv, NEW w \in Pool
    PROVE  /\ PlaceInv(thread[w], plan, cfg.ok, Given(clock)) /\ Memory(kept[w])
           /\ SilkInv(thread[w], kept[w], wrote[w])
           /\ ArgvInv(thread[w], kept[w], clock.ticket_now)
           /\ Slot(thread[w]) /\ RowsInv(thread[w], Given(clock))
           /\ StepInv(thread[w], plan) /\ OnceInv(thread[w], cfg.ok) /\ Fetched(thread[w])
           /\ kept = [kept EXCEPT ![w] = kept[w]] /\ wrote = [wrote EXCEPT ![w] = wrote[w]]
  BY DEF KeptIInv, PlaceInv

LEMMA JobInitStep ==
    ASSUME KeptIInv, NEW w \in Pool, JobInit(w)
    PROVE  KeptIInv'
  <1>1. PICK v, b, t : /\ v = thread[w] /\ b = Head(numbers)
                       /\ t = [[v EXCEPT !.at = "idle"] EXCEPT !.num = b]
    OBVIOUS
  <1>2. thread' = [thread EXCEPT ![w] = t]
    BY <1>1 DEF JobInit, KeptIInv
  <1>3. v.at = "none" /\ cfg.ok # "none"
    BY <1>1 DEF JobInit, KeptIInv, ConfigInv
  <1>4. /\ Slot(v) /\ RowsInv(v, Given(clock)) /\ StepInv(v, plan)
        /\ OnceInv(v, cfg.ok) /\ Fetched(v)
        /\ SilkInv(v, kept[w], wrote[w]) /\ ArgvInv(v, kept[w], clock.ticket_now)
    BY <1>1, ThreadIs
  <1>5. /\ Slot(t) /\ t.at = "idle" /\ t.queue = v.queue /\ t.row = v.row
        /\ t.step = v.step /\ t.post = v.post /\ t.read = v.read /\ t.last = v.last
        /\ t.configured = v.configured /\ t.cut = v.cut
    BY ONLY <1>1, <1>4 DEF Slot, Fields
  <1>6. PlaceInv(t, plan, cfg.ok, Given(clock))
    <2>1. RowsInv(t, Given(clock)) /\ Fetched(t)
      BY ONLY <1>4, <1>5 DEF RowsInv, Fetched
    <2>2. StepInv(t, plan)
      BY ONLY <1>3, <1>4, <1>5 DEF StepInv, Rounds
    <2>3. OnceInv(t, cfg.ok)
      BY ONLY <1>3, <1>4, <1>5 DEF OnceInv
    <2>4. QED
      BY <1>5, <2>1, <2>2, <2>3 DEF PlaceInv
  <1>7. SilkInv(t, kept[w], wrote[w]) /\ ArgvInv(t, kept[w], clock.ticket_now)
    <2>1. Args(t) = 0 /\ Args(v) = 0 /\ ~Early(t.at)
      BY <1>3, <1>5 DEF Args, Early
    <2>2. QED
      BY ONLY <1>4, <1>5, <2>1 DEF SilkInv, ArgvInv
  <1>8. kept' = [kept EXCEPT ![w] = kept[w]] /\ wrote' = [wrote EXCEPT ![w] = wrote[w]]
    BY ThreadIs DEF JobInit
  <1>9. /\ ConfigInv(cfg, plan)' /\ MoneyInv(money, cfg.symbols)'
        /\ UNCHANGED <<plan, clock>> /\ cfg' = cfg /\ Memory(kept[w])
    BY DEF JobInit, KeptIInv
  <1>10. QED
    BY <1>2, <1>6, <1>7, <1>8, <1>9, OneThread

\* At the first step of whatever comes.
LEMMA FirstStep ==
    ASSUME NEW t, t.at \in Rounds \ {"none", "insert"}, t.step = 1, t.post \in Int,
           NEW calls, Len(calls) \in Nat
    PROVE  StepInv(t, calls)
  <1>1. Sites + Argvs + 1 \in Nat /\ 1 <= Sites + Argvs + 1
    BY ScriptAssumption
  <1>2. t.at \in Rounds /\ t.step \in Nat /\ t.at # "insert"
    OBVIOUS
  <1>3. t.step \in 1..Len(calls) + 1 /\ t.step <= Sites + Argvs + 1 /\ t.step >= 1
    BY <1>1
  <1>4. QED
    BY <1>2, <1>3 DEF StepInv

LEMMA CallsAre ==
    ASSUME KeptIInv
    PROVE  plan \in Seq([num : Nat, pct : Nat]) /\ Len(plan) \in Nat
  <1>1. plan \in Seq([num : Nat, pct : Nat])
    BY ScriptAssumption DEF KeptIInv
  <1>2. QED
    BY <1>1

LEMMA StartRowStep ==
    ASSUME KeptIInv, NEW w \in Pool, StartRow(w)
    PROVE  KeptIInv'
  <1>1. PICK v, b, r, t : /\ v = thread[w] /\ b = Head(v.queue) /\ r = Tail(v.queue)
                          /\ t = [[[[v EXCEPT !.at = "isInit"] EXCEPT !.step = 1]
                                      EXCEPT !.row = b] EXCEPT !.queue = r]
    OBVIOUS
  <1>2. PICK l, k : l = kept[w] /\ k = [l EXCEPT !.id = 0]
    OBVIOUS
  <1>3. /\ thread' = [thread EXCEPT ![w] = t] /\ kept' = [kept EXCEPT ![w] = k]
        /\ wrote' = [wrote EXCEPT ![w] = wrote[w]]
    BY <1>1, <1>2, ThreadIs DEF StartRow, Goes, Moved, KeptIInv
  <1>4. v.at = "idle" /\ v.queue # << >>
    BY <1>1 DEF StartRow, At
  <1>5. /\ Slot(v) /\ RowsInv(v, Given(clock)) /\ StepInv(v, plan)
        /\ OnceInv(v, cfg.ok) /\ Fetched(v) /\ Memory(l)
        /\ SilkInv(v, l, wrote[w]) /\ ArgvInv(v, l, clock.ticket_now)
    BY <1>1, <1>2, ThreadIs
  <1>6. /\ Slot(t) /\ t.at = "isInit" /\ t.queue = r /\ t.row = b
        /\ t.step = 1 /\ t.post = v.post /\ t.read = v.read /\ t.last = v.last
        /\ t.configured = v.configured /\ t.cut = v.cut
    BY ONLY <1>1, <1>5 DEF Slot, Fields
  <1>7. Memory(k) /\ k.id = 0 /\ k.silk = l.silk /\ k.analse = l.analse
    BY ONLY <1>2, <1>5 DEF Memory
  <1>8. PlaceInv(t, plan, cfg.ok, Given(clock))
    <2>1. RowsInv(t, Given(clock))
      <3>1. PICK q, g : q = v.queue /\ g = Given(clock)
        OBVIOUS
      <3>2. q \in Seq(Nat) /\ q # << >> /\ \A i \in DOMAIN q : q[i] <= g
        BY <1>4, <1>5, <3>1 DEF RowsInv
      <3>3. b = q[1] /\ 1 \in DOMAIN q /\ r \in Seq(Nat) /\ b \in Nat
        BY <1>1, <3>1, <3>2
      <3>4. \A i \in DOMAIN r : i + 1 \in DOMAIN q /\ r[i] = q[i + 1]
        BY <1>1, <3>1, <3>2
      <3>5. QED
        BY <1>6, <3>1, <3>2, <3>3, <3>4 DEF RowsInv
    <2>2. StepInv(t, plan)
      <3>1. t.at \in Rounds \ {"none", "insert"} /\ t.post \in Int
        BY <1>5, <1>6 DEF StepInv, Rounds
      <3>2. QED
        BY <1>6, <3>1, FirstStep, CallsAre
    <2>3. OnceInv(t, cfg.ok) /\ Fetched(t)
      BY ONLY <1>4, <1>5, <1>6 DEF OnceInv, Fetched
    <2>4. QED
      BY <1>6, <2>1, <2>2, <2>3 DEF PlaceInv
  <1>9. SilkInv(t, k, wrote[w]) /\ ArgvInv(t, k, clock.ticket_now)
    <2>1. Args(t) = 0 /\ Args(v) = 0 /\ t.at # "store" /\ 0 \in 0..Sites
      BY <1>4, <1>6, ScriptAssumption DEF Args
    <2>2. SilkInv(t, k, wrote[w])
      BY ONLY <1>5, <1>7, <2>1 DEF SilkInv
    <2>3. ArgvInv(t, k, clock.ticket_now)
      BY ONLY <1>5, <1>6, <1>7, <2>1 DEF ArgvInv
    <2>4. QED
      BY <2>2, <2>3
  <1>10. /\ ConfigInv(cfg, plan)' /\ MoneyInv(money, cfg.symbols)'
         /\ UNCHANGED <<plan, clock>> /\ cfg' = cfg
    BY DEF StartRow, KeptIInv
  <1>11. QED
    BY <1>3, <1>7, <1>8, <1>9, <1>10, OneThread

LEMMA IsInitStep ==
    ASSUME KeptIInv, NEW w \in Pool, IsInit(w)
    PROVE  KeptIInv'
  <1>1. PICK v, a, t : /\ v = thread[w]
                       /\ a = IF cfg.ok = "proc" THEN "init ok" ELSE "store"
                       /\ t = [[v EXCEPT !.at = a] EXCEPT !.step = 1]
    OBVIOUS
  <1>2. thread' = [thread EXCEPT ![w] = t]
    BY <1>1 DEF IsInit, Goes, Moved, KeptIInv
  <1>3. /\ v.at = "isInit" /\ (a = "init ok" \/ a = "store")
        /\ a = "init ok" => cfg.ok = "proc"
    BY <1>1 DEF IsInit, At
  <1>4. /\ Slot(v) /\ RowsInv(v, Given(clock)) /\ StepInv(v, plan)
        /\ OnceInv(v, cfg.ok) /\ Fetched(v)
        /\ SilkInv(v, kept[w], wrote[w]) /\ ArgvInv(v, kept[w], clock.ticket_now)
    BY <1>1, ThreadIs
  <1>5. /\ Slot(t) /\ t.at = a /\ t.queue = v.queue /\ t.row = v.row
        /\ t.step = 1 /\ t.post = v.post /\ t.read = v.read /\ t.last = v.last
        /\ t.configured = v.configured /\ t.cut = v.cut
    BY ONLY <1>1, <1>4 DEF Slot, Fields
  <1>6. PlaceInv(t, plan, cfg.ok, Given(clock))
    <2>1. RowsInv(t, Given(clock)) /\ Fetched(t)
      BY ONLY <1>4, <1>5 DEF RowsInv, Fetched
    <2>2. StepInv(t, plan)
      <3>1. t.at \in Rounds \ {"none", "insert"} /\ t.post \in Int
        BY <1>3, <1>4, <1>5 DEF StepInv, Rounds
      <3>2. QED
        BY <1>5, <3>1, FirstStep, CallsAre
    <2>3. OnceInv(t, cfg.ok)
      <3>1. v.configured \in 0..1 /\ (v.configured = 1 => cfg.ok = "ok") /\ cfg.ok # "none"
        BY <1>3, <1>4 DEF OnceInv
      <3>2. ASSUME t.at = "init ok" PROVE t.configured = 0
        <4>1. cfg.ok = "proc"
          BY <1>3, <1>5, <3>2
        <4>2. v.configured # 1
          BY <3>1, <4>1
        <4>3. QED
          BY <1>5, <3>1, <4>2
      <3>3. QED
        BY <1>5, <3>1, <3>2 DEF OnceInv
    <2>4. QED
      BY <1>5, <2>1, <2>2, <2>3 DEF PlaceInv
  <1>7. SilkInv(t, kept[w], wrote[w])
    <2>1. kept[w].id = 0
      BY <1>3, <1>4 DEF SilkInv, Early
    <2>2. 0 = IF t.step <= Sites THEN t.step - 1 ELSE Sites
      BY <1>5, ScriptAssumption
    <2>3. QED
      BY ONLY <1>4, <2>1, <2>2 DEF SilkInv
  <1>8. ArgvInv(t, kept[w], clock.ticket_now)
    <2>1. Args(v) = 0
      BY <1>3 DEF Args
    <2>2. Args(t) = 0
      <3>1. t.step > Sites => t.step - Sites - 1 = 0
        BY <1>5, ScriptAssumption
      <3>2. QED
        BY <3>1 DEF Args
    <2>3. QED
      BY ONLY <1>4, <1>5, <2>1, <2>2 DEF ArgvInv
  <1>9. kept' = [kept EXCEPT ![w] = kept[w]] /\ wrote' = [wrote EXCEPT ![w] = wrote[w]]
    BY ThreadIs DEF IsInit
  <1>10. /\ ConfigInv(cfg, plan)' /\ MoneyInv(money, cfg.symbols)'
         /\ UNCHANGED <<plan, clock>> /\ cfg' = cfg /\ Memory(kept[w])
    BY DEF IsInit, KeptIInv
  <1>11. QED
    BY <1>2, <1>6, <1>7, <1>8, <1>9, <1>10, OneThread

LEMMA InitOkStep ==
    ASSUME KeptIInv, NEW w \in Pool, InitOk(w)
    PROVE  KeptIInv'
  <1>1. PICK v, n, t : /\ v = thread[w] /\ n = v.configured + 1
                       /\ t = [[[v EXCEPT !.at = "clamp"] EXCEPT !.step = 1]
                                  EXCEPT !.configured = n]
    OBVIOUS
  <1>2. thread' = [thread EXCEPT ![w] = t]
    BY <1>1 DEF InitOk, Goes, Moved, KeptIInv
  <1>3. v.at = "init ok"
    BY <1>1 DEF InitOk, At
  <1>4. /\ Slot(v) /\ RowsInv(v, Given(clock)) /\ StepInv(v, plan)
        /\ OnceInv(v, cfg.ok) /\ Fetched(v)
        /\ SilkInv(v, kept[w], wrote[w]) /\ ArgvInv(v, kept[w], clock.ticket_now)
    BY <1>1, ThreadIs
  <1>5. /\ Slot(t) /\ t.at = "clamp" /\ t.queue = v.queue /\ t.row = v.row
        /\ t.step = 1 /\ t.post = v.post /\ t.read = v.read /\ t.last = v.last
        /\ t.configured = n /\ t.cut = v.cut
    BY ONLY <1>1, <1>4 DEF Slot, Fields
  <1>6. n = 1 /\ cfg.ok # "none"
    <2>1. v.configured = 0
      BY <1>3, <1>4 DEF OnceInv
    <2>2. cfg.ok # "none"
      BY <1>3, <1>4 DEF OnceInv
    <2>3. QED
      BY <1>1, <2>1, <2>2
  <1>7. /\ cfg'.ok = "ok" /\ ConfigInv(cfg, plan)' /\ cfg'.symbols = cfg.symbols
        /\ plan' = plan /\ clock' = clock
    <2>1. PICK c, d : c = Tframe(cfg, 5) /\ d = [c EXCEPT !.ok = "ok"]
      OBVIOUS
    <2>2. Shared(c) /\ c.entries = cfg.entries /\ c.symbols = cfg.symbols
      BY <2>1, FrameOnce DEF KeptIInv, ConfigInv
    <2>3. Shared(d) /\ d.ok = "ok" /\ d.entries = cfg.entries /\ d.symbols = cfg.symbols
      BY <2>1, <2>2, StateSet
    <2>4. cfg' = d /\ plan' = plan /\ clock' = clock
      BY <2>1 DEF InitOk
    <2>5. \A i \in DOMAIN plan : plan[i].num \in DOMAIN d.entries
      BY <1>6, <2>3 DEF KeptIInv, ConfigInv
    <2>6. ConfigInv(d, plan)
      BY <2>3, <2>5 DEF ConfigInv
    <2>7. QED
      BY <2>3, <2>4, <2>6
  <1>8. MoneyInv(money, cfg.symbols)'
    <2>1. PICK m, g, a : m = money /\ g = m.granted /\ a = (g # -1)
      OBVIOUS
    <2>2. PICK b, o, h, i : m = [total |-> b, own |-> o, granted |-> g,
                                 thrown |-> h, again |-> i]
      BY <2>1 DEF KeptIInv, MoneyInv, Purse
    <2>3. money' = [total |-> Asked, own |-> o, granted |-> g, thrown |-> h, again |-> a]
      <3>1. money' = [[money EXCEPT !.total = Asked] EXCEPT !.again = a]
        BY <2>1 DEF InitOk
      <3>2. money = [total |-> b, own |-> o, granted |-> g, thrown |-> h, again |-> i]
        BY <2>1, <2>2
      <3>3. QED
        BY ONLY <3>1, <3>2
    <2>4. g # -1 => cfg.symbols
      BY <2>1 DEF KeptIInv, MoneyInv
    <2>5. QED
      BY <1>7, <2>1, <2>3, <2>4 DEF MoneyInv, Purse
  <1>9. PlaceInv(t, plan, cfg'.ok, Given(clock))
    <2>1. RowsInv(t, Given(clock)) /\ Fetched(t)
      BY ONLY <1>4, <1>5 DEF RowsInv, Fetched
    <2>2. StepInv(t, plan)
      <3>1. t.at \in Rounds \ {"none", "insert"} /\ t.post \in Int
        BY <1>4, <1>5 DEF StepInv, Rounds
      <3>2. QED
        BY <1>5, <3>1, FirstStep, CallsAre
    <2>3. OnceInv(t, cfg'.ok)
      BY <1>5, <1>6, <1>7 DEF OnceInv
    <2>4. QED
      BY <1>5, <2>1, <2>2, <2>3 DEF PlaceInv
  <1>10. SilkInv(t, kept[w], wrote[w]) /\ ArgvInv(t, kept[w], clock.ticket_now)
    <2>1. Args(t) = 0 /\ Args(v) = 0 /\ Early(t.at) /\ Early(v.at) /\ t.at # "store"
      BY <1>3, <1>5 DEF Args, Early
    <2>2. SilkInv(t, kept[w], wrote[w])
      BY ONLY <1>4, <2>1 DEF SilkInv
    <2>3. ArgvInv(t, kept[w], clock.ticket_now)
      BY ONLY <1>4, <1>5, <2>1 DEF ArgvInv
    <2>4. QED
      BY <2>2, <2>3
  <1>11. /\ kept' = [kept EXCEPT ![w] = kept[w]] /\ wrote' = [wrote EXCEPT ![w] = wrote[w]]
         /\ Memory(kept[w])
    BY ThreadIs DEF InitOk
  <1>12. QED
    BY <1>2, <1>7, <1>8, <1>9, <1>10, <1>11, OneThread

LEMMA ThreadPositionStep ==
    ASSUME KeptIInv, NEW w \in Pool, ThreadPosition(w)
    PROVE  KeptIInv'
  <1> DEFINE v == thread[w]
  <1>1. /\ Slot(v) /\ RowsInv(v, Given(clock)) /\ StepInv(v, plan)
        /\ OnceInv(v, cfg.ok) /\ Fetched(v) /\ Memory(kept[w])
        /\ SilkInv(v, kept[w], wrote[w]) /\ ArgvInv(v, kept[w], clock.ticket_now)
    BY ThreadIs
  <1>2. /\ kept' = [kept EXCEPT ![w] = kept[w]] /\ wrote' = [wrote EXCEPT ![w] = wrote[w]]
        /\ UNCHANGED <<plan, clock, money>>
    BY ThreadIs DEF ThreadPosition
  <1>3. v.step \in Nat /\ v.post \in Int /\ Len(plan) \in Nat
    BY <1>1, CallsAre DEF StepInv
  <1>4. ASSUME NEW t, Slot(t), t.queue = v.queue, t.row = v.row, t.read = v.read,
               t.last = v.last, t.configured = v.configured, t.cut = v.cut,
               StepInv(t, plan), thread' = [thread EXCEPT ![w] = t],
               v.at \in {"clamp", "insert"}, t.at \in {"clamp", "insert"},
               ConfigInv(cfg', plan), cfg'.ok = cfg.ok, cfg'.symbols = cfg.symbols
        PROVE  KeptIInv'
    <2>1. RowsInv(t, Given(clock)) /\ Fetched(t)
      BY ONLY <1>1, <1>4 DEF RowsInv, Fetched
    <2>2. OnceInv(t, cfg.ok)
      <3>1. cfg.ok # "none" /\ t.at # "init ok"
        BY <1>1, <1>4 DEF OnceInv
      <3>2. v.configured \in 0..1 /\ (v.configured = 1 => cfg.ok = "ok")
        BY <1>1 DEF OnceInv
      <3>3. QED
        BY <1>4, <3>1, <3>2 DEF OnceInv
    <2>3. PlaceInv(t, plan, cfg'.ok, Given(clock))
      BY <1>4, <2>1, <2>2 DEF PlaceInv
    <2>4. Args(t) = 0 /\ Args(v) = 0 /\ Early(t.at) /\ Early(v.at) /\ t.at # "store"
      BY <1>4 DEF Args, Early
    <2>5. SilkInv(t, kept[w], wrote[w])
      BY ONLY <1>1, <2>4 DEF SilkInv
    <2>6. ArgvInv(t, kept[w], clock.ticket_now)
      BY ONLY <1>1, <1>4, <2>4 DEF ArgvInv
    <2>7. ConfigInv(cfg, plan)'
      BY <1>2, <1>4
    <2>8. MoneyInv(money, cfg.symbols)'
      BY <1>2, <1>4 DEF KeptIInv
    <2>9. QED
      BY <1>1, <1>2, <1>4, <2>3, <2>5, <2>6, <2>7, <2>8, OneThread
  <1>5. CASE v.at = "clamp"
    <2>1. v.step <= Len(plan)
      BY <1>5 DEF ThreadPosition
    <2>2. PICK c, p, t : /\ c = plan[v.step] /\ p = Clamped(cfg, c.pct)
                         /\ t = [[v EXCEPT !.at = "insert"] EXCEPT !.post = p]
      OBVIOUS
    <2>3. thread' = [thread EXCEPT ![w] = t] /\ cfg' = cfg
      BY <1>5, <2>2 DEF ThreadPosition, Goes, KeptIInv
    <2>4. v.step \in 1..Len(plan)
      BY <1>1, <1>3, <1>5, <2>1 DEF StepInv
    <2>5. p \in Int
      <3>1. c \in [num : Nat, pct : Nat]
        BY <2>2, <2>4, CallsAre, ElementOfSeq
      <3>2. cfg.left \in Int /\ c.pct \in Int
        BY <3>1 DEF KeptIInv, ConfigInv, Shared
      <3>3. QED
        BY <2>2, <3>2 DEF Clamped
    <2>6. /\ Slot(t) /\ t.at = "insert" /\ t.queue = v.queue /\ t.row = v.row
          /\ t.step = v.step /\ t.post = p /\ t.read = v.read /\ t.last = v.last
          /\ t.configured = v.configured /\ t.cut = v.cut
      BY ONLY <1>1, <2>2 DEF Slot, Fields
    <2>7. StepInv(t, plan)
      <3>1. t.step \in 1..Len(plan) + 1 /\ t.step <= Len(plan) /\ t.step \in Nat
        BY <1>3, <2>4, <2>6
      <3>2. QED
        BY <2>5, <2>6, <3>1 DEF StepInv, Rounds
    <2>8. ConfigInv(cfg', plan)
      BY <2>3 DEF KeptIInv
    <2>9. v.at \in {"clamp", "insert"} /\ t.at \in {"clamp", "insert"}
      BY <1>5, <2>6
    <2> HIDE DEF v
    <2>10. QED
      BY <1>4, <2>3, <2>6, <2>7, <2>8, <2>9
  <1>6. CASE v.at = "insert"
    <2>1. PICK n, p, s, t : /\ n = plan[v.step].num /\ p = v.post /\ s = v.step + 1
                            /\ t = [[v EXCEPT !.at = "clamp"] EXCEPT !.step = s]
      OBVIOUS
    <2>2. thread' = [thread EXCEPT ![w] = t] /\ cfg' = Positioned(cfg, n, p)
      BY <1>6, <2>1 DEF ThreadPosition, Goes, KeptIInv
    <2>3. v.step \in 1..Len(plan) /\ s \in 1..Len(plan) + 1 /\ s \in Nat
      BY <1>1, <1>3, <1>6, <2>1 DEF StepInv
    <2>4. cfg.ok # "none"
      BY <1>1, <1>6 DEF OnceInv
    <2>5. n \in DOMAIN cfg.entries
      <3>1. DOMAIN plan = 1..Len(plan)
        BY CallsAre
      <3>2. QED
        BY <2>1, <2>3, <2>4, <3>1 DEF KeptIInv, ConfigInv
    <2>6. /\ Shared(cfg') /\ cfg'.ok = cfg.ok /\ cfg'.symbols = cfg.symbols
          /\ cfg'.entries = cfg.entries
      <3>1. Shared(cfg) /\ p \in Int
        BY <1>3, <2>1 DEF KeptIInv, ConfigInv
      <3>2. QED
        BY <2>2, <2>5, <3>1, PositionKept
    <2>7. ConfigInv(cfg', plan)
      BY <2>4, <2>6 DEF KeptIInv, ConfigInv
    <2>8. /\ Slot(t) /\ t.at = "clamp" /\ t.queue = v.queue /\ t.row = v.row
          /\ t.step = s /\ t.post = v.post /\ t.read = v.read /\ t.last = v.last
          /\ t.configured = v.configured /\ t.cut = v.cut
      BY ONLY <1>1, <2>1 DEF Slot, Fields
    <2>9. StepInv(t, plan)
      BY <1>3, <2>3, <2>8 DEF StepInv, Rounds
    <2>10. v.at \in {"clamp", "insert"} /\ t.at \in {"clamp", "insert"}
      BY <1>6, <2>8
    <2> HIDE DEF v
    <2>11. QED
      BY <1>4, <2>2, <2>6, <2>7, <2>8, <2>9, <2>10
  <1>7. QED
    BY <1>5, <1>6 DEF ThreadPosition

LEMMA AnalseStep ==
    ASSUME KeptIInv, NEW w \in Pool, Analse(w)
    PROVE  KeptIInv'
  <1>1. PICK v, t : /\ v = thread[w]
                    /\ t = [[v EXCEPT !.at = "store"] EXCEPT !.step = 1]
    OBVIOUS
  <1>2. PICK l, a, k : /\ l = kept[w] /\ a = [init |-> clock.ticket_now, argv |-> << >>]
                       /\ k = [l EXCEPT !.analse = a]
    OBVIOUS
  <1>3. /\ thread' = [thread EXCEPT ![w] = t] /\ kept' = [kept EXCEPT ![w] = k]
        /\ wrote' = [wrote EXCEPT ![w] = wrote[w]]
    BY <1>1, <1>2, ThreadIs DEF Analse, Goes, Moved, KeptIInv
  <1>4. v.at = "clamp"
    BY <1>1 DEF Analse, At
  <1>5. /\ Slot(v) /\ RowsInv(v, Given(clock)) /\ StepInv(v, plan)
        /\ OnceInv(v, cfg.ok) /\ Fetched(v) /\ Memory(l)
        /\ SilkInv(v, l, wrote[w]) /\ ArgvInv(v, l, clock.ticket_now)
    BY <1>1, <1>2, ThreadIs
  <1>6. /\ Slot(t) /\ t.at = "store" /\ t.queue = v.queue /\ t.row = v.row
        /\ t.step = 1 /\ t.post = v.post /\ t.read = v.read /\ t.last = v.last
        /\ t.configured = v.configured /\ t.cut = v.cut
    BY ONLY <1>1, <1>5 DEF Slot, Fields
  <1>7. Memory(k) /\ k.id = l.id /\ k.silk = l.silk /\ k.analse = a
    BY ONLY <1>2, <1>5 DEF Memory
  <1>8. PlaceInv(t, plan, cfg.ok, Given(clock))
    <2>1. RowsInv(t, Given(clock)) /\ Fetched(t)
      BY ONLY <1>5, <1>6 DEF RowsInv, Fetched
    <2>2. StepInv(t, plan)
      <3>1. t.at \in Rounds \ {"none", "insert"} /\ t.post \in Int
        BY <1>5, <1>6 DEF StepInv, Rounds
      <3>2. QED
        BY <1>6, <3>1, FirstStep, CallsAre
    <2>3. OnceInv(t, cfg.ok)
      <3>1. v.configured \in 0..1 /\ (v.configured = 1 => cfg.ok = "ok") /\ cfg.ok # "none"
        BY <1>4, <1>5 DEF OnceInv
      <3>2. QED
        BY <1>6, <3>1 DEF OnceInv
    <2>4. QED
      BY <1>6, <2>1, <2>2, <2>3 DEF PlaceInv
  <1>9. SilkInv(t, k, wrote[w])
    <2>1. l.id = 0
      BY <1>4, <1>5 DEF SilkInv, Early
    <2>2. 0 = IF t.step <= Sites THEN t.step - 1 ELSE Sites
      BY <1>6, ScriptAssumption
    <2>3. QED
      BY ONLY <1>5, <1>7, <2>1, <2>2 DEF SilkInv
  <1>10. ArgvInv(t, k, clock.ticket_now)
    <2>1. Args(t) = 0
      <3>1. t.step > Sites => t.step - Sites - 1 = 0
        BY <1>6, ScriptAssumption
      <3>2. QED
        BY <3>1 DEF Args
    <2>2. k.analse.init = clock.ticket_now /\ k.analse.argv = << >>
      BY <1>2, <1>7
    <2>3. clock.ticket_now \in Nat /\ Argvs \in Nat
      BY ScriptAssumption DEF KeptIInv, ClockInv
    <2>4. Len(<< >>) = 0 /\ 0 \in 0..0 /\ 0 = (Argvs * 0) + 0 /\ DOMAIN << >> = {}
          /\ << >> \in Seq(Nat)
      BY <2>3
    <2>5. t.cut \in BOOLEAN
      BY <1>5, <1>6 DEF ArgvInv
    <2>6. QED
      BY ONLY <2>1, <2>2, <2>3, <2>4, <2>5 DEF ArgvInv
  <1>11. /\ ConfigInv(cfg, plan)' /\ MoneyInv(money, cfg.symbols)'
         /\ UNCHANGED <<plan, clock>> /\ cfg' = cfg
    BY DEF Analse, KeptIInv
  <1>12. QED
    BY <1>3, <1>7, <1>8, <1>9, <1>10, <1>11, OneThread

LEMMA StoreStep ==
    ASSUME KeptIInv, NEW w \in Pool, Store(w)
    PROVE  KeptIInv'
  <1>1. PICK v, l, g, i, x :
            /\ v = thread[w] /\ l = kept[w] /\ g = v.step /\ i = l.id + 1
            /\ x = <<g, v.row>>
    OBVIOUS
  <1>2. PICK n, y, r, t : /\ n = g + 1 /\ y = wrote[w][g]
                          /\ r = IF i \in DOMAIN l.silk THEN l.silk[i] ELSE Absent
                          /\ t = [[[v EXCEPT !.step = n] EXCEPT !.last = y]
                                     EXCEPT !.read = r]
    OBVIOUS
  <1>3. PICK m, k, o : /\ m = [j \in DOMAIN l.silk \cup {i} |->
                                   IF j = i THEN x ELSE l.silk[j]]
                       /\ k = [[l EXCEPT !.id = i] EXCEPT !.silk = m]
                       /\ o = [wrote[w] EXCEPT ![g] = x]
    OBVIOUS
  <1>4. /\ thread' = [thread EXCEPT ![w] = t] /\ kept' = [kept EXCEPT ![w] = k]
        /\ wrote' = [wrote EXCEPT ![w] = o]
    <2>1. thread' = [thread EXCEPT ![w] = t]
      BY <1>1, <1>2 DEF Store, Goes
    <2>2. kept' = [kept EXCEPT ![w] = k]
      <3>1. kept' = [[kept EXCEPT ![w].id = i] EXCEPT ![w].silk = m]
        BY <1>1, <1>3 DEF Store
      <3>2. kept = [z \in Pool |-> kept[z]]
        BY DEF KeptIInv
      <3>3. QED
        BY ONLY <1>1, <1>3, <3>1, <3>2, w \in Pool
    <2>3. wrote' = [wrote EXCEPT ![w] = o]
      BY <1>1, <1>3 DEF Store, KeptIInv
    <2>4. QED
      BY <2>1, <2>2, <2>3
  <1>5. v.at = "store" /\ g <= Sites
    BY <1>1 DEF Store, At
  <1>6. /\ Slot(v) /\ RowsInv(v, Given(clock)) /\ StepInv(v, plan)
        /\ OnceInv(v, cfg.ok) /\ Fetched(v) /\ Memory(l)
        /\ SilkInv(v, l, wrote[w]) /\ ArgvInv(v, l, clock.ticket_now)
    BY <1>1, ThreadIs
  <1>7. g \in 1..Sites /\ i = g /\ n \in Nat /\ n >= 1 /\ n = g + 1
    <2>1. g \in Nat /\ g >= 1
      BY <1>1, <1>5, <1>6 DEF StepInv
    <2>2. l.id = g - 1
      BY <1>1, <1>5, <1>6 DEF SilkInv
    <2>3. QED
      BY <1>1, <1>2, <1>5, <2>1, <2>2, ScriptAssumption
  <1>8. /\ Slot(t) /\ t.at = "store" /\ t.queue = v.queue /\ t.row = v.row
        /\ t.step = n /\ t.post = v.post /\ t.read = r /\ t.last = y
        /\ t.configured = v.configured /\ t.cut = v.cut
    BY ONLY <1>2, <1>5, <1>6 DEF Slot, Fields
  <1>9. Memory(k) /\ k.id = i /\ k.silk = m /\ k.analse = l.analse
    BY ONLY <1>3, <1>6 DEF Memory
  <1>10. PlaceInv(t, plan, cfg.ok, Given(clock))
    <2>1. RowsInv(t, Given(clock))
      BY ONLY <1>6, <1>8 DEF RowsInv
    <2>2. StepInv(t, plan)
      <3>1. n <= Sites + Argvs + 1
        BY <1>7, ScriptAssumption
      <3>2. QED
        BY <1>6, <1>7, <1>8, <3>1 DEF StepInv, Rounds
    <2>3. OnceInv(t, cfg.ok)
      BY ONLY <1>5, <1>6, <1>8 DEF OnceInv
    <2>4. Fetched(t)
      BY <1>2, <1>6, <1>7, <1>8 DEF SilkInv, Fetched
    <2>5. QED
      BY <1>8, <2>1, <2>2, <2>3, <2>4 DEF PlaceInv
  <1>11. SilkInv(t, k, o)
    <2>1. k.id \in 0..Sites /\ ~Early(t.at)
      BY <1>7, <1>8, <1>9, ScriptAssumption DEF Early
    <2>2. k.id = IF t.step <= Sites THEN t.step - 1 ELSE Sites
      BY <1>7, <1>8, <1>9, ScriptAssumption
    <2>3. DOMAIN m \subseteq 1..Sites /\ DOMAIN m = DOMAIN l.silk \cup {g}
      BY <1>3, <1>6, <1>7 DEF SilkInv
    <2>4. o = [s \in 1..Sites |-> IF s = g THEN x ELSE wrote[w][s]]
      BY <1>3, <1>6, <1>7 DEF SilkInv
    <2>5. ASSUME NEW s \in 1..Sites
          PROVE  o[s] = IF s \in DOMAIN m THEN m[s] ELSE Absent
      <3>1. CASE s = g
        BY <1>3, <1>7, <2>3, <2>4, <3>1
      <3>2. CASE s # g
        <4>1. o[s] = wrote[w][s] /\ (s \in DOMAIN m <=> s \in DOMAIN l.silk)
          BY <2>3, <2>4, <3>2
        <4>2. s \in DOMAIN m => m[s] = l.silk[s]
          BY <1>3, <1>7, <2>3, <3>2
        <4>3. wrote[w][s] = IF s \in DOMAIN l.silk THEN l.silk[s] ELSE Absent
          BY <1>6 DEF SilkInv
        <4>4. QED
          BY <4>1, <4>2, <4>3
      <3>3. QED
        BY <3>1, <3>2
    <2>6. o = [s \in 1..Sites |-> o[s]]
      BY <2>4
    <2>7. QED
      BY <1>8, <1>9, <2>1, <2>2, <2>3, <2>5, <2>6 DEF SilkInv
  <1>12. ArgvInv(t, k, clock.ticket_now)
    <2>1. Args(v) = 0
      BY <1>1, <1>7, ScriptAssumption DEF Args
    <2>2. Args(t) = 0
      <3>1. t.step > Sites => t.step - Sites - 1 = 0
        BY <1>7, <1>8, ScriptAssumption
      <3>2. QED
        BY <3>1 DEF Args
    <2>3. QED
      BY ONLY <1>6, <1>8, <1>9, <2>1, <2>2 DEF ArgvInv
  <1>13. /\ ConfigInv(cfg, plan)' /\ MoneyInv(money, cfg.symbols)'
         /\ UNCHANGED <<plan, clock>> /\ cfg' = cfg
    BY DEF Store, KeptIInv
  <1>14. QED
    BY <1>4, <1>9, <1>10, <1>11, <1>12, <1>13, OneThread

LEMMA AnalseArgvStep ==
    ASSUME KeptIInv, NEW w \in Pool, AnalseArgv(w)
    PROVE  KeptIInv'
  <1>1. PICK v, l, g, n, t : /\ v = thread[w] /\ l = kept[w] /\ g = v.step - Sites
                             /\ n = v.step + 1 /\ t = [v EXCEPT !.step = n]
    OBVIOUS
  <1>2. PICK a, b, k : /\ a = Append(l.analse.argv, g)
                       /\ b = [init |-> l.analse.init, argv |-> a]
                       /\ k = IF l.analse.init = clock.ticket_now
                              THEN [l EXCEPT !.analse = b] ELSE l
    OBVIOUS
  <1>3. v.at = "store" /\ g \in 1..Argvs
    BY <1>1 DEF AnalseArgv, At
  <1>4. /\ Slot(v) /\ RowsInv(v, Given(clock)) /\ StepInv(v, plan)
        /\ OnceInv(v, cfg.ok) /\ Fetched(v) /\ Memory(l)
        /\ SilkInv(v, l, wrote[w]) /\ ArgvInv(v, l, clock.ticket_now)
    BY <1>1, ThreadIs
  <1>5. /\ thread' = [thread EXCEPT ![w] = t] /\ kept' = [kept EXCEPT ![w] = k]
        /\ wrote' = [wrote EXCEPT ![w] = wrote[w]]
    <2>1. thread' = [thread EXCEPT ![w] = t] /\ wrote' = [wrote EXCEPT ![w] = wrote[w]]
      BY <1>1, ThreadIs DEF AnalseArgv, Goes
    <2>2. kept = [z \in Pool |-> kept[z]]
      BY DEF KeptIInv
    <2>3. CASE l.analse.init = clock.ticket_now
      <3>1. kept' = [kept EXCEPT ![w].analse.argv = a]
        BY <1>1, <1>2, <2>3 DEF AnalseArgv
      <3>2. kept' = [kept EXCEPT ![w] = [l EXCEPT !.analse = [l.analse EXCEPT !.argv = a]]]
        BY ONLY <1>1, <2>2, <3>1, w \in Pool
      <3>3. [l.analse EXCEPT !.argv = a] = b
        <4>1. PICK z, y : l.analse = [init |-> z, argv |-> y]
          BY <1>4 DEF Memory
        <4>2. [l.analse EXCEPT !.argv = a] = [init |-> z, argv |-> a]
          BY ONLY <4>1
        <4>3. QED
          BY <1>2, <4>1, <4>2
      <3>4. QED
        BY <1>2, <2>1, <2>3, <3>2, <3>3
    <2>4. CASE l.analse.init # clock.ticket_now
      <3>1. kept' = kept
        BY <1>1, <2>4 DEF AnalseArgv
      <3>2. QED
        BY <1>1, <1>2, <2>1, <2>4, <3>1, ThreadIs
    <2>5. QED
      BY <2>3, <2>4
  <1>6. /\ v.step = Sites + g /\ v.step \in Nat /\ Sites \in Nat /\ Argvs \in Nat
        /\ g \in Nat
    BY <1>1, <1>3, <1>4, ScriptAssumption DEF StepInv
  <1>7. /\ Slot(t) /\ t.at = "store" /\ t.queue = v.queue /\ t.row = v.row
        /\ t.step = n /\ t.post = v.post /\ t.read = v.read /\ t.last = v.last
        /\ t.configured = v.configured /\ t.cut = v.cut
    BY ONLY <1>1, <1>3, <1>4 DEF Slot, Fields
  <1>8. /\ Memory(k) /\ k.id = l.id /\ k.silk = l.silk
        /\ k.analse = IF l.analse.init = clock.ticket_now THEN b ELSE l.analse
    BY ONLY <1>2, <1>4 DEF Memory
  <1>9. PlaceInv(t, plan, cfg.ok, Given(clock))
    <2>1. RowsInv(t, Given(clock)) /\ Fetched(t)
      BY ONLY <1>4, <1>7 DEF RowsInv, Fetched
    <2>2. StepInv(t, plan)
      <3>1. n \in Nat /\ n <= Sites + Argvs + 1 /\ n >= 1
        BY <1>1, <1>3, <1>6
      <3>2. QED
        BY <1>4, <1>7, <3>1 DEF StepInv, Rounds
    <2>3. OnceInv(t, cfg.ok)
      BY ONLY <1>3, <1>4, <1>7 DEF OnceInv
    <2>4. QED
      BY <1>7, <2>1, <2>2, <2>3 DEF PlaceInv
  <1>10. SilkInv(t, k, wrote[w])
    <2>1. l.id = Sites
      <3>1. ~(v.step <= Sites)
        BY <1>3, <1>6
      <3>2. QED
        BY <1>3, <1>4, <3>1 DEF SilkInv
    <2>2. ~(t.step <= Sites)
      BY <1>1, <1>3, <1>6, <1>7
    <2>3. ~Early(t.at)
      BY <1>7 DEF Early
    <2>4. QED
      BY <1>4, <1>7, <1>8, <2>1, <2>2, <2>3 DEF SilkInv
  <1>11. ArgvInv(t, k, clock.ticket_now)
    <2>1. Args(v) = g - 1 /\ Args(t) = g
      BY <1>1, <1>3, <1>6, <1>7 DEF Args
    <2>2. CASE l.analse.init # clock.ticket_now
      <3>1. k.analse = l.analse
        BY <1>8, <2>2
      <3>2. QED
        BY ONLY <1>4, <1>7, <2>2, <3>1 DEF ArgvInv
    <2>3. CASE l.analse.init = clock.ticket_now
      <3>1. PICK c : c = l.analse.argv
        OBVIOUS
      <3>2. k.analse.init = clock.ticket_now /\ k.analse.argv = a /\ a = Append(c, g)
        BY <1>2, <1>8, <2>3, <3>1
      <3>3. c \in Seq(Nat) /\ t.cut \in BOOLEAN /\ clock.ticket_now \in Int
        BY <1>4, <1>7, <2>3, <3>1 DEF ArgvInv
      <3>4. a \in Seq(Nat) /\ Len(a) = Len(c) + 1 /\ a[Len(a)] = g
            /\ Len(c) \in Nat /\ \A i \in 1..Len(c) : a[i] = c[i]
        BY <1>6, <3>2, <3>3
      <3>5. clock.ticket_now <= clock.ticket_now
        BY <3>3
      <3>6. ASSUME ~t.cut
            PROVE  /\ \A i \in DOMAIN a : a[i] = ((i - 1) % Argvs) + 1
                   /\ \E q \in 0..Len(a) : Len(a) = (Argvs * q) + Args(t)
        <4>1. /\ \A i \in DOMAIN c : c[i] = ((i - 1) % Argvs) + 1
              /\ \E q \in 0..Len(c) : Len(c) = (Argvs * q) + Args(v)
          BY <1>4, <1>7, <2>3, <3>1, <3>6 DEF ArgvInv
        <4>2. PICK q \in 0..Len(c) : Len(c) = (Argvs * q) + (g - 1)
          BY <2>1, <4>1
        <4>3. PICK p : p = Argvs * q
          OBVIOUS
        <4>4. p \in Int /\ q \in Nat
          BY <1>6, <3>4, <4>2, <4>3
        <4>5. Len(a) = p + g
          BY <1>6, <3>4, <4>2, <4>3, <4>4
        <4>6. Len(c) % Argvs = g - 1
          <5>1. PICK m, d : m = Len(c) /\ d = g - 1
            OBVIOUS
          <5>2. m = Argvs * q + d /\ m \in Nat /\ d \in 0..Argvs - 1
            BY <1>3, <1>6, <3>4, <4>2, <5>1
          <5>3. Argvs \in Nat \ {0} /\ q \in Int
            BY <1>3, <1>6, <4>4
          <5>4. m % Argvs = d
            BY ONLY <5>2, <5>3, ModUnique
          <5>5. QED
            BY <5>1, <5>4
        <4>7. ASSUME NEW i \in DOMAIN a PROVE a[i] = ((i - 1) % Argvs) + 1
          <5>1. i \in 1..Len(c) \/ i = Len(c) + 1
            BY <3>4
          <5>2. CASE i \in 1..Len(c)
            <6>1. i \in DOMAIN c
              BY <3>3, <5>2
            <6>2. QED
              BY <3>4, <4>1, <5>2, <6>1
          <5>3. CASE i = Len(c) + 1
            <6>1. i - 1 = Len(c)
              BY <3>4, <5>3
            <6>2. a[i] = g
              BY <3>4, <5>3
            <6>3. QED
              BY <1>6, <4>6, <6>1, <6>2
          <5>4. QED
            BY <5>1, <5>2, <5>3
        <4>8. q \in 0..Len(a)
          BY <3>4, <4>2
        <4>9. QED
          BY <2>1, <4>3, <4>5, <4>7, <4>8
      <3>7. QED
        BY <3>2, <3>3, <3>4, <3>5, <3>6 DEF ArgvInv
    <2>4. QED
      BY <2>2, <2>3
  <1>12. /\ ConfigInv(cfg, plan)' /\ MoneyInv(money, cfg.symbols)'
         /\ UNCHANGED <<plan, clock>> /\ cfg' = cfg
    BY DEF AnalseArgv, KeptIInv
  <1>13. QED
    BY <1>5, <1>8, <1>9, <1>10, <1>11, <1>12, OneThread

LEMMA RunsStep ==
    ASSUME KeptIInv, NEW w \in Pool, Runs(w)
    PROVE  KeptIInv'
  <1>1. PICK v, e, n, c, t : /\ v = thread[w] /\ e = (v.step > Sites + Argvs)
                             /\ n = (IF e THEN v.runs + 1 ELSE v.runs) /\ c = (v.cut \/ ~e)
                             /\ t = [[[[v EXCEPT !.at = "idle"] EXCEPT !.step = 1]
                                        EXCEPT !.runs = n] EXCEPT !.cut = c]
    OBVIOUS
  <1>2. thread' = [thread EXCEPT ![w] = t]
    BY <1>1 DEF Runs, Goes, Moved, KeptIInv
  <1>3. v.at = "store"
    BY <1>1 DEF Runs, At
  <1>4. /\ Slot(v) /\ RowsInv(v, Given(clock)) /\ StepInv(v, plan)
        /\ OnceInv(v, cfg.ok) /\ Fetched(v)
        /\ SilkInv(v, kept[w], wrote[w]) /\ ArgvInv(v, kept[w], clock.ticket_now)
    BY <1>1, ThreadIs
  <1>5. /\ Slot(t) /\ t.at = "idle" /\ t.queue = v.queue /\ t.row = v.row
        /\ t.step = 1 /\ t.post = v.post /\ t.read = v.read /\ t.last = v.last
        /\ t.configured = v.configured /\ t.cut = c
    BY ONLY <1>1, <1>4 DEF Slot, Fields
  <1>6. PlaceInv(t, plan, cfg.ok, Given(clock))
    <2>1. RowsInv(t, Given(clock)) /\ Fetched(t)
      BY ONLY <1>4, <1>5 DEF RowsInv, Fetched
    <2>2. StepInv(t, plan)
      <3>1. t.at \in Rounds \ {"none", "insert"} /\ t.post \in Int
        BY <1>4, <1>5 DEF StepInv, Rounds
      <3>2. QED
        BY <1>5, <3>1, FirstStep, CallsAre
    <2>3. OnceInv(t, cfg.ok)
      BY ONLY <1>3, <1>4, <1>5 DEF OnceInv
    <2>4. QED
      BY <1>5, <2>1, <2>2, <2>3 DEF PlaceInv
  <1>7. SilkInv(t, kept[w], wrote[w])
    <2>1. ~Early(t.at) /\ t.at # "store"
      BY <1>5 DEF Early
    <2>2. QED
      BY ONLY <1>4, <2>1 DEF SilkInv
  <1>8. ArgvInv(t, kept[w], clock.ticket_now)
    <2>1. PICK a : a = kept[w].analse
      OBVIOUS
    <2>2. /\ a.init \in Int /\ a.init <= clock.ticket_now /\ a.argv \in Seq(Nat)
          /\ v.cut \in BOOLEAN
      BY <1>4, <2>1 DEF ArgvInv
    <2>3. t.cut \in BOOLEAN
      BY <1>1, <1>5, <2>2
    <2>4. Args(t) = 0
      BY <1>5 DEF Args
    <2>5. ASSUME ~t.cut
          PROVE  /\ \A i \in DOMAIN a.argv : a.argv[i] = ((i - 1) % Argvs) + 1
                 /\ a.init = clock.ticket_now =>
                       \E q \in 0..Len(a.argv) : Len(a.argv) = (Argvs * q) + 0
      <3>1. ~v.cut /\ v.step > Sites + Argvs
        BY <1>1, <1>5, <2>2, <2>5
      <3>2. /\ \A i \in DOMAIN a.argv : a.argv[i] = ((i - 1) % Argvs) + 1
            /\ a.init = clock.ticket_now =>
                  \E q \in 0..Len(a.argv) : Len(a.argv) = (Argvs * q) + Args(v)
        BY <1>4, <2>1, <3>1 DEF ArgvInv
      <3>3. ASSUME a.init = clock.ticket_now
            PROVE  \E q \in 0..Len(a.argv) : Len(a.argv) = (Argvs * q) + 0
        <4>1. Args(v) = Argvs
          <5>1. v.step \in Nat /\ v.step <= Sites + Argvs + 1
            BY <1>3, <1>4 DEF StepInv
          <5>2. v.step - Sites - 1 = Argvs /\ v.step > Sites
            BY <3>1, <5>1, ScriptAssumption
          <5>3. QED
            BY <1>3, <5>2 DEF Args
        <4>2. PICK q \in 0..Len(a.argv) : Len(a.argv) = (Argvs * q) + Argvs
          BY <3>2, <3>3, <4>1
        <4>3. Argvs \in Nat /\ Len(a.argv) \in Nat /\ q \in Nat
          BY <2>2, <4>2, ScriptAssumption
        <4>4. CASE Argvs = 0
          BY <4>2, <4>3, <4>4
        <4>5. CASE Argvs # 0
          <5>1. PICK m, p : m = Len(a.argv) /\ p = Argvs * q
            OBVIOUS
          <5>2. p \in Nat /\ p >= q
            BY <4>3, <4>5, <5>1
          <5>3. m = p + Argvs /\ m \in Nat
            BY <4>2, <4>3, <5>1
          <5>4. q + 1 \in 0..m
            BY <4>3, <4>5, <5>2, <5>3
          <5>5. Argvs * (q + 1) = p + Argvs
            BY <4>3, <5>1
          <5>6. m = (Argvs * (q + 1)) + 0
            BY <5>3, <5>5
          <5>7. QED
            BY <5>1, <5>4, <5>6
        <4>6. QED
          BY <4>4, <4>5
      <3>4. QED
        BY <3>2, <3>3
    <2>6. QED
      BY <2>1, <2>2, <2>3, <2>4, <2>5 DEF ArgvInv
  <1>9. kept' = [kept EXCEPT ![w] = kept[w]] /\ wrote' = [wrote EXCEPT ![w] = wrote[w]]
    BY ThreadIs DEF Runs
  <1>10. /\ ConfigInv(cfg, plan)' /\ MoneyInv(money, cfg.symbols)'
         /\ UNCHANGED <<plan, clock>> /\ cfg' = cfg /\ Memory(kept[w])
    BY DEF Runs, KeptIInv
  <1>11. QED
    BY <1>2, <1>6, <1>7, <1>8, <1>9, <1>10, OneThread

-----------------------------------------------------------------------------
(* The clock, main and the FIX thread. *)

\* A step of the clock, after which no thread has another row or another place than
\* those that it may have by then.
LEMMA ClockStep ==
    ASSUME KeptIInv, ClockInv(clock)', Given(clock) <= Given(clock'),
           clock.ticket_now <= clock'.ticket_now,
           UNCHANGED <<plan, cfg, money, kept, wrote, thread>>
    PROVE  KeptIInv'
  <1>1. /\ Given(clock) \in Nat /\ Given(clock') \in Nat
        /\ clock.ticket_now \in Nat /\ clock'.ticket_now \in Nat
    BY DEF KeptIInv, ClockInv, Given
  <1>2. ASSUME NEW w \in Pool
        PROVE  /\ PlaceInv(thread[w], plan, cfg.ok, Given(clock'))
               /\ ArgvInv(thread[w], kept[w], clock'.ticket_now)
    BY <1>1, ThreadIs, PlaceLater, ArgvLater
  <1>3. QED
    BY <1>2 DEF KeptIInv

LEMMA PushRowStep ==
    ASSUME KeptIInv, PushRow
    PROVE  KeptIInv'
  <1>1. PICK r, n, c, a, t : clock = [rows |-> r, now |-> n, count |-> c, at |-> a,
                                      ticket_now |-> t]
    BY DEF KeptIInv, ClockInv
  <1>2. clock' = [rows |-> r, now |-> n + 1, count |-> c, at |-> a, ticket_now |-> t]
    BY ONLY <1>1, PushRow DEF PushRow
  <1>3. ClockInv(clock) /\ n \in Nat /\ t \in Nat
    BY <1>1 DEF KeptIInv, ClockInv
  <1>4. ClockInv(clock')
    BY ONLY <1>1, <1>2, <1>3 DEF ClockInv, Given
  <1>5. Given(clock) = Given(clock') /\ Given(clock) \in Nat
    BY ONLY <1>1, <1>2, <1>3 DEF Given, ClockInv
  <1>6. UNCHANGED <<plan, cfg, money, kept, wrote, thread>>
    BY DEF PushRow
  <1>7. Given(clock) <= Given(clock') /\ clock.ticket_now <= clock'.ticket_now
    BY <1>1, <1>2, <1>3, <1>5
  <1>8. QED
    BY <1>4, <1>6, <1>7, ClockStep

LEMMA CountRowStep ==
    ASSUME KeptIInv, CountRow
    PROVE  KeptIInv'
  <1>1. PICK r, n, c, a, t : clock = [rows |-> r, now |-> n, count |-> c, at |-> a,
                                      ticket_now |-> t]
    BY DEF KeptIInv, ClockInv
  <1>2. clock' = [rows |-> r + 1, now |-> n, count |-> c, at |-> a, ticket_now |-> t]
    BY ONLY <1>1, CountRow DEF CountRow
  <1>3. ClockInv(clock) /\ r \in Nat /\ t \in Nat /\ n > r
    BY <1>1 DEF KeptIInv, ClockInv, CountRow
  <1>4. ClockInv(clock')
    BY ONLY <1>1, <1>2, <1>3 DEF ClockInv, Given
  <1>5. Given(clock) = Given(clock') /\ Given(clock) \in Nat
    BY ONLY <1>1, <1>2, <1>3 DEF Given, ClockInv
  <1>6. UNCHANGED <<plan, cfg, money, kept, wrote, thread>>
    BY DEF CountRow
  <1>7. Given(clock) <= Given(clock') /\ clock.ticket_now <= clock'.ticket_now
    BY <1>1, <1>2, <1>3, <1>5
  <1>8. QED
    BY <1>4, <1>6, <1>7, ClockStep

\* The row is stamped with the newest time, after it has been given to the threads.
LEMMA StampedStep ==
    ASSUME KeptIInv, Stamped
    PROVE  KeptIInv'
  <1>1. PICK r, n, c, a, t : clock = [rows |-> r, now |-> n, count |-> c, at |-> a,
                                      ticket_now |-> t]
    BY DEF KeptIInv, ClockInv
  <1>2. /\ clock' = [rows |-> r, now |-> n, count |-> c + 1, at |-> "look",
                     ticket_now |-> n]
        /\ a = "emitted"
    BY ONLY <1>1, Stamped DEF Stamped
  <1>3. ClockInv(clock)
    BY DEF KeptIInv
  <1>4. c \in Nat /\ r \in Nat /\ n \in Nat /\ t \in Nat /\ t <= n /\ r <= n /\ c + 1 <= r
    BY ONLY <1>1, <1>2, <1>3 DEF ClockInv, Given
  <1>5. ClockInv(clock')
    BY ONLY <1>2, <1>4 DEF ClockInv, Given
  <1>6. Given(clock) = c + 1 /\ Given(clock') = c + 1
    BY ONLY <1>1, <1>2 DEF Given
  <1>7. UNCHANGED <<plan, cfg, money, kept, wrote, thread>>
    BY DEF Stamped
  <1>8. Given(clock) <= Given(clock') /\ clock.ticket_now <= clock'.ticket_now
    BY <1>1, <1>2, <1>4, <1>6
  <1>9. QED
    BY <1>5, <1>7, <1>8, ClockStep

\* The row that is given is the one after those that are done.
LEMMA EmitRowStep ==
    ASSUME KeptIInv, EmitRow
    PROVE  KeptIInv'
  <1>1. PICK r, n, c, a, t : clock = [rows |-> r, now |-> n, count |-> c, at |-> a,
                                      ticket_now |-> t]
    BY DEF KeptIInv, ClockInv
  <1>2. /\ clock' = [rows |-> r, now |-> n, count |-> c, at |-> "emitted", ticket_now |-> t]
        /\ a = "look" /\ c < r
    BY ONLY <1>1, EmitRow DEF EmitRow
  <1>3. ClockInv(clock)
    BY DEF KeptIInv
  <1>4. c \in Nat /\ r \in Nat /\ n \in Nat /\ t \in Nat /\ t <= n /\ r <= n /\ c <= t
    BY ONLY <1>1, <1>2, <1>3 DEF ClockInv, Given
  <1>5. ClockInv(clock')
    BY ONLY <1>2, <1>4 DEF ClockInv, Given
  <1>6. Given(clock) = c /\ Given(clock') = c + 1 /\ clock'.ticket_now = clock.ticket_now
    BY ONLY <1>1, <1>2 DEF Given
  <1>7. UNCHANGED <<plan, cfg, money, kept, wrote>>
    BY DEF EmitRow
  <1>8. ASSUME NEW w \in Pool
        PROVE  /\ PlaceInv(thread'[w], plan, cfg.ok, c + 1)
               /\ SilkInv(thread'[w], kept[w], wrote[w])
               /\ ArgvInv(thread'[w], kept[w], clock.ticket_now)
    <2>1. PICK v, q, u : /\ v = thread[w] /\ q = Append(v.queue, c + 1)
                         /\ u = [v EXCEPT !.queue = q]
      OBVIOUS
    <2>2. /\ PlaceInv(v, plan, cfg.ok, c + 1) /\ Slot(v) /\ StepInv(v, plan)
          /\ OnceInv(v, cfg.ok) /\ Fetched(v)
          /\ SilkInv(v, kept[w], wrote[w]) /\ ArgvInv(v, kept[w], clock.ticket_now)
      <3>1. c + 1 \in Nat /\ c <= c + 1
        BY <1>4
      <3>2. QED
        BY <1>4, <1>6, <2>1, <3>1, ThreadIs, PlaceLater
    <2>3. CASE v.at = "none"
      <3>1. thread'[w] = v
        BY <2>1, <2>3 DEF EmitRow
      <3>2. QED
        BY <2>2, <3>1
    <2>4. CASE v.at # "none"
      <3>1. thread'[w] = u
        BY <1>1, <2>1, <2>4 DEF EmitRow
      <3>2. /\ Slot(u) /\ u.at = v.at /\ u.queue = q /\ u.row = v.row
            /\ u.step = v.step /\ u.post = v.post /\ u.read = v.read /\ u.last = v.last
            /\ u.configured = v.configured /\ u.cut = v.cut
        BY ONLY <2>1, <2>2 DEF Slot, Fields
      <3>3. RowsInv(u, c + 1)
        <4>1. PICK p : p = v.queue
          OBVIOUS
        <4>2. p \in Seq(Nat) /\ \A i \in DOMAIN p : p[i] <= c + 1
          BY <2>2, <4>1 DEF PlaceInv, RowsInv
        <4>3. v.row \in Nat /\ v.row <= c + 1
          BY <2>2 DEF PlaceInv, RowsInv
        <4>4. PICK g : g = c + 1
          OBVIOUS
        <4>5. g \in Nat /\ q = Append(p, g) /\ g = c + 1
          BY <1>4, <2>1, <4>1, <4>4
        <4>6. q \in Seq(Nat) /\ \A i \in DOMAIN q : q[i] <= g
          <5>1. p \in Seq(Nat) /\ \A i \in DOMAIN p : p[i] <= g
            BY <4>2, <4>4
          <5>2. q \in Seq(Nat) /\ Len(q) = Len(p) + 1 /\ q[Len(q)] = g
                /\ \A i \in 1..Len(p) : q[i] = p[i]
            BY ONLY <4>5, <5>1
          <5>3. QED
            BY ONLY <4>5, <5>1, <5>2
        <4>7. QED
          BY <3>2, <4>3, <4>5, <4>6 DEF RowsInv
      <3>4. StepInv(u, plan)
        BY ONLY <2>2, <3>2 DEF StepInv
      <3>5. OnceInv(u, cfg.ok) /\ Fetched(u)
        BY ONLY <2>2, <3>2 DEF OnceInv, Fetched
      <3>6. SilkInv(u, kept[w], wrote[w])
        BY ONLY <2>2, <3>2 DEF SilkInv
      <3>7. Args(u) = Args(v)
        BY <3>2 DEF Args
      <3>8. ArgvInv(u, kept[w], clock.ticket_now)
        BY ONLY <2>2, <3>2, <3>7 DEF ArgvInv
      <3>9. QED
        BY <3>1, <3>2, <3>3, <3>4, <3>5, <3>6, <3>8 DEF PlaceInv
    <2>5. QED
      BY <2>3, <2>4
  <1>9. thread' = [w \in Pool |-> thread'[w]]
    BY DEF EmitRow
  <1>10. QED
    BY <1>5, <1>6, <1>7, <1>8, <1>9 DEF KeptIInv

\* Settings that change before a thread is there, or that no thread depends on.
LEMMA SettingsStep ==
    ASSUME KeptIInv, ConfigInv(cfg, plan)', MoneyInv(money, cfg.symbols)',
           cfg'.ok = cfg.ok \/ cfg.ok = "none",
           UNCHANGED <<plan, clock, kept, wrote, thread>>
    PROVE  KeptIInv'
  <1>1. Given(clock) \in Nat /\ Given(clock) <= Given(clock)
    BY DEF KeptIInv, ClockInv, Given
  <1>2. ASSUME NEW w \in Pool PROVE PlaceInv(thread[w], plan, cfg'.ok, Given(clock))
    BY <1>1, ThreadIs, PlaceLater
  <1>3. QED
    BY <1>2 DEF KeptIInv

LEMMA ProgramInitStep ==
    ASSUME KeptIInv, ProgramInit
    PROVE  KeptIInv'
  <1>1. cfg.ok = "none" /\ Whole(cfg) /\ cfg.symbols \in BOOLEAN /\ ~cfg.symbols
    BY DEF KeptIInv, ConfigInv, ProgramInit, Whole, Shared
  <1>2. PICK c, d : c = Configured(cfg) /\ d = [c EXCEPT !.ok = "proc"]
    OBVIOUS
  <1>3. /\ Shared(c) /\ c.symbols = cfg.symbols
        /\ \A i \in DOMAIN plan : plan[i].num \in DOMAIN c.entries
    BY <1>1, <1>2, CallsAre, ConfiguredWhole DEF Whole
  <1>4. Shared(d) /\ d.ok = "proc" /\ d.symbols = cfg.symbols /\ d.entries = c.entries
    BY <1>2, <1>3, StateSet
  <1>5. cfg' = d /\ UNCHANGED <<plan, clock, kept, wrote, thread>>
    BY <1>2 DEF ProgramInit
  <1>6. ConfigInv(d, plan)
    BY <1>3, <1>4 DEF ConfigInv
  <1>7. MoneyInv(money', cfg.symbols)
    <2>1. PICK b, o, g, h, i : money = [total |-> b, own |-> o, granted |-> g,
                                        thrown |-> h, again |-> i]
      BY DEF KeptIInv, MoneyInv, Purse
    <2>2. money' = [total |-> Asked, own |-> o, granted |-> g, thrown |-> h, again |-> i]
      <3>1. money' = [money EXCEPT !.total = Asked]
        BY DEF ProgramInit
      <3>2. QED
        BY ONLY <2>1, <3>1
    <2>3. g = -1 /\ i \in BOOLEAN /\ ~i
      BY <1>1, <2>1 DEF KeptIInv, MoneyInv
    <2>4. QED
      BY <2>2, <2>3 DEF MoneyInv, Purse
  <1>8. QED
    BY <1>1, <1>4, <1>5, <1>6, <1>7, SettingsStep

LEMMA MassQuoteStep ==
    ASSUME KeptIInv, MassQuote
    PROVE  KeptIInv'
  <1>1. PICK k, s, f, l, e, z : cfg = [ok |-> k, symbols |-> s, tf |-> f, left |-> l,
                                       entries |-> e, tsize |-> z]
    BY DEF KeptIInv, ConfigInv, Shared, Settings
  <1>2. cfg' = [ok |-> k, symbols |-> TRUE, tf |-> f, left |-> l,
                entries |-> e, tsize |-> z]
    <2>1. cfg' = [cfg EXCEPT !.symbols = TRUE]
      BY DEF MassQuote
    <2>2. QED
      BY ONLY <1>1, <2>1
  <1>3. cfg.ok # "none" /\ UNCHANGED <<plan, money, clock, kept, wrote, thread>>
    BY DEF MassQuote
  <1>4. ConfigInv(cfg, plan) /\ MoneyInv(money, cfg.symbols)
    BY DEF KeptIInv
  <1>5. Shared(cfg')
    BY <1>1, <1>2, <1>4 DEF ConfigInv, Shared, Settings
  <1>6. ConfigInv(cfg', plan)
    BY <1>1, <1>2, <1>3, <1>4, <1>5 DEF ConfigInv
  <1>7. cfg'.symbols = TRUE /\ cfg'.ok = cfg.ok
    BY <1>1, <1>2
  <1>8. MoneyInv(money, cfg'.symbols)
    BY <1>4, <1>7 DEF MoneyInv
  <1>9. QED
    BY <1>3, <1>6, <1>7, <1>8, SettingsStep

LEMMA QuoteResponseStep ==
    ASSUME KeptIInv, NEW granted \in Grants, QuoteResponse(granted)
    PROVE  KeptIInv'
  <1> DEFINE all == 0..cfg.tsize - 1
             served == {n \in all : \A k \in 0..n : k \in DOMAIN cfg.entries}
  <1>1. PICK q, h, s : /\ q = [n \in served |-> (granted * cfg.entries[n]) \div 100]
                       /\ h = (served # all) /\ s = granted - SumFunctionOnSet(q, DOMAIN q)
    OBVIOUS
  <1>2. PICK b, o, g, j, i : money = [total |-> b, own |-> o, granted |-> g,
                                      thrown |-> j, again |-> i]
    BY DEF KeptIInv, MoneyInv, Purse
  <1>3. money' = [total |-> s, own |-> q, granted |-> granted, thrown |-> h, again |-> i]
    <2>1. money' = [[[[money EXCEPT !.granted = granted] EXCEPT !.own = q]
                        EXCEPT !.total = s] EXCEPT !.thrown = h]
      BY <1>1 DEF QuoteResponse, SumFunction
    <2>2. QED
      BY ONLY <1>2, <2>1
  <1>4. g = -1 /\ i \in BOOLEAN /\ ~i
    BY <1>2 DEF KeptIInv, MoneyInv, QuoteResponse
  <1>5. cfg.symbols /\ UNCHANGED <<plan, cfg, clock, kept, wrote, thread>>
    BY DEF QuoteResponse
  <1>6. granted # -1
    BY ScriptAssumption
  <1>7. MoneyInv(money', cfg.symbols)
    BY <1>1, <1>3, <1>4, <1>5, <1>6 DEF MoneyInv, Purse
  <1>8. QED
    BY <1>5, <1>7, SettingsStep DEF KeptIInv

-----------------------------------------------------------------------------
(* What scripts can rely on. *)

LEMMA ScriptStarts == ScriptInit => KeptIInv
  <1> SUFFICES ASSUME ScriptInit PROVE KeptIInv
    OBVIOUS
  <1>1. PICK e : e = [n \in {} |-> 0]
    OBVIOUS
  <1>2. DOMAIN e = {} /\ IsFiniteSet(DOMAIN e) /\ SumFunctionOnSet(e, DOMAIN e) = 0
    <2>1. DOMAIN e = {}
      BY <1>1
    <2>2. QED
      BY <2>1, FS_EmptySet, SumEmpty
  <1>3. cfg = [ok |-> "none", symbols |-> FALSE, tf |-> << >>, left |-> 100,
               entries |-> e, tsize |-> 0]
    BY <1>1 DEF ScriptInit
  <1>4. Whole(cfg)
    <2>1. e = [n \in DOMAIN e |-> e[n]]
      BY <1>1
    <2>2. Shared(cfg)
      BY <1>2, <1>3, <2>1 DEF Shared, Settings
    <2>3. QED
      BY <1>2, <1>3, <2>2 DEF Whole
  <1>5. ConfigInv(cfg, plan)
    BY <1>3, <1>4 DEF ConfigInv, Whole
  <1>6. MoneyInv(money, cfg.symbols)
    BY DEF ScriptInit, MoneyInv, Purse
  <1>7. ClockInv(clock) /\ Given(clock) = 0 /\ clock.ticket_now = 0
    BY DEF ScriptInit, ClockInv, Given
  <1>8. ASSUME NEW w \in Pool
        PROVE  /\ PlaceInv(thread[w], plan, cfg.ok, 0) /\ Memory(kept[w])
               /\ SilkInv(thread[w], kept[w], wrote[w]) /\ ArgvInv(thread[w], kept[w], 0)
    <2>1. PICK t : t = thread[w]
      OBVIOUS
    <2>2. t = NotStarted
      BY <2>1 DEF ScriptInit
    <2>3. /\ t.at = "none" /\ t.queue = << >> /\ t.row = 0 /\ t.step = 0 /\ t.post = 0
          /\ t.read = Absent /\ t.last = Absent /\ t.configured = 0 /\ t.cut = FALSE
          /\ Slot(t)
      BY <2>2 DEF NotStarted, Slot, Fields
    <2>4. RowsInv(t, 0) /\ Fetched(t)
      BY <2>3 DEF RowsInv, Fetched
    <2>5. StepInv(t, plan)
      <3>1. 0 <= Sites + Argvs + 1
        BY ScriptAssumption
      <3>2. QED
        BY <2>3, <3>1 DEF StepInv, Rounds
    <2>6. OnceInv(t, cfg.ok)
      BY <2>3 DEF OnceInv
    <2>7. PICK k, m : k = kept[w] /\ m = [i \in {} |-> Absent]
      OBVIOUS
    <2>8. k = [id |-> 0, silk |-> m, analse |-> Undeclared] /\ DOMAIN m = {}
      BY <2>7 DEF ScriptInit
    <2>9. Memory(k) /\ k.id = 0 /\ k.silk = m /\ k.analse.init = -1 /\ k.analse.argv = << >>
      BY <2>8 DEF Memory, Undeclared
    <2>10. wrote[w] = [s \in 1..Sites |-> Absent]
      BY DEF ScriptInit
    <2>11. SilkInv(t, k, wrote[w])
      <3>1. 0 \in 0..Sites /\ ~Early(t.at) /\ t.at # "store"
        BY <2>3, ScriptAssumption DEF Early
      <3>2. QED
        BY <2>8, <2>9, <2>10, <3>1 DEF SilkInv
    <2>12. ArgvInv(t, k, 0)
      <3>1. -1 \in Int /\ -1 <= 0 /\ -1 # 0
        OBVIOUS
      <3>2. t.cut \in BOOLEAN
        BY <2>3
      <3>3. << >> \in Seq(Nat) /\ DOMAIN << >> = {}
        OBVIOUS
      <3>4. QED
        BY ONLY <2>9, <3>1, <3>2, <3>3 DEF ArgvInv
    <2>13. QED
      BY <2>1, <2>3, <2>4, <2>5, <2>6, <2>7, <2>9, <2>11, <2>12 DEF PlaceInv
  <1>9. /\ thread = [w \in Pool |-> thread[w]]
        /\ kept = [w \in Pool |-> kept[w]] /\ wrote = [w \in Pool |-> wrote[w]]
        /\ plan \in Plans
    BY DEF ScriptInit
  <1>10. QED
    BY <1>5, <1>6, <1>7, <1>8, <1>9 DEF KeptIInv

LEMMA ScriptSteps == KeptIInv /\ [ScriptNext]_scriptVars => KeptIInv'
  <1> SUFFICES ASSUME KeptIInv, [ScriptNext]_scriptVars PROVE KeptIInv'
    OBVIOUS
  <1>1. CASE ProgramInit
    BY <1>1, ProgramInitStep
  <1>2. CASE MassQuote
    BY <1>2, MassQuoteStep
  <1>3. CASE \E g \in Grants : QuoteResponse(g)
    BY <1>3, QuoteResponseStep
  <1>4. CASE PushRow
    BY <1>4, PushRowStep
  <1>5. CASE CountRow
    BY <1>5, CountRowStep
  <1>6. CASE EmitRow
    BY <1>6, EmitRowStep
  <1>7. CASE Stamped
    BY <1>7, StampedStep
  <1>8. ASSUME NEW w \in Pool, JobInit(w) \/ StartRow(w) \/ IsInit(w) \/ InitOk(w)
        PROVE  KeptIInv'
    BY <1>8, JobInitStep, StartRowStep, IsInitStep, InitOkStep
  <1>9. ASSUME NEW w \in Pool,
               ThreadPosition(w) \/ Analse(w) \/ Store(w) \/ AnalseArgv(w) \/ Runs(w)
        PROVE  KeptIInv'
    BY <1>9, ThreadPositionStep, AnalseStep, StoreStep, AnalseArgvStep, RunsStep
  <1>10. CASE UNCHANGED scriptVars
    BY <1>10 DEF scriptVars, KeptIInv
  <1>11. QED
    BY <1>1, <1>2, <1>3, <1>4, <1>5, <1>6, <1>7, <1>8, <1>9, <1>10 DEF ScriptNext

LEMMA ScriptFollows == KeptIInv => ScriptInv
  <1> SUFFICES ASSUME KeptIInv PROVE ScriptInv
    OBVIOUS
  <1>1. /\ Shared(cfg) /\ ConfigInv(cfg, plan) /\ MoneyInv(money, cfg.symbols)
        /\ ClockInv(clock)
    BY DEF KeptIInv, ConfigInv
  <1>2. ScriptTypeOK
    <2>1. cfg.ok \in {"none", "proc", "ok"} /\ cfg.left \in Int /\ cfg.tsize \in Nat
      BY <1>1 DEF ConfigInv, Shared
    <2>2. Len(cfg.tf) <= 1
      <3>1. cfg.tf = << >> \/ cfg.tf = <<5>>
        BY <1>1 DEF Shared
      <3>2. Len(<< >>) = 0 /\ Len(<<5>>) = 1
        OBVIOUS
      <3>3. PICK n : n = Len(cfg.tf)
        OBVIOUS
      <3>4. n = 0 \/ n = 1
        BY ONLY <3>1, <3>2, <3>3
      <3>5. n <= 1
        BY ONLY <3>4
      <3>6. QED
        BY ONLY <3>3, <3>5
    <2>3. ASSUME NEW w \in Pool, NEW calls,
                 calls = IF thread[w].at \in {"clamp", "insert"} THEN Len(plan)
                         ELSE Sites + Argvs
          PROVE  thread[w].step \in 0..calls + 1 /\ kept[w].id \in 0..Sites
      <3>1. StepInv(thread[w], plan) /\ SilkInv(thread[w], kept[w], wrote[w])
        BY ThreadIs
      <3>2. kept[w].id \in 0..Sites /\ thread[w].step \in Nat
        BY <3>1 DEF StepInv, SilkInv
      <3>3. CASE thread[w].at \in {"clamp", "insert"}
        BY <2>3, <3>1, <3>2, <3>3, CallsAre DEF StepInv
      <3>4. CASE thread[w].at \notin {"clamp", "insert"}
        BY <2>3, <3>1, <3>2, <3>4, ScriptAssumption DEF StepInv
      <3>5. QED
        BY <3>2, <3>3, <3>4
    <2>4. QED
      BY <2>1, <2>2, <2>3 DEF ScriptTypeOK
  <1>3. PlacesKeepTheirs
    BY ThreadIs DEF PlacesKeepTheirs, Fetched
  <1>4. TimeKeepsUp
    <2>1. ASSUME NEW w \in Pool PROVE clock.ticket_now >= thread[w].row - 1
      <3>1. PICK c, n, g, r : /\ c = clock.count /\ n = clock.ticket_now
                              /\ g = Given(clock) /\ r = thread[w].row
        OBVIOUS
      <3>2. c \in Nat /\ n \in Nat /\ c <= n /\ g <= c + 1 /\ g \in Nat
        BY <1>1, <3>1 DEF ClockInv, Given
      <3>3. r \in Nat /\ r <= g
        BY <3>1, ThreadIs DEF RowsInv
      <3>4. QED
        BY <3>1, <3>2, <3>3
    <2>2. QED
      BY <2>1 DEF TimeKeepsUp
  <1>5. PositionsAddUp
    <2>1. ASSUME NEW w \in Pool PROVE thread[w].configured <= 1
      <3>1. thread[w].configured \in 0..1
        BY ThreadIs DEF OnceInv
      <3>2. QED
        BY <3>1
    <2>2. SumFunction(cfg.entries) <= 100
      BY <1>1 DEF Shared, SumFunction
    <2>3. \A n \in DOMAIN cfg.entries : cfg.entries[n] >= 0
      BY <1>1 DEF Shared
    <2>4. QED
      BY <2>1, <2>2, <2>3 DEF PositionsAddUp
  <1>6. CashAddsUp
    BY <1>1 DEF CashAddsUp, MoneyInv, SumFunction
  <1>7. ArgvInOrder
    BY ThreadIs DEF ArgvInOrder, ArgvInv
  <1>8. QED
    BY <1>2, <1>3, <1>4, <1>5, <1>6, <1>7 DEF ScriptInv

\* What the scripts of a node can rely on, for any number of threads, calls of
\* StoreId() and arguments, any feed and any positions that are not negative.
THEOREM ScriptsKeepTheirs == ScriptSpec => []ScriptInv
  <1>1. ScriptInit => KeptIInv
    BY ScriptStarts
  <1>2. KeptIInv /\ [ScriptNext]_scriptVars => KeptIInv'
    BY ScriptSteps
  <1>3. KeptIInv => ScriptInv
    BY ScriptFollows
  <1>4. QED
    BY <1>1, <1>2, <1>3, PTL DEF ScriptSpec

-----------------------------------------------------------------------------
(* Reading bars while they are written: the bars of a frame are numbered from 1,   *)
(* and bar g is in row (g - 1) % Rows.                                             *)

OfBars == {"start", "open", "high", "low", "close", "volume"}
CellFields == {"frame", "data", "writing", "tail", "writed", "total"}
ColumnFields == {"at", "m", "time", "price", "row", "bar", "k", "fresh"}
Cells == DOMAIN CellFrames

RowOf(g) == (g - 1) % Rows
BarOf(m, g) == cells[m].data[RowOf(g)]
StartOf(m, g) == BarOf(m, g).start

\* The slave writes a bar of the frame; a new one; has counted its row.
On(m) == slave.at \in {"column", "writing", "writed"} /\ slave.m = m
NewOn(m) == On(m) /\ slave.fresh
Counted(m) == slave.at = "writed" /\ slave.m = m

\* The bars that have a start, and those that are given up.
Begun(m) ==
    IF NewOn(m) /\ (slave.at = "column" => slave.k > 1)
    THEN cells[m].total + 1 ELSE cells[m].total
Gone(m) ==
    LET n == (IF NewOn(m) THEN cells[m].total + 1 ELSE cells[m].total) - Rows
    IN  IF n < 0 THEN 0 ELSE n

SlaveShape ==
    \/ slave = [at |-> "idle"]
    \/ /\ slave = [at |-> "cell", m |-> slave.m, time |-> slave.time,
                   price |-> slave.price]
       /\ slave.m \in Cells
    \/ /\ slave = [f \in ColumnFields |-> slave[f]]
       /\ slave.at \in {"column", "writing", "writed"}
       /\ slave.m \in Cells /\ slave.k \in 1..6 /\ slave.fresh \in BOOLEAN
       /\ slave.bar = [c \in OfBars |-> slave.bar[c]]
       /\ slave.at # "column" => slave.fresh

CellShape(m) ==
    /\ cells[m] = [f \in CellFields |-> cells[m][f]]
    /\ cells[m].frame = CellFrames[m]
    /\ cells[m].data = [r \in 0..Rows - 1 |-> cells[m].data[r]]
    /\ \A r \in 0..Rows - 1 :
          cells[m].data[r] = [c \in OfBars |-> cells[m].data[r][c]]

Indices(m) ==
    /\ cells[m].total \in Nat
    /\ cells[m].writing = (IF Counted(m) THEN cells[m].total + 1 ELSE cells[m].total) % Rows
    /\ cells[m].writed = IF cells[m].total = 0 THEN 0 ELSE RowOf(cells[m].total)
    /\ cells[m].tail = Gone(m) % Rows
    /\ Begun(m) = 0 => cells[m].data[0].start = 0
    /\ cells[m].total > 0 \/ On(m) => CellFrames[m] >= Source

\* What is written of the bar, and where.
Writes(m) ==
    On(m) =>
        /\ slave.row = RowOf(IF slave.fresh THEN cells[m].total + 1 ELSE cells[m].total)
        /\ ~slave.fresh => cells[m].total > 0
        /\ \A i \in 1..6 : (slave.at = "column" => i < slave.k) =>
              cells[m].data[slave.row][Columns[i]] = slave.bar[Columns[i]]

TicksShape ==
    /\ setup.onOpen \in BOOLEAN
    /\ ticks \in Seq([came : Times, time : Stamps, price : Prices])
    /\ \A i \in 1..Len(ticks) :
          ticks[i].time = IF setup.onOpen THEN ticks[i].came - Source ELSE ticks[i].came
    /\ \A i, j \in 1..Len(ticks) : i < j => ticks[i].came <= ticks[j].came
    /\ slave.at # "idle" =>
          /\ Len(ticks) > 0
          /\ slave.time = ticks[Len(ticks)].time /\ slave.price = ticks[Len(ticks)].price

\* When the bar of a tick starts.
StartAt(m, i) == startTime(CellFrames[m], ticks[i].time)

StartsRise(m) ==
    /\ \A g \in 1..Begun(m) : g > Begun(m) - Rows => StartOf(m, g) \in Nat \ {0}
    /\ \A g, h \in 1..Begun(m) :
          g > Begun(m) - Rows /\ g < h => StartOf(m, g) < StartOf(m, h)
    /\ Begun(m) > 0 =>
          Len(ticks) > 0 /\ StartOf(m, Begun(m)) <= StartAt(m, Len(ticks))
    /\ On(m) =>
          /\ slave.bar.start \in Nat \ {0}
          /\ slave.bar.start <= StartAt(m, Len(ticks))
          /\ slave.fresh => slave.bar.start = StartAt(m, Len(ticks))
          /\ slave.fresh /\ cells[m].total > 0 =>
                StartOf(m, cells[m].total) < slave.bar.start
          /\ ~slave.fresh => StartOf(m, cells[m].total) <= slave.bar.start

-----------------------------------------------------------------------------
OfBar(m, s, n) == {i \in 1..n : StartAt(m, i) = s}

SummaryTo(m, s, n) ==
    LET of == OfBar(m, s, n)
        prices == {ticks[i].price : i \in of}
    IN  [start |-> s, open |-> ticks[Min(of)].price, high |-> Max(prices),
         low |-> Min(prices), close |-> ticks[Max(of)].price,
         volume |-> IF setup.append THEN Cardinality(of) ELSE 1]

\* A bar is what the first n ticks make of the newest one.
Shows(m, bar, n) ==
    /\ bar = SummaryTo(m, bar.start, n)
    /\ OfBar(m, bar.start, n) # {}
    /\ \A i \in 1..n : StartAt(m, i) <= bar.start

Seen(m) == IF slave.at # "idle" /\ slave.m <= m THEN Len(ticks) - 1 ELSE Len(ticks)

Holds(m) ==
    /\ cells[m].total = 0 => Seen(m) = 0
    /\ \A g \in 1..cells[m].total - 1 :
          g > Gone(m) => /\ BarOf(m, g) = SummaryTo(m, StartOf(m, g), Len(ticks))
                         /\ OfBar(m, StartOf(m, g), Len(ticks)) # {}
    /\ cells[m].total > 0 /\ ~(On(m) /\ ~slave.fresh) =>
          Shows(m, BarOf(m, cells[m].total), Seen(m))
    /\ On(m) => Shows(m, slave.bar, Len(ticks))
    /\ On(m) /\ ~slave.fresh => StartOf(m, cells[m].total) = slave.bar.start

-----------------------------------------------------------------------------
CallFields == {"at", "m", "shift", "asked"}

JobShape ==
    \/ job = [at |-> "idle"]
    \/ /\ job = [f \in CallFields \cup
                    (IF job.at = "now" THEN {"tail"}
                     ELSE IF job.at = "copy" THEN {"row", "bar", "k"}
                     ELSE IF job.at = "read" THEN {"bar"} ELSE {}) |-> job[f]]
       /\ job.at \in {"count", "tail", "now", "locate", "copy", "read", "refused"}
       /\ job.m \in Cells /\ job.shift \in 0..Rows - 1
       /\ job.asked = [total |-> job.asked.total, start |-> job.asked.start]
       /\ job.asked.total \in Nat /\ job.asked.total <= cells[job.m].total
       /\ job.at = "copy" => job.k \in 1..6
       /\ job.at \in {"copy", "read"} => job.bar = [c \in OfBars |-> job.bar[c]]

RefusedRightly ==
    job.at = "refused" /\ job.shift < job.asked.total =>
        \/ cells[job.m].total >= Rows
        \/ slave.at = "writed" /\ slave.m = job.m /\ cells[job.m].writing = 0

TailIsOld ==
    job.at = "now" => \E n \in Nat : job.tail = n % Rows /\ n <= Gone(job.m)

NotEmpty ==
    job.at \in {"now", "locate"} => cells[job.m].total > 0 \/ Counted(job.m)

WithinBars ==
    job.at = "locate" => job.shift = 0 \/ job.shift < cells[job.m].total

\* The job reads bar g.
Reads(g) ==
    /\ g >= job.asked.total - job.shift
    /\ job.shift > 0 => g < cells[job.m].total
    /\ job.at = "copy" => job.row = RowOf(g)
    /\ job.shift > 0 /\ cells[job.m].total - job.asked.total + job.shift + 1 < Rows =>
          \A i \in 1..6 : (job.at = "copy" => i < job.k) =>
              job.bar[Columns[i]] = BarOf(job.m, g)[Columns[i]]

ReadsSome == job.at \in {"copy", "read"} => \E g \in 1..Begun(job.m) : Reads(g)

\* No bar from the one asked for on starts before it.
NoOlder ==
    job.at # "idle" =>
        /\ job.asked.start \in Nat
        /\ Begun(job.m) = 0 => job.asked.start = 0
        /\ \A g \in 1..Begun(job.m) :
              g > Begun(job.m) - Rows /\ g >= job.asked.total - job.shift =>
                  StartOf(job.m, g) >= job.asked.start
        /\ job.at = "read" \/ (job.at = "copy" /\ job.k > 1) =>
              job.bar.start >= job.asked.start

SlaveInv == SlaveShape /\ TicksShape

CellInv ==
    /\ cells = [m \in Cells |-> cells[m]]
    /\ \A m \in Cells : CellShape(m) /\ Indices(m) /\ Writes(m)

StartInv == InHours => \A m \in Cells : StartsRise(m)

HoldInv ==
    InHours /\ NeverHalted => \A m \in Cells : CellFrames[m] >= Source => Holds(m)

JobInv ==
    /\ JobShape /\ RefusedRightly /\ TailIsOld /\ NotEmpty /\ WithinBars /\ ReadsSome

OlderInv == InHours => NoOlder

BarsIInv == SlaveInv /\ CellInv /\ StartInv /\ HoldInv /\ JobInv /\ OlderInv

-----------------------------------------------------------------------------
(* Rows. *)

LEMMA RowsAre == Rows \in Nat /\ Rows >= 2 /\ Rows \in Nat \ {0}
  BY BarsAssumption

LEMMA RowRange ==
    ASSUME NEW g \in Nat, g > 0
    PROVE  RowOf(g) \in 0..Rows - 1
  <1>1. g - 1 \in Nat
    OBVIOUS
  <1>2. QED
    BY <1>1, RowsAre, DivMod DEF RowOf

LEMMA RowsDiffer ==
    ASSUME NEW g \in Nat, NEW h \in Nat, 0 < g, g < h, h - g < Rows
    PROVE  RowOf(g) # RowOf(h)
  <1>1. PICK a, b : a = g - 1 /\ b = h - 1
    OBVIOUS
  <1>2. a \in Nat /\ b \in Nat /\ a < b /\ b - a < Rows
    BY <1>1, RowsAre
  <1>3. a % Rows # b % Rows
    BY <1>2, RowsAre, DistinctRows
  <1>4. QED
    BY <1>1, <1>3 DEF RowOf

\* The row of a bar that is so many bars older.
LEMMA OlderRow ==
    ASSUME NEW t \in Nat, NEW shift \in 0..Rows - 1, shift < t
    PROVE  Older(RowOf(t), shift) = RowOf(t - shift)
  <1>1. PICK w, v : w = t - 1 /\ v = t - shift - 1
    OBVIOUS
  <1>2. w \in Nat /\ v \in Nat /\ w = v + shift /\ shift \in Nat
    BY <1>1, RowsAre
  <1>3. PICK p, r : p = w \div Rows /\ r = w % Rows
    OBVIOUS
  <1>4. PICK q, s : q = v \div Rows /\ s = v % Rows
    OBVIOUS
  <1>5. /\ p \in Int /\ r \in 0..Rows - 1 /\ w = Rows * p + r
        /\ q \in Int /\ s \in 0..Rows - 1 /\ v = Rows * q + s
    BY <1>2, <1>3, <1>4, RowsAre, DivMod
  <1>6. PICK c : c = q - p + 1
    OBVIOUS
  <1>7. c \in Int /\ Rows * c = Rows * q - Rows * p + Rows
    BY <1>5, <1>6, RowsAre
  <1>8. PICK n : n = Rows - shift + r
    OBVIOUS
  <1>9. n \in Nat /\ n = Rows * c + s
    <2>1. Rows * p \in Int /\ Rows * q \in Int
      BY <1>5, RowsAre
    <2>2. QED
      BY <1>2, <1>5, <1>7, <1>8, <2>1, RowsAre
  <1>10. n % Rows = s
    BY <1>5, <1>7, <1>9, RowsAre, ModUnique
  <1>11. Older(RowOf(t), shift) = n % Rows
    BY <1>1, <1>3, <1>8 DEF Older, RowOf
  <1>12. RowOf(t - shift) = s
    BY <1>1, <1>4 DEF RowOf
  <1>13. QED
    BY <1>10, <1>11, <1>12

\* hash_row() of two rows is how far the bars are apart, modulo the rows.
LEMMA HashIs ==
    ASSUME NEW t \in Nat, NEW w \in Nat, t <= w
    PROVE  hash_row(t % Rows, w % Rows) = (w - t) % Rows
  <1>1. PICK v : v = w - t
    OBVIOUS
  <1>2. PICK p, r : p = w \div Rows /\ r = w % Rows
    OBVIOUS
  <1>3. PICK q, s : q = t \div Rows /\ s = t % Rows
    OBVIOUS
  <1>4. /\ p \in Int /\ r \in 0..Rows - 1 /\ w = Rows * p + r
        /\ q \in Int /\ s \in 0..Rows - 1 /\ t = Rows * q + s
        /\ v \in Nat /\ Rows * p \in Int /\ Rows * q \in Int
    BY <1>1, <1>2, <1>3, RowsAre, DivMod
  <1>5. CASE r < s
    <2>1. PICK c : c = p - q - 1
      OBVIOUS
    <2>2. c \in Int /\ Rows * c = Rows * p - Rows * q - Rows
      BY <1>4, <2>1, RowsAre
    <2>3. Rows - s + r \in 0..Rows - 1 /\ v = Rows * c + (Rows - s + r)
      BY <1>1, <1>4, <1>5, <2>2, RowsAre
    <2>4. v % Rows = Rows - s + r
      BY <1>4, <2>2, <2>3, RowsAre, ModUnique
    <2>5. QED
      BY <1>1, <1>2, <1>3, <1>5, <2>4 DEF hash_row
  <1>6. CASE ~(r < s)
    <2>1. PICK c : c = p - q
      OBVIOUS
    <2>2. c \in Int /\ Rows * c = Rows * p - Rows * q
      BY <1>4, <2>1, RowsAre
    <2>3. r - s \in 0..Rows - 1 /\ v = Rows * c + (r - s)
      BY <1>1, <1>4, <1>6, <2>2, RowsAre
    <2>4. v % Rows = r - s
      BY <1>4, <2>2, <2>3, RowsAre, ModUnique
    <2>5. QED
      BY <1>1, <1>2, <1>3, <1>6, <2>4 DEF hash_row
  <1>7. QED
    BY <1>5, <1>6

LEMMA RowsSame ==
    ASSUME NEW n \in Nat
    PROVE  n % Rows <= n /\ n % Rows \in 0..Rows - 1 /\ (n < Rows => n % Rows = n)
  <1>1. n % Rows \in 0..Rows - 1 /\ n \div Rows \in Int /\ n = Rows * (n \div Rows) + (n % Rows)
    BY RowsAre, DivMod
  <1>2. n < Rows => n % Rows = n
    BY RowsAre, ModSmall
  <1>3. QED
    BY <1>1, <1>2, RowsAre

-----------------------------------------------------------------------------
(* Frames. *)

LEMMA FramesAre ==
    /\ CellFrames \in Seq(TimeFrames) /\ Len(CellFrames) \in Nat \ {0}
    /\ Cells = 1..Len(CellFrames) /\ Source \in Int
    /\ \A m \in Cells : CellFrames[m] \in Int
  <1>1. Frames \in Seq(TimeFrames) /\ Source \in TimeFrames
    BY BarsAssumption
  <1>2. \A f \in TimeFrames : f \in Int
    BY DEF TimeFrames
  <1>3. CASE \E n \in DOMAIN Frames : Frames[n] = Source
    <2>1. CellFrames = Frames
      BY <1>3 DEF CellFrames
    <2>2. Len(Frames) \in Nat \ {0} /\ DOMAIN Frames = 1..Len(Frames)
      BY <1>1, <1>3
    <2>3. \A m \in DOMAIN Frames : Frames[m] \in TimeFrames
      BY <1>1
    <2>4. QED
      BY <1>1, <1>2, <2>1, <2>2, <2>3 DEF Cells
  <1>4. CASE ~\E n \in DOMAIN Frames : Frames[n] = Source
    <2>1. PICK s : s = Append(Frames, Source)
      OBVIOUS
    <2>2. CellFrames = s
      BY <1>4, <2>1 DEF CellFrames
    <2>3. s \in Seq(TimeFrames) /\ Len(s) = Len(Frames) + 1 /\ Len(Frames) \in Nat
      BY <1>1, <2>1
    <2>4. DOMAIN s = 1..Len(s) /\ \A m \in DOMAIN s : s[m] \in TimeFrames
      BY <2>3
    <2>5. QED
      BY <1>1, <1>2, <2>2, <2>3, <2>4 DEF Cells
  <1>5. QED
    BY <1>3, <1>4

LEMMA FieldsAre == OfBars = {Columns[k] : k \in DOMAIN Columns} /\ DOMAIN Columns = 1..6
  <1>1. DOMAIN Columns = 1..6
    BY DEF Columns
  <1>2. \A k \in 1..6 : k = 1 \/ k = 2 \/ k = 3 \/ k = 4 \/ k = 5 \/ k = 6
    OBVIOUS
  <1>3. /\ Columns[1] = "start" /\ Columns[2] = "open" /\ Columns[3] = "high"
        /\ Columns[4] = "low" /\ Columns[5] = "close" /\ Columns[6] = "volume"
    BY DEF Columns
  <1>4. {Columns[k] : k \in 1..6} \subseteq OfBars
    BY <1>2, <1>3 DEF OfBars
  <1>5. OfBars \subseteq {Columns[k] : k \in 1..6}
    BY <1>3 DEF OfBars
  <1>6. QED
    BY <1>1, <1>4, <1>5

LEMMA ColumnsDiffer ==
    /\ \A i \in 1..6 : Columns[i] \in OfBars
    /\ \A i, j \in 1..6 : Columns[i] = Columns[j] => i = j
    /\ \A c \in OfBars : \E i \in 1..6 : Columns[i] = c
    /\ Columns[1] = "start" /\ Len(Columns) = 6
  <1>2. \A k \in 1..6 : k = 1 \/ k = 2 \/ k = 3 \/ k = 4 \/ k = 5 \/ k = 6
    OBVIOUS
  <1>3. /\ Columns[1] = "start" /\ Columns[2] = "open" /\ Columns[3] = "high"
        /\ Columns[4] = "low" /\ Columns[5] = "close" /\ Columns[6] = "volume"
        /\ Len(Columns) = 6
    BY DEF Columns
  <1>4. \A i, j \in 1..6 : Columns[i] = Columns[j] => i = j
    BY <1>2, <1>3
  <1>5. \A i \in 1..6 : Columns[i] \in OfBars
    BY FieldsAre
  <1>6. \A c \in OfBars : \E i \in 1..6 : Columns[i] = c
    BY FieldsAre
  <1>7. QED
    BY <1>3, <1>4, <1>5, <1>6

LEMMA NoBarIs == NoBar = [c \in OfBars |-> 0]
  BY FieldsAre DEF NoBar
-----------------------------------------------------------------------------
(* The invariant holds at the start. *)

LEMMA BarsStart == BarsInit => BarsIInv
  <1> SUFFICES ASSUME BarsInit PROVE BarsIInv
    OBVIOUS
  <1>1. slave = [at |-> "idle"] /\ job = [at |-> "idle"] /\ ticks = << >>
    BY DEF BarsInit
  <1>2. slave.at = "idle" /\ job.at = "idle" /\ Len(ticks) = 0
    BY <1>1
  <1>3. SlaveInv
    <2>1. setup.onOpen \in BOOLEAN
      <3>1. setup.onOpen \in OnOpens
        BY DEF BarsInit
      <3>2. QED
        BY <3>1, BarsAssumption
    <2>2. ticks \in Seq([came : Times, time : Stamps, price : Prices])
      BY <1>1
    <2>3. QED
      BY <1>1, <1>2, <2>1, <2>2 DEF SlaveInv, SlaveShape, TicksShape
  <1>4. cells = [m \in Cells |->
                  [frame |-> CellFrames[m], data |-> [r \in 0..Rows - 1 |-> NoBar],
                   writing |-> 0, tail |-> 0, writed |-> 0, total |-> 0]]
    BY DEF BarsInit, Cells
  <1>5. \A m \in Cells : ~On(m) /\ ~NewOn(m) /\ ~Counted(m)
    BY <1>2 DEF On, NewOn, Counted
  <1>6. ASSUME NEW m \in Cells
        PROVE  CellShape(m) /\ Indices(m) /\ Writes(m) /\ StartsRise(m) /\ Holds(m)
    <2>1. cells[m] = [frame |-> CellFrames[m], data |-> [r \in 0..Rows - 1 |-> NoBar],
                      writing |-> 0, tail |-> 0, writed |-> 0, total |-> 0]
      BY <1>4
    <2>2. /\ cells[m].frame = CellFrames[m] /\ cells[m].writing = 0
          /\ cells[m].tail = 0 /\ cells[m].writed = 0 /\ cells[m].total = 0
          /\ cells[m].data = [r \in 0..Rows - 1 |-> NoBar]
      BY <2>1
    <2>3. CellShape(m)
      <3>1. cells[m] = [f \in CellFields |-> cells[m][f]]
        BY <2>1 DEF CellFields
      <3>2. QED
        BY <2>2, <3>1, NoBarIs DEF CellShape
    <2>4. Begun(m) = 0 /\ Gone(m) = 0
      BY <1>5, <2>2, RowsAre DEF Begun, Gone
    <2>5. 0 % Rows = 0
      BY RowsAre
    <2>6. cells[m].data[0].start = 0
      <3>1. 0 \in 0..Rows - 1
        BY RowsAre
      <3>2. cells[m].data[0] = NoBar
        BY <2>2, <3>1
      <3>3. QED
        BY <3>2, NoBarIs DEF OfBars
    <2>7. Indices(m)
      BY <1>5, <2>2, <2>4, <2>5, <2>6 DEF Indices
    <2>8. Writes(m)
      BY <1>5 DEF Writes
    <2>9. StartsRise(m)
      BY <1>5, <2>4 DEF StartsRise
    <2>10. Holds(m)
      BY <1>2, <1>5, <2>2 DEF Holds, Seen
    <2>11. QED
      BY <2>3, <2>7, <2>8, <2>9, <2>10
  <1>7. CellInv /\ StartInv /\ HoldInv
    BY <1>4, <1>6 DEF CellInv, StartInv, HoldInv
  <1>8. JobInv /\ OlderInv
    BY <1>1, <1>2 DEF JobInv, OlderInv, JobShape, RefusedRightly, TailIsOld, NotEmpty,
                      WithinBars, ReadsSome, NoOlder
  <1>9. QED
    BY <1>3, <1>7, <1>8 DEF BarsIInv

-----------------------------------------------------------------------------
(* The steps of the job. *)

\* What a step of the job leaves alone.
LEMMA JobLeavesAlone ==
    ASSUME BarsIInv, UNCHANGED <<setup, cells, slave, ticks>>
    PROVE  SlaveInv' /\ CellInv' /\ StartInv' /\ HoldInv'
  <1>1. SlaveInv /\ CellInv /\ StartInv /\ HoldInv
    BY DEF BarsIInv
  <1>2. SlaveInv'
    BY <1>1 DEF SlaveInv, SlaveShape, TicksShape
  <1>3. \A m \in Cells : /\ On(m)' = On(m) /\ NewOn(m)' = NewOn(m)
                         /\ Counted(m)' = Counted(m) /\ Begun(m)' = Begun(m)
                         /\ Gone(m)' = Gone(m) /\ Seen(m)' = Seen(m)
    BY DEF On, NewOn, Counted, Begun, Gone, Seen
  <1>4. CellInv'
    <2>1. ASSUME NEW m \in Cells PROVE (CellShape(m) /\ Indices(m) /\ Writes(m))'
      <3>1. CellShape(m) /\ Indices(m) /\ Writes(m)
        BY <1>1 DEF CellInv
      <3>2. QED
        BY <1>3, <3>1 DEF CellShape, Indices, Writes
    <2>2. QED
      BY <1>1, <2>1 DEF CellInv
  <1>5. InHours' = InHours /\ NeverHalted' = NeverHalted
    BY DEF InHours, NeverHalted
  <1>6. StartInv'
    <2>1. ASSUME NEW m \in Cells, StartsRise(m) PROVE StartsRise(m)'
      BY <1>3, <2>1 DEF StartsRise, StartOf, BarOf, StartAt
    <2>2. QED
      BY <1>1, <1>5, <2>1 DEF StartInv
  <1>7. HoldInv'
    <2>1. ASSUME NEW m \in Cells, Holds(m) PROVE Holds(m)'
      <3>1. ASSUME NEW z, NEW n PROVE SummaryTo(m, z, n)' = SummaryTo(m, z, n)
        BY DEF SummaryTo, OfBar, StartAt
      <3>2. ASSUME NEW bar, NEW n PROVE Shows(m, bar, n)' = Shows(m, bar, n)
        BY <3>1 DEF Shows, OfBar, StartAt
      <3>3. \A g : BarOf(m, g)' = BarOf(m, g) /\ StartOf(m, g)' = StartOf(m, g)
        BY DEF StartOf, BarOf
      <3>4. ASSUME NEW z, NEW n PROVE OfBar(m, z, n)' = OfBar(m, z, n)
        BY DEF OfBar, StartAt
      <3>5. QED
        BY <1>3, <2>1, <3>1, <3>2, <3>3, <3>4 DEF Holds
    <2>2. QED
      BY <1>1, <1>5, <2>1 DEF HoldInv
  <1>8. QED
    BY <1>2, <1>4, <1>6, <1>7

LEMMA CellIs ==
    ASSUME CellInv, NEW m \in Cells
    PROVE  CellShape(m) /\ Indices(m) /\ Writes(m)
  BY DEF CellInv

\* How many bars there are, have begun and are given up.
LEMMA CountsAre ==
    ASSUME CellInv, SlaveInv, NEW m \in Cells
    PROVE  /\ cells[m].total \in Nat /\ Begun(m) \in Nat /\ Gone(m) \in Nat
           /\ Begun(m) = cells[m].total \/ Begun(m) = cells[m].total + 1
           /\ Begun(m) - Rows <= Gone(m)
           /\ cells[m].total > 0 => Gone(m) < cells[m].total
           /\ cells[m].total - Rows <= Gone(m)
           /\ cells[m].total < Rows => Gone(m) = 0
           /\ Counted(m) => Begun(m) = cells[m].total + 1
  <1>1. PICK t : t = cells[m].total
    OBVIOUS
  <1>2. t \in Nat
    BY <1>1, CellIs DEF Indices
  <1>3. Begun(m) = t \/ (NewOn(m) /\ Begun(m) = t + 1)
    BY <1>1 DEF Begun
  <1>4. PICK n : n = IF NewOn(m) THEN t + 1 ELSE t
    OBVIOUS
  <1>5. n \in Nat /\ t <= n /\ n <= t + 1 /\ Begun(m) <= n
    BY <1>2, <1>3, <1>4
  <1>6. Gone(m) = IF n - Rows < 0 THEN 0 ELSE n - Rows
    BY <1>1, <1>4 DEF Gone
  <1>7. Counted(m) => Begun(m) = t + 1
    <2>1. SUFFICES ASSUME Counted(m) PROVE Begun(m) = t + 1
      OBVIOUS
    <2>2. slave.at = "writed" /\ slave.m = m
      BY <2>1 DEF Counted
    <2>3. slave.fresh
      BY <2>2 DEF SlaveInv, SlaveShape
    <2>4. QED
      BY <1>1, <2>2, <2>3 DEF Begun, NewOn, On
  <1>8. Begun(m) \in Nat /\ (Begun(m) = t \/ Begun(m) = t + 1)
    BY <1>2, <1>3
  <1>9. PICK b, g : b = Begun(m) /\ g = Gone(m)
    OBVIOUS
  <1>10. /\ g \in Nat /\ b - Rows <= g /\ (t > 0 => g < t) /\ t - Rows <= g
         /\ (t < Rows => g = 0)
    BY <1>2, <1>5, <1>6, <1>8, <1>9, RowsAre
  <1>11. QED
    BY <1>1, <1>2, <1>7, <1>8, <1>9, <1>10

\* How far the last bar is from the oldest that is kept.
LEMMA HashNow ==
    ASSUME CellInv, SlaveInv, NEW m \in Cells
    PROVE  hash_row(cells[m].tail, cells[m].writed) =
              IF cells[m].total = 0 THEN 0 ELSE cells[m].total - 1 - Gone(m)
  <1>1. PICK t, g : t = cells[m].total /\ g = Gone(m)
    OBVIOUS
  <1>2. /\ t \in Nat /\ g \in Nat /\ (t > 0 => g < t) /\ t - Rows <= g
        /\ (t < Rows => g = 0)
    BY <1>1, CountsAre
  <1>3. cells[m].tail = g % Rows /\ cells[m].writed = IF t = 0 THEN 0 ELSE (t - 1) % Rows
    BY <1>1, CellIs DEF Indices, RowOf
  <1>4. CASE t = 0
    <2>1. g = 0 /\ 0 % Rows = 0
      BY <1>2, <1>4, RowsAre
    <2>2. hash_row(0, 0) = 0
      BY DEF hash_row
    <2>3. QED
      BY <1>1, <1>3, <1>4, <2>1, <2>2
  <1>5. CASE t # 0
    <2>1. PICK w, d : w = t - 1 /\ d = w - g
      OBVIOUS
    <2>2. w \in Nat /\ g <= w /\ d \in Nat /\ d < Rows
      BY <1>2, <1>5, <2>1, RowsAre
    <2>3. hash_row(g % Rows, w % Rows) = (w - g) % Rows
      BY <1>2, <2>2, HashIs
    <2>4. d % Rows = d
      BY <2>2, RowsSame
    <2>5. QED
      BY <1>1, <1>3, <1>5, <2>1, <2>3, <2>4
  <1>6. QED
    BY <1>4, <1>5

LEMMA AskKeeps ==
    ASSUME BarsIInv, NEW m \in DOMAIN cells, NEW shift \in 0..Rows - 1, Ask(m, shift)
    PROVE  JobInv' /\ OlderInv'
  <1> USE DEF BarsIInv
  <1>1. m \in Cells /\ CellInv /\ SlaveInv
    BY DEF CellInv
  <1>2. PICK t, b, g : t = cells[m].total /\ b = Begun(m) /\ g = Gone(m)
    OBVIOUS
  <1>3. /\ t \in Nat /\ b \in Nat /\ g \in Nat /\ (b = t \/ b = t + 1) /\ b - Rows <= g
        /\ (t > 0 => g < t)
    BY <1>1, <1>2, CountsAre
  <1>4. PICK h : h = hash_row(cells[m].tail, cells[m].writed)
    OBVIOUS
  <1>5. h = IF t = 0 THEN 0 ELSE t - 1 - g
    BY <1>1, <1>2, <1>4, HashNow
  <1>6. PICK at, z : /\ at = (IF cells[m].writing # 0 THEN "count"
                              ELSE IF shift = 0 THEN "tail" ELSE "refused")
                     /\ z = (IF shift <= h THEN cells[m].data[Older(cells[m].writed, shift)].start
                             ELSE 0)
    OBVIOUS
  <1>7. /\ job' = [at |-> at, m |-> m, shift |-> shift, asked |-> [total |-> t, start |-> z]]
        /\ UNCHANGED <<setup, cells, slave, ticks>>
    BY <1>2, <1>4, <1>6 DEF Ask
  <1>8. /\ job'.at = at /\ job'.m = m /\ job'.shift = shift
        /\ job'.asked = [total |-> t, start |-> z]
        /\ job'.asked.total = t /\ job'.asked.start = z
        /\ at \in {"count", "tail", "refused"}
    BY <1>6, <1>7
  <1>9. JobShape'
    <2>1. job' = [f \in CallFields |-> job'[f]]
      BY <1>7 DEF CallFields
    <2>2. CallFields = CallFields \cup {}
      OBVIOUS
    <2>3. t <= cells[m].total
      BY <1>2, <1>3
    <2>4. QED
      BY <1>1, <1>3, <1>7, <1>8, <2>1, <2>2, <2>3 DEF JobShape
  <1>10. RefusedRightly'
    <2>1. SUFFICES ASSUME at = "refused", shift < t
                   PROVE  t >= Rows \/ (Counted(m) /\ cells[m].writing = 0)
      BY <1>2, <1>7, <1>8 DEF RefusedRightly, Counted
    <2>2. cells[m].writing = 0
      BY <1>6, <2>1
    <2>3. CASE ~Counted(m)
      <3>1. t % Rows = 0
        BY <1>1, <1>2, <2>2, <2>3, CellIs DEF Indices
      <3>2. t < Rows => t % Rows = t
        BY <1>3, RowsSame
      <3>3. QED
        BY <1>3, <2>1, <3>1, <3>2, RowsAre
    <2>4. QED
      BY <2>2, <2>3
  <1>11. TailIsOld' /\ NotEmpty' /\ WithinBars' /\ ReadsSome'
    BY <1>8 DEF TailIsOld, NotEmpty, WithinBars, ReadsSome
  <1>12. OlderInv'
    <2>1. SUFFICES ASSUME InHours PROVE NoOlder'
      BY <1>7 DEF OlderInv, InHours
    <2>2. StartsRise(m)
      BY <1>1, <2>1 DEF StartInv
    <2>3. SUFFICES /\ z \in Nat /\ (b = 0 => z = 0)
                   /\ \A n \in 1..b : n > b - Rows /\ n >= t - shift => StartOf(m, n) >= z
      <3>1. Begun(m)' = b /\ \A n : StartOf(m, n)' = StartOf(m, n)
        BY <1>2, <1>7 DEF Begun, NewOn, On, StartOf, BarOf
      <3>2. QED
        BY <1>8, <2>3, <3>1 DEF NoOlder
    <2>4. \A n \in 1..b : n > b - Rows => StartOf(m, n) \in Nat
      BY <1>2, <2>2 DEF StartsRise
    <2>5. CASE ~(shift <= h)
      <3>1. z = 0
        BY <1>6, <2>5
      <3>2. QED
        BY <2>4, <3>1
    <2>6. CASE shift <= h /\ t = 0
      <3>1. shift = 0
        BY <1>5, <2>6
      <3>2. cells[m].writed = 0 /\ (b = 0 => cells[m].data[0].start = 0)
        BY <1>1, <1>2, <2>6, CellIs DEF Indices
      <3>3. Older(0, 0) = 0 /\ RowOf(1) = 0
        BY RowsAre DEF Older, RowOf
      <3>4. z = cells[m].data[0].start /\ StartOf(m, 1) = z
        BY <1>6, <2>6, <3>1, <3>2, <3>3 DEF StartOf, BarOf
      <3>5. CASE b = 0
        BY <3>2, <3>4, <3>5
      <3>6. CASE b = 1
        <4>1. z \in Nat
          BY <2>4, <3>4, <3>6, RowsAre
        <4>2. \A n \in 1..b : n = 1
          BY <3>6
        <4>3. QED
          BY <3>4, <3>6, <4>1, <4>2
      <3>7. QED
        BY <1>3, <2>6, <3>5, <3>6, RowsAre
    <2>7. CASE shift <= h /\ t # 0
      <3>1. PICK n : n = t - shift
        OBVIOUS
      <3>2. /\ n \in Nat /\ n > 0 /\ shift < t /\ n <= t /\ n > b - Rows /\ n \in 1..b
        BY <1>3, <1>5, <2>7, <3>1, RowsAre
      <3>3. cells[m].writed = RowOf(t)
        BY <1>1, <1>2, <2>7, CellIs DEF Indices
      <3>4. Older(cells[m].writed, shift) = RowOf(n)
        BY <1>3, <3>1, <3>2, <3>3, OlderRow
      <3>5. z = StartOf(m, n)
        BY <1>6, <2>7, <3>4 DEF StartOf, BarOf
      <3>6. z \in Nat
        BY <2>4, <3>2, <3>5
      <3>7. ASSUME NEW k \in 1..b, k > b - Rows, k >= n PROVE StartOf(m, k) >= z
        <4>1. CASE k = n
          BY <3>5, <3>6, <4>1
        <4>2. CASE n < k
          <5>1. StartOf(m, n) < StartOf(m, k)
            BY <1>2, <2>2, <3>2, <4>2 DEF StartsRise
          <5>2. StartOf(m, k) \in Nat
            BY <2>4, <3>7
          <5>3. QED
            BY <3>5, <3>6, <5>1, <5>2
        <4>3. QED
          BY <3>2, <3>7, <4>1, <4>2
      <3>8. b # 0
        BY <1>3, <2>7
      <3>9. QED
        BY <3>1, <3>6, <3>7, <3>8
    <2>8. QED
      BY <2>5, <2>6, <2>7
  <1>13. QED
    BY <1>9, <1>10, <1>11, <1>12 DEF JobInv

\* A step of the job that keeps nothing but what was asked.
LEMMA CallKeeps ==
    ASSUME BarsIInv, job.at # "idle", UNCHANGED <<setup, cells, slave, ticks>>,
           NEW x \in {"tail", "refused", "locate"},
           job' = [at |-> x, m |-> job.m, shift |-> job.shift, asked |-> job.asked],
           x = "refused" /\ job.shift < job.asked.total =>
              \/ cells[job.m].total >= Rows
              \/ slave.at = "writed" /\ slave.m = job.m /\ cells[job.m].writing = 0,
           x = "locate" => /\ cells[job.m].total > 0 \/ Counted(job.m)
                           /\ job.shift = 0 \/ job.shift < cells[job.m].total
    PROVE  JobInv' /\ OlderInv'
  <1>1. JobShape /\ OlderInv
    BY DEF BarsIInv, JobInv
  <1>2. /\ job'.at = x /\ job'.m = job.m /\ job'.shift = job.shift /\ job'.asked = job.asked
        /\ job' = [f \in CallFields |-> job'[f]] /\ CallFields = CallFields \cup {}
    BY DEF CallFields
  <1>3. JobShape'
    BY <1>1, <1>2 DEF JobShape
  <1>4. RefusedRightly' /\ TailIsOld' /\ ReadsSome'
    BY <1>2 DEF RefusedRightly, TailIsOld, ReadsSome
  <1>5. NotEmpty' /\ WithinBars'
    <2>1. Counted(job.m)' = Counted(job.m)
      BY <1>2 DEF Counted
    <2>2. QED
      BY <1>2, <2>1 DEF NotEmpty, WithinBars
  <1>6. OlderInv'
    <2>1. SUFFICES ASSUME InHours PROVE NoOlder'
      BY DEF OlderInv, InHours
    <2>2. NoOlder
      BY <1>1, <2>1 DEF OlderInv
    <2>3. Begun(job.m)' = Begun(job.m) /\ \A n : StartOf(job.m, n)' = StartOf(job.m, n)
      BY <1>2 DEF Begun, NewOn, On, StartOf, BarOf
    <2>4. QED
      BY <1>2, <2>2, <2>3 DEF NoOlder
  <1>7. QED
    BY <1>3, <1>4, <1>5, <1>6 DEF JobInv

\* What a job that has asked knows of the frame.
LEMMA AskedIs ==
    ASSUME BarsIInv, job.at # "idle"
    PROVE  /\ job.m \in Cells /\ job.shift \in 0..Rows - 1 /\ job.asked.total \in Nat
           /\ job.asked.total <= cells[job.m].total
           /\ cells[job.m].total \in Nat
           /\ cells[job.m].writed =
                 IF cells[job.m].total = 0 THEN 0 ELSE RowOf(cells[job.m].total)
           /\ cells[job.m].writing =
                 (IF Counted(job.m) THEN cells[job.m].total + 1 ELSE cells[job.m].total) % Rows
  <1>1. JobShape /\ job # [at |-> "idle"] /\ CellInv
    BY DEF BarsIInv, JobInv
  <1>2. /\ job.m \in Cells /\ job.shift \in 0..Rows - 1 /\ job.asked.total \in Nat
        /\ job.asked.total <= cells[job.m].total
    BY <1>1 DEF JobShape
  <1>3. QED
    BY <1>1, <1>2, CellIs DEF Indices

LEMMA CountKeeps ==
    ASSUME BarsIInv, CountWrited
    PROVE  JobInv' /\ OlderInv'
  <1>1. job.at = "count" /\ UNCHANGED <<setup, cells, slave, ticks>>
    BY DEF CountWrited
  <1>2. job = [f \in CallFields |-> job[f]]
    <2>1. CallFields \cup {} = CallFields
      OBVIOUS
    <2>2. QED
      BY <1>1, <2>1 DEF BarsIInv, JobInv, JobShape
  <1>3. PICK x : x = IF cells[job.m].writed >= job.shift THEN "tail" ELSE "refused"
    OBVIOUS
  <1>4. job' = [at |-> x, m |-> job.m, shift |-> job.shift, asked |-> job.asked]
    BY <1>2, <1>3 DEF CountWrited, Refused, CallFields
  <1>5. ASSUME x = "refused", job.shift < job.asked.total PROVE cells[job.m].total >= Rows
    <2>1. PICK t, h : t = cells[job.m].total /\ h = job.shift
      OBVIOUS
    <2>2. t \in Nat /\ h \in Nat /\ h < t /\ t > 0
      BY <1>1, <1>5, <2>1, AskedIs, RowsAre
    <2>3. cells[job.m].writed = (t - 1) % Rows
      BY <1>1, <2>1, <2>2, AskedIs DEF RowOf
    <2>4. PICK w : w = t - 1
      OBVIOUS
    <2>5. w \in Nat /\ (w < Rows => w % Rows = w)
      BY <2>2, <2>4, RowsSame
    <2>6. ~(w % Rows >= h)
      BY <1>3, <1>5, <2>1, <2>3, <2>4
    <2>7. QED
      BY <2>1, <2>2, <2>4, <2>5, <2>6, RowsAre
  <1>6. x \in {"tail", "refused", "locate"} /\ x # "locate"
    BY <1>3
  <1>7. QED
    BY <1>1, <1>4, <1>5, <1>6, CallKeeps

LEMMA LoadKeeps ==
    ASSUME BarsIInv, LoadTail
    PROVE  JobInv' /\ OlderInv'
  <1>1. job.at = "tail" /\ UNCHANGED <<setup, cells, slave, ticks>>
    BY DEF LoadTail
  <1>2. PICK t, m : t = cells[job.m].total /\ m = job.m
    OBVIOUS
  <1>3. /\ t \in Nat /\ m \in Cells /\ job.asked.total \in Nat /\ job.asked.total <= t
        /\ job.shift \in Nat
        /\ cells[m].writed = (IF t = 0 THEN 0 ELSE RowOf(t))
        /\ cells[m].writing = (IF Counted(m) THEN t + 1 ELSE t) % Rows
    BY <1>1, <1>2, AskedIs, RowsAre
  <1>4. CASE Empty(cells[job.m])
    <2>1. job' = [at |-> "refused", m |-> job.m, shift |-> job.shift, asked |-> job.asked]
      BY <1>4 DEF LoadTail, Refused
    <2>2. cells[m].writed = cells[m].writing
      BY <1>2, <1>4 DEF Empty
    <2>3. ASSUME job.shift < job.asked.total
          PROVE  \/ t >= Rows
                 \/ slave.at = "writed" /\ slave.m = m /\ cells[m].writing = 0
      <3>1. t > 0
        BY <1>3, <2>3
      <3>2. PICK w : w = t - 1
        OBVIOUS
      <3>3. w \in Nat /\ cells[m].writed = w % Rows /\ w < t /\ t - w < Rows
        BY <1>3, <3>1, <3>2, RowsAre DEF RowOf
      <3>4. w % Rows # t % Rows
        BY <1>3, <3>3, RowsAre, DistinctRows
      <3>5. Counted(m)
        BY <1>3, <2>2, <3>3, <3>4
      <3>6. PICK u : u = t + 1
        OBVIOUS
      <3>7. u \in Nat /\ cells[m].writing = u % Rows /\ (u < Rows => u % Rows = u)
        BY <1>3, <3>5, <3>6, RowsSame
      <3>8. w < Rows => w % Rows = w
        BY <3>3, RowsSame
      <3>9. CASE t < Rows
        <4>1. w < Rows
          BY <1>3, <3>2, <3>9, RowsAre
        <4>2. u = Rows
          BY <1>3, <2>2, <3>2, <3>3, <3>6, <3>7, <3>8, <3>9, <4>1, RowsAre
        <4>3. Rows % Rows = 0
          BY RowsAre
        <4>4. QED
          BY <3>5, <3>7, <4>2, <4>3 DEF Counted
      <3>10. QED
        BY <1>3, <3>9, RowsAre
    <2>4. QED
      BY <1>1, <1>2, <2>1, <2>3, CallKeeps
  <1>5. CASE ~Empty(cells[job.m])
    <2>1. job' = [at |-> "now", m |-> job.m, shift |-> job.shift,
                  asked |-> job.asked, tail |-> cells[job.m].tail]
      BY <1>5 DEF LoadTail
    <2>2. /\ job'.at = "now" /\ job'.m = job.m /\ job'.shift = job.shift
          /\ job'.asked = job.asked /\ job'.tail = cells[job.m].tail
          /\ job' = [f \in CallFields \cup {"tail"} |-> job'[f]]
      BY <2>1 DEF CallFields
    <2>3. JobShape'
      BY <1>1, <2>2 DEF BarsIInv, JobInv, JobShape
    <2>4. RefusedRightly' /\ WithinBars' /\ ReadsSome'
      BY <2>2 DEF RefusedRightly, WithinBars, ReadsSome
    <2>5. TailIsOld'
      <3>1. Gone(m) \in Nat
        BY <1>3, CountsAre DEF BarsIInv
      <3>2. cells[m].tail = Gone(m) % Rows
        BY <1>3, CellIs DEF BarsIInv, Indices
      <3>3. Gone(m)' = Gone(m)
        BY <1>1 DEF Gone, NewOn, On
      <3>4. PICK n : n = Gone(m)
        OBVIOUS
      <3>5. n \in Nat /\ job'.tail = n % Rows /\ n <= Gone(m)'
        BY <1>2, <2>2, <3>1, <3>2, <3>3, <3>4
      <3>6. QED
        BY <1>2, <2>2, <3>5 DEF TailIsOld
    <2>6. NotEmpty'
      <3>1. t > 0 \/ Counted(m)
        <4>1. SUFFICES ASSUME t = 0, ~Counted(m) PROVE FALSE
          BY <1>3
        <4>2. cells[m].writed = 0 /\ cells[m].writing = 0 % Rows
          BY <1>3, <4>1
        <4>3. 0 % Rows = 0
          BY RowsAre
        <4>4. QED
          BY <1>2, <1>5, <4>2, <4>3 DEF Empty
      <3>2. Counted(m)' = Counted(m) /\ cells'[m].total = t
        BY <1>1, <1>2 DEF Counted
      <3>3. QED
        BY <1>2, <2>2, <3>1, <3>2 DEF NotEmpty
    <2>7. OlderInv'
      <3>1. SUFFICES ASSUME InHours PROVE NoOlder'
        BY <1>1 DEF OlderInv, InHours
      <3>2. NoOlder
        BY <3>1 DEF BarsIInv, OlderInv
      <3>3. Begun(m)' = Begun(m) /\ \A n : StartOf(m, n)' = StartOf(m, n)
        BY <1>1 DEF Begun, NewOn, On, StartOf, BarOf
      <3>4. QED
        BY <1>1, <1>2, <2>2, <3>2, <3>3 DEF NoOlder
    <2>8. QED
      BY <2>3, <2>4, <2>5, <2>6, <2>7 DEF JobInv
  <1>6. QED
    BY <1>4, <1>5

LEMMA NowKeeps ==
    ASSUME BarsIInv, Now
    PROVE  JobInv' /\ OlderInv'
  <1>1. job.at = "now" /\ UNCHANGED <<setup, cells, slave, ticks>>
    BY DEF Now
  <1>2. PICK t, m, h : t = cells[job.m].total /\ m = job.m /\ h = job.shift
    OBVIOUS
  <1>3. /\ t \in Nat /\ m \in Cells /\ job.asked.total \in Nat /\ job.asked.total <= t
        /\ h \in 0..Rows - 1 /\ h \in Nat
        /\ cells[m].writed = IF t = 0 THEN 0 ELSE RowOf(t)
    BY <1>1, <1>2, AskedIs, RowsAre
  <1>4. PICK n \in Nat : job.tail = n % Rows /\ n <= Gone(m)
    BY <1>1, <1>2 DEF BarsIInv, JobInv, TailIsOld
  <1>5. PICK g : g = Gone(m)
    OBVIOUS
  <1>6. g \in Nat /\ n <= g /\ (t > 0 => g < t) /\ (t < Rows => g = 0)
    BY <1>2, <1>3, <1>4, <1>5, CountsAre DEF BarsIInv
  <1>7. PICK d : d = hash_row(job.tail, cells[m].writed)
    OBVIOUS
  <1>8. d \in Nat /\ (t = 0 => d = 0) /\ (t > 0 => d < t) /\ (0 < t /\ t < Rows => d = t - 1)
    <2>1. CASE t = 0
      <3>1. n = 0 /\ 0 % Rows = 0
        BY <1>6, <2>1, RowsAre
      <3>2. hash_row(0, 0) = 0
        BY DEF hash_row
      <3>3. d = 0
        BY <1>3, <1>4, <1>7, <2>1, <3>1, <3>2
      <3>4. QED
        BY <2>1, <3>3
    <2>2. CASE t # 0
      <3>1. PICK w, e : w = t - 1 /\ e = w - n
        OBVIOUS
      <3>2. w \in Nat /\ n <= w /\ e \in Nat /\ e < t /\ (t < Rows => e < Rows /\ e = t - 1)
        BY <1>3, <1>6, <2>2, <3>1, RowsAre
      <3>3. d = e % Rows
        BY <1>3, <1>4, <1>7, <2>2, <3>1, <3>2, HashIs DEF RowOf
      <3>4. e % Rows <= e /\ e % Rows \in 0..Rows - 1 /\ (e < Rows => e % Rows = e)
        BY <3>2, RowsSame
      <3>5. QED
        BY <1>3, <2>2, <3>2, <3>3, <3>4, RowsAre
    <2>3. QED
      BY <2>1, <2>2
  <1>9. PICK x : x = IF h > d THEN "refused" ELSE "locate"
    OBVIOUS
  <1>10. job' = [at |-> x, m |-> job.m, shift |-> job.shift, asked |-> job.asked]
    BY <1>2, <1>7, <1>9 DEF Now, Refused
  <1>11. ASSUME x = "refused", h < job.asked.total PROVE t >= Rows
    BY <1>3, <1>8, <1>9, <1>11, RowsAre
  <1>12. ASSUME x = "locate" PROVE (t > 0 \/ Counted(m)) /\ (h = 0 \/ h < t)
    <2>1. t > 0 \/ Counted(m)
      BY <1>1, <1>2 DEF BarsIInv, JobInv, NotEmpty
    <2>2. QED
      BY <1>3, <1>8, <1>9, <1>12, <2>1
  <1>13. QED
    BY <1>1, <1>2, <1>9, <1>10, <1>11, <1>12, CallKeeps

\* The job finds the row of a bar that is there.
LEMMA LocateKeeps ==
    ASSUME BarsIInv, Locate
    PROVE  JobInv' /\ OlderInv'
  <1>1. job.at = "locate" /\ UNCHANGED <<setup, cells, slave, ticks>>
    BY DEF Locate
  <1>2. PICK t, m, h, r : /\ t = cells[job.m].total /\ m = job.m /\ h = job.shift
                          /\ r = Older(cells[job.m].writed, job.shift)
    OBVIOUS
  <1>3. /\ t \in Nat /\ m \in Cells /\ job.asked.total \in Nat /\ job.asked.total <= t
        /\ h \in 0..Rows - 1 /\ h \in Nat
        /\ cells[m].writed = IF t = 0 THEN 0 ELSE RowOf(t)
    BY <1>1, <1>2, AskedIs, RowsAre
  <1>4. job' = [at |-> "copy", m |-> m, shift |-> h, asked |-> job.asked,
                row |-> r, bar |-> NoBar, k |-> 1]
    BY <1>2 DEF Locate
  <1>5. /\ job'.at = "copy" /\ job'.m = m /\ job'.shift = h /\ job'.asked = job.asked
        /\ job'.row = r /\ job'.bar = NoBar /\ job'.k = 1
        /\ job' = [f \in CallFields \cup {"row", "bar", "k"} |-> job'[f]]
    BY <1>4 DEF CallFields
  <1>6. (t > 0 \/ Counted(m)) /\ (h = 0 \/ h < t)
    BY <1>1, <1>2 DEF BarsIInv, JobInv, NotEmpty, WithinBars
  <1>7. /\ Begun(m) \in Nat /\ (Begun(m) = t \/ Begun(m) = t + 1)
        /\ (Counted(m) => Begun(m) = t + 1)
    BY <1>2, <1>3, CountsAre DEF BarsIInv
  <1>8. Begun(m)' = Begun(m) /\ \A n : StartOf(m, n)' = StartOf(m, n)
    BY <1>1 DEF Begun, NewOn, On, StartOf, BarOf
  <1>9. JobShape'
    <2>1. job'.bar = [c \in OfBars |-> job'.bar[c]]
      BY <1>5, NoBarIs
    <2>2. QED
      BY <1>1, <1>2, <1>5, <2>1 DEF BarsIInv, JobInv, JobShape
  <1>10. RefusedRightly' /\ TailIsOld' /\ NotEmpty' /\ WithinBars'
    BY <1>5 DEF RefusedRightly, TailIsOld, NotEmpty, WithinBars
  <1>11. PICK g : g = IF t = 0 THEN 1 ELSE t - h
    OBVIOUS
  <1>12. g \in 1..Begun(m) /\ g >= job.asked.total - h /\ (h > 0 => g < t)
    BY <1>3, <1>6, <1>7, <1>11
  <1>13. r = RowOf(g)
    <2>1. CASE t = 0
      <3>1. h = 0 /\ cells[m].writed = 0
        BY <1>3, <1>6, <2>1
      <3>2. Older(0, 0) = 0 /\ RowOf(1) = 0
        BY RowsAre DEF Older, RowOf
      <3>3. QED
        BY <1>2, <1>11, <2>1, <3>1, <3>2
    <2>2. CASE t # 0
      <3>1. h < t
        BY <1>3, <1>6, <2>2
      <3>2. Older(RowOf(t), h) = RowOf(t - h)
        BY <1>3, <3>1, OlderRow
      <3>3. QED
        BY <1>2, <1>3, <1>11, <2>2, <3>2
    <2>3. QED
      BY <2>1, <2>2
  <1>14. ReadsSome'
    <2>1. Reads(g)'
      <3>1. \A i \in 1..6 : ~(i < 1)
        OBVIOUS
      <3>2. cells'[m].total = t
        BY <1>1, <1>2
      <3>3. QED
        BY <1>5, <1>12, <1>13, <3>1, <3>2 DEF Reads
    <2>2. QED
      BY <1>5, <1>8, <1>12, <2>1 DEF ReadsSome
  <1>15. OlderInv'
    <2>1. SUFFICES ASSUME InHours PROVE NoOlder'
      BY <1>1 DEF OlderInv, InHours
    <2>2. NoOlder
      BY <2>1 DEF BarsIInv, OlderInv
    <2>3. QED
      BY <1>1, <1>2, <1>5, <1>8, <2>2 DEF NoOlder
  <1>16. QED
    BY <1>9, <1>10, <1>14, <1>15 DEF JobInv

\* Whatever row is read, the newest bar that is in it has begun no earlier.
LEMMA NewestInRow ==
    ASSUME NEW b \in Nat, NEW g \in 1..b
    PROVE  \E h \in 1..b : h > b - Rows /\ h >= g /\ RowOf(h) = RowOf(g)
  <1>1. PICK d : d = b - g
    OBVIOUS
  <1>2. d \in Nat /\ g \in Nat /\ g > 0
    BY <1>1
  <1>3. PICK q, r : q = d \div Rows /\ r = d % Rows
    OBVIOUS
  <1>4. q \in Int /\ r \in 0..Rows - 1 /\ d = Rows * q + r /\ r <= d /\ Rows * q \in Int
    <2>1. q \in Int /\ r \in 0..Rows - 1 /\ d = Rows * q + r
      BY <1>2, <1>3, RowsAre, DivMod
    <2>2. r <= d
      BY <1>2, <1>3, RowsSame
    <2>3. QED
      BY <2>1, <2>2, RowsAre
  <1>5. PICK h : h = b - r
    OBVIOUS
  <1>6. h \in 1..b /\ h > b - Rows /\ h >= g /\ h = g + Rows * q
    BY <1>1, <1>2, <1>4, <1>5, RowsAre
  <1>7. PICK u, v : u = g - 1 /\ v = h - 1
    OBVIOUS
  <1>8. u \in Nat /\ v \in Nat /\ v = u + Rows * q
    BY <1>2, <1>4, <1>6, <1>7
  <1>9. PICK c, s : c = u \div Rows /\ s = u % Rows
    OBVIOUS
  <1>10. c \in Int /\ s \in 0..Rows - 1 /\ u = Rows * c + s /\ Rows * c \in Int
    BY <1>8, <1>9, RowsAre, DivMod
  <1>11. PICK e : e = c + q
    OBVIOUS
  <1>12. e \in Int /\ Rows * e = Rows * c + Rows * q
    BY <1>4, <1>10, <1>11, RowsAre
  <1>13. v = Rows * e + s
    BY <1>4, <1>8, <1>10, <1>12
  <1>14. v % Rows = s
    BY <1>8, <1>10, <1>12, <1>13, RowsAre, ModUnique
  <1>15. RowOf(h) = RowOf(g)
    BY <1>7, <1>9, <1>14 DEF RowOf
  <1>16. QED
    BY <1>6, <1>15

LEMMA CopyKeeps ==
    ASSUME BarsIInv, Copy
    PROVE  JobInv' /\ OlderInv'
  <1>1. job.at = "copy" /\ UNCHANGED <<setup, cells, slave, ticks>>
    BY DEF Copy
  <1>2. PICK t, m, h, k, c, row : /\ t = cells[job.m].total /\ m = job.m /\ h = job.shift
                                  /\ k = job.k /\ c = Columns[job.k] /\ row = job.row
    OBVIOUS
  <1>3. PICK bar : bar = [job.bar EXCEPT ![c] = cells[m].data[row][c]]
    OBVIOUS
  <1>4. /\ job = [f \in CallFields \cup {"row", "bar", "k"} |-> job[f]]
        /\ k \in 1..6 /\ job.bar = [x \in OfBars |-> job.bar[x]]
        /\ job.asked = [total |-> job.asked.total, start |-> job.asked.start]
    BY <1>1, <1>2 DEF BarsIInv, JobInv, JobShape
  <1>5. /\ t \in Nat /\ m \in Cells /\ job.asked.total \in Nat /\ job.asked.total <= t
        /\ h \in 0..Rows - 1 /\ h \in Nat
    BY <1>1, <1>2, AskedIs, RowsAre
  <1>6. c \in OfBars /\ c = Columns[k] /\ Len(Columns) = 6
    BY <1>2, <1>4, ColumnsDiffer
  <1>7. /\ bar = [x \in OfBars |-> bar[x]] /\ bar[c] = cells[m].data[row][c]
        /\ \A x \in OfBars : x # c => bar[x] = job.bar[x]
    BY <1>3, <1>4, <1>6
  <1>8. /\ job'.m = m /\ job'.shift = h /\ job'.asked = job.asked /\ job'.bar = bar
        /\ \/ /\ job'.at = "copy" /\ k < 6 /\ job'.row = row /\ job'.k = k + 1
              /\ job' = [f \in CallFields \cup {"row", "bar", "k"} |-> job'[f]]
           \/ /\ job'.at = "read" /\ ~(k < 6)
              /\ job' = [f \in CallFields \cup {"bar"} |-> job'[f]]
    <2>1. CASE k < 6
      <3>1. job' = [job EXCEPT !.bar = bar, !.k = @ + 1]
        BY <1>2, <1>3, <1>6, <2>1 DEF Copy
      <3>2. PICK S : S = CallFields \cup {"row", "bar", "k"}
        OBVIOUS
      <3>3. job = [f \in S |-> job[f]] /\ {"at", "m", "shift", "asked", "row", "bar", "k"} \subseteq S
        BY <1>4, <3>2 DEF CallFields
      <3>4. job' = [f \in S |-> job'[f]]
        BY <3>1, <3>3
      <3>5. /\ job'.m = m /\ job'.shift = h /\ job'.asked = job.asked /\ job'.bar = bar
            /\ job'.at = "copy" /\ job'.row = row /\ job'.k = k + 1
        BY <1>1, <1>2, <3>1, <3>3
      <3>6. QED
        BY <2>1, <3>2, <3>4, <3>5
    <2>2. CASE ~(k < 6)
      <3>1. job' = [at |-> "read", m |-> job.m, shift |-> job.shift,
                    asked |-> job.asked, bar |-> bar]
        BY <1>2, <1>3, <1>6, <2>2 DEF Copy
      <3>2. QED
        BY <1>2, <2>2, <3>1 DEF CallFields
    <2>3. QED
      BY <2>1, <2>2
  <1>9. job'.at = "copy" => k < 6 /\ job'.k = k + 1 /\ job'.row = row
    BY <1>8
  <1>10. job'.at \in {"copy", "read"}
    BY <1>8
  <1>11. Begun(m)' = Begun(m) /\ \A n : /\ StartOf(m, n)' = StartOf(m, n)
                                        /\ BarOf(m, n)' = BarOf(m, n)
    BY <1>1 DEF Begun, NewOn, On, StartOf, BarOf
  <1>12. JobShape'
    <2>1. job'.at = "copy" => job'.k \in 1..6
      BY <1>4, <1>9
    <2>2. job'.bar = [x \in OfBars |-> job'.bar[x]]
      BY <1>7, <1>8
    <2>3. cells'[m].total = t
      BY <1>1, <1>2
    <2>4. job' = [f \in CallFields \cup
                    (IF job'.at = "now" THEN {"tail"}
                     ELSE IF job'.at = "copy" THEN {"row", "bar", "k"}
                     ELSE IF job'.at = "read" THEN {"bar"} ELSE {}) |-> job'[f]]
      BY <1>8
    <2>5. QED
      BY <1>4, <1>5, <1>8, <1>10, <2>1, <2>2, <2>3, <2>4 DEF JobShape
  <1>13. RefusedRightly' /\ TailIsOld' /\ NotEmpty' /\ WithinBars'
    BY <1>10 DEF RefusedRightly, TailIsOld, NotEmpty, WithinBars
  <1>14. PICK g \in 1..Begun(m) : Reads(g)
    BY <1>1, <1>2 DEF BarsIInv, JobInv, ReadsSome
  <1>15. row = RowOf(g)
    BY <1>1, <1>2, <1>14 DEF Reads
  <1>16. Reads(g)'
    <2>1. ASSUME h > 0, t - job.asked.total + h + 1 < Rows,
                 NEW i \in 1..6, job'.at = "copy" => i < job'.k
          PROVE  bar[Columns[i]] = BarOf(m, g)[Columns[i]]
      <3>1. CASE i = k
        BY <1>6, <1>7, <1>15, <3>1 DEF BarOf
      <3>2. CASE i # k
        <4>1. i < k
          <5>1. CASE job'.at = "copy"
            BY <1>4, <1>9, <2>1, <3>2, <5>1
          <5>2. CASE job'.at # "copy"
            BY <1>4, <1>8, <2>1, <3>2, <5>2
          <5>3. QED
            BY <5>1, <5>2
        <4>2. job.bar[Columns[i]] = BarOf(m, g)[Columns[i]]
          BY <1>1, <1>2, <1>14, <2>1, <4>1 DEF Reads
        <4>3. Columns[i] \in OfBars /\ Columns[i] # c
          BY <1>4, <1>6, <2>1, <3>2, ColumnsDiffer
        <4>4. QED
          BY <1>7, <4>2, <4>3
      <3>3. QED
        BY <3>1, <3>2
    <2>2. g >= job.asked.total - h /\ (h > 0 => g < t)
      BY <1>2, <1>14 DEF Reads
    <2>3. cells'[m].total = t
      BY <1>1, <1>2
    <2>4. QED
      BY <1>8, <1>9, <1>11, <1>15, <2>1, <2>2, <2>3 DEF Reads
  <1>17. ReadsSome'
    BY <1>8, <1>11, <1>16 DEF ReadsSome
  <1>18. OlderInv'
    <2>1. SUFFICES ASSUME InHours PROVE NoOlder'
      BY <1>1 DEF OlderInv, InHours
    <2>2. NoOlder /\ StartsRise(m)
      BY <1>5, <2>1 DEF BarsIInv, OlderInv, StartInv
    <2>3. bar.start >= job.asked.start
      <3>1. CASE k = 1
        <4>1. c = "start"
          BY <1>2, <3>1, ColumnsDiffer
        <4>2. bar.start = StartOf(m, g)
          BY <1>7, <1>15, <4>1 DEF StartOf, BarOf
        <4>3. Begun(m) \in Nat
          BY <1>5, CountsAre DEF BarsIInv
        <4>4. PICK n \in 1..Begun(m) : n > Begun(m) - Rows /\ n >= g /\ RowOf(n) = RowOf(g)
          BY <4>3, NewestInRow
        <4>5. g >= job.asked.total - h
          BY <1>2, <1>14 DEF Reads
        <4>6. n >= job.asked.total - h
          BY <1>5, <4>3, <4>4, <4>5
        <4>7. StartOf(m, n) >= job.asked.start
          BY <1>1, <1>2, <2>2, <4>4, <4>6 DEF NoOlder
        <4>8. StartOf(m, n) = StartOf(m, g)
          BY <4>4 DEF StartOf, BarOf
        <4>9. QED
          BY <4>2, <4>7, <4>8
      <3>2. CASE k # 1
        <4>1. job.bar.start >= job.asked.start
          BY <1>1, <1>2, <1>4, <2>2, <3>2 DEF NoOlder
        <4>2. c # "start"
          <5>1. 1 \in 1..6 /\ Columns[1] = "start"
            BY ColumnsDiffer
          <5>2. QED
            BY <1>4, <1>6, <3>2, <5>1, ColumnsDiffer
        <4>3. "start" \in OfBars
          BY DEF OfBars
        <4>4. QED
          BY <1>7, <4>1, <4>2, <4>3
      <3>3. QED
        BY <3>1, <3>2
    <2>4. QED
      BY <1>1, <1>2, <1>8, <1>11, <2>2, <2>3 DEF NoOlder
  <1>19. QED
    BY <1>12, <1>13, <1>17, <1>18 DEF JobInv

LEMMA JobSteps ==
    ASSUME BarsIInv,
           \/ \E m \in DOMAIN cells, shift \in 0..Rows - 1 : Ask(m, shift)
           \/ CountWrited \/ LoadTail \/ Now \/ Locate \/ Copy \/ Return
    PROVE  BarsIInv'
  <1>1. UNCHANGED <<setup, cells, slave, ticks>>
    BY DEF Ask, CountWrited, LoadTail, Now, Locate, Copy, Return
  <1>2. JobInv' /\ OlderInv'
    <2>1. ASSUME NEW m \in DOMAIN cells, NEW shift \in 0..Rows - 1, Ask(m, shift)
          PROVE  JobInv' /\ OlderInv'
      BY <2>1, AskKeeps
    <2>2. CASE Return
      <3>1. job' = [at |-> "idle"]
        BY <2>2 DEF Return
      <3>2. job'.at = "idle"
        BY <3>1
      <3>3. QED
        BY <3>1, <3>2 DEF JobInv, OlderInv, JobShape, RefusedRightly, TailIsOld, NotEmpty,
                          WithinBars, ReadsSome, NoOlder
    <2>3. QED
      BY <2>1, <2>2, CountKeeps, LoadKeeps, NowKeeps, LocateKeeps, CopyKeeps
  <1>3. QED
    BY <1>1, <1>2, JobLeavesAlone DEF BarsIInv
-----------------------------------------------------------------------------
(* The steps of the slave. *)

\* What the ticks make of a bar.

LEMMA StampsRise ==
    ASSUME TicksShape
    PROVE  /\ \A i \in 1..Len(ticks) : ticks[i].time \in Stamps /\ ticks[i].time \in Int
           /\ \A i, j \in 1..Len(ticks) : i <= j => ticks[i].time <= ticks[j].time
  <1>1. Times \subseteq Nat /\ Source \in Int
    BY BarsAssumption, FramesAre
  <1>2. \A z \in Stamps : z \in Int
    <2>1. \A t \in Times : t \in Int /\ t - Source \in Int
      BY <1>1
    <2>2. QED
      BY <2>1 DEF Stamps
  <1>3. \A i \in 1..Len(ticks) : ticks[i] \in [came : Times, time : Stamps, price : Prices]
    <2>1. ticks \in Seq([came : Times, time : Stamps, price : Prices])
      BY DEF TicksShape
    <2>2. PICK X : X = [came : Times, time : Stamps, price : Prices]
      OBVIOUS
    <2>3. \A i \in 1..Len(ticks) : ticks[i] \in X
      <3>1. ticks \in Seq(X)
        BY <2>1, <2>2
      <3>2. QED
        BY ONLY <3>1
    <2>4. QED
      BY <2>2, <2>3
  <1>4. \A i \in 1..Len(ticks) : ticks[i].time \in Stamps /\ ticks[i].came \in Nat
    BY <1>1, <1>3
  <1>5. ASSUME NEW i \in 1..Len(ticks), NEW j \in 1..Len(ticks), i <= j
        PROVE  ticks[i].time <= ticks[j].time
    <2>1. CASE i = j
      <3>1. ticks[i].time \in Int
        BY <1>2, <1>4
      <3>2. QED
        BY <2>1, <3>1
    <2>2. CASE i # j
      <3>1. ticks[i].came <= ticks[j].came
        BY <1>5, <2>2 DEF TicksShape
      <3>2. /\ ticks[i].time = IF setup.onOpen THEN ticks[i].came - Source ELSE ticks[i].came
            /\ ticks[j].time = IF setup.onOpen THEN ticks[j].came - Source ELSE ticks[j].came
        BY DEF TicksShape
      <3>3. ticks[i].came \in Nat /\ ticks[j].came \in Nat
        BY <1>4
      <3>4. QED
        BY <1>1, <3>1, <3>2, <3>3
    <2>3. QED
      BY <2>1, <2>2
  <1>6. QED
    BY <1>2, <1>4, <1>5

LEMMA ClockRises ==
    ASSUME TicksShape, InHours, NEW m \in Cells
    PROVE  /\ \A i \in 1..Len(ticks) : StartAt(m, i) \in Nat \ {0}
           /\ \A i, j \in 1..Len(ticks) : i <= j => StartAt(m, i) <= StartAt(m, j)
  <1>1. \A i \in 1..Len(ticks) : ticks[i].time \in {z \in Stamps : InWindow(z)}
    <2>1. DOMAIN ticks = 1..Len(ticks)
      BY DEF TicksShape
    <2>2. QED
      BY <2>1, StampsRise DEF InHours
  <1>2. QED
    BY <1>1, StampsRise, ClockAssumption DEF StartAt, Cells

\* The least and the greatest of some integers.
LEMMA MinIs ==
    ASSUME NEW S, S \subseteq Int, IsFiniteSet(S), S # {}
    PROVE  Min(S) \in S /\ \A x \in S : Min(S) <= x
  <1>1. \E m \in S : \A x \in S : m <= x
    BY LeastOfIntegers
  <1>2. QED
    BY <1>1 DEF Min

LEMMA MinIsThat ==
    ASSUME NEW S, S \subseteq Int, NEW m \in S, \A x \in S : m <= x
    PROVE  Min(S) = m
  <1>1. \E n \in S : \A x \in S : n <= x
    OBVIOUS
  <1>2. Min(S) \in S /\ \A x \in S : Min(S) <= x
    BY <1>1 DEF Min
  <1>3. Min(S) <= m /\ m <= Min(S) /\ m \in Int /\ Min(S) \in Int
    BY <1>2
  <1>4. QED
    BY <1>3

LEMMA MaxIsThat ==
    ASSUME NEW S, S \subseteq Int, NEW m \in S, \A x \in S : x <= m
    PROVE  Max(S) = m
  <1>1. \E n \in S : \A x \in S : n >= x
    <2>1. \A x \in S : m >= x
      <3>1. ASSUME NEW x \in S PROVE m >= x
        <4>1. x <= m /\ x \in Int /\ m \in Int
          OBVIOUS
        <4>2. QED
          BY <4>1
      <3>2. QED
        BY <3>1
    <2>2. QED
      BY <2>1
  <1>2. Max(S) \in S /\ \A x \in S : Max(S) >= x
    BY <1>1 DEF Max
  <1>3. Max(S) <= m /\ Max(S) >= m /\ m \in Int /\ Max(S) \in Int
    BY <1>2
  <1>4. QED
    BY <1>3

LEMMA MaxIs ==
    ASSUME NEW S, S \subseteq Int, IsFiniteSet(S), S # {}
    PROVE  Max(S) \in S /\ \A x \in S : x <= Max(S)
  <1>1. \A x \in S : x \in Int
    OBVIOUS
  <1>2. PICK T : T = {0 - x : x \in S}
    OBVIOUS
  <1>3. T \subseteq Int /\ T # {}
    <2>1. \A x \in S : 0 - x \in Int
      BY <1>1
    <2>2. QED
      BY <1>2, <2>1
  <1>4. IsFiniteSet(T)
    <2>1. PICK f : f = [x \in S |-> 0 - x]
      OBVIOUS
    <2>2. f \in Surjection(S, T)
      BY <1>2, <2>1 DEF Surjection
    <2>3. QED
      BY <2>2, FS_Surjection
  <1>5. PICK m \in T : \A x \in T : m <= x
    BY <1>3, <1>4, LeastOfIntegers
  <1>6. PICK n \in S : m = 0 - n
    BY <1>2
  <1>7. \A x \in S : x <= n
    <2>1. ASSUME NEW x \in S PROVE x <= n
      <3>1. 0 - x \in T
        BY <1>2
      <3>2. m <= 0 - x
        BY <1>5, <3>1
      <3>3. QED
        BY <1>1, <1>6, <3>2
    <2>2. QED
      BY <2>1
  <1>8. Max(S) = n
    BY <1>7, MaxIsThat
  <1>9. QED
    BY <1>7, <1>8

\* The ticks of a bar.
LEMMA TicksOfBar ==
    ASSUME NEW m, NEW z, NEW n \in Nat
    PROVE  /\ OfBar(m, z, n) \subseteq 1..n /\ OfBar(m, z, n) \subseteq Int
           /\ IsFiniteSet(OfBar(m, z, n)) /\ Cardinality(OfBar(m, z, n)) \in Nat
           /\ OfBar(m, z, n + 1) = IF StartAt(m, n + 1) = z THEN OfBar(m, z, n) \cup {n + 1}
                                   ELSE OfBar(m, z, n)
  <1>1. OfBar(m, z, n) \subseteq 1..n
    BY DEF OfBar
  <1>2. IsFiniteSet(1..n)
    BY FS_Interval
  <1>3. IsFiniteSet(OfBar(m, z, n))
    BY <1>1, <1>2, FS_Subset
  <1>4. Cardinality(OfBar(m, z, n)) \in Nat
    BY <1>3, FS_CardinalityType
  <1>5. 1..n + 1 = (1..n) \cup {n + 1}
    OBVIOUS
  <1>6. OfBar(m, z, n + 1) = IF StartAt(m, n + 1) = z THEN OfBar(m, z, n) \cup {n + 1}
                            ELSE OfBar(m, z, n)
    BY <1>5 DEF OfBar
  <1>7. \A i \in 1..n : i \in Int
    OBVIOUS
  <1>8. QED
    BY <1>1, <1>3, <1>4, <1>6, <1>7

\* With one tick more a bar stays, or grows as Updated() has it, or is opened.
LEMMA SummaryGrows ==
    ASSUME TicksShape, NEW m, NEW z, NEW n \in Nat, n < Len(ticks)
    PROVE  /\ StartAt(m, n + 1) # z => SummaryTo(m, z, n + 1) = SummaryTo(m, z, n)
           /\ StartAt(m, n + 1) = z /\ OfBar(m, z, n) # {} =>
                 SummaryTo(m, z, n + 1) = Updated(SummaryTo(m, z, n), ticks[n + 1].price)
           /\ StartAt(m, n + 1) = z /\ OfBar(m, z, n) = {} =>
                 SummaryTo(m, z, n + 1) = Opened(z, ticks[n + 1].price)
  <1>1. PICK of, all, e : /\ of = OfBar(m, z, n) /\ all = OfBar(m, z, n + 1)
                          /\ e = ticks[n + 1].price
    OBVIOUS
  <1>2. /\ of \subseteq 1..n /\ of \subseteq Int /\ IsFiniteSet(of) /\ Cardinality(of) \in Nat
        /\ all = IF StartAt(m, n + 1) = z THEN of \cup {n + 1} ELSE of
    BY <1>1, TicksOfBar
  <1>3. CASE StartAt(m, n + 1) # z
    BY <1>1, <1>2, <1>3 DEF SummaryTo
  <1>4. PICK P, Q : P = {ticks[i].price : i \in of} /\ Q = {ticks[i].price : i \in all}
    OBVIOUS
  <1>5. \A i \in 1..Len(ticks) : ticks[i].price \in Nat
    <2>1. PICK X : X = [came : Times, time : Stamps, price : Prices]
      OBVIOUS
    <2>2. ticks \in Seq(X)
      BY <2>1 DEF TicksShape
    <2>3. \A i \in 1..Len(ticks) : ticks[i] \in X
      BY ONLY <2>2
    <2>4. \A i \in 1..Len(ticks) : ticks[i].price \in Prices
      BY <2>1, <2>3
    <2>5. Prices \subseteq Nat
      BY BarsAssumption
    <2>6. QED
      BY <2>4, <2>5
  <1>6. Len(ticks) \in Nat /\ n + 1 \in 1..Len(ticks) /\ \A i \in 1..n : i \in 1..Len(ticks)
    BY DEF TicksShape
  <1>7. e \in Nat /\ \A i \in of : ticks[i].price \in Nat
    BY <1>1, <1>2, <1>5, <1>6
  <1>8. P \subseteq Int
    BY <1>4, <1>7
  <1>9. ASSUME StartAt(m, n + 1) = z, of = {}
        PROVE  SummaryTo(m, z, n + 1) = Opened(z, e)
    <2>1. all = {n + 1}
      BY <1>2, <1>9
    <2>2. Q = {e}
      BY <1>1, <1>4, <2>1
    <2>3. Min(all) = n + 1 /\ Max(all) = n + 1
      BY <2>1, MinIsThat, MaxIsThat
    <2>4. Min(Q) = e /\ Max(Q) = e
      BY <1>7, <2>2, MinIsThat, MaxIsThat
    <2>5. Cardinality(all) = 1
      BY <2>1, FS_Singleton
    <2>6. SummaryTo(m, z, n + 1) = [start |-> z, open |-> ticks[n + 1].price, high |-> e,
              low |-> e, close |-> ticks[n + 1].price, volume |-> 1]
      BY <1>1, <1>4, <2>3, <2>4, <2>5 DEF SummaryTo
    <2>7. QED
      BY <1>1, <2>6 DEF Opened
  <1>10. ASSUME StartAt(m, n + 1) = z, of # {}
         PROVE  SummaryTo(m, z, n + 1) = Updated(SummaryTo(m, z, n), e)
    <2>1. all = of \cup {n + 1} /\ n + 1 \notin of
      BY <1>2, <1>10
    <2>2. Q = P \cup {e} /\ P # {}
      BY <1>1, <1>4, <1>10, <2>1
    <2>3. IsFiniteSet(P)
      <3>1. PICK f : f = [i \in of |-> ticks[i].price]
        OBVIOUS
      <3>2. f \in Surjection(of, P)
        BY <1>4, <3>1 DEF Surjection
      <3>3. QED
        BY <1>2, <3>2, FS_Surjection
    <2>4. Min(all) = Min(of) /\ Max(all) = n + 1
      <3>1. Min(of) \in of /\ \A x \in of : Min(of) <= x
        BY <1>2, <1>10, MinIs
      <3>2. all \subseteq Int /\ \A x \in all : x <= n + 1
        BY <1>2, <2>1
      <3>3. \A x \in all : Min(of) <= x
        <4>1. Min(of) \in 1..n
          BY <1>2, <3>1
        <4>2. Min(of) <= n + 1
          BY <4>1
        <4>3. QED
          BY <2>1, <3>1, <4>2
      <3>4. Min(all) = Min(of)
        BY <2>1, <3>1, <3>2, <3>3, MinIsThat
      <3>5. QED
        BY <2>1, <3>2, <3>4, MaxIsThat
    <2>5. PICK lo, hi : lo = Min(P) /\ hi = Max(P)
      OBVIOUS
    <2>6. lo \in P /\ hi \in P /\ \A x \in P : lo <= x /\ x <= hi
      BY <1>8, <2>2, <2>3, <2>5, MinIs, MaxIs
    <2>7. Q \subseteq Int /\ lo \in Int /\ hi \in Int /\ \A x \in P : x \in Int
      BY <1>7, <1>8, <2>2, <2>6
    <2>8. Max(Q) = IF e > hi THEN e ELSE hi
      <3>1. PICK x : x = IF e > hi THEN e ELSE hi
        OBVIOUS
      <3>2. x \in Q /\ \A y \in Q : y <= x
        BY <1>7, <2>2, <2>6, <2>7, <3>1
      <3>3. QED
        BY <2>7, <3>1, <3>2, MaxIsThat
    <2>9. Min(Q) = IF lo > e THEN e ELSE lo
      <3>1. PICK x : x = IF lo > e THEN e ELSE lo
        OBVIOUS
      <3>2. x \in Q /\ \A y \in Q : x <= y
        BY <1>7, <2>2, <2>6, <2>7, <3>1
      <3>3. QED
        BY <2>7, <3>1, <3>2, MinIsThat
    <2>10. Cardinality(all) = Cardinality(of) + 1
      BY <1>2, <2>1, FS_AddElement
    <2>11. SummaryTo(m, z, n) = [start |-> z, open |-> ticks[Min(of)].price, high |-> hi,
              low |-> lo, close |-> ticks[Max(of)].price,
              volume |-> IF setup.append THEN Cardinality(of) ELSE 1]
      BY <1>1, <1>4, <2>5 DEF SummaryTo
    <2>12. SummaryTo(m, z, n + 1) = [start |-> z, open |-> ticks[Min(of)].price,
              high |-> IF e > hi THEN e ELSE hi, low |-> IF lo > e THEN e ELSE lo,
              close |-> e,
              volume |-> IF setup.append THEN Cardinality(of) + 1 ELSE 1]
      BY <1>1, <1>4, <2>4, <2>8, <2>9, <2>10 DEF SummaryTo
    <2>13. PICK c, o, l : c = Cardinality(of) /\ o = ticks[Min(of)].price /\ l = ticks[Max(of)].price
      OBVIOUS
    <2>14. PICK old : old = SummaryTo(m, z, n)
      OBVIOUS
    <2>15. PICK v : v = IF setup.append THEN c ELSE 1
      OBVIOUS
    <2>16. old = [start |-> z, open |-> o, high |-> hi, low |-> lo, close |-> l, volume |-> v]
      BY <2>11, <2>13, <2>14, <2>15
    <2>17. Updated(old, e) = [start |-> z, open |-> o, high |-> IF e > hi THEN e ELSE hi,
              low |-> IF lo > e THEN e ELSE lo, close |-> e,
              volume |-> IF setup.append THEN v + 1 ELSE v]
      <3>1. old.high = hi /\ old.low = lo /\ old.volume = v
        BY <2>16
      <3>2. PICK x, y, u : /\ x = (IF e > hi THEN e ELSE hi) /\ y = (IF lo > e THEN e ELSE lo)
                           /\ u = (IF setup.append THEN v + 1 ELSE v)
        OBVIOUS
      <3>3. Updated(old, e) = [old EXCEPT !.high = x, !.low = y, !.close = e, !.volume = u]
        BY <3>1, <3>2 DEF Updated
      <3>4. [old EXCEPT !.high = x, !.low = y, !.close = e, !.volume = u]
              = [start |-> z, open |-> o, high |-> x, low |-> y, close |-> e, volume |-> u]
        <4>1. PICK a : a = [old EXCEPT !.high = x]
          OBVIOUS
        <4>2. a = [start |-> z, open |-> o, high |-> x, low |-> lo, close |-> l, volume |-> v]
          BY ONLY <2>16, <4>1
        <4>3. PICK b : b = [a EXCEPT !.low = y]
          OBVIOUS
        <4>4. b = [start |-> z, open |-> o, high |-> x, low |-> y, close |-> l, volume |-> v]
          BY ONLY <4>2, <4>3
        <4>5. PICK d : d = [b EXCEPT !.close = e]
          OBVIOUS
        <4>6. d = [start |-> z, open |-> o, high |-> x, low |-> y, close |-> e, volume |-> v]
          BY ONLY <4>4, <4>5
        <4>7. [d EXCEPT !.volume = u]
                = [start |-> z, open |-> o, high |-> x, low |-> y, close |-> e, volume |-> u]
          BY ONLY <4>6
        <4>8. QED
          BY <4>1, <4>3, <4>5, <4>7
      <3>5. QED
        BY <3>2, <3>3, <3>4
    <2>18. (IF setup.append THEN v + 1 ELSE v) = (IF setup.append THEN c + 1 ELSE 1)
      BY <2>15
    <2>19. QED
      BY <2>12, <2>13, <2>14, <2>17, <2>18
  <1>11. QED
    BY <1>1, <1>3, <1>9, <1>10

\* The same of the state after a step.
ClockRight ==
    TicksShape /\ InHours => \A m \in Cells :
        /\ \A i \in 1..Len(ticks) : StartAt(m, i) \in Nat \ {0}
        /\ \A i, j \in 1..Len(ticks) : i <= j => StartAt(m, i) <= StartAt(m, j)
LaterTick ==
    TicksShape => \A m, z : \A n \in Nat : n < Len(ticks) /\ StartAt(m, n + 1) # z =>
        /\ SummaryTo(m, z, n + 1) = SummaryTo(m, z, n)
        /\ OfBar(m, z, n + 1) = OfBar(m, z, n)

LEMMA ClockIsRight == ClockRight /\ LaterTick
  <1>1. ClockRight
    BY ClockRises DEF ClockRight
  <1>2. LaterTick
    <2>1. ASSUME TicksShape, NEW m, NEW z, NEW n \in Nat, n < Len(ticks), StartAt(m, n + 1) # z
          PROVE  /\ SummaryTo(m, z, n + 1) = SummaryTo(m, z, n)
                 /\ OfBar(m, z, n + 1) = OfBar(m, z, n)
      BY <2>1, SummaryGrows, TicksOfBar
    <2>2. QED
      BY <2>1 DEF LaterTick
  <1>3. QED
    BY <1>1, <1>2

LEMMA ClockStaysRight == ClockRight' /\ LaterTick'
  BY ClockIsRight, PTL

\* A tick that comes changes nothing of what the ticks before it make.
LEMMA TickGrows ==
    ASSUME TicksShape, setup' = setup, NEW e, ticks' = Append(ticks, e)
    PROVE  /\ Len(ticks') = Len(ticks) + 1 /\ ticks'[Len(ticks) + 1] = e
           /\ \A i \in 1..Len(ticks) : ticks'[i] = ticks[i]
           /\ \A m : \A i \in 1..Len(ticks) : StartAt(m, i)' = StartAt(m, i)
           /\ \A m, z : \A n \in 0..Len(ticks) :
                 /\ OfBar(m, z, n)' = OfBar(m, z, n)
                 /\ OfBar(m, z, n) # {} => SummaryTo(m, z, n)' = SummaryTo(m, z, n)
           /\ \A m, bar : \A n \in 0..Len(ticks) : Shows(m, bar, n) => Shows(m, bar, n)'
  <1>1. PICK X : X = [came : Times, time : Stamps, price : Prices]
    OBVIOUS
  <1>2. ticks \in Seq(X)
    BY <1>1 DEF TicksShape
  <1>3. /\ Len(ticks') = Len(ticks) + 1 /\ ticks'[Len(ticks) + 1] = e /\ Len(ticks) \in Nat
        /\ \A i \in 1..Len(ticks) : ticks'[i] = ticks[i]
    BY <1>2
  <1>4. ASSUME NEW m, NEW i \in 1..Len(ticks) PROVE StartAt(m, i)' = StartAt(m, i)
    BY <1>3 DEF StartAt
  <1>5. ASSUME NEW m, NEW z, NEW n \in 0..Len(ticks)
        PROVE  /\ OfBar(m, z, n)' = OfBar(m, z, n)
               /\ OfBar(m, z, n) # {} => SummaryTo(m, z, n)' = SummaryTo(m, z, n)
    <2>1. \A i \in 1..n : i \in 1..Len(ticks)
      BY <1>3
    <2>2. OfBar(m, z, n)' = OfBar(m, z, n)
      BY <1>4, <2>1 DEF OfBar
    <2>3. ASSUME OfBar(m, z, n) # {} PROVE SummaryTo(m, z, n)' = SummaryTo(m, z, n)
      <3>1. PICK of : of = OfBar(m, z, n)
        OBVIOUS
      <3>2. of \subseteq 1..n /\ of \subseteq Int /\ IsFiniteSet(of) /\ of # {}
        <4>1. n \in Nat
          BY <1>3
        <4>2. QED
          BY <2>3, <3>1, <4>1, TicksOfBar
      <3>3. Min(of) \in of /\ Max(of) \in of
        BY <3>2, MinIs, MaxIs
      <3>4. ticks'[Min(of)] = ticks[Min(of)] /\ ticks'[Max(of)] = ticks[Max(of)]
        BY <1>3, <2>1, <3>2, <3>3
      <3>5. {ticks'[i].price : i \in of} = {ticks[i].price : i \in of}
        <4>1. \A i \in of : ticks'[i] = ticks[i]
          BY <1>3, <2>1, <3>2
        <4>2. QED
          BY <4>1
      <3>6. QED
        BY <2>2, <3>1, <3>4, <3>5 DEF SummaryTo
    <2>4. QED
      BY <2>2, <2>3
  <1>6. ASSUME NEW m, NEW bar, NEW n \in 0..Len(ticks), Shows(m, bar, n)
        PROVE  Shows(m, bar, n)'
    <2>1. \A i \in 1..n : i \in 1..Len(ticks)
      BY <1>3
    <2>2. \A i \in 1..n : StartAt(m, i)' = StartAt(m, i)
      BY <1>4, <2>1
    <2>3. SummaryTo(m, bar.start, n)' = SummaryTo(m, bar.start, n)
      BY <1>5, <1>6 DEF Shows
    <2>4. OfBar(m, bar.start, n)' = OfBar(m, bar.start, n)
      BY <1>5
    <2>5. QED
      BY <1>6, <2>2, <2>3, <2>4 DEF Shows
  <1>7. QED
    BY <1>3, <1>4, <1>5, <1>6

\* What a step of the slave leaves to the job.
LEMMA JobStands ==
    ASSUME BarsIInv, UNCHANGED <<setup, job>>,
           \A m \in Cells :
              /\ cells'[m].total \in Nat /\ cells[m].total <= cells'[m].total
              /\ Begun(m)' \in Nat /\ Begun(m) <= Begun(m)' /\ Begun(m)' <= Begun(m) + 1
              /\ Gone(m)' \in Nat /\ Gone(m) <= Gone(m)'
              /\ Counted(m) => Counted(m)' \/ cells'[m].total > 0
              /\ Counted(m) /\ cells[m].writing = 0 =>
                    \/ Counted(m)' /\ cells'[m].writing = 0
                    \/ cells'[m].total >= Rows
              /\ \A g \in 1..cells[m].total - 1 :
                    g >= cells'[m].total + 2 - Rows => BarOf(m, g)' = BarOf(m, g),
           InHours' => /\ InHours /\ StartInv'
                       /\ \A m \in Cells : \A g \in 1..Begun(m) :
                             g > Begun(m)' - Rows => StartOf(m, g)' >= StartOf(m, g)
    PROVE  JobInv' /\ OlderInv'
  <1>1. CASE job.at = "idle"
    <2>1. job' = [at |-> "idle"] /\ job'.at = "idle"
      BY <1>1 DEF BarsIInv, JobInv, JobShape
    <2>2. QED
      BY <2>1 DEF JobInv, OlderInv, JobShape, RefusedRightly, TailIsOld, NotEmpty,
                  WithinBars, ReadsSome, NoOlder
  <1>2. CASE job.at # "idle"
    <2>1. PICK m, t, a, h, b : /\ m = job.m /\ t = cells[job.m].total /\ h = job.shift
                               /\ a = job.asked.total /\ b = Begun(job.m)
      OBVIOUS
    <2>2. m \in Cells /\ t \in Nat /\ a \in Nat /\ a <= t /\ h \in 0..Rows - 1 /\ h \in Nat
      BY <1>2, <2>1, AskedIs, RowsAre
    <2>3. PICK u, c : u = cells'[m].total /\ c = Begun(m)'
      OBVIOUS
    <2>4. b \in Nat /\ (b = t \/ b = t + 1)
      BY <2>1, <2>2, CountsAre DEF BarsIInv
    <2>5. u \in Nat /\ t <= u /\ c \in Nat /\ b <= c /\ c <= b + 1
      BY <2>1, <2>2, <2>3
    <2>6. JobShape'
      <3>1. a <= cells'[m].total
        BY <2>2, <2>3, <2>5
      <3>2. JobShape
        BY DEF BarsIInv, JobInv
      <3>3. QED
        BY <1>2, <2>1, <3>1, <3>2 DEF JobShape
    <2>7. RefusedRightly'
      <3>1. SUFFICES ASSUME job.at = "refused", h < a
                     PROVE  u >= Rows \/ (Counted(m)' /\ cells'[m].writing = 0)
        BY <2>1, <2>3 DEF RefusedRightly, Counted
      <3>2. t >= Rows \/ (Counted(m) /\ cells[m].writing = 0)
        BY <2>1, <3>1 DEF BarsIInv, JobInv, RefusedRightly, Counted
      <3>3. QED
        BY <2>2, <2>3, <2>5, <3>2, RowsAre
    <2>8. TailIsOld'
      <3>1. SUFFICES ASSUME job.at = "now"
                     PROVE  \E n \in Nat : job.tail = n % Rows /\ n <= Gone(m)'
        BY <2>1 DEF TailIsOld
      <3>2. PICK n \in Nat : job.tail = n % Rows /\ n <= Gone(m)
        BY <2>1, <3>1 DEF BarsIInv, JobInv, TailIsOld
      <3>3. Gone(m) \in Nat
        BY <2>2, CountsAre DEF BarsIInv
      <3>4. n <= Gone(m)'
        BY <2>2, <3>2, <3>3
      <3>5. QED
        BY <3>2, <3>4
    <2>9. NotEmpty'
      <3>1. SUFFICES ASSUME job.at \in {"now", "locate"} PROVE u > 0 \/ Counted(m)'
        BY <2>1, <2>3 DEF NotEmpty
      <3>2. t > 0 \/ Counted(m)
        BY <2>1, <3>1 DEF BarsIInv, JobInv, NotEmpty
      <3>3. QED
        BY <2>2, <2>3, <2>5, <3>2
    <2>10. WithinBars'
      <3>1. SUFFICES ASSUME job.at = "locate" PROVE h = 0 \/ h < u
        BY <2>1, <2>3 DEF WithinBars
      <3>2. h = 0 \/ h < t
        BY <2>1, <3>1 DEF BarsIInv, JobInv, WithinBars
      <3>3. QED
        BY <2>2, <2>5, <3>2
    <2>11. ReadsSome'
      <3>1. SUFFICES ASSUME job.at \in {"copy", "read"}
                     PROVE  \E g \in 1..c : Reads(g)'
        BY <2>1, <2>3 DEF ReadsSome
      <3>2. PICK g \in 1..b : Reads(g)
        BY <2>1, <3>1 DEF BarsIInv, JobInv, ReadsSome
      <3>3. g \in 1..c /\ g \in Nat /\ g > 0
        BY <2>4, <2>5, <3>2
      <3>4. g >= a - h /\ (h > 0 => g < t)
        BY <2>1, <3>2 DEF Reads
      <3>5. ASSUME h > 0, u - a + h + 1 < Rows
            PROVE  BarOf(m, g)' = BarOf(m, g) /\ t - a + h + 1 < Rows
        <4>1. t - a + h + 1 < Rows /\ g \in 1..t - 1 /\ g >= u + 2 - Rows
          BY <2>2, <2>5, <3>3, <3>4, <3>5, RowsAre
        <4>2. QED
          BY <2>1, <2>2, <2>3, <4>1
      <3>6. Reads(g)'
        <4>1. h > 0 => g < u
          BY <2>2, <2>5, <3>3, <3>4
        <4>2. ASSUME h > 0, u - a + h + 1 < Rows, NEW i \in 1..6, job.at = "copy" => i < job.k
              PROVE  job.bar[Columns[i]] = BarOf(m, g)'[Columns[i]]
          <5>1. BarOf(m, g)' = BarOf(m, g) /\ t - a + h + 1 < Rows
            BY <3>5, <4>2
          <5>2. job.bar[Columns[i]] = BarOf(m, g)[Columns[i]]
            BY <2>1, <3>2, <4>2, <5>1 DEF Reads
          <5>3. QED
            BY <5>1, <5>2
        <4>3. job.at = "copy" => job.row = RowOf(g)
          BY <3>2 DEF Reads
        <4>4. QED
          BY <2>1, <2>3, <3>4, <4>1, <4>2, <4>3 DEF Reads
      <3>7. QED
        BY <3>3, <3>6
    <2>12. OlderInv'
      <3>1. SUFFICES ASSUME InHours' PROVE NoOlder'
        BY DEF OlderInv
      <3>2. NoOlder /\ StartsRise(m) /\ StartsRise(m)'
        BY <2>2, <3>1 DEF BarsIInv, OlderInv, StartInv
      <3>3. PICK z : z = job.asked.start
        OBVIOUS
      <3>4. z \in Nat /\ (b = 0 => z = 0)
        BY <1>2, <2>1, <3>2, <3>3 DEF NoOlder
      <3>5. \A g \in 1..c : g > c - Rows => StartOf(m, g)' \in Nat
        BY <2>3, <3>2 DEF StartsRise
      <3>6. ASSUME NEW g \in 1..b, g > c - Rows, g >= a - h PROVE StartOf(m, g)' >= z
        <4>1. g > b - Rows /\ g \in 1..c
          BY <2>4, <2>5, <3>6, RowsAre
        <4>2. StartOf(m, g) >= z
          BY <1>2, <2>1, <3>2, <3>3, <3>6, <4>1 DEF NoOlder
        <4>3. StartOf(m, g) \in Nat
          BY <2>1, <3>2, <3>6, <4>1 DEF StartsRise
        <4>4. StartOf(m, g)' >= StartOf(m, g)
          BY <2>1, <2>2, <2>3, <3>1, <3>6
        <4>5. QED
          BY <3>4, <3>5, <3>6, <4>1, <4>2, <4>3, <4>4
      <3>7. ASSUME NEW g \in 1..c, g > c - Rows, g >= a - h PROVE StartOf(m, g)' >= z
        <4>1. CASE g \in 1..b
          BY <3>6, <3>7, <4>1
        <4>2. CASE g \notin 1..b
          <5>1. g = b + 1 /\ c = b + 1
            BY <2>4, <2>5, <3>7, <4>2
          <5>2. CASE b = 0
            BY <3>4, <3>5, <3>7, <5>2
          <5>3. CASE b # 0
            <6>1. b \in 1..b /\ b \in 1..c /\ b > c - Rows /\ b >= a - h /\ b < g
              BY <2>2, <2>4, <5>1, <5>3, RowsAre
            <6>2. StartOf(m, b)' >= z
              BY <3>6, <6>1
            <6>3. StartOf(m, b)' < StartOf(m, g)'
              BY <2>3, <3>2, <3>7, <6>1 DEF StartsRise
            <6>4. QED
              BY <3>4, <3>5, <3>7, <6>1, <6>2, <6>3
          <5>4. QED
            BY <5>2, <5>3
        <4>3. QED
          BY <4>1, <4>2
      <3>8. c = 0 => z = 0
        BY <2>4, <2>5, <3>4
      <3>9. job.at = "read" \/ (job.at = "copy" /\ job.k > 1) => job.bar.start >= z
        BY <1>2, <3>2, <3>3 DEF NoOlder
      <3>10. QED
        BY <2>1, <2>3, <3>3, <3>4, <3>7, <3>8, <3>9 DEF NoOlder
    <2>13. QED
      BY <2>6, <2>7, <2>8, <2>9, <2>10, <2>11, <2>12 DEF JobInv
  <1>3. QED
    BY <1>1, <1>2

\* A step of the slave before or after it writes.
LEMMA NotWriting ==
    ASSUME BarsIInv, UNCHANGED <<setup, cells, job>>,
           slave.at \in {"idle", "cell"}, slave'.at \in {"idle", "cell"}
    PROVE  /\ CellInv'
           /\ \A m \in Cells :
                 /\ ~On(m) /\ ~On(m)' /\ Begun(m) = cells[m].total /\ Begun(m)' = Begun(m)
                 /\ Gone(m)' = Gone(m)
           /\ \A m, g : BarOf(m, g)' = BarOf(m, g) /\ StartOf(m, g)' = StartOf(m, g)
           /\ (InHours' => InHours /\ StartInv') => JobInv' /\ OlderInv'
  <1>1. ASSUME NEW m \in Cells
        PROVE  /\ ~On(m) /\ ~On(m)' /\ Begun(m) = cells[m].total /\ Begun(m)' = Begun(m)
               /\ Gone(m)' = Gone(m) /\ ~Counted(m) /\ ~Counted(m)'
    BY DEF On, NewOn, Counted, Begun, Gone
  <1>2. CellInv'
    <2>1. ASSUME NEW m \in Cells PROVE (CellShape(m) /\ Indices(m) /\ Writes(m))'
      <3>1. CellShape(m) /\ Indices(m) /\ Writes(m)
        BY CellIs DEF BarsIInv
      <3>2. QED
        BY <1>1, <3>1 DEF CellShape, Indices, Writes
    <2>2. QED
      BY <2>1 DEF BarsIInv, CellInv
  <1>3. \A m, g : BarOf(m, g)' = BarOf(m, g) /\ StartOf(m, g)' = StartOf(m, g)
    BY DEF BarOf, StartOf
  <1>4. ASSUME InHours' => InHours /\ StartInv' PROVE JobInv' /\ OlderInv'
    <2>1. ASSUME NEW m \in Cells
          PROVE  /\ cells'[m].total \in Nat /\ cells[m].total <= cells'[m].total
                 /\ Begun(m)' \in Nat /\ Begun(m) <= Begun(m)' /\ Begun(m)' <= Begun(m) + 1
                 /\ Gone(m)' \in Nat /\ Gone(m) <= Gone(m)'
      <3>1. cells[m].total \in Nat /\ Begun(m) \in Nat /\ Gone(m) \in Nat
        BY CountsAre DEF BarsIInv
      <3>2. QED
        BY <1>1, <3>1
    <2>2. ASSUME InHours', NEW m \in Cells, NEW g \in 1..Begun(m), g > Begun(m)' - Rows
          PROVE  StartOf(m, g)' >= StartOf(m, g)
      <3>1. StartsRise(m) /\ Begun(m) \in Nat
        BY <1>4, <2>2, CountsAre DEF BarsIInv, StartInv
      <3>2. StartOf(m, g) \in Nat
        BY <1>1, <2>2, <3>1 DEF StartsRise
      <3>3. QED
        BY <1>3, <3>2
    <2>3. QED
      BY <1>1, <1>3, <1>4, <2>1, <2>2, JobStands
  <1>5. QED
    BY <1>1, <1>2, <1>3, <1>4

\* A tick comes.
LEMMA TickKeeps ==
    ASSUME BarsIInv, NEW time \in Times, NEW price \in Prices, Tick(time, price)
    PROVE  BarsIInv'
  <1>1. /\ slave.at = "idle" /\ UNCHANGED <<setup, cells, job>>
        /\ \A n \in DOMAIN ticks : ticks[n].came <= time
    BY DEF Tick
  <1>2. PICK stamp, e : /\ stamp = (IF setup.onOpen THEN time - Source ELSE time)
                        /\ e = [came |-> time, time |-> stamp, price |-> price]
    OBVIOUS
  <1>3. /\ slave' = [at |-> "cell", m |-> 1, time |-> stamp, price |-> price]
        /\ ticks' = Append(ticks, e)
    BY <1>2 DEF Tick
  <1>4. TicksShape
    BY DEF BarsIInv, SlaveInv
  <1>5. PICK l : l = Len(ticks)
    OBVIOUS
  <1>6. /\ l \in Nat /\ Len(ticks') = l + 1 /\ ticks'[l + 1] = e
        /\ \A i \in 1..l : ticks'[i] = ticks[i]
    BY <1>1, <1>3, <1>4, <1>5, TickGrows DEF TicksShape
  <1>7. TicksShape'
    <2>1. PICK X : X = [came : Times, time : Stamps, price : Prices]
      OBVIOUS
    <2>2. stamp \in Stamps
      BY <1>2 DEF Stamps
    <2>3. e \in X
      BY <1>2, <2>1, <2>2
    <2>4. ticks \in Seq(X)
      BY <1>4, <2>1 DEF TicksShape
    <2>5. ticks' \in Seq(X)
      BY <1>3, <2>3, <2>4
    <2>6. ASSUME NEW i \in 1..Len(ticks')
          PROVE  ticks'[i].time = IF setup.onOpen THEN ticks'[i].came - Source ELSE ticks'[i].came
      <3>1. CASE i \in 1..l
        BY <1>4, <1>5, <1>6, <3>1 DEF TicksShape
      <3>2. CASE i = l + 1
        BY <1>2, <1>6, <3>2
      <3>3. QED
        BY <1>6, <3>1, <3>2
    <2>7. ASSUME NEW i \in 1..Len(ticks'), NEW j \in 1..Len(ticks'), i < j
          PROVE  ticks'[i].came <= ticks'[j].came
      <3>1. i \in 1..l
        BY <1>6, <2>7
      <3>2. CASE j \in 1..l
        BY <1>4, <1>5, <1>6, <2>7, <3>1, <3>2 DEF TicksShape
      <3>3. CASE j = l + 1
        <4>1. DOMAIN ticks = 1..l
          BY <1>5, <2>4
        <4>2. ticks[i].came <= time
          BY <1>1, <3>1, <4>1
        <4>3. QED
          BY <1>2, <1>6, <3>1, <3>3, <4>2
      <3>4. QED
        BY <1>6, <3>2, <3>3
    <2>8. slave'.time = stamp /\ slave'.price = price
      BY <1>3
    <2>9. setup.onOpen \in BOOLEAN
      BY <1>4 DEF TicksShape
    <2>10. QED
      BY <1>1, <1>2, <1>6, <2>1, <2>5, <2>6, <2>7, <2>8, <2>9 DEF TicksShape
  <1>8. SlaveInv'
    <2>1. slave'.m = 1 /\ slave'.time = stamp /\ slave'.price = price
      BY <1>3
    <2>2. 1 \in Cells
      BY FramesAre
    <2>3. QED
      BY <1>3, <1>7, <2>1, <2>2 DEF SlaveInv, SlaveShape
  <1>9. slave'.at = "cell" /\ slave'.m = 1
    BY <1>3
  <1>10. /\ CellInv'
         /\ \A m \in Cells :
                 /\ ~On(m) /\ ~On(m)' /\ Begun(m) = cells[m].total /\ Begun(m)' = Begun(m)
                 /\ Gone(m)' = Gone(m)
         /\ \A m, g : BarOf(m, g)' = BarOf(m, g) /\ StartOf(m, g)' = StartOf(m, g)
         /\ (InHours' => InHours /\ StartInv') => JobInv' /\ OlderInv'
    BY <1>1, <1>9, NotWriting
  <1>11. /\ \A m : \A i \in 1..l : StartAt(m, i)' = StartAt(m, i)
         /\ \A m, z : \A n \in 0..l :
                 /\ OfBar(m, z, n)' = OfBar(m, z, n)
                 /\ OfBar(m, z, n) # {} => SummaryTo(m, z, n)' = SummaryTo(m, z, n)
         /\ \A m, bar : \A n \in 0..l : Shows(m, bar, n) => Shows(m, bar, n)'
    BY <1>1, <1>3, <1>4, <1>5, TickGrows
  <1>12. InHours' => InHours
    <2>1. DOMAIN ticks = 1..l /\ DOMAIN ticks' = 1..l + 1
      BY <1>4, <1>5, <1>6, <1>7 DEF TicksShape
    <2>2. \A n \in 1..l : n \in 1..l + 1
      BY <1>6
    <2>3. QED
      BY <1>6, <2>1, <2>2 DEF InHours
  <1>13. NeverHalted' => NeverHalted
    <2>1. DOMAIN ticks = 1..l /\ DOMAIN ticks' = 1..l + 1
      BY <1>4, <1>5, <1>6, <1>7 DEF TicksShape
    <2>2. \A n \in 1..l : n \in 1..l + 1
      BY <1>6
    <2>3. QED
      BY <1>6, <2>1, <2>2 DEF NeverHalted
  <1>14. ASSUME InHours', NEW m \in Cells, l > 0
         PROVE  /\ StartAt(m, l + 1)' \in Nat /\ StartAt(m, l) \in Nat
                /\ StartAt(m, l) <= StartAt(m, l + 1)'
    <2>1. /\ \A i \in 1..l + 1 : StartAt(m, i)' \in Nat \ {0}
          /\ \A i, j \in 1..l + 1 : i <= j => StartAt(m, i)' <= StartAt(m, j)'
      <3>1. /\ \A i \in 1..Len(ticks') : StartAt(m, i)' \in Nat \ {0}
            /\ \A i, j \in 1..Len(ticks') : i <= j => StartAt(m, i)' <= StartAt(m, j)'
        BY <1>7, <1>14, ClockStaysRight DEF ClockRight
      <3>2. QED
        BY <1>6, <3>1
    <2>2. l \in 1..l /\ l \in 1..l + 1 /\ l + 1 \in 1..l + 1 /\ l <= l + 1
      BY <1>6, <1>14
    <2>3. QED
      BY <1>11, <2>1, <2>2
  <1>15. StartInv'
    <2>1. SUFFICES ASSUME InHours', NEW m \in Cells PROVE StartsRise(m)'
      BY DEF StartInv
    <2>2. StartsRise(m)
      BY <1>12, <2>1 DEF BarsIInv, StartInv
    <2>3. Begun(m) > 0 => Len(ticks') > 0 /\ StartOf(m, Begun(m)) <= StartAt(m, l + 1)'
      <3>1. SUFFICES ASSUME Begun(m) > 0
                     PROVE  Len(ticks') > 0 /\ StartOf(m, Begun(m)) <= StartAt(m, l + 1)'
        OBVIOUS
      <3>2. l > 0 /\ StartOf(m, Begun(m)) <= StartAt(m, l)
        BY <1>5, <2>2, <3>1 DEF StartsRise
      <3>3. Begun(m) \in Nat
        BY <2>1, CountsAre DEF BarsIInv
      <3>4. StartOf(m, Begun(m)) \in Nat
        <4>1. Begun(m) \in 1..Begun(m) /\ Begun(m) > Begun(m) - Rows
          BY <3>1, <3>3, RowsAre
        <4>2. QED
          BY <2>2, <4>1 DEF StartsRise
      <3>5. QED
        BY <1>6, <1>14, <2>1, <3>2, <3>4
    <2>4. QED
      BY <1>6, <1>10, <2>1, <2>2, <2>3 DEF StartsRise
  <1>16. HoldInv'
    <2>1. SUFFICES ASSUME InHours', NeverHalted', NEW m \in Cells, CellFrames[m] >= Source
                   PROVE  Holds(m)'
      BY DEF HoldInv
    <2>2. Holds(m) /\ StartsRise(m)
      BY <1>12, <1>13, <2>1 DEF BarsIInv, HoldInv, StartInv
    <2>3. Seen(m) = l /\ Seen(m)' = l
      <3>1. 1 <= m
        BY <2>1, FramesAre
      <3>2. QED
        BY <1>1, <1>5, <1>6, <1>9, <3>1 DEF Seen
    <2>4. PICK t, g0 : t = cells[m].total /\ g0 = Gone(m)
      OBVIOUS
    <2>5. t \in Nat /\ g0 \in Nat /\ t - Rows <= g0 /\ Begun(m) = t
      BY <1>10, <2>1, <2>4, CountsAre DEF BarsIInv
    <2>6. cells'[m].total = t /\ Gone(m)' = g0 /\ ~On(m)' /\ ~On(m)
      BY <1>1, <1>10, <2>1, <2>4
    <2>7. ASSUME NEW g \in 1..t - 1, g > g0
          PROVE  /\ BarOf(m, g)' = SummaryTo(m, StartOf(m, g), l + 1)'
                 /\ OfBar(m, StartOf(m, g), l + 1)' # {}
      <3>1. /\ BarOf(m, g) = SummaryTo(m, StartOf(m, g), l)
            /\ OfBar(m, StartOf(m, g), l) # {}
        BY <1>5, <2>2, <2>4, <2>7 DEF Holds
      <3>2. PICK z : z = StartOf(m, g)
        OBVIOUS
      <3>3. SummaryTo(m, z, l)' = SummaryTo(m, z, l) /\ OfBar(m, z, l)' = OfBar(m, z, l)
        BY <1>6, <1>11, <3>1, <3>2
      <3>4. g \in 1..t /\ t \in 1..t /\ g > t - Rows /\ t > t - Rows /\ g < t /\ t > 0
        BY <2>5, <2>7, RowsAre
      <3>5. z < StartOf(m, t) /\ z \in Nat /\ StartOf(m, t) \in Nat
        BY <2>2, <2>5, <3>2, <3>4 DEF StartsRise
      <3>6. l > 0 /\ StartOf(m, t) <= StartAt(m, l)
        BY <1>5, <2>2, <2>5, <3>4 DEF StartsRise
      <3>7. z < StartAt(m, l + 1)' /\ StartAt(m, l + 1)' \in Nat
        BY <1>14, <2>1, <3>5, <3>6
      <3>8. SummaryTo(m, z, l + 1)' = SummaryTo(m, z, l)' /\ OfBar(m, z, l + 1)' = OfBar(m, z, l)'
        <4>1. StartAt(m, l + 1)' # z
          BY <3>5, <3>7
        <4>2. l \in Nat /\ l < Len(ticks')
          BY <1>6
        <4>3. QED
          BY <1>7, <4>1, <4>2, ClockStaysRight DEF LaterTick
      <3>9. QED
        BY <1>10, <3>1, <3>2, <3>3, <3>8
    <2>8. t > 0 => Shows(m, BarOf(m, t), l)'
      <3>1. SUFFICES ASSUME t > 0 PROVE Shows(m, BarOf(m, t), l)'
        OBVIOUS
      <3>2. PICK bar : bar = BarOf(m, t)
        OBVIOUS
      <3>3. Shows(m, bar, l)
        BY <2>2, <2>3, <2>4, <2>6, <3>1, <3>2 DEF Holds
      <3>4. Shows(m, bar, l)'
        BY <1>6, <1>11, <3>3
      <3>5. BarOf(m, t)' = bar
        BY <1>10, <3>2
      <3>6. QED
        BY <3>4, <3>5
    <2>9. t = 0 => l = 0
      BY <2>2, <2>3, <2>4 DEF Holds
    <2>10. QED
      BY <1>6, <1>10, <2>3, <2>6, <2>7, <2>8, <2>9 DEF Holds
  <1>17. JobInv' /\ OlderInv'
    BY <1>10, <1>12, <1>15
  <1>18. QED
    BY <1>8, <1>10, <1>15, <1>16, <1>17 DEF BarsIInv

\* What a step without a tick leaves of the ticks.
LEMMA TicksStay ==
    ASSUME UNCHANGED <<setup, ticks>>
    PROVE  /\ InHours' = InHours /\ NeverHalted' = NeverHalted
           /\ \A m, i : StartAt(m, i)' = StartAt(m, i)
           /\ \A m, z, n : OfBar(m, z, n)' = OfBar(m, z, n)
           /\ \A m, z, n : SummaryTo(m, z, n)' = SummaryTo(m, z, n)
           /\ \A m, bar, n : Shows(m, bar, n)' = Shows(m, bar, n)
  <1>1. InHours' = InHours /\ NeverHalted' = NeverHalted
    BY DEF InHours, NeverHalted
  <1>2. \A m, i : StartAt(m, i)' = StartAt(m, i)
    BY DEF StartAt
  <1>3. ASSUME NEW m, NEW z, NEW n PROVE OfBar(m, z, n)' = OfBar(m, z, n)
    BY DEF OfBar, StartAt
  <1>4. ASSUME NEW m, NEW z, NEW n PROVE SummaryTo(m, z, n)' = SummaryTo(m, z, n)
    BY DEF SummaryTo, OfBar, StartAt
  <1>5. ASSUME NEW m, NEW bar, NEW n PROVE Shows(m, bar, n)' = Shows(m, bar, n)
    BY <1>4 DEF Shows, OfBar, StartAt
  <1>6. QED
    BY <1>1, <1>2, <1>3, <1>4, <1>5

\* A frame that the slave does not write stays as it is.
LEMMA FrameStands ==
    ASSUME UNCHANGED <<setup, ticks>>, NEW n \in Cells, cells'[n] = cells[n],
           ~On(n), ~On(n)'
    PROVE  /\ CellShape(n) => CellShape(n)'
           /\ Indices(n) => Indices(n)'
           /\ Writes(n)'
           /\ StartsRise(n) => StartsRise(n)'
           /\ Holds(n) /\ Seen(n)' = Seen(n) => Holds(n)'
           /\ Begun(n) = cells[n].total /\ Begun(n)' = Begun(n) /\ Gone(n)' = Gone(n)
           /\ ~Counted(n) /\ ~Counted(n)'
           /\ \A g : BarOf(n, g)' = BarOf(n, g) /\ StartOf(n, g)' = StartOf(n, g)
  <1>1. ~NewOn(n) /\ ~NewOn(n)' /\ ~Counted(n) /\ ~Counted(n)'
    BY DEF NewOn, Counted, On
  <1>2. Begun(n) = cells[n].total /\ Begun(n)' = Begun(n) /\ Gone(n)' = Gone(n)
    BY <1>1 DEF Begun, Gone
  <1>3. \A g : BarOf(n, g)' = BarOf(n, g) /\ StartOf(n, g)' = StartOf(n, g)
    BY DEF BarOf, StartOf
  <1>4. CellShape(n) => CellShape(n)'
    BY DEF CellShape
  <1>5. Indices(n) => Indices(n)'
    BY <1>1, <1>2 DEF Indices
  <1>6. Writes(n)'
    BY DEF Writes
  <1>7. ASSUME StartsRise(n) PROVE StartsRise(n)'
    BY <1>2, <1>3, <1>7, TicksStay DEF StartsRise
  <1>8. ASSUME Holds(n), Seen(n)' = Seen(n) PROVE Holds(n)'
    BY <1>2, <1>3, <1>8, TicksStay DEF Holds
  <1>9. QED
    BY <1>1, <1>2, <1>3, <1>4, <1>5, <1>6, <1>7, <1>8

OnlyFrame(m, c) == cells' = [n \in Cells |-> IF n = m THEN c ELSE cells[n]]

\* A step of the slave in one frame keeps the invariant if that frame does.
LEMMA FrameStep ==
    ASSUME BarsIInv, UNCHANGED <<setup, job, ticks>>, slave.at # "idle",
           NEW m \in Cells, slave.m = m, SlaveShape',
           slave'.at # "idle" => slave'.time = slave.time /\ slave'.price = slave.price,
           slave'.at \in {"column", "writing", "writed"} => slave'.m = m,
           NEW c, OnlyFrame(m, c),
           CellShape(m)', Indices(m)', Writes(m)',
           InHours => StartsRise(m)',
           InHours /\ NeverHalted =>
              /\ \A n \in Cells : n # m => Seen(n)' = Seen(n)
              /\ CellFrames[m] >= Source => Holds(m)',
           /\ cells'[m].total \in Nat /\ cells[m].total <= cells'[m].total
           /\ Begun(m)' \in Nat /\ Begun(m) <= Begun(m)' /\ Begun(m)' <= Begun(m) + 1
           /\ Gone(m)' \in Nat /\ Gone(m) <= Gone(m)'
           /\ Counted(m) => Counted(m)' \/ cells'[m].total > 0
           /\ Counted(m) /\ cells[m].writing = 0 =>
                 \/ Counted(m)' /\ cells'[m].writing = 0
                 \/ cells'[m].total >= Rows
           /\ \A g \in 1..cells[m].total - 1 :
                 g >= cells'[m].total + 2 - Rows => BarOf(m, g)' = BarOf(m, g),
           InHours => \A g \in 1..Begun(m) :
                 g > Begun(m)' - Rows => StartOf(m, g)' >= StartOf(m, g)
    PROVE  BarsIInv'
  <1>1. ASSUME NEW n \in Cells, n # m
        PROVE  cells'[n] = cells[n] /\ ~On(n) /\ ~On(n)'
    BY <1>1 DEF On, OnlyFrame
  <1>2. SlaveInv /\ CellInv /\ StartInv /\ HoldInv
    BY DEF BarsIInv
  <1>3. SlaveInv'
    BY <1>2 DEF SlaveInv, TicksShape
  <1>4. CellInv'
    <2>1. cells' = [n \in Cells |-> cells'[n]]
      BY DEF OnlyFrame
    <2>2. ASSUME NEW n \in Cells PROVE (CellShape(n) /\ Indices(n) /\ Writes(n))'
      <3>1. CASE n = m
        BY <3>1
      <3>2. CASE n # m
        BY <1>1, <1>2, <3>2, CellIs, FrameStands
      <3>3. QED
        BY <3>1, <3>2
    <2>3. QED
      BY <2>1, <2>2 DEF CellInv
  <1>5. StartInv'
    <2>1. SUFFICES ASSUME InHours', NEW n \in Cells PROVE StartsRise(n)'
      BY DEF StartInv
    <2>2. InHours
      BY <2>1, TicksStay
    <2>3. CASE n = m
      BY <2>2, <2>3
    <2>4. CASE n # m
      <3>1. StartsRise(n)
        BY <1>2, <2>2 DEF StartInv
      <3>2. QED
        BY <1>1, <2>4, <3>1, FrameStands
    <2>5. QED
      BY <2>3, <2>4
  <1>6. HoldInv'
    <2>1. SUFFICES ASSUME InHours', NeverHalted', NEW n \in Cells, CellFrames[n] >= Source
                   PROVE  Holds(n)'
      BY DEF HoldInv
    <2>2. InHours /\ NeverHalted
      BY <2>1, TicksStay
    <2>3. CASE n = m
      BY <2>1, <2>2, <2>3
    <2>4. CASE n # m
      <3>1. Holds(n)
        BY <1>2, <2>1, <2>2 DEF HoldInv
      <3>2. Seen(n)' = Seen(n)
        BY <2>2, <2>4
      <3>3. QED
        BY <1>1, <2>4, <3>1, <3>2, FrameStands
    <2>5. QED
      BY <2>3, <2>4
  <1>7. JobInv' /\ OlderInv'
    <2>1. ASSUME NEW n \in Cells
          PROVE  /\ cells'[n].total \in Nat /\ cells[n].total <= cells'[n].total
                 /\ Begun(n)' \in Nat /\ Begun(n) <= Begun(n)' /\ Begun(n)' <= Begun(n) + 1
                 /\ Gone(n)' \in Nat /\ Gone(n) <= Gone(n)'
                 /\ Counted(n) => Counted(n)' \/ cells'[n].total > 0
                 /\ Counted(n) /\ cells[n].writing = 0 =>
                       \/ Counted(n)' /\ cells'[n].writing = 0
                       \/ cells'[n].total >= Rows
                 /\ \A g \in 1..cells[n].total - 1 :
                       g >= cells'[n].total + 2 - Rows => BarOf(n, g)' = BarOf(n, g)
      <3>1. CASE n = m
        BY <3>1
      <3>2. CASE n # m
        <4>1. /\ Begun(n) = cells[n].total /\ Begun(n)' = Begun(n) /\ Gone(n)' = Gone(n)
              /\ ~Counted(n) /\ cells'[n] = cells[n]
              /\ \A g : BarOf(n, g)' = BarOf(n, g)
          BY <1>1, <3>2, FrameStands
        <4>2. cells[n].total \in Nat /\ Gone(n) \in Nat
          BY <1>2, CountsAre
        <4>3. QED
          BY <4>1, <4>2
      <3>3. QED
        BY <3>1, <3>2
    <2>2. ASSUME InHours', NEW n \in Cells, NEW g \in 1..Begun(n), g > Begun(n)' - Rows
          PROVE  StartOf(n, g)' >= StartOf(n, g)
      <3>1. InHours
        BY <2>2, TicksStay
      <3>2. CASE n = m
        BY <2>2, <3>1, <3>2
      <3>3. CASE n # m
        <4>1. /\ Begun(n)' = Begun(n) /\ StartOf(n, g)' = StartOf(n, g)
          BY <1>1, <3>3, FrameStands
        <4>2. StartsRise(n) /\ Begun(n) \in Nat
          BY <1>2, <3>1, CountsAre DEF StartInv
        <4>3. StartOf(n, g) \in Nat
          BY <2>2, <4>1, <4>2 DEF StartsRise
        <4>4. QED
          BY <4>1, <4>3
      <3>4. QED
        BY <3>2, <3>3
    <2>3. InHours' => InHours
      BY TicksStay
    <2>4. QED
      BY <1>5, <2>1, <2>2, <2>3, JobStands
  <1>8. QED
    BY <1>3, <1>4, <1>5, <1>6, <1>7 DEF BarsIInv

\* The slave is about to look at a frame.
LEMMA AtCell ==
    ASSUME BarsIInv, slave.at = "cell"
    PROVE  /\ slave = [at |-> "cell", m |-> slave.m, time |-> slave.time,
                       price |-> slave.price]
           /\ slave.m \in Cells
           /\ \A n \in Cells : ~On(n) /\ ~NewOn(n) /\ ~Counted(n) /\ Begun(n) = cells[n].total
  <1>1. SlaveShape
    BY DEF BarsIInv, SlaveInv
  <1>2. \A n \in Cells : ~On(n) /\ ~NewOn(n) /\ ~Counted(n) /\ Begun(n) = cells[n].total
    BY DEF On, NewOn, Counted, Begun
  <1>3. slave # [at |-> "idle"] /\ slave.at \notin {"column", "writing", "writed"}
    <2>1. slave = [at |-> "idle"] => slave.at = "idle"
      OBVIOUS
    <2>2. QED
      BY <2>1
  <1>4. QED
    BY <1>1, <1>2, <1>3 DEF SlaveShape

\* The tick that it pushes is the last one.
LEMMA LastTick ==
    ASSUME BarsIInv, slave.at # "idle", slave.m \in Cells
    PROVE  /\ Len(ticks) \in Nat /\ Len(ticks) > 0 /\ Len(ticks) - 1 \in Nat
           /\ startTime(cells[slave.m].frame, slave.time) = StartAt(slave.m, Len(ticks))
           /\ slave.price = ticks[Len(ticks)].price
           /\ Seen(slave.m) = Len(ticks) - 1
           /\ slave.price \in Nat
  <1>1. TicksShape /\ CellShape(slave.m)
    BY CellIs DEF BarsIInv, SlaveInv
  <1>2. Len(ticks) \in Nat /\ Len(ticks) > 0
    BY <1>1 DEF TicksShape
  <1>3. startTime(cells[slave.m].frame, slave.time) = StartAt(slave.m, Len(ticks))
    <2>1. cells[slave.m].frame = CellFrames[slave.m]
      BY <1>1 DEF CellShape
    <2>2. slave.time = ticks[Len(ticks)].time
      BY <1>1 DEF TicksShape
    <2>3. QED
      BY <2>1, <2>2 DEF StartAt
  <1>4. slave.price = ticks[Len(ticks)].price
    BY <1>1 DEF TicksShape
  <1>5. slave.price \in Nat
    <2>1. PICK X : X = [came : Times, time : Stamps, price : Prices]
      OBVIOUS
    <2>2. ticks \in Seq(X)
      BY <1>1, <2>1 DEF TicksShape
    <2>3. ticks[Len(ticks)] \in X
      BY <1>2, <2>2
    <2>4. ticks[Len(ticks)].price \in Prices
      BY <2>1, <2>3
    <2>5. Prices \subseteq Nat
      BY BarsAssumption
    <2>6. QED
      BY <1>4, <2>4, <2>5
  <1>6. Seen(slave.m) = Len(ticks) - 1
    <2>1. slave.m <= slave.m
      BY FramesAre
    <2>2. QED
      BY <2>1 DEF Seen
  <1>7. QED
    BY <1>2, <1>3, <1>4, <1>5, <1>6

\* The slave goes on to the next frame.
LEMMA GoesOn ==
    ASSUME BarsIInv, slave.at # "idle", NEW m \in Cells, slave.m = m, UNCHANGED ticks,
           slave' = NextCell(m)
    PROVE  /\ SlaveShape'
           /\ slave'.at \in {"idle", "cell"}
           /\ slave'.at # "idle" => slave'.time = slave.time /\ slave'.price = slave.price
           /\ \A n \in Cells : n # m => Seen(n)' = Seen(n)
           /\ Seen(m)' = Len(ticks)
           /\ \A n : ~On(n)' /\ ~NewOn(n)' /\ ~Counted(n)'
  <1>1. PICK l : l = Len(CellFrames)
    OBVIOUS
  <1>2. l \in Nat /\ Cells = 1..l /\ m \in 1..l /\ \A n \in Cells : n \in Int
    BY <1>1, FramesAre
  <1>3. Len(cells) = l
    <2>1. cells = [n \in 1..l |-> cells[n]]
      BY <1>2 DEF BarsIInv, CellInv
    <2>2. QED
      BY <1>2, <2>1
  <1>4. CASE m = l
    <2>1. slave' = [at |-> "idle"]
      BY <1>1, <1>3, <1>4 DEF NextCell
    <2>2. slave'.at = "idle"
      BY <2>1
    <2>3. \A n \in Cells : n # m => ~(m <= n)
      BY <1>2, <1>4
    <2>4. QED
      BY <1>1, <2>1, <2>2, <2>3 DEF SlaveShape, Seen, On, NewOn, Counted
  <1>5. CASE m # l
    <2>1. slave' = [at |-> "cell", m |-> m + 1, time |-> slave.time, price |-> slave.price]
      BY <1>1, <1>3, <1>5 DEF NextCell
    <2>2. /\ slave'.at = "cell" /\ slave'.m = m + 1
          /\ slave'.time = slave.time /\ slave'.price = slave.price
      BY <2>1
    <2>3. m + 1 \in Cells /\ ~(m + 1 <= m)
      BY <1>2, <1>5
    <2>4. \A n \in Cells : n # m => (m + 1 <= n <=> m <= n)
      BY <1>2
    <2>5. SlaveShape'
      BY <2>1, <2>2, <2>3 DEF SlaveShape
    <2>6. ASSUME NEW n \in Cells, n # m PROVE Seen(n)' = Seen(n)
      BY <1>1, <2>2, <2>4, <2>6 DEF Seen
    <2>7. Seen(m)' = Len(ticks)
      BY <2>2, <2>3 DEF Seen
    <2>8. \A n : ~On(n)' /\ ~NewOn(n)' /\ ~Counted(n)'
      BY <2>2 DEF On, NewOn, Counted
    <2>9. QED
      BY <1>1, <2>2, <2>5, <2>6, <2>7, <2>8
  <1>6. QED
    BY <1>4, <1>5

\* The frame that is not written keeps its facts.
LEMMA FrameFacts ==
    ASSUME BarsIInv, NEW m \in Cells
    PROVE  /\ CellShape(m) /\ Indices(m) /\ Writes(m)
           /\ InHours => StartsRise(m)
           /\ InHours /\ NeverHalted /\ CellFrames[m] >= Source => Holds(m)
           /\ cells[m].total \in Nat /\ Begun(m) \in Nat /\ Gone(m) \in Nat
           /\ cells = [n \in Cells |-> IF n = m THEN cells[m] ELSE cells[n]]
           /\ cells[m].frame = CellFrames[m]
  <1>1. CellShape(m) /\ Indices(m) /\ Writes(m)
    BY CellIs DEF BarsIInv
  <1>2. cells[m].total \in Nat /\ Begun(m) \in Nat /\ Gone(m) \in Nat
    BY CountsAre DEF BarsIInv
  <1>3. cells = [n \in Cells |-> IF n = m THEN cells[m] ELSE cells[n]]
    BY DEF BarsIInv, CellInv
  <1>4. InHours => StartsRise(m)
    BY DEF BarsIInv, StartInv
  <1>5. InHours /\ NeverHalted /\ CellFrames[m] >= Source => Holds(m)
    BY DEF BarsIInv, HoldInv
  <1>6. QED
    BY <1>1, <1>2, <1>3, <1>4, <1>5 DEF CellShape

\* A frame that is left alone.
LEMMA LeavesAlone ==
    ASSUME BarsIInv, UNCHANGED <<setup, cells, job, ticks>>, slave.at = "cell",
           SlaveShape', slave'.at \in {"idle", "cell"},
           slave'.at # "idle" => slave'.time = slave.time /\ slave'.price = slave.price,
           InHours /\ NeverHalted =>
              /\ \A n \in Cells : n # slave.m => Seen(n)' = Seen(n)
              /\ cells[slave.m].frame < Source
    PROVE  BarsIInv'
  <1>1. PICK m : m = slave.m
    OBVIOUS
  <1>2. m \in Cells /\ ~On(m) /\ ~Counted(m)
    BY <1>1, AtCell
  <1>3. ~On(m)'
    BY DEF On
  <1>4. /\ CellShape(m) /\ Indices(m)
        /\ InHours => StartsRise(m)
        /\ cells[m].total \in Nat /\ Begun(m) \in Nat /\ Gone(m) \in Nat
        /\ cells = [n \in Cells |-> IF n = m THEN cells[m] ELSE cells[n]]
        /\ cells[m].frame = CellFrames[m]
    BY <1>2, FrameFacts
  <1>5. /\ CellShape(m)' /\ Indices(m)' /\ Writes(m)'
        /\ InHours => StartsRise(m)'
        /\ Begun(m)' = Begun(m) /\ Gone(m)' = Gone(m)
        /\ \A g : BarOf(m, g)' = BarOf(m, g) /\ StartOf(m, g)' = StartOf(m, g)
    BY <1>2, <1>3, <1>4, FrameStands
  <1>6. OnlyFrame(m, cells[m])
    BY <1>4 DEF OnlyFrame
  <1>7. ASSUME InHours, NEW g \in 1..Begun(m), g > Begun(m)' - Rows
        PROVE  StartOf(m, g)' >= StartOf(m, g)
    <2>1. StartOf(m, g) \in Nat
      BY <1>4, <1>5, <1>7 DEF StartsRise
    <2>2. QED
      BY <1>5, <2>1
  <1>8. ~(CellFrames[m] >= Source) \/ ~(InHours /\ NeverHalted)
    BY <1>1, <1>2, <1>4, FramesAre
  <1>9. /\ cells'[m].total \in Nat /\ cells[m].total <= cells'[m].total
        /\ Begun(m)' \in Nat /\ Begun(m) <= Begun(m)' /\ Begun(m)' <= Begun(m) + 1
        /\ Gone(m)' \in Nat /\ Gone(m) <= Gone(m)'
    BY <1>4, <1>5
  <1>10. \A g \in 1..cells[m].total - 1 :
            g >= cells'[m].total + 2 - Rows => BarOf(m, g)' = BarOf(m, g)
    BY <1>5
  <1>11. slave.at # "idle" /\ ~(slave'.at \in {"column", "writing", "writed"})
    OBVIOUS
  <1>12. InHours /\ NeverHalted =>
            /\ \A n \in Cells : n # m => Seen(n)' = Seen(n)
            /\ CellFrames[m] >= Source => Holds(m)'
    BY <1>1, <1>8
  <1>13. InHours => \A g \in 1..Begun(m) :
             g > Begun(m)' - Rows => StartOf(m, g)' >= StartOf(m, g)
    BY <1>7
  <1>14. slave.m = m /\ m \in Cells /\ ~Counted(m)
    BY <1>1, <1>2
  <1>15. QED
    BY <1>5, <1>6, <1>9, <1>10, <1>11, <1>12, <1>13, <1>14, FrameStep

LEMMA SkipKeeps ==
    ASSUME BarsIInv, Skip
    PROVE  BarsIInv'
  <1>1. /\ slave.at = "cell" /\ cells[slave.m].frame < Source
        /\ slave' = NextCell(slave.m) /\ UNCHANGED <<setup, cells, job, ticks>>
    BY DEF Skip
  <1>2. slave.m \in Cells
    BY <1>1, AtCell
  <1>3. PICK m \in Cells : m = slave.m
    BY <1>2
  <1>4. QED
    BY <1>1, <1>3, GoesOn, LeavesAlone

\* A halted stock leaves the frames that follow alone.
LEMMA PauseKeeps ==
    ASSUME BarsIInv, slave.at = "cell", slave.price = 0, slave' = [at |-> "idle"],
           UNCHANGED <<setup, cells, job, ticks>>
    PROVE  BarsIInv'
  <1>1. ~NeverHalted
    <2>1. slave.m \in Cells
      BY AtCell
    <2>2. Len(ticks) \in Nat /\ Len(ticks) > 0 /\ ticks[Len(ticks)].price = 0
      BY <2>1, LastTick
    <2>3. DOMAIN ticks = 1..Len(ticks)
      BY DEF BarsIInv, SlaveInv, TicksShape
    <2>4. QED
      BY <2>2, <2>3 DEF NeverHalted
  <1>2. slave'.at = "idle"
    OBVIOUS
  <1>3. SlaveShape'
    BY DEF SlaveShape
  <1>4. QED
    BY <1>1, <1>2, <1>3, LeavesAlone

IsBar(bar) == bar = [c \in OfBars |-> bar[c]]

\* The slave begins to write a bar.
LEMMA ColumnedIs ==
    ASSUME BarsIInv, slave.at = "cell", NEW m \in Cells, slave.m = m, UNCHANGED ticks,
           NEW row, NEW bar, NEW fresh \in BOOLEAN, slave' = Columned(row, bar, fresh),
           IsBar(bar)
    PROVE  /\ SlaveShape'
           /\ slave'.at = "column" /\ slave'.m = m /\ slave'.time = slave.time
           /\ slave'.price = slave.price
           /\ slave'.row = row /\ slave'.bar = bar /\ slave'.k = 1 /\ slave'.fresh = fresh
           /\ On(m)' /\ (NewOn(m)' <=> fresh) /\ ~Counted(m)'
           /\ Begun(m)' = cells'[m].total
           /\ \A n \in Cells : Seen(n)' = Seen(n)
  <1>1. slave' = [at |-> "column", m |-> m, time |-> slave.time, price |-> slave.price,
                  row |-> row, bar |-> bar, k |-> 1, fresh |-> fresh]
    BY DEF Columned
  <1>2. /\ slave'.at = "column" /\ slave'.m = m /\ slave'.time = slave.time
        /\ slave'.price = slave.price
        /\ slave'.row = row /\ slave'.bar = bar /\ slave'.k = 1 /\ slave'.fresh = fresh
    BY <1>1
  <1>3. slave' = [f \in ColumnFields |-> slave'[f]]
    BY <1>1 DEF ColumnFields
  <1>4. SlaveShape'
    BY <1>2, <1>3 DEF SlaveShape, IsBar
  <1>5. On(m)' /\ (NewOn(m)' <=> fresh) /\ ~Counted(m)'
    BY <1>2 DEF On, NewOn, Counted
  <1>6. Begun(m)' = cells'[m].total
    BY <1>2 DEF Begun
  <1>7. \A n \in Cells : Seen(n)' = Seen(n)
    BY <1>2 DEF Seen
  <1>8. QED
    BY <1>2, <1>4, <1>5, <1>6, <1>7

LEMMA FreshIs ==
    ASSUME BarsIInv, slave.at = "cell", NEW m \in Cells, slave.m = m, UNCHANGED ticks,
           NEW row, NEW bar, slave' = Columned(row, bar, TRUE), IsBar(bar)
    PROVE  /\ SlaveShape'
           /\ slave'.at = "column" /\ slave'.m = m /\ slave'.time = slave.time
           /\ slave'.price = slave.price
           /\ slave'.row = row /\ slave'.bar = bar /\ slave'.k = 1 /\ slave'.fresh
           /\ On(m)' /\ NewOn(m)' /\ ~Counted(m)'
           /\ Begun(m)' = cells'[m].total
           /\ \A n \in Cells : Seen(n)' = Seen(n)
  <1>1. PICK fresh \in BOOLEAN : fresh = TRUE
    OBVIOUS
  <1>2. slave' = Columned(row, bar, fresh)
    BY <1>1
  <1>3. /\ SlaveShape'
        /\ slave'.at = "column" /\ slave'.m = m /\ slave'.time = slave.time
        /\ slave'.price = slave.price
        /\ slave'.row = row /\ slave'.bar = bar /\ slave'.k = 1 /\ slave'.fresh = fresh
        /\ On(m)' /\ (NewOn(m)' <=> fresh) /\ ~Counted(m)'
        /\ Begun(m)' = cells'[m].total
        /\ \A n \in Cells : Seen(n)' = Seen(n)
    BY <1>1, <1>2, ColumnedIs
  <1>4. QED
    BY <1>1, <1>3

\* It writes over the last bar.
LEMMA RewritesKeeps ==
    ASSUME BarsIInv, slave.at = "cell", NEW m \in Cells, slave.m = m,
           UNCHANGED <<setup, cells, job, ticks>>,
           NEW bar, IsBar(bar),
           slave' = Columned(cells[m].writed, bar, FALSE),
           cells[m].total > 0, CellFrames[m] >= Source,
           InHours =>
              /\ bar.start \in Nat \ {0} /\ bar.start <= StartAt(m, Len(ticks))
              /\ StartOf(m, cells[m].total) <= bar.start,
           InHours /\ NeverHalted =>
              Shows(m, bar, Len(ticks)) /\ StartOf(m, cells[m].total) = bar.start
    PROVE  BarsIInv'
  <1>1. /\ ~On(m) /\ ~NewOn(m) /\ ~Counted(m) /\ Begun(m) = cells[m].total
    BY AtCell
  <1>2. /\ SlaveShape'
        /\ slave'.at = "column" /\ slave'.m = m /\ slave'.time = slave.time
        /\ slave'.price = slave.price
        /\ slave'.row = cells[m].writed /\ slave'.bar = bar /\ slave'.k = 1
        /\ slave'.fresh = FALSE
        /\ On(m)' /\ ~NewOn(m)' /\ ~Counted(m)'
        /\ Begun(m)' = cells'[m].total
        /\ \A n \in Cells : Seen(n)' = Seen(n)
    <2>1. PICK row : row = cells[m].writed
      OBVIOUS
    <2>2. slave' = Columned(row, bar, FALSE) /\ FALSE \in BOOLEAN /\ UNCHANGED ticks
      BY <2>1
    <2>3. PICK fresh \in BOOLEAN : fresh = FALSE
      OBVIOUS
    <2>4. slave' = Columned(row, bar, fresh)
      BY <2>2, <2>3
    <2>5. /\ SlaveShape'
          /\ slave'.at = "column" /\ slave'.m = m /\ slave'.time = slave.time
          /\ slave'.price = slave.price
          /\ slave'.row = row /\ slave'.bar = bar /\ slave'.k = 1 /\ slave'.fresh = fresh
          /\ On(m)' /\ (NewOn(m)' <=> fresh) /\ ~Counted(m)'
          /\ Begun(m)' = cells'[m].total
          /\ \A n \in Cells : Seen(n)' = Seen(n)
      BY <2>2, <2>3, <2>4, ColumnedIs
    <2>6. QED
      BY <2>1, <2>3, <2>5
  <1>3. /\ CellShape(m) /\ Indices(m)
        /\ InHours => StartsRise(m)
        /\ InHours /\ NeverHalted /\ CellFrames[m] >= Source => Holds(m)
        /\ cells[m].total \in Nat /\ Begun(m) \in Nat /\ Gone(m) \in Nat
        /\ cells = [n \in Cells |-> IF n = m THEN cells[m] ELSE cells[n]]
    BY FrameFacts
  <1>4. Begun(m)' = Begun(m) /\ Gone(m)' = Gone(m)
    BY <1>1, <1>2 DEF Gone
  <1>5. \A g : BarOf(m, g)' = BarOf(m, g) /\ StartOf(m, g)' = StartOf(m, g)
    BY DEF BarOf, StartOf
  <1>6. CellShape(m)'
    BY <1>3 DEF CellShape
  <1>7. Indices(m)'
    BY <1>1, <1>2, <1>3, <1>4 DEF Indices
  <1>8. Writes(m)'
    <2>1. cells[m].writed = RowOf(cells[m].total)
      BY <1>3 DEF Indices
    <2>2. \A i \in 1..6 : ~(i < 1)
      OBVIOUS
    <2>3. QED
      BY <1>2, <2>1, <2>2 DEF Writes
  <1>9. ASSUME InHours PROVE StartsRise(m)'
    <2>1. StartsRise(m)
      BY <1>3, <1>9
    <2>2. PICK b, t, s : b = Begun(m) /\ t = cells[m].total /\ s = StartAt(m, Len(ticks))
      OBVIOUS
    <2>3. Begun(m)' = b /\ cells'[m].total = t /\ StartAt(m, Len(ticks))' = s
      BY <1>4, <2>2, TicksStay
    <2>4. b = t /\ t > 0 /\ slave'.bar.start = bar.start /\ ~slave'.fresh
      BY <1>1, <1>2, <2>2
    <2>5. /\ \A g \in 1..b : g > b - Rows => StartOf(m, g)' \in Nat \ {0}
          /\ \A g, h \in 1..b : g > b - Rows /\ g < h => StartOf(m, g)' < StartOf(m, h)'
          /\ Len(ticks) > 0 /\ StartOf(m, b)' <= s
      BY <1>5, <2>1, <2>2, <2>4 DEF StartsRise
    <2>6. /\ bar.start \in Nat \ {0} /\ bar.start <= s /\ StartOf(m, t)' <= bar.start
      BY <1>5, <1>9, <2>2
    <2>7. QED
      BY <2>3, <2>4, <2>5, <2>6 DEF StartsRise
  <1>10. ASSUME InHours, NeverHalted PROVE Holds(m)'
    <2>1. Holds(m)
      BY <1>3, <1>10
    <2>2. PICK t, l, b : t = cells[m].total /\ l = Len(ticks) /\ b = Gone(m)
      OBVIOUS
    <2>3. cells'[m].total = t /\ Len(ticks') = l /\ Gone(m)' = b /\ t > 0
      BY <1>4, <2>2
    <2>4. \A g \in 1..t - 1 :
            g > b => /\ BarOf(m, g)' = SummaryTo(m, StartOf(m, g), l)'
                     /\ OfBar(m, StartOf(m, g), l)' # {}
      <3>1. ASSUME NEW g \in 1..t - 1, g > b
            PROVE  /\ BarOf(m, g)' = SummaryTo(m, StartOf(m, g), l)'
                   /\ OfBar(m, StartOf(m, g), l)' # {}
        <4>1. PICK z : z = StartOf(m, g)
          OBVIOUS
        <4>2. BarOf(m, g) = SummaryTo(m, z, l) /\ OfBar(m, z, l) # {}
          BY <2>1, <2>2, <3>1, <4>1 DEF Holds
        <4>3. SummaryTo(m, z, l)' = SummaryTo(m, z, l) /\ OfBar(m, z, l)' = OfBar(m, z, l)
          BY TicksStay
        <4>4. StartOf(m, g)' = z /\ BarOf(m, g)' = BarOf(m, g)
          BY <1>5, <4>1
        <4>5. QED
          BY <4>2, <4>3, <4>4
      <3>2. QED
        BY <3>1
    <2>5. Shows(m, bar, l)'
      <3>1. Shows(m, bar, l)
        BY <1>10, <2>2
      <3>2. QED
        BY <3>1, TicksStay
    <2>6. slave'.bar = bar /\ ~slave'.fresh /\ StartOf(m, t)' = bar.start
      BY <1>2, <1>5, <1>10, <2>2
    <2>7. ~(t = 0) /\ On(m)'
      BY <1>2, <1>3, <2>2, <2>3
    <2>8. QED
      BY <2>3, <2>4, <2>5, <2>6, <2>7 DEF Holds
  <1>11. ASSUME InHours, NEW g \in 1..Begun(m), g > Begun(m)' - Rows
         PROVE  StartOf(m, g)' >= StartOf(m, g)
    <2>1. StartOf(m, g) \in Nat
      BY <1>3, <1>4, <1>11 DEF StartsRise
    <2>2. QED
      BY <1>5, <2>1
  <1>12. /\ cells'[m].total \in Nat /\ cells[m].total <= cells'[m].total
         /\ Begun(m)' \in Nat /\ Begun(m) <= Begun(m)' /\ Begun(m)' <= Begun(m) + 1
         /\ Gone(m)' \in Nat /\ Gone(m) <= Gone(m)'
    BY <1>3, <1>4
  <1>13. OnlyFrame(m, cells[m])
    BY <1>3 DEF OnlyFrame
  <1>14. \A g \in 1..cells[m].total - 1 :
            g >= cells'[m].total + 2 - Rows => BarOf(m, g)' = BarOf(m, g)
    BY <1>5
  <1>15. InHours /\ NeverHalted =>
            /\ \A n \in Cells : n # m => Seen(n)' = Seen(n)
            /\ CellFrames[m] >= Source => Holds(m)'
    BY <1>2, <1>10
  <1>16. InHours => \A g \in 1..Begun(m) :
             g > Begun(m)' - Rows => StartOf(m, g)' >= StartOf(m, g)
    BY <1>11
  <1>17. InHours => StartsRise(m)'
    BY <1>9
  <1>18. slave.at # "idle"
    OBVIOUS
  <1>19. QED
    BY <1>1, <1>2, <1>6, <1>7, <1>8, <1>12, <1>13, <1>14, <1>15, <1>16, <1>17, <1>18,
       FrameStep

\* The last bar of a frame, before it is written.
LEMMA LastBar ==
    ASSUME BarsIInv, slave.at = "cell", NEW m \in Cells, slave.m = m,
           NEW prev, prev = cells[m].data[cells[m].writed],
           NEW start, start = startTime(cells[m].frame, slave.time)
    PROVE  /\ start = StartAt(m, Len(ticks))
           /\ IsBar(prev)
           /\ cells[m].total > 0 => /\ prev = BarOf(m, cells[m].total)
                                    /\ prev.start = StartOf(m, cells[m].total)
                                    /\ ~Empty(cells[m])
           /\ Empty(cells[m]) <=> cells[m].total = 0
           /\ InHours => start \in Nat \ {0}
           /\ InHours /\ cells[m].total > 0 =>
                 /\ prev.start \in Nat \ {0} /\ prev.start <= start
           /\ InHours /\ NeverHalted /\ cells[m].total > 0 /\ CellFrames[m] >= Source =>
                 Shows(m, prev, Len(ticks) - 1)
           /\ cells[m].writing = cells[m].total % Rows
  <1>1. PICK t, l : t = cells[m].total /\ l = Len(ticks)
    OBVIOUS
  <1>2. /\ ~On(m) /\ ~NewOn(m) /\ ~Counted(m) /\ Begun(m) = t
    BY <1>1, AtCell
  <1>3. /\ l \in Nat /\ l > 0 /\ l - 1 \in Nat /\ start = StartAt(m, l) /\ Seen(m) = l - 1
    <2>1. slave.at # "idle"
      OBVIOUS
    <2>2. QED
      BY <1>1, <2>1, LastTick
  <1>4. /\ CellShape(m) /\ Indices(m)
        /\ InHours => StartsRise(m)
        /\ InHours /\ NeverHalted /\ CellFrames[m] >= Source => Holds(m)
        /\ t \in Nat
    BY <1>1, FrameFacts
  <1>5. /\ cells[m].writing = t % Rows
        /\ cells[m].writed = IF t = 0 THEN 0 ELSE RowOf(t)
    BY <1>1, <1>2, <1>4 DEF Indices
  <1>6. cells[m].writed \in 0..Rows - 1
    <2>1. 0 \in 0..Rows - 1
      BY RowsAre
    <2>2. QED
      BY <1>4, <1>5, <2>1, RowRange
  <1>7. IsBar(prev)
    BY <1>4, <1>6 DEF CellShape, IsBar
  <1>8. t > 0 => prev = BarOf(m, t) /\ prev.start = StartOf(m, t)
    BY <1>5 DEF BarOf, StartOf
  <1>9. Empty(cells[m]) <=> t = 0
    <2>1. CASE t = 0
      <3>1. 0 % Rows = 0
        BY RowsAre
      <3>2. QED
        BY <1>5, <2>1, <3>1 DEF Empty
    <2>2. CASE t # 0
      <3>1. PICK u : u = t + 1
        OBVIOUS
      <3>2. u \in Nat /\ t > 0 /\ t < u /\ u - t < Rows /\ u - 1 = t
        BY <1>4, <2>2, <3>1, RowsAre
      <3>3. RowOf(t) # RowOf(u)
        BY <1>4, <3>2, RowsDiffer
      <3>4. RowOf(u) = t % Rows
        BY <3>2 DEF RowOf
      <3>5. QED
        BY <1>5, <2>2, <3>3, <3>4 DEF Empty
    <2>3. QED
      BY <2>1, <2>2
  <1>10. ASSUME InHours PROVE start \in Nat \ {0}
    <2>1. ClockRight /\ TicksShape
      BY ClockIsRight DEF BarsIInv, SlaveInv
    <2>2. l \in 1..Len(ticks)
      BY <1>1, <1>3
    <2>3. QED
      BY <1>3, <1>10, <2>1, <2>2 DEF ClockRight
  <1>11. ASSUME InHours, t > 0 PROVE prev.start \in Nat \ {0} /\ prev.start <= start
    <2>1. StartsRise(m)
      BY <1>4, <1>11
    <2>2. t \in 1..t /\ t > t - Rows
      BY <1>4, <1>11, RowsAre
    <2>3. QED
      BY <1>1, <1>2, <1>3, <1>8, <1>11, <2>1, <2>2 DEF StartsRise
  <1>12. ASSUME InHours, NeverHalted, t > 0, CellFrames[m] >= Source PROVE Shows(m, prev, l - 1)
    <2>1. Holds(m)
      BY <1>4, <1>12
    <2>2. Shows(m, BarOf(m, t), Seen(m))
      BY <1>1, <1>2, <1>12, <2>1 DEF Holds
    <2>3. QED
      BY <1>3, <1>8, <1>12, <2>2
  <1>13. QED
    BY ONLY <1>1, <1>3, <1>4, <1>5, <1>7, <1>8, <1>9, <1>10, <1>11, <1>12

\* The last bar grows.
LEMMA GrowsKeeps ==
    ASSUME BarsIInv, slave.at = "cell", NEW m \in Cells, slave.m = m,
           UNCHANGED <<setup, cells, job, ticks>>, CellFrames[m] >= Source,
           NEW prev, prev = cells[m].data[cells[m].writed],
           NEW start, start = startTime(cells[m].frame, slave.time),
           ~Empty(cells[m]), prev.start = start,
           slave' = Columned(cells[m].writed, Updated(prev, slave.price), FALSE)
    PROVE  BarsIInv'
  <1>1. PICK t, l, bar : /\ t = cells[m].total /\ l = Len(ticks)
                         /\ bar = Updated(prev, slave.price)
    OBVIOUS
  <1>2. /\ start = StartAt(m, l) /\ IsBar(prev) /\ t # 0
        /\ t > 0 => prev.start = StartOf(m, t)
        /\ InHours => start \in Nat \ {0}
        /\ InHours /\ NeverHalted /\ t > 0 => Shows(m, prev, l - 1)
    BY <1>1, LastBar
  <1>3. t \in Nat /\ t > 0
    BY <1>1, <1>2, FrameFacts
  <1>4. IsBar(bar) /\ bar.start = prev.start
    <2>1. bar = [prev EXCEPT !.high = IF slave.price > @ THEN slave.price ELSE @,
                             !.low = IF @ > slave.price THEN slave.price ELSE @,
                             !.close = slave.price,
                             !.volume = IF setup.append THEN @ + 1 ELSE @]
      BY <1>1 DEF Updated
    <2>2. prev = [c \in OfBars |-> prev[c]]
      BY <1>2 DEF IsBar
    <2>3. DOMAIN bar = OfBars /\ bar = [c \in DOMAIN bar |-> bar[c]] /\ bar.start = prev.start
      BY <2>1, <2>2 DEF OfBars
    <2>4. QED
      BY <2>3 DEF IsBar
  <1>5. l \in Nat /\ l > 0 /\ l - 1 \in Nat /\ slave.price = ticks[l].price
    <2>1. slave.at # "idle"
      OBVIOUS
    <2>2. QED
      BY <1>1, <2>1, LastTick
  <1>6. ASSUME InHours, NeverHalted PROVE Shows(m, bar, l)
    <2>1. PICK k : k = l - 1
      OBVIOUS
    <2>2. k \in Nat /\ k < l /\ k + 1 = l /\ 1..l = (1..k) \cup {l}
      BY <1>5, <2>1
    <2>3. /\ prev = SummaryTo(m, start, k) /\ OfBar(m, start, k) # {}
          /\ \A i \in 1..k : StartAt(m, i) <= start
      BY <1>2, <1>3, <1>6, <2>1 DEF Shows
    <2>4. TicksShape
      BY DEF BarsIInv, SlaveInv
    <2>5. SummaryTo(m, start, k + 1) = Updated(SummaryTo(m, start, k), ticks[k + 1].price)
      BY <1>1, <1>2, <2>2, <2>3, <2>4, SummaryGrows
    <2>6. bar = SummaryTo(m, start, l)
      BY <1>1, <1>5, <2>2, <2>3, <2>5
    <2>7. OfBar(m, start, l) # {}
      BY <1>2, <1>5 DEF OfBar
    <2>8. \A i \in 1..l : StartAt(m, i) <= start
      BY <1>2, <1>6, <2>2, <2>3
    <2>9. QED
      BY <1>4, <2>6, <2>7, <2>8 DEF Shows
  <1>7. InHours =>
              /\ bar.start \in Nat \ {0} /\ bar.start <= StartAt(m, Len(ticks))
              /\ StartOf(m, cells[m].total) <= bar.start
    <2>1. bar.start = start /\ StartOf(m, cells[m].total) = start /\ StartAt(m, Len(ticks)) = start
      BY <1>1, <1>2, <1>3, <1>4
    <2>2. \A n \in Nat : n <= n
      OBVIOUS
    <2>3. QED
      BY <1>2, <2>1, <2>2
  <1>8. InHours /\ NeverHalted =>
              Shows(m, bar, Len(ticks)) /\ StartOf(m, cells[m].total) = bar.start
    BY <1>1, <1>2, <1>3, <1>4, <1>6
  <1>9. slave' = Columned(cells[m].writed, bar, FALSE) /\ cells[m].total > 0
    BY <1>1, <1>3
  <1>10. QED
    BY <1>4, <1>7, <1>8, <1>9, RewritesKeeps

LEMMA OpenedIs ==
    ASSUME NEW start, NEW price
    PROVE  IsBar(Opened(start, price)) /\ Opened(start, price).start = start
  BY DEF Opened, IsBar, OfBars

\* After a halt the price takes the place of the empty bar.
LEMMA ReplacesKeeps ==
    ASSUME BarsIInv, slave.at = "cell", NEW m \in Cells, slave.m = m,
           UNCHANGED <<setup, cells, job, ticks>>, CellFrames[m] >= Source,
           Paused(cells[m]),
           NEW start, start = startTime(cells[m].frame, slave.time),
           slave' = Columned(cells[m].writed, Opened(start, slave.price), FALSE)
    PROVE  BarsIInv'
  <1>1. PICK t, l, bar, prev :
            /\ t = cells[m].total /\ l = Len(ticks)
            /\ bar = Opened(start, slave.price)
            /\ prev = cells[m].data[cells[m].writed]
    OBVIOUS
  <1>2. /\ start = StartAt(m, l)
        /\ t > 0 => prev.start = StartOf(m, t)
        /\ InHours => start \in Nat \ {0}
        /\ InHours /\ t > 0 => prev.start \in Nat \ {0} /\ prev.start <= start
        /\ InHours /\ NeverHalted /\ t > 0 => Shows(m, prev, l - 1)
    BY <1>1, LastBar
  <1>3. t \in Nat /\ t > 0
    <2>1. hash_row(cells[m].tail, cells[m].writed) > 0
      BY DEF Paused
    <2>2. t # 0
      BY <1>1, <2>1, HashNow DEF BarsIInv
    <2>3. QED
      BY <1>1, <2>2, FrameFacts
  <1>4. IsBar(bar) /\ bar.start = start
    BY <1>1, OpenedIs
  <1>5. prev.close = 0
    BY <1>1 DEF Paused
  <1>6. ~(InHours /\ NeverHalted)
    <2>1. SUFFICES ASSUME InHours, NeverHalted PROVE FALSE
      OBVIOUS
    <2>2. PICK k, of : k = l - 1 /\ of = OfBar(m, prev.start, l - 1)
      OBVIOUS
    <2>3. l \in Nat /\ k \in Nat /\ k < l
      <3>1. slave.at # "idle"
        OBVIOUS
      <3>2. l \in Nat /\ l - 1 \in Nat
        BY <1>1, <3>1, LastTick
      <3>3. QED
        BY <2>2, <3>2
    <2>4. prev = SummaryTo(m, prev.start, k) /\ of # {}
      BY <1>2, <1>3, <2>1, <2>2 DEF Shows
    <2>5. of \subseteq 1..k /\ of \subseteq Int /\ IsFiniteSet(of)
      BY <2>2, <2>3, TicksOfBar
    <2>6. Max(of) \in of
      BY <2>4, <2>5, MaxIs
    <2>7. prev.close = ticks[Max(of)].price
      <3>1. PICK s : s = prev.start
        OBVIOUS
      <3>2. SummaryTo(m, s, k).close = ticks[Max(of)].price
        BY <2>2, <3>1 DEF SummaryTo
      <3>3. QED
        BY <2>4, <3>1, <3>2
    <2>8. Max(of) \in DOMAIN ticks
      <3>1. DOMAIN ticks = 1..l
        BY <1>1 DEF BarsIInv, SlaveInv, TicksShape
      <3>2. QED
        BY <2>3, <2>5, <2>6, <3>1
    <2>9. QED
      BY <1>5, <2>1, <2>7, <2>8 DEF NeverHalted
  <1>7. InHours =>
              /\ bar.start \in Nat \ {0} /\ bar.start <= StartAt(m, Len(ticks))
              /\ StartOf(m, cells[m].total) <= bar.start
    BY <1>1, <1>2, <1>3, <1>4
  <1>8. InHours /\ NeverHalted =>
              Shows(m, bar, Len(ticks)) /\ StartOf(m, cells[m].total) = bar.start
    BY <1>6
  <1>9. slave' = Columned(cells[m].writed, bar, FALSE) /\ cells[m].total > 0
    BY <1>1, <1>3
  <1>10. QED
    BY <1>4, <1>7, <1>8, <1>9, RewritesKeeps

\* What a ring holds.
DataShape(data) ==
    data = [r \in 0..Rows - 1 |-> data[r]] /\ \A r \in 0..Rows - 1 : IsBar(data[r])

RingShape(cell, frame) ==
    cell = [f \in CellFields |-> cell[f]] /\ cell.frame = frame /\ DataShape(cell.data)

LEMMA ShapeIs ==
    ASSUME NEW m
    PROVE  /\ CellShape(m) <=> RingShape(cells[m], CellFrames[m])
           /\ CellShape(m)' <=> RingShape(cells'[m], CellFrames[m])
  BY DEF CellShape, RingShape, DataShape, IsBar

\* A new bar: the row of the oldest one is given up first.
LEMMA GivesUp ==
    ASSUME BarsIInv, slave.at = "cell", NEW m \in Cells, slave.m = m,
           NEW c, c = check(cells[m]), cells'[m] = c, NewOn(m)'
    PROVE  /\ c = [f \in CellFields |-> c[f]]
           /\ c.frame = cells[m].frame /\ c.data = cells[m].data /\ c.writing = cells[m].writing
           /\ c.writed = cells[m].writed /\ c.total = cells[m].total
           /\ c.tail = Gone(m)' % Rows
           /\ Gone(m)' \in Nat /\ Gone(m) <= Gone(m)' /\ Gone(m)' >= cells[m].total + 1 - Rows
           /\ Gone(m)' <= cells[m].total
  <1>1. PICK t, g, d : t = cells[m].total /\ g = Gone(m) /\ d = Gone(m)'
    OBVIOUS
  <1>2. ~NewOn(m) /\ ~Counted(m)
    BY AtCell
  <1>3. /\ CellShape(m) /\ Indices(m) /\ t \in Nat
    BY <1>1, FrameFacts
  <1>4. /\ cells[m].tail = g % Rows
        /\ cells[m].writed = IF t = 0 THEN 0 ELSE RowOf(t)
    BY <1>1, <1>3 DEF Indices
  <1>5. PICK v : v = IF (cells[m].writed + 1) % Rows = cells[m].tail
                     THEN (cells[m].tail + 1) % Rows ELSE cells[m].tail
    OBVIOUS
  <1>6. /\ c = [f \in CellFields |-> c[f]]
        /\ c.frame = cells[m].frame /\ c.data = cells[m].data /\ c.writing = cells[m].writing
        /\ c.writed = cells[m].writed /\ c.total = cells[m].total
        /\ c.tail = v
    <2>1. PICK e : e = cells[m]
      OBVIOUS
    <2>2. e = [f \in CellFields |-> e[f]]
      BY <1>3, <2>1 DEF CellShape
    <2>3. c = IF (e.writed + 1) % Rows = e.tail THEN [e EXCEPT !.tail = (e.tail + 1) % Rows] ELSE e
      BY <2>1 DEF check
    <2>4. v = IF (e.writed + 1) % Rows = e.tail THEN (e.tail + 1) % Rows ELSE e.tail
      BY <1>5, <2>1
    <2>5. /\ c = [f \in CellFields |-> c[f]]
          /\ c.frame = e.frame /\ c.data = e.data /\ c.writing = e.writing
          /\ c.writed = e.writed /\ c.total = e.total /\ c.tail = v
      BY ONLY <2>2, <2>3, <2>4 DEF CellFields
    <2>6. QED
      BY <2>1, <2>5
  <1>7. /\ g = IF t - Rows < 0 THEN 0 ELSE t - Rows
        /\ d = IF t + 1 - Rows < 0 THEN 0 ELSE t + 1 - Rows
    <2>1. cells'[m].total = t
      BY <1>1, <1>6
    <2>2. g = IF t - Rows < 0 THEN 0 ELSE t - Rows
      BY <1>1, <1>2 DEF Gone
    <2>3. PICK n : n = IF NewOn(m)' THEN cells'[m].total + 1 ELSE cells'[m].total
      OBVIOUS
    <2>4. Gone(m)' = IF n - Rows < 0 THEN 0 ELSE n - Rows
      BY <2>3 DEF Gone
    <2>5. n = t + 1
      BY <2>1, <2>3
    <2>6. QED
      BY <1>1, <1>3, <2>2, <2>4, <2>5, RowsAre
  <1>8. g \in Nat /\ d \in Nat /\ g <= d /\ d >= t + 1 - Rows /\ d <= t
    BY <1>3, <1>7, RowsAre
  <1>9. t > 0 => (RowOf(t) + 1) % Rows = t % Rows
    <2>1. SUFFICES ASSUME t > 0 PROVE (RowOf(t) + 1) % Rows = t % Rows
      OBVIOUS
    <2>2. PICK w : w = t - 1
      OBVIOUS
    <2>3. w \in Nat /\ w + 1 = t
      BY <1>3, <2>1, <2>2
    <2>4. ((w % Rows) + 1) % Rows = (w + 1) % Rows
      BY <2>3, RowsAre, ModSuccessor
    <2>5. QED
      BY <2>2, <2>3, <2>4 DEF RowOf
  <1>10. 0 % Rows = 0 /\ 1 % Rows = 1
    BY RowsAre, ModSmall
  <1>11. v = d % Rows
    <2>1. CASE t = 0
      <3>1. cells[m].writed = 0 /\ g = 0 /\ d = 0
        BY <1>4, <1>7, <2>1, RowsAre
      <3>2. QED
        BY <1>4, <1>5, <1>10, <3>1
    <2>2. CASE t > 0 /\ t < Rows
      <3>1. g = 0 /\ d = 0 /\ t % Rows = t
        BY <1>3, <1>7, <2>2, RowsAre, RowsSame
      <3>2. (cells[m].writed + 1) % Rows = t
        BY <1>3, <1>4, <1>9, <2>2, <3>1
      <3>3. QED
        BY <1>3, <1>4, <1>5, <1>10, <2>2, <3>1, <3>2
    <2>3. CASE t >= Rows
      <3>1. t > 0 /\ t # 0 /\ g = t - Rows /\ d = g + 1
        BY <1>3, <1>7, <2>3, RowsAre
      <3>2. t % Rows = g % Rows
        <4>1. PICK q, r : q = g \div Rows /\ r = g % Rows
          OBVIOUS
        <4>2. q \in Int /\ r \in 0..Rows - 1 /\ g = Rows * q + r /\ Rows * q \in Int
          BY <1>8, <4>1, RowsAre, DivMod
        <4>3. PICK k : k = q + 1
          OBVIOUS
        <4>4. k \in Int /\ Rows * k = Rows * q + Rows
          BY <4>2, <4>3, RowsAre
        <4>5. t = Rows * k + r
          BY <1>3, <1>8, <3>1, <4>2, <4>4, RowsAre
        <4>6. t % Rows = r
          BY <1>3, <4>2, <4>4, <4>5, RowsAre, ModUnique
        <4>7. QED
          BY <4>1, <4>6
      <3>3. v = ((g % Rows) + 1) % Rows
        BY <1>4, <1>5, <1>9, <3>1, <3>2
      <3>4. ((g % Rows) + 1) % Rows = (g + 1) % Rows
        BY <1>8, RowsAre, ModSuccessor
      <3>5. QED
        BY <3>1, <3>3, <3>4
    <2>4. QED
      BY <1>3, <2>1, <2>2, <2>3, RowsAre
  <1>12. QED
    BY <1>1, <1>6, <1>8, <1>11

LEMMA OpensKeeps ==
    ASSUME BarsIInv, slave.at = "cell", NEW m \in Cells, slave.m = m,
           UNCHANGED <<setup, job, ticks>>, CellFrames[m] >= Source,
           NEW prev, prev = cells[m].data[cells[m].writed],
           NEW start, start = startTime(cells[m].frame, slave.time),
           Empty(cells[m]) \/ prev.start = 0 \/ prev.start # start,
           OnlyFrame(m, check(cells[m])),
           slave' = Columned(cells[m].writing, Opened(start, slave.price), TRUE)
    PROVE  BarsIInv'
  <1>1. PICK t, l, bar, c, d :
            /\ t = cells[m].total /\ l = Len(ticks) /\ d = Gone(m)'
            /\ bar = Opened(start, slave.price) /\ c = check(cells[m])
    OBVIOUS
  <1>2. /\ start = StartAt(m, l)
        /\ t > 0 => prev = BarOf(m, t) /\ prev.start = StartOf(m, t) /\ ~Empty(cells[m])
        /\ InHours => start \in Nat \ {0}
        /\ InHours /\ t > 0 => prev.start \in Nat \ {0} /\ prev.start <= start
        /\ InHours /\ NeverHalted /\ t > 0 => Shows(m, prev, l - 1)
        /\ cells[m].writing = t % Rows
    BY <1>1, LastBar
  <1>3. /\ CellShape(m) /\ Indices(m)
        /\ InHours => StartsRise(m)
        /\ InHours /\ NeverHalted /\ CellFrames[m] >= Source => Holds(m)
        /\ t \in Nat /\ Begun(m) \in Nat /\ Gone(m) \in Nat
        /\ cells = [n \in Cells |-> IF n = m THEN cells[m] ELSE cells[n]]
        /\ ~On(m) /\ ~NewOn(m) /\ ~Counted(m) /\ Begun(m) = t
    BY <1>1, FrameFacts, AtCell
  <1>4. IsBar(bar) /\ bar.start = start
    BY <1>1, OpenedIs
  <1>5. OnlyFrame(m, c) /\ cells'[m] = c
    BY <1>1, <1>3 DEF OnlyFrame
  <1>6. /\ SlaveShape'
        /\ slave'.at = "column" /\ slave'.m = m /\ slave'.time = slave.time
        /\ slave'.price = slave.price
        /\ slave'.row = cells[m].writing /\ slave'.bar = bar /\ slave'.k = 1
        /\ slave'.fresh
        /\ On(m)' /\ NewOn(m)' /\ ~Counted(m)'
        /\ Begun(m)' = cells'[m].total
        /\ \A n \in Cells : Seen(n)' = Seen(n)
    <2>1. PICK row : row = cells[m].writing
      OBVIOUS
    <2>2. slave' = Columned(row, bar, TRUE) /\ UNCHANGED ticks
      BY <1>1, <2>1
    <2>3. /\ SlaveShape'
          /\ slave'.at = "column" /\ slave'.m = m /\ slave'.time = slave.time
          /\ slave'.price = slave.price
          /\ slave'.row = row /\ slave'.bar = bar /\ slave'.k = 1 /\ slave'.fresh
          /\ On(m)' /\ NewOn(m)' /\ ~Counted(m)'
          /\ Begun(m)' = cells'[m].total
          /\ \A n \in Cells : Seen(n)' = Seen(n)
      <3>1. BarsIInv /\ slave.at = "cell" /\ m \in Cells /\ slave.m = m
        OBVIOUS
      <3>2. IsBar(bar)
        BY <1>4
      <3>3. QED
        BY ONLY <2>2, <3>1, <3>2, FreshIs
    <2>4. QED
      BY <2>1, <2>3
  <1>7. /\ c = [f \in CellFields |-> c[f]]
        /\ c.frame = cells[m].frame /\ c.data = cells[m].data /\ c.writing = cells[m].writing
        /\ c.writed = cells[m].writed /\ c.total = t
        /\ c.tail = d % Rows
        /\ d \in Nat /\ Gone(m) <= d /\ d >= t + 1 - Rows /\ d <= t
    BY <1>1, <1>5, <1>6, GivesUp
  <1>8. Begun(m)' = t /\ cells'[m].total = t
    BY <1>5, <1>6, <1>7
  <1>9. \A g : BarOf(m, g)' = BarOf(m, g) /\ StartOf(m, g)' = StartOf(m, g)
    BY <1>5, <1>7 DEF BarOf, StartOf
  <1>10. CellShape(m)'
    <2>1. RingShape(cells[m], CellFrames[m])
      BY <1>3, ShapeIs
    <2>2. RingShape(c, CellFrames[m])
      BY <1>7, <2>1 DEF RingShape
    <2>3. QED
      BY <1>5, <2>2, ShapeIs
  <1>11. Indices(m)'
    <2>1. cells'[m].total \in Nat /\ Begun(m)' = Begun(m)
      BY <1>3, <1>8
    <2>2. cells'[m].writing = (IF Counted(m)' THEN cells'[m].total + 1 ELSE cells'[m].total) % Rows
      BY <1>2, <1>5, <1>6, <1>7
    <2>3. cells'[m].writed = IF cells'[m].total = 0 THEN 0 ELSE RowOf(cells'[m].total)
      BY <1>1, <1>3, <1>5, <1>7 DEF Indices
    <2>4. cells'[m].tail = Gone(m)' % Rows
      BY <1>1, <1>5, <1>7
    <2>5. Begun(m)' = 0 => cells'[m].data[0].start = 0
      <3>1. Begun(m) = 0 => cells[m].data[0].start = 0
        BY <1>3 DEF Indices
      <3>2. QED
        BY <1>5, <1>7, <2>1, <3>1
    <2>6. CellFrames[m] >= Source
      OBVIOUS
    <2>7. QED
      BY ONLY <2>1, <2>2, <2>3, <2>4, <2>5, <2>6 DEF Indices
  <1>12. Writes(m)'
    <2>1. RowOf(t + 1) = t % Rows
      <3>1. PICK u : u = t + 1
        OBVIOUS
      <3>2. u - 1 = t
        BY <1>3, <3>1
      <3>3. RowOf(u) = t % Rows
        BY <3>2 DEF RowOf
      <3>4. QED
        BY <3>1, <3>3
    <2>2. \A i \in 1..6 : ~(i < 1)
      OBVIOUS
    <2>3. QED
      <3>1. cells[m].writing = t % Rows /\ slave'.row = cells[m].writing
        BY <1>2, <1>6
      <3>2. /\ slave'.row = RowOf(cells'[m].total + 1) /\ slave'.fresh
            /\ slave'.at = "column" /\ slave'.k = 1
        <4>1. slave'.fresh /\ slave'.at = "column" /\ slave'.k = 1
          BY <1>6
        <4>2. slave'.row = RowOf(t + 1) /\ cells'[m].total = t
          BY ONLY <1>8, <2>1, <3>1
        <4>3. QED
          BY ONLY <4>1, <4>2
      <3>3. QED
        BY ONLY <2>2, <3>2 DEF Writes
  <1>13. ASSUME InHours, t > 0 PROVE StartOf(m, t) < start
    BY <1>2, <1>13
  <1>14. ASSUME InHours PROVE StartsRise(m)'
    <2>1. StartsRise(m)
      BY <1>3, <1>14
    <2>2. StartAt(m, Len(ticks))' = start /\ slave'.bar.start = start
      <3>1. StartAt(m, l)' = StartAt(m, l) /\ Len(ticks') = l
        BY <1>1, TicksStay
      <3>2. QED
        BY <1>2, <1>4, <1>6, <3>1
    <2>3. /\ \A g \in 1..t : g > t - Rows => StartOf(m, g)' \in Nat \ {0}
          /\ \A g, h \in 1..t : g > t - Rows /\ g < h => StartOf(m, g)' < StartOf(m, h)'
          /\ t > 0 => Len(ticks) > 0 /\ StartOf(m, t)' <= start
      BY <1>1, <1>2, <1>3, <1>9, <2>1 DEF StartsRise
    <2>4. start \in Nat \ {0} /\ start <= start /\ (t > 0 => StartOf(m, t)' < start)
      BY <1>2, <1>9, <1>13, <1>14
    <2>5. QED
      BY <1>6, <1>8, <2>2, <2>3, <2>4 DEF StartsRise
  <1>15. l \in Nat /\ l > 0 /\ l - 1 \in Nat /\ slave.price = ticks[l].price /\ Seen(m) = l - 1
    <2>1. slave.at # "idle"
      OBVIOUS
    <2>2. QED
      BY <1>1, <2>1, LastTick
  <1>16. ASSUME InHours, NeverHalted PROVE Holds(m)'
    <2>1. Holds(m) /\ StartsRise(m)
      BY <1>3, <1>16
    <2>2. PICK k : k = l - 1
      OBVIOUS
    <2>3. k \in Nat /\ k < l /\ k + 1 = l /\ 1..l = (1..k) \cup {l} /\ Seen(m)' = k
      BY <1>6, <1>15, <2>2
    <2>4. t = 0 => k = 0
      BY <1>1, <1>15, <2>1, <2>2 DEF Holds
    <2>5. t > 0 => Shows(m, BarOf(m, t), k)
      BY <1>2, <1>16, <2>2
    <2>6. \A i \in 1..k : StartAt(m, i) < start
      <3>1. CASE t = 0
        BY <2>4, <3>1
      <3>2. CASE t > 0
        <4>1. \A i \in 1..k : StartAt(m, i) <= StartOf(m, t)
          BY <2>5, <3>2 DEF Shows, StartOf
        <4>2. StartOf(m, t) < start /\ StartOf(m, t) \in Nat /\ start \in Nat
          BY <1>2, <1>13, <1>16, <3>2
        <4>3. ClockRight /\ TicksShape
          BY ClockIsRight DEF BarsIInv, SlaveInv
        <4>4. \A i \in 1..k : StartAt(m, i) \in Nat
          <5>1. \A i \in 1..k : i \in 1..Len(ticks)
            BY <1>1, <2>3
          <5>2. QED
            BY <1>16, <4>3, <5>1 DEF ClockRight
        <4>5. QED
          BY <4>1, <4>2, <4>4
      <3>3. QED
        BY <1>3, <3>1, <3>2
    <2>7. OfBar(m, start, k) = {}
      <3>1. start \in Nat
        BY <1>2, <1>16
      <3>2. QED
        BY <2>6, <3>1 DEF OfBar
    <2>8. Shows(m, bar, l)
      <3>1. TicksShape
        BY DEF BarsIInv, SlaveInv
      <3>2. SummaryTo(m, start, k + 1) = Opened(start, ticks[k + 1].price)
        BY <1>1, <1>2, <2>3, <2>7, <3>1, SummaryGrows
      <3>3. bar = SummaryTo(m, start, l)
        BY <1>1, <1>15, <2>3, <3>2
      <3>4. OfBar(m, start, l) # {}
        BY <1>2, <1>15 DEF OfBar
      <3>5. \A i \in 1..l : StartAt(m, i) <= start
        <4>1. start \in Nat /\ StartAt(m, l) = start
          BY <1>2, <1>16
        <4>2. ASSUME NEW i \in 1..l PROVE StartAt(m, i) <= start
          <5>1. CASE i = l
            BY <4>1, <5>1
          <5>2. CASE i # l
            <6>1. i \in 1..k /\ i \in 1..Len(ticks)
              BY <1>1, <2>3, <5>2
            <6>2. StartAt(m, i) < start
              BY <2>6, <6>1
            <6>3. StartAt(m, i) \in Nat
              <7>1. ClockRight /\ TicksShape
                BY ClockIsRight DEF BarsIInv, SlaveInv
              <7>2. QED
                BY <1>16, <6>1, <7>1 DEF ClockRight
            <6>4. QED
              BY <4>1, <6>2, <6>3
          <5>3. QED
            BY <5>1, <5>2
        <4>3. QED
          BY <4>2
      <3>6. QED
        BY <1>4, <3>3, <3>4, <3>5 DEF Shows
    <2>9. \A g \in 1..t - 1 :
            g > d => /\ BarOf(m, g)' = SummaryTo(m, StartOf(m, g), l)'
                     /\ OfBar(m, StartOf(m, g), l)' # {}
      <3>1. ASSUME NEW g \in 1..t - 1, g > d
            PROVE  /\ BarOf(m, g)' = SummaryTo(m, StartOf(m, g), l)'
                   /\ OfBar(m, StartOf(m, g), l)' # {}
        <4>1. PICK z : z = StartOf(m, g)
          OBVIOUS
        <4>2. g > Gone(m)
          BY <1>3, <1>7, <3>1
        <4>3. BarOf(m, g) = SummaryTo(m, z, l) /\ OfBar(m, z, l) # {}
          BY <1>1, <2>1, <3>1, <4>1, <4>2 DEF Holds
        <4>4. SummaryTo(m, z, l)' = SummaryTo(m, z, l) /\ OfBar(m, z, l)' = OfBar(m, z, l)
          BY TicksStay
        <4>5. StartOf(m, g)' = z /\ BarOf(m, g)' = BarOf(m, g)
          BY <1>9, <4>1
        <4>6. QED
          BY <4>3, <4>4, <4>5
      <3>2. QED
        BY <3>1
    <2>10. t > 0 => Shows(m, BarOf(m, t), k)'
      <3>1. SUFFICES ASSUME t > 0 PROVE Shows(m, BarOf(m, t), k)'
        OBVIOUS
      <3>2. PICK z : z = BarOf(m, t)
        OBVIOUS
      <3>3. Shows(m, z, k)'
        BY <2>5, <3>1, <3>2, TicksStay
      <3>4. BarOf(m, t)' = z
        BY <1>9, <3>2
      <3>5. QED
        BY <3>3, <3>4
    <2>11. Shows(m, bar, l)'
      BY <2>8, TicksStay
    <2>12. Len(ticks') = l /\ Gone(m)' = d /\ slave'.bar = bar /\ slave'.fresh
      BY <1>1, <1>6
    <2>13. QED
      BY <1>8, <2>3, <2>4, <2>9, <2>10, <2>11, <2>12 DEF Holds
  <1>17. ASSUME InHours, NEW g \in 1..Begun(m), g > Begun(m)' - Rows
         PROVE  StartOf(m, g)' >= StartOf(m, g)
    <2>1. StartOf(m, g) \in Nat
      BY <1>3, <1>8, <1>17 DEF StartsRise
    <2>2. QED
      BY <1>9, <2>1
  <1>18. /\ cells'[m].total \in Nat /\ cells[m].total <= cells'[m].total
         /\ Begun(m)' \in Nat /\ Begun(m) <= Begun(m)' /\ Begun(m)' <= Begun(m) + 1
         /\ Gone(m)' \in Nat /\ Gone(m) <= Gone(m)'
    BY <1>1, <1>3, <1>7, <1>8
  <1>19. \A g \in 1..cells[m].total - 1 :
            g >= cells'[m].total + 2 - Rows => BarOf(m, g)' = BarOf(m, g)
    BY <1>9
  <1>20. InHours /\ NeverHalted =>
            /\ \A n \in Cells : n # m => Seen(n)' = Seen(n)
            /\ CellFrames[m] >= Source => Holds(m)'
    BY <1>6, <1>16
  <1>21. InHours => \A g \in 1..Begun(m) :
             g > Begun(m)' - Rows => StartOf(m, g)' >= StartOf(m, g)
    BY <1>17
  <1>22. InHours => StartsRise(m)'
    BY <1>14
  <1>23. slave.at # "idle" /\ ~Counted(m)
    BY <1>3
  <1>24. QED
    BY <1>5, <1>6, <1>10, <1>11, <1>12, <1>18, <1>19, <1>20, <1>21, <1>22, <1>23, FrameStep

LEMMA CellKeeps ==
    ASSUME BarsIInv, Cell
    PROVE  BarsIInv'
  <1>1. slave.at = "cell" /\ cells[slave.m].frame >= Source /\ UNCHANGED <<setup, job, ticks>>
    BY DEF Cell
  <1>2. PICK m \in Cells : m = slave.m
    BY <1>1, AtCell
  <1>3. PICK cell, prev, start, pause, grows :
            /\ cell = cells[m] /\ prev = cell.data[cell.writed]
            /\ start = startTime(cell.frame, slave.time)
            /\ pause = Paused(cell)
            /\ grows = (~Empty(cell) /\ prev.start # 0 /\ prev.start = start)
    OBVIOUS
  <1>4. CellFrames[m] >= Source
    BY <1>1, <1>2, FrameFacts
  <1>5. \/ slave.price = 0 /\ slave' = [at |-> "idle"] /\ UNCHANGED cells
        \/ /\ grows /\ slave' = Columned(cell.writed, Updated(prev, slave.price), FALSE)
           /\ UNCHANGED cells
        \/ /\ pause /\ slave' = Columned(cell.writed, Opened(start, slave.price), FALSE)
           /\ UNCHANGED cells
        \/ /\ ~grows /\ cells' = [cells EXCEPT ![m] = check(cells[m])]
           /\ slave' = Columned(cell.writing, Opened(start, slave.price), TRUE)
    BY <1>2, <1>3 DEF Cell
  <1>6. CASE slave.price = 0 /\ slave' = [at |-> "idle"] /\ UNCHANGED cells
    BY <1>1, <1>6, PauseKeeps
  <1>7. CASE /\ grows /\ slave' = Columned(cell.writed, Updated(prev, slave.price), FALSE)
             /\ UNCHANGED cells
    <2>1. /\ ~Empty(cells[m]) /\ prev.start = start
          /\ prev = cells[m].data[cells[m].writed]
          /\ start = startTime(cells[m].frame, slave.time)
          /\ slave' = Columned(cells[m].writed, Updated(prev, slave.price), FALSE)
          /\ slave.m = m /\ slave.at = "cell" /\ UNCHANGED <<setup, cells, job, ticks>>
      BY <1>1, <1>2, <1>3, <1>7
    <2>2. BarsIInv /\ m \in Cells
      OBVIOUS
    <2>3. QED
      BY ONLY <1>4, <2>1, <2>2, GrowsKeeps
  <1>8. CASE /\ pause /\ slave' = Columned(cell.writed, Opened(start, slave.price), FALSE)
             /\ UNCHANGED cells
    <2>1. /\ Paused(cells[m])
          /\ start = startTime(cells[m].frame, slave.time)
          /\ slave' = Columned(cells[m].writed, Opened(start, slave.price), FALSE)
          /\ slave.m = m /\ slave.at = "cell" /\ UNCHANGED <<setup, cells, job, ticks>>
      BY <1>1, <1>2, <1>3, <1>8
    <2>2. BarsIInv /\ m \in Cells
      OBVIOUS
    <2>3. QED
      BY ONLY <1>4, <2>1, <2>2, ReplacesKeeps
  <1>9. CASE /\ ~grows /\ cells' = [cells EXCEPT ![m] = check(cells[m])]
             /\ slave' = Columned(cell.writing, Opened(start, slave.price), TRUE)
    <2>1. /\ Empty(cells[m]) \/ prev.start = 0 \/ prev.start # start
          /\ prev = cells[m].data[cells[m].writed]
          /\ start = startTime(cells[m].frame, slave.time)
          /\ slave' = Columned(cells[m].writing, Opened(start, slave.price), TRUE)
          /\ slave.m = m /\ slave.at = "cell" /\ UNCHANGED <<setup, job, ticks>>
      BY <1>1, <1>2, <1>3, <1>9
    <2>2. BarsIInv /\ m \in Cells
      OBVIOUS
    <2>3. OnlyFrame(m, check(cells[m]))
      <3>1. cells = [n \in Cells |-> IF n = m THEN cells[m] ELSE cells[n]]
        BY FrameFacts
      <3>2. QED
        BY <1>9, <3>1 DEF OnlyFrame
    <2>4. QED
      BY ONLY <1>4, <2>1, <2>2, <2>3, OpensKeeps, ZenonT(60)
  <1>10. QED
    BY <1>5, <1>6, <1>7, <1>8, <1>9

\* The bar that the slave writes, number g.
LEMMA InColumn ==
    ASSUME BarsIInv, slave.at \in {"column", "writing", "writed"},
           NEW m \in Cells, slave.m = m,
           NEW g, g = IF slave.fresh THEN cells[m].total + 1 ELSE cells[m].total
    PROVE  /\ slave = [f \in ColumnFields |-> slave[f]]
           /\ slave.k \in 1..6 /\ slave.fresh \in BOOLEAN /\ IsBar(slave.bar)
           /\ slave.at # "column" => slave.fresh
           /\ On(m) /\ (NewOn(m) <=> slave.fresh)
           /\ g \in Nat /\ g > 0 /\ (~slave.fresh => cells[m].total > 0)
           /\ slave.row = RowOf(g) /\ slave.row \in 0..Rows - 1
           /\ CellFrames[m] >= Source
           /\ Gone(m) >= g - Rows
           /\ \A i \in 1..6 : (slave.at = "column" => i < slave.k) =>
                 cells[m].data[slave.row][Columns[i]] = slave.bar[Columns[i]]
  <1>1. SlaveShape
    BY DEF BarsIInv, SlaveInv
  <1>2. slave # [at |-> "idle"] /\ slave.at # "cell"
    <2>1. slave = [at |-> "idle"] => slave.at = "idle"
      OBVIOUS
    <2>2. QED
      BY <2>1
  <1>3. slave.at # "cell" => ~(slave = [at |-> "cell", m |-> slave.m, time |-> slave.time,
                                       price |-> slave.price])
    <2>1. slave = [at |-> "cell", m |-> slave.m, time |-> slave.time,
                   price |-> slave.price] => slave.at = "cell"
      OBVIOUS
    <2>2. QED
      BY <2>1
  <1>4. /\ slave = [f \in ColumnFields |-> slave[f]]
        /\ slave.k \in 1..6 /\ slave.fresh \in BOOLEAN /\ IsBar(slave.bar)
        /\ slave.at # "column" => slave.fresh
    BY <1>1, <1>2, <1>3 DEF SlaveShape, IsBar
  <1>5. On(m) /\ (NewOn(m) <=> slave.fresh)
    BY <1>4 DEF On, NewOn
  <1>6. Writes(m) /\ Indices(m) /\ cells[m].total \in Nat
    BY FrameFacts
  <1>7. /\ slave.row = RowOf(g) /\ (~slave.fresh => cells[m].total > 0)
        /\ \A i \in 1..6 : (slave.at = "column" => i < slave.k) =>
              cells[m].data[slave.row][Columns[i]] = slave.bar[Columns[i]]
    BY <1>5, <1>6 DEF Writes
  <1>8. g \in Nat /\ g > 0
    BY <1>4, <1>6, <1>7
  <1>9. slave.row \in 0..Rows - 1
    BY <1>7, <1>8, RowRange
  <1>10. CellFrames[m] >= Source
    BY <1>5, <1>6 DEF Indices
  <1>11. PICK n : n = IF NewOn(m) THEN cells[m].total + 1 ELSE cells[m].total
    OBVIOUS
  <1>12. Gone(m) = IF n - Rows < 0 THEN 0 ELSE n - Rows
    BY <1>11 DEF Gone
  <1>13. n = g
    BY <1>5, <1>11
  <1>14. QED
    BY ONLY <1>4, <1>5, <1>7, <1>8, <1>9, <1>10, <1>12, <1>13, RowsAre

Wrote(m, row, c, v) == cells' = [cells EXCEPT ![m].data[row][c] = v]

\* One column is written, into one row.
LEMMA ColumnWrites ==
    ASSUME BarsIInv, NEW m \in Cells, NEW row \in 0..Rows - 1, NEW c \in OfBars, NEW v,
           Wrote(m, row, c, v)
    PROVE  /\ OnlyFrame(m, cells'[m]) /\ RingShape(cells'[m], CellFrames[m])
           /\ cells'[m].writing = cells[m].writing /\ cells'[m].tail = cells[m].tail
           /\ cells'[m].writed = cells[m].writed /\ cells'[m].total = cells[m].total
           /\ \A q \in 0..Rows - 1 : q # row => cells'[m].data[q] = cells[m].data[q]
           /\ cells'[m].data[row][c] = v
           /\ \A f \in OfBars : f # c => cells'[m].data[row][f] = cells[m].data[row][f]
  <1>1. PICK e, d, x : e = cells[m] /\ d = cells[m].data /\ x = cells[m].data[row]
    OBVIOUS
  <1>2. PICK y : y = [x EXCEPT ![c] = v]
    OBVIOUS
  <1>3. PICK dd : dd = [d EXCEPT ![row] = y]
    OBVIOUS
  <1>4. PICK ee : ee = [e EXCEPT !.data = dd]
    OBVIOUS
  <1>5. cells' = [cells EXCEPT ![m] = ee]
    BY <1>1, <1>2, <1>3, <1>4 DEF Wrote
  <1>6. cells = [n \in Cells |-> IF n = m THEN cells[m] ELSE cells[n]]
    BY FrameFacts
  <1>7. OnlyFrame(m, ee) /\ cells'[m] = ee
    BY <1>5, <1>6 DEF OnlyFrame
  <1>8. RingShape(e, CellFrames[m])
    BY <1>1, FrameFacts, ShapeIs
  <1>9. e = [f \in CellFields |-> e[f]] /\ e.frame = CellFrames[m] /\ DataShape(d) /\ d = e.data
    BY <1>1, <1>8 DEF RingShape
  <1>10. x = [f \in OfBars |-> x[f]]
    BY <1>1, <1>9 DEF DataShape, IsBar
  <1>11. /\ y = [f \in OfBars |-> y[f]] /\ y[c] = v
         /\ \A f \in OfBars : f # c => y[f] = x[f]
    BY ONLY <1>2, <1>10
  <1>12. d = [r \in 0..Rows - 1 |-> d[r]]
    BY <1>9 DEF DataShape
  <1>13. /\ dd = [r \in 0..Rows - 1 |-> dd[r]] /\ dd[row] = y
         /\ \A q \in 0..Rows - 1 : q # row => dd[q] = d[q]
    BY ONLY <1>3, <1>12, row \in 0..Rows - 1
  <1>14. \A q \in 0..Rows - 1 : IsBar(dd[q])
    <2>1. IsBar(y)
      BY <1>11 DEF IsBar
    <2>2. \A q \in 0..Rows - 1 : IsBar(d[q])
      BY <1>9 DEF DataShape
    <2>3. QED
      BY <1>13, <2>1, <2>2
  <1>15. DataShape(dd)
    BY <1>13, <1>14 DEF DataShape
  <1>16. /\ ee = [f \in CellFields |-> ee[f]] /\ ee.data = dd /\ ee.frame = e.frame
         /\ ee.writing = e.writing /\ ee.tail = e.tail
         /\ ee.writed = e.writed /\ ee.total = e.total
    BY ONLY <1>4, <1>9 DEF CellFields
  <1>17. RingShape(ee, CellFrames[m])
    BY <1>9, <1>15, <1>16 DEF RingShape
  <1>18. QED
    BY <1>1, <1>7, <1>11, <1>13, <1>16, <1>17

\* The bars of the frame after a column is written: bar g starts as it will, and
\* the other rows are left alone.
LEMMA ColumnBars ==
    ASSUME BarsIInv, slave.at = "column", NEW m \in Cells, slave.m = m,
           NEW g, g = IF slave.fresh THEN cells[m].total + 1 ELSE cells[m].total,
           UNCHANGED <<setup, ticks>>,
           Wrote(m, slave.row, Columns[slave.k], slave.bar[Columns[slave.k]])
    PROVE  /\ \A h \in 1..g : h < g /\ h > g - Rows =>
                 BarOf(m, h)' = BarOf(m, h) /\ StartOf(m, h)' = StartOf(m, h)
           /\ StartOf(m, g)' = slave.bar.start
           /\ \A i \in 1..slave.k : BarOf(m, g)'[Columns[i]] = slave.bar[Columns[i]]
           /\ InHours =>
                 /\ slave.bar.start \in Nat \ {0}
                 /\ \A h \in 1..g : h > g - Rows => StartOf(m, h)' \in Nat \ {0}
                 /\ \A h, j \in 1..g : h > g - Rows /\ h < j =>
                       StartOf(m, h)' < StartOf(m, j)'
                 /\ Len(ticks) > 0 /\ slave.bar.start <= StartAt(m, Len(ticks))
                 /\ \A h \in 1..Begun(m) : h > g - Rows => StartOf(m, h)' >= StartOf(m, h)
  <1>1. PICK row, c, v, k, bar : /\ row = slave.row /\ c = Columns[slave.k] /\ k = slave.k
                                 /\ v = slave.bar[Columns[slave.k]] /\ bar = slave.bar
    OBVIOUS
  <1>2. /\ k \in 1..6 /\ slave.fresh \in BOOLEAN /\ On(m) /\ (NewOn(m) <=> slave.fresh)
        /\ g \in Nat /\ g > 0 /\ (~slave.fresh => cells[m].total > 0)
        /\ row = RowOf(g) /\ row \in 0..Rows - 1
        /\ \A i \in 1..6 : i < k => cells[m].data[row][Columns[i]] = bar[Columns[i]]
    <2>1. slave.at \in {"column", "writing", "writed"}
      OBVIOUS
    <2>2. QED
      BY <1>1, <2>1, InColumn
  <1>0. k \in 1..6 /\ slave.fresh \in BOOLEAN /\ g \in Nat /\ g > 0 /\ row = RowOf(g)
    BY <1>2
  <1>3. c \in OfBars
    BY <1>1, <1>2, ColumnsDiffer
  <1>4. /\ \A q \in 0..Rows - 1 : q # row => cells'[m].data[q] = cells[m].data[q]
        /\ cells'[m].data[row][c] = v
        /\ \A f \in OfBars : f # c => cells'[m].data[row][f] = cells[m].data[row][f]
    <2>1. BarsIInv /\ Wrote(m, row, c, v)
      BY <1>1
    <2>2. QED
      BY ONLY <1>2, <1>3, <2>1, m \in Cells, ColumnWrites
  <1>5. ASSUME NEW h \in 1..g, h < g, h > g - Rows
        PROVE  BarOf(m, h)' = BarOf(m, h) /\ StartOf(m, h)' = StartOf(m, h)
    <2>1. h \in Nat /\ 0 < h /\ g - h < Rows
      BY ONLY h \in 1..g, <1>0, <1>5, RowsAre
    <2>2. RowOf(h) # row /\ RowOf(h) \in 0..Rows - 1
      BY <1>2, <1>5, <2>1, RowsDiffer, RowRange
    <2>3. cells'[m].data[RowOf(h)] = cells[m].data[RowOf(h)]
      BY <1>4, <2>2
    <2>4. QED
      BY <2>3 DEF BarOf, StartOf
  <1>6. \A i \in 1..k : BarOf(m, g)'[Columns[i]] = bar[Columns[i]]
    <2>1. ASSUME NEW i \in 1..k PROVE cells'[m].data[row][Columns[i]] = bar[Columns[i]]
      <3>1. i \in 1..6 /\ (i = k \/ i < k)
        BY ONLY i \in 1..k, <1>0
      <3>2. CASE i = k
        BY <1>1, <1>4, <3>2
      <3>3. CASE i < k
        <4>1. Columns[i] # c /\ Columns[i] \in OfBars
          <5>1. i # k
            BY <1>2, <3>1, <3>3
          <5>2. QED
            BY <1>1, <1>2, <3>1, <5>1, ColumnsDiffer
        <4>2. QED
          BY ONLY <1>2, <1>4, <3>1, <3>3, <4>1
      <3>4. QED
        BY <3>1, <3>2, <3>3
    <2>2. BarOf(m, g)' = cells'[m].data[row]
      BY <1>2 DEF BarOf
    <2>3. QED
      BY <2>1, <2>2
  <1>7. StartOf(m, g)' = bar.start
    <2>1. 1 \in 1..k /\ Columns[1] = "start"
      <3>1. 1 \in 1..k
        BY ONLY <1>0
      <3>2. QED
        BY ONLY <3>1, ColumnsDiffer
    <2>2. BarOf(m, g)'["start"] = bar["start"]
      BY <1>6, <2>1
    <2>3. QED
      BY <2>2 DEF StartOf
  <1>8. k > 1 => StartOf(m, g) = bar.start
    <2>1. SUFFICES ASSUME k > 1 PROVE StartOf(m, g) = bar.start
      OBVIOUS
    <2>2. 1 \in 1..6 /\ 1 < k /\ Columns[1] = "start"
      <3>1. 1 \in 1..6 /\ 1 < k
        BY ONLY <1>0, <2>1
      <3>2. QED
        BY ONLY <3>1, ColumnsDiffer
    <2>3. cells[m].data[row]["start"] = bar["start"]
      BY <1>2, <2>2
    <2>4. QED
      BY <1>2, <2>3 DEF StartOf, BarOf
  <1>9. ASSUME InHours
        PROVE  /\ bar.start \in Nat \ {0}
               /\ \A h \in 1..g : h > g - Rows => StartOf(m, h)' \in Nat \ {0}
               /\ \A h, j \in 1..g : h > g - Rows /\ h < j => StartOf(m, h)' < StartOf(m, j)'
               /\ Len(ticks) > 0 /\ bar.start <= StartAt(m, Len(ticks))
               /\ \A h \in 1..Begun(m) : h > g - Rows => StartOf(m, h)' >= StartOf(m, h)
    <2>1. PICK b, t : b = Begun(m) /\ t = cells[m].total
      OBVIOUS
    <2>2. /\ t \in Nat /\ b \in Nat
          /\ b = IF slave.fresh /\ k > 1 THEN t + 1 ELSE t
          /\ g = IF slave.fresh THEN t + 1 ELSE t
      <3>1. t \in Nat /\ b \in Nat
        BY <2>1, FrameFacts
      <3>2. b = IF slave.fresh /\ k > 1 THEN t + 1 ELSE t
        BY <1>1, <1>2, <2>1 DEF Begun
      <3>3. QED
        BY <2>1, <3>1, <3>2
    <2>3. StartsRise(m)
      BY <1>9, FrameFacts
    <2>4. /\ bar.start \in Nat \ {0} /\ bar.start <= StartAt(m, Len(ticks))
          /\ slave.fresh /\ t > 0 => StartOf(m, t) < bar.start
          /\ ~slave.fresh => StartOf(m, t) <= bar.start
      BY <1>1, <1>2, <2>1, <2>3 DEF StartsRise
    <2>5. /\ \A h \in 1..b : h > b - Rows => StartOf(m, h) \in Nat \ {0}
          /\ \A h, j \in 1..b : h > b - Rows /\ h < j => StartOf(m, h) < StartOf(m, j)
      BY <2>1, <2>3 DEF StartsRise
    <2>6. Len(ticks) > 0
      BY DEF BarsIInv, SlaveInv, TicksShape
    <2>7. ASSUME NEW h \in 1..g, h > g - Rows, h < g
          PROVE  StartOf(m, h) \in Nat \ {0} /\ StartOf(m, h) < bar.start
      <3>1. h \in 1..b /\ h > b - Rows
        BY ONLY h \in 1..g, <1>0, <2>2, <2>7, RowsAre
      <3>2. StartOf(m, h) \in Nat \ {0}
        BY <2>5, <3>1
      <3>3. t > 0 /\ t \in 1..b /\ t > b - Rows /\ h <= t
        BY ONLY h \in 1..g, <1>0, <2>2, <2>7, RowsAre
      <3>4. StartOf(m, t) \in Nat
        BY <2>5, <3>3
      <3>5. h = t \/ StartOf(m, h) < StartOf(m, t)
        <4>1. h # t => h < t
          BY <2>2, <3>1, <3>3
        <4>2. QED
          BY <2>5, <3>1, <3>3, <4>1
      <3>6. h = t => slave.fresh
        BY ONLY h \in 1..g, <1>0, <2>2, <2>7
      <3>7. QED
        BY ONLY <1>0, <2>4, <3>2, <3>3, <3>4, <3>5, <3>6
    <2>8. ASSUME NEW h \in 1..g, h > g - Rows PROVE StartOf(m, h)' \in Nat \ {0}
      <3>1. CASE h = g
        BY <1>7, <2>4, <3>1
      <3>2. CASE h # g
        <4>1. h < g
          BY ONLY h \in 1..g, <1>0, <3>2
        <4>2. QED
          BY <1>5, <2>7, <2>8, <4>1
      <3>3. QED
        BY <3>1, <3>2
    <2>9. ASSUME NEW h \in 1..g, NEW j \in 1..g, h > g - Rows, h < j
          PROVE  StartOf(m, h)' < StartOf(m, j)'
      <3>1. h < g
        BY ONLY h \in 1..g, j \in 1..g, <1>0, <2>9
      <3>2. StartOf(m, h)' = StartOf(m, h) /\ StartOf(m, h) < bar.start
        BY <1>5, <2>7, <2>9, <3>1
      <3>3. CASE j = g
        BY <1>7, <3>2, <3>3
      <3>4. CASE j # g
        <4>1. j < g /\ j > g - Rows
          BY ONLY h \in 1..g, <1>0, <2>9, <3>4, RowsAre
        <4>2. StartOf(m, j)' = StartOf(m, j)
          BY <1>5, <4>1
        <4>3. h \in 1..b /\ j \in 1..b /\ h > b - Rows
          BY ONLY h \in 1..g, <1>0, <2>2, <2>9, <3>1, <4>1, RowsAre
        <4>4. StartOf(m, h) < StartOf(m, j)
          BY <2>5, <2>9, <4>3
        <4>5. QED
          BY <3>2, <4>2, <4>4
      <3>5. QED
        BY <3>3, <3>4
    <2>10. ASSUME NEW h \in 1..b, h > g - Rows PROVE StartOf(m, h)' >= StartOf(m, h)
      <3>1. h \in 1..g /\ h > b - Rows
        BY ONLY h \in 1..b, <1>0, <2>2, <2>10, RowsAre
      <3>2. StartOf(m, h) \in Nat
        BY <2>5, <3>1
      <3>3. CASE h = g
        <4>1. StartOf(m, g) <= bar.start
          <5>1. CASE slave.fresh
            <6>1. k > 1
              BY <2>2, <3>3, <5>1
            <6>2. QED
              BY <1>8, <3>2, <3>3, <6>1
          <5>2. CASE ~slave.fresh
            BY <2>2, <2>4, <5>2
          <5>3. QED
            BY <5>1, <5>2
        <4>2. QED
          BY <1>7, <2>4, <3>2, <3>3, <4>1
      <3>4. CASE h # g
        <4>1. h < g
          BY ONLY h \in 1..b, <1>0, <3>1, <3>4
        <4>2. StartOf(m, h)' = StartOf(m, h)
          BY <1>5, <2>10, <3>1, <4>1
        <4>3. QED
          BY <3>2, <4>2
      <3>5. QED
        BY <3>3, <3>4
    <2>11. QED
      BY <2>1, <2>4, <2>6, <2>8, <2>9, <2>10
  <1>10. QED
    BY <1>1, <1>5, <1>6, <1>7, <1>9

\* Where the slave is after it has written a column.
LEMMA AfterColumn ==
    ASSUME BarsIInv, slave.at = "column", NEW m \in Cells, slave.m = m, UNCHANGED ticks,
           slave' = IF slave.k < Len(Columns) THEN [slave EXCEPT !.k = slave.k + 1]
                    ELSE IF slave.fresh THEN [slave EXCEPT !.at = "writing"]
                    ELSE NextCell(m)
    PROVE  /\ SlaveShape'
           /\ slave'.at # "idle" => slave'.time = slave.time /\ slave'.price = slave.price
           /\ \A n \in Cells : n # m => Seen(n)' = Seen(n)
           /\ NewOn(m)' <=> slave.fresh
           /\ ~Counted(m)'
           /\ On(m)' =>
                 /\ slave'.m = m /\ slave'.row = slave.row /\ slave'.bar = slave.bar
                 /\ slave'.fresh = slave.fresh /\ Seen(m)' = Seen(m)
                 /\ slave'.at = "column" => slave'.k = slave.k + 1
                 /\ slave'.at # "column" => slave'.at = "writing" /\ slave.k = 6
           /\ slave'.at \in {"column", "writing", "writed"} => On(m)'
           /\ ~On(m)' => ~slave.fresh /\ slave.k = 6 /\ Seen(m)' = Len(ticks)
  <1>1. /\ slave = [f \in ColumnFields |-> slave[f]]
        /\ slave.k \in 1..6 /\ slave.fresh \in BOOLEAN /\ IsBar(slave.bar)
        /\ On(m) /\ (NewOn(m) <=> slave.fresh)
    <2>1. slave.at \in {"column", "writing", "writed"}
      OBVIOUS
    <2>2. QED
      BY <2>1, InColumn
  <1>2. Len(Columns) = 6
    BY ColumnsDiffer
  <1>3. PICK s : s = slave
    OBVIOUS
  <1>4. CASE s.k < 6
    <2>1. PICK u : u = s.k + 1
      OBVIOUS
    <2>2. slave' = [s EXCEPT !.k = u]
      BY <1>2, <1>3, <1>4, <2>1
    <2>3. /\ slave' = [f \in ColumnFields |-> slave'[f]]
          /\ slave'.at = s.at /\ slave'.m = s.m /\ slave'.time = s.time /\ slave'.price = s.price
          /\ slave'.row = s.row /\ slave'.bar = s.bar /\ slave'.fresh = s.fresh /\ slave'.k = u
      BY ONLY <1>1, <1>3, <2>2 DEF ColumnFields
    <2>4. s.at = "column" /\ s.m = m /\ u \in 1..6
      BY <1>1, <1>3, <1>4, <2>1
    <2>5. slave'.at = "column" /\ slave'.m = m
      BY <2>3, <2>4
    <2>6. IsBar(slave'.bar)
      BY <1>1, <1>3, <2>3
    <2>7. SlaveShape'
      BY <1>1, <1>3, <2>3, <2>4, <2>5, <2>6 DEF SlaveShape, IsBar
    <2>8. On(m)' /\ (NewOn(m)' <=> slave.fresh) /\ ~Counted(m)'
      BY <1>3, <2>3, <2>5 DEF On, NewOn, Counted
    <2>9. \A n \in Cells : Seen(n)' = Seen(n)
      BY <2>5 DEF Seen
    <2>10. QED
      BY <1>3, <2>1, <2>3, <2>5, <2>7, <2>8, <2>9
  <1>5. CASE s.k = 6 /\ slave.fresh
    <2>1. slave' = [s EXCEPT !.at = "writing"]
      BY <1>2, <1>3, <1>5
    <2>2. /\ slave' = [f \in ColumnFields |-> slave'[f]]
          /\ slave'.at = "writing" /\ slave'.m = s.m /\ slave'.time = s.time
          /\ slave'.price = s.price
          /\ slave'.row = s.row /\ slave'.bar = s.bar /\ slave'.fresh = s.fresh
          /\ slave'.k = s.k
      BY ONLY <1>1, <1>3, <2>1 DEF ColumnFields
    <2>3. IsBar(slave'.bar)
      BY <1>1, <1>3, <2>2
    <2>4. SlaveShape'
      BY <1>1, <1>3, <1>5, <2>2, <2>3 DEF SlaveShape, IsBar
    <2>5. slave'.m = m /\ slave'.fresh
      BY <1>3, <1>5, <2>2
    <2>6. On(m)' /\ NewOn(m)' /\ ~Counted(m)'
      BY <2>2, <2>5 DEF On, NewOn, Counted
    <2>7. \A n \in Cells : Seen(n)' = Seen(n)
      BY <2>2, <2>5 DEF Seen
    <2>8. QED
      BY <1>3, <1>5, <2>2, <2>4, <2>5, <2>6, <2>7
  <1>6. CASE s.k = 6 /\ ~slave.fresh
    <2>1. slave' = NextCell(m)
      BY <1>2, <1>3, <1>6
    <2>2. slave.at # "idle"
      OBVIOUS
    <2>3. /\ SlaveShape'
          /\ slave'.at \in {"idle", "cell"}
          /\ slave'.at # "idle" => slave'.time = slave.time /\ slave'.price = slave.price
          /\ \A n \in Cells : n # m => Seen(n)' = Seen(n)
          /\ Seen(m)' = Len(ticks)
          /\ \A n : ~On(n)' /\ ~NewOn(n)' /\ ~Counted(n)'
      BY <2>1, <2>2, GoesOn
    <2>4. QED
      BY <1>3, <1>6, <2>3
  <1>7. QED
    BY <1>1, <1>3, <1>4, <1>5, <1>6

LEMMA ColumnKeeps ==
    ASSUME BarsIInv, Column
    PROVE  BarsIInv'
  <1>1. slave.at = "column" /\ UNCHANGED <<setup, job, ticks>>
    BY DEF Column
  <1>2. slave.m \in Cells
    BY <1>1 DEF BarsIInv, SlaveInv, SlaveShape
  <1>3. PICK m \in Cells : m = slave.m
    BY <1>2
  <1>4. PICK g, t, l, k, row, bar :
            /\ g = IF slave.fresh THEN cells[m].total + 1 ELSE cells[m].total
            /\ t = cells[m].total /\ l = Len(ticks) /\ k = slave.k
            /\ row = slave.row /\ bar = slave.bar
    OBVIOUS
  <1>5. Wrote(m, row, Columns[k], bar[Columns[k]])
    BY <1>3, <1>4 DEF Column, Wrote
  <1>6. /\ SlaveShape'
        /\ slave'.at # "idle" => slave'.time = slave.time /\ slave'.price = slave.price
        /\ \A n \in Cells : n # m => Seen(n)' = Seen(n)
        /\ NewOn(m)' <=> slave.fresh
        /\ ~Counted(m)'
        /\ On(m)' =>
              /\ slave'.m = m /\ slave'.row = row /\ slave'.bar = bar
              /\ slave'.fresh = slave.fresh /\ Seen(m)' = Seen(m)
              /\ slave'.at = "column" => slave'.k = k + 1
              /\ slave'.at # "column" => slave'.at = "writing" /\ k = 6
        /\ slave'.at \in {"column", "writing", "writed"} => On(m)'
        /\ ~On(m)' => ~slave.fresh /\ k = 6 /\ Seen(m)' = l
    <2>1. slave' = IF slave.k < Len(Columns) THEN [slave EXCEPT !.k = slave.k + 1]
                   ELSE IF slave.fresh THEN [slave EXCEPT !.at = "writing"]
                   ELSE NextCell(m)
      BY <1>3 DEF Column
    <2>2. QED
      BY <1>1, <1>3, <1>4, <2>1, AfterColumn
  <1>7. /\ k \in 1..6 /\ slave.fresh \in BOOLEAN /\ IsBar(bar)
        /\ On(m) /\ (NewOn(m) <=> slave.fresh)
        /\ g \in Nat /\ g > 0 /\ (~slave.fresh => t > 0)
        /\ row = RowOf(g) /\ row \in 0..Rows - 1
        /\ CellFrames[m] >= Source /\ Gone(m) >= g - Rows
    BY <1>1, <1>3, <1>4, InColumn
  <1>8. /\ \A h \in 1..g : h < g /\ h > g - Rows =>
               BarOf(m, h)' = BarOf(m, h) /\ StartOf(m, h)' = StartOf(m, h)
        /\ StartOf(m, g)' = bar.start
        /\ \A i \in 1..k : BarOf(m, g)'[Columns[i]] = bar[Columns[i]]
        /\ InHours =>
              /\ bar.start \in Nat \ {0}
              /\ \A h \in 1..g : h > g - Rows => StartOf(m, h)' \in Nat \ {0}
              /\ \A h, j \in 1..g : h > g - Rows /\ h < j => StartOf(m, h)' < StartOf(m, j)'
              /\ Len(ticks) > 0 /\ bar.start <= StartAt(m, Len(ticks))
              /\ \A h \in 1..Begun(m) : h > g - Rows => StartOf(m, h)' >= StartOf(m, h)
    BY <1>1, <1>3, <1>4, <1>5, ColumnBars
  <1>9. /\ OnlyFrame(m, cells'[m]) /\ RingShape(cells'[m], CellFrames[m])
        /\ cells'[m].writing = cells[m].writing /\ cells'[m].tail = cells[m].tail
        /\ cells'[m].writed = cells[m].writed /\ cells'[m].total = t
    <2>1. Columns[k] \in OfBars
      BY <1>7, ColumnsDiffer
    <2>2. QED
      BY <1>4, <1>5, <1>7, <2>1, ColumnWrites
  <1>10. /\ Indices(m) /\ t \in Nat /\ Begun(m) \in Nat /\ Gone(m) \in Nat
         /\ InHours => StartsRise(m)
         /\ InHours /\ NeverHalted => Holds(m)
         /\ Begun(m) = g \/ (slave.fresh /\ Begun(m) = t)
    <2>1. /\ Indices(m) /\ t \in Nat /\ Begun(m) \in Nat /\ Gone(m) \in Nat
          /\ InHours => StartsRise(m)
          /\ InHours /\ NeverHalted => Holds(m)
      BY <1>4, <1>7, FrameFacts
    <2>2. Begun(m) = g \/ (slave.fresh /\ Begun(m) = t)
      BY <1>4, <1>7 DEF Begun
    <2>3. QED
      BY <2>1, <2>2
  <1>11. Gone(m)' = Gone(m)
    BY <1>4, <1>6, <1>7, <1>9 DEF Gone
  <1>12. Begun(m)' = g
    <2>1. CASE slave.fresh
      <3>1. NewOn(m)' /\ On(m)' /\ g = t + 1
        BY <1>4, <1>6, <2>1 DEF NewOn
      <3>2. slave'.at = "column" => slave'.k > 1
        BY <1>6, <1>7, <3>1
      <3>3. QED
        BY <1>9, <3>1, <3>2 DEF Begun
    <2>2. CASE ~slave.fresh
      <3>1. ~NewOn(m)' /\ g = t
        BY <1>4, <1>6, <2>2
      <3>2. QED
        BY <1>9, <3>1 DEF Begun
    <2>3. QED
      BY <1>7, <2>1, <2>2
  <1>13. CellShape(m)'
    BY <1>9, ShapeIs
  <1>14. ~Counted(m)
    BY <1>1 DEF Counted
  <1>15. Indices(m)'
    BY <1>4, <1>6, <1>7, <1>9, <1>10, <1>11, <1>12, <1>14 DEF Indices
  <1>16. Writes(m)'
    <2>1. SUFFICES ASSUME On(m)' PROVE Writes(m)'
      BY DEF Writes
    <2>2. BarOf(m, g)' = cells'[m].data[row]
      BY <1>7 DEF BarOf
    <2>3. ASSUME NEW i \in 1..6, slave'.at = "column" => i < slave'.k
          PROVE  cells'[m].data[row][Columns[i]] = bar[Columns[i]]
      <3>1. i \in 1..k
        BY <1>6, <1>7, <2>1, <2>3
      <3>2. QED
        BY <1>8, <2>2, <3>1
    <2>4. /\ slave'.row = row /\ slave'.bar = bar /\ (slave'.fresh <=> slave.fresh)
      BY <1>6, <2>1
    <2>5. row = RowOf(IF slave.fresh THEN t + 1 ELSE t)
      BY <1>4, <1>7
    <2>6. QED
      BY ONLY <1>7, <1>9, <2>3, <2>4, <2>5 DEF Writes
  <1>17. slave.fresh => (t \in 1..g /\ t < g /\ t > g - Rows) \/ t = 0
    <2>1. SUFFICES ASSUME slave.fresh, t # 0 PROVE t \in 1..g /\ t < g /\ t > g - Rows
      OBVIOUS
    <2>2. g = t + 1 /\ t \in Nat
      BY <1>4, <1>10, <2>1
    <2>3. QED
      BY <2>1, <2>2, RowsAre
  <1>18. ASSUME InHours PROVE StartsRise(m)'
    <2>1. PICK s : s = StartAt(m, l)
      OBVIOUS
    <2>2. StartAt(m, Len(ticks))' = s
      <3>1. StartAt(m, l)' = StartAt(m, l) /\ Len(ticks') = l
        BY <1>1, <1>4, TicksStay
      <3>2. QED
        BY <2>1, <3>1
    <2>3. /\ bar.start \in Nat \ {0}
          /\ \A h \in 1..g : h > g - Rows => StartOf(m, h)' \in Nat \ {0}
          /\ \A h, j \in 1..g : h > g - Rows /\ h < j => StartOf(m, h)' < StartOf(m, j)'
          /\ Len(ticks') > 0 /\ bar.start <= s
      BY <1>1, <1>4, <1>8, <1>18, <2>1
    <2>4. ASSUME On(m)'
          PROVE  /\ slave'.bar = bar
                 /\ slave'.fresh => bar.start = s
                 /\ slave'.fresh /\ t > 0 => StartOf(m, t)' < bar.start
                 /\ ~slave'.fresh => StartOf(m, t)' <= bar.start
      <3>1. slave'.bar = bar /\ (slave'.fresh <=> slave.fresh)
        BY <1>6, <2>4
      <3>2. slave.fresh => bar.start = s
        BY <1>4, <1>7, <1>10, <1>18, <2>1 DEF StartsRise
      <3>3. ASSUME slave.fresh, t > 0 PROVE StartOf(m, t)' < bar.start
        <4>1. StartOf(m, t) < bar.start
          BY <1>4, <1>7, <1>10, <1>18, <3>3 DEF StartsRise
        <4>2. StartOf(m, t)' = StartOf(m, t)
          BY <1>8, <1>17, <3>3
        <4>3. QED
          BY <4>1, <4>2
      <3>4. ASSUME ~slave.fresh PROVE StartOf(m, t)' <= bar.start
        <4>1. t = g
          BY <1>4, <3>4
        <4>2. StartOf(m, t)' = bar.start
          BY <1>8, <4>1
        <4>3. \A n \in Nat : n <= n
          OBVIOUS
        <4>4. QED
          BY <2>3, <4>2, <4>3
      <3>5. QED
        BY <3>1, <3>2, <3>3, <3>4
    <2>5. StartOf(m, g)' <= s
      BY <1>8, <2>3
    <2>6. QED
      BY <1>9, <1>12, <2>2, <2>3, <2>4, <2>5 DEF StartsRise
  <1>19. ASSUME InHours, NeverHalted PROVE Holds(m)'
    <2>1. Holds(m)
      BY <1>10, <1>19
    <2>2. Shows(m, bar, l)' /\ Shows(m, bar, l)
      <3>1. Shows(m, bar, l)
        BY <1>4, <1>7, <2>1 DEF Holds
      <3>2. QED
        BY <1>1, <3>1, TicksStay
    <2>3. t = 0 => Seen(m)' = 0
      BY <1>4, <1>6, <1>7, <1>10, <2>1 DEF Holds
    <2>4. PICK d : d = Gone(m)
      OBVIOUS
    <2>5. \A h \in 1..t - 1 :
            h > d => /\ BarOf(m, h)' = SummaryTo(m, StartOf(m, h), l)'
                     /\ OfBar(m, StartOf(m, h), l)' # {}
      <3>1. ASSUME NEW h \in 1..t - 1, h > d
            PROVE  /\ BarOf(m, h)' = SummaryTo(m, StartOf(m, h), l)'
                   /\ OfBar(m, StartOf(m, h), l)' # {}
        <4>1. PICK z : z = StartOf(m, h)
          OBVIOUS
        <4>2. h \in 1..g /\ h < g /\ h > g - Rows
          <5>1. g = t \/ g = t + 1
            BY <1>4
          <5>2. t \in Nat /\ d >= g - Rows /\ d \in Nat
            BY <1>7, <1>10, <2>4
          <5>3. QED
            BY <3>1, <5>1, <5>2, RowsAre
        <4>3. BarOf(m, h) = SummaryTo(m, z, l) /\ OfBar(m, z, l) # {}
          BY <1>4, <2>1, <2>4, <3>1, <4>1 DEF Holds
        <4>4. SummaryTo(m, z, l)' = SummaryTo(m, z, l) /\ OfBar(m, z, l)' = OfBar(m, z, l)
          BY <1>1, TicksStay
        <4>5. StartOf(m, h)' = z /\ BarOf(m, h)' = BarOf(m, h)
          BY <1>8, <4>1, <4>2
        <4>6. QED
          BY <4>3, <4>4, <4>5
      <3>2. QED
        BY <3>1
    <2>6. ASSUME t > 0, slave.fresh, On(m)' PROVE Shows(m, BarOf(m, t), Seen(m))'
      <3>1. PICK z, n : z = BarOf(m, t) /\ n = Seen(m)
        OBVIOUS
      <3>2. Shows(m, z, n)
        BY <1>4, <1>7, <2>1, <2>6, <3>1 DEF Holds
      <3>3. Shows(m, z, n)'
        BY <1>1, <3>2, TicksStay
      <3>4. BarOf(m, t)' = z /\ Seen(m)' = n
        BY <1>6, <1>8, <1>17, <2>6, <3>1
      <3>5. QED
        BY <3>3, <3>4
    <2>7. ASSUME ~On(m)' PROVE Shows(m, BarOf(m, t), Seen(m))'
      <3>1. ~slave.fresh /\ k = 6 /\ Seen(m)' = l /\ t = g
        BY <1>4, <1>6, <2>7
      <3>2. BarOf(m, g)' = bar
        <4>1. PICK y : y = BarOf(m, g)'
          OBVIOUS
        <4>2. y = cells'[m].data[row]
          BY <1>7, <4>1 DEF BarOf
        <4>3. IsBar(y)
          BY <1>7, <1>9, <4>2 DEF RingShape, DataShape
        <4>4. \A i \in 1..6 : y[Columns[i]] = bar[Columns[i]]
          BY <1>8, <3>1, <4>1
        <4>5. \A f \in OfBars : y[f] = bar[f]
          BY <4>4, ColumnsDiffer
        <4>6. y = [f \in OfBars |-> y[f]] /\ bar = [f \in OfBars |-> bar[f]]
          BY <1>7, <4>3 DEF IsBar
        <4>7. y = bar
          BY ONLY <4>5, <4>6
        <4>8. QED
          BY <4>1, <4>7
      <3>3. QED
        BY <2>2, <3>1, <3>2
    <2>8. On(m)' => slave'.bar = bar /\ (slave'.fresh <=> slave.fresh)
      BY <1>6
    <2>9. ~slave.fresh => StartOf(m, t)' = bar.start
      BY <1>4, <1>8
    <2>10. Len(ticks') = l /\ Gone(m)' = d /\ cells'[m].total = t
      BY <1>1, <1>4, <1>9, <1>11, <2>4
    <2>11. On(m)' => Shows(m, slave.bar, Len(ticks))'
      BY <2>2, <2>8, <2>10
    <2>12. t > 0 /\ ~(On(m)' /\ ~slave'.fresh) => Shows(m, BarOf(m, t), Seen(m))'
      BY <2>6, <2>7, <2>8
    <2>13. QED
      BY <2>3, <2>5, <2>8, <2>9, <2>10, <2>11, <2>12 DEF Holds
  <1>20. /\ cells'[m].total \in Nat /\ cells[m].total <= cells'[m].total
         /\ Begun(m)' \in Nat /\ Begun(m) <= Begun(m)' /\ Begun(m)' <= Begun(m) + 1
         /\ Gone(m)' \in Nat /\ Gone(m) <= Gone(m)'
    BY <1>4, <1>7, <1>9, <1>10, <1>11, <1>12
  <1>21. \A h \in 1..cells[m].total - 1 :
            h >= cells'[m].total + 2 - Rows => BarOf(m, h)' = BarOf(m, h)
    <2>1. ASSUME NEW h \in 1..t - 1, h >= t + 2 - Rows PROVE BarOf(m, h)' = BarOf(m, h)
      <3>1. h \in 1..g /\ h < g /\ h > g - Rows
        <4>1. (g = t \/ g = t + 1) /\ t \in Nat
          BY <1>4, <1>10
        <4>2. QED
          BY <2>1, <4>1, RowsAre
      <3>2. QED
        BY <1>8, <3>1
    <2>2. QED
      BY <1>4, <1>9, <2>1
  <1>22. InHours /\ NeverHalted =>
            /\ \A n \in Cells : n # m => Seen(n)' = Seen(n)
            /\ CellFrames[m] >= Source => Holds(m)'
    BY <1>6, <1>19
  <1>23. InHours => \A h \in 1..Begun(m) :
             h > Begun(m)' - Rows => StartOf(m, h)' >= StartOf(m, h)
    BY <1>8, <1>12
  <1>24. InHours => StartsRise(m)'
    BY <1>18
  <1>25. /\ slave.at # "idle" /\ ~Counted(m) /\ slave.m = m
         /\ slave'.at \in {"column", "writing", "writed"} => slave'.m = m
    BY <1>1, <1>3, <1>6, <1>14
  <1>26. QED
    BY <1>1, <1>6, <1>9, <1>13, <1>15, <1>16, <1>20, <1>21, <1>22, <1>23, <1>24, <1>25,
       FrameStep

\* The next row is counted.
LEMMA WritingKeeps ==
    ASSUME BarsIInv, Writing
    PROVE  BarsIInv'
  <1>1. slave.at = "writing" /\ UNCHANGED <<setup, job, ticks>>
    BY DEF Writing
  <1>2. PICK m \in Cells : m = slave.m
    BY <1>1 DEF BarsIInv, SlaveInv, SlaveShape
  <1>3. PICK g, t, l, s, u :
            /\ g = IF slave.fresh THEN cells[m].total + 1 ELSE cells[m].total
            /\ t = cells[m].total /\ l = Len(ticks) /\ s = slave
            /\ u = (cells[m].writing + 1) % Rows
    OBVIOUS
  <1>4. /\ s = [f \in ColumnFields |-> s[f]] /\ s.k \in 1..6 /\ IsBar(s.bar)
        /\ s.fresh /\ s.fresh \in BOOLEAN /\ On(m) /\ NewOn(m)
        /\ s.row = RowOf(g) /\ CellFrames[m] >= Source
        /\ \A i \in 1..6 : cells[m].data[s.row][Columns[i]] = s.bar[Columns[i]]
    <2>1. slave.at \in {"column", "writing", "writed"} /\ slave.at # "column"
      BY <1>1
    <2>2. slave.m = m
      BY <1>2
    <2>3. /\ slave = [f \in ColumnFields |-> slave[f]]
          /\ slave.k \in 1..6 /\ slave.fresh \in BOOLEAN /\ IsBar(slave.bar)
          /\ slave.at # "column" => slave.fresh
          /\ On(m) /\ (NewOn(m) <=> slave.fresh)
          /\ slave.row = RowOf(g) /\ CellFrames[m] >= Source
          /\ \A i \in 1..6 : (slave.at = "column" => i < slave.k) =>
                 cells[m].data[slave.row][Columns[i]] = slave.bar[Columns[i]]
      BY <1>3, <2>1, <2>2, InColumn
    <2>4. QED
      BY <1>3, <2>1, <2>3
  <1>5. slave' = [s EXCEPT !.at = "writed"]
    BY <1>3 DEF Writing
  <1>6. /\ slave' = [f \in ColumnFields |-> slave'[f]]
        /\ slave'.at = "writed" /\ slave'.m = s.m /\ slave'.time = s.time
        /\ slave'.price = s.price
        /\ slave'.row = s.row /\ slave'.bar = s.bar /\ slave'.fresh = s.fresh
        /\ slave'.k = s.k
    BY ONLY <1>4, <1>5 DEF ColumnFields
  <1>7. slave'.m = m /\ slave'.fresh
    BY <1>2, <1>3, <1>4, <1>6
  <1>8. SlaveShape'
    <2>1. IsBar(slave'.bar)
      BY <1>4, <1>6
    <2>2. QED
      BY <1>4, <1>6, <1>7, <2>1 DEF SlaveShape, IsBar
  <1>9. /\ On(m)' /\ NewOn(m)' /\ Counted(m)' /\ ~Counted(m)
        /\ \A n \in Cells : Seen(n)' = Seen(n)
    BY <1>1, <1>2, <1>6, <1>7 DEF On, NewOn, Counted, Seen
  <1>10. /\ CellShape(m) /\ Indices(m) /\ t \in Nat /\ Begun(m) \in Nat /\ Gone(m) \in Nat
         /\ InHours => StartsRise(m)
         /\ InHours /\ NeverHalted => Holds(m)
         /\ cells = [n \in Cells |-> IF n = m THEN cells[m] ELSE cells[n]]
    BY <1>3, <1>4, FrameFacts
  <1>11. PICK e : e = [cells[m] EXCEPT !.writing = u]
    OBVIOUS
  <1>12. OnlyFrame(m, e) /\ cells'[m] = e
    <2>1. cells' = [cells EXCEPT ![m] = e]
      BY <1>2, <1>3, <1>11 DEF Writing
    <2>2. QED
      BY <1>10, <2>1 DEF OnlyFrame
  <1>13. /\ RingShape(e, CellFrames[m]) /\ e.writing = u /\ e.tail = cells[m].tail
         /\ e.writed = cells[m].writed /\ e.total = t /\ e.data = cells[m].data
    <2>1. RingShape(cells[m], CellFrames[m])
      BY <1>10, ShapeIs
    <2>2. PICK x : x = cells[m]
      OBVIOUS
    <2>3. x = [f \in CellFields |-> x[f]]
      BY <2>1, <2>2 DEF RingShape
    <2>4. e = [x EXCEPT !.writing = u]
      BY <1>11, <2>2
    <2>5. /\ e = [f \in CellFields |-> e[f]] /\ e.writing = u /\ e.tail = x.tail
          /\ e.writed = x.writed /\ e.total = x.total /\ e.data = x.data /\ e.frame = x.frame
      BY ONLY <2>3, <2>4 DEF CellFields
    <2>6. QED
      BY <1>3, <2>1, <2>2, <2>5 DEF RingShape
  <1>14. /\ Begun(m)' = Begun(m) /\ Gone(m)' = Gone(m) /\ Begun(m) = t + 1 /\ g = t + 1
    BY <1>1, <1>3, <1>4, <1>6, <1>9, <1>12, <1>13 DEF Begun, Gone
  <1>15. \A h : BarOf(m, h)' = BarOf(m, h) /\ StartOf(m, h)' = StartOf(m, h)
    BY <1>12, <1>13 DEF BarOf, StartOf
  <1>16. CellShape(m)'
    BY <1>12, <1>13, ShapeIs
  <1>17. Indices(m)'
    <2>1. u = (t + 1) % Rows
      <3>1. cells[m].writing = t % Rows
        BY <1>3, <1>9, <1>10 DEF Indices
      <3>2. QED
        BY <1>3, <1>10, <3>1, RowsAre, ModSuccessor
    <2>2. cells'[m].writing = (t + 1) % Rows /\ cells'[m].total = t
      BY <1>12, <1>13, <2>1
    <2>3. Begun(m)' # 0
      BY <1>10, <1>14
    <2>4. cells'[m].writed = IF cells'[m].total = 0 THEN 0 ELSE RowOf(cells'[m].total)
      BY <1>3, <1>10, <1>12, <1>13 DEF Indices
    <2>5. cells'[m].tail = Gone(m)' % Rows
      BY <1>10, <1>12, <1>13, <1>14 DEF Indices
    <2>6. Counted(m)' /\ cells'[m].total \in Nat /\ CellFrames[m] >= Source
      BY <1>4, <1>9, <1>10, <2>2
    <2>7. cells'[m].writing = (cells'[m].total + 1) % Rows
      BY <2>2
    <2>8. QED
      BY ONLY <2>3, <2>4, <2>5, <2>6, <2>7 DEF Indices
  <1>18. Writes(m)'
    <2>1. \A i \in 1..6 : cells'[m].data[s.row][Columns[i]] = s.bar[Columns[i]]
      <3>1. cells'[m].data = cells[m].data
        BY <1>12, <1>13
      <3>2. PICK d : d = cells[m].data
        OBVIOUS
      <3>3. \A i \in 1..6 : cells[m].data[s.row][Columns[i]] = s.bar[Columns[i]]
        BY ONLY <1>4
      <3>4. \A i \in 1..6 : d[s.row][Columns[i]] = s.bar[Columns[i]]
        BY ONLY <3>2, <3>3
      <3>5. cells'[m].data = d
        BY ONLY <3>1, <3>2
      <3>6. QED
        BY ONLY <3>4, <3>5
    <2>2. s.row = RowOf(t + 1)
      BY <1>4, <1>14
    <2>3. QED
      BY <1>6, <1>7, <1>12, <1>13, <2>1, <2>2 DEF Writes
  <1>19. ASSUME InHours PROVE StartsRise(m)'
    <2>1. StartsRise(m)
      BY <1>10, <1>19
    <2>2. PICK b, q : b = Begun(m) /\ q = StartAt(m, l)
      OBVIOUS
    <2>3. Begun(m)' = b /\ cells'[m].total = t /\ StartAt(m, Len(ticks))' = q
      <3>1. StartAt(m, l)' = StartAt(m, l) /\ Len(ticks') = l
        BY <1>1, <1>3, TicksStay
      <3>2. QED
        BY <1>12, <1>13, <1>14, <2>2, <3>1
    <2>4. /\ \A h \in 1..b : h > b - Rows => StartOf(m, h)' \in Nat \ {0}
          /\ \A h, j \in 1..b : h > b - Rows /\ h < j => StartOf(m, h)' < StartOf(m, j)'
          /\ b > 0 => Len(ticks) > 0 /\ StartOf(m, b)' <= q
      BY <1>3, <1>15, <2>1, <2>2 DEF StartsRise
    <2>5. /\ s.bar.start \in Nat \ {0} /\ s.bar.start <= q /\ s.bar.start = q
          /\ t > 0 => StartOf(m, t)' < s.bar.start
      BY <1>3, <1>4, <1>15, <2>1, <2>2 DEF StartsRise
    <2>6. slave'.bar = s.bar /\ slave'.fresh
      BY <1>6, <1>7
    <2>7. QED
      BY <1>1, <2>3, <2>4, <2>5, <2>6 DEF StartsRise
  <1>20. ASSUME InHours, NeverHalted PROVE Holds(m)'
    <2>1. Holds(m)
      BY <1>10, <1>20
    <2>2. PICK d, n, bar : d = Gone(m) /\ n = Seen(m) /\ bar = s.bar
      OBVIOUS
    <2>3. /\ cells'[m].total = t /\ Gone(m)' = d /\ Seen(m)' = n /\ Len(ticks') = l
          /\ slave'.bar = bar /\ slave'.fresh
      BY <1>1, <1>3, <1>6, <1>7, <1>9, <1>12, <1>13, <1>14, <2>2
    <2>4. t = 0 => n = 0
      BY <1>3, <2>1, <2>2 DEF Holds
    <2>5. \A h \in 1..t - 1 :
            h > d => /\ BarOf(m, h)' = SummaryTo(m, StartOf(m, h), l)'
                     /\ OfBar(m, StartOf(m, h), l)' # {}
      <3>1. ASSUME NEW h \in 1..t - 1, h > d
            PROVE  /\ BarOf(m, h)' = SummaryTo(m, StartOf(m, h), l)'
                   /\ OfBar(m, StartOf(m, h), l)' # {}
        <4>1. PICK z : z = StartOf(m, h)
          OBVIOUS
        <4>2. BarOf(m, h) = SummaryTo(m, z, l) /\ OfBar(m, z, l) # {}
          BY <1>3, <2>1, <2>2, <3>1, <4>1 DEF Holds
        <4>3. SummaryTo(m, z, l)' = SummaryTo(m, z, l) /\ OfBar(m, z, l)' = OfBar(m, z, l)
          BY <1>1, TicksStay
        <4>4. StartOf(m, h)' = z /\ BarOf(m, h)' = BarOf(m, h)
          BY <1>15, <4>1
        <4>5. QED
          BY <4>2, <4>3, <4>4
      <3>2. QED
        BY <3>1
    <2>6. t > 0 => Shows(m, BarOf(m, t), n)'
      <3>1. SUFFICES ASSUME t > 0 PROVE Shows(m, BarOf(m, t), n)'
        OBVIOUS
      <3>2. PICK z : z = BarOf(m, t)
        OBVIOUS
      <3>3. Shows(m, z, n)
        BY <1>3, <1>4, <2>1, <2>2, <3>1, <3>2 DEF Holds
      <3>4. Shows(m, z, n)'
        BY <1>1, <3>3, TicksStay
      <3>5. BarOf(m, t)' = z
        BY <1>15, <3>2
      <3>6. QED
        BY <3>4, <3>5
    <2>7. Shows(m, bar, l)'
      <3>1. Shows(m, bar, l)
        BY <1>3, <1>4, <2>1, <2>2 DEF Holds
      <3>2. QED
        BY <1>1, <3>1, TicksStay
    <2>8. QED
      BY <2>3, <2>4, <2>5, <2>6, <2>7 DEF Holds
  <1>21. ASSUME InHours, NEW h \in 1..Begun(m), h > Begun(m)' - Rows
         PROVE  StartOf(m, h)' >= StartOf(m, h)
    <2>1. StartOf(m, h) \in Nat
      BY <1>10, <1>14, <1>21 DEF StartsRise
    <2>2. QED
      BY <1>15, <2>1
  <1>22. /\ cells'[m].total \in Nat /\ cells[m].total <= cells'[m].total
         /\ Begun(m)' \in Nat /\ Begun(m) <= Begun(m)' /\ Begun(m)' <= Begun(m) + 1
         /\ Gone(m)' \in Nat /\ Gone(m) <= Gone(m)'
    BY <1>3, <1>10, <1>12, <1>13, <1>14
  <1>23. \A h \in 1..cells[m].total - 1 :
            h >= cells'[m].total + 2 - Rows => BarOf(m, h)' = BarOf(m, h)
    BY <1>15
  <1>24. InHours /\ NeverHalted =>
            /\ \A n \in Cells : n # m => Seen(n)' = Seen(n)
            /\ CellFrames[m] >= Source => Holds(m)'
    BY <1>9, <1>20
  <1>25. InHours => \A h \in 1..Begun(m) :
             h > Begun(m)' - Rows => StartOf(m, h)' >= StartOf(m, h)
    BY <1>21
  <1>26. InHours => StartsRise(m)'
    BY <1>19
  <1>27. /\ slave.at # "idle" /\ slave.m = m
         /\ slave'.at \in {"column", "writing", "writed"} => slave'.m = m
         /\ slave'.at # "idle" => slave'.time = slave.time /\ slave'.price = slave.price
    BY <1>1, <1>2, <1>3, <1>6, <1>7
  <1>28. QED
    BY <1>1, <1>8, <1>9, <1>12, <1>16, <1>17, <1>18, <1>22, <1>23, <1>24, <1>25, <1>26,
       <1>27, FrameStep

\* The bar is there to be read.
LEMMA WritedKeeps ==
    ASSUME BarsIInv, Writed
    PROVE  BarsIInv'
  <1>1. slave.at = "writed" /\ UNCHANGED <<setup, job, ticks>>
    BY DEF Writed
  <1>2. PICK m \in Cells : m = slave.m
    BY <1>1 DEF BarsIInv, SlaveInv, SlaveShape
  <1>3. PICK g, t, l, s, u :
            /\ g = IF slave.fresh THEN cells[m].total + 1 ELSE cells[m].total
            /\ t = cells[m].total /\ l = Len(ticks) /\ s = slave
            /\ u = Older(cells[m].writing, 1)
    OBVIOUS
  <1>4. /\ IsBar(s.bar) /\ s.fresh /\ On(m) /\ NewOn(m) /\ Counted(m)
        /\ s.row = RowOf(g) /\ s.row \in 0..Rows - 1 /\ CellFrames[m] >= Source
        /\ \A i \in 1..6 : cells[m].data[s.row][Columns[i]] = s.bar[Columns[i]]
    <2>1. slave.at \in {"column", "writing", "writed"} /\ slave.at # "column"
      BY <1>1
    <2>2. slave.m = m
      BY <1>2
    <2>3. /\ IsBar(slave.bar) /\ (slave.at # "column" => slave.fresh)
          /\ On(m) /\ (NewOn(m) <=> slave.fresh)
          /\ slave.row = RowOf(g) /\ slave.row \in 0..Rows - 1 /\ CellFrames[m] >= Source
          /\ \A i \in 1..6 : (slave.at = "column" => i < slave.k) =>
                 cells[m].data[slave.row][Columns[i]] = slave.bar[Columns[i]]
      BY <1>3, <2>1, <2>2, InColumn
    <2>4. Counted(m)
      BY <1>1, <1>2 DEF Counted
    <2>5. QED
      BY <1>3, <2>1, <2>3, <2>4
  <1>5. slave' = NextCell(m)
    BY <1>2 DEF Writed
  <1>6. /\ SlaveShape'
        /\ slave'.at \in {"idle", "cell"}
        /\ slave'.at # "idle" => slave'.time = slave.time /\ slave'.price = slave.price
        /\ \A n \in Cells : n # m => Seen(n)' = Seen(n)
        /\ Seen(m)' = l
        /\ ~On(m)' /\ ~NewOn(m)' /\ ~Counted(m)'
    <2>1. slave.at # "idle" /\ slave.m = m
      BY <1>1, <1>2
    <2>2. QED
      BY <1>1, <1>3, <1>5, <2>1, GoesOn
  <1>7. /\ CellShape(m) /\ Indices(m) /\ t \in Nat /\ Begun(m) \in Nat /\ Gone(m) \in Nat
        /\ InHours => StartsRise(m)
        /\ InHours /\ NeverHalted => Holds(m)
        /\ cells = [n \in Cells |-> IF n = m THEN cells[m] ELSE cells[n]]
    BY <1>3, <1>4, FrameFacts
  <1>8. PICK e : e = [cells[m] EXCEPT !.writed = u, !.total = t + 1]
    OBVIOUS
  <1>9. OnlyFrame(m, e) /\ cells'[m] = e
    <2>1. cells' = [cells EXCEPT ![m].writed = u, ![m].total = t + 1]
      BY <1>2, <1>3 DEF Writed
    <2>2. cells' = [cells EXCEPT ![m] = e]
      BY <1>7, <1>8, <2>1
    <2>3. QED
      BY <1>7, <2>2 DEF OnlyFrame
  <1>10. /\ RingShape(e, CellFrames[m]) /\ e.writing = cells[m].writing
         /\ e.tail = cells[m].tail
         /\ e.writed = u /\ e.total = t + 1 /\ e.data = cells[m].data
    <2>1. RingShape(cells[m], CellFrames[m])
      BY <1>7, ShapeIs
    <2>2. PICK x : x = cells[m]
      OBVIOUS
    <2>3. x = [f \in CellFields |-> x[f]]
      BY <2>1, <2>2 DEF RingShape
    <2>4. PICK y, v : y = [x EXCEPT !.writed = u] /\ v = t + 1
      OBVIOUS
    <2>5. e = [y EXCEPT !.total = v]
      BY <1>8, <2>2, <2>4
    <2>6. /\ y = [f \in CellFields |-> y[f]] /\ y.writing = x.writing /\ y.tail = x.tail
          /\ y.writed = u /\ y.data = x.data /\ y.frame = x.frame
      BY ONLY <2>3, <2>4 DEF CellFields
    <2>7. /\ e = [f \in CellFields |-> e[f]] /\ e.writing = y.writing /\ e.tail = y.tail
          /\ e.writed = y.writed /\ e.total = v /\ e.data = y.data /\ e.frame = y.frame
      BY ONLY <2>5, <2>6 DEF CellFields
    <2>8. QED
      BY <2>1, <2>2, <2>4, <2>6, <2>7 DEF RingShape
  <1>11. g = t + 1 /\ Begun(m) = t + 1 /\ Begun(m)' = t + 1 /\ Gone(m)' = Gone(m)
    BY <1>1, <1>3, <1>4, <1>6, <1>9, <1>10 DEF Begun, Gone
  <1>12. \A h : BarOf(m, h)' = BarOf(m, h) /\ StartOf(m, h)' = StartOf(m, h)
    BY <1>9, <1>10 DEF BarOf, StartOf
  <1>13. CellShape(m)'
    BY <1>9, <1>10, ShapeIs
  <1>14. cells[m].writing = g % Rows
    BY <1>3, <1>4, <1>7, <1>11 DEF Indices
  <1>15. Indices(m)'
    <2>1. u = RowOf(g)
      <3>1. PICK v : v = g + 1
        OBVIOUS
      <3>2. v \in Nat /\ v - 1 = g /\ 1 < v /\ 1 \in 0..Rows - 1
        BY <1>7, <1>11, <3>1, RowsAre
      <3>3. Older(RowOf(v), 1) = RowOf(v - 1)
        BY <3>2, OlderRow
      <3>4. RowOf(v) = g % Rows
        BY <3>2 DEF RowOf
      <3>5. QED
        BY <1>3, <1>14, <3>2, <3>3, <3>4
    <2>2. /\ cells'[m].writing = (t + 1) % Rows /\ cells'[m].total = t + 1
          /\ cells'[m].writed = RowOf(t + 1)
      BY <1>9, <1>10, <1>11, <1>14, <2>1
    <2>3. t + 1 \in Nat /\ t + 1 # 0
      BY <1>7
    <2>4. cells'[m].tail = Gone(m)' % Rows
      BY <1>7, <1>9, <1>10, <1>11 DEF Indices
    <2>5. QED
      BY <1>4, <1>6, <1>11, <2>2, <2>3, <2>4 DEF Indices
  <1>16. Writes(m)'
    BY <1>6 DEF Writes
  <1>17. ASSUME InHours PROVE StartsRise(m)'
    <2>1. StartsRise(m)
      BY <1>7, <1>17
    <2>2. PICK b, q : b = Begun(m) /\ q = StartAt(m, l)
      OBVIOUS
    <2>3. Begun(m)' = b /\ StartAt(m, Len(ticks))' = q
      <3>1. StartAt(m, l)' = StartAt(m, l) /\ Len(ticks') = l
        BY <1>1, <1>3, TicksStay
      <3>2. QED
        BY <1>11, <2>2, <3>1
    <2>4. /\ \A h \in 1..b : h > b - Rows => StartOf(m, h)' \in Nat \ {0}
          /\ \A h, j \in 1..b : h > b - Rows /\ h < j => StartOf(m, h)' < StartOf(m, j)'
          /\ b > 0 => Len(ticks) > 0 /\ StartOf(m, b)' <= q
      BY <1>3, <1>12, <2>1, <2>2 DEF StartsRise
    <2>5. QED
      BY <1>1, <1>6, <2>3, <2>4 DEF StartsRise
  <1>18. ASSUME InHours, NeverHalted PROVE Holds(m)'
    <2>1. Holds(m) /\ StartsRise(m)
      BY <1>7, <1>18
    <2>2. PICK d, n, bar : d = Gone(m) /\ n = Seen(m) /\ bar = s.bar
      OBVIOUS
    <2>3. l \in Nat /\ l > 0 /\ n = l - 1 /\ n \in Nat
      <3>1. slave.at # "idle" /\ slave.m \in Cells
        BY <1>1, <1>2
      <3>2. QED
        BY <1>2, <1>3, <2>2, <3>1, LastTick
    <2>4. cells'[m].total = g /\ Gone(m)' = d /\ Len(ticks') = l /\ g \in Nat /\ g > 0
      BY <1>1, <1>3, <1>7, <1>9, <1>10, <1>11, <2>2
    <2>5. /\ bar.start \in Nat /\ bar.start = StartAt(m, l)
          /\ t > 0 => StartOf(m, t) < bar.start
      BY <1>3, <1>4, <2>1, <2>2 DEF StartsRise
    <2>6. ASSUME NEW h \in 1..t, h > d
          PROVE  BarOf(m, h) = SummaryTo(m, StartOf(m, h), l) /\ OfBar(m, StartOf(m, h), l) # {}
      <3>1. CASE h # t
        <4>1. h \in 1..t - 1
          BY <1>7, <2>6, <3>1
        <4>2. QED
          BY <1>3, <2>1, <2>2, <2>6, <4>1 DEF Holds
      <3>2. CASE h = t
        <4>1. t > 0
          BY <1>7, <2>6
        <4>2. Shows(m, BarOf(m, t), n)
          BY <1>3, <1>4, <2>1, <2>2, <4>1 DEF Holds
        <4>3. PICK z : z = StartOf(m, t)
          OBVIOUS
        <4>4. BarOf(m, t) = SummaryTo(m, z, n) /\ OfBar(m, z, n) # {}
          BY <4>2, <4>3 DEF Shows, StartOf
        <4>5. z \in Nat
          <5>1. t \in 1..Begun(m) /\ t > Begun(m) - Rows
            BY <1>7, <1>11, <4>1, RowsAre
          <5>2. QED
            BY <2>1, <4>3, <5>1 DEF StartsRise
        <4>6. n + 1 = l /\ n < Len(ticks) /\ StartAt(m, n + 1) # z
          BY <1>3, <2>3, <2>5, <4>1, <4>3, <4>5
        <4>7. LaterTick /\ TicksShape
          BY ClockIsRight DEF BarsIInv, SlaveInv
        <4>8. SummaryTo(m, z, l) = SummaryTo(m, z, n) /\ OfBar(m, z, l) = OfBar(m, z, n)
          BY <2>3, <4>6, <4>7 DEF LaterTick
        <4>9. QED
          BY <3>2, <4>3, <4>4, <4>8
      <3>3. QED
        BY <3>1, <3>2
    <2>7. \A h \in 1..g - 1 :
            h > d => /\ BarOf(m, h)' = SummaryTo(m, StartOf(m, h), l)'
                     /\ OfBar(m, StartOf(m, h), l)' # {}
      <3>1. ASSUME NEW h \in 1..g - 1, h > d
            PROVE  /\ BarOf(m, h)' = SummaryTo(m, StartOf(m, h), l)'
                   /\ OfBar(m, StartOf(m, h), l)' # {}
        <4>1. PICK z : z = StartOf(m, h)
          OBVIOUS
        <4>2. h \in 1..t
          BY <1>7, <1>11, <3>1
        <4>3. BarOf(m, h) = SummaryTo(m, z, l) /\ OfBar(m, z, l) # {}
          BY <2>6, <3>1, <4>1, <4>2
        <4>4. SummaryTo(m, z, l)' = SummaryTo(m, z, l) /\ OfBar(m, z, l)' = OfBar(m, z, l)
          BY <1>1, TicksStay
        <4>5. StartOf(m, h)' = z /\ BarOf(m, h)' = BarOf(m, h)
          BY <1>12, <4>1
        <4>6. QED
          BY <4>3, <4>4, <4>5
      <3>2. QED
        BY <3>1
    <2>8. Shows(m, BarOf(m, g), l)'
      <3>1. Shows(m, bar, l)'
        <4>1. Shows(m, bar, l)
          BY <1>3, <1>4, <2>1, <2>2 DEF Holds
        <4>2. QED
          BY <1>1, <4>1, TicksStay
      <3>2. BarOf(m, g)' = bar
        <4>1. PICK y : y = BarOf(m, g)'
          OBVIOUS
        <4>2. y = cells[m].data[s.row]
          BY <1>4, <1>12, <4>1 DEF BarOf
        <4>3. IsBar(y)
          BY <1>4, <1>7, <4>2, ShapeIs DEF RingShape, DataShape
        <4>4. \A i \in 1..6 : y[Columns[i]] = bar[Columns[i]]
          BY <1>4, <2>2, <4>2
        <4>5. \A f \in OfBars : y[f] = bar[f]
          BY <4>4, ColumnsDiffer
        <4>6. y = [f \in OfBars |-> y[f]] /\ bar = [f \in OfBars |-> bar[f]]
          BY <1>4, <2>2, <4>3 DEF IsBar
        <4>7. y = bar
          BY ONLY <4>5, <4>6
        <4>8. QED
          BY <4>1, <4>7
      <3>3. QED
        BY <3>1, <3>2
    <2>9. QED
      BY <1>6, <2>4, <2>7, <2>8 DEF Holds
  <1>19. ASSUME InHours, NEW h \in 1..Begun(m), h > Begun(m)' - Rows
         PROVE  StartOf(m, h)' >= StartOf(m, h)
    <2>1. StartOf(m, h) \in Nat
      BY <1>7, <1>11, <1>19 DEF StartsRise
    <2>2. QED
      BY <1>12, <2>1
  <1>20. /\ cells'[m].total \in Nat /\ cells[m].total <= cells'[m].total
         /\ Begun(m)' \in Nat /\ Begun(m) <= Begun(m)' /\ Begun(m)' <= Begun(m) + 1
         /\ Gone(m)' \in Nat /\ Gone(m) <= Gone(m)'
         /\ cells'[m].total > 0
    BY <1>3, <1>7, <1>9, <1>10, <1>11
  <1>21. cells[m].writing = 0 => cells'[m].total >= Rows
    <2>1. SUFFICES ASSUME g % Rows = 0 PROVE g >= Rows
      BY <1>9, <1>10, <1>11, <1>14
    <2>2. g \in Nat /\ g > 0
      BY <1>7, <1>11
    <2>3. g < Rows => g % Rows = g
      BY <2>2, RowsSame
    <2>4. QED
      BY <2>1, <2>2, <2>3, RowsAre
  <1>22. \A h \in 1..cells[m].total - 1 :
            h >= cells'[m].total + 2 - Rows => BarOf(m, h)' = BarOf(m, h)
    BY <1>12
  <1>23. InHours /\ NeverHalted =>
            /\ \A n \in Cells : n # m => Seen(n)' = Seen(n)
            /\ CellFrames[m] >= Source => Holds(m)'
    BY <1>6, <1>18
  <1>24. InHours => \A h \in 1..Begun(m) :
             h > Begun(m)' - Rows => StartOf(m, h)' >= StartOf(m, h)
    BY <1>19
  <1>25. InHours => StartsRise(m)'
    BY <1>17
  <1>26. /\ slave.at # "idle" /\ slave.m = m
         /\ ~(slave'.at \in {"column", "writing", "writed"})
    BY <1>1, <1>2, <1>6
  <1>27. QED
    BY <1>1, <1>6, <1>9, <1>13, <1>15, <1>16, <1>20, <1>21, <1>22, <1>23, <1>24, <1>25,
       <1>26, FrameStep

LEMMA BarsStutter ==
    ASSUME BarsIInv, UNCHANGED barsVars
    PROVE  BarsIInv'
  <1>1. UNCHANGED <<setup, cells, slave, ticks>> /\ UNCHANGED job
    BY DEF barsVars
  <1>2. SlaveInv' /\ CellInv' /\ StartInv' /\ HoldInv'
    BY <1>1, JobLeavesAlone
  <1>3. /\ InHours' = InHours
        /\ \A m : On(m)' = On(m) /\ NewOn(m)' = NewOn(m) /\ Counted(m)' = Counted(m)
        /\ \A m : Begun(m)' = Begun(m) /\ Gone(m)' = Gone(m)
        /\ \A m, g : BarOf(m, g)' = BarOf(m, g) /\ StartOf(m, g)' = StartOf(m, g)
    BY <1>1 DEF InHours, On, NewOn, Counted, Begun, Gone, BarOf, StartOf
  <1>4. JobShape' /\ RefusedRightly' /\ TailIsOld' /\ NotEmpty' /\ WithinBars'
    <2>1. JobShape /\ RefusedRightly /\ TailIsOld /\ NotEmpty /\ WithinBars
      BY DEF BarsIInv, JobInv
    <2>2. JobShape'
      BY <1>1, <2>1 DEF JobShape
    <2>3. RefusedRightly' /\ TailIsOld' /\ NotEmpty' /\ WithinBars'
      BY <1>1, <1>3, <2>1 DEF RefusedRightly, TailIsOld, NotEmpty, WithinBars
    <2>4. QED
      BY <2>2, <2>3
  <1>5. \A g : Reads(g) => Reads(g)'
    BY <1>1, <1>3 DEF Reads
  <1>6. ReadsSome'
    <2>1. ReadsSome /\ job' = job
      BY <1>1 DEF BarsIInv, JobInv
    <2>2. PICK b, j : b = Begun(job.m) /\ j = job.m
      OBVIOUS
    <2>3. Begun(job.m)' = b
      <3>1. Begun(j)' = b
        BY <1>3, <2>2
      <3>2. QED
        BY <2>1, <2>2, <3>1
    <2>4. QED
      BY <1>5, <2>1, <2>2, <2>3 DEF ReadsSome
  <1>7. OlderInv'
    <2>1. ASSUME NoOlder PROVE NoOlder'
      BY <1>1, <1>3, <2>1 DEF NoOlder
    <2>2. QED
      BY <1>3, <2>1 DEF OlderInv, BarsIInv
  <1>8. QED
    BY <1>2, <1>4, <1>6, <1>7 DEF BarsIInv, JobInv

LEMMA BarsStep ==
    ASSUME BarsIInv, BarsNext
    PROVE  BarsIInv'
  <1>1. ASSUME NEW time \in Times, NEW price \in Prices, Tick(time, price) PROVE BarsIInv'
    BY <1>1, TickKeeps
  <1>2. CASE Skip \/ Cell \/ Column \/ Writing \/ Writed
    BY <1>2, SkipKeeps, CellKeeps, ColumnKeeps, WritingKeeps, WritedKeeps
  <1>3. CASE \/ \E m \in DOMAIN cells, shift \in 0..Rows - 1 : Ask(m, shift)
             \/ CountWrited \/ LoadTail \/ Now \/ Locate \/ Copy \/ Return
    BY <1>3, JobSteps
  <1>4. QED
    BY <1>1, <1>2, <1>3 DEF BarsNext

\* What the job has read when it is done.
LEMMA ReadsFollow == BarsIInv => ReadsInv
  <1> SUFFICES ASSUME BarsIInv PROVE ReadsInv
    OBVIOUS
  <1>1. PICK m : m = job.m
    OBVIOUS
  <1>2. job.at # "idle" =>
           /\ m \in Cells /\ job.shift \in 0..Rows - 1 /\ job.asked.total \in Nat
           /\ cells[m].total \in Nat /\ job.asked.total <= cells[m].total
    <2>1. SUFFICES ASSUME job.at # "idle"
                   PROVE  /\ m \in Cells /\ job.shift \in 0..Rows - 1 /\ job.asked.total \in Nat
                          /\ cells[m].total \in Nat /\ job.asked.total <= cells[m].total
      OBVIOUS
    <2>2. QED
      BY <1>1, <2>1, AskedIs
  <1>3. job.at # "idle" => rows(m) = Rows
    <2>1. SUFFICES ASSUME job.at # "idle" PROVE rows(m) = Rows
      OBVIOUS
    <2>2. CellShape(m)
      BY <1>2, <2>1, FrameFacts
    <2>3. DOMAIN cells[m].data = 0..Rows - 1
      <3>1. PICK d : d = cells[m].data
        OBVIOUS
      <3>2. d = [r \in 0..Rows - 1 |-> d[r]]
        BY <2>2, <3>1 DEF CellShape
      <3>3. DOMAIN d = 0..Rows - 1
        BY ONLY <3>2
      <3>4. QED
        BY <3>1, <3>3
    <2>4. PICK n : n = Rows - 1
      OBVIOUS
    <2>5. Cardinality(0..n) = IF 0 > n THEN 0 ELSE n - 0 + 1
      BY <2>4, RowsAre, FS_Interval
    <2>6. QED
      BY <2>3, <2>4, <2>5, RowsAre DEF rows
  <1>4. NeverStale
    <2>1. SUFFICES ASSUME job.at = "read", InHours PROVE BarSeries("start") >= job.asked.start
      BY DEF NeverStale
    <2>2. job.bar.start >= job.asked.start
      BY <2>1 DEF BarsIInv, OlderInv, NoOlder
    <2>3. QED
      BY <2>1, <2>2 DEF BarSeries
  <1>5. RefusesOnlyWhenRound
    <2>1. SUFFICES ASSUME job.at = "refused", job.shift < job.asked.total
                   PROVE  \/ writed(m) >= rows(m)
                          \/ slave.at = "writed" /\ slave.m = m /\ cells[m].writing = 0
      BY <1>1 DEF RefusesOnlyWhenRound
    <2>2. \/ cells[m].total >= Rows
          \/ slave.at = "writed" /\ slave.m = m /\ cells[m].writing = 0
      BY <1>1, <2>1 DEF BarsIInv, JobInv, RefusedRightly
    <2>3. QED
      BY <1>3, <2>1, <2>2 DEF writed
  <1>6. ClosedBarsAreWhole
    <2>1. SUFFICES ASSUME job.at = "read", job.shift > 0, InHours, NeverHalted,
                          writed(m) - job.asked.total + job.shift + 1 < rows(m)
                   PROVE  Series = Summary(cells[m].frame, BarSeries("start"))
      BY <1>1 DEF ClosedBarsAreWhole
    <2>2. PICK t, a, h, l, bar : /\ t = cells[m].total /\ a = job.asked.total /\ h = job.shift
                                 /\ l = Len(ticks) /\ bar = job.bar
      OBVIOUS
    <2>3. /\ m \in Cells /\ t \in Nat /\ a \in Nat /\ a <= t /\ h \in Nat /\ h > 0 /\ h < Rows
          /\ t - a + h + 1 < Rows
      BY <1>2, <1>3, <2>1, <2>2, RowsAre DEF writed
    <2>4. PICK g \in 1..Begun(m) : Reads(g)
      BY <1>1, <2>1 DEF BarsIInv, JobInv, ReadsSome
    <2>5. /\ g >= a - h /\ g < t
          /\ \A i \in 1..6 : bar[Columns[i]] = BarOf(m, g)[Columns[i]]
      <3>1. /\ g >= job.asked.total - job.shift
            /\ job.shift > 0 => g < cells[job.m].total
            /\ job.shift > 0 /\ cells[job.m].total - job.asked.total + job.shift + 1 < Rows =>
                  \A i \in 1..6 : (job.at = "copy" => i < job.k) =>
                      job.bar[Columns[i]] = BarOf(job.m, g)[Columns[i]]
        BY <2>4 DEF Reads
      <3>2. job.at # "copy"
        BY <2>1
      <3>3. QED
        BY <1>1, <2>2, <2>3, <3>1, <3>2
    <2>6. Begun(m) \in Nat /\ Gone(m) \in Nat /\ CellShape(m) /\ Indices(m)
      BY <2>3, FrameFacts
    <2>7. g \in 1..t - 1 /\ g \in Nat /\ g > 0 /\ t > 0
      BY <2>3, <2>4, <2>5, <2>6
    <2>8. g > Gone(m)
      <3>1. PICK n : n = IF NewOn(m) THEN cells[m].total + 1 ELSE cells[m].total
        OBVIOUS
      <3>2. Gone(m) = IF n - Rows < 0 THEN 0 ELSE n - Rows
        BY <3>1 DEF Gone
      <3>3. n = t \/ n = t + 1
        BY <2>2, <3>1
      <3>4. g > t + 1 - Rows
        BY <2>3, <2>5, <2>7, RowsAre
      <3>5. QED
        BY <2>3, <2>7, <3>2, <3>3, <3>4, RowsAre
    <2>9. CellFrames[m] >= Source
      BY <2>2, <2>6, <2>7 DEF Indices
    <2>10. Holds(m)
      BY <2>1, <2>3, <2>9, FrameFacts
    <2>11. BarOf(m, g) = SummaryTo(m, StartOf(m, g), l)
      BY <2>2, <2>7, <2>8, <2>10 DEF Holds
    <2>12. bar = BarOf(m, g)
      <3>1. IsBar(bar)
        BY <2>1, <2>2 DEF BarsIInv, JobInv, JobShape, IsBar
      <3>2. PICK y : y = BarOf(m, g)
        OBVIOUS
      <3>3. IsBar(y)
        <4>1. RowOf(g) \in 0..Rows - 1
          BY <2>7, RowRange
        <4>2. RingShape(cells[m], CellFrames[m])
          BY <2>6, ShapeIs
        <4>3. QED
          BY <3>2, <4>1, <4>2 DEF RingShape, DataShape, BarOf
      <3>4. \A f \in OfBars : y[f] = bar[f]
        BY <2>5, <3>2, ColumnsDiffer
      <3>5. y = [f \in OfBars |-> y[f]] /\ bar = [f \in OfBars |-> bar[f]]
        BY <3>1, <3>3 DEF IsBar
      <3>6. y = bar
        BY ONLY <3>4, <3>5
      <3>7. QED
        BY <3>2, <3>6
    <2>13. Series = bar
      <3>1. DOMAIN NoBar = OfBars
        BY NoBarIs
      <3>2. \A f : BarSeries(f) = bar[f]
        BY <2>1, <2>2 DEF BarSeries
      <3>3. Series = [f \in OfBars |-> bar[f]]
        BY <3>1, <3>2 DEF Series
      <3>4. bar = [f \in OfBars |-> bar[f]]
        BY <2>1, <2>2 DEF BarsIInv, JobInv, JobShape
      <3>5. QED
        BY <3>3, <3>4
    <2>14. PICK z : z = bar.start
      OBVIOUS
    <2>15. bar = SummaryTo(m, z, l)
      BY <2>11, <2>12, <2>14 DEF StartOf
    <2>16. Summary(cells[m].frame, z) = SummaryTo(m, z, l)
      <3>1. DOMAIN ticks = 1..l
        BY <2>2 DEF BarsIInv, SlaveInv, TicksShape
      <3>2. cells[m].frame = CellFrames[m]
        BY <2>6 DEF CellShape
      <3>3. QED
        BY <3>1, <3>2 DEF Summary, SummaryTo, OfBar, StartAt
    <2>17. BarSeries("start") = z
      BY <2>1, <2>2, <2>14 DEF BarSeries
    <2>18. QED
      BY <2>13, <2>15, <2>16, <2>17
  <1>7. QED
    BY <1>4, <1>5, <1>6 DEF ReadsInv

\* A job that reads bars through Container::read() and SilkPermit, which loads the
\* indices one by one and copies column by column, while Container::push() of the
\* slave opens, writes and counts rows: it gets no bar older than the one it asked
\* for; a closed bar it gets whole, as the ticks made it, unless the ring has come
\* round to it; and it is refused a bar that is there only once the ring is full.
\* For rings of any length, any frames, hours and stream of ticks, however the
\* steps of the two interleave.
THEOREM BarsReadRight == BarsSpec => []ReadsInv
  <1>1. BarsInit => BarsIInv
    BY BarsStart
  <1>2. BarsIInv /\ [BarsNext]_barsVars => BarsIInv'
    BY BarsStep, BarsStutter
  <1>3. BarsIInv => ReadsInv
    BY ReadsFollow
  <1>4. QED
    BY <1>1, <1>2, <1>3, PTL DEF BarsSpec

-----------------------------------------------------------------------------
(* Which bars are empty: a stock that is halted opens no bar after an empty one,   *)
(* and an index has no tick without a price.                                       *)

Priced(m) ==
    On(m) => /\ \A c \in OfBars : slave.bar[c] \in Int
             /\ setup.stock = 0 => slave.bar.close # 0

\* The bar is kept and is not the newest, or no tick comes without a price.
Settles(m, g) == g > Gone(m) /\ (g < cells[m].total \/ NewOn(m) \/ setup.stock = 0)

Closed(m) ==
    \A g \in 1..cells[m].total : Settles(m, g) => g = 1 \/ BarOf(m, g).close # 0

Numeric(m) == \A r \in 0..Rows - 1, c \in OfBars : cells[m].data[r][c] \in Int

HaltInv ==
    /\ setup \in [stock : Stocks, append : Appends, onOpen : OnOpens]
    /\ setup.stock = 0 /\ slave.at # "idle" => slave.price # 0
    /\ \A m \in Cells : Priced(m) /\ Closed(m) /\ Numeric(m)

LEMMA HaltStart == BarsInit => HaltInv
  <1> SUFFICES ASSUME BarsInit PROVE HaltInv
    OBVIOUS
  <1>1. /\ setup \in [stock : Stocks, append : Appends, onOpen : OnOpens]
        /\ slave.at = "idle"
    BY DEF BarsInit
  <1>2. ASSUME NEW m \in Cells PROVE Priced(m) /\ Closed(m) /\ Numeric(m)
    <2>1. cells[m].total = 0 /\ cells[m].data = [r \in 0..Rows - 1 |-> NoBar]
      BY DEF BarsInit, Cells
    <2>2. Priced(m)
      BY <1>1 DEF Priced, On
    <2>3. Closed(m)
      BY <2>1 DEF Closed
    <2>4. Numeric(m)
      BY <2>1, NoBarIs DEF Numeric
    <2>5. QED
      BY <2>2, <2>3, <2>4
  <1>3. QED
    BY <1>1, <1>2 DEF HaltInv

\* A frame keeps its bars.
LEMMA HaltStands ==
    ASSUME HaltInv, UNCHANGED setup, NEW n \in Cells,
           cells'[n].data = cells[n].data, cells'[n].total = cells[n].total,
           NewOn(n)' <=> NewOn(n)
    PROVE  Closed(n)' /\ Numeric(n)'
  <1>1. Closed(n) /\ Numeric(n)
    BY DEF HaltInv
  <1>2. Gone(n)' = Gone(n)
    BY DEF Gone
  <1>3. \A g : BarOf(n, g)' = BarOf(n, g) /\ (Settles(n, g)' <=> Settles(n, g))
    BY <1>2 DEF BarOf, Settles
  <1>4. Closed(n)'
    BY <1>1, <1>3 DEF Closed
  <1>5. Numeric(n)'
    BY <1>1 DEF Numeric
  <1>6. QED
    BY <1>4, <1>5

\* A step that writes in no bar.
LEMMA HaltCalm ==
    ASSUME HaltInv, UNCHANGED <<setup, cells>>,
           setup.stock = 0 /\ slave'.at # "idle" => slave'.price # 0,
           \A n \in Cells : NewOn(n)' <=> NewOn(n),
           \A n \in Cells : Priced(n)'
    PROVE  HaltInv'
  <1>1. ASSUME NEW n \in Cells PROVE Closed(n)' /\ Numeric(n)'
    BY HaltStands
  <1>2. setup \in [stock : Stocks, append : Appends, onOpen : OnOpens]
    BY DEF HaltInv
  <1>3. QED
    BY <1>1, <1>2 DEF HaltInv

\* A step of the slave in one frame.
LEMMA HaltStep ==
    ASSUME HaltInv, UNCHANGED setup, slave.at # "idle", NEW m \in Cells, slave.m = m,
           slave'.at # "idle" => slave'.price = slave.price,
           slave'.at \in {"column", "writing", "writed"} => slave'.m = m,
           NEW e, OnlyFrame(m, e),
           Priced(m)', Closed(m)', Numeric(m)'
    PROVE  HaltInv'
  <1>1. ASSUME NEW n \in Cells, n # m PROVE Priced(n)' /\ Closed(n)' /\ Numeric(n)'
    <2>1. cells'[n] = cells[n] /\ ~On(n) /\ ~On(n)'
      BY <1>1 DEF On, OnlyFrame
    <2>2. NewOn(n)' <=> NewOn(n)
      BY <2>1 DEF NewOn
    <2>3. QED
      BY <2>1, <2>2, HaltStands DEF Priced
  <1>2. /\ setup \in [stock : Stocks, append : Appends, onOpen : OnOpens]
        /\ setup.stock = 0 => slave.price # 0
    BY DEF HaltInv
  <1>3. QED
    BY <1>1, <1>2 DEF HaltInv

\* The job writes in no bar.
LEMMA HaltRests ==
    ASSUME HaltInv, UNCHANGED <<setup, cells, slave>>
    PROVE  HaltInv'
  <1>1. \A n \in Cells : (NewOn(n)' <=> NewOn(n)) /\ Priced(n)'
    BY DEF HaltInv, NewOn, On, Priced
  <1>2. setup.stock = 0 /\ slave'.at # "idle" => slave'.price # 0
    BY DEF HaltInv
  <1>3. QED
    BY <1>1, <1>2, HaltCalm

LEMMA HaltTick ==
    ASSUME BarsIInv, HaltInv, NEW time \in Times, NEW price \in Prices, Tick(time, price)
    PROVE  HaltInv'
  <1>1. /\ slave.at = "idle" /\ UNCHANGED <<setup, cells>>
        /\ slave'.at = "cell" /\ slave'.price = price
        /\ setup.stock = 0 => price # 0
    BY DEF Tick
  <1>2. \A n \in Cells : ~On(n) /\ ~On(n)'
    BY <1>1 DEF On
  <1>3. \A n \in Cells : (NewOn(n)' <=> NewOn(n)) /\ Priced(n)'
    BY <1>2 DEF NewOn, Priced
  <1>4. QED
    BY <1>1, <1>3, HaltCalm

\* The slave goes on, or leaves the tick.
LEMMA HaltGoesOn ==
    ASSUME BarsIInv, HaltInv, slave.at = "cell", UNCHANGED <<setup, cells>>,
           slave'.at \in {"idle", "cell"}, slave'.at # "idle" => slave'.price = slave.price
    PROVE  HaltInv'
  <1>1. \A n \in Cells : ~On(n) /\ ~On(n)'
    BY DEF On
  <1>2. \A n \in Cells : (NewOn(n)' <=> NewOn(n)) /\ Priced(n)'
    BY <1>1 DEF NewOn, Priced
  <1>3. setup.stock = 0 /\ slave'.at # "idle" => slave'.price # 0
    BY DEF HaltInv
  <1>4. QED
    BY <1>2, <1>3, HaltCalm

\* It begins to write over the last bar.
LEMMA HaltRewrites ==
    ASSUME BarsIInv, HaltInv, slave.at = "cell", NEW m \in Cells, slave.m = m,
           UNCHANGED <<setup, cells, ticks>>, NEW row, NEW bar,
           slave' = Columned(row, bar, FALSE), IsBar(bar),
           \A c \in OfBars : bar[c] \in Int, bar.close = slave.price
    PROVE  HaltInv'
  <1>1. /\ slave'.at = "column" /\ slave'.m = m /\ slave'.price = slave.price
        /\ slave'.bar = bar /\ ~slave'.fresh
    BY ColumnedIs
  <1>2. \A n \in Cells : ~On(n)
    BY AtCell
  <1>3. \A n \in Cells : NewOn(n)' <=> NewOn(n)
    BY <1>1, <1>2 DEF NewOn
  <1>4. setup.stock = 0 => slave.price # 0
    BY DEF HaltInv
  <1>5. \A n \in Cells : Priced(n)'
    BY <1>1, <1>4 DEF Priced
  <1>6. QED
    BY <1>1, <1>3, <1>4, <1>5, HaltCalm

\* A bar starts at a whole minute, in the hours of trading or outside.
LEMMA StartIsWhole ==
    ASSUME NEW m \in Cells, NEW t \in Stamps
    PROVE  startTime(CellFrames[m], t) \in Int
  <1>1. t \in Int
    <2>1. Times \subseteq Nat /\ Source \in Int
      BY BarsAssumption, FramesAre
    <2>2. QED
      BY <2>1 DEF Stamps
  <1>2. CASE InWindow(t)
    <2>1. t \in {s \in Stamps : InWindow(s)} /\ m \in DOMAIN CellFrames
      BY <1>2 DEF Cells
    <2>2. startTime(CellFrames[m], t) \in Nat \ {0}
      BY <2>1, ClockAssumption
    <2>3. QED
      BY <2>2
  <1>3. CASE ~InWindow(t)
    <2>1. PICK f : f = CellFrames[m]
      OBVIOUS
    <2>2. f \in TimeFrames
      BY <2>1, FramesAre DEF Cells
    <2>3. deviation(t, f) = 0
      <3>1. {n \in DOMAIN Hours : LET now == (t + Offset) % Day
                                  IN  Hours[n][1] <= now /\ now <= Hours[n][2]} = {}
        BY <1>3 DEF InWindow
      <3>2. QED
        BY <3>1 DEF deviation
    <2>4. Offset \in Int /\ Day = 1440
      BY BarsAssumption DEF Day
    <2>5. NowTime(t) \in Int
      <3>1. PICK gmt : gmt = IF Gmt THEN Offset ELSE 0
        OBVIOUS
      <3>2. gmt \in Int
        BY <2>4, <3>1
      <3>3. NowTime(t) = (t + gmt) - ((t + gmt) % 1440) - gmt
        BY <2>4, <3>1 DEF NowTime
      <3>4. QED
        BY ONLY <1>1, <3>2, <3>3
    <2>6. first_of_the_week(t) \in Int
      <3>1. PICK d, r : d = ((t \div 1440) + 3) % 7 /\ r = t % 1440
        OBVIOUS
      <3>2. d \in Int /\ r \in Int
        BY ONLY <1>1, <3>1
      <3>3. first_of_the_week(t) = t - d * 1440 - r
        BY <2>4, <3>1 DEF first_of_the_week
      <3>4. QED
        BY ONLY <1>1, <3>2, <3>3
    <2>7. CASE f \in {1, 5}
      <3>1. startTime(f, t) = t - (t % f)
        BY <2>4, <2>7 DEF startTime
      <3>2. t - (t % f) \in Int
        BY ONLY <1>1, <2>7
      <3>3. QED
        BY <2>1, <3>1, <3>2
    <2>8. CASE f \in {15, 30, 60, 240}
      <3>1. startTime(f, t) = NowTime(t) + deviation(t, f)
        BY <2>4, <2>8 DEF startTime
      <3>2. QED
        BY <2>1, <2>3, <2>5, <3>1
    <2>9. CASE f = 1440
      <3>1. startTime(f, t) = NowTime(t)
        BY <2>4, <2>9 DEF startTime
      <3>2. QED
        BY <2>1, <2>5, <3>1
    <2>10. CASE f = 10080
      <3>1. startTime(f, t) = first_of_the_week(t) - (IF Gmt THEN Offset ELSE 0)
        BY <2>4, <2>10 DEF startTime
      <3>2. QED
        BY <2>1, <2>4, <2>6, <3>1
    <2>11. QED
      BY <2>2, <2>7, <2>8, <2>9, <2>10 DEF TimeFrames
  <1>4. QED
    BY <1>2, <1>3

\* The start of the bar that the slave looks for.
LEMMA StartNow ==
    ASSUME BarsIInv, slave.at = "cell", NEW m \in Cells, slave.m = m
    PROVE  startTime(cells[m].frame, slave.time) \in Int /\ slave.price \in Int
  <1>1. /\ Len(ticks) \in Nat /\ Len(ticks) > 0
        /\ startTime(cells[m].frame, slave.time) = StartAt(m, Len(ticks))
        /\ slave.price \in Nat
    BY LastTick
  <1>2. ticks \in Seq([came : Times, time : Stamps, price : Prices])
    BY DEF BarsIInv, SlaveInv, TicksShape
  <1>3. ticks[Len(ticks)].time \in Stamps
    <2>1. PICK n : n = Len(ticks)
      OBVIOUS
    <2>2. ticks[n] \in [came : Times, time : Stamps, price : Prices]
      <3>1. n \in 1..Len(ticks)
        BY <1>1, <2>1
      <3>2. QED
        BY ONLY <1>2, <3>1, ElementOfSeq
    <2>3. QED
      BY <2>1, <2>2
  <1>4. QED
    BY <1>1, <1>3, StartIsWhole DEF StartAt

LEMMA UpdatedIs ==
    ASSUME NEW bar, IsBar(bar), NEW price
    PROVE  /\ IsBar(Updated(bar, price)) /\ Updated(bar, price).close = price
           /\ price \in Int /\ (\A c \in OfBars : bar[c] \in Int) =>
                 \A c \in OfBars : Updated(bar, price)[c] \in Int
  <1>1. PICK u : u = Updated(bar, price)
    OBVIOUS
  <1>2. /\ u = [c \in OfBars |-> u[c]]
        /\ u.start = bar.start /\ u.open = bar.open
        /\ u.high = (IF price > bar.high THEN price ELSE bar.high)
        /\ u.low = (IF bar.low > price THEN price ELSE bar.low)
        /\ u.close = price
        /\ u.volume = IF setup.append THEN bar.volume + 1 ELSE bar.volume
    BY <1>1 DEF Updated, IsBar, OfBars
  <1>3. ASSUME price \in Int, \A c \in OfBars : bar[c] \in Int, NEW c \in OfBars
        PROVE  u[c] \in Int
    BY <1>2, <1>3 DEF OfBars
  <1>4. QED
    BY <1>1, <1>2, <1>3 DEF IsBar

LEMMA OpenedIsWhole ==
    ASSUME NEW start \in Int, NEW price \in Int
    PROVE  /\ Opened(start, price).close = price
           /\ \A c \in OfBars : Opened(start, price)[c] \in Int
  BY DEF Opened, OfBars

\* A new bar begins: the one before it is not empty, or it is the first one.
LEMMA HaltOpens ==
    ASSUME BarsIInv, HaltInv, slave.at = "cell", NEW m \in Cells, slave.m = m,
           UNCHANGED <<setup, ticks>>, ~Paused(cells[m]),
           OnlyFrame(m, check(cells[m])), NEW bar, IsBar(bar),
           \A f \in OfBars : bar[f] \in Int, bar.close = slave.price,
           slave' = Columned(cells[m].writing, bar, TRUE)
    PROVE  HaltInv'
  <1>1. PICK t, c, w : t = cells[m].total /\ c = check(cells[m]) /\ w = cells[m].writing
    OBVIOUS
  <1>2. /\ slave'.at = "column" /\ slave'.m = m /\ slave'.price = slave.price
        /\ slave'.bar = bar /\ slave'.fresh /\ NewOn(m)'
    <2>1. slave' = Columned(w, bar, TRUE)
      BY <1>1
    <2>2. BarsIInv /\ slave.at = "cell" /\ m \in Cells /\ slave.m = m
          /\ UNCHANGED ticks /\ IsBar(bar)
      OBVIOUS
    <2>3. QED
      BY ONLY <2>1, <2>2, FreshIs, ZenonT(60)
  <1>3. OnlyFrame(m, c) /\ cells'[m] = c
    BY <1>1 DEF OnlyFrame
  <1>4. /\ cells'[m].data = cells[m].data /\ cells'[m].total = t
        /\ Gone(m)' \in Nat /\ Gone(m) <= Gone(m)'
    BY <1>1, <1>2, <1>3, GivesUp
  <1>5. Closed(m) /\ Numeric(m) /\ (setup.stock = 0 => slave.price # 0) /\ setup.stock \in Nat
    <2>1. /\ Closed(m) /\ Numeric(m) /\ (setup.stock = 0 => slave.price # 0)
          /\ setup \in [stock : Stocks, append : Appends, onOpen : OnOpens]
      BY DEF HaltInv
    <2>2. setup.stock \in Stocks
      BY <2>1
    <2>3. Stocks \subseteq Nat
      BY BarsAssumption
    <2>4. QED
      BY <2>1, <2>2, <2>3
  <1>6. ~On(m) /\ ~NewOn(m) /\ t \in Nat /\ Gone(m) \in Nat
    BY <1>1, AtCell, FrameFacts
  <1>7. ASSUME t > 0, t > Gone(m), setup.stock > 0 PROVE t = 1 \/ BarOf(m, t).close # 0
    <2>1. PICK prev : prev = cells[m].data[cells[m].writed]
      OBVIOUS
    <2>2. prev = BarOf(m, t)
      BY <1>1, <1>7, <2>1, LastBar
    <2>3. hash_row(cells[m].tail, cells[m].writed) = t - 1 - Gone(m)
      BY <1>1, <1>7, HashNow DEF BarsIInv
    <2>4. prev.close # 0 \/ ~(t - 1 - Gone(m) > 0)
      BY <1>7, <2>1, <2>3 DEF Paused
    <2>5. Gone(m) = IF t - Rows < 0 THEN 0 ELSE t - Rows
      BY <1>1, <1>6 DEF Gone
    <2>6. ~(t - 1 - Gone(m) > 0) => t = 1
      BY <1>6, <1>7, <2>5, RowsAre
    <2>7. QED
      BY <2>2, <2>4, <2>6
  <1>8. ASSUME NEW g \in 1..t, Settles(m, g)' PROVE g = 1 \/ BarOf(m, g).close # 0
    <2>1. g > Gone(m)
      BY <1>4, <1>6, <1>8 DEF Settles
    <2>2. CASE g < t \/ setup.stock = 0
      <3>1. Settles(m, g)
        BY <1>1, <2>1, <2>2 DEF Settles
      <3>2. QED
        BY <1>1, <1>5, <3>1 DEF Closed
    <2>3. CASE g = t /\ setup.stock > 0
      <3>1. t > 0 /\ t > Gone(m)
        BY <2>1, <2>3
      <3>2. QED
        BY <1>7, <2>3, <3>1
    <2>4. QED
      BY <1>5, <1>6, <2>2, <2>3
  <1>9. Closed(m)'
    <2>1. \A g : BarOf(m, g)' = BarOf(m, g)
      BY <1>4 DEF BarOf
    <2>2. QED
      BY <1>4, <1>8, <2>1 DEF Closed
  <1>10. Numeric(m)'
    BY <1>4, <1>5 DEF Numeric
  <1>11. Priced(m)'
    BY <1>2, <1>5 DEF Priced
  <1>12. QED
    <2>1. slave.at # "idle" /\ UNCHANGED setup
      OBVIOUS
    <2>2. HaltInv /\ m \in Cells /\ slave.m = m
      OBVIOUS
    <2>3. QED
      BY ONLY <1>2, <1>3, <1>9, <1>10, <1>11, <2>1, <2>2, HaltStep

LEMMA HaltCell ==
    ASSUME BarsIInv, HaltInv, Cell
    PROVE  HaltInv'
  <1>1. slave.at = "cell" /\ UNCHANGED <<setup, job, ticks>>
    BY DEF Cell
  <1>2. PICK m \in Cells : m = slave.m
    BY <1>1, AtCell
  <1>3. PICK cell, prev, start, pause, grows :
            /\ cell = cells[m] /\ prev = cell.data[cell.writed]
            /\ start = startTime(cell.frame, slave.time)
            /\ pause = Paused(cell)
            /\ grows = (~Empty(cell) /\ prev.start # 0 /\ prev.start = start)
    OBVIOUS
  <1>4. \/ slave' = [at |-> "idle"] /\ UNCHANGED cells
        \/ /\ slave' = Columned(cell.writed, Updated(prev, slave.price), FALSE)
           /\ UNCHANGED cells
        \/ /\ slave' = Columned(cell.writed, Opened(start, slave.price), FALSE)
           /\ UNCHANGED cells
        \/ /\ ~pause /\ cells' = [cells EXCEPT ![m] = check(cells[m])]
           /\ slave' = Columned(cell.writing, Opened(start, slave.price), TRUE)
    BY <1>2, <1>3 DEF Cell
  <1>5. start \in Int /\ slave.price \in Int /\ IsBar(prev)
    BY <1>1, <1>2, <1>3, StartNow, LastBar
  <1>6. \A f \in OfBars : prev[f] \in Int
    <2>1. cells[m].writed \in 0..Rows - 1
      <3>1. Indices(m)
        BY FrameFacts
      <3>2. CASE cells[m].total = 0
        BY <3>1, <3>2, RowsAre DEF Indices
      <3>3. CASE cells[m].total # 0
        BY <3>1, <3>3, RowRange DEF Indices
      <3>4. QED
        BY <3>2, <3>3
    <2>2. Numeric(m)
      BY DEF HaltInv
    <2>3. QED
      BY <1>3, <2>1, <2>2 DEF Numeric
  <1>7. PICK new, old : new = Opened(start, slave.price) /\ old = Updated(prev, slave.price)
    OBVIOUS
  <1>8. /\ IsBar(new) /\ new.close = slave.price /\ \A f \in OfBars : new[f] \in Int
        /\ IsBar(old) /\ old.close = slave.price /\ \A f \in OfBars : old[f] \in Int
    <2>1. IsBar(new) /\ new.close = slave.price /\ \A f \in OfBars : new[f] \in Int
      BY ONLY <1>5, <1>7, OpenedIs, OpenedIsWhole
    <2>2. IsBar(old) /\ old.close = slave.price /\ \A f \in OfBars : old[f] \in Int
      BY ONLY <1>5, <1>6, <1>7, UpdatedIs
    <2>3. QED
      BY <2>1, <2>2
  <1>9. CASE slave' = [at |-> "idle"] /\ UNCHANGED cells
    BY <1>1, <1>9, HaltGoesOn
  <1>10. CASE UNCHANGED cells /\ \E bar \in {new, old} : slave' = Columned(cell.writed, bar, FALSE)
    <2>1. PICK bar \in {new, old} : slave' = Columned(cell.writed, bar, FALSE)
      BY <1>10
    <2>2. IsBar(bar) /\ bar.close = slave.price /\ \A f \in OfBars : bar[f] \in Int
      BY <1>8
    <2>3. BarsIInv /\ HaltInv /\ m \in Cells
      OBVIOUS
    <2>4. UNCHANGED cells
      BY <1>10
    <2>5. QED
      BY ONLY <1>1, <1>2, <2>1, <2>2, <2>3, <2>4, HaltRewrites
  <1>11. CASE /\ ~pause /\ cells' = [cells EXCEPT ![m] = check(cells[m])]
              /\ slave' = Columned(cell.writing, new, TRUE)
    <2>1. OnlyFrame(m, check(cells[m]))
      <3>1. cells = [n \in Cells |-> IF n = m THEN cells[m] ELSE cells[n]]
        BY FrameFacts
      <3>2. QED
        BY <1>11, <3>1 DEF OnlyFrame
    <2>2. ~Paused(cells[m]) /\ slave' = Columned(cells[m].writing, new, TRUE)
      BY <1>3, <1>11
    <2>3. BarsIInv /\ HaltInv /\ m \in Cells
      OBVIOUS
    <2>4. QED
      BY ONLY <1>1, <1>2, <1>8, <2>1, <2>2, <2>3, HaltOpens
  <1>12. QED
    BY <1>4, <1>7, <1>9, <1>10, <1>11

\* A column of a bar is written: the close of a bar that has one stays one.
LEMMA HaltColumn ==
    ASSUME BarsIInv, HaltInv, Column
    PROVE  HaltInv'
  <1>1. slave.at = "column" /\ UNCHANGED <<setup, job, ticks>>
    BY DEF Column
  <1>2. PICK m \in Cells : m = slave.m
    BY <1>1 DEF BarsIInv, SlaveInv, SlaveShape
  <1>3. PICK g, t, k, row, bar, c, e :
            /\ g = IF slave.fresh THEN cells[m].total + 1 ELSE cells[m].total
            /\ t = cells[m].total /\ k = slave.k /\ row = slave.row /\ bar = slave.bar
            /\ c = Columns[slave.k] /\ e = cells'[m]
    OBVIOUS
  <1>4. Wrote(m, row, c, bar[c]) /\ Wrote(m, slave.row, Columns[slave.k], slave.bar[Columns[slave.k]])
    BY <1>2, <1>3 DEF Column, Wrote
  <1>5. /\ k \in 1..6 /\ slave.fresh \in BOOLEAN
        /\ On(m) /\ (NewOn(m) <=> slave.fresh)
        /\ g \in Nat /\ g > 0 /\ row = RowOf(g) /\ row \in 0..Rows - 1
    BY <1>1, <1>2, <1>3, InColumn
  <1>6. c \in OfBars
    BY <1>3, <1>5, ColumnsDiffer
  <1>7. /\ slave'.at # "idle" => slave'.price = slave.price
        /\ NewOn(m)' <=> slave.fresh
        /\ On(m)' => slave'.m = m /\ slave'.bar = bar
        /\ slave'.at \in {"column", "writing", "writed"} => On(m)'
    <2>1. slave' = IF slave.k < Len(Columns) THEN [slave EXCEPT !.k = slave.k + 1]
                   ELSE IF slave.fresh THEN [slave EXCEPT !.at = "writing"]
                   ELSE NextCell(m)
      BY <1>2 DEF Column
    <2>2. BarsIInv /\ m \in Cells /\ slave.m = m
      BY <1>2
    <2>3. QED
      BY ONLY <1>1, <1>3, <2>1, <2>2, AfterColumn
  <1>8. /\ OnlyFrame(m, e) /\ e.total = t
        /\ \A q \in 0..Rows - 1 : q # row => e.data[q] = cells[m].data[q]
        /\ e.data[row][c] = bar[c]
        /\ \A f \in OfBars : f # c => e.data[row][f] = cells[m].data[row][f]
    <2>1. BarsIInv /\ m \in Cells /\ row \in 0..Rows - 1 /\ c \in OfBars
          /\ Wrote(m, row, c, bar[c])
      BY <1>2, <1>4, <1>5, <1>6
    <2>2. /\ OnlyFrame(m, cells'[m]) /\ cells'[m].total = cells[m].total
          /\ \A q \in 0..Rows - 1 : q # row => cells'[m].data[q] = cells[m].data[q]
          /\ cells'[m].data[row][c] = bar[c]
          /\ \A f \in OfBars : f # c => cells'[m].data[row][f] = cells[m].data[row][f]
      BY ONLY <2>1, ColumnWrites, SMTT(30)
    <2>3. e = cells'[m] /\ t = cells[m].total
      BY <1>3
    <2>4. QED
      BY ONLY <2>2, <2>3
  <1>9. /\ Closed(m) /\ Numeric(m) /\ \A f \in OfBars : bar[f] \in Int
        /\ setup.stock = 0 => bar.close # 0
    BY <1>3, <1>5 DEF HaltInv, Priced
  <1>10. Numeric(m)'
    <2>1. ASSUME NEW q \in 0..Rows - 1, NEW f \in OfBars PROVE e.data[q][f] \in Int
      <3>1. cells[m].data[q][f] \in Int
        BY <1>9 DEF Numeric
      <3>2. CASE q = row /\ f = c
        BY <1>6, <1>8, <1>9, <3>2
      <3>3. CASE q # row \/ f # c
        BY <1>8, <3>1, <3>3
      <3>4. QED
        BY <3>2, <3>3
    <2>2. QED
      BY <1>3, <2>1 DEF Numeric
  <1>11. Gone(m)' = Gone(m)
    BY <1>3, <1>5, <1>7, <1>8 DEF Gone
  <1>12. t \in Nat /\ Gone(m) \in Nat
    BY <1>3, FrameFacts
  <1>13. ASSUME NEW h \in 1..t, Settles(m, h)' PROVE h = 1 \/ e.data[RowOf(h)].close # 0
    <2>1. Settles(m, h)
      BY <1>1, <1>3, <1>5, <1>7, <1>8, <1>11, <1>13 DEF Settles
    <2>2. h = 1 \/ cells[m].data[RowOf(h)].close # 0
      BY <1>3, <1>9, <2>1 DEF Closed, BarOf
    <2>3. CASE h = g
      <3>1. ~slave.fresh /\ h = t
        BY <1>3, <1>5, <1>12, <2>3
      <3>2. setup.stock = 0
        BY <1>3, <1>5, <2>1, <3>1 DEF Settles
      <3>3. CASE c = "close"
        BY <1>5, <1>8, <1>9, <2>3, <3>2, <3>3
      <3>4. CASE c # "close"
        <4>1. "close" \in OfBars
          BY DEF OfBars
        <4>2. e.data[row]["close"] = cells[m].data[row]["close"]
          BY <1>8, <3>4, <4>1
        <4>3. QED
          BY <1>5, <2>2, <2>3, <4>2
      <3>5. QED
        BY <3>3, <3>4
    <2>4. CASE h # g
      <3>1. h < g /\ h > g - Rows
        <4>1. h > Gone(m) /\ Gone(m) >= g - Rows
          BY <1>1, <1>2, <1>3, <2>1, InColumn DEF Settles
        <4>2. QED
          BY <1>3, <1>5, <1>12, <2>4, <4>1, RowsAre
      <3>2. RowOf(h) # row /\ RowOf(h) \in 0..Rows - 1
        <4>1. h \in Nat /\ 0 < h /\ g - h < Rows
          BY <1>5, <3>1, RowsAre
        <4>2. QED
          BY <1>5, <3>1, <4>1, RowsDiffer, RowRange
      <3>3. QED
        BY <1>8, <2>2, <3>2
    <2>5. QED
      BY <2>3, <2>4
  <1>14. Closed(m)'
    BY <1>3, <1>8, <1>13 DEF Closed, BarOf
  <1>15. Priced(m)'
    BY <1>1, <1>7, <1>9 DEF Priced
  <1>16. QED
    <2>1. slave.at # "idle" /\ UNCHANGED setup /\ slave.m = m
      BY <1>1, <1>2
    <2>2. slave'.at \in {"column", "writing", "writed"} => slave'.m = m
      BY <1>7
    <2>3. HaltInv /\ m \in Cells
      OBVIOUS
    <2>4. slave'.at # "idle" => slave'.price = slave.price
      BY <1>7
    <2>5. OnlyFrame(m, e)
      BY <1>8
    <2>6. QED
      BY ONLY <1>10, <1>14, <1>15, <2>1, <2>2, <2>3, <2>4, <2>5, HaltStep

\* The bar that is written whole.
LEMMA WroteAll ==
    ASSUME BarsIInv, slave.at \in {"writing", "writed"}, NEW m \in Cells, slave.m = m
    PROVE  /\ slave.fresh /\ slave.fresh \in BOOLEAN /\ On(m) /\ NewOn(m)
           /\ slave = [f \in ColumnFields |-> slave[f]]
           /\ BarOf(m, cells[m].total + 1).close = slave.bar.close
  <1>1. PICK g : g = IF slave.fresh THEN cells[m].total + 1 ELSE cells[m].total
    OBVIOUS
  <1>2. slave.at \in {"column", "writing", "writed"} /\ slave.at # "column"
    OBVIOUS
  <1>3. /\ slave = [f \in ColumnFields |-> slave[f]] /\ slave.fresh \in BOOLEAN
        /\ slave.at # "column" => slave.fresh
        /\ On(m) /\ (NewOn(m) <=> slave.fresh) /\ slave.row = RowOf(g)
        /\ \A i \in 1..6 : (slave.at = "column" => i < slave.k) =>
              cells[m].data[slave.row][Columns[i]] = slave.bar[Columns[i]]
    BY <1>1, <1>2, InColumn
  <1>4. 5 \in 1..6 /\ Columns[5] = "close"
    BY DEF Columns
  <1>5. cells[m].data[slave.row]["close"] = slave.bar["close"]
    BY <1>2, <1>3, <1>4
  <1>6. QED
    BY <1>1, <1>2, <1>3, <1>5 DEF BarOf

LEMMA HaltWriting ==
    ASSUME BarsIInv, HaltInv, Writing
    PROVE  HaltInv'
  <1>1. /\ slave.at = "writing" /\ slave.at # "idle" /\ UNCHANGED setup
        /\ slave' = [slave EXCEPT !.at = "writed"]
    BY DEF Writing
  <1>2. PICK m \in Cells : m = slave.m
    BY <1>1 DEF BarsIInv, SlaveInv, SlaveShape
  <1>3. PICK s, u, e : /\ s = slave /\ u = (cells[m].writing + 1) % Rows
                       /\ e = [cells[m] EXCEPT !.writing = u]
    OBVIOUS
  <1>4. /\ slave.fresh /\ On(m) /\ NewOn(m) /\ s = [f \in ColumnFields |-> s[f]]
    BY <1>1, <1>2, <1>3, WroteAll
  <1>5. /\ slave'.at = "writed" /\ slave'.m = s.m /\ slave'.price = s.price
        /\ slave'.bar = s.bar /\ slave'.fresh = s.fresh
    <2>1. slave' = [s EXCEPT !.at = "writed"]
      BY <1>1, <1>3
    <2>2. QED
      BY ONLY <1>4, <2>1 DEF ColumnFields
  <1>6. CellShape(m) /\ cells = [n \in Cells |-> IF n = m THEN cells[m] ELSE cells[n]]
    BY FrameFacts
  <1>7. OnlyFrame(m, e) /\ cells'[m] = e
    <2>1. cells' = [cells EXCEPT ![m] = e]
      BY <1>2, <1>3 DEF Writing
    <2>2. QED
      BY <1>6, <2>1 DEF OnlyFrame
  <1>8. e.data = cells[m].data /\ e.total = cells[m].total
    <2>1. PICK x : x = cells[m]
      OBVIOUS
    <2>2. x = [f \in CellFields |-> x[f]]
      BY <1>6, <2>1 DEF CellShape
    <2>3. e = [x EXCEPT !.writing = u]
      BY <1>3, <2>1
    <2>4. e.data = x.data /\ e.total = x.total
      BY ONLY <2>2, <2>3 DEF CellFields
    <2>5. QED
      BY <2>1, <2>4
  <1>9. NewOn(m)' <=> NewOn(m)
    BY <1>2, <1>3, <1>4, <1>5 DEF NewOn, On
  <1>10. Closed(m)' /\ Numeric(m)'
    BY <1>1, <1>7, <1>8, <1>9, HaltStands
  <1>11. Priced(m)'
    <2>1. Priced(m)
      BY DEF HaltInv
    <2>2. QED
      BY <1>1, <1>3, <1>4, <1>5, <2>1 DEF Priced
  <1>12. QED
    <2>1. HaltInv /\ m \in Cells /\ slave.m = m
      BY <1>2
    <2>2. /\ slave'.at # "idle" => slave'.price = slave.price
          /\ slave'.at \in {"column", "writing", "writed"} => slave'.m = m
      BY <1>2, <1>3, <1>5
    <2>3. QED
      BY ONLY <1>1, <1>7, <1>10, <1>11, <2>1, <2>2, HaltStep

LEMMA HaltWrited ==
    ASSUME BarsIInv, HaltInv, Writed
    PROVE  HaltInv'
  <1>1. /\ slave.at = "writed" /\ slave.at # "idle" /\ UNCHANGED <<setup, ticks>>
    BY DEF Writed
  <1>2. PICK m \in Cells : m = slave.m
    BY <1>1 DEF BarsIInv, SlaveInv, SlaveShape
  <1>3. PICK t, v, u, e : /\ t = cells[m].total /\ v = t + 1 /\ u = Older(cells[m].writing, 1)
                          /\ e = [cells[m] EXCEPT !.writed = u, !.total = v]
    OBVIOUS
  <1>4. /\ slave.fresh /\ On(m) /\ NewOn(m) /\ BarOf(m, v).close = slave.bar.close
    BY <1>1, <1>2, <1>3, WroteAll
  <1>5. /\ slave'.at \in {"idle", "cell"} /\ ~On(m)' /\ ~NewOn(m)'
        /\ slave'.at # "idle" => slave'.price = slave.price
    <2>1. slave' = NextCell(m)
      BY <1>2 DEF Writed
    <2>2. QED
      BY <1>1, <1>2, <2>1, GoesOn
  <1>6. /\ CellShape(m) /\ cells = [n \in Cells |-> IF n = m THEN cells[m] ELSE cells[n]]
        /\ t \in Nat /\ Gone(m) \in Nat
    BY <1>3, FrameFacts
  <1>7. OnlyFrame(m, e) /\ cells'[m] = e
    <2>1. cells' = [cells EXCEPT ![m].writed = u, ![m].total = v]
      BY <1>2, <1>3 DEF Writed
    <2>2. cells' = [cells EXCEPT ![m] = e]
      BY <1>3, <1>6, <2>1
    <2>3. QED
      BY <1>6, <2>2 DEF OnlyFrame
  <1>8. e.data = cells[m].data /\ e.total = v
    <2>1. PICK x, y : x = cells[m] /\ y = [x EXCEPT !.writed = u]
      OBVIOUS
    <2>2. x = [f \in CellFields |-> x[f]]
      BY <1>6, <2>1 DEF CellShape
    <2>3. e = [y EXCEPT !.total = v]
      BY <1>3, <2>1
    <2>4. e.data = x.data /\ e.total = v
      BY ONLY <2>1, <2>2, <2>3 DEF CellFields
    <2>5. QED
      BY <2>1, <2>4
  <1>9. Gone(m)' = Gone(m)
    BY <1>3, <1>4, <1>5, <1>7, <1>8 DEF Gone
  <1>10. Closed(m) /\ Numeric(m) /\ (setup.stock = 0 => slave.bar.close # 0)
    BY <1>4 DEF HaltInv, Priced
  <1>11. \A g : BarOf(m, g)' = BarOf(m, g)
    BY <1>7, <1>8 DEF BarOf
  <1>12. ASSUME NEW g \in 1..v, Settles(m, g)' PROVE g = 1 \/ BarOf(m, g).close # 0
    <2>1. g > Gone(m) /\ (g < v \/ setup.stock = 0)
      BY <1>1, <1>5, <1>7, <1>8, <1>9, <1>12 DEF Settles
    <2>2. CASE g = v
      BY <1>4, <1>6, <1>3, <1>10, <2>1, <2>2
    <2>3. CASE g # v
      <3>1. g \in 1..t
        BY <1>3, <1>6, <2>3
      <3>2. Settles(m, g)
        BY <1>4, <2>1 DEF Settles
      <3>3. QED
        BY <1>3, <1>10, <3>1, <3>2 DEF Closed
    <2>4. QED
      BY <2>2, <2>3
  <1>13. Closed(m)'
    BY <1>7, <1>8, <1>11, <1>12 DEF Closed
  <1>14. Numeric(m)'
    BY <1>7, <1>8, <1>10 DEF Numeric
  <1>15. Priced(m)'
    BY <1>5 DEF Priced
  <1>16. QED
    <2>1. HaltInv /\ m \in Cells /\ slave.m = m /\ UNCHANGED setup /\ slave.at # "idle"
      BY <1>1, <1>2
    <2>2. slave'.at \in {"column", "writing", "writed"} => slave'.m = m
      BY <1>5
    <2>3. slave'.at # "idle" => slave'.price = slave.price
      BY <1>5
    <2>4. QED
      BY ONLY <1>7, <1>13, <1>14, <1>15, <2>1, <2>2, <2>3, HaltStep

LEMMA HaltNext ==
    ASSUME BarsIInv, HaltInv, [BarsNext]_barsVars
    PROVE  HaltInv'
  <1>1. ASSUME NEW time \in Times, NEW price \in Prices, Tick(time, price) PROVE HaltInv'
    BY <1>1, HaltTick
  <1>2. CASE Skip
    <2>1. slave.at = "cell" /\ UNCHANGED <<setup, cells, job, ticks>> /\ slave' = NextCell(slave.m)
      BY <1>2 DEF Skip
    <2>2. slave'.at \in {"idle", "cell"} /\ (slave'.at # "idle" => slave'.price = slave.price)
      BY <2>1 DEF NextCell
    <2>3. QED
      BY <2>1, <2>2, HaltGoesOn
  <1>3. CASE \/ \E m \in DOMAIN cells, shift \in 0..Rows - 1 : Ask(m, shift)
             \/ CountWrited \/ LoadTail \/ Now \/ Locate \/ Copy \/ Return
    <2>1. UNCHANGED <<setup, cells, slave>>
      BY <1>3 DEF Ask, CountWrited, LoadTail, Now, Locate, Copy, Return
    <2>2. QED
      BY <2>1, HaltRests
  <1>4. CASE UNCHANGED barsVars
    BY <1>4, HaltRests DEF barsVars
  <1>5. QED
    BY <1>1, <1>2, <1>3, <1>4, HaltCell, HaltColumn, HaltWriting, HaltWrited DEF BarsNext

-----------------------------------------------------------------------------
(* What is shown of a frame. *)

\* The bars that are kept, up to the newest one or the one before it.
Bars(m, k) == [n \in 1..k |-> BarOf(m, Gone(m) + n)]

LEMMA ShownIs ==
    ASSUME BarsIInv, NEW m \in Cells
    PROVE  \E k \in Nat :
              /\ Shown(m) = Bars(m, k) /\ k <= Rows
              /\ \/ Gone(m) + k <= cells[m].total
                 \/ cells[m].total = 0 /\ Counted(m) /\ k = 1
              /\ On(m) /\ ~slave.fresh => Gone(m) + k < cells[m].total
  <1>1. PICK t, d, w, newest :
            /\ t = cells[m].total /\ d = Gone(m) /\ w = cells[m].writed
            /\ newest = IF Empty(cells[m]) THEN 0 ELSE hash_row(cells[m].tail, w) + 1
    OBVIOUS
  <1>2. PICK all : all = [n \in 1..newest |-> cells[m].data[Older(w, newest - n)]]
    OBVIOUS
  <1>3. Shown(m) = IF slave.at = "column" /\ slave.m = m /\ ~slave.fresh
                   THEN SubSeq(all, 1, newest - 1) ELSE all
    BY <1>1, <1>2 DEF Shown
  <1>4. /\ t \in Nat /\ d \in Nat /\ (t > 0 => d < t) /\ t - Rows <= d
        /\ (t < Rows => d = 0)
    BY <1>1, CountsAre DEF BarsIInv
  <1>5. hash_row(cells[m].tail, w) = IF t = 0 THEN 0 ELSE t - 1 - d
    BY <1>1, HashNow DEF BarsIInv
  <1>6. /\ cells[m].writing = (IF Counted(m) THEN t + 1 ELSE t) % Rows
        /\ w = IF t = 0 THEN 0 ELSE RowOf(t)
    BY <1>1, FrameFacts DEF Indices
  <1>7. On(m) /\ ~slave.fresh => t > 0 /\ slave.at = "column" /\ slave.m = m
    <2>1. SUFFICES ASSUME On(m), ~slave.fresh PROVE t > 0 /\ slave.at = "column" /\ slave.m = m
      OBVIOUS
    <2>2. PICK g : g = IF slave.fresh THEN cells[m].total + 1 ELSE cells[m].total
      OBVIOUS
    <2>3. slave.at \in {"column", "writing", "writed"} /\ slave.m = m
      BY <2>1 DEF On
    <2>4. (slave.at # "column" => slave.fresh) /\ (~slave.fresh => cells[m].total > 0)
      BY <2>2, <2>3, InColumn
    <2>5. QED
      BY <1>1, <2>1, <2>3, <2>4
  <1>8. \A k \in Nat : k <= newest => Bars(m, k) = [n \in 1..k |-> all[n]]
    <2>1. SUFFICES ASSUME NEW k \in Nat, k <= newest, NEW n \in 1..k
                   PROVE  BarOf(m, Gone(m) + n) = all[n]
      BY DEF Bars
    <2>2. newest # 0 /\ newest \in Nat /\ n \in 1..newest
      BY <1>1, <1>4, <1>5, <2>1
    <2>3. all[n] = cells[m].data[Older(w, newest - n)]
      BY <1>2, <2>2
    <2>4. CASE t = 0
      <3>1. newest = 1 /\ n = 1 /\ w = 0 /\ d = 0
        BY <1>1, <1>4, <1>5, <1>6, <2>2, <2>4, RowsAre
      <3>2. Older(w, newest - n) = 0 /\ RowOf(d + n) = 0
        BY <3>1, RowsAre DEF Older, RowOf
      <3>3. QED
        BY <1>1, <2>3, <3>2 DEF BarOf
    <2>5. CASE t > 0
      <3>1. newest = t - d
        BY <1>1, <1>4, <1>5, <2>2, <2>5
      <3>2. PICK h : h = newest - n
        OBVIOUS
      <3>3. h \in 0..Rows - 1 /\ h < t /\ t - h = d + n
        BY <1>4, <2>2, <3>1, <3>2, RowsAre
      <3>4. Older(RowOf(t), h) = RowOf(d + n)
        BY <1>4, <3>3, OlderRow
      <3>5. QED
        BY <1>1, <1>6, <2>3, <2>5, <3>2, <3>4 DEF BarOf
    <2>6. QED
      BY <1>4, <2>4, <2>5
  <1>9. newest \in Nat /\ all = [n \in 1..newest |-> all[n]]
    BY <1>1, <1>2, <1>4, <1>5
  <1>10. CASE slave.at = "column" /\ slave.m = m /\ ~slave.fresh
    <2>1. t > 0
      BY <1>7, <1>10 DEF On
    <2>2. PICK k \in Nat : k = IF newest = 0 THEN 0 ELSE newest - 1
      BY <1>9
    <2>3. SubSeq(all, 1, newest - 1) = [n \in 1..k |-> all[n]]
      BY <1>9, <2>2
    <2>4. newest = 0 \/ newest = t - d
      BY <1>1, <1>4, <1>5, <2>1
    <2>5. k <= newest /\ k <= Rows /\ d + k < t
      BY ONLY <1>4, <2>1, <2>2, <2>4, RowsAre
    <2>6. Shown(m) = [n \in 1..k |-> all[n]]
      BY <1>3, <1>10, <2>3
    <2>7. Shown(m) = Bars(m, k)
      BY <1>8, <2>2, <2>5, <2>6
    <2>8. QED
      BY <1>1, <1>4, <2>5, <2>7
  <1>11. CASE ~(slave.at = "column" /\ slave.m = m /\ ~slave.fresh)
    <2>1. Shown(m) = Bars(m, newest)
      <3>1. newest <= newest
        BY <1>9
      <3>2. Bars(m, newest) = [n \in 1..newest |-> all[n]]
        BY <1>8, <1>9, <3>1
      <3>3. QED
        BY <1>3, <1>9, <1>11, <3>2
    <2>2. newest <= Rows
      BY <1>1, <1>4, <1>5, RowsAre
    <2>3. d + newest <= t \/ (t = 0 /\ Counted(m) /\ newest = 1)
      <3>1. CASE t = 0 /\ ~Counted(m)
        <4>1. cells[m].writing = 0 /\ w = 0
          BY <1>6, <3>1, RowsAre
        <4>2. newest = 0
          BY <1>1, <4>1 DEF Empty
        <4>3. QED
          BY <1>4, <3>1, <4>2, RowsAre
      <3>2. CASE t = 0 /\ Counted(m)
        BY <1>1, <1>4, <1>5, <3>2, RowsAre
      <3>3. CASE t > 0
        BY <1>1, <1>4, <1>5, <3>3
      <3>4. QED
        BY <1>4, <3>1, <3>2, <3>3
    <2>4. QED
      BY <1>1, <1>7, <1>9, <1>11, <2>1, <2>2, <2>3
  <1>12. QED
    BY <1>10, <1>11

LEMMA SummaryIs ==
    ASSUME BarsIInv, NEW m \in Cells, NEW z
    PROVE  Summary(cells[m].frame, z) = SummaryTo(m, z, Len(ticks))
  <1>1. DOMAIN ticks = 1..Len(ticks)
    BY DEF BarsIInv, SlaveInv, TicksShape
  <1>2. cells[m].frame = CellFrames[m]
    BY FrameFacts
  <1>3. QED
    BY <1>1, <1>2 DEF Summary, SummaryTo, OfBar, StartAt

\* The bars of a frame follow one another and hold their ticks.
LEMMA ShownInOrder ==
    ASSUME BarsIInv, InHours, NEW m \in Cells
    PROVE  LET bars == Shown(m) IN
              /\ \A n \in 1..Len(bars) - 1 : bars[n].start < bars[n + 1].start
              /\ NeverHalted => \A n \in DOMAIN bars :
                    \/ bars[n] = Summary(cells[m].frame, bars[n].start)
                    \/ slave.at # "idle" /\ slave.m <= m /\ n = Len(bars)
  <1>1. PICK k \in Nat :
            /\ Shown(m) = Bars(m, k)
            /\ \/ Gone(m) + k <= cells[m].total
               \/ cells[m].total = 0 /\ Counted(m) /\ k = 1
            /\ On(m) /\ ~slave.fresh => Gone(m) + k < cells[m].total
    BY ShownIs
  <1>2. PICK t, d, bars : t = cells[m].total /\ d = Gone(m) /\ bars = Shown(m)
    OBVIOUS
  <1>3. /\ DOMAIN bars = 1..k /\ Len(bars) = k
        /\ \A n \in 1..k : bars[n] = BarOf(m, d + n)
    BY <1>1, <1>2 DEF Bars
  <1>4. /\ t \in Nat /\ d \in Nat /\ Begun(m) \in Nat /\ t <= Begun(m)
        /\ Begun(m) - Rows <= d
    BY <1>2, CountsAre DEF BarsIInv
  <1>5. StartsRise(m)
    BY FrameFacts
  <1>6. ASSUME NEW n \in 1..k - 1 PROVE bars[n].start < bars[n + 1].start
    <2>1. d + k <= t
      BY <1>1, <1>2, <1>6
    <2>2. PICK g, h : g = d + n /\ h = d + (n + 1)
      OBVIOUS
    <2>3. /\ g \in 1..Begun(m) /\ h \in 1..Begun(m) /\ g < h /\ g > Begun(m) - Rows
          /\ n \in 1..k /\ n + 1 \in 1..k
      BY <1>4, <2>1, <2>2, RowsAre
    <2>4. StartOf(m, g) < StartOf(m, h)
      BY <1>5, <2>3 DEF StartsRise
    <2>5. QED
      BY <1>3, <2>2, <2>3, <2>4 DEF StartOf
  <1>7. ASSUME NeverHalted, NEW n \in 1..k
        PROVE  \/ bars[n] = Summary(cells[m].frame, bars[n].start)
               \/ slave.at # "idle" /\ slave.m <= m /\ n = k
    <2>1. PICK g : g = d + n
      OBVIOUS
    <2>2. bars[n] = BarOf(m, g) /\ bars[n].start = StartOf(m, g)
      BY <1>3, <2>1 DEF StartOf
    <2>3. CASE t = 0
      <3>1. Counted(m) /\ n = k
        BY <1>1, <1>2, <1>4, <2>3
      <3>2. slave.m <= m
        BY <3>1, FramesAre DEF Counted
      <3>3. QED
        BY <3>1, <3>2 DEF Counted
    <2>4. CASE t > 0
      <3>1. d + k <= t /\ g \in 1..t /\ g > d /\ (g = t => n = k)
        BY <1>1, <1>2, <1>4, <2>1, <2>4
      <3>2. CellFrames[m] >= Source
        BY <1>2, <2>4, FrameFacts DEF Indices
      <3>3. Holds(m)
        BY <1>7, <3>2, FrameFacts
      <3>4. CASE g < t
        <4>1. g \in 1..t - 1
          BY <1>4, <3>1, <3>4
        <4>2. BarOf(m, g) = SummaryTo(m, StartOf(m, g), Len(ticks))
          BY <1>2, <3>1, <3>3, <4>1 DEF Holds
        <4>3. QED
          BY <2>2, <4>2, SummaryIs
      <3>5. CASE g = t /\ ~(slave.at # "idle" /\ slave.m <= m)
        <4>1. ~On(m)
          BY <3>5, FramesAre DEF On
        <4>2. Seen(m) = Len(ticks)
          BY <3>5 DEF Seen
        <4>3. Shows(m, BarOf(m, t), Len(ticks))
          BY <1>2, <2>4, <3>3, <4>1, <4>2 DEF Holds
        <4>4. BarOf(m, t) = SummaryTo(m, BarOf(m, t).start, Len(ticks))
          BY <4>3 DEF Shows
        <4>5. QED
          BY <2>2, <3>5, <4>4, SummaryIs DEF StartOf
      <3>6. QED
        BY <1>4, <3>1, <3>4, <3>5
    <2>5. QED
      BY <1>4, <2>3, <2>4
  <1>8. QED
    BY <1>2, <1>3, <1>6, <1>7

\* What is shown is not empty, but for the first bar and the newest one.
LEMMA ShownIsClosed ==
    ASSUME BarsIInv, HaltInv, NEW m \in Cells
    PROVE  LET bars == Shown(m) IN
              \A n \in 1..Len(bars) - 1 :
                  bars[n].close = 0 => n = 1 /\ cells[m].total <= Rows
  <1>1. PICK k \in Nat :
            /\ Shown(m) = Bars(m, k)
            /\ \/ Gone(m) + k <= cells[m].total
               \/ cells[m].total = 0 /\ Counted(m) /\ k = 1
    BY ShownIs
  <1>2. PICK t, d, bars : t = cells[m].total /\ d = Gone(m) /\ bars = Shown(m)
    OBVIOUS
  <1>3. Len(bars) = k /\ \A n \in 1..k : bars[n] = BarOf(m, d + n)
    BY <1>1, <1>2 DEF Bars
  <1>4. t \in Nat /\ d \in Nat /\ t - Rows <= d
    BY <1>2, CountsAre DEF BarsIInv
  <1>5. ASSUME NEW n \in 1..k - 1, bars[n].close = 0 PROVE n = 1 /\ t <= Rows
    <2>1. PICK g : g = d + n
      OBVIOUS
    <2>2. g \in 1..t /\ g > d /\ g < t /\ n \in 1..k
      BY <1>1, <1>2, <1>4, <1>5, <2>1
    <2>3. Settles(m, g)
      BY <1>2, <2>2 DEF Settles
    <2>4. Closed(m)
      BY DEF HaltInv
    <2>5. BarOf(m, g).close = 0
      BY <1>3, <1>5, <2>1, <2>2
    <2>6. g = 1
      BY <1>2, <2>2, <2>3, <2>4, <2>5 DEF Closed
    <2>7. QED
      BY <1>4, <1>5, <2>1, <2>6, RowsAre
  <1>6. QED
    BY <1>2, <1>3, <1>5

LEMMA BarsTyped ==
    ASSUME BarsIInv, HaltInv
    PROVE  BarsTypeOK
  <1>1. DOMAIN cells = Cells
    BY DEF BarsIInv, CellInv
  <1>2. ASSUME NEW m \in Cells
        PROVE  /\ cells[m].data \in [0..Rows - 1 -> [DOMAIN NoBar -> Int]]
               /\ {cells[m].writing, cells[m].tail, cells[m].writed} \subseteq 0..Rows - 1
               /\ slave.at # "writed" => cells[m].writed =
                     IF cells[m].total = 0 THEN 0 ELSE Older(cells[m].writing, 1)
               /\ Len(Shown(m)) <= Rows
    <2>1. PICK t, d, data : t = cells[m].total /\ d = Gone(m) /\ data = cells[m].data
      OBVIOUS
    <2>2. /\ t \in Nat /\ d \in Nat /\ cells[m].tail = d % Rows
          /\ cells[m].writing = (IF Counted(m) THEN t + 1 ELSE t) % Rows
          /\ cells[m].writed = IF t = 0 THEN 0 ELSE RowOf(t)
      BY <2>1, FrameFacts DEF Indices
    <2>3. data \in [0..Rows - 1 -> [DOMAIN NoBar -> Int]]
      <3>1. DOMAIN NoBar = OfBars
        BY NoBarIs
      <3>2. DataShape(data)
        BY <2>1, FrameFacts, ShapeIs DEF RingShape
      <3>3. \A r \in 0..Rows - 1 : data[r] \in [OfBars -> Int]
        <4>1. SUFFICES ASSUME NEW r \in 0..Rows - 1 PROVE data[r] \in [OfBars -> Int]
          OBVIOUS
        <4>2. PICK x : x = data[r]
          OBVIOUS
        <4>3. x = [c \in OfBars |-> x[c]]
          BY <3>2, <4>2 DEF DataShape, IsBar
        <4>4. \A c \in OfBars : x[c] \in Int
          BY <2>1, <4>2 DEF HaltInv, Numeric
        <4>5. QED
          BY <4>2, <4>3, <4>4
      <3>4. data = [r \in 0..Rows - 1 |-> data[r]]
        BY <3>2 DEF DataShape
      <3>5. QED
        BY <3>1, <3>3, <3>4
    <2>4. {cells[m].writing, cells[m].tail, cells[m].writed} \subseteq 0..Rows - 1
      <3>1. PICK u : u = IF Counted(m) THEN t + 1 ELSE t
        OBVIOUS
      <3>2. u \in Nat /\ cells[m].writing = u % Rows
        BY <2>2, <3>1
      <3>3. cells[m].writing \in 0..Rows - 1 /\ cells[m].tail \in 0..Rows - 1
        BY <2>2, <3>2, RowsSame
      <3>4. cells[m].writed \in 0..Rows - 1
        BY <2>2, RowRange, RowsAre
      <3>5. QED
        BY <3>3, <3>4
    <2>5. ASSUME slave.at # "writed", t # 0 PROVE cells[m].writed = Older(cells[m].writing, 1)
      <3>1. PICK v : v = t + 1
        OBVIOUS
      <3>2. v \in Nat /\ v - 1 = t /\ 1 < v /\ 1 \in 0..Rows - 1
        BY <2>2, <2>5, <3>1, RowsAre
      <3>3. Older(RowOf(v), 1) = RowOf(v - 1)
        BY <3>2, OlderRow
      <3>4. RowOf(v) = t % Rows /\ ~Counted(m)
        BY <2>5, <3>2 DEF RowOf, Counted
      <3>5. QED
        BY <2>2, <2>5, <3>2, <3>3, <3>4
    <2>6. Len(Shown(m)) <= Rows
      <3>1. PICK k \in Nat : Shown(m) = Bars(m, k) /\ k <= Rows
        BY ShownIs
      <3>2. Len(Bars(m, k)) = k
        BY DEF Bars
      <3>3. QED
        BY <3>1, <3>2
    <2>7. slave.at # "writed" => cells[m].writed =
              IF cells[m].total = 0 THEN 0 ELSE Older(cells[m].writing, 1)
      BY <2>1, <2>2, <2>5
    <2>8. QED
      BY <2>1, <2>3, <2>4, <2>6, <2>7
  <1>3. setup \in [stock : Stocks, append : Appends, onOpen : OnOpens]
    BY DEF HaltInv
  <1>4. QED
    BY <1>1, <1>2, <1>3 DEF BarsTypeOK

LEMMA BarsFollow ==
    ASSUME BarsIInv, HaltInv
    PROVE  BarsTypeOK /\ BarsInOrder /\ OnlyNewestIsEmpty
  <1>1. DOMAIN cells = Cells
    BY DEF BarsIInv, CellInv
  <1>2. BarsInOrder
    <2>1. SUFFICES ASSUME InHours, NEW m \in Cells
                   PROVE  LET bars == Shown(m) IN
                            /\ \A n \in 1..Len(bars) - 1 : bars[n].start < bars[n + 1].start
                            /\ NeverHalted /\ slave.at # "cell" => \A n \in DOMAIN bars :
                                  \/ bars[n] = Summary(cells[m].frame, bars[n].start)
                                  \/ slave.at # "idle" /\ slave.m <= m /\ n = Len(bars)
      BY <1>1 DEF BarsInOrder
    <2>2. QED
      BY <2>1, ShownInOrder
  <1>3. OnlyNewestIsEmpty
    BY <1>1, ShownIsClosed DEF OnlyNewestIsEmpty
  <1>4. QED
    BY <1>2, <1>3, BarsTyped

\* The bars that Container::push() writes, in every frame: when the hours of trading
\* fit the frames, bars of ticks within them start one after the other and hold what
\* those ticks make; and whatever the ticks, the indices of a ring keep to it and a
\* stock that is halted leaves no empty bar behind.  For rings of any length, any
\* frames and stream of ticks, at every step of the writing.
THEOREM BarsAreRight == HoursFit => (BarsSpec => []BarsInv)
  <1> SUFFICES ASSUME HoursFit PROVE BarsSpec => []BarsInv
    OBVIOUS
  <1>1. BarsInit => BarsIInv /\ HaltInv
    BY BarsStart, HaltStart
  <1>2. BarsIInv /\ HaltInv /\ [BarsNext]_barsVars => (BarsIInv /\ HaltInv)'
    BY BarsStep, BarsStutter, HaltNext
  <1>3. BarsIInv /\ HaltInv => BarsInv
    BY BarsFollow DEF BarsInv, BarsFitTheClock
  <1>4. QED
    BY <1>1, <1>2, <1>3, PTL DEF BarsSpec
=============================================================================
