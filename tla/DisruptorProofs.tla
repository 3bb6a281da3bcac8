--------------------------- MODULE DisruptorProofs ---------------------------
(***************************************************************************)
(* The Disruptor keeps the promise of Multicast, for any number of slaves, *)
(* rows and records, with or without the wait_slave thread.  The argument  *)
(* is the invariant IInv of module Disruptor; Arithmetic holds what it *)
(* needs about remainders.                                                 *)
(***************************************************************************)
EXTENDS Disruptor, Arithmetic

\* The types hold at the start.
LEMMA TypeInit == Init => TypeOK
  <1> SUFFICES ASSUME Init PROVE TypeOK
    OBVIOUS
  <1> USE BusAssumption DEF Init
  <1>1. ppc \in PauserSteps
    BY DEF PauserSteps
  <1>2. spc \in [Slaves -> SlaveSteps]
    BY DEF SlaveSteps
  <1>3. got \in [Slaves -> Seq(Nat \cup {None, Refused})]
    OBVIOUS
  <1>4. slots \in [0 .. Rows - 1 -> Nat \cup {None}]
    OBVIOUS
  <1>5. seenRun \in BOOLEAN /\ seen \in [Slaves -> Nat \cup {None}]
    OBVIOUS
  <1>6. mpc \in MasterSteps
    BY DEF MasterSteps
  <1>7. QED
    BY <1>1, <1>2, <1>3, <1>4, <1>5, <1>6 DEF TypeOK, E2Q_RUNING, E2Q_STOP

\* fixed() reads a row of the ring.
LEMMA RowInRing ==
    ASSUME TypeOK, NEW s \in Slaves
    PROVE  Row(s) \in 0 .. Rows - 1
  <1>1. pos[s] \in Nat /\ Rows \in Nat \ {0}
    BY BusAssumption DEF TypeOK
  <1>2. QED
    BY <1>1, DivMod DEF Row

\* Every step of every thread keeps the types.
LEMMA TypeNext == TypeOK /\ [Next]_vars => TypeOK'
  <1> USE BusAssumption DEF TypeOK, E2Q_RUNING, E2Q_STOP, E2Q_EXIST, ring,
      master, slave, pauser
  <1> SUFFICES ASSUME TypeOK, [Next]_vars PROVE TypeOK'
    OBVIOUS
  <1>1. ASSUME Master PROVE TypeOK'
    <2> USE DEF Step, MasterSteps, AfterRecord
    <2>1. CASE WaitNext
      BY <2>1 DEF WaitNext
    <2>2. CASE WaitNextTurn
      BY <2>2 DEF WaitNextTurn
    <2>3. CASE WaitNextEmit
      BY <2>3 DEF WaitNextEmit, Emit, SlaveSteps
    <2>4. CASE Cursor
      <3>1. tail + 1 \in Nat /\ Rows \in Nat \ {0}
        OBVIOUS
      <3>2. (tail + 1) % Rows \in 0 .. Rows - 1
        BY <3>1, DivMod
      <3>3. QED
        BY <2>4, <3>2 DEF Cursor
    <2>5. CASE Lock
      BY <2>5 DEF Lock
    <2>6. CASE Write
      BY <2>6 DEF Write
    <2>7. CASE Fill
      BY <2>7 DEF Fill
    <2>8. CASE Advance
      <3>1. writing + 1 \in Nat /\ Rows \in Nat \ {0}
        OBVIOUS
      <3>2. (writing + 1) % Rows \in 0 .. Rows - 1
        BY <3>1, DivMod
      <3>3. QED
        BY <2>8, <3>2 DEF Advance
    <2>9. CASE Writed
      BY <2>9 DEF Writed
    <2>10. CASE Turn
      BY <2>10 DEF Turn
    <2>11. CASE UnlockEmit
      BY <2>11 DEF UnlockEmit, Emit, SlaveSteps
    <2>12. CASE Publish
      BY <2>12 DEF Publish
    <2>13. CASE Sleep
      BY <2>13 DEF Sleep
    <2>14. CASE QuitTurn
      BY <2>14 DEF QuitTurn
    <2>15. CASE QuitEmit
      BY <2>15 DEF QuitEmit, Emit, SlaveSteps
    <2>16. CASE QuitDistance
      BY <2>16 DEF QuitDistance
    <2>17. CASE QuitAlert
      BY <2>17 DEF QuitAlert
    <2>18. QED
      BY <1>1, <2>1, <2>2, <2>3, <2>4, <2>5, <2>6, <2>7, <2>8, <2>9, <2>10,
         <2>11, <2>12, <2>13, <2>14, <2>15, <2>16, <2>17 DEF Master
  <1>2. ASSUME NEW s \in Slaves, SlaveRun(s) \/ SpuriousWake(s)
        PROVE  TypeOK'
    <2> USE DEF SlaveStep, SlaveSteps
    <2>1. CASE Aquire(s)
      BY <2>1 DEF Aquire, Enter
    <2>2. CASE Subscriber(s)
      BY <2>2 DEF Subscriber
    <2>3. CASE Wait(s)
      BY <2>3 DEF Wait
    <2>4. CASE SpuriousWake(s)
      BY <2>4 DEF SpuriousWake
    <2>5. CASE Reload(s)
      BY <2>5 DEF Reload, Enter
    <2>6. CASE FixedTail(s) \/ FixedEqual(s) \/ FixedPasses(s)
      <3> writing \in Nat /\ writed \in Nat /\ tail \in Nat
        OBVIOUS
      <3>1. CASE FixedTail(s)
        <4>1. seen' \in [Slaves -> Nat \cup {None}]
          BY <3>1 DEF FixedTail
        <4>2. QED
          BY <3>1, <4>1 DEF FixedTail
      <3>2. CASE FixedEqual(s)
        <4>1. seen' \in [Slaves -> Nat \cup {None}]
          BY <3>2 DEF FixedEqual
        <4>2. spc' \in [Slaves -> SlaveSteps]
          BY <3>2 DEF FixedEqual
        <4>3. QED
          BY <3>2, <4>1, <4>2 DEF FixedEqual
      <3>3. CASE FixedPasses(s)
        BY <3>3 DEF FixedPasses
      <3>4. QED
        BY <2>6, <3>1, <3>2, <3>3
    <2>7. ASSUME NEW v \in Nat \cup {None, Refused}, NEW step,
                 Obtain(s, v, step)
          PROVE  TypeOK'
      <3>1. Append(got[s], v) \in Seq(Nat \cup {None, Refused})
        OBVIOUS
      <3>2. got' \in [Slaves -> Seq(Nat \cup {None, Refused})]
        BY <2>7, <3>1 DEF Obtain
      <3>3. spc' \in [Slaves -> SlaveSteps] /\ pos' \in [Slaves -> Nat]
        BY <2>7 DEF Obtain
      <3>4. seen' \in [Slaves -> Nat \cup {None}]
        BY <2>7 DEF Obtain
      <3>5. QED
        BY <2>7, <3>2, <3>3, <3>4 DEF Obtain
    <2>8. CASE FixedRefused(s)
      BY <2>7, <2>8 DEF FixedRefused
    <2>9. CASE FixedCopy(s) \/ FixedRead(s)
      <3>1. slots[Row(s)] \in Nat \cup {None}
        BY RowInRing
      <3>2. CASE FixedCopy(s)
        BY <3>1, <3>2 DEF FixedCopy
      <3>3. CASE FixedRead(s)
        BY <2>7, <3>3 DEF FixedRead
      <3>4. QED
        BY <2>9, <3>2, <3>3
    <2>10. CASE Store(s)
      BY <2>10 DEF Store
    <2>11. CASE BarrierQuit(s)
      BY <2>11 DEF BarrierQuit
    <2>12. QED
      BY <1>2, <2>1, <2>2, <2>3, <2>4, <2>5, <2>6, <2>8, <2>9, <2>10, <2>11
         DEF SlaveRun
  <1>3. ASSUME PauserRun PROVE TypeOK'
    <2> USE DEF PauserStep, PauserSteps
    <2>1. CASE PauseStatus
      <3>1. seenRun' \in BOOLEAN /\ ppc' \in PauserSteps
        BY <2>1 DEF PauseStatus
      <3>2. QED
        BY <2>1, <3>1 DEF PauseStatus
    <2>2. CASE PauseMe
      BY <2>2 DEF PauseMe
    <2>3. CASE PauseGetMin
      <3>1. waited' \in Nat /\ ppc' \in PauserSteps
        BY <2>3 DEF PauseGetMin
      <3>2. QED
        BY <2>3, <3>1 DEF PauseGetMin
    <2>4. CASE PauseTurn
      BY <2>4 DEF PauseTurn
    <2>5. CASE PauseEmit
      BY <2>5 DEF PauseEmit, Emit, SlaveSteps
    <2>6. QED
      BY <1>3, <2>1, <2>2, <2>3, <2>4, <2>5 DEF PauserRun
  <1>4. CASE UNCHANGED vars
    BY <1>4 DEF vars
  <1>5. QED
    BY <1>1, <1>2, <1>3, <1>4 DEF Next, Terminating

\* Every variable keeps its type.
THEOREM TypeCorrect == Spec => []TypeOK
  <1>1. QED
    BY TypeInit, TypeNext, PTL DEF Spec

-----------------------------------------------------------------------------
(* The ring: each step of the master keeps RingInv and NothingRefused.     *)

\* An empty ring: no record is written, closed or kept.
LEMMA RingInit == Init => RingInv
  <1> SUFFICES ASSUME Init PROVE RingInv
    OBVIOUS
  <1>1. 0 % Rows = 0
    BY BusAssumption, ModSmall
  <1>2. QED
    BY <1>1, BusAssumption DEF Init, RingInv, Written, Closed, Oldest, HasMoved,
       HasClosed, HasRoom

\* cursor() gives up the oldest record, and only when Rows - 1 are kept.
LEMMA CursorKeepsRing ==
    TypeOK /\ NothingRefused /\ RingInv /\ Cursor => RingInv'
  <1> SUFFICES ASSUME TypeOK, RingInv, Cursor
               PROVE  RingInv'
    OBVIOUS
  <1> USE BusAssumption DEF TypeOK
  <1> DEFINE old == IF seq >= Rows THEN seq - Rows + 1 ELSE 0
  <1>1. /\ mpc = "cursor" /\ mpc' = "lock"
        /\ old \in Nat /\ seq \in Nat /\ Rows \in Nat \ {0}
        /\ UNCHANGED <<seq, slots, writing, writed>>
    BY DEF Cursor, Step
  <1>2. /\ writing = seq % Rows
        /\ writed = IF seq = 0 THEN 0 ELSE (seq - 1) % Rows
        /\ tail = old % Rows
    BY <1>1 DEF RingInv, Written, Closed, Oldest, HasMoved, HasClosed, HasRoom
  <1>3. Oldest' = IF seq + 1 >= Rows THEN old + 1 ELSE 0
    BY <1>1 DEF Oldest, HasRoom, HasMoved
  <1>4. tail' = Oldest' % Rows
    <2>1. CASE seq >= Rows - 1
      <3>1. seq - 1 \in Nat /\ old < seq - 1 /\ (seq - 1) - old < Rows
        BY <2>1
      <3>2. old % Rows # (seq - 1) % Rows
        BY <1>1, <3>1, DistinctRows
      <3>3. tail' = (tail + 1) % Rows
        BY <1>2, <2>1, <3>2 DEF Cursor
      <3>4. ((old % Rows) + 1) % Rows = (old + 1) % Rows
        BY <1>1, ModSuccessor
      <3>5. Oldest' = old + 1
        BY <1>1, <1>3, <2>1
      <3>6. QED
        BY <1>2, <3>3, <3>4, <3>5
    <2>2. CASE seq < Rows - 1
      BY <1>2, <1>3, <2>2 DEF Cursor
    <2>3. QED
      BY <2>1, <2>2
  <1>5. \A k \in 0 .. seq - 1 : k >= Oldest' => slots[k % Rows] = k
    <2>1. Oldest = old
      BY <1>1 DEF Oldest, HasRoom, HasMoved
    <2>2. Oldest' >= old
      BY <1>1, <1>3
    <2>3. QED
      BY <1>1, <1>3, <2>1, <2>2 DEF RingInv
  <1>6. QED
    BY <1>1, <1>2, <1>4, <1>5 DEF RingInv, Written, Closed, HasMoved, HasClosed

\* check() finds room: the row after the last written one is not the tail.
LEMMA NeverFull ==
    TypeOK /\ RingInv /\ mpc = "lock" => ~IsFull
  <1> SUFFICES ASSUME TypeOK, RingInv, mpc = "lock"
               PROVE  (writed + 1) % Rows # tail
    BY DEF IsFull
  <1> USE BusAssumption DEF TypeOK
  <1>1. /\ Oldest \in Nat /\ seq \in Nat /\ Rows \in Nat \ {0}
        /\ Oldest = IF seq + 1 >= Rows THEN seq - Rows + 2 ELSE 0
    BY DEF Oldest, HasRoom, HasMoved
  <1>2. /\ writed = IF seq = 0 THEN 0 ELSE (seq - 1) % Rows
        /\ tail = Oldest % Rows
    BY DEF RingInv, Closed, HasClosed
  <1>3. CASE seq = 0
    <2>1. 0 \in 0 .. Rows - 1 /\ 1 \in 0 .. Rows - 1
      OBVIOUS
    <2>2. 0 % Rows = 0 /\ 1 % Rows = 1
      BY <1>1, <2>1, ModSmall
    <2>3. QED
      BY <1>1, <1>2, <1>3, <2>2
  <1>4. CASE seq > 0
    <2>1. seq - 1 \in Nat /\ (seq - 1) + 1 = seq
      BY <1>4
    <2>2. (((seq - 1) % Rows) + 1) % Rows = seq % Rows
      BY <1>1, <2>1, ModSuccessor
    <2>3. Oldest < seq /\ seq - Oldest < Rows
      BY <1>1, <1>4
    <2>4. Oldest % Rows # seq % Rows
      BY <1>1, <2>3, DistinctRows
    <2>5. QED
      BY <1>2, <1>4, <2>2, <2>4
  <1>5. QED
    BY <1>1, <1>3, <1>4

\* Filling or tearing the row of the next record spares every record kept.
LEMMA RowsKept ==
    ASSUME TypeOK, mpc \in {"write", "fill"},
           NEW k \in 0 .. seq - 1, k >= Oldest
    PROVE  k % Rows # seq % Rows
  <1> USE BusAssumption DEF TypeOK
  <1>1. k \in Nat /\ seq \in Nat /\ Rows \in Nat \ {0}
    OBVIOUS
  <1>2. k < seq /\ seq - k < Rows
    BY DEF Oldest, HasRoom, HasMoved
  <1>3. QED
    BY <1>1, <1>2, DistinctRows

\* Every step of wait_next(), deposit() and quit() keeps the ring in order.
LEMMA MasterKeepsRing ==
    TypeOK /\ NothingRefused /\ RingInv /\ Master
        => NothingRefused' /\ RingInv'
  <1> SUFFICES ASSUME TypeOK, NothingRefused, RingInv, Master
               PROVE  NothingRefused' /\ RingInv'
    OBVIOUS
  <1> USE BusAssumption DEF TypeOK, NothingRefused, Step
  <1>1. seq \in Nat /\ Rows \in Nat \ {0}
    OBVIOUS
  \* the steps that change neither the ring, nor the sequence, nor the stage
  \* of the insertion
  <1>2. ASSUME UNCHANGED <<seq, next, slots, writing, writed, tail>>,
               HasMoved' = HasMoved, HasClosed' = HasClosed,
               HasRoom' = HasRoom, mpc' # "advance"
        PROVE  NothingRefused' /\ RingInv'
    BY <1>2 DEF RingInv, Written, Closed, Oldest
  <1>3. CASE WaitNext \/ WaitNextTurn \/ WaitNextEmit
    BY <1>2, <1>3 DEF WaitNext, WaitNextTurn, WaitNextEmit, ring, HasMoved,
       HasClosed, HasRoom
  <1>4. CASE Cursor
    BY <1>4, CursorKeepsRing DEF Cursor
  <1>5. CASE Lock
    BY <1>2, <1>5, NeverFull DEF Lock, ring, HasMoved, HasClosed, HasRoom
  <1>6. CASE Write
    <2>1. /\ mpc = "write" /\ mpc' = "fill"
          /\ UNCHANGED <<seq, next, writing, writed, tail>>
          /\ slots' = [slots EXCEPT ![writing] = None]
      BY <1>6 DEF Write
    <2>2. /\ Written' = seq /\ Closed' = Closed /\ Oldest' = Oldest
          /\ writing = seq % Rows
      BY <2>1 DEF RingInv, Written, Closed, Oldest, HasMoved, HasClosed, HasRoom
    <2>3. ASSUME NEW k \in 0 .. seq - 1, k >= Oldest
          PROVE  slots'[k % Rows] = k
      <3> k \in Nat
        OBVIOUS
      <3>1. k % Rows \in 0 .. Rows - 1
        BY <1>1, DivMod
      <3>2. k % Rows # writing
        BY <2>1, <2>2, <2>3, RowsKept
      <3>3. slots[k % Rows] = k
        BY <2>3 DEF RingInv
      <3>4. QED
        BY <2>1, <3>1, <3>2, <3>3
    <2>4. \A i \in 0 .. Rows - 1 : slots'[i] \in (0 .. seq) \cup {None}
      BY <2>1 DEF RingInv
    <2>5. QED
      BY <2>1, <2>2, <2>3, <2>4 DEF RingInv, HasMoved
  <1>7. CASE Fill
    <2>1. /\ mpc = "fill" /\ mpc' = "advance"
          /\ UNCHANGED <<seq, next, writing, writed, tail>>
          /\ slots' = [slots EXCEPT ![writing] = seq]
      BY <1>7 DEF Fill
    <2>2. /\ Written' = seq /\ Closed' = Closed /\ Oldest' = Oldest
          /\ writing = seq % Rows
      BY <2>1 DEF RingInv, Written, Closed, Oldest, HasMoved, HasClosed, HasRoom
    <2>3. ASSUME NEW k \in 0 .. seq - 1, k >= Oldest
          PROVE  slots'[k % Rows] = k
      <3> k \in Nat
        OBVIOUS
      <3>1. k % Rows \in 0 .. Rows - 1
        BY <1>1, DivMod
      <3>2. k % Rows # writing
        BY <2>1, <2>2, <2>3, RowsKept
      <3>3. slots[k % Rows] = k
        BY <2>3 DEF RingInv
      <3>4. QED
        BY <2>1, <3>1, <3>2, <3>3
    <2>4. \A i \in 0 .. Rows - 1 : slots'[i] \in (0 .. seq) \cup {None}
      BY <2>1 DEF RingInv
    <2>5. slots'[seq % Rows] = seq
      BY <1>1, <2>1, <2>2
    <2>6. QED
      BY <2>1, <2>2, <2>3, <2>4, <2>5 DEF RingInv
  <1>8. CASE Advance
    <2>1. /\ mpc = "advance" /\ mpc' = "writed"
          /\ UNCHANGED <<seq, next, slots, writed, tail>>
          /\ writing' = (writing + 1) % Rows
      BY <1>8 DEF Advance
    <2>2. /\ Written' = seq + 1 /\ Closed' = Closed /\ Oldest' = Oldest
          /\ writing = seq % Rows
      BY <2>1 DEF RingInv, Written, Closed, Oldest, HasMoved, HasClosed, HasRoom
    <2>3. writing' = Written' % Rows
      BY <1>1, <2>1, <2>2, ModSuccessor
    <2>4. QED
      BY <2>1, <2>2, <2>3 DEF RingInv
  <1>9. CASE Writed
    <2>1. /\ mpc = "writed" /\ mpc' = "turn"
          /\ UNCHANGED <<seq, next, slots, writing, tail>>
          /\ writed' = IF writing = 0 THEN Rows - 1 ELSE writing - 1
      BY <1>9 DEF Writed
    <2>2. /\ Written' = seq + 1 /\ Closed' = seq + 1 /\ Oldest' = Oldest
          /\ writing = (seq + 1) % Rows
      BY <2>1 DEF RingInv, Written, Closed, Oldest, HasMoved, HasClosed, HasRoom
    <2>3. writed' = seq % Rows
      BY <1>1, <2>1, <2>2, ModPredecessor
    <2>4. writed' = IF Closed' = 0 THEN 0 ELSE (Closed' - 1) % Rows
      BY <2>2, <2>3
    <2>5. QED
      BY <2>1, <2>2, <2>4 DEF RingInv, HasMoved
  <1>10. CASE Turn \/ UnlockEmit
    BY <1>2, <1>10 DEF Turn, UnlockEmit, ring, HasMoved, HasClosed, HasRoom
  <1>11. CASE Publish
    <2>1. /\ mpc = "publish" /\ mpc' \in {"wait_next", "sleep"}
          /\ seq' = seq + 1 /\ next' = next + 1
          /\ UNCHANGED ring
      BY <1>11 DEF Publish, AfterRecord
    <2>2. Written' = Written /\ Closed' = Closed /\ Oldest' = Oldest
      BY <2>1 DEF Written, Closed, Oldest, HasMoved, HasClosed, HasRoom
    <2>3. slots[seq % Rows] = seq
      BY <2>1 DEF RingInv, HasMoved
    <2>4. \A k \in 0 .. seq' - 1 : k >= Oldest' => slots'[k % Rows] = k
      BY <2>1, <2>2, <2>3 DEF RingInv, ring
    <2>5. \A i \in 0 .. Rows - 1 : slots'[i] \in (0 .. seq') \cup {None}
      BY <2>1 DEF RingInv, ring
    <2>6. QED
      BY <2>1, <2>2, <2>4, <2>5 DEF RingInv, ring, HasMoved
  <1>12. CASE Sleep \/ QuitTurn \/ QuitEmit \/ QuitDistance \/ QuitAlert
    BY <1>2, <1>12 DEF Sleep, QuitTurn, QuitEmit, QuitDistance, QuitAlert, ring,
       HasMoved, HasClosed, HasRoom
  <1>13. QED
    BY <1>3, <1>4, <1>5, <1>6, <1>7, <1>8, <1>9, <1>10, <1>11, <1>12 DEF Master

\* No other thread touches the ring.
LEMMA RingNext ==
    TypeOK /\ NothingRefused /\ RingInv /\ [Next]_vars
        => NothingRefused' /\ RingInv'
  <1> SUFFICES ASSUME TypeOK, NothingRefused, RingInv, [Next]_vars
               PROVE  NothingRefused' /\ RingInv'
    OBVIOUS
  <1>1. ASSUME UNCHANGED <<seq, ring, master>>
        PROVE  NothingRefused' /\ RingInv'
    BY <1>1 DEF NothingRefused, RingInv, Written, Closed, Oldest, HasMoved,
       HasClosed, HasRoom, ring, master
  <1>2. CASE Master
    BY <1>2, MasterKeepsRing
  <1>3. ASSUME NEW s \in Slaves, SlaveRun(s) \/ SpuriousWake(s)
        PROVE  UNCHANGED <<seq, ring, master>>
    BY <1>3 DEF SlaveRun, Aquire, Subscriber, Wait, SpuriousWake, Reload,
       FixedTail, FixedEqual, FixedPasses, FixedRefused, FixedCopy, FixedRead,
         Obtain, Store, BarrierQuit
  <1>4. CASE PauserRun
    BY <1>1, <1>4 DEF PauserRun, PauseStatus, PauseMe, PauseGetMin, PauseTurn,
       PauseEmit
  <1>5. CASE UNCHANGED vars
    BY <1>1, <1>5 DEF vars
  <1>6. QED
    BY <1>1, <1>2, <1>3, <1>4, <1>5 DEF Next, Terminating

-----------------------------------------------------------------------------
(* The slaves' cursors and the end of the stream.                          *)

\* No slave has taken anything at the start.
LEMMA CursorInit == Init => CursorInv
  <1> SUFFICES ASSUME Init PROVE CursorInv
    OBVIOUS
  <1>1. Len(<<>>) = 0
    OBVIOUS
  <1>2. ASSUME NEW s \in Slaves
        PROVE  /\ Len(got[s]) = 0 /\ cursor[s] = 0 /\ follow[s] = 0
               /\ spc[s] = "aquire" /\ seq = 0
    <2>1. got[s] = <<>> /\ cursor[s] = 0 /\ follow[s] = 0
      BY DEF Init
    <2>2. Len(got[s]) = 0
      BY <1>1, <2>1
    <2>3. QED
      BY <2>1, <2>2 DEF Init
  <1>3. ASSUME NEW s \in Slaves
        PROVE  /\ cursor[s] <= Len(got[s]) /\ Len(got[s]) <= seq
               /\ follow[s] <= seq
    BY <1>2
  <1>4. ASSUME NEW s \in Slaves
        PROVE  spc[s] \notin InCallback \cup {"store"}
    BY <1>2 DEF InCallback
  <1>5. ASSUME NEW s \in Slaves
        PROVE  cursor[s] = Len(got[s])
    BY <1>2
  <1>6. QED
    BY <1>3, <1>4, <1>5 DEF CursorInv

\* What a slave does leaves the others alone; what the others do leaves it
\* alone, except for the wake-ups of Emit.
LEMMA CursorNext == TypeOK /\ CursorInv /\ [Next]_vars => CursorInv'
  <1> SUFFICES ASSUME TypeOK, CursorInv, [Next]_vars
               PROVE  CursorInv'
    OBVIOUS
  <1> USE DEF TypeOK
  <1>1. ASSUME seq' = seq, UNCHANGED slave
        PROVE  CursorInv'
    BY <1>1 DEF CursorInv, slave
  <1>2. ASSUME seq' = seq, Emit, UNCHANGED <<follow, pos, got, cursor>>
        PROVE  CursorInv'
    <2>1. SUFFICES ASSUME NEW s \in Slaves
                   PROVE  /\ spc'[s] \in InCallback => spc'[s] = spc[s]
                          /\ spc'[s] = "store" => spc'[s] = spc[s]
                          /\ spc'[s] # spc[s] => spc[s] = "asleep"
      BY <1>2, <2>1 DEF CursorInv, InCallback
    <2>2. QED
      BY <1>2 DEF Emit, InCallback
  <1>3. CASE Master
    <2>1. CASE Publish
      BY <2>1 DEF Publish, CursorInv, slave
    <2>2. CASE WaitNextEmit \/ UnlockEmit \/ QuitEmit
      BY <1>2, <2>2 DEF WaitNextEmit, UnlockEmit, QuitEmit
    <2>3. CASE WaitNext \/ WaitNextTurn \/ Cursor \/ Lock \/ Write \/ Fill
      BY <1>1, <2>3 DEF WaitNext, WaitNextTurn, Cursor, Lock, Write, Fill
    <2>4. CASE \/ Advance \/ Writed \/ Turn \/ Sleep \/ QuitTurn
               \/ QuitDistance \/ QuitAlert
      BY <1>1, <2>4 DEF Advance, Writed, Turn, Sleep, QuitTurn, QuitDistance,
         QuitAlert
    <2>5. QED
      BY <1>3, <2>1, <2>2, <2>3, <2>4 DEF Master
  <1>4. ASSUME NEW s \in Slaves, SlaveRun(s) \/ SpuriousWake(s)
        PROVE  CursorInv'
    <2> USE DEF SlaveStep
    <2>1. seq' = seq
      BY <1>4 DEF SlaveRun, Aquire, Subscriber, Wait, SpuriousWake, Reload,
         FixedTail, FixedEqual, FixedPasses, FixedRefused, FixedCopy, FixedRead,
         Obtain, Store, BarrierQuit
    <2>2. CASE Aquire(s) \/ Reload(s)
      <3>1. cursor[s] = Len(got[s]) /\ cursor[s] <= seq
        BY <2>2 DEF Aquire, Reload, CursorInv, InCallback
      <3>2. \/ spc' = [spc EXCEPT ![s] = "fixed"] /\ cursor[s] < seq
            \/ spc' = [spc EXCEPT ![s] = "sub"] /\ cursor[s] = seq
            \/ spc' = [spc EXCEPT ![s] = "store"] /\ cursor[s] = seq
        BY <2>2, <3>1 DEF Aquire, Reload
      <3>3. /\ follow' = [follow EXCEPT ![s] = seq]
            /\ pos' = [pos EXCEPT ![s] = cursor[s]]
            /\ UNCHANGED <<got, cursor>>
        BY <2>2 DEF Aquire, Reload, Enter
      <3>4. QED
        BY <2>1, <3>1, <3>2, <3>3 DEF CursorInv, InCallback
    <2>3. CASE Subscriber(s) \/ Wait(s) \/ SpuriousWake(s) \/ BarrierQuit(s)
      <3>1. /\ spc[s] \notin InCallback \cup {"store"}
            /\ \E to \in SlaveSteps \ (InCallback \cup {"store"}) :
                  spc' = [spc EXCEPT ![s] = to]
            /\ UNCHANGED <<follow, pos, got, cursor>>
        BY <2>3 DEF Subscriber, Wait, SpuriousWake, BarrierQuit, SlaveSteps,
           InCallback,
           E2Q_RUNING, E2Q_STOP, E2Q_EXIST
      <3>2. QED
        BY <2>1, <3>1 DEF CursorInv
    <2>4. CASE FixedTail(s) \/ FixedEqual(s) \/ FixedPasses(s) \/ FixedCopy(s)
      <3>1. /\ spc[s] \in InCallback
            /\ \E to \in InCallback : spc' = [spc EXCEPT ![s] = to]
            /\ UNCHANGED <<follow, pos, got, cursor>>
        BY <2>4 DEF FixedTail, FixedEqual, FixedPasses, FixedCopy, InCallback
      <3>2. "store" \notin InCallback
        BY DEF InCallback
      <3>3. QED
        BY <2>1, <3>1, <3>2 DEF CursorInv
    <2>5. ASSUME NEW v \in Nat \cup {None, Refused}, NEW step \in InCallback,
                 Obtain(s, v, step)
          PROVE  CursorInv'
      <3>1. /\ pos[s] = Len(got[s]) /\ pos[s] < follow[s]
            /\ follow[s] <= seq /\ cursor[s] <= Len(got[s])
        BY <2>5 DEF Obtain, CursorInv
      <3>2. Len(Append(got[s], v)) = Len(got[s]) + 1 /\ Len(got[s]) \in Nat
        OBVIOUS
      <3>3. /\ got' = [got EXCEPT ![s] = Append(got[s], v)]
            /\ pos' = [pos EXCEPT ![s] = pos[s] + 1]
            /\ UNCHANGED <<follow, cursor>>
        BY <2>5 DEF Obtain
      <3>4. \/ spc' = [spc EXCEPT ![s] = "fixed"] /\ pos[s] + 1 < follow[s]
            \/ spc' = [spc EXCEPT ![s] = "store"] /\ pos[s] + 1 = follow[s]
        <4>1. pos[s] \in Nat /\ follow[s] \in Nat
          OBVIOUS
        <4>2. spc' = [spc EXCEPT ![s] = IF pos[s] + 1 < follow[s]
                                         THEN "fixed" ELSE "store"]
          BY <2>5 DEF Obtain
        <4>3. CASE pos[s] + 1 < follow[s]
          BY <4>2, <4>3
        <4>4. CASE ~(pos[s] + 1 < follow[s])
          BY <3>1, <4>1, <4>2, <4>4
        <4>5. QED
          BY <4>3, <4>4
      <3>5. QED
        BY <2>1, <3>1, <3>2, <3>3, <3>4 DEF CursorInv, InCallback
    <2>6. CASE FixedRefused(s)
      BY <2>5, <2>6 DEF FixedRefused, InCallback
    <2>7. CASE FixedRead(s)
      <3> DEFINE v == IF slots[Row(s)] = seen[s] THEN seen[s] ELSE None
      <3>1. v \in Nat \cup {None, Refused} /\ "last" \in InCallback
        BY DEF InCallback
      <3>2. Obtain(s, v, "last")
        BY <2>7 DEF FixedRead
      <3>3. QED
        BY <2>5, <3>1, <3>2
    <2>8. CASE Store(s)
      BY <2>1, <2>8 DEF Store, CursorInv, InCallback
    <2>9. QED
      BY <1>4, <2>2, <2>3, <2>4, <2>6, <2>7, <2>8 DEF SlaveRun
  <1>5. CASE PauserRun
    BY <1>1, <1>2, <1>5 DEF PauserRun, PauseStatus, PauseMe, PauseGetMin,
       PauseTurn, PauseEmit
  <1>6. CASE UNCHANGED vars
    BY <1>1, <1>6 DEF vars
  <1>7. QED
    BY <1>3, <1>4, <1>5, <1>6 DEF Next, Terminating

\* No slave is copying a row at the start.
LEMMA CopyInit == Init => CopyInv
  BY DEF Init, CopyInv

\* The window of records kept only moves forward.
LEMMA OldestGrows ==
    TypeOK /\ RingInv /\ Master => Oldest' >= Oldest /\ seq' >= seq
  <1> SUFFICES ASSUME TypeOK, RingInv, Master
               PROVE  Oldest' >= Oldest /\ seq' >= seq
    OBVIOUS
  <1> USE BusAssumption DEF TypeOK, Step, Oldest, HasRoom, HasMoved
  <1>1. CASE Lock
    BY <1>1, NeverFull DEF Lock
  <1>2. CASE Publish
    BY <1>2 DEF Publish, AfterRecord
  <1>3. CASE Cursor \/ Write \/ Fill \/ Advance \/ Writed
    BY <1>3 DEF Cursor, Write, Fill, Advance, Writed
  <1>4. CASE WaitNext \/ WaitNextTurn \/ WaitNextEmit \/ Turn \/ UnlockEmit
    BY <1>4 DEF WaitNext, WaitNextTurn, WaitNextEmit, Turn, UnlockEmit
  <1>5. CASE Sleep \/ QuitTurn \/ QuitEmit \/ QuitDistance \/ QuitAlert
    BY <1>5 DEF Sleep, QuitTurn, QuitEmit, QuitDistance, QuitAlert
  <1>6. QED
    BY <1>1, <1>2, <1>3, <1>4, <1>5 DEF Master

\* What a slave has copied of a kept record stays the record as long as it is
\* kept.
LEMMA CopyNext ==
    TypeOK /\ RingInv /\ CursorInv /\ CopyInv /\ [Next]_vars => CopyInv'
  <1> SUFFICES ASSUME TypeOK, RingInv, CursorInv, CopyInv, [Next]_vars
               PROVE  CopyInv'
    OBVIOUS
  <1> USE DEF TypeOK
  <1>1. ASSUME Oldest' >= Oldest, seq' >= seq, UNCHANGED <<pos, seen>>,
               \A s \in Slaves : spc'[s] = "last" => spc[s] = "last"
        PROVE  CopyInv'
    <2>1. seq' \in Nat /\ Rows \in Nat /\ seq \in Nat
      BY TypeNext, BusAssumption
    <2>2. Oldest \in Nat
      BY <2>1 DEF Oldest
    <2>3. Oldest' \in Nat
      <3>1. \E n \in {seq', seq' + 1} :
               Oldest' = IF n >= Rows THEN n - Rows + 1 ELSE 0
        BY DEF Oldest, HasRoom, HasMoved
      <3>2. QED
        BY <2>1, <3>1
    <2>4. ASSUME NEW s \in Slaves, spc'[s] = "last"
          PROVE  /\ pos'[s] >= Oldest' => seen'[s] = pos'[s]
                 /\ seen'[s] \in (0 .. seq') \cup {None}
      <3>1. /\ spc[s] = "last" /\ pos'[s] = pos[s] /\ seen'[s] = seen[s]
            /\ pos[s] \in Nat
        BY <1>1, <2>4
      <3>2. pos[s] >= Oldest => seen[s] = pos[s]
        BY <3>1 DEF CopyInv
      <3>3. seen[s] \in (0 .. seq) \cup {None}
        BY <3>1 DEF CopyInv
      <3>4. QED
        BY <1>1, <2>1, <2>2, <2>3, <3>1, <3>2, <3>3
    <2>5. QED
      BY <2>4 DEF CopyInv
  <1>2. CASE Master
    <2>1. \/ UNCHANGED spc
          \/ Emit
      BY <1>2 DEF Master, WaitNext, WaitNextTurn, WaitNextEmit, Cursor, Lock,
         Write, Fill, Advance, Writed, Turn, UnlockEmit, Publish, Sleep,
         QuitTurn, QuitEmit, QuitDistance, QuitAlert, slave
    <2>2. \A s \in Slaves : spc'[s] = "last" => spc[s] = "last"
      BY <2>1 DEF Emit
    <2>3. UNCHANGED <<pos, seen>>
      BY <1>2 DEF Master, WaitNext, WaitNextTurn, WaitNextEmit, Cursor, Lock,
         Write, Fill, Advance, Writed, Turn, UnlockEmit, Publish, Sleep,
         QuitTurn, QuitEmit, QuitDistance, QuitAlert, slave
    <2>4. QED
      BY <1>1, <1>2, <2>2, <2>3, OldestGrows
  <1>3. ASSUME UNCHANGED <<mpc, seq>> PROVE Oldest' >= Oldest /\ seq' >= seq
    BY <1>3, BusAssumption DEF Oldest, HasRoom, HasMoved
  <1>4. ASSUME NEW s \in Slaves, SlaveRun(s) \/ SpuriousWake(s)
        PROVE  CopyInv'
    <2> USE DEF SlaveStep
    <2>1. UNCHANGED <<mpc, seq>> /\ Oldest' = Oldest
      BY <1>4 DEF SlaveRun, Aquire, Subscriber, Wait, SpuriousWake, Reload,
         FixedTail, FixedEqual, FixedPasses, FixedRefused, FixedCopy, FixedRead,
         Obtain, Store, BarrierQuit, master, Oldest, HasRoom, HasMoved
    <2>2. CASE FixedCopy(s)
      <3>1. /\ pos[s] \in 0 .. seq - 1
            /\ spc' = [spc EXCEPT ![s] = "last"]
            /\ seen' = [seen EXCEPT ![s] = slots[Row(s)]]
            /\ UNCHANGED pos
        BY <2>2 DEF FixedCopy, CursorInv, InCallback
      <3>2. slots[Row(s)] \in (0 .. seq) \cup {None}
        BY RowInRing DEF RingInv
      <3>3. pos[s] >= Oldest => slots[Row(s)] = pos[s]
        BY <3>1 DEF RingInv, Row
      <3>4. QED
        BY <2>1, <3>1, <3>2, <3>3 DEF CopyInv
    <2>3. CASE ~FixedCopy(s)
      <3>1. spc'[s] # "last"
        BY <1>4, <2>3 DEF SlaveRun, Aquire, Subscriber, Wait, SpuriousWake,
           Reload, FixedTail, FixedEqual, FixedPasses, FixedRefused, FixedRead,
           Obtain, Store, BarrierQuit, E2Q_RUNING, E2Q_STOP, E2Q_EXIST
      <3>2. \A r \in Slaves \ {s} : UNCHANGED <<spc[r], pos[r], seen[r]>>
        BY <1>4, <2>3 DEF SlaveRun, Aquire, Enter, Subscriber, Wait,
           SpuriousWake, Reload, FixedTail, FixedEqual, FixedPasses,
           FixedRefused, FixedRead, Obtain, Store, BarrierQuit
      <3>3. QED
        BY <2>1, <3>1, <3>2 DEF CopyInv
    <2>4. QED
      BY <2>2, <2>3
  <1>5. CASE PauserRun
    <2>1. /\ UNCHANGED <<mpc, seq, pos, seen>>
          /\ UNCHANGED spc \/ Emit
      BY <1>5 DEF PauserRun, PauseStatus, PauseMe, PauseGetMin, PauseTurn,
         PauseEmit, slave, master
    <2>2. \A s \in Slaves : spc'[s] = "last" => spc[s] = "last"
      BY <2>1 DEF Emit
    <2>3. QED
      BY <1>1, <1>3, <2>1, <2>2
  <1>6. CASE UNCHANGED vars
    BY <1>1, <1>3, <1>6 DEF vars, slave, master
  <1>7. QED
    BY <1>2, <1>4, <1>5, <1>6 DEF Next, Terminating

\* The master's alert is E2Q_RUNING at the start.
LEMMA CloseInit == Init => CloseInv
  BY DEF Init, CloseInv, E2Q_RUNING, E2Q_EXIST

\* Once the distance is zero it stays zero: the sequence no longer grows and
\* a slave stores no more than it has taken.
LEMMA CloseNext == TypeOK /\ CursorInv /\ CloseInv /\ [Next]_vars => CloseInv'
  <1> SUFFICES ASSUME TypeOK, CursorInv, CloseInv, [Next]_vars
               PROVE  CloseInv'
    OBVIOUS
  <1> USE DEF TypeOK, E2Q_RUNING, E2Q_STOP, E2Q_EXIST
  <1>1. ASSUME UNCHANGED <<seq, alert, mpc, cursor>>
        PROVE  CloseInv'
    BY <1>1 DEF CloseInv
  <1>2. ASSUME UNCHANGED alert, alert # E2Q_EXIST,
               mpc' \notin {"alert", "done"}
        PROVE  CloseInv'
    BY <1>2 DEF CloseInv
  <1>3. CASE Master
    <2> USE DEF Step, CloseInv
    <2>1. CASE QuitDistance
      <3>1. /\ alert # E2Q_EXIST /\ UNCHANGED <<alert, seq, cursor>>
            /\ \/ mpc' = "sleep"
               \/ mpc' = "alert" /\ ~DistanceExceeds(0)
        BY <2>1 DEF QuitDistance, slave
      <3>2. ~DistanceExceeds(0) => \A s \in Slaves : cursor[s] = seq
        BY DEF DistanceExceeds, CursorInv
      <3>3. QED
        BY <3>1, <3>2
    <2>2. CASE QuitAlert
      BY <2>2 DEF QuitAlert, slave
    <2>3. CASE WaitNext \/ WaitNextTurn \/ WaitNextEmit \/ Cursor \/ Lock
               \/ Write \/ Fill \/ Advance
      BY <1>2, <2>3 DEF WaitNext, WaitNextTurn, WaitNextEmit, Cursor, Lock,
         Write, Fill, Advance, AfterRecord
    <2>4. CASE Writed \/ Turn \/ UnlockEmit \/ Publish \/ Sleep \/ QuitTurn
               \/ QuitEmit
      BY <1>2, <2>4 DEF Writed, Turn, UnlockEmit, Publish, Sleep, QuitTurn,
         QuitEmit, AfterRecord
    <2>5. QED
      BY <1>3, <2>1, <2>2, <2>3, <2>4 DEF Master
  <1>4. ASSUME NEW s \in Slaves, SlaveRun(s) \/ SpuriousWake(s)
        PROVE  CloseInv'
    <2>1. CASE Store(s)
      <3>1. /\ follow[s] = Len(got[s]) /\ cursor[s] <= follow[s]
            /\ follow[s] <= seq
            /\ cursor' = [cursor EXCEPT ![s] = follow[s]]
            /\ UNCHANGED <<seq, alert, mpc>>
        BY <2>1 DEF Store, SlaveStep, CursorInv, master
      <3>2. QED
        BY <3>1 DEF CloseInv
    <2>2. CASE ~Store(s)
      BY <1>1, <1>4, <2>2 DEF SlaveRun, Aquire, Enter, Subscriber, Wait,
         SpuriousWake, Reload, FixedTail, FixedEqual, FixedPasses,
         FixedRefused, FixedCopy, FixedRead, Obtain,
         BarrierQuit, master
    <2>3. QED
      BY <2>1, <2>2
  <1>5. CASE PauserRun
    BY <1>1, <1>5 DEF PauserRun, PauseStatus, PauseMe, PauseGetMin, PauseTurn,
       PauseEmit, master, slave
  <1>6. CASE UNCHANGED vars
    BY <1>1, <1>6 DEF vars, master, slave
  <1>7. QED
    BY <1>3, <1>4, <1>5, <1>6 DEF Next, Terminating

-----------------------------------------------------------------------------
\* The conjunction is inductive.
THEOREM Inductive == Spec => []IInv
  <1>1. Init => IInv
    BY TypeInit, RingInit, CursorInit, CopyInit, CloseInit
       DEF IInv, Init, NothingRefused
  <1>2. IInv /\ [Next]_vars => IInv'
    BY TypeNext, RingNext, CursorNext, CopyNext, CloseNext DEF IInv
  <1>3. QED
    BY <1>1, <1>2, PTL DEF Spec

\* No quote is ever refused by a full ring: wait_next() always makes room for
\* the deposit() that follows it.
THEOREM NeverRefuses == Spec => []NothingRefused
  <1>1. IInv => NothingRefused
    BY DEF IInv
  <1>2. QED
    BY <1>1, Inductive, PTL

-----------------------------------------------------------------------------
(* The refinement.                                                         *)

\* The indices of one instant let a row pass that holds one of the Rows - 2
\* latest records.
LEMMA KeptRowPasses ==
    ASSUME TypeOK, RingInv, NEW m \in 0 .. seq - 1, seq - m <= Rows - 2
    PROVE  InWindow(tail, m % Rows, writing) /\ writed # writing
  <1> USE BusAssumption DEF TypeOK
  <1>1. /\ seq \in Nat /\ m \in Nat /\ Rows \in Nat \ {0}
        /\ Oldest \in Nat /\ Written \in Nat
        /\ Oldest <= m /\ m < Written /\ Written - Oldest < Rows
    BY DEF Oldest, Written, HasRoom, HasMoved
  <1>2. Oldest % Rows <= m % Rows \/ m % Rows < Written % Rows
    BY <1>1, WindowAccepted
  <1>3. /\ Closed - 1 \in Nat /\ Closed - 1 < Written
        /\ Written - (Closed - 1) < Rows
    BY <1>1 DEF Closed, Written, HasClosed, HasMoved
  <1>4. (Closed - 1) % Rows # Written % Rows
    BY <1>1, <1>3, DistinctRows
  <1>5. QED
    BY <1>2, <1>3, <1>4 DEF InWindow, RingInv

\* A slave at most Rows - 2 behind is refused a row only when the master moved
\* an index between the two loads of a test.
THEOREM RefusalIsARace == Spec => RefusesKeptRowsOnlyInARace
  <1>1. ASSUME IInv, NEW s \in Slaves, FixedRefused(s),
               seq - pos[s] <= Rows - 2
        PROVE  seen[s] # CASE spc[s] = "range"     -> tail
                           [] spc[s] = "eqWriting" -> writed
                           [] spc[s] = "eqWrited"  -> writing
    <2>1. spc[s] \in {"range", "eqWriting", "eqWrited"} /\ ~Passes(s)
      BY <1>1 DEF FixedRefused
    <2>2. pos[s] \in 0 .. seq - 1
      BY <1>1, <2>1 DEF IInv, TypeOK, CursorInv, InCallback
    <2>3. InWindow(tail, Row(s), writing) /\ writed # writing
      BY <1>1, <2>2, KeptRowPasses DEF IInv, Row
    <2>4. CASE spc[s] = "range"
      BY <2>1, <2>3, <2>4 DEF Passes
    <2>5. CASE spc[s] = "eqWriting"
      BY <2>1, <2>3, <2>5 DEF Passes
    <2>6. CASE spc[s] = "eqWrited"
      BY <2>1, <2>3, <2>6 DEF Passes
    <2>7. QED
      BY <2>1, <2>4, <2>5, <2>6
  <1>2. IInv => \A s \in Slaves :
          FixedRefused(s) /\ seq - pos[s] <= Rows - 2 =>
              seen[s] # CASE spc[s] = "range"     -> tail
                          [] spc[s] = "eqWriting" -> writed
                          [] spc[s] = "eqWrited"  -> writing
    BY <1>1
  <1>3. QED
    BY <1>2, Inductive, PTL DEF RefusesKeptRowsOnlyInARace

\* Its row holds the record.
LEMMA KeptRowIntact ==
    ASSUME TypeOK, RingInv, NEW m \in 0 .. seq - 1, seq - m <= Rows - 2
    PROVE  slots[m % Rows] = m
  <1>1. Oldest <= m
    BY BusAssumption DEF TypeOK, Oldest, HasRoom, HasMoved
  <1>2. QED
    BY <1>1 DEF RingInv

\* Init maps to the initial state of Multicast.
LEMMA RefinesInit == Init => Bus!Init
  BY DEF Init, Bus!Init, E2Q_RUNING

\* Obtaining v for the position pos[s] is taking v, if v is a refusal or what
\* a slave that keeps up must find.
LEMMA ObtainTakes ==
    ASSUME IInv, NEW s \in Slaves, NEW v \in (0 .. seq) \cup {None, Refused},
           NEW step \in InCallback, Obtain(s, v, step),
           seq - pos[s] <= Rows - 2 => v \in {pos[s], Refused}
    PROVE  Bus!Take(s)
  <1>1. /\ pos[s] = Len(got[s]) /\ pos[s] < seq
        /\ pos[s] \in Nat /\ seq \in Nat
    BY DEF IInv, TypeOK, CursorInv, Obtain, SlaveStep
  <1>2. got' = [got EXCEPT ![s] = Append(@, v)] /\ UNCHANGED <<seq, alert>>
    BY DEF Obtain
  <1>3. QED
    BY <1>1, <1>2 DEF Bus!Take, Bus!Lag

\* Every step is a Publish, a Take, a Close or changes nothing Multicast sees.
LEMMA RefinesNext == IInv /\ [Next]_vars => [Bus!Next]_(Bus!busVars)
  <1> SUFFICES ASSUME IInv, [Next]_vars
               PROVE  Bus!Next \/ UNCHANGED <<seq, got, alert>>
    BY DEF Bus!busVars
  <1> USE BusAssumption
  <1>1. CASE Master
    <2>1. CASE Publish
      <3>1. /\ alert = E2Q_RUNING /\ seq' = seq + 1
            /\ UNCHANGED <<got, alert>>
        BY <2>1 DEF Publish, IInv, TypeOK, CloseInv, slave
      <3>2. QED
        BY <3>1 DEF Bus!Next, Bus!Publish
    <2>2. CASE QuitAlert
      <3>1. /\ mpc = "alert" /\ alert' = E2Q_EXIST /\ UNCHANGED <<seq, got>>
        BY <2>2 DEF QuitAlert, Step, slave
      <3>2. alert = E2Q_RUNING
        BY <3>1 DEF IInv, TypeOK, CloseInv
      <3>3. \A s \in Slaves : seq - Len(got[s]) = 0
        <4>1. \A s \in Slaves : /\ cursor[s] = seq /\ cursor[s] <= Len(got[s])
                                /\ Len(got[s]) <= seq /\ Len(got[s]) \in Nat
                                /\ seq \in Nat
          BY <3>1 DEF IInv, TypeOK, CloseInv, CursorInv
        <4>2. QED
          BY <4>1
      <3>4. QED
        BY <3>1, <3>2, <3>3 DEF Bus!Next, Bus!Close, Bus!Lag, E2Q_RUNING,
           E2Q_EXIST
    <2>3. CASE ~Publish /\ ~QuitAlert
      BY <1>1, <2>3 DEF Master, WaitNext, WaitNextTurn, WaitNextEmit, Cursor,
         Lock, Write, Fill, Advance, Writed, Turn, UnlockEmit, Sleep, QuitTurn,
         QuitEmit, QuitDistance, slave
    <2>4. QED
      BY <2>1, <2>2, <2>3
  <1>2. ASSUME NEW s \in Slaves, SlaveRun(s) \/ SpuriousWake(s)
        PROVE  Bus!Next \/ UNCHANGED <<seq, got, alert>>
    <2>1. CASE FixedRefused(s)
      <3>1. spc[s] \in InCallback /\ Obtain(s, Refused, spc[s])
        BY <2>1 DEF FixedRefused, InCallback
      <3>2. Bus!Take(s)
        BY <3>1, ObtainTakes
      <3>3. QED
        BY <3>2 DEF Bus!Next
    <2>2. CASE FixedRead(s)
      <3> DEFINE v == IF slots[Row(s)] = seen[s] THEN seen[s] ELSE None
      <3>1. /\ pos[s] \in 0 .. seq - 1 /\ spc[s] = "last"
            /\ Obtain(s, v, "last") /\ "last" \in InCallback
        BY <2>2 DEF FixedRead, Obtain, SlaveStep, IInv, TypeOK, CursorInv,
           InCallback
      <3>2. v \in (0 .. seq) \cup {None}
        BY <3>1 DEF IInv, CopyInv
      <3>3. ASSUME seq - pos[s] <= Rows - 2 PROVE v = pos[s]
        <4>1. slots[Row(s)] = pos[s]
          BY <3>1, <3>3, KeptRowIntact DEF IInv, Row
        <4>2. pos[s] >= Oldest
          BY <3>1, <3>3 DEF IInv, TypeOK, Oldest, HasRoom, HasMoved
        <4>3. seen[s] = pos[s]
          BY <3>1, <4>2 DEF IInv, CopyInv
        <4>4. QED
          BY <4>1, <4>3
      <3>4. Bus!Take(s)
        BY <3>1, <3>2, <3>3, ObtainTakes
      <3>5. QED
        BY <3>4 DEF Bus!Next
    <2>3. CASE ~FixedRefused(s) /\ ~FixedRead(s)
      BY <1>2, <2>3 DEF SlaveRun, Aquire, Enter, Subscriber, Wait,
         SpuriousWake, Reload, FixedTail, FixedEqual, FixedPasses, FixedCopy,
         Store, BarrierQuit
    <2>4. QED
      BY <2>1, <2>2, <2>3
  <1>3. CASE PauserRun
    BY <1>3 DEF PauserRun, PauseStatus, PauseMe, PauseGetMin, PauseTurn,
       PauseEmit, slave
  <1>4. CASE UNCHANGED vars
    BY <1>4 DEF vars, slave
  <1>5. QED
    BY <1>1, <1>2, <1>3, <1>4 DEF Next, Terminating

\* The Disruptor implements Multicast: records in order, none twice, none left
\* out, intact for a slave at most Rows - 2 behind, closed only when drained.
THEOREM Refinement == Spec => ImplementsMulticast
  <1>1. QED
    BY RefinesInit, RefinesNext, Inductive, PTL
       DEF Spec, ImplementsMulticast, Bus!Spec
=============================================================================
