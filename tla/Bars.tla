-------------------------------- MODULE Bars --------------------------------
(****************************************************************************)
(* The bars of a stock in a trader node: Container::push() turns each tick   *)
(* into the bar of every time frame and writes it, column by column, into    *)
(* the ring (SilkPermit) of that frame; the jobs of the script read bars     *)
(* back by their age (shift) without a lock that the writer knows of.        *)
(*                                                                          *)
(* Times are minutes.  The slave that pushes and the job that reads are two  *)
(* threads; each step is one load or store the other can see.  The adjusted  *)
(* close goes with the close and is left out; every tick has quantity 1.     *)
(****************************************************************************)
EXTENDS Integers, Sequences, SequencesExt, FiniteSetsExt

CONSTANTS Frames,     \* _time_frames: minutes, asked for in this order
          Source,     \* frame of the ticks
          Opens,      \* _tradetime: minutes of the day at which a window opens
          Closes,     \* ... and at which it closes
          Stocks,     \* choices of the stock; 0 is the index
          Appends,    \* choices of _volume_append
          OnOpens,    \* choices of _onOpen
          Gmt,        \* _gmt > 0
          Offset,     \* offset_gmt()
          Rows,       \* rows of a ring
          Times,      \* when ticks come
          Prices,     \* of ticks; 0 for a stock that is halted
          MaxPushes   \* bound: ticks

TimeFrames == {1, 5, 15, 30, 60, 240, 1440, 10080}

ASSUME BarsAssumption ==
    /\ Rows \in Nat \ {0, 1} /\ Offset \in Int /\ Times \subseteq Nat
    /\ Prices \subseteq Nat /\ MaxPushes \in Nat
    /\ Stocks \subseteq Nat /\ {Gmt} \cup Appends \cup OnOpens \subseteq BOOLEAN
    /\ Source \in TimeFrames /\ Frames \in Seq(TimeFrames)
    /\ Opens \cup Closes \subseteq 0..1439
    /\ Cardinality(Opens) = Cardinality(Closes)

VARIABLES
    setup,      \* the stock, _volume_append and _onOpen
    cells,      \* of each frame: its ring and its indices
    slave,      \* where Container::push() is
    job,        \* where the job is that reads
    ticks       \* history: the ticks that were pushed

barsVars == <<setup, cells, slave, job, ticks>>

Columns == <<"start", "open", "high", "low", "close", "volume">>

\* CheckDefFrame(): the first tick of any stock adds the frame it comes in.
CellFrames ==
    IF \E n \in DOMAIN Frames : Frames[n] = Source THEN Frames ELSE Append(Frames, Source)

NoBar == [c \in {Columns[k] : k \in DOMAIN Columns} |-> 0]

\* InitCell(): the rings are taken from the Silkworm, and are empty.
BarsInit ==
    /\ setup \in [stock : Stocks, append : Appends, onOpen : OnOpens]
    /\ cells = [m \in DOMAIN CellFrames |->
                  [frame |-> CellFrames[m], data |-> [r \in 0..Rows - 1 |-> NoBar],
                   writing |-> 0, tail |-> 0, writed |-> 0, total |-> 0]]
    /\ slave = [at |-> "idle"]
    /\ job = [at |-> "idle"]
    /\ ticks = << >>

-----------------------------------------------------------------------------
(* When the bar of a tick starts. *)

\* _tradetime, as pairs of minutes.
Hours ==
    LET open == SetToSortSeq(Opens, <)
        close == SetToSortSeq(Closes, <)
    IN  [n \in DOMAIN open |-> <<open[n], close[n]>>]

Day == 1440

\* A slip: the day of Greenwich.
NowTimeUtc(t) == t - (t % Day)

\* The macro NowTime(t, gmt).
NowTime(t) ==
    LET gmt == IF Gmt THEN Offset ELSE 0 IN (t + gmt) - ((t + gmt) % Day) - gmt

\* The first window that holds the minute; from the second on, one that lies
\* within a frame of the clock starts with that frame.  Outside the hours: 0.
deviation(t, frame) ==
    LET now == (t + Offset) % Day
        holds == {n \in DOMAIN Hours : Hours[n][1] <= now /\ now <= Hours[n][2]}
    IN  IF holds = {} THEN 0
        ELSE LET n == Min(holds)
                 flat == (now \div frame) * frame
             IN  IF n > 1 /\ flat <= Hours[n][1] /\ flat + frame >= Hours[n][2]
                 THEN flat
                 ELSE Hours[n][1] + ((now - Hours[n][1]) \div frame) * frame

\* UtilTime::first_of_the_week(): monday, of the clock in Greenwich.
first_of_the_week(t) == t - (((t \div Day) + 3) % 7) * Day - (t % Day)

startTime(frame, t) ==
    CASE frame \in {1, 5} -> t - (t % frame)
      [] frame \in {15, 30, 60, 240} -> NowTime(t) + deviation(t, frame)
      [] frame = Day -> NowTime(t)
      [] OTHER -> first_of_the_week(t) - (IF Gmt THEN Offset ELSE 0)

-----------------------------------------------------------------------------
(* SilkPermit *)

Empty(cell) == cell.writed = cell.writing

\* hash_row() of the indices that were loaded.
hash_row(tail, writed) ==
    IF writed < tail THEN Rows - tail + writed ELSE writed - tail

\* The row that is so many bars older than the last one.
Older(writed, shift) == (Rows - shift + writed) % Rows

\* check(): the oldest row is given up before it is written over.
check(cell) ==
    IF (cell.writed + 1) % Rows = cell.tail
    THEN [cell EXCEPT !.tail = (@ + 1) % Rows] ELSE cell

-----------------------------------------------------------------------------
(* The slave: Container::push(). *)

\* A slip: the open is looked at.
PausedByOpen(cell) ==
    /\ setup.stock > 0 /\ cell.data[cell.writed].open = 0
    /\ hash_row(cell.tail, cell.writed) > 0

\* A stock is halted while its last bar closed at 0, but for the first bar.
Paused(cell) ==
    /\ setup.stock > 0 /\ cell.data[cell.writed].close = 0
    /\ hash_row(cell.tail, cell.writed) > 0

\* The bar that a tick starts.
Opened(start, price) ==
    [start |-> start, open |-> price, high |-> price, low |-> price,
     close |-> price, volume |-> 1]

\* A slip: the low only follows the first tick.
KeepsLow(bar, price) ==
    [bar EXCEPT !.high = IF price > @ THEN price ELSE @,
                !.close = price,
                !.volume = IF setup.append THEN @ + 1 ELSE @]

\* The bar with one more tick.
Updated(bar, price) ==
    [bar EXCEPT !.high = IF price > @ THEN price ELSE @,
                !.low = IF @ > price THEN price ELSE @,
                !.close = price,
                !.volume = IF setup.append THEN @ + 1 ELSE @]

\* A tick comes over the bus.  A bar on open takes it for the end of a frame.
Tick(time, price) ==
    /\ slave.at = "idle" /\ Len(ticks) < MaxPushes
    /\ setup.stock = 0 => price # 0
    /\ \A n \in DOMAIN ticks : ticks[n].came <= time
    /\ LET stamp == IF setup.onOpen THEN time - Source ELSE time IN
       /\ slave' = [at |-> "cell", m |-> 1, time |-> stamp, price |-> price]
       /\ ticks' = Append(ticks, [came |-> time, time |-> stamp, price |-> price])
    /\ UNCHANGED <<setup, cells, job>>

NextCell(m) ==
    IF m = Len(cells) THEN [at |-> "idle"]
    ELSE [at |-> "cell", m |-> m + 1, time |-> slave.time, price |-> slave.price]

Skip ==
    /\ slave.at = "cell" /\ cells[slave.m].frame < Source
    /\ slave' = NextCell(slave.m)
    /\ UNCHANGED <<setup, cells, job, ticks>>

Columned(row, bar, fresh) ==
    [at |-> "column", m |-> slave.m, time |-> slave.time, price |-> slave.price,
     row |-> row, bar |-> bar, k |-> 1, fresh |-> fresh]

\* One frame: the last bar is read, and either grows or is followed by a new
\* one.  A halted stock takes no price of 0, and
\* leaves the frames that follow alone; another price takes the place of the
\* last bar.
Cell ==
    LET cell == cells[slave.m]
        last == cell.data[cell.writed]
        start == startTime(cell.frame, slave.time)
        pause == Paused(cell)
        grows == ~Empty(cell) /\ last.start # 0 /\ last.start = start
    IN  /\ slave.at = "cell" /\ cell.frame >= Source
        /\ \/ /\ pause /\ slave.price = 0
              /\ slave' = [at |-> "idle"] /\ UNCHANGED cells
           \/ /\ ~(pause /\ slave.price = 0) /\ grows
              /\ slave' = Columned(cell.writed, Updated(last, slave.price), FALSE)
              /\ UNCHANGED cells
           \/ /\ pause /\ slave.price # 0 /\ ~grows
              /\ slave' = Columned(cell.writed, Opened(start, slave.price), FALSE)
              /\ UNCHANGED cells
           \/ /\ ~pause /\ ~grows
              /\ cells' = [cells EXCEPT ![slave.m] = check(@)]
              /\ slave' = Columned(cell.writing, Opened(start, slave.price), TRUE)
        /\ UNCHANGED <<setup, job, ticks>>

\* push(0) and insert(): column after column.
Column ==
    LET c == Columns[slave.k] IN
    /\ slave.at = "column"
    /\ cells' = [cells EXCEPT ![slave.m].data[slave.row][c] = slave.bar[c]]
    /\ slave' = IF slave.k < Len(Columns) THEN [slave EXCEPT !.k = @ + 1]
                ELSE IF slave.fresh THEN [slave EXCEPT !.at = "writing"]
                ELSE NextCell(slave.m)
    /\ UNCHANGED <<setup, job, ticks>>

Writing ==
    /\ slave.at = "writing"
    /\ cells' = [cells EXCEPT ![slave.m].writing = (@ + 1) % Rows]
    /\ slave' = [slave EXCEPT !.at = "writed"]
    /\ UNCHANGED <<setup, job, ticks>>

\* A slip: the next row.
WritedNext ==
    /\ slave.at = "writed"
    /\ cells' = [cells EXCEPT
          ![slave.m].writed = cells[slave.m].writing,
          ![slave.m].total = @ + 1]
    /\ slave' = NextCell(slave.m)
    /\ UNCHANGED <<setup, job, ticks>>

\* ATOMICPTR: the row before the next one to write.
Writed ==
    /\ slave.at = "writed"
    /\ cells' = [cells EXCEPT
          ![slave.m].writed = Older(cells[slave.m].writing, 1),
          ![slave.m].total = @ + 1]
    /\ slave' = NextCell(slave.m)
    /\ UNCHANGED <<setup, job, ticks>>

-----------------------------------------------------------------------------
(* A job of the script: Bar(), which is Container::read().  The job keeps how *)
(* many bars there were when it asked, and when the bar it asked for starts.  *)

Refused == [at |-> "refused", m |-> job.m, shift |-> job.shift, asked |-> job.asked]

\* writed(): 0 before the ring is used, and again when it has gone round.
Ask(m, shift) ==
    LET cell == cells[m]
        asked == [total |-> cell.total,
                  start |-> IF shift <= hash_row(cell.tail, cell.writed)
                            THEN cell.data[Older(cell.writed, shift)].start ELSE 0]
        call(at) == [at |-> at, m |-> m, shift |-> shift, asked |-> asked]
    IN  /\ job.at = "idle"
        /\ job' = call(IF cell.writing # 0 THEN "count"
                       ELSE IF shift = 0 THEN "tail" ELSE "refused")
        /\ UNCHANGED <<setup, cells, slave, ticks>>

\* A slip: the oldest row is refused.
CountStrict ==
    /\ job.at = "count"
    /\ job' = IF cells[job.m].writed > job.shift THEN [job EXCEPT !.at = "tail"]
              ELSE Refused
    /\ UNCHANGED <<setup, cells, slave, ticks>>

\* The index of the last row is what the age is compared with.
CountWrited ==
    /\ job.at = "count"
    /\ job' = IF cells[job.m].writed >= job.shift THEN [job EXCEPT !.at = "tail"]
              ELSE Refused
    /\ UNCHANGED <<setup, cells, slave, ticks>>

\* A ring that has been written never is empty again.
LoadTail ==
    /\ job.at = "tail"
    /\ job' = IF Empty(cells[job.m]) THEN Refused
              ELSE [at |-> "now", m |-> job.m, shift |-> job.shift,
                    asked |-> job.asked, tail |-> cells[job.m].tail]
    /\ UNCHANGED <<setup, cells, slave, ticks>>

Now ==
    /\ job.at = "now"
    /\ job' = IF job.shift > hash_row(job.tail, cells[job.m].writed) THEN Refused
              ELSE [at |-> "locate", m |-> job.m, shift |-> job.shift,
                    asked |-> job.asked]
    /\ UNCHANGED <<setup, cells, slave, ticks>>

\* A slip: counted from the row that is written next.
LocateWriting ==
    /\ job.at = "locate"
    /\ job' = [at |-> "copy", m |-> job.m, shift |-> job.shift, asked |-> job.asked,
               row |-> Older(cells[job.m].writing, job.shift), bar |-> NoBar, k |-> 1]
    /\ UNCHANGED <<setup, cells, slave, ticks>>

Locate ==
    /\ job.at = "locate"
    /\ job' = [at |-> "copy", m |-> job.m, shift |-> job.shift, asked |-> job.asked,
               row |-> Older(cells[job.m].writed, job.shift), bar |-> NoBar, k |-> 1]
    /\ UNCHANGED <<setup, cells, slave, ticks>>

Copy ==
    LET c == Columns[job.k]
        bar == [job.bar EXCEPT ![c] = cells[job.m].data[job.row][c]]
    IN  /\ job.at = "copy"
        /\ job' = IF job.k < Len(Columns) THEN [job EXCEPT !.bar = bar, !.k = @ + 1]
                  ELSE [at |-> "read", m |-> job.m, shift |-> job.shift,
                        asked |-> job.asked, bar |-> bar]
        /\ UNCHANGED <<setup, cells, slave, ticks>>

Return ==
    /\ job.at \in {"read", "refused"} /\ job' = [at |-> "idle"]
    /\ UNCHANGED <<setup, cells, slave, ticks>>

\* BarSize() and BarNumber(): how many rows of a frame have been written, and how
\* many its ring has.
writed(m) == cells[m].total
rows(m) == Cardinality(DOMAIN cells[m].data)

\* BarSeries() of the bar that the thread has read: 0 if it was refused.
BarSeries(column) == IF job.at = "read" THEN job.bar[column] ELSE 0

\* iOpen() .. iTime(): a call each.
Series == [column \in DOMAIN NoBar |-> BarSeries(column)]

BarsNext ==
    \/ \E time \in Times, price \in Prices : Tick(time, price)
    \/ Skip \/ Cell \/ Column \/ Writing \/ Writed
    \/ \E m \in DOMAIN cells, shift \in 0..Rows - 1 : Ask(m, shift)
    \/ CountWrited \/ LoadTail \/ Now \/ Locate \/ Copy \/ Return

BarsSpec == BarsInit /\ [][BarsNext]_barsVars

-----------------------------------------------------------------------------
(* Properties. *)

InWindow(t) ==
    \E h \in DOMAIN Hours : LET now == (t + Offset) % Day
                            IN  Hours[h][1] <= now /\ now <= Hours[h][2]

\* The stamps of the ticks.
Stamps == Times \cup {t - Source : t \in Times}

\* The hours fit the frames: of stamps in the hours of trading the later one has no
\* earlier start, and the start of a bar is not 0, which stands for no bar.
ASSUME ClockAssumption ==
    \A m \in DOMAIN CellFrames : \A t \in {s \in Stamps : InWindow(s)} :
        /\ startTime(CellFrames[m], t) \in Nat \ {0}
        /\ \A u \in {s \in Stamps : InWindow(s)} :
              t <= u => startTime(CellFrames[m], t) <= startTime(CellFrames[m], u)

\* In the hours of trading every minute of a week is within its bar, in each
\* frame, and the bars follow one another.
HoursFit ==
    \A frame \in {1, 5, 15, 30, 60, 240, 1440, 10080} :
        LET trading == {t \in 7 * Day..14 * Day : InWindow(t)}
            start == [t \in trading |-> startTime(frame, t)]
        IN  \A t \in trading :
              /\ start[t] <= t /\ t < start[t] + frame
              /\ t + 1 \in trading => start[t] <= start[t + 1]

\* ... which is looked at once, before there are ticks.
BarsFitTheClock == ticks = << >> /\ job.at = "idle" => HoursFit

\* The bars a frame shows, the oldest first; one that is being written is not
\* among them.
Shown(m) ==
    LET cell == cells[m]
        last == IF Empty(cell) THEN 0 ELSE hash_row(cell.tail, cell.writed) + 1
        all == [n \in 1..last |-> cell.data[Older(cell.writed, last - n)]]
    IN  IF slave.at = "column" /\ slave.m = m /\ ~slave.fresh
        THEN SubSeq(all, 1, last - 1) ELSE all

InHours == \A n \in DOMAIN ticks : InWindow(ticks[n].time)

NeverHalted == \A n \in DOMAIN ticks : ticks[n].price # 0

\* The bar that the ticks of the log make in a frame.
Summary(frame, start) ==
    LET of == {n \in DOMAIN ticks : startTime(frame, ticks[n].time) = start}
        prices == {ticks[n].price : n \in of}
    IN  [start |-> start, open |-> ticks[Min(of)].price, high |-> Max(prices),
         low |-> Min(prices), close |-> ticks[Max(of)].price,
         volume |-> IF setup.append THEN Cardinality(of) ELSE 1]

\* Types and indices: the last row is the one before the next, and the tail is
\* within the ring.
BarsTypeOK ==
    /\ setup \in [stock : Stocks, append : Appends, onOpen : OnOpens]
    /\ \A m \in DOMAIN cells :
          /\ cells[m].data \in [0..Rows - 1 -> [DOMAIN NoBar -> Int]]
          /\ {cells[m].writing, cells[m].tail, cells[m].writed} \subseteq 0..Rows - 1
          /\ slave.at # "writed" => cells[m].writed =
                IF cells[m].total = 0 THEN 0 ELSE Older(cells[m].writing, 1)
          /\ Len(Shown(m)) <= Rows

\* The bars of a frame start one after the other, as long as every tick came in
\* the hours of trading, and hold what the ticks between them make.
BarsInOrder ==
    InHours => \A m \in DOMAIN cells : LET bars == Shown(m) IN
        /\ \A n \in 1..Len(bars) - 1 : bars[n].start < bars[n + 1].start
        /\ NeverHalted /\ slave.at # "cell" => \A n \in DOMAIN bars :
              \/ bars[n] = Summary(cells[m].frame, bars[n].start)
              \/ slave.at # "idle" /\ slave.m <= m /\ n = Len(bars)

\* A stock that is halted leaves no empty bar behind: but for the first bar of a
\* frame and the newest one, every bar closed at a price.
OnlyNewestIsEmpty ==
    \A m \in DOMAIN cells : LET bars == Shown(m) IN
        \A n \in 1..Len(bars) - 1 :
            bars[n].close = 0 => n = 1 /\ cells[m].total <= Rows

\* Although the job loads the indices one by one while bars are written, it gets
\* no bar older than the one it asked for.
NeverStale ==
    job.at = "read" /\ InHours => BarSeries("start") >= job.asked.start

\* A closed bar is read whole, as the ticks made it, however many bars follow
\* while it is copied, as long as the ring does not come round to it.
ClosedBarsAreWhole ==
    /\ job.at = "read" /\ job.shift > 0 /\ InHours /\ NeverHalted
    /\ writed(job.m) - job.asked.total + job.shift + 1 < rows(job.m)
    => Series = Summary(cells[job.m].frame, BarSeries("start"))

\* A bar that is there is refused only once the ring has gone round, or goes.
RefusesOnlyWhenRound ==
    job.at = "refused" /\ job.shift < job.asked.total =>
        \/ writed(job.m) >= rows(job.m)
        \/ slave.at = "writed" /\ slave.m = job.m /\ cells[job.m].writing = 0

\* What the feed makes of its ticks: bars that fit the hours of trading, follow
\* one another, hold their ticks and leave no gaps at a halt.
BarsInv == BarsTypeOK /\ BarsFitTheClock /\ BarsInOrder /\ OnlyNewestIsEmpty

\* What a job reads while the feed goes on: the bar it asked for or a newer one,
\* a closed bar as a whole, and any bar that is there until the ring is full.
ReadsInv == NeverStale /\ ClosedBarsAreWhole /\ RefusesOnlyWhenRound
=============================================================================
