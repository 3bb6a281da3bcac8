----------------------------- MODULE SilkPermit -----------------------------
(****************************************************************************)
(* The ring of rows that buses and bars are kept in, as one thread uses it:  *)
(* rows are written round and round, and read back by their age, by their    *)
(* order from the oldest, or as they lie.  (Disruptor and Bars have what two *)
(* threads see of it.)  Copies of a permit share its memory and its indices  *)
(* and only read.                                                           *)
(*                                                                          *)
(* Nothing tells an empty ring from one with a single row but that the row   *)
(* last written is the one before the next: so the indices start out equal,  *)
(* and the last row cannot be given up.                                     *)
(****************************************************************************)
EXTENDS Integers, Sequences

CONSTANTS Rows, Cols,   \* _mulberry.row, _mulberry.column
          Cells         \* what an element holds

ASSUME SilkPermitAssumption ==
    /\ Rows \in Nat \ {0, 1} /\ Cols \in Nat \ {0}
    /\ 0 \in Cells

VARIABLES data,         \* the range of memory, element by element
          major,        \* whether rows or columns lie together
          overlap,      \* a full ring is written over
          writing,      \* _writingIndex: the next row to write
          writed,       \* _writedIndex: the row last written
          tail          \* _tailIndex: the oldest row

permitVars == <<data, major, overlap, writing, writed, tail>>

Places == 0..Rows - 1
Columns == 0..Cols - 1
RowsOfCells == [Columns -> Cells]

PermitInit ==
    /\ data = [n \in 0..Rows * Cols - 1 |-> 0]
    /\ major \in {"row", "column"}
    /\ overlap = FALSE
    /\ writing = 0 /\ writed = 0 /\ tail = 0

-----------------------------------------------------------------------------
(* Where things are. *)

\* MAJOR
MAJOR(row, col) ==
    IF major = "row" THEN row * Cols + col ELSE col * Rows + row

\* What lies in a row.
fixed(row) == [col \in Columns |-> data[MAJOR(row, col)]]

\* ATOMICEQ(_writedIndex, _writingIndex): nothing was written yet.
NotInit == writed = writing

\* ATOMICADDS
Onward(index, num) == (index + num) % Rows

\* hash_row(): the age of the oldest row.
hash_row == IF writed < tail THEN Rows - tail + writed ELSE writed - tail

\* realRow: where the row of an age is.
RealRow(age) == IF writed < age THEN (Rows - age + writed) % Rows ELSE writed - age

-----------------------------------------------------------------------------
(* Writing. *)

\* The elements with a row in its place.
Stored(row, values) ==
    [n \in DOMAIN data |->
        IF \E col \in Columns : n = MAJOR(row, col)
        THEN values[CHOOSE col \in Columns : n = MAJOR(row, col)] ELSE data[n]]

\* A slip: the oldest row is written over and still counted.
InsertKeepsTail(values) ==
    /\ Onward(writed, 1) = tail => overlap
    /\ data' = Stored(writing, values)
    /\ writing' = Onward(writing, 1)
    /\ writed' = IF writing' = 0 THEN Rows - 1 ELSE writing' - 1
    /\ UNCHANGED <<major, overlap, tail>>

\* insert(), with its check(): a full ring gives up its oldest row, or refuses.
Insert(values) ==
    /\ Onward(writed, 1) = tail => overlap
    /\ tail' = IF Onward(writed, 1) = tail THEN Onward(tail, 1) ELSE tail
    /\ data' = Stored(writing, values)
    /\ writing' = Onward(writing, 1)
    /\ writed' = IF writing' = 0 THEN Rows - 1 ELSE writing' - 1
    /\ UNCHANGED <<major, overlap>>

\* What push() asks for: a row that is there.
Reached(age) == age \in Places /\ ~NotInit /\ age <= hash_row

\* push() of one element
Push(age, col, value) ==
    /\ Reached(age)
    /\ data' = [data EXCEPT ![MAJOR(RealRow(age), col)] = value]
    /\ UNCHANGED <<major, overlap, writing, writed, tail>>

\* push() of a row
PushRow(age, values) ==
    /\ Reached(age) /\ data' = Stored(RealRow(age), values)
    /\ UNCHANGED <<major, overlap, writing, writed, tail>>

\* cursor(): the oldest row is given up, unless it is the last.
Cursor ==
    /\ writed # tail /\ tail' = Onward(tail, 1)
    /\ UNCHANGED <<data, major, overlap, writing, writed>>

\* A slip: as many as were asked for.
CursorUncapped(num) ==
    /\ writed # tail /\ tail' = Onward(tail, num)
    /\ UNCHANGED <<data, major, overlap, writing, writed>>

\* cursor(num): no more of them than there are, but for the last.
CursorMany(num) ==
    /\ writed # tail
    /\ LET real_num == IF writed > tail THEN writed - tail ELSE Rows - tail + writed
       IN  tail' = Onward(tail, IF num > real_num THEN real_num ELSE num)
    /\ UNCHANGED <<data, major, overlap, writing, writed>>

over_load(on) ==
    /\ overlap' = on /\ UNCHANGED <<data, major, writing, writed, tail>>

PermitNext ==
    \/ \E values \in RowsOfCells :
          Insert(values) \/ \E age \in Places : PushRow(age, values)
    \/ \E age \in Places, col \in Columns, value \in Cells : Push(age, col, value)
    \/ Cursor
    \/ \E num \in 0..Rows : CursorMany(num)
    \/ \E on \in BOOLEAN : over_load(on)

PermitSpec == PermitInit /\ [][PermitNext]_permitVars

-----------------------------------------------------------------------------
(* Reading.  << >> stands for a refusal. *)

NoRow == << >>

\* read(data, row)
ReadRow(age) == IF NotInit \/ age > hash_row THEN NoRow ELSE fixed(RealRow(age))

\* fetch() and at(): an element, where 0 stands for none.
Element(age, col) ==
    IF age >= Rows \/ col >= Cols \/ NotInit \/ age > hash_row THEN 0
    ELSE data[MAJOR(RealRow(age), col)]

\* A slip: counted from the one after the newest.
OldestShifted(n) ==
    IF NotInit \/ n = 0 \/ hash_row + 1 < n THEN NoRow
    ELSE fixed(RealRow(hash_row + 2 - n))

\* tail(data, -n): the n-th row, the oldest first.
Oldest(n) ==
    IF NotInit \/ n = 0 \/ hash_row + 1 < n THEN NoRow
    ELSE fixed(RealRow(hash_row + 1 - n))

\* read() into so many rows: how many it fills.
Reads(wanted) ==
    IF NotInit THEN 0
    ELSE LET there == IF wanted < Rows THEN wanted ELSE Rows
         IN  IF there <= hash_row + 1 THEN there ELSE hash_row + 1

\* tail() into so many rows: it stops before as many as the ring has.
Tails(wanted) ==
    IF NotInit THEN 0
    ELSE LET there == IF wanted < Rows - 1 THEN wanted ELSE Rows - 1
         IN  IF there <= hash_row + 1 THEN there ELSE hash_row + 1

\* writed(): 0 as well when the next row to write is the first.
Writed == IF writing = 0 THEN 0 ELSE writed

-----------------------------------------------------------------------------
(* Properties. *)

\* The n-th row that is kept, the oldest first: the rows follow the tail.
Place(n) == IF tail + n - 1 < Rows THEN tail + n - 1 ELSE tail + n - 1 - Rows

Kept == [n \in 1..(IF NotInit THEN 0 ELSE hash_row + 1) |-> fixed(Place(n))]

\* Types; the row last written is the one before the next, and while nothing was
\* written no row was given up.
PermitTypeOK ==
    /\ data \in [0..Rows * Cols - 1 -> Cells]
    /\ major \in {"row", "column"} /\ overlap \in BOOLEAN
    /\ {writing, writed, tail} \subseteq Places
    /\ \/ writing = 0 /\ writed = 0 /\ tail = 0
       \/ writing = 0 /\ writed = Rows - 1
       \/ writing = writed + 1

\* The rows that were written are read back, by their age and from the oldest on,
\* and no others; writed() is the newest one's place until the ring has gone round.
ReadsTheKept ==
    /\ \A age \in 0..Rows :
          /\ ReadRow(age) = IF age < Len(Kept) THEN Kept[Len(Kept) - age] ELSE NoRow
          /\ Oldest(age) = IF age \in DOMAIN Kept THEN Kept[age] ELSE NoRow
          /\ \A col \in Columns :
               Element(age, col) = IF age < Len(Kept) THEN ReadRow(age)[col] ELSE 0
    /\ Reads(Rows) = Len(Kept)
    /\ Len(Kept) < Rows => Tails(Rows) = Len(Kept)
    /\ Kept # << >> /\ writing # 0 => fixed(Writed) = Kept[Len(Kept)]

R == INSTANCE Recent WITH
        Contents <- RowsOfCells, Capacity <- Rows, kept <- Kept

\* The ring keeps what is added in its order, and gives up nothing but its oldest
\* rows, when it is told to or may write over them; a change of one row changes no
\* other.
ImplementsRecent == R!RecentSpec

\* What is written is there to be read, in either order of rows and columns.
PermitInv == PermitTypeOK /\ ReadsTheKept
=============================================================================
