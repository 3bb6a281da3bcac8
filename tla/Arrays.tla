------------------------------- MODULE Arrays -------------------------------
(****************************************************************************)
(* The arrays of the scripts (math.cpp): each is a RingLoop of its thread, a *)
(* vector that is written round and round once it has reached its length.    *)
(* pos counts what was added, modulo the length from then on; cur is the     *)
(* oldest value.  One array of one thread; the others have rings of their own.*)
(****************************************************************************)
EXTENDS Integers, Sequences, SequencesExt, FiniteSetsExt

CONSTANTS Values, Lengths,
          MaxPos       \* bound of pos, which grows when arrays are resized

ASSUME ArraysAssumption == Values \subseteq Nat /\ Lengths \subseteq Nat \ {0}

VARIABLES ring,        \* RingLoopType: data (its entry n is at n + 1), length ...
          inOrder      \* history: not padded while partly filled, nor resized

arraysVars == <<ring, inOrder>>

ArraysInit ==
    /\ ring = [data |-> << >>, length |-> 0, pos |-> 0, cur |-> 0]
    /\ inOrder = TRUE

size == Len(ring.data)

\* CHECKARRAY: where the idx-th value is, 0 for none.
At(idx) == IF size = 0 \/ size < idx THEN 0 ELSE ((ring.cur + idx) % size) + 1

-----------------------------------------------------------------------------
(* init(), called by Array() at the start of each run of the script. *)

Array(len) ==
    /\ ring' = [ring EXCEPT !.length = len]
    /\ inOrder' = (inOrder /\ (size = 0 \/ ring.length = len))

-----------------------------------------------------------------------------
(* add() *)

\* A slip: the value is written where pos will be.
AddBeyond(v) ==
    IF size < ring.length
    THEN ring' = [ring EXCEPT !.data = Append(@, v), !.pos = @ + 1]
    ELSE ring' = [ring EXCEPT !.data[((ring.pos + 1) % ring.length) + 1] = v,
                              !.cur = (ring.pos + 1) % ring.length,
                              !.pos = (@ % ring.length) + 1]

\* A slip: cur is not wrapped.
AddUnwrapped(v) ==
    IF size < ring.length
    THEN ring' = [ring EXCEPT !.data = Append(@, v), !.pos = @ + 1]
    ELSE ring' = [ring EXCEPT !.data[(ring.cur % size) + 1] = v,
                              !.cur = ring.pos + 1,
                              !.pos = (@ % ring.length) + 1]

\* A cursor that stayed beyond a vector that has shrunk writes outside of it; of
\* that the array shows nothing.
RingAdd(v) ==
    IF size < ring.length
    THEN ring' = [ring EXCEPT !.data = Append(@, v), !.pos = @ + 1]
    ELSE ring' = [ring EXCEPT !.data[ring.cur + 1] = v,
                              !.cur = (ring.pos + 1) % ring.length,
                              !.pos = (@ % ring.length) + 1]

ArrayAdd(v) ==
    /\ ring.length > 0 /\ ring.pos < MaxPos
    /\ RingAdd(v) /\ UNCHANGED inOrder

\* ArrayUpdate(): beyond the end it adds.
ArrayUpdate(idx, v) ==
    IF idx >= size THEN ArrayAdd(v)
    ELSE ring' = [ring EXCEPT !.data[At(idx)] = v] /\ UNCHANGED inOrder

ArrayFill(v) ==
    /\ ring' = [ring EXCEPT !.data = [n \in DOMAIN @ |-> v]]
    /\ UNCHANGED inOrder

\* fixed(): resized to the length; pos and cur stay.
ArrayFixed ==
    /\ ring.length > 0
    /\ ring' = [ring EXCEPT !.data = [n \in 1..ring.length |->
                                        IF n <= size THEN @[n] ELSE 0]]
    /\ inOrder' = (inOrder /\ size \in {0, ring.length})

ArraysNext ==
    \/ \E len \in Lengths : Array(len)
    \/ \E v \in Values : \/ ArrayAdd(v) \/ ArrayFill(v)
                         \/ \E idx \in 0..size : ArrayUpdate(idx, v)
    \/ ArrayFixed

ArraysSpec == ArraysInit /\ [][ArraysNext]_arraysVars

-----------------------------------------------------------------------------
(* What the scripts read. *)

Contents == [i \in 1..size |-> ring.data[At(i - 1)]]

\* A slip: it starts one further.
SumShifted(p) ==
    SumFunction([m \in 0..p - 1 |-> ring.data[((ring.pos + 1 + m) % ring.length) + 1]])

\* Sum() of the first p values; where the vector is shorter than the length the
\* code reads past its end.
Sum(p) ==
    SumFunction([m \in 0..p - 1 |-> ring.data[((ring.pos + m) % ring.length) + 1]])

\* MAXMIN: of all the values, 0 if there are none; sign is 1 for the largest and
\* -1 for the smallest.
Extreme(sign) ==
    IF size = 0 THEN 0
    ELSE CHOOSE v \in ToSet(ring.data) : \A w \in ToSet(ring.data) : sign * w <= sign * v
ArrayMax == Extreme(1)
ArrayMin == Extreme(-1)

\* Ptr() fills an array of an indicator with the first len values, for an indicator.
Filled(len) ==
    [l \in 1..(IF len < size THEN len ELSE size) |->
        ring.data[((ring.cur + l - 1) % size) + 1]]

\* Variance(): in one pass, the difference of each value to the sum so far; a
\* fraction, as all the denominators divide size!.
Variance(values) ==
    LET n == Len(values)
        unit == ProductSet(1..n)
        Until(i) == SumFunctionOnSet(values, 1..i)
        Diff(i) == i * values[i] - Until(i)
    IN  [num |-> SumFunction([i \in 2..n |->
                    Diff(i) * Diff(i) * (unit \div (i * (i - 1)))]),
         den |-> unit * (n - 1)]

\* Stdev(): of the window, from the cursor on.
Stdev == Variance(Filled(size))

-----------------------------------------------------------------------------
(* Properties. *)

\* Types; but for arrays that were resized, the cursor is inside the vector, and
\* add() writes there.
ArraysTypeOK ==
    /\ ring.data \in Seq(Nat) /\ ring.length \in Lengths \cup {0}
    /\ ring.pos \in Nat /\ ring.cur \in Nat
    /\ inOrder => /\ size <= ring.length
                  /\ size > 0 => ring.cur < size

W == INSTANCE Window WITH
        window <- Contents, length <- ring.length, ordered <- inOrder

\* The ring shows the last values in the order they were added, as long as it has
\* not been padded while partly filled or resized.
ImplementsWindow == W!WindowSpec

\* Sum() of a full window adds up its oldest values.
SumsTheOldest ==
    inOrder /\ size > 0 /\ size = ring.length =>
        \A p \in 1..size :
            Sum(p) = SumFunctionOnSet(Contents, 1..p)

\* The newest value is the last one.
NewestIsLast ==
    [][\A v \in Values : ArrayAdd(v) => Contents'[size'] = v]_arraysVars

\* The indicators get the window as get() shows it, its bounds are those of the
\* window, and what Stdev() adds up in one pass is the variance.
ReadsWindow ==
    size > 0 =>
        LET n == size
            all == SumFunction(Contents)
            squares == SumFunction([i \in 1..n |-> Contents[i] * Contents[i]])
        IN  /\ \A len \in 0..n : Filled(len) = SubSeq(Contents, 1, len)
            /\ \A i \in 1..n : ArrayMin <= Contents[i] /\ Contents[i] <= ArrayMax
            /\ n > 1 => n * (n - 1) * Stdev.num = (n * squares - all * all) * Stdev.den

\* The cursor and the window hold together, and the scripts read them so.
ArraysInv == ArraysTypeOK /\ SumsTheOldest /\ ReadsWindow
=============================================================================
