----------------------------- MODULE BigNumber ------------------------------
(****************************************************************************)
(* The fixed-point numbers of BigNumber.cpp.  A number is a long that counts *)
(* units of 1/deci; the file of quotes is read into them (Tunnel.cpp).  What *)
(* is merged is scaled by deci, but the constructor from a long takes it as   *)
(* it is; an operation on two numbers is one on their longs, whatever their   *)
(* scales, and what it returns has the default scale.                       *)
(*                                                                          *)
(* Values are integers that count hundredths, so that with a deci of 10 some  *)
(* have too many digits.                                                    *)
(****************************************************************************)
EXTENDS Integers

CONSTANTS Amounts,      \* the operands but for their signs, in hundredths
          Deci,         \* NUMBER_DECI: 10^_scale
          MaxOperations \* bound of the operations of a behaviour

ASSUME BigNumberAssumption == Amounts \subseteq Nat /\ Deci \in {1, 10, 100}

Operands == Amounts \cup {-v : v \in Amounts}

Kinds == {"long", "double", "float", "string"}

VARIABLES big,          \* the number: long, deci, whether it is one
          exact,        \* history: what it should be, in hundredths; its
          lossy,        \*          operands that may have lost a unit;
          power,        \*          how often deci is a factor of it, -1
                        \*          once scales were mixed
          operations    \* how many there were

bigVars == <<big, exact, lossy, power, operations>>

Abs(n) == IF n < 0 THEN -n ELSE n
Sign(n) == IF n < 0 THEN -1 ELSE 1
\* Divisions of C++ round towards zero.
Quotient(a, b) == Sign(a) * Sign(b) * (Abs(a) \div Abs(b))
Remainder(a, b) == a - b * Quotient(a, b)

BigNumberInit ==
    /\ big = [number |-> 0, deci |-> Deci, isNumber |-> TRUE]
    /\ exact = 0 /\ lossy = 0 /\ power = 1 /\ operations = 0

-----------------------------------------------------------------------------
(* merge...(): the long that a value becomes.  All but a long is multiplied in  *)
(* floating point: what is not whole may come out just below.               *)

Whole(v) == v % 100 = 0

Inexact(v, deci) ==
    LET n == Quotient(v * deci, 100)
    IN  IF Whole(v) \/ (v * deci) % 100 # 0 THEN {n} ELSE {n, n - Sign(n)}

\* A slip: it forgets the scale.
UnscaledMerge(kind, v, deci) == {Quotient(v, 100)}

Merge(kind, v, deci) ==
    IF kind = "long" THEN {Quotient(v * deci, 100)} ELSE Inexact(v, deci)

\* What may be written as a value of the kind.
Written(kind, v) == kind = "long" => Whole(v)

MayLose(kind, v) == IF kind # "long" /\ ~Whole(v) THEN 1 ELSE 0

-----------------------------------------------------------------------------

Count == operations < MaxOperations /\ operations' = operations + 1

\* operator=(): the value replaces the number, at the scale it has.
Assign(kind, v) ==
    /\ Count /\ Written(kind, v)
    /\ \E n \in Merge(kind, v, big.deci) :
         big' = [big EXCEPT !.number = n, !.isNumber = TRUE]
    /\ exact' = v /\ lossy' = MayLose(kind, v)
    /\ power' = IF big.deci = Deci THEN 1 ELSE -1

\* mergeString() of a text that is no number.
AssignText ==
    /\ Count
    /\ big' = [big EXCEPT !.number = 0, !.isNumber = FALSE]
    /\ exact' = 0 /\ lossy' = 0 /\ power' = 1

\* SELF and OPERATOR: what an operation returns has the default scale and is a
\* number.
Returned(n) == [number |-> n, deci |-> Deci, isNumber |-> TRUE]

\* operator+ and operator-, operator* of the longs.
Plus(n) == Returned(big.number + n)
Times(n) == Returned(big.number * n)

\* operator+= and operator-=: of the numbers merged at the default scale.
Add(kind, sign, v) ==
    /\ Count /\ Written(kind, v)
    /\ \E n \in Merge(kind, v, Deci) : big' = Plus(sign * n)
    /\ exact' = exact + sign * v /\ lossy' = lossy + MayLose(kind, v)
    /\ power' = IF power = 1 THEN 1 ELSE -1

\* operator*=, with a long or another number.
Multiply(v) ==
    /\ Count /\ Whole(v)
    /\ \E n \in Merge("long", v, Deci) : big' = Times(n)
    /\ exact' = exact * (v \div 100) /\ lossy' = lossy * Abs(v \div 100)
    /\ power' = IF power = 1 THEN 2 ELSE -1

\* operator/=: the factor of the divisor goes.
Divide(v) ==
    /\ Count /\ Whole(v) /\ v # 0
    /\ \E n \in Merge("long", v, Deci) : big' = Returned(Quotient(big.number, n))
    /\ exact' = Quotient(exact, v \div 100) /\ lossy' = lossy + 1
    /\ power' = IF power > 0 THEN power - 1 ELSE -1

\* operator%=
Modulo(v) ==
    /\ Count /\ Whole(v) /\ v # 0
    /\ \E n \in Merge("long", v, Deci) : big' = Returned(Remainder(big.number, n))
    /\ exact' = Remainder(exact, v) /\ UNCHANGED lossy
    /\ power' = IF power = 1 /\ lossy = 0 THEN 1 ELSE -1

\* setScale(): what the number counts changes, the number does not.
SetScale(deci) ==
    /\ Count
    /\ big' = [big EXCEPT !.deci = deci]
    /\ power' = IF big.number = 0 /\ exact = 0 THEN power ELSE -1
    /\ UNCHANGED <<exact, lossy>>

BigNumberNext ==
    \/ \E v \in Operands :
         \/ \E kind \in Kinds : \/ Assign(kind, v)
                                \/ \E sign \in {1, -1} : Add(kind, sign, v)
         \/ Multiply(v) \/ Divide(v) \/ Modulo(v)
    \/ AssignText
    \/ \E deci \in {1, 10, 100} : SetScale(deci)

BigNumberSpec == BigNumberInit /\ [][BigNumberNext]_bigVars

-----------------------------------------------------------------------------
(* What is read. *)

\* Int64Value(): in whole units.
Int64Value == IF big.isNumber THEN Quotient(big.number, big.deci) ELSE 0

\* What the comparisons compare with: the long of a number constructed from the
\* value, which for a long is the value itself.
Compared(kind, v) == IF kind = "long" THEN {v \div 100} ELSE Merge(kind, v, Deci)

-----------------------------------------------------------------------------
(* Properties. *)

\* Over sums, differences and remainders a number stays within a unit per operand
\* that could not be exact; a product has the factor once more, a quotient once less.
StaysClose ==
    power >= 0 =>
        LET factor == <<1, Deci, Deci * Deci>>[power + 1]
            unit   == IF power = 2 THEN Deci ELSE 1
        IN  Abs(100 * big.number - exact * factor) <= 100 * lossy * unit

\* Of exact numbers, the whole part is read, and the comparisons agree with what the
\* numbers stand for: with anything but a long, which is not scaled.
ReadsExactly ==
    power = 1 /\ lossy = 0 =>
        /\ big.isNumber => Int64Value = Quotient(exact, 100)
        /\ \A kind \in Kinds \ {"long"}, v \in Operands :
             Whole(v) =>
                 \A n \in Compared(kind, v) : /\ (big.number < n) = (exact < v)
                                              /\ (big.number = n) = (exact = v)

\* The numbers of the quotes stay what was read, however they are put together.
NumbersInv == StaysClose /\ ReadsExactly
=============================================================================
