----------------------------- MODULE Fractions -----------------------------
(***************************************************************************)
(* The scores and confidences of the verification code are floating-point  *)
(* numbers between 0 and 1. Here they are integers between 0 and One. One  *)
(* is a multiple of 60 * 1000, so that thousandths and the means of up to  *)
(* six of them are exact; products are rounded down to thousandths.        *)
(***************************************************************************)
EXTENDS Integers, Sequences, FiniteSetsExt, Functions

CONSTANT NoMeasure  \* None in the code
ASSUME NoMeasureAssumption == NoMeasure \notin Int
Known(x) == x # NoMeasure
Maybe(S) == S \cup {NoMeasure}

One == 60000
Pct(p) == 600 * p
Score == 0..One

AtLeast(a, b) == IF a >= b THEN a ELSE b
AtMost(a, b) == IF a <= b THEN a ELSE b
Clamp(x) == AtLeast(0, AtMost(One, x))
AbsOf(x) == IF x >= 0 THEN x ELSE -x

(* The product of two scores, and p hundredths of one. *)
Times(a, b) == ((a \div 60) * (b \div 60) * 6) \div 100
Part(p, x) == (p * x) \div 100

(* The mean of a family of scores, its greatest and its least member. *)
Mean(s) == SumFunction(s) \div Cardinality(DOMAIN s)
Greatest(s) == Max(Range(s))
Least(s) == Min(Range(s))

(* The score that falls from 'high' at 'from' to 'low' at 'to'. *)
Slope(x, from, to, high, low) == high - ((high - low) * (x - from)) \div (to - from)

(* The members of a sequence at certain positions, and those that pass a  *)
(* test, in order.                                                         *)
Picked(s, positions) ==
    [k \in 1..Cardinality(positions) |->
        s[CHOOSE i \in positions : Cardinality({j \in positions : j <= i}) = k]]
Passing(s, Test(_)) == Picked(s, {i \in DOMAIN s : Test(s[i])})

(* The integer part of a square root, for numbers up to 100 * 100. *)
Sqrt(n) == CHOOSE r \in 0..100 : r * r <= n /\ n < (r + 1) * (r + 1)
=============================================================================
