------------------------------ MODULE JSNumbers ------------------------------
(***************************************************************************)
(* The JS numbers of the stack calculators (postfixEval of                 *)
(* src/unnamed/part_000 and evaluate of note-3.js) and the operations they *)
(* apply: one-digit operand strings, unary +, the four operators and      *)
(* Array.prototype.pop.                                                    *)
(*                                                                         *)
(* JS numbers are exact rationals [q |-> <<n, d>>] (d > 0, reduced), plus *)
(* the infinities [inf |-> 1] and [inf |-> -1] and NaN.  A reference      *)
(* evaluator that performs the same operations on the same operands       *)
(* rounds the same way as the code, so exact arithmetic decides equality  *)
(* of the two as floating point would.  -0 is not told apart from 0.      *)
(* The characters pushed on a stack are the strings [str |-> ch].          *)
(***************************************************************************)
EXTENDS Integers, Sequences

Digits == {"0", "1", "2", "3", "4", "5", "6", "7", "8", "9"}
DigitValue == [c \in Digits |-> CHOOSE n \in 0..9 :
                 c = <<"0","1","2","3","4","5","6","7","8","9">>[n + 1]]

NaN == [nan |-> TRUE]
Inf(s) == [inf |-> s]

RECURSIVE GCD(_, _)
GCD(a, b) == IF b = 0 THEN a ELSE GCD(b, a % b)

AbsVal(n) == IF n < 0 THEN -n ELSE n

(* n / d as a reduced rational, d # 0.                                     *)
Rat(n, d) ==
  LET g == GCD(AbsVal(n), AbsVal(d))
      s == IF d < 0 THEN -1 ELSE 1
  IN [q |-> <<s * (n \div g), s * (d \div g)>>]

IsRat(v) == "q" \in DOMAIN v
IsInf(v) == "inf" \in DOMAIN v
Sign(v)  == IF IsInf(v) THEN v.inf ELSE IF v.q[1] < 0 THEN -1 ELSE 1
IsZero(v) == IsRat(v) /\ v.q[1] = 0

(* The unary + of "+stack.pop()": a digit string becomes its number, and *)
(* the undefined popped from an empty array becomes NaN.                   *)
ToNumber(v) ==
  CASE v = [js |-> "undefined"] -> NaN
    [] "str" \in DOMAIN v         -> Rat(DigitValue[v.str], 1)
    [] OTHER                      -> v

(* The functions of the operators object (both files), on JS numbers.     *)
Operate(op, a, b) ==
  CASE a = NaN \/ b = NaN -> NaN
    [] op = "+" -> CASE IsInf(a) /\ IsInf(b) -> IF a = b THEN a ELSE NaN
                     [] IsInf(a) -> a
                     [] IsInf(b) -> b
                     [] OTHER -> Rat(a.q[1] * b.q[2] + b.q[1] * a.q[2], a.q[2] * b.q[2])
    [] op = "-" -> CASE IsInf(a) /\ IsInf(b) -> IF a # b THEN a ELSE NaN
                     [] IsInf(a) -> a
                     [] IsInf(b) -> Inf(-b.inf)
                     [] OTHER -> Rat(a.q[1] * b.q[2] - b.q[1] * a.q[2], a.q[2] * b.q[2])
    [] op = "*" -> CASE (IsInf(a) \/ IsInf(b)) /\ (IsZero(a) \/ IsZero(b)) -> NaN
                     [] IsInf(a) \/ IsInf(b) -> Inf(Sign(a) * Sign(b))
                     [] OTHER -> Rat(a.q[1] * b.q[1], a.q[2] * b.q[2])
    [] op = "/" -> CASE IsInf(a) /\ IsInf(b) -> NaN
                     [] IsInf(a)  -> Inf(Sign(a) * Sign(b))
                     [] IsInf(b)  -> Rat(0, 1)
                     [] IsZero(b) -> IF IsZero(a) THEN NaN ELSE Inf(Sign(a))
                     [] OTHER -> Rat(a.q[1] * b.q[2], a.q[2] * b.q[1])

OperatorChars == {"+", "-", "*", "/"}

(* stack.pop(): the last element, undefined when the stack is empty.       *)
Top(s)  == IF s = <<>> THEN [js |-> "undefined"] ELSE s[Len(s)]
Drop(s) == IF s = <<>> THEN s ELSE SubSeq(s, 1, Len(s) - 1)

IsNumber(v) == IsRat(v) \/ IsInf(v) \/ v = NaN

=============================================================================
