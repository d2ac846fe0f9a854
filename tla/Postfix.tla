------------------------------ MODULE Postfix ------------------------------
(***************************************************************************)
(* postfixEval (src/unnamed/part_000): the loop over the characters of the *)
(* input string with an operand stack, one iteration per step, and the     *)
(* check after the loop.                                                   *)
(*                                                                         *)
(* JS numbers and the operators are those of module JSNumbers.           *)
(***************************************************************************)
EXTENDS JSNumbers

CONSTANTS
  Chars,    \* the characters input strings are made of
  MaxLen,   \* the longest input string
  Tests     \* longer strings postfixEval is called on by the file's tests

Running   == [running |-> TRUE]
ParseError == [thrown |-> "ParseError"]

VARIABLES string, k, stack, result

vars == <<string, k, stack, result>>

Inputs == UNION {[1..n -> Chars] : n \in 0..MaxLen}

Init ==
  /\ string \in Inputs \cup Tests
  /\ k = 0
  /\ stack = <<>>
  /\ result = Running

(* Mutant: the two operands are popped in the wrong order.                 *)
IterationSwapped ==
  /\ k < Len(string)
  /\ LET ch == string[k + 1] IN
       CASE ch \in Digits        -> stack' = Append(stack, [str |-> ch])
         [] ch \in OperatorChars ->
              LET a == ToNumber(Top(stack))
                  b == ToNumber(Top(Drop(stack)))
              IN stack' = Append(Drop(Drop(stack)), Operate(ch, a, b))
         [] OTHER                -> stack' = stack
  /\ k' = k + 1
  /\ UNCHANGED <<string, result>>

(* Mutant: every character that is not a space is pushed as an operand.   *)
IterationPushAll ==
  /\ k < Len(string)
  /\ LET ch == string[k + 1] IN
       CASE ch # " "             -> stack' = Append(stack, [str |-> ch])
         [] OTHER                -> stack' = stack
  /\ k' = k + 1
  /\ UNCHANGED <<string, result>>

(* One pass of the for loop over string[k]: push a digit; for an operator *)
(* pop b, then a, and push operators[ch](a, b); skip anything else.        *)
Iteration ==
  /\ k < Len(string)
  /\ LET ch == string[k + 1] IN
       CASE ch \in Digits        -> stack' = Append(stack, [str |-> ch])
         [] ch \in OperatorChars ->
              LET b == ToNumber(Top(stack))
                  a == ToNumber(Top(Drop(stack)))
              IN stack' = Append(Drop(Drop(stack)), Operate(ch, a, b))
         [] OTHER                -> stack' = stack
  /\ k' = k + 1
  /\ UNCHANGED <<string, result>>

(* Mutant: the check after the loop rejects a stack of one value.          *)
ReturnResultOffByOne ==
  /\ k = Len(string)
  /\ result = Running
  /\ result' = IF Len(stack) >= 1 THEN ParseError
               ELSE IF stack = <<>> THEN [js |-> "undefined"] ELSE stack[1]
  /\ UNCHANGED <<string, k, stack>>

(* Mutant: the check after the loop lets a stack of two values through.   *)
ReturnResultLenTwo ==
  /\ k = Len(string)
  /\ result = Running
  /\ result' = IF Len(stack) > 2 THEN ParseError
               ELSE IF stack = <<>> THEN [js |-> "undefined"] ELSE stack[1]
  /\ UNCHANGED <<string, k, stack>>

(* After the loop: throw when more than one value is left, else return     *)
(* stack[0] (undefined for an empty stack).                                *)
ReturnResult ==
  /\ k = Len(string)
  /\ result = Running
  /\ result' = IF Len(stack) > 1 THEN ParseError
               ELSE IF stack = <<>> THEN [js |-> "undefined"] ELSE stack[1]
  /\ UNCHANGED <<string, k, stack>>

(* The call has returned or thrown.                                        *)
Done ==
  /\ result # Running
  /\ UNCHANGED vars

Next == Iteration \/ ReturnResult \/ Done

Spec == Init /\ [][Next]_vars /\ WF_vars(Next)

-----------------------------------------------------------------------------
(* Reference semantics of postfix notation, from the grammar              *)
(*   E ::= digit | E E op                                                  *)
(* read from the right: the last token is the root, its right operand the *)
(* expression ending just before it, its left operand the one before that.*)
(* Characters other than digits and operators separate tokens.             *)

Tokens(s) == SelectSeq(s, LAMBDA c : c \in Digits \cup OperatorChars)

Fail == [ok |-> FALSE, val |-> NaN, rest |-> <<>>]

RECURSIVE Tree(_)
Tree(ts) ==
  IF ts = <<>> THEN Fail
  ELSE LET t     == ts[Len(ts)]
           front == SubSeq(ts, 1, Len(ts) - 1)
       IN IF t \in Digits THEN [ok |-> TRUE, val |-> Rat(DigitValue[t], 1), rest |-> front]
          ELSE LET r == Tree(front)
                   l == Tree(r.rest)
               IN CASE ~r.ok -> Fail
                    [] ~l.ok -> Fail
                    [] OTHER -> [ok |-> TRUE, val |-> Operate(t, l.val, r.val), rest |-> l.rest]

(* The values of the complete expressions ts is a sequence of, in order.  *)
RECURSIVE Forest(_)
Forest(ts) ==
  IF ts = <<>> THEN [ok |-> TRUE, vals |-> <<>>]
  ELSE LET t == Tree(ts)
           f == Forest(t.rest)
       IN IF t.ok /\ f.ok THEN [ok |-> TRUE, vals |-> Append(f.vals, t.val)]
          ELSE [ok |-> FALSE, vals |-> <<>>]

WellFormed(s) == Forest(Tokens(s)).ok /\ Len(Forest(Tokens(s)).vals) = 1

Reference(s) == Forest(Tokens(s)).vals[1]

-----------------------------------------------------------------------------
(* Type invariant: the operand stack holds digit strings and numbers.     *)
TypeOK ==
  /\ \/ string \in Tests
     \/ Len(string) <= MaxLen /\ \A i \in 1..Len(string) : string[i] \in Chars
  /\ k \in 0..Len(string)
  /\ \A i \in 1..Len(stack) : stack[i] \in [str : Digits] \/ IsNumber(stack[i])
  /\ result = Running \/ result = ParseError \/ result = [js |-> "undefined"]
     \/ result \in [str : Digits] \/ IsNumber(result)

(* The loop invariant of postfixEval: while the characters read so far    *)
(* form a sequence of complete postfix expressions, the stack holds their *)
(* values, first expression at the bottom (pop order and operand order of *)
(* the operator step).                                                     *)
StackInvariant ==
  LET f == Forest(Tokens(SubSeq(string, 1, k)))
  IN f.ok => [i \in 1..Len(stack) |-> ToNumber(stack[i])] = f.vals

(* postfixEval returns, for a well-formed postfix expression, the value  *)
(* of the reference semantics (as a number once converted: a lone digit  *)
(* is returned as the string it was pushed as).                            *)
PostfixCorrect ==
  result # Running /\ WellFormed(string) =>
    /\ result # ParseError
    /\ ToNumber(result) = Reference(string)

(* s read with numbers of several digits: every digit that follows a     *)
(* digit dropped, so that each number is one operand.                      *)
OneDigitPerNumber(s) ==
  LET kept == SelectSeq([i \in 1..Len(s) |-> i],
                        LAMBDA i : ~(i > 1 /\ s[i] \in Digits /\ s[i - 1] \in Digits))
  IN [j \in 1..Len(kept) |-> s[kept[j]]]

HasMultiDigitNumber(s) == \E i \in 1..Len(s) - 1 : s[i] \in Digits /\ s[i + 1] \in Digits

(* Each character is a token, so a number of two digits is two operands. *)
(* A postfix expression with such a number, well-formed when its numbers  *)
(* are read whole, is never silently misread: the extra operands are left *)
(* on the stack, and the check after the loop throws ("12 3 +" leaves 1   *)
(* and 5).                                                                 *)
MultiDigitRejected ==
  result # Running /\ HasMultiDigitNumber(string) /\ WellFormed(OneDigitPerNumber(string))
    => result = ParseError

(* postfixEval rejects every input that is not a postfix expression: it   *)
(* throws rather than return a value.                                      *)
RejectsMalformed ==
  result # Running /\ ~WellFormed(string) => result = ParseError

=============================================================================
