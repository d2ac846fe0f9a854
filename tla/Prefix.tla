------------------------------ MODULE Prefix ------------------------------
(***************************************************************************)
(* evaluate of note-3.js (src/CS-61A/src/notes/note-3.js): the prefix      *)
(* (Polish) notation calculator.  The loop scans the input from its last  *)
(* character to its first with an operand stack, one iteration per step; *)
(* after the loop the call returns stack[0], with no check.  JS numbers   *)
(* and the operators are those of module JSNumbers.                        *)
(***************************************************************************)
EXTENDS JSNumbers

CONSTANTS
  Chars,    \* the characters input strings are made of
  MaxLen,   \* the longest input string
  Tests     \* longer strings evaluated by note-3.js's tests

Running == [running |-> TRUE]

VARIABLES string, cursor, stack, result

vars == <<string, cursor, stack, result>>

Inputs == UNION {[1..n -> Chars] : n \in 0..MaxLen}

(* var stack = []; cursor = exp.length.                                    *)
Init ==
  /\ string \in Inputs \cup Tests
  /\ cursor = Len(string)
  /\ stack = <<>>
  /\ result = Running

(* Mutant: the right operand is popped first.                              *)
IterationSwapped ==
  /\ cursor > 0
  /\ LET current == string[cursor] IN
       CASE current \in Digits        -> stack' = Append(stack, [str |-> current])
         [] current \in OperatorChars ->
              LET rightOperand == ToNumber(Top(stack))
                  leftOperand  == ToNumber(Top(Drop(stack)))
              IN stack' = Append(Drop(Drop(stack)), Operate(current, leftOperand, rightOperand))
         [] OTHER                     -> stack' = stack
  /\ cursor' = cursor - 1
  /\ UNCHANGED <<string, result>>

(* Mutant: every character that is not a space is pushed as an operand.   *)
IterationPushAll ==
  /\ cursor > 0
  /\ LET current == string[cursor] IN
       CASE current # " " -> stack' = Append(stack, [str |-> current])
         [] OTHER         -> stack' = stack
  /\ cursor' = cursor - 1
  /\ UNCHANGED <<string, result>>

(* One pass of "for (cursor = exp.length; cursor--;)" over exp[cursor]:    *)
(* push a digit; for an operator pop the left operand, then the right     *)
(* one, and push operators[current](left, right); skip anything else       *)
(* (spaces, parentheses).                                                  *)
Iteration ==
  /\ cursor > 0
  /\ LET current == string[cursor] IN
       CASE current \in Digits        -> stack' = Append(stack, [str |-> current])
         [] current \in OperatorChars ->
              LET leftOperand  == ToNumber(Top(stack))
                  rightOperand == ToNumber(Top(Drop(stack)))
              IN stack' = Append(Drop(Drop(stack)), Operate(current, leftOperand, rightOperand))
         [] OTHER                     -> stack' = stack
  /\ cursor' = cursor - 1
  /\ UNCHANGED <<string, result>>

(* Mutant: the top of the stack is returned.                              *)
ReturnResultTop ==
  /\ cursor = 0
  /\ result = Running
  /\ result' = IF stack = <<>> THEN [js |-> "undefined"] ELSE stack[Len(stack)]
  /\ UNCHANGED <<string, cursor, stack>>

(* return stack[0]: the bottom of the stack, undefined when it is empty.  *)
ReturnResult ==
  /\ cursor = 0
  /\ result = Running
  /\ result' = IF stack = <<>> THEN [js |-> "undefined"] ELSE stack[1]
  /\ UNCHANGED <<string, cursor, stack>>

(* The call has returned.                                                  *)
Done ==
  /\ result # Running
  /\ UNCHANGED vars

Next == Iteration \/ ReturnResult \/ Done

Spec == Init /\ [][Next]_vars /\ WF_vars(Next)

-----------------------------------------------------------------------------
(* Reference semantics of prefix notation, from the grammar               *)
(*   E ::= digit | op E E                                                  *)
(* read from the left.  Characters other than digits and operators        *)
(* separate tokens.                                                        *)

Tokens(s) == SelectSeq(s, LAMBDA c : c \in Digits \cup OperatorChars)

Fail == [ok |-> FALSE, val |-> NaN, rest |-> <<>>]

RECURSIVE Tree(_)
Tree(ts) ==
  IF ts = <<>> THEN Fail
  ELSE LET t == Head(ts) IN
       IF t \in Digits THEN [ok |-> TRUE, val |-> Rat(DigitValue[t], 1), rest |-> Tail(ts)]
       ELSE LET l == Tree(Tail(ts))
                r == Tree(l.rest)
            IN IF l.ok /\ r.ok
               THEN [ok |-> TRUE, val |-> Operate(t, l.val, r.val), rest |-> r.rest]
               ELSE Fail

(* The values of the complete expressions ts is a sequence of, in order.  *)
RECURSIVE Forest(_)
Forest(ts) ==
  IF ts = <<>> THEN [ok |-> TRUE, vals |-> <<>>]
  ELSE LET t == Tree(ts)
           f == Forest(t.rest)
       IN IF t.ok /\ f.ok THEN [ok |-> TRUE, vals |-> <<t.val>> \o f.vals]
          ELSE [ok |-> FALSE, vals |-> <<>>]

-----------------------------------------------------------------------------
(* Type invariant: the operand stack holds digit strings and numbers.     *)
TypeOK ==
  /\ \/ string \in Tests
     \/ Len(string) <= MaxLen /\ \A i \in 1..Len(string) : string[i] \in Chars
  /\ cursor \in 0..Len(string)
  /\ \A i \in 1..Len(stack) : stack[i] \in [str : Digits] \/ IsNumber(stack[i])
  /\ result = Running \/ result = [js |-> "undefined"]
     \/ result \in [str : Digits] \/ IsNumber(result)

(* The loop invariant of evaluate: while the characters scanned so far    *)
(* (a suffix of the input) form a sequence of complete prefix             *)
(* expressions, the stack holds their values with the first expression on *)
(* top, so that the next operator pops its left operand first.            *)
StackInvariant ==
  LET f == Forest(Tokens(SubSeq(string, cursor + 1, Len(string))))
  IN f.ok => [i \in 1..Len(stack) |-> ToNumber(stack[Len(stack) + 1 - i])] = f.vals

(* evaluate returns, for every input that is a sequence of one or more   *)
(* complete prefix expressions (parenthesized or not), the value of the   *)
(* last one: return stack[0] takes, with no check, the bottom of the       *)
(* stack, where the first value computed from the right lies.  For a       *)
(* single expression this is its value; for "+ 15 2" it is 2.  (As a      *)
(* number once converted: a lone digit is returned as the string it was   *)
(* pushed as.)                                                             *)
PrefixResult ==
  LET f == Forest(Tokens(string)) IN
  result # Running /\ f.ok /\ f.vals # <<>> => ToNumber(result) = f.vals[Len(f.vals)]

=============================================================================
