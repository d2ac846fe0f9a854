------------------------------ MODULE ParseCall ------------------------------
(***************************************************************************)
(* One call of parse (note-2.js) on a string the caller can pass: the      *)
(* strings of the note's and lesson 5's scripts, and every short string of *)
(* a small alphabet.  The result is checked against the s-expression       *)
(* reading of the string: an atom is a number when it is all digits and a *)
(* string otherwise, a parenthesised list is an array.                     *)
(***************************************************************************)
EXTENDS Parser
LOCAL INSTANCE SequencesExt
LOCAL INSTANCE JSNumbers

CONSTANT Inputs  \* the strings passed to parse

VARIABLES string, result
vars == <<string, result>>

Running == [running |-> TRUE]

Init == string \in Inputs /\ result = Running

Call == result = Running /\ result' = parse(string) /\ UNCHANGED string

Done == result # Running /\ UNCHANGED vars

Next == Call \/ Done

Spec == Init /\ [][Next]_vars

-----------------------------------------------------------------------------
(* The s-expression reading.  A token is a parenthesis or an atom, a       *)
(* maximal run of glyphs that are neither white space nor parentheses.     *)
RECURSIVE SExprTokens(_)
SExprTokens(s) ==
  CASE s = <<>>             -> <<>>
    [] Head(s) = Space      -> SExprTokens(Tail(s))
    [] Head(s) \in {"(", ")"} -> <<<<Head(s)>>>> \o SExprTokens(Tail(s))
    [] OTHER -> LET n == RunNotIn(s, {Space, "(", ")"})
                IN <<SubSeq(s, 1, n)>> \o SExprTokens(After(s, n))

AllDigits(a) == a # <<>> /\ \A i \in DOMAIN a : a[i] \in Digits

AtomValue(a) == IF AllDigits(a) THEN Num(DecimalValue(a)) ELSE Str(Join(a))

RECURSIVE Datum(_), DatumList(_, _)
Datum(ts) ==
  CASE ts = <<>> \/ Head(ts) = <<")">> -> Fail
    [] Head(ts) = <<"(">>              -> DatumList(Tail(ts), <<>>)
    [] OTHER                           -> Ok(AtomValue(Head(ts)), Tail(ts))
DatumList(ts, vals) ==
  CASE ts = <<>>             -> Fail
    [] Head(ts) = <<")">>    -> Ok(Arr(vals), Tail(ts))
    [] OTHER -> LET d == Datum(ts)
                IN IF d.ok THEN DatumList(d.rest, Append(vals, d.tree)) ELSE Fail

WellFormed(s) == LET d == Datum(SExprTokens(s)) IN d.ok /\ d.rest = <<>>

(* The readings of a string of s-expressions one after the other; Fail in *)
(* place of the rest when one of them is not well formed.                  *)
RECURSIVE DatumSeq(_)
DatumSeq(ts) ==
  CASE ts = <<>> -> <<>>
    [] OTHER     -> LET d == Datum(ts)
                    IN IF d.ok THEN <<d.tree>> \o DatumSeq(d.rest) ELSE <<Fail>>

(* s is two or more well-formed s-expressions in a row.                     *)
Several(s) ==
  LET ds == DatumSeq(SExprTokens(s))
  IN Len(ds) >= 2 /\ \A i \in DOMAIN ds : ds[i] # Fail
Reference(s)  == Datum(SExprTokens(s)).tree

(* s is written the way the notes write s-expressions: tokens apart by one *)
(* space, with none after "(" and none before ")".                          *)
Canonical(s) ==
  LET ts == SExprTokens(s)
      Gap(i) == IF i = 1 \/ ts[i - 1] = <<"(">> \/ ts[i] = <<")">> THEN <<>> ELSE <<Space>>
  IN s = FlattenSeq([i \in 1..Len(ts) |-> Gap(i) \o ts[i]])

(* No atom mixes digits with other glyphs.                                *)
PlainAtoms(s) ==
  LET ts == SExprTokens(s)
  IN \A i \in DOMAIN ts : AllDigits(ts[i]) \/ \A j \in DOMAIN ts[i] : ts[i][j] \notin Digits

-----------------------------------------------------------------------------
RECURSIVE IsResult(_)
IsResult(v) ==
  \/ v \in {JSUndefined, NaN} \cup {Throw(k) : k \in {"SyntaxError", "ReferenceError", "TypeError"}}
  \/ IsNum(v) /\ v.num \in Nat
  \/ IsStr(v) /\ v.str \in STRING
  \/ IsArr(v) /\ \A i \in DOMAIN v.arr : IsResult(v.arr[i])

(* parse returns a number, a string, undefined, NaN, an array of these, or *)
(* throws an exception of eval: the text the rewrites produce is always    *)
(* made of brackets, commas, quotes, numerals and identifiers.             *)
ParseTypeOK == result = Running \/ IsResult(result)

(* Every string written the way the notes write s-expressions, whose atoms *)
(* are numerals or names without digits, is parsed to its s-expression:   *)
(* the four rewrites of parse and eval together turn each list into an    *)
(* array, each numeral into a number and each name into a string.          *)
ParseCorrect ==
  result # Running /\ WellFormed(string) /\ Canonical(string) /\ PlainAtoms(string)
    => result = Reference(string)

(* A misreading of a well-formed s-expression with plain atoms, whatever  *)
(* its layout, is never silent: parse returns its reading, throws, or      *)
(* returns an array with undefined in it.  A space after "(" or before a   *)
(* closing ")" becomes an elision (a hole, read as undefined) or a         *)
(* trailing comma; an atom written against a "(" is an identifier or      *)
(* number followed by a property access.                                    *)
RECURSIVE HasUndefined(_)
HasUndefined(v) == v = JSUndefined \/ (IsArr(v) /\ \E i \in DOMAIN v.arr : HasUndefined(v.arr[i]))

ParseMisreadsVisibly ==
  result # Running /\ WellFormed(string) /\ PlainAtoms(string)
    => result = Reference(string) \/ IsThrow(result) \/ HasUndefined(result)

(* An atom mixing digits with other characters ("x1") has no reading, and *)
(* parse never gives it one: such an atom alone is NaN (isVariable takes  *)
(* it and Number fails), and inside a list the quoting stops at the digit,*)
(* so eval meets an identifier it cannot resolve or a literal next to a   *)
(* literal, and throws.                                                     *)
ParseMixedAtomsFail ==
  result # Running /\ WellFormed(string) /\ ~PlainAtoms(string)
    => result = NaN \/ IsThrow(result)

(* parse is written for one s-expression.  Given several in a row it      *)
(* returns the reading of the LAST one, and gives no sign of the others:  *)
(* the spaces between them become commas and eval reads a comma           *)
(* expression.  The one exception is a last s-expression that is a bare  *)
(* name: nothing follows it, so the quoting lookahead leaves it unquoted  *)
(* and eval throws a ReferenceError.  "x 1" is 1, "(x) (1)" is [1].        *)
ParseSeveralGivesLast ==
  result # Running /\ Several(string) /\ Canonical(string) /\ PlainAtoms(string)
    => LET ts == SExprTokens(string)
       IN IF Last(ts) # <<")">> /\ ~AllDigits(Last(ts))
          THEN result = Throw("ReferenceError")
          ELSE result = Last(DatumSeq(ts))

=============================================================================
