------------------------------- MODULE MCNotes -------------------------------
(***************************************************************************)
(* The four small programs beside the interpreters, each checked against  *)
(* its reference: postfixEval (module Postfix) and the prefix evaluate of *)
(* note-3.js (module Prefix) against the reference semantics of their     *)
(* notations, parse of note-2.js (module ParseCall) against the reading  *)
(* of s-expressions, and the efficient pair/list of note-3.js (module     *)
(* ListsV2) against the linked one (module ListsV1).  The variable note, chosen    *)
(* once at the start, says which program runs; the variables of the       *)
(* others keep their initial values.                                       *)
(***************************************************************************)
EXTENDS Integers, Sequences, SExprTexts

CONSTANTS
  Chars, MaxLen,                 \* inputs of the calculators
  Glyphs, ParseMaxLen,           \* the short strings passed to parse
  ListArities, MaxHeap           \* the client of the pair functions

VARIABLES note, string, k, stack, result, heap, call

allvars == <<note, string, k, stack, result, heap, call>>

(* The strings of the tests of postfixEval (unnamed/part_000).            *)
PostfixTests ==
  { <<"2", " ", "3", " ", "+">>,
    <<"2", " ", "3", " ", "+", " ", "5", " ", "*">>,
    <<"5", " ", "1", " ", "2", " ", "+", " ", "4", " ", "*", " ", "+", " ", "3", " ", "-">> }

(* The strings of note-3.js's tests of the prefix evaluate.               *)
PrefixTests ==
  { <<"+", " ", "1", " ", "2">>,
    <<"(", "+", " ", "3", " ", "(", "*", " ", "3", " ", "2", ")", ")">>,
    <<"+", " ", "3", " ", "*", " ", "3", " ", "2">>,
    <<"+", " ", "*", " ", "3", " ", "3", " ", "2">> }

(* Every string of at most ParseMaxLen glyphs of Glyphs, and the strings  *)
(* of the scripts of note-2.js and lesson-5.js.                            *)
ParseInputs ==
  UNION {[1..n -> Glyphs] : n \in 0..ParseMaxLen}
    \cup NoteTwoTests \cup {LessonFiveTexts[f] : f \in DOMAIN LessonFiveTexts}

(* The pair functions of each implementation, for the values the client  *)
(* starts with.                                                            *)
O1 == INSTANCE ListsV1 WITH Inputs <- {}, heap <- <<>>, call <- <<>>
O2 == INSTANCE ListsV2 WITH Inputs <- {}, heap <- <<>>, call <- <<>>

ListLiterals == <<O1!Num(1), O1!Num(2), O1!Null>>

(* The values note-3.js's test script of the linked implementation binds: *)
(* p = pair(1, 2), foo = pair(1, pair(2, null)), bar = list(1, 2, 3, 4).   *)
(* Its reads first(p), rest(foo), first(rest(rest(bar))) and so on are     *)
(* calls the client makes from these values.                               *)
ScriptHeapV1 ==
  << O1!pair(O1!Num(1), O1!Num(2)),
     O1!pair(O1!Num(1), O1!pair(O1!Num(2), O1!Null)),
     O1!list(<<O1!Num(1), O1!Num(2), O1!Num(3), O1!Num(4)>>) >>

(* The same script run again on the efficient implementation.             *)
ScriptHeapV2 ==
  << O2!pair(O2!Num(1), O2!Num(2)),
     O2!pair(O2!Num(1), O2!pair(O2!Num(2), O2!Null)),
     O2!list(<<O2!Num(1), O2!Num(2), O2!Num(3), O2!Num(4)>>) >>

Post == INSTANCE Postfix WITH Tests <- PostfixTests
Pre  == INSTANCE Prefix WITH cursor <- k, Tests <- PrefixTests
Par  == INSTANCE ParseCall WITH Inputs <- ParseInputs, IdentifierGlyphs <- ScriptIdentifiers,
                                VariableGlyphs <- ScriptVariables, RegexNames <- {}, NumericStrs <- {}
V2   == INSTANCE ListsV2 WITH Inputs <- {ListLiterals, ScriptHeapV2}
V1   == INSTANCE ListsV1 WITH heap <- [i \in DOMAIN heap |-> V2!Linked(heap[i])],
                             Inputs <- {ListLiterals, ScriptHeapV1}

CalculatorIdle == string = <<>> /\ k = 0 /\ stack = <<>> /\ result = Post!Running
ListsIdle      == heap = <<>> /\ call = V2!NoCall

NotesInit ==
  \/ note = "postfix" /\ Post!Init /\ ListsIdle
  \/ note = "prefix"  /\ Pre!Init  /\ ListsIdle
  \/ note = "lists"   /\ V2!Init   /\ CalculatorIdle
  \/ note = "parse"   /\ Par!Init  /\ k = 0 /\ stack = <<>> /\ ListsIdle

(* A client that holds MaxHeap values makes no more calls.                *)
ClientDone == Len(heap) = MaxHeap /\ UNCHANGED allvars

NotesNext ==
  \/ note = "postfix" /\ Post!Next /\ UNCHANGED <<note, heap, call>>
  \/ note = "prefix"  /\ Pre!Next  /\ UNCHANGED <<note, heap, call>>
  \/ note = "lists"   /\ (V2!Call \/ ClientDone) /\ UNCHANGED <<note, string, k, stack, result>>
  \/ note = "parse"   /\ Par!Next  /\ UNCHANGED <<note, k, stack, heap, call>>

NotesSpec == NotesInit /\ [][NotesNext]_allvars

-----------------------------------------------------------------------------
(* Type invariants of the two calculators and of parse.                  *)
PostfixTypeOK == note = "postfix" => Post!TypeOK
PrefixTypeOK  == note = "prefix" => Pre!TypeOK
ParseTypeOK   == note = "parse" => Par!ParseTypeOK

(* postfixEval's loop invariant: the stack holds the values of the        *)
(* complete expressions read so far (see Postfix).                         *)
PostfixStackInvariant == note = "postfix" => Post!StackInvariant

(* postfixEval throws, rather than misread it, on an expression with a    *)
(* number of several digits (see Postfix).                                 *)
PostfixMultiDigitRejected == note = "postfix" => Post!MultiDigitRejected

(* postfixEval returns the reference value of a well-formed expression.   *)
PostfixCorrect == note = "postfix" => Post!PostfixCorrect

(* The prefix evaluate of note-3.js returns the reference value of a      *)
(* well-formed prefix expression, parenthesized or not (operands popped   *)
(* left first, scanning from the right), and of the last expression of a *)
(* sequence of them (stack[0], returned with no check).                    *)
PrefixResult == note = "prefix" => Pre!PrefixResult

(* parse of note-2.js reads every s-expression the way the notes write    *)
(* them, with plain numerals and names, as its list of numbers, strings   *)
(* and nested arrays.                                                       *)
ParseCorrect == note = "parse" => Par!ParseCorrect

(* parse never silently misreads a well-formed s-expression with plain    *)
(* atoms written with extra or missing spaces: it returns the reading,     *)
(* throws, or returns an array holding undefined.                           *)
ParseMisreadsVisibly == note = "parse" => Par!ParseMisreadsVisibly

(* parse gives no value to an s-expression with an atom such as x1: NaN   *)
(* for the atom alone, an exception inside a list.                         *)
ParseMixedAtomsFail == note = "parse" => Par!ParseMixedAtomsFail

(* parse of several s-expressions in a row returns the last one's reading *)
(* (a ReferenceError when it is a bare name), silently dropping the rest.  *)
ParseSeveralGivesLast == note = "parse" => Par!ParseSeveralGivesLast

(* ListsRefinement: note-3's efficient pair, first, rest and list keep    *)
(* the return values of the linked ones ("Return values of course should *)
(* be kept as before"): every call the client makes returns, read as a    *)
(* linked structure, what the linked implementation returns on the same   *)
(* values, including the flattening of a pair onto a list and rest of a   *)
(* flat list.  list is called with the arities of ListArities: list() is  *)
(* left out, since it already differs (the hazard at note-3.js:245).       *)
ListsRefinement ==
  /\ note = "lists" => V1!Init
  /\ [][note = "lists" => [V1!Call]_(V1!vars)]_allvars

=============================================================================
