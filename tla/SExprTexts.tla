----------------------------- MODULE SExprTexts -----------------------------
(***************************************************************************)
(* The s-expression strings the scripts of note-2.js and lesson-5.js pass *)
(* to parse, as sequences of glyphs (see module Parser).                   *)
(***************************************************************************)
LOCAL INSTANCE SequencesExt

(* A list written the way the scripts write it: "(" items apart by one    *)
(* space ")".                                                              *)
Text(items) ==
  <<"(">> \o FlattenSeq([i \in DOMAIN items |-> IF i = 1 THEN items[i] ELSE <<" ">> \o items[i]])
          \o <<")">>

Ten     == <<"1", "0">>
Twenty  == <<"2", "0">>
Thirty  == <<"3", "0">>
Hundred == <<"1", "0", "0">>

(* The strings of the tests of note-2.js.                                  *)
NoteTwoTests ==
  { Ten, <<"x">>, <<"'", "hello">>,
    Text(<<<<"+">>, <<"1">>, <<"2">>, <<"x">>>>),
    Text(<<<<"+">>, <<"1">>, <<"2">>>>),
    Text(<<<<"+">>, Text(<<<<"*">>, <<"2">>, <<"3">>>>), <<"1">>>>),
    Text(<<<<"define">>, <<"x">>, Ten>>),
    Text(<<<<"print">>, <<"'", "hello">>, <<"world">>>>) }

(* The strings lesson-5.js's test script parses, by the name of the AST   *)
(* module MCLesson5 gives each.                                            *)
LessonFiveTexts ==
  [ DefX10     |-> Text(<<<<"define">>, <<"x">>, Ten>>),
    DefY20     |-> Text(<<<<"define">>, <<"y">>, Twenty>>),
    SumProduct |-> Text(<<<<"+">>, Text(<<<<"*">>, <<"x">>, <<"y">>>>), Thirty>>),
    PrintHello |-> Text(<<<<"print">>, <<"'", "hello">>, <<"'", "world">>, <<"x">>>>),
    DefSum     |-> Text(<<<<"define">>, Text(<<<<"sum">>, <<"x">>, <<"y">>>>),
                           Text(<<<<"+">>, <<"x">>, <<"y">>>>)>>),
    CallSum    |-> Text(<<<<"sum">>, Ten, <<"y">>>>),
    DefSetX    |-> Text(<<<<"define">>, Text(<<<<"set-x">>, <<"value">>>>),
                           Text(<<<<"define">>, <<"local-var">>, Ten>>),
                           Text(<<<<"set!">>, <<"x">>, Text(<<<<"+">>, <<"local-var">>, <<"value">>>>)>>)>>),
    CallSetX   |-> Text(<<<<"set-x">>, Hundred>>) ]

(* The glyphs of these strings that are JS identifier names, and those    *)
(* whose characters all match isVariable's class [a-zA-Z0-9_$+*/\-].       *)
ScriptIdentifiers == {"x", "y", "define", "print", "hello", "world", "sum", "value"}
ScriptVariables   == ScriptIdentifiers \cup {"+", "*", "set-x", "local-var"}

=============================================================================
