----------------------------- MODULE MCLesson5 -----------------------------
(***************************************************************************)
(* Model-checking instance of Lesson5: the programs of lesson-5.js's test *)
(* script and a few more, as the ASTs note-2's parser produces.  No       *)
(* program contains the name "function", whose lists lesson 5 would take  *)
(* for function objects.                                                   *)
(***************************************************************************)
EXTENDS Lesson5

S(s) == Str(s)
N(n) == Num(n)
L(s) == Arr(s)

(* The test script of lesson-5.js: each program is parse (note-2.js) of   *)
(* the string the script passes it, except x, which the script evaluates  *)
(* as it is.                                                               *)
T == INSTANCE SExprTexts
P == INSTANCE Parser WITH IdentifierGlyphs <- T!ScriptIdentifiers, VariableGlyphs <- T!ScriptVariables

\* (define x 10), (define y 20), x
DefX10 == P!parse(T!LessonFiveTexts.DefX10)
DefY20 == P!parse(T!LessonFiveTexts.DefY20)
X      == S("x")
\* (+ (* x y) 30), (print 'hello 'world x)
SumProduct == P!parse(T!LessonFiveTexts.SumProduct)
PrintHello == P!parse(T!LessonFiveTexts.PrintHello)
(* (define (sum x y) (+ x y)): parameters that shadow the globals; then   *)
(* (sum 10 y)                                                              *)
DefSum  == P!parse(T!LessonFiveTexts.DefSum)
CallSum == P!parse(T!LessonFiveTexts.CallSum)
(* (define (set-x value) (define local-var 10) (set! x (+ local-var value)))*)
(* and (set-x 100)                                                         *)
DefSetX  == P!parse(T!LessonFiveTexts.DefSetX)
CallSetX == P!parse(T!LessonFiveTexts.CallSetX)

(* Beyond the script: an arity mismatch and an assignment of an unbound   *)
(* name.                                                                   *)
CallSumOne == L(<<S("sum"), N(1)>>)
SetZ       == L(<<S("set!"), S("z"), N(1)>>)

(* The programs on which lesson 5 is meant to agree with LispSemantics.   *)
SpecPool5 == {DefX10, DefY20, X, SumProduct, PrintHello, DefSum, CallSum,
              DefSetX, CallSetX, CallSumOne, SetZ}

(* (define (twice x) (define m (+ x x)) m) and (twice 3): a local          *)
(* definition whose value reads a parameter.                               *)
DefTwice == L(<<S("define"), L(<<S("twice"), S("x")>>),
                L(<<S("define"), S("m"), L(<<S("+"), S("x"), S("x")>>)>>),
                S("m")>>)
CallTwice == L(<<S("twice"), N(3)>>)
(* (x 1): applying a number;  (print #t): an unrecognized expression;     *)
(* (begin 1): begin is not a special form of lesson 5.                     *)
CallX      == L(<<S("x"), N(1)>>)
PrintHashT == L(<<S("print"), S("#t")>>)
Begin1     == L(<<S("begin"), N(1)>>)

MCProgram5 == SpecPool5 \cup {DefTwice, CallTwice, CallX, PrintHashT, Begin1}

(* The bindings extendJSObject installs in TheGlobalEnvironment, plus its *)
(* own toString.                                                           *)
Lesson5Bindings == [n \in {"+", "*", "print", "toString"} |-> Native(n)]

(* The special forms lesson 5's evaluate tests for.                        *)
Lesson5Forms == {"define", "set!"}

(* The strings of the pool matching /^([a-z-A-Z0-9_$+*/\-])+$/.            *)
RegexNames5 ==
  {"x", "y", "z", "m", "sum", "set-x", "value", "local-var", "twice",
   "define", "begin", "+", "*", "print"}
NumericStrs5 == {""} \cup {ToString(i) : i \in -20..20}
QuotedStrs5  == {"'hello", "'world"}

-----------------------------------------------------------------------------
(* A top-level evaluate is in progress.                                   *)
Busy == ctl.mode \notin {"idle", "threw"}

(* Termination: every top-level evaluate of a lesson-5 script returns or  *)
(* throws.                                                                 *)
Termination == [](Busy => <>~Busy)

=============================================================================
