------------------------------ MODULE MCLessons ------------------------------
(***************************************************************************)
(* The interpreters of lessons 4, 5 and 6, each on the programs of its own *)
(* test script, shown to implement the semantics of module LispSemantics.  *)
(* The variable lesson, chosen once at the start, says which interpreter   *)
(* runs the script; each lesson has its own globals, special forms and     *)
(* names, and its own instance of the semantics.  Lesson 5 is the          *)
(* instance of module MCLesson5Refinement, whose constants the             *)
(* configuration gives.                                                    *)
(***************************************************************************)
EXTENDS MCLesson5Refinement

VARIABLE lesson

-----------------------------------------------------------------------------
(* The test script of lesson 4 (grammar.y), as the ASTs it writes out.    *)
Sum12       == L(<<S("+"), N(1), N(2)>>)
Sum34       == L(<<S("+"), L(<<S("*"), N(3), N(5), N(2)>>), N(4)>>)
Hundred     == N(100)
Hello       == S("'hello")
TrueName    == S("true")
PrintVersion == L(<<S("print"), S("'hello"), S("'world"), S("VERSION")>>)
TimesX5     == L(<<S("*"), S("x"), N(5)>>)
MinXY       == L(<<S("min"), S("x"), N(15), S("y")>>)
DivYX       == L(<<S("/"), S("y"), S("x")>>)
NegX        == L(<<S("-"), S("x")>>)
DivY        == L(<<S("/"), S("y")>>)
(* Beyond the script: a name Object.prototype would own, and applying a    *)
(* number.                                                                 *)
PrintConstructor == L(<<S("print"), S("constructor")>>)

Pool4 == {Sum12, Sum34, Hundred, Hello, TrueName, PrintVersion, DefX10, X,
          TimesX5, DefY20, MinXY, DivYX, NegX, DivY, PrintConstructor, CallX}

(* extend(TheGlobalEnvironment, {...}) of lesson 4, and the toString it     *)
(* assigned first; VERSION is 1.5, a number the model does not track.     *)
Lesson4Bindings ==
  [n \in {"+", "*", "-", "/", "min", "max", "abs", "print", "toString"} |-> Native(n)]
    @@ ("true" :> Bool(TRUE)) @@ ("false" :> Bool(FALSE)) @@ ("VERSION" :> JSOther)

Lesson4Forms == {"define"}

(* The strings of the pool matching /^([a-z-A-Z0-9_$+*/\-])+$/.            *)
RegexNames4 ==
  {"x", "y", "true", "VERSION", "min", "constructor", "define",
   "+", "*", "-", "/", "print"}

-----------------------------------------------------------------------------
(* The test script of lesson 6 (src/unnamed/part_002) and a counter.      *)
\* (define square-lambda (lambda (x) (* x x))), (square-lambda 2)
Square == L(<<S("*"), S("x"), S("x")>>)
DefSquareLambda == L(<<S("define"), S("square-lambda"),
                       L(<<S("lambda"), L(<<S("x")>>), Square>>)>>)
CallSquareLambda == L(<<S("square-lambda"), N(2)>>)
\* ((lambda (x) (* x x)) 2)
CallLambda == L(<<L(<<S("lambda"), L(<<S("x")>>), Square>>), N(2)>>)
\* (define (square-fn x) (* x x)), (square-fn 2)
DefSquareFn  == L(<<S("define"), L(<<S("square-fn"), S("x")>>), Square>>)
CallSquareFn == L(<<S("square-fn"), N(2)>>)
(* (begin (define (get-logger level) (define x (+ level 100))              *)
(*          (define (log data) (print x level data)))                      *)
(*        (define log (get-logger 10)) (log 'hello))                       *)
Logger == L(<<S("begin"),
  L(<<S("define"), L(<<S("get-logger"), S("level")>>),
      L(<<S("define"), S("x"), L(<<S("+"), S("level"), N(100)>>)>>),
      L(<<S("define"), L(<<S("log"), S("data")>>),
          L(<<S("print"), S("x"), S("level"), S("data")>>)>>)>>),
  L(<<S("define"), S("log"), L(<<S("get-logger"), N(10)>>)>>),
  L(<<S("log"), S("'hello")>>)>>)
(* (define (make-counter n) (lambda (k) (set! n (+ n k)) n)),             *)
(* (define tick (make-counter 0)), (tick 1): state kept in a closure.  A   *)
(* call without operands, (tick), would be the name "tick" to isVariable   *)
(* (see the zero_operand_call run of lesson 7).                            *)
DefMakeCounter == L(<<S("define"), L(<<S("make-counter"), S("n")>>),
                      L(<<S("lambda"), L(<<S("k")>>),
                          L(<<S("set!"), S("n"), L(<<S("+"), S("n"), S("k")>>)>>),
                          S("n")>>)>>)
DefTick  == L(<<S("define"), S("tick"), L(<<S("make-counter"), N(0)>>)>>)
CallTick == L(<<S("tick"), N(1)>>)

Pool6 == {DefSquareLambda, CallSquareLambda, CallLambda, DefSquareFn,
          CallSquareFn, Logger, DefMakeCounter, DefTick, CallTick}

(* extendJSObject(TheGlobalEnvironment, {...}) of lesson 6, and the        *)
(* toString Object.prototype gives it.                                     *)
Lesson6Bindings == [n \in {"+", "*", "print", "toString"} |-> Native(n)]

Lesson6Forms == {"define", "set!", "lambda", "begin"}

RegexNames6 ==
  {"x", "square-lambda", "square-fn", "get-logger", "level", "log", "data",
   "make-counter", "n", "k", "tick", "define", "lambda", "begin", "+", "*", "print"}

-----------------------------------------------------------------------------
(* Scripts of lessons 4 and 6 are four top-level evaluations long: enough *)
(* to define x and y and use both, or to build a counter and call it.      *)
MaxTopLevel46 == 4

L4 == INSTANCE Lesson4 WITH
        Program <- Pool4, MaxTopLevel <- MaxTopLevel46,
        GlobalBindings <- Lesson4Bindings, SpecialForms <- Lesson4Forms,
        RegexNames <- RegexNames4
L6 == INSTANCE Lesson6 WITH
        Program <- Pool6, MaxTopLevel <- MaxTopLevel46,
        GlobalBindings <- Lesson6Bindings, SpecialForms <- Lesson6Forms,
        RegexNames <- RegexNames6

LessonsInit ==
  /\ \/ lesson = 4 /\ L4!Init4
     \/ lesson = 5 /\ Init
     \/ lesson = 6 /\ L6!Init
  /\ snap = [frames |-> frames, out |-> out, exp |-> JSUndefined, prev |-> JSUndefined]

LessonsNext ==
  /\ \/ lesson = 4 /\ L4!Next4
     \/ lesson = 5 /\ Next5
     \/ lesson = 6 /\ L6!Next6
  /\ snap' = IF ctl = Idle /\ ctl' # Idle
             THEN [frames |-> frames, out |-> out, exp |-> ctl'.exp, prev |-> snap.exp]
             ELSE snap
  /\ UNCHANGED lesson

LessonsSpec == LessonsInit /\ [][LessonsNext]_<<vars, snap, lesson>>

(* Each interpreter runs on one JS thread, which takes every step that is *)
(* enabled: weak fairness of the whole next-state relation.                *)
LessonsFairSpec == LessonsSpec /\ WF_<<vars, snap, lesson>>(LessonsNext)

(* The abstract state of lessons 4 and 6, mapped as for lesson 5 (Abs).    *)
A4 == INSTANCE LispSemantics WITH
        frames <- Visible(IF Busy THEN snap.frames ELSE frames),
        out    <- IF Busy THEN snap.out ELSE out,
        count  <- IF Busy THEN count - 1 ELSE count,
        evaluated <- IF Busy THEN snap.prev ELSE snap.exp,
        result <- result,
        status <- ErrorKind(thrown),
        Primitives <- LanguageBindings(Lesson4Bindings),
        Program <- Pool4, MaxTopLevel <- MaxTopLevel46,
        GlobalBindings <- Lesson4Bindings, RegexNames <- RegexNames4
A6 == INSTANCE LispSemantics WITH
        frames <- Visible(IF Busy THEN snap.frames ELSE frames),
        out    <- IF Busy THEN snap.out ELSE out,
        count  <- IF Busy THEN count - 1 ELSE count,
        evaluated <- IF Busy THEN snap.prev ELSE snap.exp,
        result <- result,
        status <- ErrorKind(thrown),
        Primitives <- LanguageBindings(Lesson6Bindings),
        Program <- Pool6, MaxTopLevel <- MaxTopLevel46,
        GlobalBindings <- Lesson6Bindings, RegexNames <- RegexNames6

(* LessonsRefinement: the interpreter of each of lessons 4, 5 and 6 is     *)
(* an implementation of the language semantics of spec.md on its own test *)
(* script: every top-level evaluate ends with the value, global and        *)
(* closure bindings, output and error the semantics gives it, although     *)
(* lesson 4 has no Object.prototype, no functions and no definition sugar,*)
(* lesson 5 runs every call in a frame of TheGlobalEnvironment, and       *)
(* lesson 6 keeps closures but has no conditionals.                        *)
LessonsRefinement ==
  /\ \/ lesson = 4 /\ A4!Init
     \/ lesson = 5 /\ Abs!Init
     \/ lesson = 6 /\ A6!Init
  /\ [][\/ lesson = 4 /\ [A4!Step]_(A4!vars)
        \/ lesson = 5 /\ [Abs!Step]_(Abs!vars)
        \/ lesson = 6 /\ [A6!Step]_(A6!vars)]_<<vars, snap, lesson>>

=============================================================================
