---------------------------- MODULE MCEvaluator ----------------------------
(***************************************************************************)
(* Model-checking instance of Evaluator: the top-level expressions a      *)
(* script is built from, written as the ASTs note-2's parser produces.    *)
(***************************************************************************)
EXTENDS Evaluator

S(s) == Str(s)
N(n) == Num(n)
L(s) == Arr(s)

(* (define x 1)                                                            *)
DefX == L(<<S("define"), S("x"), N(1)>>)
(* (define (inc n) (set! x (+ x n)) x): writes a global from a call frame *)
DefInc == L(<<S("define"), L(<<S("inc"), S("n")>>),
              L(<<S("set!"), S("x"), L(<<S("+"), S("x"), S("n")>>)>>),
              S("x")>>)
(* (inc 2)                                                                 *)
CallInc == L(<<S("inc"), N(2)>>)
(* (inc 1 2): an arity mismatch                                            *)
CallIncTwo == L(<<S("inc"), N(1), N(2)>>)
(* (define (make k) (lambda (d) (set! k (+ k d)) k)): a counter closure   *)
DefMake == L(<<S("define"), L(<<S("make"), S("k")>>),
               L(<<S("lambda"), L(<<S("d")>>),
                   L(<<S("set!"), S("k"), L(<<S("+"), S("k"), S("d")>>)>>),
                   S("k")>>)>>)
(* (define c (make 10))                                                    *)
DefC == L(<<S("define"), S("c"), L(<<S("make"), N(10)>>)>>)
(* (c 1): updates k in the frame of the finished call (make 10)            *)
CallC == L(<<S("c"), N(1)>>)
(* (define (shadow n) (define x n) (set! x (+ x 1)) x): a local x          *)
DefShadow == L(<<S("define"), L(<<S("shadow"), S("n")>>),
                 L(<<S("define"), S("x"), S("n")>>),
                 L(<<S("set!"), S("x"), L(<<S("+"), S("x"), N(1)>>)>>),
                 S("x")>>)
(* (shadow 3)                                                              *)
CallShadow == L(<<S("shadow"), N(3)>>)
(* (define (down n) (if (> n 0) (down (- n 1)) 'done)): recursion         *)
DefDown == L(<<S("define"), L(<<S("down"), S("n")>>),
               L(<<S("if"), L(<<S(">"), S("n"), N(0)>>),
                   L(<<S("down"), L(<<S("-"), S("n"), N(1)>>)>>),
                   S("'done")>>)>>)
(* (down 2)                                                                *)
CallDown == L(<<S("down"), N(2)>>)
(* (cond ((> x 2) 'big) ((= x 1) 'one) (else x))                           *)
CondX == L(<<S("cond"), L(<<L(<<S(">"), S("x"), N(2)>>), S("'big")>>),
                        L(<<L(<<S("="), S("x"), N(1)>>), S("'one")>>),
                        L(<<S("else"), S("x")>>)>>)
(* (print x c): arguments left to right, then console.log                  *)
PrintXC == L(<<S("print"), S("x"), S("c")>>)
(* (set! y 1): unbound unless DefBegin ran                                 *)
SetY == L(<<S("set!"), S("y"), N(1)>>)
(* (begin (define y 2) (set! y (+ y x)) y)                                 *)
DefBegin == L(<<S("begin"), L(<<S("define"), S("y"), N(2)>>),
                L(<<S("set!"), S("y"), L(<<S("+"), S("y"), S("x")>>)>>),
                S("y")>>)
(* (null 1): applying a value that is not a procedure                     *)
CallNull == L(<<S("null"), N(1)>>)

(* The programs on which the interpreter is meant to agree with the       *)
(* language semantics (module LispSemantics).                              *)
SpecPool == {DefX, DefInc, CallInc, CallIncTwo, DefMake, DefC, CallC,
             DefShadow, CallShadow, DefDown, CallDown, CondX, PrintXC, SetY,
             DefBegin, CallNull}

(* Programs whose handling by the code departs from spec.md; each one is  *)
(* the subject of a violation run of MCLispRefinement.                     *)

(* (define (tick) (set! x (+ x 1)) x) and (tick): a call with no operands *)
DefTick == L(<<S("define"), L(<<S("tick")>>),
               L(<<S("set!"), S("x"), L(<<S("+"), S("x"), N(1)>>)>>),
               S("x")>>)
CallTick == L(<<S("tick")>>)
(* (cond ((= x 1) (print x) 'one) (else 'other)): a clause of two actions *)
CondTwoActions == L(<<S("cond"), L(<<L(<<S("="), S("x"), N(1)>>),
                                     L(<<S("print"), S("x")>>), S("'one")>>),
                                 L(<<S("else"), S("'other")>>)>>)
(* (if (null? x) 1 0): an alternative that is the number 0                *)
IfZero == L(<<S("if"), L(<<S("null?"), S("x")>>), N(1), N(0)>>)
(* (x 1): applying a number                                               *)
CallX == L(<<S("x"), N(1)>>)
(* (print #t): a token that is neither a literal nor a name               *)
PrintHashT == L(<<S("print"), S("#t")>>)
(* (define hasOwnProperty 0): a program name that the host also uses      *)
DefHasOwn == L(<<S("define"), S("hasOwnProperty"), N(0)>>)
(* (print constructor): a name no program defines                         *)
PrintConstructor == L(<<S("print"), S("constructor")>>)

MCProgram == SpecPool \cup
             {DefTick, CallTick, CondTwoActions, IfZero, CallX, PrintHashT,
              DefHasOwn, PrintConstructor}

(* The bindings extendJSObject installs in TheGlobalEnvironment, plus its *)
(* own toString assigned right after it is created.                        *)
Lesson7Bindings ==
  [n \in {">", "=", "null?", "+", "-", "print", "toString"} |-> Native(n)]
    @@ ("null" :> JSNull)

(* The special forms lesson 7's evaluate tests for.                        *)
Lesson7Forms == {"define", "set!", "lambda", "begin", "if", "cond"}

MCRegexNames ==
  {"x", "y", "n", "k", "d", "c", "inc", "make", "shadow", "down", "tick",
   "hasOwnProperty", "constructor",
   "define", "set!", "lambda", "begin", "if", "cond", "else",
   "+", "-", ">", "=", "null?", "null", "print", "undefined"}
MCNumericStrs == {""} \cup {ToString(i) : i \in -20..20}
MCQuotedStrs  == {"'big", "'one", "'done", "'other"}

-----------------------------------------------------------------------------
(* A top-level evaluate is in progress.                                   *)
Busy == ctl.mode \notin {"idle", "threw"}

(* Termination: every top-level evaluate the script starts returns or     *)
(* throws; no program of the pool sends evaluate/apply into an endless    *)
(* recursion.                                                              *)
Termination == [](Busy => <>~Busy)

=============================================================================
