------------------------------ MODULE Lesson4 ------------------------------
(***************************************************************************)
(* The lesson-4 interpreter (grammar.y, lines 723-1204): environments       *)
(* without functions.  It shares lookup, definition, operand evaluation   *)
(* and the natives with the later lessons (modules Environment, Builtins, *)
(* Evaluator); what lesson 4 does differently is here:                     *)
(*   - TheGlobalEnvironment is Object.create(null): it inherits nothing;   *)
(*   - evaluate tests only define (SpecialForms = {define}), and          *)
(*     (define name value) has no function sugar: the name is              *)
(*     expression[1] whatever it is;                                       *)
(*   - apply calls a native and throws "User-defined functions are not    *)
(*     implemented yet." for anything else.                                *)
(***************************************************************************)
EXTENDS Evaluator

(* Object.create(null) and its own toString, then extend(...).  Frame      *)
(* ObjectPrototype stays in the heap so that frame numbers are those of    *)
(* the later lessons, but no frame inherits from it.                       *)
InitialFrames4 ==
  << [vars |-> ObjectPrototypeBindings, parent |-> 0],
     [vars |-> GlobalBindings, parent |-> 0] >>

Init4 ==
  /\ frames = InitialFrames4
  /\ ctl = Idle
  /\ stack = <<>>
  /\ out = <<>>
  /\ result = JSUndefined
  /\ thrown = "none"
  /\ count = 0

getVariableName(expression)  == At(expression, 1)
getVariableValue(expression) == At(expression, 2)

(* evalDefinition: evaluate the value in the definition's environment,    *)
(* then defineVariable (DefineVariable resumes with the value).            *)
evalDefinition4 ==
  /\ Evaluating("definition")
  /\ Push([k |-> "definition", name |-> getVariableName(ctl.exp), env |-> ctl.env])
  /\ ctl' = Eval(getVariableValue(ctl.exp), ctl.env)
  /\ UNCHANGED <<frames, out, result, thrown, count>>

(* apply of anything that is not a native: isUserDefinedFunction is       *)
(* constantly true, and its branch throws.                                 *)
applyUserDefinedFunction4 ==
  /\ Applying
  /\ ~IsNative(ctl.proc)
  /\ Raise("NotImplemented")
  /\ UNCHANGED <<frames, out, result, count>>

Next4 ==
  \/ EvaluateTopLevel \/ ReturnTopLevel
  \/ EvalSelfEvaluating \/ EvalVariable \/ evalDefinition4
  \/ EvalApplication \/ EvalUnrecognized
  \/ DefineVariable \/ EvalOperands \/ EvalArgument
  \/ ApplyBuiltInFunction \/ applyUserDefinedFunction4
  \/ Terminating

=============================================================================
