------------------------------ MODULE Lesson5 ------------------------------
(***************************************************************************)
(* The lesson-5 interpreter (src/CS-61A/src/lesson-5.js): global functions *)
(* only.  Its environments, lookup, assignment, sequences, operand         *)
(* evaluation and natives are the code lesson 7 keeps (modules            *)
(* Environment, Syntax, Builtins, Evaluator); what lesson 5 does          *)
(* differently is here:                                                    *)
(*   - evaluate tests only define and set! (SpecialForms = {define, set!}),*)
(*     so lambda, begin, if and cond are applications;                     *)
(*   - a function object ["function", parameters, body] saves no           *)
(*     environment, and apply always extends TheGlobalEnvironment;         *)
(*   - evalDefinition builds a function object directly from a function   *)
(*     definition, and evaluates any other value with evaluate(value),     *)
(*     i.e. in the default environment TheGlobalEnvironment.               *)
(***************************************************************************)
EXTENDS Evaluator

(* makeFunction(parameters, body): ["function", parameters, body].  The   *)
(* record's env field is set to TheGlobalEnvironment, the only            *)
(* environment a lesson-5 function ever runs in (see                       *)
(* applyUserDefinedFunction5), so that the value equals the lesson-7       *)
(* closure of the same function defined at top level.                      *)
makeFunction5(parameters, body) == makeFunction(parameters, body, TheGlobalEnvironment)

(* procedure[0] == "function": a function object, or an AST that is a     *)
(* list whose first element is the name "function".                        *)
isUserDefinedFunction(procedure) ==
  IsFunctionObject(procedure) \/ isTaggedList("function", procedure)

(* (define x v) -> v; (define (f p...) body...) -> a new function object.  *)
getDefinitionValue5(expression) ==
  IF isVariable(At(expression, 1)) THEN At(expression, 2)
  ELSE makeFunction5(SliceFrom(At(expression, 1), 1), SliceFrom(expression, 2))

(* Mutant: the binding goes to TheGlobalEnvironment, not to the           *)
(* environment of the definition.                                          *)
evalDefinition5Global ==
  /\ Evaluating("definition")
  /\ LET value == getDefinitionValue5(ctl.exp)
         name  == getDefinitionName(ctl.exp)
     IN IF isUserDefinedFunction(value)
        THEN /\ frames' = defineVariable(frames, name, value, TheGlobalEnvironment)
             /\ ctl' = Ret(value)
             /\ stack' = stack
        ELSE /\ Push([k |-> "definition", name |-> name, env |-> TheGlobalEnvironment])
             /\ ctl' = Eval(value, TheGlobalEnvironment)
             /\ frames' = frames
  /\ UNCHANGED <<out, result, thrown, count>>

(* evalDefinition: a function object is bound at once (defineVariable     *)
(* returns it); any other value is evaluated first, by evaluate(value)    *)
(* without an environment, i.e. in TheGlobalEnvironment, and then bound   *)
(* in the definition's own environment (DefineVariable resumes).          *)
evalDefinition5 ==
  /\ Evaluating("definition")
  /\ LET value == getDefinitionValue5(ctl.exp)
         name  == getDefinitionName(ctl.exp)
     IN IF isUserDefinedFunction(value)
        THEN /\ frames' = defineVariable(frames, name, value, ctl.env)
             /\ ctl' = Ret(value)
             /\ stack' = stack
        ELSE /\ Push([k |-> "definition", name |-> name, env |-> ctl.env])
             /\ ctl' = Eval(value, TheGlobalEnvironment)
             /\ frames' = frames
  /\ UNCHANGED <<out, result, thrown, count>>

(* apply of a user-defined function: evalSequence of the body in a new    *)
(* frame of the parameters whose parent is TheGlobalEnvironment.           *)
applyUserDefinedFunction5 ==
  /\ Applying
  /\ IsFunctionObject(ctl.proc)
  /\ LET r == extendEnvironment(frames, ctl.proc.params, ctl.args, TheGlobalEnvironment)
     IN IF IsThrow(r) THEN Raise(r.thrown) /\ UNCHANGED frames
        ELSE /\ frames' = r.frames
             /\ evalSequence(ctl.proc.body, r.env)
             /\ UNCHANGED thrown
  /\ UNCHANGED <<out, result, count>>

Next5 ==
  \/ EvaluateTopLevel \/ ReturnTopLevel
  \/ EvalSelfEvaluating \/ EvalVariable \/ evalDefinition5 \/ evalAssignment
  \/ EvalApplication \/ EvalUnrecognized
  \/ DefineVariable \/ SetVariableValue \/ EvalSequenceNext
  \/ EvalOperands \/ EvalArgument
  \/ ApplyBuiltInFunction \/ applyUserDefinedFunction5 \/ ApplyOther
  \/ Terminating

(* One JS thread, as in lesson 7.                                          *)
Spec5 == Init /\ [][Next5]_vars /\ WF_vars(Next5)

=============================================================================
