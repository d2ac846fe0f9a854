------------------------------ MODULE Lesson6 ------------------------------
(***************************************************************************)
(* The lesson-6 interpreter (src/unnamed/part_002): closures and blocks.   *)
(* Its helpers are those lesson 7 keeps (modules Environment, Syntax,      *)
(* Builtins, Evaluator) and its globals are +, * and print; evaluate       *)
(* tests define, set!, lambda and begin (SpecialForms), and has no if or  *)
(* cond.                                                                   *)
(***************************************************************************)
EXTENDS Evaluator

(* evaluate and apply of lesson 6: the cases of evaluate, the steps of     *)
(* the callers it resumes, and the three outcomes of apply.                *)
Next6 ==
  \/ EvaluateTopLevel \/ ReturnTopLevel
  \/ EvalSelfEvaluating \/ EvalVariable \/ evalDefinition \/ evalAssignment
  \/ EvalLambda \/ EvalBlock \/ EvalApplication \/ EvalUnrecognized
  \/ DefineVariable \/ SetVariableValue \/ EvalSequenceNext
  \/ EvalOperands \/ EvalArgument
  \/ ApplyBuiltInFunction \/ applyUserDefinedFunction \/ ApplyOther
  \/ Terminating

=============================================================================
