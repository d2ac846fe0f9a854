------------------------------ MODULE Evaluator ------------------------------
(***************************************************************************)
(* The evaluate/apply cycle of the lesson-7 interpreter as a small-step    *)
(* machine.  The JS call stack of the recursive evaluator is made          *)
(* explicit: "ctl" is what the innermost call is doing (evaluating an      *)
(* expression, returning a value, applying a procedure) and "stack" holds *)
(* the callers that wait for its value, innermost first.  Each step is one *)
(* case of evaluate or apply, or the point where a waiting caller resumes  *)
(* with the value it was given.                                            *)
(*                                                                         *)
(* A test script is a sequence of top-level evaluate(...) calls; the model *)
(* runs up to MaxTopLevel of them, each one chosen from Program.  A thrown *)
(* exception is uncaught and ends the script.                              *)
(***************************************************************************)
EXTENDS Environment, Syntax

CONSTANTS
  Program,      \* the top-level expressions a script may evaluate
  MaxTopLevel   \* the number of top-level evaluate calls of a script

ASSUME MaxTopLevel \in Nat

VARIABLES
  frames,   \* the environment objects (module Environment)
  ctl,      \* the innermost evaluate/apply call
  stack,    \* the calls waiting for its value, innermost first
  out,      \* what console.log printed: a sequence of argument lists
  result,   \* the value of the last completed top-level evaluate
  thrown,   \* the uncaught exception that ended the script, or "none"
  count     \* the number of top-level evaluate calls started

vars == <<frames, ctl, stack, out, result, thrown, count>>

Idle            == [mode |-> "idle"]
Eval(e, env)    == [mode |-> "eval", exp |-> e, env |-> env]
Ret(v)          == [mode |-> "ret", val |-> v]
Call(p, args)   == [mode |-> "apply", proc |-> p, args |-> args]
Threw           == [mode |-> "threw"]

Push(k) == stack' = <<k>> \o stack
Top     == Head(stack)

(* A throw unwinds every waiting call.                                     *)
Raise(kind) ==
  /\ thrown' = kind
  /\ ctl' = Threw
  /\ stack' = <<>>

Init ==
  /\ frames = InitialFrames
  /\ ctl = Idle
  /\ stack = <<>>
  /\ out = <<>>
  /\ result = JSUndefined
  /\ thrown = "none"
  /\ count = 0

-----------------------------------------------------------------------------
(* Top level: evaluate(parse(...)) with the default environment.           *)

EvaluateTopLevel ==
  /\ ctl = Idle
  /\ count < MaxTopLevel
  /\ \E s \in Program : ctl' = Eval(s, TheGlobalEnvironment)
  /\ count' = count + 1
  /\ UNCHANGED <<frames, stack, out, result, thrown>>

(* Mutant: the top-level call returns while callers still wait.           *)
ReturnTopLevelEarly ==
  /\ ctl.mode = "ret"
  /\ result' = ctl.val
  /\ ctl' = Idle
  /\ UNCHANGED <<frames, stack, out, thrown, count>>

ReturnTopLevel ==
  /\ ctl.mode = "ret"
  /\ stack = <<>>
  /\ result' = ctl.val
  /\ ctl' = Idle
  /\ UNCHANGED <<frames, stack, out, thrown, count>>

-----------------------------------------------------------------------------
(* evalSequence(expressions, environment): evaluate in order, return the  *)
(* last value (undefined for an empty sequence).                           *)
evalSequence(expressions, environment) ==
  IF expressions.arr = <<>>
  THEN ctl' = Ret(JSUndefined) /\ stack' = stack
  ELSE /\ ctl' = Eval(expressions.arr[1], environment)
       /\ Push([k |-> "sequence", rest |-> Tail(expressions.arr), env |-> environment])

(* Mutant: the loop of evalSequence never advances past an expression.    *)
EvalSequenceNextStuck ==
  /\ ctl.mode = "ret" /\ stack # <<>> /\ Top.k = "sequence"
  /\ IF Top.rest = <<>>
     THEN ctl' = ctl /\ stack' = Tail(stack)
     ELSE /\ ctl' = Eval(Head(Top.rest), Top.env)
          /\ stack' = stack
  /\ UNCHANGED <<frames, out, result, thrown, count>>

EvalSequenceNext ==
  /\ ctl.mode = "ret" /\ stack # <<>> /\ Top.k = "sequence"
  /\ IF Top.rest = <<>>
     THEN ctl' = ctl /\ stack' = Tail(stack)
     ELSE /\ ctl' = Eval(Head(Top.rest), Top.env)
          /\ stack' = <<[Top EXCEPT !.rest = Tail(@)]>> \o Tail(stack)
  /\ UNCHANGED <<frames, out, result, thrown, count>>

-----------------------------------------------------------------------------
(* The cases of evaluate(expression, environment).                         *)

Evaluating(case) == ctl.mode = "eval" /\ Classify(ctl.exp) = case

EvalSelfEvaluating ==
  /\ Evaluating("selfEvaluating")
  /\ ctl' = Ret(ctl.exp)
  /\ UNCHANGED <<frames, stack, out, result, thrown, count>>

EvalVariable ==
  /\ Evaluating("variable")
  /\ LET v == lookupVariableValue(frames, ctl.exp, ctl.env)
     IN IF IsThrow(v) THEN Raise(v.thrown)
        ELSE ctl' = Ret(v) /\ UNCHANGED <<stack, thrown>>
  /\ UNCHANGED <<frames, out, result, count>>

(* evalDefinition: evaluate the value in the same environment, then        *)
(* defineVariable (DefineVariable below).                                  *)
evalDefinition ==
  /\ Evaluating("definition")
  /\ Push([k |-> "definition", name |-> getDefinitionName(ctl.exp), env |-> ctl.env])
  /\ ctl' = Eval(getDefinitionValue(ctl.exp), ctl.env)
  /\ UNCHANGED <<frames, out, result, thrown, count>>

(* evalAssignment: evaluate the value, then setVariableValue               *)
(* (SetVariableValue below).                                               *)
evalAssignment ==
  /\ Evaluating("assignment")
  /\ Push([k |-> "assignment", name |-> At(ctl.exp, 1), env |-> ctl.env])
  /\ ctl' = Eval(At(ctl.exp, 2), ctl.env)
  /\ UNCHANGED <<frames, out, result, thrown, count>>

EvalLambda ==
  /\ Evaluating("lambda")
  /\ ctl' = Ret(makeFunction(At(ctl.exp, 1), SliceFrom(ctl.exp, 2), ctl.env))
  /\ UNCHANGED <<frames, stack, out, result, thrown, count>>

EvalBlock ==
  /\ Evaluating("block")
  /\ evalSequence(SliceFrom(ctl.exp, 1), ctl.env)
  /\ UNCHANGED <<frames, out, result, thrown, count>>

(* evalIf: evaluate the predicate first (EvalIfBranch resumes).            *)
evalIf ==
  /\ Evaluating("if")
  /\ Push([k |-> "if", exp |-> ctl.exp, env |-> ctl.env])
  /\ ctl' = Eval(At(ctl.exp, 1), ctl.env)
  /\ UNCHANGED <<frames, out, result, thrown, count>>

(* A cond is rewritten by condToIf on every evaluation, and the result is *)
(* evaluated in the same environment.                                      *)
EvalCond ==
  /\ Evaluating("cond")
  /\ LET ifs == condToIf(ctl.exp)
     IN IF IsThrow(ifs) THEN Raise(ifs.thrown)
        ELSE ctl' = Eval(ifs, ctl.env) /\ UNCHANGED <<stack, thrown>>
  /\ UNCHANGED <<frames, out, result, count>>

(* apply(evaluate(operator), getArgumentValues(operands)): the operator   *)
(* first (EvalOperands and EvalArgument resume).                           *)
EvalApplication ==
  /\ Evaluating("application")
  /\ Push([k |-> "operator", args |-> SliceFrom(ctl.exp, 1).arr, env |-> ctl.env])
  /\ ctl' = Eval(First(ctl.exp), ctl.env)
  /\ UNCHANGED <<frames, out, result, thrown, count>>

(* No case of evaluate applies: it falls off its end and returns          *)
(* undefined.                                                              *)
EvalUnrecognized ==
  /\ Evaluating("none")
  /\ ctl' = Ret(JSUndefined)
  /\ UNCHANGED <<frames, stack, out, result, thrown, count>>

-----------------------------------------------------------------------------
(* Callers resuming with the value of the call they waited for.            *)

Resuming(kind) == ctl.mode = "ret" /\ stack # <<>> /\ Top.k = kind

DefineVariable ==
  /\ Resuming("definition")
  /\ frames' = defineVariable(frames, Top.name, ctl.val, Top.env)
  /\ stack' = Tail(stack)
  /\ UNCHANGED <<ctl, out, result, thrown, count>>

SetVariableValue ==
  /\ Resuming("assignment")
  /\ LET r == setVariableValue(frames, Top.name, ctl.val, Top.env)
     IN IF IsThrow(r) THEN Raise(r.thrown) /\ UNCHANGED <<frames, out>>
        ELSE /\ frames' = r.frames
             /\ out' = out \o r.printed
             /\ stack' = Tail(stack)
             /\ UNCHANGED <<ctl, thrown>>
  /\ UNCHANGED <<result, count>>

(* ifExpression[2] when the predicate is truthy, getIfAlternative else.    *)
EvalIfBranch ==
  /\ Resuming("if")
  /\ ctl' = Eval(IF JSTruthy(ctl.val) THEN At(Top.exp, 2) ELSE getIfAlternative(Top.exp),
                 Top.env)
  /\ stack' = Tail(stack)
  /\ UNCHANGED <<frames, out, result, thrown, count>>

(* The operator's value is known: evaluate the operands left to right.     *)
EvalOperands ==
  /\ Resuming("operator")
  /\ IF Top.args = <<>>
     THEN ctl' = Call(ctl.val, <<>>) /\ stack' = Tail(stack)
     ELSE /\ ctl' = Eval(Head(Top.args), Top.env)
          /\ stack' = <<[k |-> "arguments", proc |-> ctl.val, done |-> <<>>,
                         rest |-> Tail(Top.args), env |-> Top.env]>> \o Tail(stack)
  /\ UNCHANGED <<frames, out, result, thrown, count>>

EvalArgument ==
  /\ Resuming("arguments")
  /\ LET done == Append(Top.done, ctl.val)
     IN IF Top.rest = <<>>
        THEN ctl' = Call(Top.proc, done) /\ stack' = Tail(stack)
        ELSE /\ ctl' = Eval(Head(Top.rest), Top.env)
             /\ stack' = <<[Top EXCEPT !.done = done, !.rest = Tail(@)]>> \o Tail(stack)
  /\ UNCHANGED <<frames, out, result, thrown, count>>

-----------------------------------------------------------------------------
(* The cases of apply(procedure, arguments).                               *)

Applying == ctl.mode = "apply"

ApplyBuiltInFunction ==
  /\ Applying
  /\ IsNative(ctl.proc)
  /\ LET r == applyBuiltInFunction(ctl.proc, ctl.args)
     IN IF IsThrow(r) THEN Raise(r.thrown) /\ UNCHANGED out
        ELSE ctl' = Ret(r.val) /\ out' = out \o r.printed /\ UNCHANGED <<stack, thrown>>
  /\ UNCHANGED <<frames, result, count>>

(* Mutant: the frame of a call extends TheGlobalEnvironment, as apply of   *)
(* lesson 5 does, instead of the function's saved environment.            *)
applyUserDefinedFunctionGlobal ==
  /\ Applying
  /\ IsFunctionObject(ctl.proc)
  /\ LET r == extendEnvironment(frames, ctl.proc.params, ctl.args, TheGlobalEnvironment)
     IN IF IsThrow(r) THEN Raise(r.thrown) /\ UNCHANGED frames
        ELSE /\ frames' = r.frames
             /\ evalSequence(ctl.proc.body, r.env)
             /\ UNCHANGED thrown
  /\ UNCHANGED <<out, result, count>>

(* The body runs in a new frame whose parent is the environment saved in  *)
(* the function object.                                                    *)
applyUserDefinedFunction ==
  /\ Applying
  /\ IsFunctionObject(ctl.proc)
  /\ LET r == extendEnvironment(frames, ctl.proc.params, ctl.args, ctl.proc.env)
     IN IF IsThrow(r) THEN Raise(r.thrown) /\ UNCHANGED frames
        ELSE /\ frames' = r.frames
             /\ evalSequence(ctl.proc.body, r.env)
             /\ UNCHANGED thrown
  /\ UNCHANGED <<out, result, count>>

(* Neither test of apply holds: apply returns undefined, except that      *)
(* isTaggedList("function", procedure) reads procedure[0], which throws   *)
(* a TypeError for null and undefined (labelled apart from the TypeErrors *)
(* the natives throw).                                                     *)
ApplyOther ==
  /\ Applying
  /\ ~IsNative(ctl.proc) /\ ~IsFunctionObject(ctl.proc)
  /\ IF IsNullish(ctl.proc) THEN Raise("TypeError(null[0])")
     ELSE ctl' = Ret(JSUndefined) /\ UNCHANGED <<stack, thrown>>
  /\ UNCHANGED <<frames, out, result, count>>

-----------------------------------------------------------------------------
(* The script has ended: every top-level call is done, or one threw.       *)
Terminating ==
  /\ \/ thrown # "none"
     \/ ctl = Idle /\ count = MaxTopLevel
  /\ UNCHANGED vars

Next ==
  \/ EvaluateTopLevel \/ ReturnTopLevel
  \/ EvalSelfEvaluating \/ EvalVariable \/ evalDefinition \/ evalAssignment
  \/ EvalLambda \/ EvalBlock \/ evalIf \/ EvalCond \/ EvalApplication
  \/ EvalUnrecognized
  \/ DefineVariable \/ SetVariableValue \/ EvalSequenceNext \/ EvalIfBranch
  \/ EvalOperands \/ EvalArgument
  \/ ApplyBuiltInFunction \/ applyUserDefinedFunction \/ ApplyOther
  \/ Terminating

(* The interpreter is one JS thread: whenever a step of it is enabled it  *)
(* is eventually taken.                                                    *)
Spec == Init /\ [][Next]_vars /\ WF_vars(Next)

-----------------------------------------------------------------------------
ThrowKinds == {"ReferenceError", "CountMismatch", "ElseNotLast", "TypeError", "NotImplemented",
               "TypeError(null[0])"}
Modes == {"idle", "eval", "ret", "apply", "threw"}

(* Type invariant.  Besides the types: every environment a frame, a call  *)
(* or a waiting caller refers to is an existing frame created before it   *)
(* (so every prototype chain is finite), and callers wait only while an   *)
(* evaluation is in progress: the top level returns, and a throw unwinds, *)
(* only with no caller left.                                               *)
TypeOK ==
  /\ \A f \in 1..Len(frames) :
       /\ DOMAIN frames[f].vars \subseteq STRING
       /\ frames[f].parent \in 0..(f - 1)
  /\ ctl.mode \in Modes
  /\ ctl.mode = "eval" => ctl.env \in 1..Len(frames)
  /\ \A i \in 1..Len(stack) :
       /\ stack[i].k \in {"sequence", "definition", "assignment", "if",
                          "operator", "arguments"}
       /\ stack[i].env \in 1..Len(frames)
  /\ ctl.mode \in {"idle", "threw"} => stack = <<>>
  /\ thrown \in ThrowKinds \cup {"none"}
  /\ (thrown # "none") <=> (ctl = Threw)
  /\ count \in 0..MaxTopLevel

=============================================================================
