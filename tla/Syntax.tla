------------------------------- MODULE Syntax -------------------------------
(***************************************************************************)
(* The expression model of lesson 7: the predicates that classify an AST   *)
(* node, the getters that take it apart, the constructors of derived       *)
(* nodes, and the cond-to-if desugaring (condToIf).  All are pure          *)
(* operators on JS values (module JSValues).                               *)
(***************************************************************************)
EXTENDS JSValues

CONSTANTS
  QuotedStrs,    \* the strings of the model whose first character is '
  SpecialForms   \* the tags evaluate tests for: lesson 7 has all six of
                 \* define set! lambda begin if cond, earlier lessons fewer

isSelfEvaluating(expression) ==
  \/ ~JSIsNaN(expression)
  \/ IsStr(expression) /\ expression.str \in QuotedStrs

isVariable(expression) == JSToString(expression) \in RegexNames

(* exp[0] == tag.  Only apply reaches it with null or undefined, where     *)
(* exp[0] throws; see ApplyOther in module Evaluator.                      *)
isTaggedList(tag, exp) == JSLooseEqStr(First(exp), tag)

isApplication(exp) == IsArr(exp)

(* The case each special form's tag selects.                              *)
FormCase == ("define" :> "definition") @@ ("set!" :> "assignment")
              @@ ("lambda" :> "lambda") @@ ("begin" :> "block")
              @@ ("if" :> "if") @@ ("cond" :> "cond")

(* The case analysis of evaluate, in the order of its if-statements (the  *)
(* tags are distinct words, so at most one tagged case holds).  "none"    *)
(* when no case applies (evaluate then returns undefined).                 *)
Classify(expression) ==
  CASE isSelfEvaluating(expression) -> "selfEvaluating"
    [] isVariable(expression)       -> "variable"
    [] \E tag \in SpecialForms : isTaggedList(tag, expression) ->
         FormCase[CHOOSE tag \in SpecialForms : isTaggedList(tag, expression)]
    [] isApplication(expression)    -> "application"
    [] OTHER                        -> "none"

(* Function objects: ["function", parameters, body] + .environment.       *)
makeFunction(parameters, body, parentEnvironment) ==
  [params |-> parameters, body |-> body, env |-> parentEnvironment]

makeLambda(parameters, body) == Arr(<<Str("lambda"), parameters>> \o body.arr)

(* (define x v) binds x to v; (define (f p...) body...) binds f to the     *)
(* lambda (lambda (p...) body...).                                         *)
getDefinitionName(expression) ==
  IF isVariable(At(expression, 1)) THEN At(expression, 1)
  ELSE First(At(expression, 1))

getDefinitionValue(expression) ==
  IF isVariable(At(expression, 1)) THEN At(expression, 2)
  ELSE makeLambda(SliceFrom(At(expression, 1), 1), SliceFrom(expression, 2))

(* An absent alternative, and any falsy one (0, null, ""), is false.      *)
getIfAlternative(ifExpression) ==
  IF JSTruthy(At(ifExpression, 3)) THEN At(ifExpression, 3) ELSE Bool(FALSE)

(* ["begin", expressions]: the actions array is nested as ONE element.    *)
makeBegin(expresisons) == Arr(<<Str("begin"), expresisons>>)

makeIf(predicate, consequent, alternative) ==
  Arr(<<Str("if"), predicate, consequent, alternative>>)

sequenceExpression(expressions) ==
  CASE Len(expressions.arr) = 0 -> JSNull
    [] Len(expressions.arr) = 1 -> expressions.arr[1]
    [] OTHER                    -> makeBegin(expressions)

getCondPredicate(condClause) == First(condClause)
getCondActions(condClause)   == SliceFrom(condClause, 1)
isCondElseClause(condClause) == JSLooseEqStr(getCondPredicate(condClause), "else")

(* The right fold of the clauses into nested ifs; an else clause that is  *)
(* not the last one throws.                                                *)
RECURSIVE expandCondClauses(_)
expandCondClauses(condClauses) ==
  IF condClauses.arr = <<>> THEN Bool(FALSE)
  ELSE
    LET first == condClauses.arr[1]
        rest  == SliceFrom(condClauses, 1)
        alternative == expandCondClauses(rest)
    IN CASE isCondElseClause(first) /\ rest.arr # <<>> -> Throw("ElseNotLast")
         [] isCondElseClause(first)  -> sequenceExpression(getCondActions(first))
         [] IsThrow(alternative)     -> alternative
         [] OTHER -> makeIf(getCondPredicate(first),
                            sequenceExpression(getCondActions(first)),
                            alternative)

condToIf(condExpression) == expandCondClauses(SliceFrom(condExpression, 1))

=============================================================================
