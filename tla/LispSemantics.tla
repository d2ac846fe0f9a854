---------------------------- MODULE LispSemantics ----------------------------
(***************************************************************************)
(* What the evaluator promises (spec.md sections 3, 4 and 7), stated as a  *)
(* big-step semantics: one step of this specification evaluates a whole   *)
(* top-level expression.  Ev(e, env, st) is the value of e in environment *)
(* env from store st, with the store after it, or the error that aborts   *)
(* the evaluation with the store at that point.                            *)
(*                                                                         *)
(* A store is [frames, out]: frames is a sequence of [vars, parent]        *)
(* (parent 0 for none) and out the output of the print procedure.  Frame   *)
(* 2 is the global frame and has no parent; frame 1 is reserved for the   *)
(* root object of an implementation and is never consulted.  A call       *)
(* appends one frame.  Values are encoded as in module JSValues; the      *)
(* native procedures are the implementation's (module Builtins), since   *)
(* the specification leaves their behaviour to the host.  Truthiness is   *)
(* the host's (section 9 leaves the falsy set open).                      *)
(***************************************************************************)
EXTENDS Builtins

CONSTANTS
  QuotedStrs,   \* the quoted-symbol literals
  Primitives,   \* the initial bindings of the global frame (natives, constants)
  Program,      \* the top-level expressions a script may evaluate
  MaxTopLevel   \* the number of top-level evaluations of a script

VARIABLES frames, out, result, status, count,
  evaluated   \* the top-level expression of the last step

vars == <<frames, out, result, status, count, evaluated>>

GlobalFrame == 2

InitialFrames ==
  << [vars |-> [n \in {} |-> JSUndefined], parent |-> 0],
     [vars |-> Primitives, parent |-> 0] >>

IsLiteral(e) ==
  \/ IsNum(e) \/ IsBool(e) \/ e = JSNull
  \/ IsStr(e) /\ e.str \in QuotedStrs
IsName(e) == IsStr(e) /\ e.str \in RegexNames
Tag(e) == IF IsArr(e) /\ e.arr # <<>> /\ IsStr(e.arr[1]) THEN e.arr[1].str ELSE ""

Ok(v, st)       == [val |-> v, st |-> st]
Err(kind, st)   == [err |-> kind, st |-> st]
IsErr(r)        == "err" \in DOMAIN r

(* The frame of the chain from f that owns name, or 0.                      *)
RECURSIVE Owner(_, _, _)
Owner(fr, f, name) ==
  CASE f = 0                      -> 0
    [] name \in DOMAIN fr[f].vars -> f
    [] OTHER                      -> Owner(fr, fr[f].parent, name)

Bind(st, f, name, v) == [st EXCEPT !.frames[f].vars = (name :> v) @@ @]

Compound(params, body, env) == [params |-> params, body |-> body, env |-> env]

(* cond as nested if / begin, the else clause last.                        *)
ActionsExp(as) ==
  CASE Len(as) = 0 -> JSNull
    [] Len(as) = 1 -> as[1]
    [] OTHER       -> Arr(<<Str("begin")>> \o as)

RECURSIVE Expand(_)
Expand(cs) ==
  IF cs = <<>> THEN Bool(FALSE)
  ELSE LET c == Head(cs) IN
       IF Tag(c) = "else"
       THEN IF Tail(cs) # <<>> THEN Err("MisplacedElse", <<>>) ELSE ActionsExp(Tail(c.arr))
       ELSE LET rest == Expand(Tail(cs))
            IN IF IsErr(rest) THEN rest
               ELSE Arr(<<Str("if"), c.arr[1], ActionsExp(Tail(c.arr)), rest>>)

RECURSIVE Ev(_, _, _), EvSeq(_, _, _, _), EvArgs(_, _, _, _), ApplyProc(_, _, _)

Ev(e, env, st) ==
  LET part(i) == IF i < Len(e.arr) THEN e.arr[i + 1] ELSE JSUndefined
      from(i)  == SubSeq(e.arr, i + 1, Len(e.arr))
  IN
  CASE IsLiteral(e) -> Ok(e, st)
    [] IsName(e) ->
         IF Owner(st.frames, env, e.str) = 0 THEN Err("UnboundName", st)
         ELSE Ok(st.frames[Owner(st.frames, env, e.str)].vars[e.str], st)
    [] Tag(e) = "define" /\ IsName(part(1)) ->
         LET r == Ev(part(2), env, st)
         IN IF IsErr(r) THEN r ELSE Ok(r.val, Bind(r.st, env, part(1).str, r.val))
    [] Tag(e) = "define" ->
         LET f == Compound(Arr(Tail(part(1).arr)), Arr(from(2)), env)
         IN Ok(f, Bind(st, env, Head(part(1).arr).str, f))
    [] Tag(e) = "set!" ->
         LET r == Ev(part(2), env, st)
             o == Owner(r.st.frames, env, part(1).str)
         IN CASE IsErr(r) -> r
              [] o = 0    -> Err("UnboundName", r.st)
              [] OTHER    -> Ok(r.val, Bind(r.st, o, part(1).str, r.val))
    [] Tag(e) = "lambda" -> Ok(Compound(part(1), Arr(from(2)), env), st)
    [] Tag(e) = "begin"  -> EvSeq(from(1), env, st, JSUndefined)
    [] Tag(e) = "if" ->
         LET p == Ev(part(1), env, st)
         IN CASE IsErr(p)          -> p
              [] JSTruthy(p.val)   -> Ev(part(2), env, p.st)
              [] Len(e.arr) >= 4   -> Ev(part(3), env, p.st)
              [] OTHER             -> Ok(Bool(FALSE), p.st)
    [] Tag(e) = "cond" ->
         LET x == Expand(from(1))
         IN IF IsErr(x) THEN Err("MisplacedElse", st) ELSE Ev(x, env, st)
    [] IsArr(e) /\ e.arr # <<>> ->
         LET op   == Ev(e.arr[1], env, st)
             args == EvArgs(from(1), env, op.st, <<>>)
         IN CASE IsErr(op)   -> op
              [] IsErr(args) -> args
              [] OTHER       -> ApplyProc(op.val, args.val, args.st)
    [] OTHER -> Err("MalformedExpression", st)

EvSeq(es, env, st, last) ==
  IF es = <<>> THEN Ok(last, st)
  ELSE LET r == Ev(Head(es), env, st)
       IN IF IsErr(r) THEN r ELSE EvSeq(Tail(es), env, r.st, r.val)

EvArgs(es, env, st, acc) ==
  IF es = <<>> THEN Ok(acc, st)
  ELSE LET r == Ev(Head(es), env, st)
       IN IF IsErr(r) THEN r ELSE EvArgs(Tail(es), env, r.st, Append(acc, r.val))

(* A compound procedure runs its body in one new frame binding each        *)
(* parameter, whose parent is the procedure's closure environment.         *)
ApplyProc(p, args, st) ==
  CASE IsNative(p) ->
         LET r == applyBuiltInFunction(p, args)
         IN IF IsThrow(r) THEN Err("NativeError", st)
            ELSE Ok(r.val, [st EXCEPT !.out = @ \o r.printed])
    [] IsFunctionObject(p) /\ Len(p.params.arr) # Len(args) -> Err("ArityMismatch", st)
    [] IsFunctionObject(p) ->
         LET names == [i \in 1..Len(args) |-> p.params.arr[i].str]
             frame == [vars |-> [n \in {names[i] : i \in 1..Len(args)} |->
                                   args[CHOOSE i \in 1..Len(args) : names[i] = n]],
                       parent |-> p.env]
         IN EvSeq(p.body.arr, Len(st.frames) + 1,
                  [st EXCEPT !.frames = Append(@, frame)], JSUndefined)
    [] OTHER -> Err("NotCallable", st)

-----------------------------------------------------------------------------
Init ==
  /\ frames = InitialFrames
  /\ out = <<>>
  /\ result = JSUndefined
  /\ status = "running"
  /\ count = 0
  /\ evaluated = JSUndefined

(* Evaluate one top-level expression in the global frame; an error ends   *)
(* the script.                                                             *)
Step ==
  /\ status = "running"
  /\ count < MaxTopLevel
  /\ \E s \in Program :
       LET r == Ev(s, GlobalFrame, [frames |-> frames, out |-> out])
       IN /\ frames' = r.st.frames
          /\ out' = r.st.out
          /\ count' = count + 1
          /\ evaluated' = s
          /\ IF IsErr(r) THEN status' = r.err /\ result' = result
             ELSE result' = r.val /\ status' = status

SafetySpec == Init /\ [][Step]_vars

(* A script does not stop while a top-level expression is left to run.    *)
Spec == SafetySpec /\ WF_vars(Step)

=============================================================================
