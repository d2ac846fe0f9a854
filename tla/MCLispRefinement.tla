---------------------------- MODULE MCLispRefinement ----------------------------
(***************************************************************************)
(* The interpreter of module Evaluator, on the program pool of            *)
(* MCEvaluator, shown to implement the semantics of module LispSemantics. *)
(***************************************************************************)
EXTENDS MCEvaluator, HostMapping

(* The program pools of the violation runs: each adds to (define x 1) one *)
(* program of MCEvaluator on which the code departs from spec.md.         *)
ZeroArgPool      == {DefX, DefTick, CallTick}
CondActionsPool  == {DefX, CondTwoActions}
FalsyAltPool     == {DefX, IfZero}
FallsOffEndPool  == {DefX, CallX, PrintHashT}
HostNamePool     == {DefX, DefHasOwn, DefInc, CallInc}
HostBindingPool  == {DefX, PrintConstructor}

(* History variable: the store when the running top-level evaluation      *)
(* started, its expression (exp) and the one evaluated before it (prev).  *)
(* The abstract semantics evaluates a top-level expression in one step;  *)
(* until the concrete evaluation ends, the abstract state is the one      *)
(* before it, so the expression it last evaluated is prev.                *)
VARIABLE snap

MCInit == Init /\ snap = [frames |-> frames, out |-> out, exp |-> JSUndefined, prev |-> JSUndefined]

MCNext ==
  /\ Next
  /\ snap' = IF ctl = Idle /\ ctl' # Idle
             THEN [frames |-> frames, out |-> out, exp |-> ctl'.exp, prev |-> snap.exp]
             ELSE snap

MCSpec == MCInit /\ [][MCNext]_<<vars, snap>>

Abs == INSTANCE LispSemantics WITH
         frames <- Visible(IF Busy THEN snap.frames ELSE frames),
         out    <- IF Busy THEN snap.out ELSE out,
         count  <- IF Busy THEN count - 1 ELSE count,
         evaluated <- IF Busy THEN snap.prev ELSE snap.exp,
         result <- result,
         status <- ErrorKind(thrown),
         Primitives <- LanguageBindings(GlobalBindings)

(* Refinement: every script run by the interpreter is a run of the        *)
(* language semantics of spec.md: each top-level evaluate ends with the   *)
(* value, the bindings, the printed output and the error the semantics    *)
(* gives the expression (closures see the frame they were made in, set!   *)
(* writes the nearest binding, arguments run left to right).              *)
Refinement == Abs!SafetySpec

=============================================================================
