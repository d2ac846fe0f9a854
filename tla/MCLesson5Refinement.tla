------------------------- MODULE MCLesson5Refinement -------------------------
(***************************************************************************)
(* The lesson-5 interpreter (module Lesson5), on the programs of its test *)
(* script, shown to implement the semantics of module LispSemantics: with *)
(* every function defined at top level, extending TheGlobalEnvironment is *)
(* extending the closure environment.                                      *)
(***************************************************************************)
EXTENDS MCLesson5, HostMapping

(* The pool of the violation run: a local definition whose value reads a  *)
(* parameter the global x shadows.                                         *)
LocalDefinePool == {DefX10, DefTwice, CallTwice}

(* History variable: the store when the running top-level evaluation      *)
(* started, its expression and the one before it (see MCLispRefinement). *)
VARIABLE snap

MCInit5 == Init /\ snap = [frames |-> frames, out |-> out, exp |-> JSUndefined, prev |-> JSUndefined]

MCNext5 ==
  /\ Next5
  /\ snap' = IF ctl = Idle /\ ctl' # Idle
             THEN [frames |-> frames, out |-> out, exp |-> ctl'.exp, prev |-> snap.exp]
             ELSE snap

MCSpec5 == MCInit5 /\ [][MCNext5]_<<vars, snap>>

Abs == INSTANCE LispSemantics WITH
         frames <- Visible(IF Busy THEN snap.frames ELSE frames),
         out    <- IF Busy THEN snap.out ELSE out,
         count  <- IF Busy THEN count - 1 ELSE count,
         evaluated <- IF Busy THEN snap.prev ELSE snap.exp,
         result <- result,
         status <- ErrorKind(thrown),
         Primitives <- LanguageBindings(GlobalBindings)

(* Refinement: every lesson-5 script is a run of the language semantics   *)
(* of spec.md: each top-level evaluate ends with the value, bindings,     *)
(* output and error the semantics gives it (a call's frame binds the      *)
(* parameters over the globals, local definitions stay in the call's      *)
(* frame, set! writes the nearest binding).                                *)
Refinement == Abs!SafetySpec

=============================================================================
