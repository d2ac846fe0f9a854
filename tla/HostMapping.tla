----------------------------- MODULE HostMapping -----------------------------
(***************************************************************************)
(* The part of a refinement mapping from an interpreter of lessons 4-7 to  *)
(* module LispSemantics that is the same for every lesson: the host's own  *)
(* properties are not bindings of the language, and the exceptions the    *)
(* code throws are the error kinds of spec.md.                             *)
(***************************************************************************)
EXTENDS Environment

(* The global frame of the language: the bindings a lesson installs in    *)
(* TheGlobalEnvironment, without the toString the code assigns to it.     *)
LanguageBindings(bindings) ==
  [n \in DOMAIN bindings \ {"toString"} |-> bindings[n]]

(* The Object.prototype frame and the global toString (while it is still *)
(* the native) are dropped, and the global frame has no parent.           *)
Visible(fr) ==
  [f \in 1..Len(fr) |->
     CASE f = ObjectPrototype ->
            [vars |-> [n \in {} |-> JSUndefined], parent |-> 0]
       [] f = TheGlobalEnvironment ->
            [vars |-> [n \in {k \in DOMAIN fr[f].vars :
                                ~(k = "toString" /\ fr[f].vars[k] = Native("toString"))}
                        |-> fr[f].vars[n]],
             parent |-> 0]
       [] OTHER -> fr[f]]

(* The status of the semantics for the exception the script ended with.  *)
ErrorKind(thrown) ==
  CASE thrown = "none"               -> "running"
    [] thrown = "ReferenceError"     -> "UnboundName"
    [] thrown = "CountMismatch"      -> "ArityMismatch"
    [] thrown = "ElseNotLast"        -> "MisplacedElse"
    [] thrown = "TypeError(null[0])" -> "NotCallable"
    [] thrown = "NotImplemented"     -> "NotCallable"
    [] OTHER                         -> "NativeError"

=============================================================================
