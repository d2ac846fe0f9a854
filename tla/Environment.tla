---------------------------- MODULE Environment ----------------------------
(***************************************************************************)
(* Environments of the interpreter (lessons 5-7): JS objects chained by    *)
(* their prototypes.  The heap of environment objects is a sequence        *)
(* "frames" of [vars |-> own properties, parent |-> prototype], where a    *)
(* parent 0 stands for null.  Frame 1 is Object.prototype, which           *)
(* TheGlobalEnvironment = {} inherits from; frame 2 is TheGlobalEnvironment.*)
(* Object.create(parent) appends a frame.                                  *)
(*                                                                         *)
(* A variable is used as a property key, i.e. converted with String().     *)
(***************************************************************************)
EXTENDS Builtins

ObjectPrototype      == 1
TheGlobalEnvironment == 2

InitialFrames ==
  << [vars |-> ObjectPrototypeBindings, parent |-> 0],
     [vars |-> GlobalBindings, parent |-> ObjectPrototype] >>

Key(variable) == JSToString(variable)

(* variable in environment: a property anywhere on the prototype chain.   *)
RECURSIVE InEnvironment(_, _, _)
InEnvironment(frames, f, key) ==
  /\ f # 0
  /\ \/ key \in DOMAIN frames[f].vars
     \/ InEnvironment(frames, frames[f].parent, key)

(* environment[variable]: the nearest frame's own property.                *)
RECURSIVE Get(_, _, _)
Get(frames, f, key) ==
  IF key \in DOMAIN frames[f].vars THEN frames[f].vars[key]
  ELSE Get(frames, frames[f].parent, key)

lookupVariableValue(frames, variable, environment) ==
  IF InEnvironment(frames, environment, Key(variable))
  THEN Get(frames, environment, Key(variable))
  ELSE Throw("ReferenceError")

(* environment[variable] = value: an own property of that frame.           *)
SetOwn(frames, f, key, value) ==
  [frames EXCEPT ![f].vars = (key :> value) @@ @]

defineVariable(frames, variable, value, environment) ==
  SetOwn(frames, environment, Key(variable), value)

(* Object.create(parentEnvironment), then the binding loop, which runs    *)
(* from the last parameter to the first: of two equal parameter names the *)
(* first one's argument is the one left bound.                             *)
extendEnvironment(frames, variables, values, parentEnvironment) ==
  LET names == variables.arr
      keys  == {Key(names[i]) : i \in 1..Len(names)}
      FirstIndex(k) == CHOOSE i \in 1..Len(names) :
                         /\ Key(names[i]) = k
                         /\ \A j \in 1..(i - 1) : Key(names[j]) # k
  IN IF Len(names) # Len(values)
     THEN Throw("CountMismatch")
     ELSE [frames |-> Append(frames,
                             [vars   |-> [k \in keys |-> values[FirstIndex(k)]],
                              parent |-> parentEnvironment]),
           env    |-> Len(frames) + 1]

(* environment.hasOwnProperty(variable) inside setVariableValue: the      *)
(* method itself is looked up on the chain, so a program binding of the   *)
(* name "hasOwnProperty" replaces it.  valueOf returns the (truthy)        *)
(* environment object; other natives run as when a program calls them.    *)
CallOwnCheck(frames, f, key, variable) ==
  LET method == IF InEnvironment(frames, f, "hasOwnProperty")
                THEN Get(frames, f, "hasOwnProperty") ELSE JSUndefined
  IN CASE method = Native("hasOwnProperty") ->
            Returned(Bool(key \in DOMAIN frames[f].vars))
       [] method = Native("valueOf") -> Returned(JSOther)
       [] IsNative(method)           -> applyBuiltInFunction(method, <<variable>>)
       [] OTHER                      -> Throw("TypeError")

(* The do-while loop of setVariableValue: the first frame whose own-check *)
(* is truthy, or 0 when the loop runs off the end of the chain.            *)
RECURSIVE FindOwner(_, _, _, _, _)
FindOwner(frames, f, key, variable, printed) ==
  IF f = 0 THEN [frame |-> 0, printed |-> printed]
  ELSE LET r == CallOwnCheck(frames, f, key, variable)
       IN IF IsThrow(r) THEN r
          ELSE IF JSTruthy(r.val)
               THEN [frame |-> f, printed |-> printed \o r.printed]
               ELSE FindOwner(frames, frames[f].parent, key, variable,
                              printed \o r.printed)

setVariableValue(frames, variable, value, environment) ==
  LET key   == Key(variable)
      owner == FindOwner(frames, environment, key, variable, <<>>)
  IN CASE ~InEnvironment(frames, environment, key) -> Throw("ReferenceError")
       [] IsThrow(owner)                           -> owner
       \* null[variable] = value
       [] owner.frame = 0                          -> Throw("TypeError")
       [] OTHER -> [frames  |-> SetOwn(frames, owner.frame, key, value),
                    printed |-> owner.printed]

=============================================================================
