------------------------------ MODULE Builtins ------------------------------
(***************************************************************************)
(* The native procedures of TheGlobalEnvironment (lessons 4-7), the host   *)
(* functions every environment inherits from Object.prototype, and         *)
(* applyBuiltInFunction, which calls a native with this = null.            *)
(*                                                                         *)
(* A call returns [val |-> v, printed |-> p] where p is what console.log   *)
(* wrote (a sequence of argument lists), or [thrown |-> kind] when the     *)
(* native throws.                                                          *)
(***************************************************************************)
EXTENDS JSValues

CONSTANT
  GlobalBindings  \* what extendJSObject installs in TheGlobalEnvironment,
                  \* plus its own toString; each lesson has its own set

(* The names own by Object.prototype that the model keeps, and the one    *)
(* the code adds to TheGlobalEnvironment itself (its toString).            *)
ObjectPrototypeNames == {"constructor", "hasOwnProperty", "valueOf", "toString"}

(* Number(v) for the comparison ">": a singleton, or {} for NaN.           *)
ToNumeric(v) ==
  CASE IsNum(v)   -> {v.num}
    [] IsBool(v)  -> IF v.bool THEN {1} ELSE {0}
    [] v = JSNull -> {0}
    [] OTHER      -> {}

(* [].reduce.call(args, f) without an initial value, for the reducers     *)
(* "+", "-" and (lessons 5 and 6) "*": a TypeError on no                   *)
(* arguments; on numbers the fold of op; anything else (string             *)
(* concatenation, NaN) is a value the model does not track.                *)
ReduceNumbers(args, op) ==
  LET Combine(a, b) == CASE op = "+" -> a + b [] op = "-" -> a - b [] op = "*" -> a * b
      RECURSIVE Fold(_, _)
      Fold(acc, i) == IF i > Len(args) THEN acc ELSE Fold(Combine(acc, args[i].num), i + 1)
  IN CASE args = <<>>                             -> Throw("TypeError")
       [] \A i \in 1..Len(args) : IsNum(args[i])  -> Returned(Num(Fold(args[1].num, 2)))
       [] OTHER                                   -> Returned(JSOther)

(* The lesson-4 natives "/", "min", "max" and "abs" (Number() of each    *)
(* argument; a string is a quoted symbol or the global toString, NaN).     *)
(* An integer result is tracked; a fraction, an infinity or NaN is a       *)
(* value the model does not track.  Once a quotient of the reduce is not  *)
(* an integer, dividing it by an integer never makes it one again.         *)
Lesson4Math(name, args) ==
  LET used == IF name = "abs" /\ args # <<>> THEN {1} ELSE 1..Len(args)
      ok   == \A i \in used : ToNumeric(args[i]) # {}
      n(i) == CHOOSE x \in ToNumeric(args[i]) : TRUE
      ns   == {n(i) : i \in 1..Len(args)}
      RECURSIVE Quot(_, _)
      \* the quotient as a singleton, {} once it is not an integer
      Quot(acc, i) == CASE acc = {} \/ i > Len(args) -> acc
                        [] \E q \in acc : n(i) # 0 /\ q % n(i) = 0 ->
                             Quot({q \div n(i) : q \in acc}, i + 1)
                        [] OTHER -> {}
      AsNumber(r) == IF r = {} THEN JSOther ELSE Num(CHOOSE q \in r : TRUE)
  IN CASE name = "/" /\ args = <<>>  -> Throw("TypeError")
       [] ~ok                        -> Returned(JSOther)
       [] name = "/" /\ Len(args) = 1 -> Returned(AsNumber(Quot({1}, 1)))
       [] name = "/"                 -> Returned(AsNumber(Quot({n(1)}, 2)))
       [] args = <<>>                -> Returned(JSOther)
       [] name = "min" -> Returned(Num(CHOOSE x \in ns : \A y \in ns : x <= y))
       [] name = "max" -> Returned(Num(CHOOSE x \in ns : \A y \in ns : x >= y))
       [] name = "abs" -> Returned(Num(IF n(1) < 0 THEN -n(1) ELSE n(1)))

(* a === b; objects (arrays, functions) are compared by structure, not by  *)
(* identity.                                                               *)
StrictEquals(a, b) == a = b

Arg(args, i) == IF i <= Len(args) THEN args[i] ELSE JSUndefined

applyBuiltInFunction(procedure, args) ==
  LET a == Arg(args, 1)
      b == Arg(args, 2)
  IN CASE procedure.native = ">" ->
            IF IsStr(a) /\ IsStr(b) THEN Returned(JSOther)
            ELSE Returned(Bool(\E x \in ToNumeric(a), y \in ToNumeric(b) : x > y))
       [] procedure.native = "="     -> Returned(Bool(StrictEquals(a, b)))
       [] procedure.native = "null?" -> Returned(Bool(a = JSNull))
       [] procedure.native = "+"     -> ReduceNumbers(args, "+")
       [] procedure.native = "*"     -> ReduceNumbers(args, "*")
       [] procedure.native = "-" ->
            IF Len(args) = 1
            THEN Returned(IF IsNum(a) THEN Num(-a.num) ELSE JSOther)
            ELSE ReduceNumbers(args, "-")
       [] procedure.native \in {"/", "min", "max", "abs"} ->
            Lesson4Math(procedure.native, args)
       [] procedure.native = "print" -> [val |-> JSUndefined, printed |-> <<args>>]
       \* TheGlobalEnvironment.toString = function () {...}
       [] procedure.native = "toString" -> Returned(Str("[object TheGlobalEnvironment]"))
       \* Object(...) builds a fresh object
       [] procedure.native = "constructor" -> Returned(JSOther)
       \* hasOwnProperty and valueOf convert this = null to an object
       [] OTHER -> Throw("TypeError")

ObjectPrototypeBindings == [n \in ObjectPrototypeNames |-> Native(n)]

=============================================================================
