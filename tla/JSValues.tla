------------------------------ MODULE JSValues ------------------------------
(***************************************************************************)
(* The JavaScript values the interpreter of the "Essentials of             *)
(* interpretation" lessons manipulates, and the implicit conversions its  *)
(* code relies on.  The interpreter represents programs as JS values too:  *)
(* numbers, strings and (nested) arrays produced by the s-expression       *)
(* parser of note-2, so expressions and runtime values share one encoding. *)
(*                                                                         *)
(* Every value is a record whose single field name is its JS type, so TLC  *)
(* can compare any two values (records with different fields are unequal). *)
(*   [num |-> n]        a number (only integers occur in the programs)    *)
(*   [str |-> s]        a string: a name, a tag word or a 'quoted symbol  *)
(*   [arr |-> seq]      an array: an AST node                              *)
(*   [bool |-> b]       true / false                                       *)
(*   [js |-> "null"]    null;  [js |-> "undefined"]  undefined             *)
(*   [native |-> name]  a JS function (a built-in)                         *)
(*   [params, body, env] a user-defined function object (makeFunction)    *)
(*   [other |-> TRUE]   a value outside what the model tracks (a string   *)
(*                      concatenation or NaN produced by a built-in)       *)
(*                                                                         *)
(* Strings are atomic in TLC, so the character-level tests of the code    *)
(* (the variable regex, Number(string)) are decided by membership in the  *)
(* constant sets below, which the MC module fixes for the strings its     *)
(* programs contain.                                                       *)
(***************************************************************************)
EXTENDS Integers, Sequences, TLC

CONSTANTS
  RegexNames,   \* the strings of the model matching /^([a-z-A-Z0-9_$+*/\-?!=><])+$/
  NumericStrs   \* the strings of the model for which Number(s) is not NaN

Num(n)  == [num |-> n]
Str(s)  == [str |-> s]
Arr(s)  == [arr |-> s]
Bool(b) == [bool |-> b]
JSNull      == [js |-> "null"]
JSUndefined == [js |-> "undefined"]
Native(n) == [native |-> n]
JSOther == [other |-> TRUE]

IsNum(v)     == "num" \in DOMAIN v
IsStr(v)     == "str" \in DOMAIN v
IsArr(v)     == "arr" \in DOMAIN v
IsBool(v)    == "bool" \in DOMAIN v
IsNullish(v) == "js" \in DOMAIN v
IsNative(v)  == "native" \in DOMAIN v
IsFunctionObject(v) == "params" \in DOMAIN v

(* String(v): used where the code passes a value to a regex test or uses  *)
(* it as a property key.  Arrays join their elements with ","; null and   *)
(* undefined elements become "".  A function object is the array          *)
(* ["function", parameters, body].                                         *)
RECURSIVE JSToString(_)
JSToString(v) ==
  LET Elem(x) == IF IsNullish(x) THEN "" ELSE JSToString(x)
      RECURSIVE Join(_)
      Join(s) == IF s = <<>> THEN ""
                 ELSE IF Len(s) = 1 THEN Elem(Head(s))
                 ELSE Elem(Head(s)) \o "," \o Join(Tail(s))
  IN CASE IsNum(v)            -> ToString(v.num)
       [] IsStr(v)            -> v.str
       [] IsArr(v)            -> Join(v.arr)
       [] IsBool(v)           -> IF v.bool THEN "true" ELSE "false"
       [] IsNullish(v)        -> v.js
       [] IsNative(v)         -> "function () { [native code] }"
       [] IsFunctionObject(v) -> Join(<<Str("function"), v.params, v.body>>)
       [] OTHER               -> "[other]"

(* isNaN(v): Number(v) after ToPrimitive.                                 *)
JSIsNaN(v) ==
  CASE IsNum(v) \/ IsBool(v) \/ v = JSNull -> FALSE
    [] v = JSUndefined                      -> TRUE
    [] IsStr(v) \/ IsArr(v)                 -> JSToString(v) \notin NumericStrs
    [] OTHER                                -> TRUE

(* ToBoolean(v): the truthiness "if" and "||" use.                        *)
JSTruthy(v) ==
  CASE IsNum(v)     -> v.num # 0
    [] IsBool(v)    -> v.bool
    [] IsNullish(v) -> FALSE
    [] IsStr(v)     -> v.str # ""
    [] OTHER        -> TRUE

(* x == s for a string s (loose equality): objects are converted by       *)
(* ToPrimitive, numbers compare with Number(s), null/undefined never      *)
(* equal a string.                                                         *)
JSLooseEqStr(x, s) ==
  CASE IsStr(x)                               -> x.str = s
    [] IsArr(x) \/ IsFunctionObject(x)        -> JSToString(x) = s
    [] IsNum(x)                               -> s \in NumericStrs /\ ToString(x.num) = s
    [] OTHER                                  -> FALSE

(* e[0]: the first element of an array, undefined otherwise (strings of  *)
(* one character never occur as tags, so a string's first character      *)
(* never equals a tag word).                                               *)
First(e) == IF IsArr(e) /\ e.arr # <<>> THEN e.arr[1] ELSE JSUndefined

(* e[i] (0-based) of an array, undefined past its end.                    *)
At(e, i) == IF i < Len(e.arr) THEN e.arr[i + 1] ELSE JSUndefined

(* A thrown JS exception, as the result of an operation that may throw,   *)
(* and the normal result of a call: its value and what it printed.         *)
Throw(kind) == [thrown |-> kind]
IsThrow(r)  == "thrown" \in DOMAIN r
Returned(v) == [val |-> v, printed |-> <<>>]

(* e.slice(i) of an array.                                                 *)
SliceFrom(e, i) == Arr(SubSeq(e.arr, i + 1, Len(e.arr)))

=============================================================================
