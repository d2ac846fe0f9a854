------------------------------ MODULE ListsV2 ------------------------------
(***************************************************************************)
(* The efficient pair, first, rest and list of note-3.js (lines 176-247): *)
(* a pair whose second component is an array is that array with the first *)
(* component in front, so that (list 1 2 3) is the flat array             *)
(* [1, 2, 3, null]; rest slices such an array.                              *)
(***************************************************************************)
EXTENDS PairValues

VARIABLES heap, call

vars == <<heap, call>>

(* if (Array.isArray(y)) return [x].concat(y); return [x, y]               *)
pair(x, y) == IF IsArr(y) THEN Arr(<<x>> \o y.arr) ELSE Arr(<<x, y>>)

first(p) == Index(p, 0)

(* Mutant: an array of two elements is sliced as well.                     *)
restSliceTwo(p) ==
  CASE p \in {Null, Undefined}           -> Thrown
    [] IsArr(p) /\ Len(p.arr) >= 2       -> Arr(Tail(p.arr))
    [] OTHER                             -> Index(p, 1)

(* pair.length (a TypeError for null and undefined); longer than 2: the    *)
(* slice from the second element (the statement "tail[1]" has no effect); *)
(* else pair[1].                                                           *)
rest(p) ==
  CASE p \in {Null, Undefined}           -> Thrown
    [] IsArr(p) /\ Len(p.arr) > 2        -> Arr(Tail(p.arr))
    [] OTHER                             -> Index(p, 1)

(* [].slice.call(arguments, 0), then result.push(null).                    *)
list(args) == Arr(args \o <<Null>>)

Apply(c) ==
  LET a == [i \in DOMAIN c.args |-> heap[c.args[i]]]
  IN CASE c.op = "pair"  -> pair(a[1], a[2])
       [] c.op = "first" -> first(a[1])
       [] c.op = "rest"  -> rest(a[1])
       [] c.op = "list"  -> list(a)

Init == heap \in Inputs /\ call = NoCall

(* The client calls a function on values it holds (not on an exception).  *)
Call ==
  /\ Len(heap) < MaxHeap
  /\ \E c \in Calls :
       /\ \A i \in DOMAIN c.args : c.args[i] <= Len(heap) /\ heap[c.args[i]] # Thrown
       /\ heap' = Append(heap, Apply(c))
       /\ call' = c

Spec == Init /\ [][Call]_vars

-----------------------------------------------------------------------------
(* The linked structure a value of this implementation stands for: an     *)
(* array of more than two elements is the pair of its first element and   *)
(* the rest; the one-element [null] of list() is the empty list null.      *)
RECURSIVE Linked(_)
Linked(v) ==
  CASE ~IsArr(v)        -> v
    [] Len(v.arr) = 1   -> Null
    [] Len(v.arr) = 2   -> Arr(<<Linked(v.arr[1]), Linked(v.arr[2])>>)
    [] Len(v.arr) > 2   -> Arr(<<Linked(v.arr[1]), Linked(Arr(Tail(v.arr)))>>)
    [] OTHER            -> v

=============================================================================
