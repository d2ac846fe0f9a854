------------------------------ MODULE ListsV1 ------------------------------
(***************************************************************************)
(* The first pair and list of note-3.js (lines 35-100): a pair is the      *)
(* array [x, y] and a list is a chain of pairs ending in null.  This is    *)
(* the behaviour the efficient implementation (module ListsV2) promises   *)
(* to keep.                                                                *)
(***************************************************************************)
EXTENDS PairValues

VARIABLES heap, call

vars == <<heap, call>>

pair(x, y) == Arr(<<x, y>>)
first(p)   == Index(p, 0)
rest(p)    == Index(p, 1)

(* for (k = arguments.length; k--;) result = pair(arguments[k], result)    *)
list(args) ==
  LET RECURSIVE Build(_, _)
      Build(result, k) == IF k = 0 THEN result ELSE Build(pair(args[k], result), k - 1)
  IN Build(Null, Len(args))

Apply(c) ==
  LET a == [i \in DOMAIN c.args |-> heap[c.args[i]]]
  IN CASE c.op = "pair"  -> pair(a[1], a[2])
       [] c.op = "first" -> first(a[1])
       [] c.op = "rest"  -> rest(a[1])
       [] c.op = "list"  -> list(a)

Init == heap \in Inputs /\ call = NoCall

(* The client calls a function on values it holds (not on an exception).  *)
Call ==
  /\ Len(heap) < MaxHeap
  /\ \E c \in Calls :
       /\ \A i \in DOMAIN c.args : c.args[i] <= Len(heap) /\ heap[c.args[i]] # Thrown
       /\ heap' = Append(heap, Apply(c))
       /\ call' = c

Spec == Init /\ [][Call]_vars

=============================================================================
