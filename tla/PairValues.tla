----------------------------- MODULE PairValues -----------------------------
(***************************************************************************)
(* The JS values the pair and list functions of note-3.js                  *)
(* (src/CS-61A/src/notes/note-3.js) take and return: numbers, null,        *)
(* undefined and arrays, and the TypeError a property read of null or     *)
(* undefined throws.  Both implementations of module ListsV1 and ListsV2   *)
(* are read by a client that keeps every value it has obtained in a heap  *)
(* and calls one function at a time on values of the heap.                 *)
(***************************************************************************)
EXTENDS Integers, Sequences

CONSTANTS
  Inputs,       \* the heaps of values the client can start with
  ListArities,  \* the numbers of arguments list is called with
  MaxHeap       \* the most values the client keeps

Num(n)    == [num |-> n]
Null      == [js |-> "null"]
Undefined == [js |-> "undefined"]
Arr(s)    == [arr |-> s]
IsArr(v)  == "arr" \in DOMAIN v
Thrown    == [thrown |-> "TypeError"]

(* v[i] (0-based): a TypeError for null and undefined, undefined past the  *)
(* end of an array and for a number.                                       *)
Index(v, i) ==
  CASE v \in {Null, Undefined}      -> Thrown
    [] IsArr(v) /\ i < Len(v.arr)   -> v.arr[i + 1]
    [] OTHER                        -> Undefined

(* The calls the client can make: a function name and heap positions.     *)
Calls ==
  UNION {[op : {"pair"}, args : [1..2 -> 1..MaxHeap]],
         [op : {"first", "rest"}, args : [1..1 -> 1..MaxHeap]],
         [op : {"list"}, args : UNION {[1..n -> 1..MaxHeap] : n \in ListArities}]}

NoCall == [op |-> "none", args |-> <<>>]

=============================================================================
