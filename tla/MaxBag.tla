------------------------------- MODULE MaxBag -------------------------------
(***************************************************************************)
(* What MaxHeap promises (include/maxheap.h): a bag of values of which the *)
(* largest can be read, taken out or replaced; there is none in an empty   *)
(* one, and asking for it throws.  Nothing is said of order inside it, nor *)
(* of how long an operation takes.                                         *)
(***************************************************************************)
EXTENDS Integers

CONSTANTS
  Values,    \* the values stored
  NoValue    \* not a value: nothing was returned

VARIABLES
  bag,       \* how many copies of each value there are
  top        \* the value last returned, NoValue if the operation threw

vars == <<bag, top>>

EmptyBag == [v \in Values |-> 0]

Plus(b, v) == [b EXCEPT ![v] = @ + 1]
Minus(b, v) == [b EXCEPT ![v] = @ - 1]

Largest(v) == bag[v] > 0 /\ \A u \in Values : u > v => bag[u] = 0

Init == bag = EmptyBag /\ top = NoValue

Push(v) == bag' = Plus(bag, v) /\ UNCHANGED top

Peek == \E v \in Values : Largest(v) /\ top' = v /\ UNCHANGED bag

Pop == \E v \in Values : Largest(v) /\ top' = v /\ bag' = Minus(bag, v)

ReplaceTop(new) ==
  \E v \in Values : Largest(v) /\ bag' = Plus(Minus(bag, v), new) /\ UNCHANGED top

Throw == bag = EmptyBag /\ top' = NoValue /\ UNCHANGED bag

Clear == bag' = EmptyBag /\ UNCHANGED top

Next ==
  \/ \E v \in Values : Push(v) \/ ReplaceTop(v)
  \/ Peek \/ Pop \/ Throw \/ Clear

Spec == Init /\ [][Next]_vars
=============================================================================
