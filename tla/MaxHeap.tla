------------------------------ MODULE MaxHeap ------------------------------
(***************************************************************************)
(* A MaxHeap (src/maxheap.cpp): a vector in heap order.  The positions     *)
(* start at 0, as in the code.  push, pop and replace_top leave one value  *)
(* out of place; each iteration of sift_up or sift_down moves it by one    *)
(* level.                                                                  *)
(***************************************************************************)
EXTENDS Integers, FiniteSets

CONSTANTS
  Values,     \* the values stored
  NoValue,    \* not a value: nothing was returned
  Capacities, \* the capacities a heap may be constructed with
  MaxSize     \* bounds how many values are pushed

ASSUME MaxHeapAssumption ==
  /\ Values \subseteq Nat
  /\ NoValue \notin Values
  /\ Capacities \subseteq Nat
  /\ MaxSize \in Nat

VARIABLES
  data_,      \* the vector: a function on its positions
  size,       \* its size
  capacity_,
  sifting,    \* the loop that runs: "no", "up" or "down"
  i,          \* the position of the value it moves
  top         \* the value last returned by peek or pop, NoValue if one threw

vars == <<data_, size, capacity_, sifting, i, top>>

Positions == 0 .. size - 1

parent(p) == (p - 1) \div 2
left_child(p) == 2 * p + 1
right_child(p) == 2 * p + 2

empty == size = 0
full == size = capacity_

Init ==
  /\ data_ = [p \in {} |-> NoValue]
  /\ size = 0
  /\ capacity_ \in Capacities
  /\ sifting = "no"
  /\ i = 0
  /\ top = NoValue

-----------------------------------------------------------------------------
(* The operations                                                          *)

\* push does not look at the capacity.
push(v) ==
  /\ sifting = "no"
  /\ size < MaxSize
  /\ size' = size + 1
  /\ data_' = [p \in 0 .. size |-> IF p = size THEN v ELSE data_[p]]
  /\ sifting' = "up"
  /\ i' = size
  /\ UNCHANGED <<capacity_, top>>

\* Mutant of pop: a heap that has become empty is sifted too.
PopSiftsNothing ==
  /\ sifting = "no"
  /\ ~empty
  /\ top' = data_[0]
  /\ size' = size - 1
  /\ data_' = [p \in 0 .. size - 2 |-> IF p = 0 THEN data_[size - 1] ELSE data_[p]]
  /\ sifting' = "down"
  /\ i' = 0
  /\ UNCHANGED capacity_

\* The last value takes the place of the first.
pop ==
  /\ sifting = "no"
  /\ ~empty
  /\ top' = data_[0]
  /\ size' = size - 1
  /\ data_' = [p \in 0 .. size - 2 |-> IF p = 0 THEN data_[size - 1] ELSE data_[p]]
  /\ sifting' = IF size = 1 THEN "no" ELSE "down"
  /\ i' = 0
  /\ UNCHANGED capacity_

peek ==
  /\ sifting = "no"
  /\ ~empty
  /\ top' = data_[0]
  /\ UNCHANGED <<data_, size, capacity_, sifting, i>>

replace_top(v) ==
  /\ sifting = "no"
  /\ ~empty
  /\ data_' = [data_ EXCEPT ![0] = v]
  /\ sifting' = "down"
  /\ i' = 0
  /\ UNCHANGED <<size, capacity_, top>>

\* pop, peek and replace_top throw on an empty heap, which stays as it is.
ThrowOutOfRange ==
  /\ sifting = "no"
  /\ empty
  /\ top' = NoValue
  /\ UNCHANGED <<data_, size, capacity_, sifting, i>>

clear ==
  /\ sifting = "no"
  /\ data_' = [p \in {} |-> NoValue]
  /\ size' = 0
  /\ UNCHANGED <<capacity_, sifting, i, top>>

\* Another heap is move-constructed or move-assigned from this one.
MovedFrom ==
  /\ sifting = "no"
  /\ data_' = [p \in {} |-> NoValue]
  /\ size' = 0
  /\ capacity_' = 0
  /\ UNCHANGED <<sifting, i, top>>

-----------------------------------------------------------------------------
(* The iterations of the loops                                             *)

\* Mutant of Swap: one of the two values is lost.
Overwrite(p, q) == data_' = [data_ EXCEPT ![p] = data_[q]]

Swap(p, q) == data_' = [data_ EXCEPT ![p] = data_[q], ![q] = data_[p]]

LargerThanParent == i > 0 /\ data_[parent(i)] < data_[i]

sift_up ==
  /\ sifting = "up"
  /\ LargerThanParent
  /\ Swap(parent(i), i)
  /\ i' = parent(i)
  /\ UNCHANGED <<size, capacity_, sifting, top>>

sift_up_done ==
  /\ sifting = "up"
  /\ ~LargerThanParent
  /\ sifting' = "no"
  /\ UNCHANGED <<data_, size, capacity_, i, top>>

\* Mutant of Larger: the right child is not compared.
LargerLeft(p) == {c \in {left_child(p)} : c < size /\ data_[c] > data_[p]}

\* The children of p that hold more than it does.
Larger(p) == {c \in {left_child(p), right_child(p)} : c < size /\ data_[c] > data_[p]}

\* The left child is taken unless the right one holds more.
sift_down ==
  /\ sifting = "down"
  /\ \E largest \in Larger(i) :
       /\ \A c \in Larger(i) :
            /\ data_[c] <= data_[largest]
            /\ data_[c] = data_[largest] => largest <= c
       /\ Swap(i, largest)
       /\ i' = largest
  /\ UNCHANGED <<size, capacity_, sifting, top>>

\* Mutant of sift_down_done: the loop ends only at a leaf.
sift_down_to_leaf ==
  /\ sifting = "down"
  /\ left_child(i) >= size
  /\ sifting' = "no"
  /\ UNCHANGED <<data_, size, capacity_, i, top>>

sift_down_done ==
  /\ sifting = "down"
  /\ Larger(i) = {}
  /\ sifting' = "no"
  /\ UNCHANGED <<data_, size, capacity_, i, top>>

Sift == sift_up \/ sift_up_done \/ sift_down \/ sift_down_done

Next ==
  \/ \E v \in Values : push(v) \/ replace_top(v)
  \/ pop \/ peek \/ ThrowOutOfRange \/ clear \/ MovedFrom
  \/ Sift

Spec == Init /\ [][Next]_vars

\* An operation runs to its end before its caller goes on.
FairSpec == Spec /\ WF_vars(Sift)
-----------------------------------------------------------------------------
(* Properties                                                              *)

\* The types of the variables.
TypeOK ==
  /\ size \in 0 .. MaxSize
  /\ data_ \in [Positions -> Values]
  /\ capacity_ \in Capacities \cup {0}
  /\ sifting \in {"no", "up", "down"}
  /\ i \in Nat
  /\ sifting # "no" => i \in Positions
  /\ top \in Values \cup {NoValue}

\* Between operations no value is larger than its parent.
HeapOrder ==
  sifting = "no" => \A p \in Positions \ {0} : data_[p] <= data_[parent(p)]

\* Between operations the first position holds the largest value: what peek and
\* pop return, and replace_top replaces.
RootIsLargest ==
  sifting = "no" => \A p \in Positions : data_[p] <= data_[0]

\* Every operation ends.
OperationsEnd == [](sifting # "no" => <>(sifting = "no"))

\* The heap is a bag of values whose largest is the one at hand: sifting loses
\* and doubles none.
Promise == INSTANCE MaxBag
  WITH bag <- [v \in Values |-> Cardinality({p \in Positions : data_[p] = v})]
PromiseSpec == Promise!Spec
-----------------------------------------------------------------------------
(* The inductive invariant                                                 *)

\* Only the value that moves is out of order, and the values below it are in
\* order with the one above it.
AllButOne ==
  /\ sifting = "up" =>
       \A p \in Positions \ {0} :
         /\ p # i => data_[p] <= data_[parent(p)]
         /\ parent(p) = i /\ i > 0 => data_[p] <= data_[parent(i)]
  /\ sifting = "down" =>
       \A p \in Positions \ {0} :
         /\ parent(p) # i => data_[p] <= data_[parent(p)]
         /\ parent(p) = i /\ i > 0 => data_[p] <= data_[parent(i)]

IInv == TypeOK /\ HeapOrder /\ AllButOne
=============================================================================
