--------------------------- MODULE MaxHeapProofs ---------------------------
(***************************************************************************)
(* Proofs about MaxHeap, for heaps of every size and sets of values of     *)
(* every kind.                                                             *)
(***************************************************************************)
EXTENDS MaxHeap, FiniteSetTheorems, WellFoundedInduction, TLAPS

\* A position is a child of its parent, and comes after it.
LEMMA ParentFacts ==
  /\ \A p \in Nat \ {0} :
       /\ parent(p) \in Nat /\ parent(p) < p
       /\ p = left_child(parent(p)) \/ p = right_child(parent(p))
  /\ \A q \in Nat : /\ left_child(q) \in Nat \ {0} /\ right_child(q) \in Nat \ {0}
                    /\ q < left_child(q) /\ q < right_child(q)
                    /\ parent(left_child(q)) = q /\ parent(right_child(q)) = q
BY SMTT(30) DEF parent, left_child, right_child

LEMMA PositionFacts ==
  ASSUME TypeOK
  PROVE  /\ size \in Nat
         /\ \A p \in Positions : p \in Nat /\ data_[p] \in Values /\ data_[p] \in Nat
         /\ \A p \in Positions \ {0} : p \in Nat \ {0} /\ parent(p) \in Positions
<1>1. size \in Nat /\ Values \subseteq Nat
  BY MaxHeapAssumption DEF TypeOK
<1>2. \A p \in Positions : p \in Nat /\ data_[p] \in Values
  BY <1>1 DEF TypeOK, Positions
<1>3. ASSUME NEW p \in Positions \ {0} PROVE p \in Nat \ {0} /\ parent(p) \in Positions
  <2>1. p \in Nat \ {0} /\ p <= size - 1
    BY <1>1 DEF Positions
  <2>2. parent(p) \in Nat /\ parent(p) < p
    BY <2>1, ParentFacts
  <2> QED BY <1>1, <2>1, <2>2 DEF Positions
<1> QED BY <1>1, <1>2, <1>3

LEMMA InitInvariant == Init => IInv
<1> SUFFICES ASSUME Init PROVE IInv
  OBVIOUS
<1>1. Positions = {}
  BY DEF Init, Positions
<1>2. TypeOK
  BY <1>1, MaxHeapAssumption DEF Init, TypeOK
<1> QED BY <1>1, <1>2 DEF Init, IInv, HeapOrder, AllButOne

-----------------------------------------------------------------------------
(* The actions keep the invariant, one lemma each                          *)

LEMMA PushKeeps == ASSUME IInv, NEW v \in Values, push(v) PROVE IInv'
<1>1. TypeOK /\ HeapOrder /\ sifting = "no"
  BY DEF IInv, push
<1>2. /\ size < MaxSize /\ size' = size + 1
      /\ data_' = [p \in 0 .. size |-> IF p = size THEN v ELSE data_[p]]
      /\ sifting' = "up" /\ i' = size /\ capacity_' = capacity_ /\ top' = top
  BY DEF push
<1>3. size \in Nat /\ MaxSize \in Nat
  BY <1>1, PositionFacts, MaxHeapAssumption
<1>4. Positions' = 0 .. size /\ \A p \in 0 .. size : p = size \/ p \in Positions
  BY <1>2, <1>3 DEF Positions
<1>5. TypeOK'
  <2>1. data_' \in [0 .. size -> Values]
    BY <1>1, <1>2, <1>4, PositionFacts
  <2> QED BY <1>1, <1>2, <1>3, <1>4, <2>1 DEF TypeOK
<1>6. AllButOne'
  <2>1. ASSUME NEW p \in (0 .. size) \ {0}
        PROVE  /\ p # size => data_'[p] <= data_'[parent(p)]
               /\ parent(p) # size
    <3>1. p \in Nat \ {0} /\ p <= size
      BY <1>3
    <3>2. parent(p) \in Nat /\ parent(p) < p
      BY <3>1, ParentFacts
    <3>3. parent(p) # size /\ parent(p) \in 0 .. size
      BY <3>1, <3>2, <1>3
    <3>4. p # size => p \in Positions \ {0}
      BY <1>4
    <3>5. p # size => data_[p] <= data_[parent(p)]
      BY <3>4, <1>1 DEF HeapOrder
    <3> QED BY <1>2, <3>3, <3>5
  <2> QED BY <1>2, <1>4, <2>1 DEF AllButOne
<1> QED BY <1>2, <1>5, <1>6 DEF IInv, HeapOrder

LEMMA PopKeeps == ASSUME IInv, pop PROVE IInv'
<1>1. TypeOK /\ HeapOrder /\ sifting = "no"
  BY DEF IInv, pop
<1>2. /\ size # 0 /\ size' = size - 1
      /\ data_' = [p \in 0 .. size - 2 |-> IF p = 0 THEN data_[size - 1] ELSE data_[p]]
      /\ sifting' = IF size = 1 THEN "no" ELSE "down"
      /\ i' = 0 /\ capacity_' = capacity_ /\ top' = data_[0]
  BY DEF pop, empty
<1>3. size \in Nat \ {0} /\ 0 \in Positions /\ size - 1 \in Positions
  BY <1>1, <1>2, PositionFacts DEF Positions
<1>4. Positions' = 0 .. size - 2 /\ Positions' \subseteq Positions
  BY <1>2, <1>3 DEF Positions
<1>5. TypeOK'
  <2>1. data_' \in [0 .. size - 2 -> Values]
    BY <1>1, <1>2, <1>3, <1>4, PositionFacts
  <2>2. size = 1 \/ 0 \in Positions'
    BY <1>3, <1>4
  <2>3. size' \in 0 .. MaxSize
    BY <1>1, <1>2, <1>3, MaxHeapAssumption DEF TypeOK
  <2> QED BY <1>1, <1>2, <1>3, <1>4, <2>1, <2>2, <2>3, PositionFacts DEF TypeOK
<1>6. AllButOne'
  <2>1. ASSUME NEW p \in Positions' \ {0}, parent(p) # 0
        PROVE  data_'[p] <= data_'[parent(p)]
    <3>1. p \in Positions \ {0} /\ p \in Nat \ {0}
      BY <1>1, <1>4, PositionFacts
    <3>2. parent(p) \in Nat /\ parent(p) < p
      BY <3>1, ParentFacts
    <3>3. parent(p) \in 0 .. size - 2
      BY <3>2, <1>3, <1>4
    <3>4. data_[p] <= data_[parent(p)]
      BY <3>1, <1>1 DEF HeapOrder
    <3> QED BY <1>2, <1>4, <2>1, <3>1, <3>3, <3>4
  <2> QED BY <1>2, <2>1 DEF AllButOne
<1>7. HeapOrder'
  <2>1. size = 1 => Positions' = {}
    BY <1>3, <1>4
  <2> QED BY <1>2, <2>1 DEF HeapOrder
<1> QED BY <1>5, <1>6, <1>7 DEF IInv

LEMMA ReplaceTopKeeps == ASSUME IInv, NEW v \in Values, replace_top(v) PROVE IInv'
<1>1. TypeOK /\ HeapOrder /\ sifting = "no"
  BY DEF IInv, replace_top
<1>2. /\ size # 0 /\ data_' = [data_ EXCEPT ![0] = v] /\ sifting' = "down" /\ i' = 0
      /\ size' = size /\ capacity_' = capacity_ /\ top' = top
  BY DEF replace_top, empty
<1>3. 0 \in Positions /\ Positions' = Positions /\ data_ \in [Positions -> Values]
  BY <1>1, <1>2, PositionFacts DEF Positions, TypeOK
<1>4. TypeOK'
  <2>1. data_' \in [Positions -> Values]
    BY <1>2, <1>3
  <2> QED BY <1>1, <1>2, <1>3, <2>1 DEF TypeOK
<1>5. AllButOne'
  <2>1. ASSUME NEW p \in Positions \ {0}, parent(p) # 0
        PROVE  data_'[p] <= data_'[parent(p)]
    <3>1. parent(p) \in Positions /\ data_[p] <= data_[parent(p)]
      BY <1>1, PositionFacts DEF HeapOrder
    <3> QED BY <1>2, <1>3, <2>1, <3>1
  <2> QED BY <1>2, <1>3, <2>1 DEF AllButOne
<1> QED BY <1>2, <1>4, <1>5 DEF IInv, HeapOrder

LEMMA QuietKeeps == ASSUME IInv, peek \/ ThrowOutOfRange \/ clear \/ MovedFrom PROVE IInv'
<1>1. CASE peek
  <2>1. 0 \in Positions
    BY <1>1, PositionFacts DEF IInv, peek, empty, Positions
  <2>2. data_[0] \in Values
    BY <2>1, PositionFacts DEF IInv
  <2> QED BY <1>1, <2>2 DEF IInv, peek, TypeOK, HeapOrder, AllButOne, Positions
<1>2. CASE ThrowOutOfRange
  BY <1>2 DEF IInv, ThrowOutOfRange, TypeOK, HeapOrder, AllButOne, Positions
<1>3. CASE clear \/ MovedFrom
  <2>1. Positions' = {} /\ data_' = [p \in {} |-> NoValue] /\ size' = 0 /\ sifting' = "no"
    BY <1>3 DEF clear, MovedFrom, Positions
  <2>2. TypeOK'
    BY <1>3, <2>1, MaxHeapAssumption DEF IInv, TypeOK, clear, MovedFrom
  <2> QED BY <2>1, <2>2 DEF IInv, HeapOrder, AllButOne
<1> QED BY <1>1, <1>2, <1>3

\* A swap exchanges two values and leaves the rest.
LEMMA SwapFacts ==
  ASSUME TypeOK, NEW p \in Positions, NEW q \in Positions, p # q, Swap(p, q)
  PROVE  /\ data_' \in [Positions -> Values]
         /\ data_'[p] = data_[q] /\ data_'[q] = data_[p]
         /\ \A r \in Positions \ {p, q} : data_'[r] = data_[r]
<1>1. data_ \in [Positions -> Values]
  BY DEF TypeOK
<1>2. data_' = [data_ EXCEPT ![p] = data_[q], ![q] = data_[p]]
  BY DEF Swap
<1> QED BY <1>1, <1>2

LEMMA SiftUpKeeps == ASSUME IInv, sift_up PROVE IInv'
<1>1. TypeOK /\ AllButOne /\ sifting = "up" /\ i \in Positions
  BY DEF IInv, sift_up, TypeOK
<1>2. PICK q \in Nat : q = parent(i)
  BY <1>1, ParentFacts, PositionFacts DEF sift_up, LargerThanParent
<1>3. i \in Positions \ {0} /\ i \in Nat \ {0} /\ q \in Positions /\ q < i
  BY <1>1, <1>2, ParentFacts, PositionFacts DEF sift_up, LargerThanParent
<1>4. /\ data_[q] < data_[i] /\ i' = q
      /\ size' = size /\ capacity_' = capacity_ /\ sifting' = "up" /\ top' = top
      /\ Positions' = Positions
  BY <1>1, <1>2 DEF sift_up, LargerThanParent, Positions
<1>5. /\ data_' \in [Positions -> Values]
      /\ data_'[q] = data_[i] /\ data_'[i] = data_[q]
      /\ \A r \in Positions \ {q, i} : data_'[r] = data_[r]
  BY <1>1, <1>2, <1>3, SwapFacts DEF sift_up
<1>6. TypeOK'
  BY <1>1, <1>3, <1>4, <1>5 DEF TypeOK
<1>7. /\ \A p \in Positions \ {0} : p # i => data_[p] <= data_[parent(p)]
      /\ \A p \in Positions \ {0} : parent(p) = i => data_[p] <= data_[q]
  BY <1>1, <1>2, <1>3 DEF AllButOne
<1>8. \A p \in Positions : data_[p] \in Nat
  BY <1>1, PositionFacts
<1>9. ASSUME NEW p \in Positions \ {0}
      PROVE  /\ p # q => data_'[p] <= data_'[parent(p)]
             /\ parent(p) = q /\ q > 0 => data_'[p] <= data_'[parent(q)]
  <2>1. PICK r \in Positions : r = parent(p) /\ r < p
    BY <1>1, PositionFacts, ParentFacts
  <2>2. p \in Nat
    BY <1>1, PositionFacts
  <2>3. ASSUME p # q PROVE data_'[p] <= data_'[r]
    <3>1. CASE p = i
      BY <3>1, <2>1, <1>2, <1>3, <1>4, <1>5, <1>8
    <3>2. CASE p # i /\ r = i
      BY <3>2, <2>1, <2>3, <1>3, <1>5, <1>7
    <3>3. CASE p # i /\ r = q
      BY <3>3, <2>1, <2>3, <1>3, <1>4, <1>5, <1>7, <1>8
    <3>4. CASE p # i /\ r # i /\ r # q
      BY <3>4, <2>1, <2>3, <1>5, <1>7
    <3> QED BY <3>1, <3>2, <3>3, <3>4
  <2>4. ASSUME r = q, q > 0 PROVE data_'[p] <= data_'[parent(q)]
    <3>1. PICK s \in Positions : s = parent(q) /\ s < q
      BY <2>4, <1>1, <1>3, PositionFacts, ParentFacts
    <3>2. q \in Positions \ {0} /\ q # i /\ s # q /\ s # i
      BY <2>4, <3>1, <1>2, <1>3, <1>1, PositionFacts
    <3>3. data_[q] <= data_[s] /\ data_'[s] = data_[s]
      BY <3>1, <3>2, <1>5, <1>7
    <3>4. CASE p = i
      BY <3>1, <3>3, <3>4, <1>5
    <3>5. CASE p # i
      <4>1. data_'[p] = data_[p] /\ data_[p] <= data_[q]
        <5>1. p # q /\ parent(p) = q
          BY <2>1, <2>2, <2>4, <1>3
        <5>2. data_[p] <= data_[parent(p)]
          BY <3>5, <1>7
        <5> QED BY <3>5, <5>1, <5>2, <1>5
      <4> QED BY <4>1, <3>1, <3>3, <1>3, <1>8
    <3> QED BY <3>4, <3>5
  <2> QED BY <2>1, <2>3, <2>4
<1>10. AllButOne'
  BY <1>4, <1>9 DEF AllButOne
<1> QED BY <1>4, <1>6, <1>10 DEF IInv, HeapOrder

LEMMA SiftUpDoneKeeps == ASSUME IInv, sift_up_done PROVE IInv'
<1>1. TypeOK /\ AllButOne /\ sifting = "up" /\ i \in Positions
  BY DEF IInv, sift_up_done, TypeOK
<1>2. /\ UNCHANGED <<data_, size, capacity_, i, top>> /\ sifting' = "no"
      /\ Positions' = Positions /\ ~LargerThanParent
  BY DEF sift_up_done, Positions
<1>3. ASSUME NEW p \in Positions \ {0} PROVE data_[p] <= data_[parent(p)]
  <2>1. CASE p # i
    BY <1>1, <2>1 DEF AllButOne
  <2>2. CASE p = i
    <3>1. i \in Nat \ {0} /\ data_[i] \in Nat /\ data_[parent(i)] \in Nat
      BY <1>1, <2>2, PositionFacts
    <3> QED BY <1>2, <2>2, <3>1 DEF LargerThanParent
  <2> QED BY <2>1, <2>2
<1>4. TypeOK'
  BY <1>1, <1>2 DEF TypeOK
<1> QED BY <1>2, <1>3, <1>4 DEF IInv, HeapOrder, AllButOne

LEMMA SiftDownKeeps == ASSUME IInv, sift_down PROVE IInv'
<1>1. TypeOK /\ AllButOne /\ sifting = "down" /\ i \in Positions /\ i \in Nat
  BY DEF IInv, sift_down, TypeOK
<1>2. PICK c \in Larger(i) :
        /\ \A b \in Larger(i) : data_[b] <= data_[c]
        /\ Swap(i, c) /\ i' = c
  BY DEF sift_down
<1>3. /\ c \in Nat \ {0} /\ parent(c) = i /\ i < c /\ c < size
      /\ data_[c] > data_[i]
  BY <1>1, <1>2, ParentFacts DEF Larger
<1>4. c \in Positions /\ \A p \in Positions : data_[p] \in Nat
  BY <1>1, <1>3, PositionFacts DEF Positions
<1>5. /\ size' = size /\ capacity_' = capacity_ /\ sifting' = "down" /\ top' = top
      /\ Positions' = Positions
  BY <1>1 DEF sift_down, Positions
<1>6. /\ data_' \in [Positions -> Values]
      /\ data_'[i] = data_[c] /\ data_'[c] = data_[i]
      /\ \A r \in Positions \ {i, c} : data_'[r] = data_[r]
  BY <1>1, <1>2, <1>3, <1>4, SwapFacts
<1>7. TypeOK'
  BY <1>1, <1>2, <1>3, <1>4, <1>5, <1>6 DEF TypeOK
<1>8. \A p \in Positions \ {0} :
        /\ parent(p) # i => data_[p] <= data_[parent(p)]
        /\ parent(p) = i /\ i > 0 => data_[p] <= data_[parent(i)]
  BY <1>1 DEF AllButOne
<1>9. ASSUME NEW p \in Positions \ {0}
      PROVE  /\ parent(p) # c => data_'[p] <= data_'[parent(p)]
             /\ parent(p) = c /\ c > 0 => data_'[p] <= data_'[parent(c)]
  <2>1. PICK r \in Positions : r = parent(p) /\ r < p
    BY <1>1, PositionFacts, ParentFacts
  <2>2. p \in Nat \ {0} /\ r \in Nat
    BY <1>1, PositionFacts
  <2>3. ASSUME r # c PROVE data_'[p] <= data_'[r]
    <3>1. CASE p = c
      BY <3>1, <2>1, <1>1, <1>3, <1>4, <1>6
    <3>2. CASE p = i
      <4>1. i > 0 /\ data_[c] <= data_[r]
        BY <3>2, <2>1, <2>2, <1>3, <1>4, <1>8
      <4>2. data_'[r] = data_[r]
        BY <3>2, <2>1, <2>2, <2>3, <1>6
      <4> QED BY <3>2, <4>1, <4>2, <1>6
    <3>3. CASE p # c /\ p # i /\ r = i
      <4>1. data_[p] <= data_[c]
        <5>1. CASE p \in Larger(i)
          BY <5>1, <1>2
        <5>2. CASE p \notin Larger(i)
          <6>1. p \in {left_child(i), right_child(i)} /\ p < size
            BY <3>3, <2>1, <2>2, <1>1, ParentFacts, PositionFacts DEF Positions
          <6>2. data_[p] <= data_[i]
            BY <5>2, <6>1, <1>1, <1>4 DEF Larger
          <6> QED BY <6>2, <1>1, <1>3, <1>4
        <5> QED BY <5>1, <5>2
      <4> QED BY <3>3, <4>1, <1>6
    <3>4. CASE p # c /\ p # i /\ r # i
      BY <3>4, <2>1, <2>3, <1>6, <1>8
    <3> QED BY <3>1, <3>2, <3>3, <3>4
  <2>4. ASSUME r = c PROVE data_'[p] <= data_'[i]
    <3>1. data_[p] <= data_[c]
      <4>1. parent(p) = c /\ parent(p) # i
        BY <2>1, <2>4, <1>1, <1>3
      <4>2. data_[p] <= data_[parent(p)]
        BY <4>1, <1>8
      <4> QED BY <4>1, <4>2
    <3>2. p # i /\ p # c
      BY <2>1, <2>2, <2>4, <1>1, <1>3
    <3> QED BY <3>1, <3>2, <1>6
  <2> QED BY <2>1, <2>3, <2>4, <1>3
<1>10. AllButOne'
  BY <1>2, <1>5, <1>9 DEF AllButOne
<1> QED BY <1>5, <1>7, <1>10 DEF IInv, HeapOrder

LEMMA SiftDownDoneKeeps == ASSUME IInv, sift_down_done PROVE IInv'
<1>1. TypeOK /\ AllButOne /\ sifting = "down" /\ i \in Positions /\ i \in Nat
  BY DEF IInv, sift_down_done, TypeOK
<1>2. /\ UNCHANGED <<data_, size, capacity_, i, top>> /\ sifting' = "no"
      /\ Positions' = Positions /\ Larger(i) = {}
  BY DEF sift_down_done, Positions
<1>3. ASSUME NEW p \in Positions \ {0} PROVE data_[p] <= data_[parent(p)]
  <2>1. CASE parent(p) # i
    BY <1>1, <2>1 DEF AllButOne
  <2>2. CASE parent(p) = i
    <3>1. p \in {left_child(i), right_child(i)} /\ p < size
      BY <2>2, <1>1, ParentFacts, PositionFacts DEF Positions
    <3>2. ~(data_[p] > data_[i])
      BY <3>1, <1>2 DEF Larger
    <3> QED BY <3>2, <2>2, <1>1, PositionFacts
  <2> QED BY <2>1, <2>2
<1>4. TypeOK'
  BY <1>1, <1>2 DEF TypeOK
<1> QED BY <1>2, <1>3, <1>4 DEF IInv, HeapOrder, AllButOne

LEMMA StepInvariant == IInv /\ [Next]_vars => IInv'
<1> SUFFICES ASSUME IInv, [Next]_vars PROVE IInv'
  OBVIOUS
<1>1. ASSUME NEW v \in Values, push(v) PROVE IInv'
  BY <1>1, PushKeeps
<1>2. ASSUME NEW v \in Values, replace_top(v) PROVE IInv'
  BY <1>2, ReplaceTopKeeps
<1>3. CASE pop
  BY <1>3, PopKeeps
<1>4. CASE peek \/ ThrowOutOfRange \/ clear \/ MovedFrom
  BY <1>4, QuietKeeps
<1>5. CASE sift_up
  BY <1>5, SiftUpKeeps
<1>6. CASE sift_up_done
  BY <1>6, SiftUpDoneKeeps
<1>7. CASE sift_down
  BY <1>7, SiftDownKeeps
<1>8. CASE sift_down_done
  BY <1>8, SiftDownDoneKeeps
<1>9. CASE UNCHANGED vars
  BY <1>9 DEF vars, IInv, TypeOK, HeapOrder, AllButOne, Positions
<1> QED BY <1>1, <1>2, <1>3, <1>4, <1>5, <1>6, <1>7, <1>8, <1>9 DEF Next, Sift

THEOREM Invariant == Spec => []IInv
<1>1. Init => IInv
  BY InitInvariant
<1>2. IInv /\ [Next]_vars => IInv'
  BY StepInvariant
<1> QED BY <1>1, <1>2, PTL DEF Spec

\* The types of the variables.
THEOREM TypeCorrect == Spec => []TypeOK
<1>1. IInv => TypeOK
  BY DEF IInv
<1> QED BY <1>1, Invariant, PTL

-----------------------------------------------------------------------------
(* The largest value                                                       *)

\* In heap order the root is the largest: were some value larger, take the
\* first position that holds one; its parent comes before it and holds no less.
LEMMA OrderMakesRootLargest == TypeOK /\ HeapOrder => RootIsLargest
<1> SUFFICES ASSUME TypeOK, HeapOrder, sifting = "no"
             PROVE  \A p \in Positions : data_[p] <= data_[0]
  BY DEF RootIsLargest
<1> DEFINE Above == {p \in Positions : data_[p] > data_[0]}
<1>1. \A p \in Positions : p \in Nat /\ data_[p] \in Nat
  BY PositionFacts
<1>2. ASSUME Positions # {} PROVE 0 \in Positions
  BY <1>2, PositionFacts DEF Positions
<1>3. Above = {}
  <2> SUFFICES ASSUME Above # {} PROVE FALSE
    OBVIOUS
  <2>1. PICK p \in Above : \A q \in Above : p <= q
    <3>1. Above \subseteq Nat
      BY <1>1
    <3> HIDE DEF Above
    <3>2. PICK p \in Above : \A q \in Above : ~(<<q, p>> \in OpToRel(<, Nat))
      BY <3>1, NatLessThanWellFounded, WFMin
    <3>3. ASSUME NEW q \in Above PROVE p <= q
      <4>1. p \in Nat /\ q \in Nat
        BY <3>1
      <4>2. CASE q < p
        <5>1. <<q, p>> \in OpToRel(<, Nat)
          BY <4>1, <4>2, SMT DEF OpToRel
        <5> QED BY <3>2, <5>1
      <4> QED BY <4>1, <4>2
    <3> QED BY <3>3
  <2>2. p \in Positions \ {0} /\ data_[p] > data_[0] /\ 0 \in Positions
    BY <1>1, <1>2
  <2>3. PICK r \in Positions : r = parent(p) /\ r < p /\ data_[p] <= data_[r]
    BY <2>2, PositionFacts, ParentFacts DEF HeapOrder
  <2>4. r \in Above
    BY <1>1, <2>2, <2>3
  <2> QED BY <1>1, <2>1, <2>2, <2>3, <2>4
<1> QED BY <1>1, <1>2, <1>3

\* peek and pop return, and replace_top replaces, the largest value.
THEOREM RootLargest == Spec => []RootIsLargest
<1>1. IInv => RootIsLargest
  BY OrderMakesRootLargest DEF IInv
<1> QED BY <1>1, Invariant, PTL

\* Every operation leaves the vector in heap order.
THEOREM InHeapOrder == Spec => []HeapOrder
<1>1. IInv => HeapOrder
  BY DEF IInv
<1> QED BY <1>1, Invariant, PTL

-----------------------------------------------------------------------------
(* The bag of values                                                       *)

\* The positions in S at which d holds v.
Cells(d, S, v) == {p \in S : d[p] = v}
Copies(d, S, v) == Cardinality(Cells(d, S, v))
One(d, p, v) == IF d[p] = v THEN 1 ELSE 0

\* How often v occurs, as the refinement mapping counts it.
Bag == [v \in Values |-> Copies(data_, Positions, v)]

\* One position more counts for the value it holds.
LEMMA CopiesOfOneMore ==
  ASSUME NEW d, NEW S, IsFiniteSet(S), NEW q, q \notin S, NEW v
  PROVE  /\ Copies(d, S, v) \in Nat
         /\ Copies(d, S \cup {q}, v) = Copies(d, S, v) + One(d, q, v)
<1>1. Cells(d, S, v) \subseteq S
  BY DEF Cells
<1>2. IsFiniteSet(Cells(d, S, v)) /\ Copies(d, S, v) \in Nat
  BY <1>1, FS_Subset, FS_CardinalityType DEF Copies
<1>3. CASE d[q] = v
  <2>1. Cells(d, S \cup {q}, v) = Cells(d, S, v) \cup {q} /\ q \notin Cells(d, S, v)
    BY <1>3 DEF Cells
  <2>2. Cardinality(Cells(d, S, v) \cup {q}) = Cardinality(Cells(d, S, v)) + 1
    BY <2>1, <1>2, FS_AddElement
  <2> QED BY <2>1, <2>2, <1>2, <1>3 DEF Copies, One
<1>4. CASE d[q] # v
  <2>1. Cells(d, S \cup {q}, v) = Cells(d, S, v)
    BY <1>4 DEF Cells
  <2> QED BY <2>1, <1>2, <1>4 DEF Copies, One
<1> QED BY <1>2, <1>3, <1>4

\* Where two functions agree they hold the same.
LEMMA CopiesAgree ==
  ASSUME NEW d, NEW e, NEW S, \A p \in S : d[p] = e[p], NEW v
  PROVE  Copies(d, S, v) = Copies(e, S, v)
<1>1. Cells(d, S, v) = Cells(e, S, v)
  BY DEF Cells
<1> QED BY <1>1 DEF Copies

LEMMA CopiesOfNone ==
  ASSUME NEW d, NEW v
  PROVE  Copies(d, {}, v) = 0
<1>1. Cells(d, {}, v) = {}
  BY DEF Cells
<1> QED BY <1>1, FS_EmptySet DEF Copies

LEMMA PositionsFinite ==
  ASSUME TypeOK, NEW S \in SUBSET Positions
  PROVE  IsFiniteSet(S)
<1>1. IsFiniteSet(Positions)
  <2>1. 0 \in Int /\ size - 1 \in Int
    BY PositionFacts
  <2> QED BY <2>1, FS_Interval DEF Positions
<1> QED BY <1>1, FS_Subset

\* Swapping two values changes the count of none.
LEMMA SwapKeepsBag ==
  ASSUME TypeOK, NEW p \in Positions, NEW q \in Positions, p # q, Swap(p, q), size' = size
  PROVE  Bag' = Bag
<1> DEFINE R == Positions \ {p, q}
<1>1. /\ data_'[p] = data_[q] /\ data_'[q] = data_[p]
      /\ \A r \in R : data_'[r] = data_[r]
  BY SwapFacts
<1>2. Positions' = Positions /\ Positions = (R \cup {p}) \cup {q}
  BY DEF Positions
<1>3. /\ IsFiniteSet(R) /\ p \notin R
      /\ IsFiniteSet(R \cup {p}) /\ q \notin R \cup {p}
  BY PositionsFinite
<1> HIDE DEF R
<1>4. ASSUME NEW v \in Values
      PROVE  Copies(data_', Positions, v) = Copies(data_, Positions, v)
  <2>1. /\ Copies(data_, R, v) \in Nat
        /\ Copies(data_, R \cup {p}, v) = Copies(data_, R, v) + One(data_, p, v)
        /\ Copies(data_, Positions, v) = Copies(data_, R \cup {p}, v) + One(data_, q, v)
    BY <1>2, <1>3, CopiesOfOneMore
  <2>2. /\ Copies(data_', R \cup {p}, v) = Copies(data_', R, v) + One(data_', p, v)
        /\ Copies(data_', Positions, v) = Copies(data_', R \cup {p}, v) + One(data_', q, v)
    BY <1>2, <1>3, CopiesOfOneMore
  <2>3. Copies(data_', R, v) = Copies(data_, R, v)
    BY <1>1, CopiesAgree
  <2>4. One(data_', p, v) = One(data_, q, v) /\ One(data_', q, v) = One(data_, p, v)
    BY <1>1 DEF One
  <2>5. One(data_, p, v) \in Nat /\ One(data_, q, v) \in Nat
    BY DEF One
  <2> QED BY <2>1, <2>2, <2>3, <2>4, <2>5
<1> QED BY <1>2, <1>4 DEF Bag

\* push adds the value given.
LEMMA PushAdds ==
  ASSUME IInv, NEW v \in Values, push(v)
  PROVE  Bag' = [Bag EXCEPT ![v] = @ + 1]
<1>1. TypeOK /\ size \in Nat
  BY PositionFacts DEF IInv
<1>2. /\ size' = size + 1
      /\ data_' = [p \in 0 .. size |-> IF p = size THEN v ELSE data_[p]]
  BY DEF push
<1>3. Positions' = Positions \cup {size} /\ size \notin Positions /\ IsFiniteSet(Positions)
  BY <1>1, <1>2, PositionsFinite DEF Positions
<1>4. data_'[size] = v /\ \A p \in Positions : data_'[p] = data_[p]
  BY <1>1, <1>2 DEF Positions
<1>5. ASSUME NEW u \in Values
      PROVE  Copies(data_', Positions', u) =
               IF u = v THEN Copies(data_, Positions, u) + 1 ELSE Copies(data_, Positions, u)
  <2>1. /\ Copies(data_', Positions, u) \in Nat
        /\ Copies(data_', Positions', u) = Copies(data_', Positions, u) + One(data_', size, u)
    BY <1>3, CopiesOfOneMore
  <2>2. Copies(data_', Positions, u) = Copies(data_, Positions, u)
    BY <1>4, CopiesAgree
  <2>3. One(data_', size, u) = IF u = v THEN 1 ELSE 0
    BY <1>4 DEF One
  <2> QED BY <2>1, <2>2, <2>3
<1> QED BY <1>5 DEF Bag

\* pop takes the value at the root out.
LEMMA PopTakes ==
  ASSUME IInv, pop
  PROVE  Bag' = [Bag EXCEPT ![data_[0]] = @ - 1]
<1> DEFINE last == size - 1  R == Positions \ {0, last}
<1>1. TypeOK /\ size \in Nat \ {0}
  BY PositionFacts DEF IInv, pop, empty
<1>2. /\ size' = size - 1
      /\ data_' = [p \in 0 .. size - 2 |-> IF p = 0 THEN data_[last] ELSE data_[p]]
  BY DEF pop
<1>3. 0 \in Positions /\ last \in Positions /\ IsFiniteSet(R) /\ data_[0] \in Values
  BY <1>1, PositionsFinite, PositionFacts DEF Positions
<1>4. ASSUME NEW u \in Values
      PROVE  Copies(data_', Positions', u) =
               IF u = data_[0] THEN Copies(data_, Positions, u) - 1
                               ELSE Copies(data_, Positions, u)
  <2>1. One(data_, 0, u) = (IF u = data_[0] THEN 1 ELSE 0) /\ One(data_, last, u) \in Nat
    BY DEF One
  <2>2. CASE size = 1
    <3>1. Positions = {} \cup {0} /\ Positions' = {}
      BY <1>2, <2>2 DEF Positions
    <3>2. Copies(data_, Positions, u) = Copies(data_, {}, u) + One(data_, 0, u)
      BY <3>1, CopiesOfOneMore, FS_EmptySet
    <3>3. Copies(data_, {}, u) = 0 /\ Copies(data_', {}, u) = 0
      BY CopiesOfNone
    <3> QED BY <3>1, <3>2, <3>3, <2>1
  <2>3. CASE size # 1
    <3>1. /\ Positions = (R \cup {last}) \cup {0} /\ Positions' = R \cup {0}
          /\ last \notin R /\ 0 \notin R /\ 0 \notin R \cup {last}
          /\ data_'[0] = data_[last] /\ \A p \in R : data_'[p] = data_[p]
      <4>1. Positions' = 0 .. size - 2 /\ R = 1 .. size - 2
        BY <1>1, <1>2 DEF Positions
      <4> QED BY <4>1, <1>1, <1>2, <1>3, <2>3
    <3>2. IsFiniteSet(R \cup {last})
      BY <1>1, <1>3, PositionsFinite
    <3> HIDE DEF R, last
    <3>3. /\ Copies(data_, R, u) \in Nat
          /\ Copies(data_, R \cup {last}, u) = Copies(data_, R, u) + One(data_, last, u)
      BY <3>1, <1>3, CopiesOfOneMore
    <3>4. Copies(data_, Positions, u) = Copies(data_, R \cup {last}, u) + One(data_, 0, u)
      BY <3>1, <3>2, CopiesOfOneMore
    <3>5. Copies(data_', Positions', u) = Copies(data_', R, u) + One(data_', 0, u)
      BY <3>1, <1>3, CopiesOfOneMore
    <3>6. Copies(data_', R, u) = Copies(data_, R, u)
      BY <3>1, CopiesAgree
    <3>7. One(data_', 0, u) = One(data_, last, u)
      BY <3>1 DEF One
    <3> QED BY <3>3, <3>4, <3>5, <3>6, <3>7, <2>1
  <2> QED BY <2>2, <2>3
<1> QED BY <1>3, <1>4 DEF Bag

\* replace_top takes the value at the root out and adds the one given.
LEMMA ReplaceTopReplaces ==
  ASSUME IInv, NEW v \in Values, replace_top(v)
  PROVE  Bag' = [[Bag EXCEPT ![data_[0]] = @ - 1] EXCEPT ![v] = @ + 1]
<1> DEFINE R == Positions \ {0}
<1>1. TypeOK /\ size \in Nat \ {0} /\ data_ \in [Positions -> Values]
  BY PositionFacts DEF IInv, replace_top, empty, TypeOK
<1>2. 0 \in Positions /\ IsFiniteSet(R) /\ data_[0] \in Values
  BY <1>1, PositionsFinite, PositionFacts DEF Positions
<1>3. /\ Positions' = Positions /\ Positions = R \cup {0} /\ 0 \notin R
      /\ data_'[0] = v /\ \A p \in R : data_'[p] = data_[p]
  BY <1>1, <1>2 DEF replace_top, Positions
<1> HIDE DEF R
<1>4. ASSUME NEW u \in Values
      PROVE  /\ Copies(data_, R, u) \in Nat
             /\ Copies(data_, Positions, u) =
                  Copies(data_, R, u) + (IF u = data_[0] THEN 1 ELSE 0)
             /\ Copies(data_', Positions', u) =
                  Copies(data_, R, u) + (IF u = v THEN 1 ELSE 0)
  <2>1. /\ Copies(data_, R, u) \in Nat
        /\ Copies(data_, Positions, u) = Copies(data_, R, u) + One(data_, 0, u)
    BY <1>2, <1>3, CopiesOfOneMore
  <2>2. Copies(data_', Positions', u) = Copies(data_', R, u) + One(data_', 0, u)
    BY <1>2, <1>3, CopiesOfOneMore
  <2>3. Copies(data_', R, u) = Copies(data_, R, u)
    BY <1>3, CopiesAgree
  <2> QED BY <1>3, <2>1, <2>2, <2>3 DEF One
<1>5. ASSUME NEW u \in Values
      PROVE  Bag'[u] = [[Bag EXCEPT ![data_[0]] = @ - 1] EXCEPT ![v] = @ + 1][u]
  <2>1. Bag'[u] = Copies(data_', Positions', u) /\ Bag[u] = Copies(data_, Positions, u)
        /\ Bag = [w \in Values |-> Bag[w]]
    BY DEF Bag
  <2> HIDE DEF Bag
  <2> QED BY <2>1, <1>2, <1>4
<1> QED BY <1>5 DEF Bag

\* The root of a heap in order is the largest of its bag.
LEMMA RootIsLargestOfBag ==
  ASSUME TypeOK, HeapOrder, sifting = "no", ~empty
  PROVE  /\ data_[0] \in Values /\ Bag[data_[0]] > 0
         /\ \A u \in Values : u > data_[0] => Bag[u] = 0
<1>1. 0 \in Positions /\ data_[0] \in Values /\ \A p \in Positions : data_[p] \in Nat
  BY PositionFacts DEF Positions, empty
<1>2. \A p \in Positions : data_[p] <= data_[0]
  BY OrderMakesRootLargest DEF RootIsLargest
<1>3. Bag[data_[0]] > 0
  <2> DEFINE C == Cells(data_, Positions, data_[0])
  <2>1. 0 \in C /\ C \subseteq Positions
    BY <1>1 DEF Cells
  <2>2. IsFiniteSet(C)
    BY <2>1, PositionsFinite
  <2>3. Cardinality(C) \in Nat /\ Cardinality(C) # 0
    <3> HIDE DEF C
    <3> QED BY <2>1, <2>2, FS_CardinalityType, FS_EmptySet
  <2> QED BY <1>1, <2>3 DEF Bag, Copies
<1>4. ASSUME NEW u \in Values, u > data_[0] PROVE Bag[u] = 0
  <2>1. u \in Nat
    BY MaxHeapAssumption
  <2>2. Cells(data_, Positions, u) = {}
    BY <1>1, <1>2, <1>4, <2>1 DEF Cells
  <2> QED BY <2>2, FS_EmptySet DEF Bag, Copies
<1> QED BY <1>1, <1>3, <1>4

-----------------------------------------------------------------------------
(* MaxHeap implements MaxBag                                               *)

LEMMA InitImplements == Init => Promise!Init
<1> SUFFICES ASSUME Init PROVE Bag = Promise!EmptyBag /\ top = NoValue
  BY DEF Promise!Init, Bag, Copies, Cells
<1>1. Positions = {}
  BY DEF Init, Positions
<1> QED BY <1>1, CopiesOfNone DEF Init, Bag, Promise!EmptyBag

\* The operations are those of the bag, one lemma each.
LEMMA PushImplements ==
  ASSUME IInv, NEW v \in Values, push(v)
  PROVE  Promise!Push(v)
BY PushAdds DEF Promise!Push, Promise!Plus, Bag, Copies, Cells, push

LEMMA PopImplements == ASSUME IInv, pop PROVE Promise!Pop
<1>1. /\ data_[0] \in Values /\ Bag[data_[0]] > 0
      /\ \A u \in Values : u > data_[0] => Bag[u] = 0
  BY RootIsLargestOfBag DEF IInv, pop
<1>2. Promise!Largest(data_[0])
  BY <1>1 DEF Promise!Largest, Bag, Copies, Cells
<1>3. Bag' = Promise!Minus(Bag, data_[0]) /\ top' = data_[0]
  BY PopTakes DEF Promise!Minus, pop
<1> QED BY <1>1, <1>2, <1>3 DEF Promise!Pop, Bag, Copies, Cells

LEMMA ReplaceTopImplements ==
  ASSUME IInv, NEW v \in Values, replace_top(v)
  PROVE  Promise!ReplaceTop(v)
<1>1. /\ data_[0] \in Values /\ Bag[data_[0]] > 0
      /\ \A u \in Values : u > data_[0] => Bag[u] = 0
  BY RootIsLargestOfBag DEF IInv, replace_top
<1>2. Promise!Largest(data_[0])
  BY <1>1 DEF Promise!Largest, Bag, Copies, Cells
<1>3. Bag' = Promise!Plus(Promise!Minus(Bag, data_[0]), v) /\ top' = top
  BY ReplaceTopReplaces DEF Promise!Minus, Promise!Plus, replace_top
<1> QED BY <1>1, <1>2, <1>3 DEF Promise!ReplaceTop, Bag, Copies, Cells

LEMMA PeekImplements == ASSUME IInv, peek PROVE Promise!Peek
<1>1. /\ data_[0] \in Values /\ Bag[data_[0]] > 0
      /\ \A u \in Values : u > data_[0] => Bag[u] = 0
  BY RootIsLargestOfBag DEF IInv, peek
<1>2. Promise!Largest(data_[0])
  BY <1>1 DEF Promise!Largest, Bag, Copies, Cells
<1>3. Bag' = Bag /\ top' = data_[0]
  BY DEF peek, Bag, Positions
<1> QED BY <1>1, <1>2, <1>3 DEF Promise!Peek, Bag, Copies, Cells

LEMMA ThrowImplements == ASSUME ThrowOutOfRange PROVE Promise!Throw
<1>1. Positions = {} /\ Bag' = Bag /\ top' = NoValue
  BY DEF ThrowOutOfRange, empty, Bag, Positions
<1>2. Bag = Promise!EmptyBag
  BY <1>1, CopiesOfNone DEF Bag, Promise!EmptyBag
<1> QED BY <1>1, <1>2 DEF Promise!Throw, Bag, Copies, Cells

LEMMA ClearImplements == ASSUME clear \/ MovedFrom PROVE Promise!Clear
<1>1. Positions' = {} /\ top' = top
  BY DEF clear, MovedFrom, Positions
<1>2. Bag' = Promise!EmptyBag
  BY <1>1, CopiesOfNone DEF Bag, Promise!EmptyBag
<1> QED BY <1>1, <1>2 DEF Promise!Clear, Bag, Copies, Cells

\* Sifting is nothing the bag sees.
LEMMA SiftStutters == ASSUME IInv, Sift PROVE Bag' = Bag /\ top' = top
<1>0. TypeOK
  BY DEF IInv
<1>1. CASE sift_up
  <2>1. i \in Positions \ {0} /\ parent(i) \in Positions /\ parent(i) # i
    <3>1. i \in Positions /\ i # 0
      BY <1>1, <1>0 DEF sift_up, LargerThanParent, TypeOK
    <3>2. i \in Nat \ {0} /\ parent(i) \in Positions
      BY <3>1, <1>0, PositionFacts
    <3> QED BY <3>1, <3>2, ParentFacts
  <2> QED BY <2>1, <1>0, <1>1, SwapKeepsBag DEF sift_up
<1>2. CASE sift_down
  <2>1. PICK c \in Larger(i) : Swap(i, c)
    BY <1>2 DEF sift_down
  <2>2. i \in Positions /\ i \in Nat /\ size \in Nat
    BY <1>0, <1>2, PositionFacts DEF sift_down, TypeOK
  <2>3. c \in Positions /\ c # i
    BY <2>1, <2>2, ParentFacts DEF Larger, Positions
  <2> QED BY <2>1, <2>2, <2>3, <1>0, <1>2, SwapKeepsBag DEF sift_down
<1>3. CASE sift_up_done \/ sift_down_done
  BY <1>3 DEF sift_up_done, sift_down_done, Bag, Positions
<1> QED BY <1>1, <1>2, <1>3 DEF Sift

LEMMA StepImplements == IInv /\ [Next]_vars => [Promise!Next]_(Promise!vars)
<1> SUFFICES ASSUME IInv, [Next]_vars
             PROVE  Promise!Next \/ (Bag' = Bag /\ top' = top)
  BY DEF Promise!vars, Bag, Copies, Cells
<1>1. ASSUME NEW v \in Values, push(v) \/ replace_top(v) PROVE Promise!Next
  BY <1>1, PushImplements, ReplaceTopImplements DEF Promise!Next
<1>2. CASE pop \/ peek \/ ThrowOutOfRange \/ clear \/ MovedFrom
  BY <1>2, PopImplements, PeekImplements, ThrowImplements, ClearImplements DEF Promise!Next
<1>3. CASE Sift
  BY <1>3, SiftStutters
<1>4. CASE UNCHANGED vars
  BY <1>4 DEF vars, Bag, Positions
<1> QED BY <1>1, <1>2, <1>3, <1>4 DEF Next

\* MaxHeap implements a bag of which the largest value is at hand: every
\* operation is one of the bag's, and sifting neither loses nor doubles a value.
THEOREM ImplementsBag == Spec => PromiseSpec
<1>1. Init => Promise!Init
  BY InitImplements
<1>2. IInv /\ [Next]_vars => [Promise!Next]_(Promise!vars)
  BY StepImplements
<1> QED BY <1>1, <1>2, Invariant, PTL DEF Spec, PromiseSpec, Promise!Spec
=============================================================================
