----------------------------- MODULE MinKProofs -----------------------------
(***************************************************************************)
(* Proofs about MinK, for sketches of every size, every number of workers  *)
(* and every file.                                                         *)
(***************************************************************************)
EXTENDS MinK, TLAPS, FiniteSetTheorems, WellFoundedInduction

-----------------------------------------------------------------------------
(* Heaps                                                                   *)

LEMMA HeapFacts ==
  ASSUME NEW heap \in Seq(Hash)
  PROVE  /\ Len(heap) \in Nat /\ DOMAIN heap = 1 .. Len(heap)
         /\ \A i \in DOMAIN heap : heap[i] \in Hash /\ heap[i] \in Nat
         /\ Elements(heap) \subseteq Hash
<1>1. Hash \subseteq Nat
  BY MinKAssumption DEF Hash
<1>2. Len(heap) \in Nat /\ DOMAIN heap = 1 .. Len(heap)
  OBVIOUS
<1>3. \A i \in DOMAIN heap : heap[i] \in Hash
  BY <1>2
<1>4. Elements(heap) \subseteq Hash
  BY <1>3 DEF Elements
<1> QED BY <1>1, <1>2, <1>3, <1>4

\* A heap with an element has a largest one: the distance of an element to
\* MaxHash has a least value.
LEMMA TopExists ==
  ASSUME NEW heap \in Seq(Hash), Len(heap) # 0
  PROVE  Top(heap) \in DOMAIN heap /\ \A j \in DOMAIN heap : heap[j] <= heap[Top(heap)]
<1> DEFINE Distances == {d \in Nat : \E j \in DOMAIN heap : heap[j] = MaxHash - d}
<1>1. MaxHash \in Nat /\ \A j \in DOMAIN heap : heap[j] \in 0 .. MaxHash
  BY MinKAssumption, HeapFacts DEF Hash
<1>2. 1 \in DOMAIN heap
  BY HeapFacts
<1>3. Distances # {}
  <2>1. MaxHash - heap[1] \in Nat /\ heap[1] = MaxHash - (MaxHash - heap[1])
    BY <1>1, <1>2
  <2>2. MaxHash - heap[1] \in Distances
    BY <1>2, <2>1
  <2> QED BY <2>2
<1>4. PICK d \in Distances : \A e \in Distances : d <= e
  <2>1. Distances \subseteq Nat
    OBVIOUS
  <2> HIDE DEF Distances
  <2>2. PICK d \in Distances : \A e \in Distances : ~(<<e, d>> \in OpToRel(<, Nat))
    BY <1>3, <2>1, NatLessThanWellFounded, WFMin
  <2>3. ASSUME NEW e \in Distances PROVE d <= e
    <3>1. d \in Nat /\ e \in Nat
      BY <2>1
    <3>2. CASE e < d
      <4>1. <<e, d>> \in OpToRel(<, Nat)
        BY <3>1, <3>2, SMT DEF OpToRel
      <4> QED BY <2>2, <4>1
    <3> QED BY <3>1, <3>2
  <2> QED BY <2>3
<1>5. PICK i \in DOMAIN heap : heap[i] = MaxHash - d
  BY <1>4
<1>6. ASSUME NEW j \in DOMAIN heap PROVE heap[j] <= heap[i]
  <2>1. MaxHash - heap[j] \in Nat /\ heap[j] = MaxHash - (MaxHash - heap[j])
    BY <1>1
  <2>2. MaxHash - heap[j] \in Distances
    BY <2>1
  <2>3. d <= MaxHash - heap[j]
    BY <1>4, <2>2
  <2>4. d \in Nat
    BY <1>4
  <2> QED BY <1>1, <1>5, <2>3, <2>4
<1>7. IsTop(heap, i)
  BY <1>6 DEF IsTop
<1>8. IsTop(heap, Top(heap))
  BY <1>7 DEF Top
<1> QED BY <1>8 DEF IsTop

\* As many elements, each once, cannot leave room for others.
LEMMA NoRoom ==
  ASSUME NEW g \in Seq(Hash), NEW m \in Seq(Hash),
         NoDuplicates(g), Elements(g) \subseteq Elements(m),
         Len(m) <= K, Len(g) = K
  PROVE  Len(m) = K /\ Elements(m) \subseteq Elements(g)
<1> DEFINE A == 1 .. Len(g)  B == 1 .. Len(m)
           f == [i \in A |-> CHOOSE j \in B : m[j] = g[i]]
<1>1. Len(g) \in Nat /\ Len(m) \in Nat /\ DOMAIN g = A /\ DOMAIN m = B /\ K \in Nat
  BY HeapFacts, MinKAssumption
<1>2. ASSUME NEW i \in A PROVE f[i] \in B /\ m[f[i]] = g[i]
  <2>1. \E j \in B : m[j] = g[i]
    BY <1>1 DEF Elements
  <2> QED BY <2>1
<1>3. f \in Injection(A, B)
  <2>1. f \in [A -> B]
    BY <1>2
  <2>2. \A a, b \in A : f[a] = f[b] => a = b
    <3> HIDE DEF f
    <3> QED BY <1>1, <1>2 DEF NoDuplicates
  <2> HIDE DEF f, A, B
  <2> QED BY <2>1, <2>2 DEF Injection, IsInjective
<1> HIDE DEF f
<1>4. /\ IsFiniteSet(A) /\ Cardinality(A) = Len(g)
      /\ IsFiniteSet(B) /\ Cardinality(B) = Len(m)
  <2>1. ASSUME NEW n \in Nat PROVE IsFiniteSet(1 .. n) /\ Cardinality(1 .. n) = n
    <3>1. n \in Int /\ 1 \in Int /\ (IF 1 > n THEN 0 ELSE n - 1 + 1) = n
      OBVIOUS
    <3>2. IsFiniteSet(1 .. n) /\ Cardinality(1 .. n) = (IF 1 > n THEN 0 ELSE n - 1 + 1)
      BY <3>1, FS_Interval
    <3> QED BY <3>1, <3>2
  <2> QED BY <1>1, <2>1
<1>5. Cardinality(A) <= Cardinality(B)
      /\ (Cardinality(A) = Cardinality(B) => f \in Surjection(A, B))
  BY <1>3, <1>4, FS_Injection
<1>6. Len(m) = K /\ f \in Surjection(A, B)
  <2> HIDE DEF A, B
  <2>1. Len(g) <= Len(m)
    BY <1>4, <1>5
  <2>2. Len(m) = K
    BY <2>1, <1>1
  <2> QED BY <2>2, <1>4, <1>5
<1>7. ASSUME NEW j \in B PROVE m[j] \in Elements(g)
  <2>1. PICK i \in A : f[i] = j
    BY <1>6 DEF Surjection
  <2> QED BY <2>1, <1>1, <1>2 DEF Elements
<1> QED BY <1>1, <1>6, <1>7 DEF Elements

-----------------------------------------------------------------------------
(* accumulate and reduce                                                   *)

Consistent(acc, S) ==
  /\ acc \in Accumulator
  /\ acc.seen = Elements(acc.heap)
  /\ HoldsSmallest(acc.heap, S)

\* accumulate keeps the K smallest of what it has been given, each once.
THEOREM AccumulateKeepsSmallest ==
  ASSUME NEW acc, NEW S \in SUBSET Hash, NEW h \in Hash, Consistent(acc, S)
  PROVE  Consistent(accumulate(acc, h), S \cup {h})
<1> DEFINE heap == acc.heap  n == Len(heap)
<1>1. /\ acc \in Accumulator /\ heap \in Seq(Hash) /\ acc.seen \subseteq Hash
      /\ acc.seen = Elements(heap)
      /\ NoDuplicates(heap) /\ Elements(heap) \subseteq S /\ n <= K
      /\ \A g \in S \ Elements(heap) : n = K /\ \A i \in DOMAIN heap : heap[i] < g
  BY DEF Consistent, Accumulator, HoldsSmallest
<1>2. /\ n \in Nat /\ DOMAIN heap = 1 .. n /\ K \in Nat \ {0}
      /\ \A i \in DOMAIN heap : heap[i] \in Hash /\ heap[i] \in Nat
      /\ h \in Nat /\ Hash \subseteq Nat
  BY <1>1, HeapFacts, MinKAssumption DEF Hash
<1>3. CASE h \in acc.seen
  <2>1. accumulate(acc, h) = acc /\ S \cup {h} = S
    BY <1>1, <1>3 DEF accumulate
  <2> QED BY <2>1
<1>4. CASE h \notin acc.seen /\ n # K
  <2> DEFINE new == Append(heap, h)
  <2>1. accumulate(acc, h) = [heap |-> new, seen |-> acc.seen \cup {h}]
    BY <1>4 DEF accumulate, full, Push
  <2>2. /\ new \in Seq(Hash) /\ Len(new) = n + 1 /\ DOMAIN new = 1 .. n + 1
        /\ new[n + 1] = h /\ \A i \in 1 .. n : new[i] = heap[i]
    BY <1>1, <1>2
  <2> HIDE DEF new
  <2>3. Elements(new) = Elements(heap) \cup {h}
    BY <1>2, <2>2 DEF Elements
  <2>4. NoDuplicates(new)
    <3> SUFFICES ASSUME NEW i \in DOMAIN new, NEW j \in DOMAIN new, new[i] = new[j]
                 PROVE  i = j
      BY DEF NoDuplicates
    <3>1. \A k \in 1 .. n : heap[k] # h
      BY <1>1, <1>2, <1>4 DEF Elements
    <3>2. (i \in 1 .. n \/ i = n + 1) /\ (j \in 1 .. n \/ j = n + 1)
      <4>1. \A k \in 1 .. n + 1 : k \in 1 .. n \/ k = n + 1
        BY <1>2
      <4> QED BY <2>2, <4>1
    <3> QED BY <1>1, <1>2, <2>2, <3>1, <3>2 DEF NoDuplicates
  <2>5. S \ Elements(heap) = {}
    BY <1>1, <1>4
  <2>6. HoldsSmallest(new, S \cup {h})
    BY <1>1, <1>2, <1>4, <2>2, <2>3, <2>4, <2>5 DEF HoldsSmallest
  <2>7. Len(new) <= K
    BY <1>1, <1>2, <1>4, <2>2
  <2> QED BY <1>1, <2>1, <2>2, <2>3, <2>6, <2>7 DEF Consistent, Accumulator
<1>5. CASE h \notin acc.seen /\ n = K
  <2> DEFINE t == Top(heap)
  <2>1. t \in DOMAIN heap /\ \A j \in DOMAIN heap : heap[j] <= heap[t]
    BY <1>1, <1>2, <1>5, TopExists
  <2>2. \A i \in DOMAIN heap : heap[i] # h
    BY <1>1, <1>5 DEF Elements
  <2>3. CASE ~(h < heap[t])
    <3>1. accumulate(acc, h) = acc
      BY <1>5, <2>3 DEF accumulate, full, peek
    <3>2. \A i \in DOMAIN heap : heap[i] < h
      BY <1>2, <2>1, <2>2, <2>3
    <3>3. HoldsSmallest(heap, S \cup {h})
      BY <1>1, <1>5, <3>2 DEF HoldsSmallest
    <3> QED BY <1>1, <3>1, <3>3 DEF Consistent
  <2>4. CASE h < heap[t]
    <3> DEFINE new == [heap EXCEPT ![t] = h]
    <3>1. accumulate(acc, h) = [heap |-> new, seen |-> (acc.seen \ {heap[t]}) \cup {h}]
      BY <1>5, <2>4 DEF accumulate, full, peek, ReplaceTop
    <3>2. /\ new \in Seq(Hash) /\ Len(new) = n /\ DOMAIN new = DOMAIN heap
          /\ new[t] = h /\ \A i \in DOMAIN heap \ {t} : new[i] = heap[i]
      BY <1>1, <1>2, <2>1
    <3> HIDE DEF new, t
    <3>3. \A i \in DOMAIN heap : heap[i] = heap[t] => i = t
      BY <1>1, <2>1 DEF NoDuplicates
    <3>4. Elements(new) = (Elements(heap) \ {heap[t]}) \cup {h}
      <4>1. ASSUME NEW e \in Elements(new) PROVE e \in (Elements(heap) \ {heap[t]}) \cup {h}
        <5>1. PICK i \in DOMAIN heap : e = new[i]
          BY <3>2 DEF Elements
        <5> QED BY <5>1, <3>2, <3>3 DEF Elements
      <4>2. ASSUME NEW e \in Elements(heap) \ {heap[t]} PROVE e \in Elements(new)
        <5>1. PICK i \in DOMAIN heap : e = heap[i] /\ i # t
          BY DEF Elements
        <5> QED BY <5>1, <3>2 DEF Elements
      <4>3. h \in Elements(new)
        BY <2>1, <3>2 DEF Elements
      <4> QED BY <4>1, <4>2, <4>3
    <3>5. NoDuplicates(new)
      <4> SUFFICES ASSUME NEW i \in DOMAIN new, NEW j \in DOMAIN new, new[i] = new[j]
                   PROVE  i = j
        BY DEF NoDuplicates
      <4>1. CASE i = t \/ j = t
        BY <4>1, <2>2, <3>2
      <4>2. CASE i # t /\ j # t
        BY <4>2, <1>1, <3>2 DEF NoDuplicates
      <4> QED BY <4>1, <4>2
    <3>6. \A i \in DOMAIN new : new[i] <= heap[t] /\ new[i] # heap[t] /\ new[i] \in Nat
      <4> SUFFICES ASSUME NEW i \in DOMAIN new
                   PROVE  new[i] <= heap[t] /\ new[i] # heap[t] /\ new[i] \in Nat
        OBVIOUS
      <4>1. CASE i = t
        BY <4>1, <1>2, <2>1, <2>2, <2>4, <3>2
      <4>2. CASE i # t
        BY <4>2, <1>2, <2>1, <3>2, <3>3
      <4> QED BY <4>1, <4>2
    <3>7. ASSUME NEW g \in (S \cup {h}) \ Elements(new), NEW i \in DOMAIN new
          PROVE  new[i] < g
      <4>1. g \in S /\ (g = heap[t] \/ g \notin Elements(heap))
        BY <3>4
      <4>2. heap[t] <= g
        BY <4>1, <1>1, <1>2, <2>1
      <4>3. g \in Nat /\ heap[t] \in Nat
        BY <4>1, <1>2, <2>1
      <4> QED BY <4>2, <4>3, <3>6
    <3>8. HoldsSmallest(new, S \cup {h})
      BY <1>1, <1>5, <3>2, <3>4, <3>5, <3>7 DEF HoldsSmallest
    <3>9. [heap |-> new, seen |-> (acc.seen \ {heap[t]}) \cup {h}] \in Accumulator
      BY <1>1, <3>2 DEF Accumulator
    <3> QED BY <1>1, <3>1, <3>4, <3>8, <3>9 DEF Consistent
  <2> QED BY <2>3, <2>4
<1> QED BY <1>3, <1>4, <1>5

\* The K smallest of two sketches are the K smallest of what they summarise.
THEOREM MergeKeepsSmallest ==
  ASSUME NEW g \in Seq(Hash), NEW l \in Seq(Hash), NEW m \in Seq(Hash),
         NEW S \in SUBSET Hash, NEW T \in SUBSET Hash,
         HoldsSmallest(g, S), HoldsSmallest(l, T),
         HoldsSmallest(m, Elements(g) \cup Elements(l))
  PROVE  HoldsSmallest(m, S \cup T)
<1>1. NoDuplicates(m) /\ Len(m) <= K /\ Elements(m) \subseteq S \cup T
  BY DEF HoldsSmallest
<1>2. ASSUME NEW a \in Seq(Hash), NEW U \in SUBSET Hash, HoldsSmallest(a, U),
             Elements(a) \subseteq Elements(g) \cup Elements(l),
             NEW h \in U \ Elements(m)
      PROVE  Len(m) = K /\ \A i \in DOMAIN m : m[i] < h
  <2>1. CASE h \in Elements(a)
    BY <1>2, <2>1 DEF HoldsSmallest
  <2>2. CASE h \notin Elements(a)
    <3>1. Len(a) = K /\ \A i \in DOMAIN a : a[i] < h
      BY <1>2, <2>2 DEF HoldsSmallest
    <3>2. CASE Elements(a) \subseteq Elements(m)
      <4>1. Len(m) = K /\ Elements(m) \subseteq Elements(a)
        BY <1>1, <1>2, <3>1, <3>2, NoRoom DEF HoldsSmallest
      <4> QED BY <3>1, <4>1 DEF Elements
    <3>3. CASE ~(Elements(a) \subseteq Elements(m))
      <4>1. PICK i \in DOMAIN a : a[i] \notin Elements(m)
        BY <3>3 DEF Elements
      <4>2. a[i] \in (Elements(g) \cup Elements(l)) \ Elements(m)
        BY <1>2, <4>1 DEF Elements
      <4>3. Len(m) = K /\ \A j \in DOMAIN m : m[j] < a[i]
        BY <4>2 DEF HoldsSmallest
      <4>4. a[i] < h /\ a[i] \in Nat /\ h \in Nat /\ \A j \in DOMAIN m : m[j] \in Nat
        BY <3>1, HeapFacts, MinKAssumption DEF Hash
      <4> QED BY <4>3, <4>4
    <3> QED BY <3>2, <3>3
  <2> QED BY <2>1, <2>2
<1>3. \A h \in (S \cup T) \ Elements(m) : Len(m) = K /\ \A i \in DOMAIN m : m[i] < h
  BY <1>2
<1> QED BY <1>1, <1>3 DEF HoldsSmallest

LEMMA NewIsConsistent == Consistent(NewAccumulator, {})
<1>1. <<>> \in Seq(Hash) /\ Len(<<>>) = 0 /\ DOMAIN <<>> = {}
  OBVIOUS
<1>2. Elements(<<>>) = {}
  BY <1>1 DEF Elements
<1> QED BY <1>1, <1>2, MinKAssumption
        DEF Consistent, NewAccumulator, Accumulator, HoldsSmallest, NoDuplicates

-----------------------------------------------------------------------------
(* The inductive invariant                                                 *)

\* The part of it that is about the accumulators.
LEMMA AllConsistent ==
  TypeOK /\ SeenIsHeap /\ Folded
    <=> /\ TypeOK
        /\ \A w \in Workers : Consistent(local[w], taken[w])
        /\ Consistent(global, TakenBy(reduced))
        /\ Consistent(merged, visited)
BY DEF TypeOK, SeenIsHeap, Folded, Consistent

LEMMA InitInvariant == Init => IInv
<1> SUFFICES ASSUME Init PROVE IInv
  OBVIOUS
<1>1. NewAccumulator \in Accumulator
  BY NewIsConsistent DEF Consistent
<1>2. TypeOK
  BY <1>1, MinKAssumption DEF Init, TypeOK
<1>3. TakenBy(reduced) = {}
  BY MinKAssumption DEF Init, TakenBy
<1>4. SeenIsHeap /\ Folded
  <2>1. \A w \in Workers : Consistent(local[w], taken[w])
    BY NewIsConsistent DEF Init
  <2>2. Consistent(global, TakenBy(reduced)) /\ Consistent(merged, visited)
    BY <1>3, NewIsConsistent DEF Init
  <2> QED BY <1>2, <2>1, <2>2, AllConsistent
<1>5. Taken /\ Merging
  BY DEF Init, Taken, Merging
<1> QED BY <1>2, <1>4, <1>5 DEF IInv

\* The actions keep it, one lemma each.
LEMMA AccumulateKeeps ==
  ASSUME IInv, NEW w \in Workers, NEW i \in todo, Accumulate(w, i)
  PROVE  IInv'
<1>1. /\ TypeOK /\ SeenIsHeap /\ Folded /\ Taken /\ Merging /\ pc = "fold"
      /\ hashes \in Seq(Hash)
  BY MinKAssumption DEF IInv, Accumulate, TypeOK
<1>2. i \in DOMAIN hashes /\ hashes[i] \in Hash
  BY <1>1 DEF TypeOK
<1>3. /\ todo' = todo \ {i}
      /\ local' = [local EXCEPT ![w] = accumulate(local[w], hashes[i])]
      /\ taken' = [taken EXCEPT ![w] = taken[w] \cup {hashes[i]}]
      /\ UNCHANGED <<hashes, pc, global, merged, left, reduced, visited>>
  BY DEF Accumulate
<1>4. /\ local \in [Workers -> Accumulator] /\ taken \in [Workers -> SUBSET Hash]
      /\ \A v \in Workers : Consistent(local[v], taken[v])
      /\ Consistent(global, TakenBy(reduced)) /\ Consistent(merged, visited)
  BY <1>1, AllConsistent DEF TypeOK
<1>5. Consistent(accumulate(local[w], hashes[i]), taken[w] \cup {hashes[i]})
  BY <1>2, <1>4, AccumulateKeepsSmallest
<1>6. accumulate(local[w], hashes[i]) \in Accumulator
  BY <1>5 DEF Consistent
<1>7. TypeOK'
  <2>1. local' \in [Workers -> Accumulator] /\ taken' \in [Workers -> SUBSET Hash]
    BY <1>2, <1>3, <1>4, <1>6
  <2> QED BY <1>1, <1>3, <2>1 DEF TypeOK
<1>8. \A v \in Workers : Consistent(local'[v], taken'[v])
  <2> SUFFICES ASSUME NEW v \in Workers PROVE Consistent(local'[v], taken'[v])
    OBVIOUS
  <2>1. CASE v = w
    BY <2>1, <1>3, <1>4, <1>5
  <2>2. CASE v # w
    <3>1. local'[v] = local[v] /\ taken'[v] = taken[v]
      BY <2>2, <1>3, <1>4
    <3> QED BY <3>1, <1>4
  <2> QED BY <2>1, <2>2
<1>9. TakenBy(reduced) = {} /\ TakenBy(reduced)' = {}
  BY <1>1, <1>3 DEF Merging, TakenBy
<1>10. SeenIsHeap' /\ Folded'
  <2>1. Consistent(global', TakenBy(reduced)') /\ Consistent(merged', visited')
    BY <1>3, <1>4, <1>9
  <2>2. /\ \A v \in Workers : local'[v].seen = Elements(local'[v].heap)
        /\ \A v \in Workers : HoldsSmallest(local'[v].heap, taken'[v])
    BY <1>8 DEF Consistent
  <2> QED BY <2>1, <2>2 DEF SeenIsHeap, Folded, Consistent
<1>11. Taken'
  <2>1. \A v \in Workers : taken'[v] \subseteq {hashes[j] : j \in DOMAIN hashes}
    <3> SUFFICES ASSUME NEW v \in Workers
                 PROVE  taken'[v] \subseteq {hashes[j] : j \in DOMAIN hashes}
      OBVIOUS
    <3>1. taken'[v] = taken[v] \/ taken'[v] = taken[v] \cup {hashes[i]}
      BY <1>3, <1>4
    <3>2. taken[v] \subseteq {hashes[j] : j \in DOMAIN hashes}
      BY <1>1 DEF Taken
    <3> QED BY <3>1, <3>2, <1>2
  <2>2. ASSUME NEW j \in DOMAIN hashes \ todo' PROVE \E v \in Workers : hashes[j] \in taken'[v]
    <3>1. CASE j = i
      <4>1. hashes[i] \in taken'[w]
        BY <1>3, <1>4
      <4> QED BY <3>1, <4>1
    <3>2. CASE j # i
      <4>1. PICK v \in Workers : hashes[j] \in taken[v]
        BY <3>2, <2>2, <1>1, <1>3 DEF Taken
      <4>2. hashes[j] \in taken'[v]
        BY <4>1, <1>3, <1>4
      <4> QED BY <4>2
    <3> QED BY <3>1, <3>2
  <2> QED BY <2>1, <2>2, <1>1, <1>3 DEF Taken
<1>12. Merging'
  BY <1>1, <1>3 DEF Merging
<1> QED BY <1>7, <1>10, <1>11, <1>12 DEF IInv

LEMMA FoldDoneKeeps == IInv /\ FoldDone => IInv'
BY DEF IInv, FoldDone, TypeOK, SeenIsHeap, Taken, TakenBy, Folded, Merging

LEMMA ReturnKeeps == IInv /\ Return => IInv'
BY DEF IInv, Return, TypeOK, SeenIsHeap, Taken, TakenBy, Folded, Merging

LEMMA StartReduceKeeps == IInv /\ StartReduce => IInv'
<1> SUFFICES ASSUME IInv, StartReduce PROVE IInv'
  OBVIOUS
<1> DEFINE l == local[reduced + 1].heap
<1>1. /\ TypeOK /\ SeenIsHeap /\ Folded /\ Taken
      /\ pc = "reduce" /\ reduced < num_workers_ /\ pc' = "merge"
      /\ merged' = NewAccumulator /\ visited' = {}
      /\ left' = ({"global"} \X DOMAIN global.heap) \cup ({"local"} \X DOMAIN l)
      /\ UNCHANGED <<hashes, todo, local, global, reduced, taken>>
  BY DEF IInv, StartReduce
<1>2. reduced + 1 \in Workers
  BY <1>1, MinKAssumption DEF TypeOK, Workers
<1>3. global.heap \in Seq(Hash) /\ l \in Seq(Hash)
  BY <1>1, <1>2 DEF TypeOK, Accumulator
<1> HIDE DEF l
<1>4. DOMAIN global.heap \subseteq Nat /\ DOMAIN l \subseteq Nat
  BY <1>3, HeapFacts
<1>5. TypeOK'
  <2>1. merged' \in Accumulator
    BY <1>1, NewIsConsistent DEF Consistent
  <2>2. left' \subseteq {"global", "local"} \X Nat
    BY <1>1, <1>4
  <2> QED BY <1>1, <2>1, <2>2 DEF TypeOK
<1>6. SeenIsHeap' /\ Folded'
  <2>1. Consistent(merged', visited')
    BY <1>1, NewIsConsistent
  <2>2. TakenBy(reduced)' = TakenBy(reduced)
    BY <1>1 DEF TakenBy
  <2> QED BY <1>1, <2>1, <2>2 DEF SeenIsHeap, Folded, Consistent
<1>7. Taken'
  BY <1>1 DEF Taken, IInv
<1>8. Merging'
  <2>1. \A k \in left' : \/ k[1] = "global" /\ k[2] \in DOMAIN global.heap
                         \/ k[1] = "local" /\ k[2] \in DOMAIN l
    BY <1>1
  <2>2. /\ \A k \in DOMAIN global.heap : <<"global", k>> \in left'
        /\ \A k \in DOMAIN l : <<"local", k>> \in left'
    BY <1>1
  <2>3. l' = l
    BY <1>1 DEF l
  <2> QED BY <1>1, <2>1, <2>2, <2>3 DEF Merging, l
<1> QED BY <1>5, <1>6, <1>7, <1>8 DEF IInv

LEMMA MergeKeeps ==
  ASSUME IInv, NEW k \in left, Merge(k[1], k[2])
  PROVE  IInv'
<1> DEFINE l == local[reduced + 1].heap
           h == IF k[1] = "global" THEN global.heap[k[2]] ELSE l[k[2]]
<1>1. /\ TypeOK /\ SeenIsHeap /\ Folded /\ Taken /\ Merging /\ pc = "merge"
      /\ merged' = accumulate(merged, h) /\ visited' = visited \cup {h}
      /\ left' = left \ {<<k[1], k[2]>>}
      /\ UNCHANGED <<hashes, pc, todo, local, global, reduced, taken>>
  BY DEF IInv, Merge
<1>2. reduced + 1 \in Workers /\ reduced < num_workers_
  BY <1>1, MinKAssumption DEF TypeOK, Workers, Merging
<1>3. global.heap \in Seq(Hash) /\ l \in Seq(Hash)
  BY <1>1, <1>2 DEF TypeOK, Accumulator
<1>4. \/ k[1] = "global" /\ k[2] \in DOMAIN global.heap /\ h = global.heap[k[2]]
      \/ k[1] = "local" /\ k[2] \in DOMAIN l /\ h = l[k[2]]
  BY <1>1 DEF Merging
<1>5. k = <<k[1], k[2]>>
  BY <1>1 DEF TypeOK
<1> HIDE DEF h, l
<1>6. h \in Hash /\ h \in Elements(global.heap) \cup Elements(l)
  BY <1>3, <1>4, HeapFacts DEF Elements
<1>7. Consistent(merged', visited')
  <2>1. Consistent(merged, visited) /\ visited \in SUBSET Hash
    BY <1>1, AllConsistent DEF TypeOK
  <2> QED BY <1>1, <1>6, <2>1, AccumulateKeepsSmallest
<1>8. TypeOK'
  <2>1. merged' \in Accumulator
    BY <1>7 DEF Consistent
  <2> QED BY <1>1, <1>6, <2>1 DEF TypeOK
<1>9. SeenIsHeap' /\ Folded'
  <2>1. TakenBy(reduced)' = TakenBy(reduced)
    BY <1>1 DEF TakenBy
  <2> QED BY <1>1, <1>7, <2>1 DEF SeenIsHeap, Folded, Consistent
<1>10. Taken'
  BY <1>1 DEF Taken
<1>11. Merging'
  <2>1. l' = l
    BY <1>1 DEF l
  <2>2. visited' \subseteq Elements(global.heap) \cup Elements(l)
    BY <1>1, <1>6 DEF Merging, l
  <2>3. ASSUME NEW j \in DOMAIN global.heap
        PROVE  global.heap[j] \in visited' \/ <<"global", j>> \in left'
    <3>1. global.heap[j] \in visited \/ <<"global", j>> \in left
      BY <1>1 DEF Merging
    <3>2. CASE <<"global", j>> = <<k[1], k[2]>>
      <4>1. k[1] = "global" /\ k[2] = j
        BY <3>2
      <4> QED BY <4>1, <1>1, <1>4
    <3>3. CASE <<"global", j>> # <<k[1], k[2]>>
      BY <3>1, <3>3, <1>1
    <3> QED BY <3>2, <3>3
  <2>4. ASSUME NEW j \in DOMAIN l
        PROVE  l[j] \in visited' \/ <<"local", j>> \in left'
    <3>1. l[j] \in visited \/ <<"local", j>> \in left
      BY <1>1 DEF Merging, l
    <3>2. CASE <<"local", j>> = <<k[1], k[2]>>
      <4>1. k[1] = "local" /\ k[2] = j
        BY <3>2
      <4> QED BY <4>1, <1>1, <1>4
    <3>3. CASE <<"local", j>> # <<k[1], k[2]>>
      BY <3>1, <3>3, <1>1
    <3> QED BY <3>2, <3>3
  <2>5. \A j \in left' : \/ j[1] = "global" /\ j[2] \in DOMAIN global.heap
                         \/ j[1] = "local" /\ j[2] \in DOMAIN l
    BY <1>1 DEF Merging, l
  <2> QED BY <1>1, <1>2, <2>1, <2>2, <2>3, <2>4, <2>5 DEF Merging, l
<1> QED BY <1>8, <1>9, <1>10, <1>11 DEF IInv

LEMMA MergeDoneKeeps == IInv /\ MergeDone => IInv'
<1> SUFFICES ASSUME IInv, MergeDone PROVE IInv'
  OBVIOUS
<1> DEFINE l == local[reduced + 1].heap  n == reduced + 1
<1>1. /\ TypeOK /\ SeenIsHeap /\ Folded /\ Taken /\ Merging /\ pc = "merge" /\ left = {}
      /\ pc' = "reduce" /\ global' = merged /\ merged' = NewAccumulator
      /\ reduced' = n /\ visited' = {}
      /\ UNCHANGED <<hashes, todo, local, left, taken>>
  BY DEF IInv, MergeDone
<1>2. reduced \in Nat /\ n \in Workers /\ n \in 0 .. num_workers_
  BY <1>1, MinKAssumption DEF TypeOK, Workers, Merging
<1>3. /\ global.heap \in Seq(Hash) /\ l \in Seq(Hash) /\ merged.heap \in Seq(Hash)
      /\ taken \in [Workers -> SUBSET Hash]
  BY <1>1, <1>2 DEF TypeOK, Accumulator
<1>4. visited = Elements(global.heap) \cup Elements(l)
  BY <1>1 DEF Merging, Elements
<1>5. /\ HoldsSmallest(global.heap, TakenBy(reduced)) /\ HoldsSmallest(l, taken[n])
      /\ HoldsSmallest(merged.heap, visited)
  BY <1>1, <1>2 DEF Folded
<1>6. TakenBy(n) = TakenBy(reduced) \cup taken[n]
  <2>1. 1 .. n = (1 .. reduced) \cup {n}
    BY <1>2
  <2> HIDE DEF n
  <2> QED BY <2>1 DEF TakenBy
<1>7. TakenBy(reduced) \in SUBSET Hash /\ taken[n] \in SUBSET Hash
  <2>1. 1 .. reduced \subseteq Workers
    <3>1. reduced <= num_workers_ /\ num_workers_ \in Nat
      BY <1>1, MinKAssumption DEF TypeOK
    <3> QED BY <3>1, <1>2 DEF Workers
  <2>2. \A w \in Workers : taken[w] \subseteq Hash
    BY <1>3
  <2> HIDE DEF n
  <2> QED BY <2>1, <2>2, <1>2 DEF TakenBy
<1> HIDE DEF l, n
<1>8. HoldsSmallest(merged.heap, TakenBy(reduced) \cup taken[n])
  BY <1>3, <1>4, <1>5, <1>7, MergeKeepsSmallest
<1>9. TakenBy(reduced)' = TakenBy(n)
  BY <1>1 DEF TakenBy
<1>10. TypeOK'
  <2>1. merged' \in Accumulator
    BY <1>1, NewIsConsistent DEF Consistent
  <2> QED BY <1>1, <1>2, <2>1 DEF TypeOK
<1>11. SeenIsHeap' /\ Folded'
  <2>1. Consistent(merged', visited')
    BY <1>1, NewIsConsistent
  <2>2. HoldsSmallest(global'.heap, TakenBy(reduced)')
    BY <1>1, <1>6, <1>8, <1>9
  <2> QED BY <1>1, <2>1, <2>2 DEF SeenIsHeap, Folded, Consistent
<1>12. Taken' /\ Merging'
  BY <1>1 DEF Taken, Merging
<1> QED BY <1>10, <1>11, <1>12 DEF IInv

LEMMA StepInvariant == IInv /\ [Next]_vars => IInv'
<1> SUFFICES ASSUME IInv, [Next]_vars PROVE IInv'
  OBVIOUS
<1>1. ASSUME NEW w \in Workers, NEW i \in todo, Accumulate(w, i) PROVE IInv'
  BY <1>1, AccumulateKeeps
<1>2. CASE FoldDone
  BY <1>2, FoldDoneKeeps
<1>3. CASE StartReduce
  BY <1>3, StartReduceKeeps
<1>4. ASSUME NEW k \in left, Merge(k[1], k[2]) PROVE IInv'
  BY <1>4, MergeKeeps
<1>5. CASE MergeDone
  BY <1>5, MergeDoneKeeps
<1>6. CASE Return
  BY <1>6, ReturnKeeps
<1>7. CASE UNCHANGED vars
  BY <1>7 DEF vars, IInv, TypeOK, SeenIsHeap, Taken, TakenBy, Folded, Merging
<1> QED BY <1>1, <1>2, <1>3, <1>4, <1>5, <1>6, <1>7 DEF Next, Step, Ended

THEOREM Invariant == Spec => []IInv
<1>1. Init => IInv
  BY InitInvariant
<1>2. IInv /\ [Next]_vars => IInv'
  BY StepInvariant
<1> QED BY <1>1, <1>2, PTL DEF Spec

\* The types of the variables.
THEOREM TypeCorrect == Spec => []TypeOK
<1>1. IInv => TypeOK
  BY DEF IInv
<1> QED BY <1>1, Invariant, PTL

\* The map of an accumulator never holds more than its heap.
THEOREM SeenAlwaysIsHeap == Spec => []SeenIsHeap
<1>1. IInv => SeenIsHeap
  BY DEF IInv
<1> QED BY <1>1, Invariant, PTL

\* The sketch of a file depends on the set of its hashes alone: not on how many
\* workers there are, nor on which of them gets what, nor when.
THEOREM SketchHoldsSmallest == Spec => []SketchIsSmallest
<1>1. IInv => SketchIsSmallest
  <2> SUFFICES ASSUME IInv, pc = "end"
               PROVE  HoldsSmallest(global.heap, {hashes[i] : i \in DOMAIN hashes})
    BY DEF SketchIsSmallest
  <2>1. todo = {} /\ reduced = num_workers_
    BY DEF IInv, Taken, Merging
  <2>2. TakenBy(num_workers_) = {hashes[i] : i \in DOMAIN hashes}
    BY <2>1 DEF IInv, Taken, TakenBy, Workers
  <2> QED BY <2>1, <2>2 DEF IInv, Folded
<1> QED BY <1>1, Invariant, PTL
=============================================================================
