--------------------------- MODULE CompareProofs ---------------------------
(***************************************************************************)
(* Proofs about Compare, for sketches of every size and files of any       *)
(* hashes.                                                                 *)
(***************************************************************************)
EXTENDS Compare, TLAPS, FiniteSetTheorems, WellFoundedInduction

-----------------------------------------------------------------------------
(* Sets of hashes                                                          *)

\* Sets of hashes are finite.
LEMMA HashSets ==
  ASSUME NEW S \in SUBSET Hash
  PROVE  /\ IsFiniteSet(S) /\ Cardinality(S) \in Nat
         /\ \A h \in S : h \in Nat
         /\ Cardinality(S) = 0 <=> S = {}
<1>1. MaxHash \in Int /\ 0 \in Int /\ Hash \subseteq Nat
  BY CompareAssumption DEF Hash
<1>2. IsFiniteSet(Hash)
  BY <1>1, FS_Interval DEF Hash
<1>3. IsFiniteSet(S)
  BY <1>2, FS_Subset
<1> QED BY <1>1, <1>3, FS_CardinalityType, FS_EmptySet

\* A part has no more elements than the whole.
LEMMA PartIsSmaller ==
  ASSUME NEW S \in SUBSET Hash, NEW T \in SUBSET S
  PROVE  /\ T \in SUBSET Hash
         /\ Cardinality(T) <= Cardinality(S)
         /\ Cardinality(S) = Cardinality(T) => S = T
BY HashSets, FS_Subset

\* Two sets together have the elements of both, those in common counted once.
LEMMA Union ==
  ASSUME NEW S \in SUBSET Hash, NEW T \in SUBSET Hash
  PROVE  Cardinality(S \cup T) = Cardinality(S) + Cardinality(T) - Cardinality(S \cap T)
BY HashSets, FS_Union

LEMMA WithoutOne ==
  ASSUME NEW S \in SUBSET Hash, NEW h \in S
  PROVE  /\ S \ {h} \in SUBSET Hash
         /\ Cardinality(S \ {h}) = Cardinality(S) - 1
BY HashSets, FS_RemoveElement

\* A set with an element has a least one.
LEMMA LeastExists ==
  ASSUME NEW S \in SUBSET Hash, S # {}
  PROVE  \E m \in S : \A h \in S : m <= h
<1>1. S \subseteq Nat
  BY HashSets
<1>2. PICK m \in S : \A h \in S : ~(<<h, m>> \in OpToRel(<, Nat))
  BY <1>1, NatLessThanWellFounded, WFMin
<1>3. ASSUME NEW h \in S PROVE m <= h
  <2>1. m \in Nat /\ h \in Nat
    BY <1>1
  <2>2. CASE h < m
    <3>1. <<h, m>> \in OpToRel(<, Nat)
      BY <2>1, <2>2, SMT DEF OpToRel
    <3> QED BY <1>2, <3>1
  <2> QED BY <2>1, <2>2
<1> QED BY <1>3

\* And a largest one: its distance to MaxHash is the least.
LEMMA LargestExists ==
  ASSUME NEW S \in SUBSET Hash, S # {}
  PROVE  \E m \in S : \A h \in S : h <= m
<1> DEFINE Distances == {d \in Hash : MaxHash - d \in S}
<1>1. MaxHash \in Nat /\ \A h \in S : h \in 0 .. MaxHash
  BY CompareAssumption DEF Hash
<1>2. ASSUME NEW h \in S PROVE MaxHash - h \in Distances
  <2>1. MaxHash - h \in 0 .. MaxHash /\ MaxHash - (MaxHash - h) = h
    BY <1>1
  <2> QED BY <2>1 DEF Hash
<1>3. Distances \in SUBSET Hash /\ Distances # {}
  BY <1>2
<1>4. PICK d \in Distances : \A e \in Distances : d <= e
  <2> HIDE DEF Distances
  <2> QED BY <1>3, LeastExists
<1>5. ASSUME NEW h \in S PROVE h <= MaxHash - d
  <2>1. d <= MaxHash - h
    BY <1>2, <1>4
  <2>2. d \in 0 .. MaxHash
    BY <1>4 DEF Hash
  <2> QED BY <1>1, <2>1, <2>2
<1> QED BY <1>4, <1>5

-----------------------------------------------------------------------------
(* Sketches                                                                *)

Below(S, h) == {g \in S : g < h}

LEMMA SketchFacts ==
  ASSUME NEW S \in SUBSET Hash
  PROVE  /\ sketch(S) \in SUBSET S /\ sketch(S) \in SUBSET Hash
         /\ \A h \in S : h \in sketch(S) <=> Cardinality(Below(S, h)) < K
         /\ \A h \in S : Below(S, h) \in SUBSET S /\ Below(S, h) \in SUBSET Hash
         /\ K \in Nat /\ K > 0
BY CompareAssumption DEF sketch, Below

\* A file of no more than K hashes is its own sketch.
LEMMA SketchOfSmall ==
  ASSUME NEW S \in SUBSET Hash, Cardinality(S) <= K
  PROVE  sketch(S) = S
<1>1. ASSUME NEW h \in S PROVE h \in sketch(S)
  <2>1. h \in Nat /\ Cardinality(S) \in Nat
    BY HashSets
  <2>2. Below(S, h) \in SUBSET (S \ {h})
    BY <2>1 DEF Below
  <2>3. Cardinality(Below(S, h)) <= Cardinality(S \ {h})
    BY <2>2, WithoutOne, PartIsSmaller
  <2>4. Cardinality(Below(S, h)) \in Nat
    BY SketchFacts, HashSets
  <2> QED BY <2>1, <2>3, <2>4, WithoutOne, SketchFacts
<1> QED BY <1>1, SketchFacts

\* A sketch holds no more than K hashes: its largest has fewer than K below it.
LEMMA SketchFits ==
  ASSUME NEW S \in SUBSET Hash
  PROVE  Cardinality(sketch(S)) <= K
<1>1. CASE sketch(S) = {}
  BY <1>1, SketchFacts, HashSets
<1>2. CASE sketch(S) # {}
  <2>1. PICK m \in sketch(S) : \A h \in sketch(S) : h <= m
    BY <1>2, SketchFacts, LargestExists
  <2>2. m \in S /\ m \in Nat /\ \A h \in sketch(S) : h \in S /\ h \in Nat
    BY SketchFacts, HashSets
  <2>3. sketch(S) \ {m} \in SUBSET Below(S, m)
    <3>1. ASSUME NEW h \in sketch(S), h # m PROVE h < m /\ h \in S
      BY <2>1, <2>2, <3>1
    <3> QED BY <3>1 DEF Below
  <2>4. Cardinality(sketch(S) \ {m}) <= Cardinality(Below(S, m))
    BY <2>2, <2>3, SketchFacts, PartIsSmaller
  <2>5. Cardinality(Below(S, m)) < K
    BY <2>1, <2>2, SketchFacts
  <2>6. Cardinality(sketch(S) \ {m}) = Cardinality(sketch(S)) - 1
    BY SketchFacts, WithoutOne
  <2>7. Cardinality(sketch(S)) \in Nat /\ Cardinality(Below(S, m)) \in Nat /\ K \in Nat
    BY <2>2, SketchFacts, HashSets
  <2> QED BY <2>4, <2>5, <2>6, <2>7
<1> QED BY <1>1, <1>2

\* The sketch of a file of K hashes or more is full: otherwise the least hash
\* left out has fewer than K below it, all of them in the sketch.
LEMMA SketchFull ==
  ASSUME NEW S \in SUBSET Hash, Cardinality(S) >= K
  PROVE  Cardinality(sketch(S)) = K
<1>1. /\ Cardinality(sketch(S)) \in Nat /\ K \in Nat
      /\ Cardinality(sketch(S)) <= K /\ Cardinality(S) \in Nat
  BY SketchFacts, SketchFits, HashSets
<1>2. SUFFICES ASSUME Cardinality(sketch(S)) < K PROVE FALSE
  BY <1>1
<1>3. S \ sketch(S) # {} /\ S \ sketch(S) \in SUBSET Hash
  <2>1. CASE S \ sketch(S) = {}
    <3>1. sketch(S) = S
      BY <2>1, SketchFacts
    <3> QED BY <1>1, <1>2, <3>1
  <2> QED BY <2>1
<1>4. PICK m \in S \ sketch(S) : \A h \in S \ sketch(S) : m <= h
  BY <1>3, LeastExists
<1>5. Below(S, m) \in SUBSET sketch(S)
  <2>1. m \in Nat /\ \A h \in S : h \in Nat
    BY HashSets
  <2>2. ASSUME NEW h \in S, h < m PROVE h \in sketch(S)
    BY <1>4, <2>1, <2>2
  <2> QED BY <2>2 DEF Below
<1>6. Cardinality(Below(S, m)) <= Cardinality(sketch(S))
  BY <1>5, SketchFacts, PartIsSmaller
<1>7. Cardinality(Below(S, m)) \in Nat
  BY <1>5, SketchFacts, HashSets
<1>8. Cardinality(Below(S, m)) < K
  BY <1>1, <1>2, <1>6, <1>7
<1> QED BY <1>4, <1>8, SketchFacts

\* A hash among the K smallest of two files is among those of its own.
LEMMA SketchOfPart ==
  ASSUME NEW S \in SUBSET Hash, NEW T \in SUBSET S
  PROVE  sketch(S) \cap T \subseteq sketch(T)
<1>1. SUFFICES ASSUME NEW h \in sketch(S) \cap T PROVE h \in sketch(T)
  OBVIOUS
<1>2. T \in SUBSET Hash /\ h \in S /\ h \in T
  BY PartIsSmaller
<1>3. Below(T, h) \in SUBSET Below(S, h)
  BY DEF Below
<1>4. Cardinality(Below(T, h)) <= Cardinality(Below(S, h))
  BY <1>2, <1>3, SketchFacts, PartIsSmaller
<1>5. Cardinality(Below(S, h)) < K
  BY <1>2, SketchFacts
<1>6. Cardinality(Below(T, h)) \in Nat /\ Cardinality(Below(S, h)) \in Nat /\ K \in Nat
  BY <1>2, SketchFacts, HashSets
<1>7. Cardinality(Below(T, h)) < K
  BY <1>4, <1>5, <1>6
<1> QED BY <1>2, <1>7, SketchFacts

\* A sketch is empty only if the file is.
LEMMA SketchNotEmpty ==
  ASSUME NEW S \in SUBSET Hash
  PROVE  Cardinality(S) > 0 => Cardinality(sketch(S)) > 0
<1>1. Cardinality(S) \in Nat /\ K \in Nat /\ K > 0
  BY HashSets, SketchFacts
<1>2. CASE Cardinality(S) <= K
  BY <1>1, <1>2, SketchOfSmall
<1>3. CASE Cardinality(S) >= K
  BY <1>1, <1>3, SketchFull
<1> QED BY <1>1, <1>2, <1>3

\* A sketch is as large as the file, or full.
LEMMA SketchSize ==
  ASSUME NEW S \in SUBSET Hash
  PROVE  Cardinality(sketch(S)) < K <=> Cardinality(S) < K
<1>1. Cardinality(S) \in Nat /\ K \in Nat /\ Cardinality(sketch(S)) \in Nat
  BY HashSets, SketchFacts
<1>2. CASE Cardinality(S) < K
  BY <1>1, <1>2, SketchOfSmall
<1>3. CASE Cardinality(S) >= K
  BY <1>1, <1>3, SketchFull
<1> QED BY <1>1, <1>2, <1>3

-----------------------------------------------------------------------------
(* The index                                                               *)

LEMMA SharedFacts ==
  ASSUME NEW S \in SUBSET Hash, NEW T \in SUBSET Hash
  PROVE  /\ Shared(S, T) = Cardinality(S \cap T)
         /\ Shared(S, T) \in Nat /\ Cardinality(S) \in Nat /\ Cardinality(T) \in Nat
         /\ Shared(S, T) <= Cardinality(S) /\ Shared(S, T) <= Cardinality(T)
<1>1. {h \in S : h \in T} = S \cap T /\ {h \in T : h \in S} = S \cap T
  OBVIOUS
<1>2. Shared(S, T) = Cardinality(S \cap T)
  BY <1>1 DEF Shared
<1>3. /\ S \cap T \in SUBSET S /\ S \cap T \in SUBSET T
      /\ Cardinality(S \cap T) \in Nat
  BY HashSets
<1> QED BY <1>2, <1>3, HashSets, PartIsSmaller

\* The index of two sketches is a part of the whole.
LEMMA IndexFacts ==
  ASSUME NEW S \in SUBSET Hash, NEW T \in SUBSET Hash,
         Cardinality(S) <= K, Cardinality(T) <= K
  PROVE  LET i == jaccard(Summed(S, T), S, T) IN
           /\ i \in Nat \X Nat
           /\ i[1] <= i[2]
           /\ Cardinality(S) + Cardinality(T) > 0 => i[2] > 0
<1> DEFINE u == Shared(S, T)  c == Cardinality(S)  d == Cardinality(T)
<1>1. u \in Nat /\ c \in Nat /\ d \in Nat /\ u <= c /\ u <= d
  BY SharedFacts
<1>2. K \in Nat /\ K > 0
  BY CompareAssumption
<1>3. c <= K
  OBVIOUS
<1>4. CASE Summed(S, T) = K
  <2>1. jaccard(Summed(S, T), S, T) = <<u, K>>
    BY <1>4 DEF jaccard
  <2>2. u <= K
    <3> HIDE DEF u, c
    <3> QED BY <1>1, <1>2, <1>3
  <2> HIDE DEF u
  <2> QED BY <1>1, <1>2, <2>1, <2>2
<1>5. CASE Summed(S, T) # K
  <2>1. Summed(S, T) = c + d
    BY <1>5 DEF Summed
  <2>2. jaccard(Summed(S, T), S, T) = <<u, (c + d) - u>>
    BY <1>5, <2>1 DEF jaccard
  <2>3. (c + d) - u \in Nat /\ u <= (c + d) - u /\ (c + d > 0 => (c + d) - u > 0)
    <3> HIDE DEF u, c, d
    <3> QED BY <1>1
  <2> HIDE DEF u
  <2> QED BY <1>1, <2>2, <2>3
<1> QED BY <1>4, <1>5

-----------------------------------------------------------------------------
(* The inductive invariant                                                 *)

LEMMA FileSets ==
  ASSUME TypeOK
  PROVE  /\ file1 \in SUBSET Hash /\ file2 \in SUBSET Hash
         /\ sketch(file1) \in SUBSET Hash /\ sketch(file2) \in SUBSET Hash
<1>1. file1 \in SUBSET Hash /\ file2 \in SUBSET Hash
  BY DEF TypeOK, Files
<1> QED BY <1>1, SketchFacts

LEMMA InitInvariant == Init => IInv
<1> SUFFICES ASSUME Init PROVE IInv
  OBVIOUS
<1>1. index \in Nat \X Nat
  BY DEF Init, NoIndex
<1>2. TypeOK
  BY <1>1 DEF Init, TypeOK
<1>3. Sketched
  BY DEF Init, Sketched, Printed
<1> QED BY <1>2, <1>3 DEF IInv

LEMMA StepInvariant == IInv /\ [Next]_vars => IInv'
<1> SUFFICES ASSUME IInv, [Next]_vars PROVE IInv'
  OBVIOUS
<1>1. TypeOK /\ Sketched
  BY DEF IInv
<1>2. CASE SketchFirst
  <2>1. sketch(file1) \in SUBSET Hash
    BY <1>1, FileSets
  <2>2. TypeOK'
    BY <1>1, <1>2, <2>1 DEF TypeOK, SketchFirst
  <2>3. Sketched'
    BY <1>1, <1>2 DEF Sketched, Printed, SketchFirst
  <2> QED BY <2>2, <2>3 DEF IInv
<1>3. CASE SketchSecond
  <2>1. sketch(file2) \in SUBSET Hash
    BY <1>1, FileSets
  <2>2. TypeOK'
    BY <1>1, <1>3, <2>1 DEF TypeOK, SketchSecond
  <2>3. Sketched'
    BY <1>1, <1>3 DEF Sketched, Printed, SketchSecond
  <2> QED BY <2>2, <2>3 DEF IInv
<1>4. CASE SketchThrows
  <2>1. TypeOK'
    BY <1>1, <1>4 DEF TypeOK, SketchThrows
  <2>2. Sketched'
    BY <1>1, <1>4 DEF Sketched, Printed, SketchThrows
  <2> QED BY <2>1, <2>2 DEF IInv
<1>5. CASE PrintIndex
  <2>1. h1 = sketch(file1) /\ h2 = sketch(file2)
    BY <1>1, <1>5 DEF PrintIndex, Sketched
  <2>2. /\ h1 \in SUBSET Hash /\ h2 \in SUBSET Hash
        /\ Cardinality(h1) <= K /\ Cardinality(h2) <= K
    BY <1>1, <2>1, FileSets, SketchFits
  <2>3. jaccard(Summed(h1, h2), h1, h2) \in Nat \X Nat
    BY <2>2, IndexFacts
  <2>4. TypeOK'
    BY <1>1, <1>5, <2>3 DEF TypeOK, PrintIndex
  <2>5. Sketched'
    BY <1>5, <2>1 DEF Sketched, Printed, PrintIndex
  <2> QED BY <2>4, <2>5 DEF IInv
<1>6. CASE Ended \/ UNCHANGED vars
  BY <1>1, <1>6 DEF Ended, vars, IInv, TypeOK, Sketched, Printed
<1> QED BY <1>2, <1>3, <1>4, <1>5, <1>6 DEF Next

LEMMA Invariant == Spec => []IInv
BY InitInvariant, StepInvariant, PTL DEF Spec

\* When a figure is printed it is the index of the two sketches.
LEMMA PrintedFacts ==
  ASSUME IInv, Printed
  PROVE  /\ file1 \in SUBSET Hash /\ file2 \in SUBSET Hash
         /\ h1 \in SUBSET Hash /\ h2 \in SUBSET Hash
         /\ h1 = sketch(file1) /\ h2 = sketch(file2)
         /\ index = jaccard(Summed(h1, h2), h1, h2)
         /\ Size1 \in Nat /\ Size2 \in Nat /\ K \in Nat /\ K > 0
         /\ Cardinality(h1) \in Nat /\ Cardinality(h2) \in Nat
         /\ Cardinality(h1) <= K /\ Cardinality(h2) <= K
<1>1. TypeOK /\ Sketched
  BY DEF IInv
<1>2. /\ file1 \in SUBSET Hash /\ file2 \in SUBSET Hash
      /\ sketch(file1) \in SUBSET Hash /\ sketch(file2) \in SUBSET Hash
  BY <1>1, FileSets
<1>3. h1 = sketch(file1) /\ h2 = sketch(file2) /\ index = jaccard(Summed(h1, h2), h1, h2)
  BY <1>1 DEF Sketched
<1>4. Size1 \in Nat /\ Size2 \in Nat /\ K \in Nat /\ K > 0
  BY <1>2, HashSets, CompareAssumption DEF Size1, Size2
<1> QED BY <1>2, <1>3, <1>4, HashSets, SketchFits

-----------------------------------------------------------------------------
(* Theorems                                                                *)

\* The variables have their types: the subtraction in jaccard never goes below
\* zero, whatever the two files share.
THEOREM TypeCorrect == Spec => []TypeOK
<1>1. IInv => TypeOK
  BY DEF IInv
<1> QED BY <1>1, Invariant, PTL

\* What compare prints is between 0 and 1, unless both files are empty.
THEOREM IndexWithinUnit == Spec => []WithinUnit
<1>1. IInv => WithinUnit
  <2> SUFFICES ASSUME IInv, Printed, Size1 + Size2 > 0
               PROVE  index[2] > 0 /\ index[1] <= index[2]
    BY DEF WithinUnit
  <2>1. /\ index[1] <= index[2]
        /\ Cardinality(h1) + Cardinality(h2) > 0 => index[2] > 0
    BY PrintedFacts, IndexFacts
  <2>2. Cardinality(h1) + Cardinality(h2) > 0
    <3>1. Size1 > 0 \/ Size2 > 0
      BY PrintedFacts
    <3>2. Cardinality(h1) > 0 \/ Cardinality(h2) > 0
      BY <3>1, PrintedFacts, SketchNotEmpty DEF Size1, Size2
    <3> QED BY <3>2, PrintedFacts
  <2> QED BY <2>1, <2>2
<1> QED BY <1>1, Invariant, PTL

\* A file is found to be the same as itself, unless it holds exactly K/2
\* distinct hashes.
THEOREM SameFilesAreFoundEqual == Spec => []SameFilesMatch
<1>1. IInv => SameFilesMatch
  <2> SUFFICES ASSUME IInv, Printed, file1 = file2, Size1 > 0, 2 * Size1 # K
               PROVE  index[1] = index[2]
    BY DEF SameFilesMatch
  <2> DEFINE c == Cardinality(h1)
  <2>1. h2 = h1 /\ c \in Nat /\ K \in Nat /\ Size1 \in Nat /\ h1 \in SUBSET Hash
    BY PrintedFacts
  <2>2. Shared(h1, h2) = c
    <3>1. h1 \cap h2 = h1
      BY <2>1
    <3> QED BY <2>1, <3>1, SharedFacts
  <2>3. CASE Size1 < K
    <3>1. h1 = file1 /\ c = Size1
      BY <2>1, <2>3, PrintedFacts, SketchOfSmall DEF Size1
    <3>2. Summed(h1, h2) = c + c
      BY <2>1, <2>3, <3>1 DEF Summed
    <3>3. c + c # K /\ (c + c) - c = c
      BY <2>1, <3>1
    <3>4. index = <<c, (c + c) - c>>
      BY <2>2, <3>2, <3>3, PrintedFacts DEF jaccard
    <3> QED BY <3>3, <3>4
  <2>4. CASE Size1 >= K
    <3>1. c = K
      BY <2>4, PrintedFacts, SketchFull DEF Size1
    <3>2. Summed(h1, h2) = K
      BY <2>1, <3>1 DEF Summed
    <3>3. index = <<c, K>>
      BY <2>2, <3>2, PrintedFacts DEF jaccard
    <3> QED BY <3>1, <3>3
  <2> QED BY <2>1, <2>3, <2>4
<1> QED BY <1>1, Invariant, PTL

\* When neither sketch is full, the figure is the Jaccard index of the files, unless
\* their sizes sum to K; then it lies between half of the index and the index.
THEOREM ExactBelowK == Spec => []ExactWhenBothFit
<1>1. IInv => ExactWhenBothFit
  <2> SUFFICES ASSUME IInv, Printed, Size1 < K, Size2 < K, Size1 + Size2 > 0
               PROVE  /\ index[2] > 0
                      /\ Size1 + Size2 # K => Equal(index, Similarity)
                      /\ AtMost(index, Similarity) /\ AtMost(Similarity, Twice(index))
    BY DEF ExactWhenBothFit
  <2>1. h1 = file1 /\ h2 = file2
    BY PrintedFacts, SketchOfSmall DEF Size1, Size2
  <2>2. Summed(h1, h2) = Size1 + Size2
    BY <2>1 DEF Summed, Size1, Size2
  <2> DEFINE u == Cardinality(file1 \cap file2)  v == Cardinality(file1 \cup file2)
  <2>3. /\ u \in Nat /\ u <= Size1 /\ u <= Size2 /\ Shared(h1, h2) = u
        /\ Size1 \in Nat /\ Size2 \in Nat /\ K \in Nat
    BY <2>1, PrintedFacts, SharedFacts DEF Size1, Size2
  <2>4. v = Size1 + Size2 - u
    BY PrintedFacts, Union DEF Size1, Size2
  <2>5. index = IF Size1 + Size2 # K THEN <<u, (Size1 + Size2) - u>> ELSE <<u, K>>
    BY <2>2, <2>3, PrintedFacts DEF jaccard
  <2>6. Similarity = <<u, v>>
    BY DEF Similarity
  <2> HIDE DEF u, v
  <2>7. v \in Nat /\ v > 0 /\ v <= 2 * v
    BY <2>3, <2>4
  \* A fraction with the same numerator is smaller for a larger denominator.
  <2>8. ASSUME NEW n \in Nat, v <= n, n <= 2 * v, n > 0, index = <<u, n>>
        PROVE  index[2] > 0 /\ AtMost(index, Similarity) /\ AtMost(Similarity, Twice(index))
    <3>1. ASSUME NEW a \in Nat, NEW b \in Nat, NEW c \in Nat, a <= b PROVE c * a <= c * b
      BY <3>1
    <3>2. u * v <= u * n /\ u * n <= u * (2 * v)
      BY <2>3, <2>7, <2>8, <3>1
    <3>3. u * (2 * v) = (2 * u) * v
      BY <2>3, <2>7
    <3>4. Twice(index) = <<2 * u, n>>
      BY <2>8 DEF Twice
    <3>5. AtMost(index, Similarity)
      BY <2>6, <2>8, <3>2 DEF AtMost
    <3>6. AtMost(Similarity, Twice(index))
      <4>1. u * n <= (2 * u) * v
        BY <3>2, <3>3
      <4> QED BY <2>6, <3>4, <4>1 DEF AtMost
    <3> QED BY <2>8, <3>5, <3>6
  <2>9. CASE Size1 + Size2 # K
    <3>1. index = <<u, v>>
      BY <2>3, <2>4, <2>5, <2>9
    <3>2. Equal(index, Similarity)
      BY <2>6, <3>1 DEF Equal
    <3> QED BY <2>7, <2>8, <3>1, <3>2
  <2>10. CASE Size1 + Size2 = K
    <3>1. index = <<u, K>>
      BY <2>5, <2>10
    <3>2. v <= K /\ K <= 2 * v /\ K > 0
      BY <2>3, <2>4, <2>10
    <3> QED BY <2>3, <2>8, <2>10, <3>1, <3>2
  <2> QED BY <2>9, <2>10
<1> QED BY <1>1, Invariant, PTL

\* When both sketches are full, the figure is never below the share of the K
\* smallest hashes of both files that the files have in common.
THEOREM FullSketchesErrUpwards == Spec => []EstimateErrsUpwards
<1>1. IInv => EstimateErrsUpwards
  <2> SUFFICES ASSUME IInv, Printed, Size1 >= K, Size2 >= K
               PROVE  /\ index[2] = K
                      /\ Cardinality(sketch(file1 \cup file2) \cap file1 \cap file2) <= index[1]
    BY DEF EstimateErrsUpwards
  <2> DEFINE both == file1 \cup file2
             common == sketch(both) \cap file1 \cap file2
  <2>1. Cardinality(h1) = K /\ Cardinality(h2) = K /\ K \in Nat
    BY PrintedFacts, SketchFull DEF Size1, Size2
  <2>2. Summed(h1, h2) = K
    BY <2>1 DEF Summed
  <2>3. index = <<Cardinality(h1 \cap h2), K>>
    BY <2>2, PrintedFacts, SharedFacts DEF jaccard
  <2>4. /\ both \in SUBSET Hash /\ file1 \in SUBSET both /\ file2 \in SUBSET both
    BY PrintedFacts
  <2>5. sketch(both) \cap file1 \subseteq h1 /\ sketch(both) \cap file2 \subseteq h2
    <3> HIDE DEF both
    <3> QED BY <2>4, PrintedFacts, SketchOfPart
  <2>6. common \in SUBSET (h1 \cap h2) /\ h1 \cap h2 \in SUBSET Hash
    BY <2>5, PrintedFacts
  <2>7. Cardinality(common) <= Cardinality(h1 \cap h2)
    <3> HIDE DEF common
    <3> QED BY <2>6, PartIsSmaller
  <2> QED BY <2>3, <2>7
<1> QED BY <1>1, Invariant, PTL
=============================================================================
