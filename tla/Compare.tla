------------------------------ MODULE Compare ------------------------------
(***************************************************************************)
(* Processor::compare and jaccard (src/processor.cpp): the sketches of two *)
(* files are taken one after the other and their similarity is computed.   *)
(*                                                                         *)
(* A file is the set of the hashes of its values, and its sketch is what   *)
(* MinK shows that sketch returns.  The similarity is a fraction: the      *)
(* numbers the code divides are small enough for a float to hold, and the  *)
(* rounding of the quotient is left out.                                   *)
(***************************************************************************)
EXTENDS Integers, FiniteSets

CONSTANTS
  K,         \* elements in a sketch: 20000 in the code
  MaxHash,   \* the largest hash
  Sizes      \* how many distinct hashes a file may hold

ASSUME CompareAssumption == K \in Nat \ {0} /\ MaxHash \in Nat /\ Sizes \subseteq Nat

Hash == 0 .. MaxHash
Files == {S \in SUBSET Hash : Cardinality(S) \in Sizes}
NoIndex == <<0, 0>>

VARIABLES
  file1, file2,   \* the input files
  malformed,      \* the files of which a document is malformed
  pc,             \* where compare is
  h1, h2,         \* the heaps of the sketches
  index,          \* numerator and denominator of what is printed
  outcome         \* "none" until the call ends

vars == <<file1, file2, malformed, pc, h1, h2, index, outcome>>

sketch(S) == {h \in S : Cardinality({g \in S : g < h}) < K}

\* Mutant of Shared: the keys found in one map only are counted.
NotShared(m1, m2) == Cardinality(m1 \ m2)

\* The loop goes through the smaller map and looks its keys up in the other.
Shared(m1, m2) ==
  IF Cardinality(m1) <= Cardinality(m2)
    THEN Cardinality({h \in m1 : h \in m2})
    ELSE Cardinality({h \in m2 : h \in m1})

\* Mutant of jaccard: what both maps hold is counted twice in the whole.
JaccardOverSum(k, m1, m2) == <<Shared(m1, m2), k>>

\* Mutant of jaccard: the operands of the subtraction are swapped.
JaccardSwapped(k, m1, m2) ==
  LET u == Shared(m1, m2) IN IF k # K THEN <<u, u - k>> ELSE <<u, k>>

jaccard(k, m1, m2) ==
  LET u == Shared(m1, m2) IN IF k # K THEN <<u, k - u>> ELSE <<u, k>>

\* Mutant of Summed: the second heap is forgotten.
SummedFirst(m1, m2) ==
  IF Cardinality(m1) < K \/ Cardinality(m2) < K THEN Cardinality(m1) ELSE K

\* Mutant of Summed: full heaps are treated like others.
SummedAlways(m1, m2) == Cardinality(m1) + Cardinality(m2)

\* compare passes the sum of the sizes, or K when both heaps are full.
Summed(m1, m2) ==
  IF Cardinality(m1) < K \/ Cardinality(m2) < K
    THEN Cardinality(m1) + Cardinality(m2)
    ELSE K

Init ==
  /\ file1 \in Files
  /\ file2 \in Files
  /\ malformed \in SUBSET {1, 2}
  /\ pc = "first"
  /\ h1 = {}
  /\ h2 = {}
  /\ index = NoIndex
  /\ outcome = "none"

SketchFirst ==
  /\ pc = "first"
  /\ 1 \notin malformed
  /\ pc' = "second"
  /\ h1' = sketch(file1)
  /\ UNCHANGED <<file1, file2, malformed, h2, index, outcome>>

SketchSecond ==
  /\ pc = "second"
  /\ 2 \notin malformed
  /\ pc' = "index"
  /\ h2' = sketch(file2)
  /\ UNCHANGED <<file1, file2, malformed, h1, index, outcome>>

\* run_pipeline rethrows what a worker threw, and nothing is printed.
SketchThrows ==
  /\ \/ pc = "first" /\ 1 \in malformed
     \/ pc = "second" /\ 2 \in malformed
  /\ pc' = "end"
  /\ outcome' = "threw"
  /\ UNCHANGED <<file1, file2, malformed, h1, h2, index>>

PrintIndex ==
  /\ pc = "index"
  /\ pc' = "end"
  /\ index' = jaccard(Summed(h1, h2), h1, h2)
  /\ outcome' = "printed"
  /\ UNCHANGED <<file1, file2, malformed, h1, h2>>

Ended == pc = "end" /\ UNCHANGED vars

Next == SketchFirst \/ SketchSecond \/ SketchThrows \/ PrintIndex \/ Ended

Spec == Init /\ [][Next]_vars
-----------------------------------------------------------------------------
(* Properties                                                              *)

\* The types of the variables.
TypeOK ==
  /\ file1 \in Files /\ file2 \in Files
  /\ malformed \subseteq {1, 2}
  /\ pc \in {"first", "second", "index", "end"}
  /\ h1 \subseteq Hash /\ h2 \subseteq Hash
  /\ index \in Nat \X Nat
  /\ outcome \in {"none", "threw", "printed"}

Printed == outcome = "printed"

Similarity == <<Cardinality(file1 \cap file2), Cardinality(file1 \cup file2)>>

Equal(x, y) == x[1] * y[2] = y[1] * x[2]
AtMost(x, y) == x[1] * y[2] <= y[1] * x[2]
Twice(x) == <<2 * x[1], x[2]>>

Size1 == Cardinality(file1)
Size2 == Cardinality(file2)

\* The Jaccard index is exact when neither sketch is full, unless the sizes
\* happen to sum to K: jaccard then takes the sketches for full ones and divides by
\* K, so that the figure is too small, but by no more than half.
ExactWhenBothFit ==
  Printed /\ Size1 < K /\ Size2 < K /\ Size1 + Size2 > 0 =>
    /\ index[2] > 0
    /\ Size1 + Size2 # K => Equal(index, Similarity)
    /\ AtMost(index, Similarity) /\ AtMost(Similarity, Twice(index))

\* tests/test_jaccard.cpp:69-70: "REQUIRE(j >= 0.0)", "REQUIRE(j <= 1.0)".
\* A similarity is printed as a part of the whole, unless both files are empty.
WithinUnit ==
  Printed /\ Size1 + Size2 > 0 => index[2] > 0 /\ index[1] <= index[2]

\* A file compared with itself is found to be the same, unless its distinct
\* hashes number half of K.
SameFilesMatch ==
  Printed /\ file1 = file2 /\ Size1 > 0 /\ 2 * Size1 # K => index[1] = index[2]

\* With both sketches full, the figure printed is never below the bottom-k
\* estimate: the share of the K smallest hashes of both files that they share.
EstimateErrsUpwards ==
  Printed /\ Size1 >= K /\ Size2 >= K =>
    /\ index[2] = K
    /\ Cardinality(sketch(file1 \cup file2) \cap file1 \cap file2) <= index[1]
-----------------------------------------------------------------------------
(* The inductive invariant                                                 *)

\* The sketches are those of the files, and what is printed is their index.
Sketched ==
  /\ pc \in {"second", "index"} \/ Printed => h1 = sketch(file1)
  /\ pc = "index" \/ Printed => h2 = sketch(file2)
  /\ Printed => pc = "end" /\ index = jaccard(Summed(h1, h2), h1, h2)

IInv == TypeOK /\ Sketched
=============================================================================
