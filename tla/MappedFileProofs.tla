-------------------------- MODULE MappedFileProofs --------------------------
(***************************************************************************)
(* Proofs about the two things Processor does with the bytes of a mapped   *)
(* file: chunk() cuts them at newlines (Splitter), for files of every size *)
(* with newlines anywhere and chunk sizes of every kind, and hash()        *)
(* digests them (HashCommand and Blake3), for files of any bytes.          *)
(*                                                                         *)
(* About hash() it is shown that the hasher computes the tree hash of the  *)
(* BLAKE3 paper.  At and Layer name chaining values of that tree.  What    *)
(* the code hashes several chunks at a time is shown to be a Layer         *)
(* (WideLayers, SubtreePair), the stack it keeps to be Peaks when merged   *)
(* (PushOneChunk, PushPair), and a hasher to say what it was given         *)
(* (Represents, UpdateRepresents), from which finalize forms the root      *)
(* (RollPeaks, Finalize).                                                  *)
(***************************************************************************)
EXTENDS Splitter, HashCommand, SequenceTheorems, WellFoundedInduction, TLAPS

-----------------------------------------------------------------------------
(* Processor::chunk                                                        *)

\* The inductive invariant of Splitter holds at first.
LEMMA InitInvariant == Init => IInv
<1> SUFFICES ASSUME Init PROVE IInv
  OBVIOUS
<1> USE SplitterAssumption DEF Init
<1>1. TypeOK
  BY DEF TypeOK
<1>2. EachByteOnce /\ CutInTime /\ CutAtNewlines
  BY DEF EachByteOnce, CutInTime, CutAtNewlines
<1> QED BY <1>1, <1>2 DEF IInv

\* What ChunkEnd says of the end of a chunk.
LEMMA ChunkEndFacts ==
  ASSUME TypeOK, pos < file_size, NEW end \in 1 .. file_size, ChunkEnd(end)
  PROVE  /\ pos < end
         /\ end = file_size \/ end - 1 \in newlines
         /\ end < file_size => pos + chunk_size < end
         /\ \A n \in newlines : pos + chunk_size <= n => end <= n + 1
<1>1. /\ pos \in Nat /\ chunk_size \in Nat /\ file_size \in Nat
      /\ newlines \subseteq 0 .. file_size - 1
  BY SplitterAssumption DEF TypeOK
<1>2. CASE pos + chunk_size >= file_size /\ end = file_size
  BY <1>1, <1>2
<1>3. CASE \E n \in newlines : Memchr(pos + chunk_size, n) /\ end = n + 1
  <2>1. PICK n \in newlines : Memchr(pos + chunk_size, n) /\ end = n + 1
    BY <1>3
  <2>2. n \in Nat /\ pos + chunk_size <= n
    BY <2>1, <1>1 DEF Memchr
  <2>3. pos + chunk_size < end /\ pos < end /\ end - 1 = n
    BY <1>1, <2>1, <2>2
  <2>4. \A m \in newlines : pos + chunk_size <= m => end <= m + 1
    BY <1>1, <2>1, <2>2 DEF Memchr
  <2> QED BY <2>3, <2>4
<1>4. CASE (\A n \in newlines : n < pos + chunk_size) /\ end = file_size
  BY <1>1, <1>4
<1> QED BY <1>2, <1>3, <1>4 DEF ChunkEnd

LEMMA StepInvariant == IInv /\ [Next]_vars => IInv'
<1> SUFFICES ASSUME IInv, PushChunk PROVE IInv'
  <2>1. ASSUME IInv, UNCHANGED vars PROVE IInv'
    <3>1. TypeOK' /\ CutInTime' /\ CutAtNewlines'
      BY <2>1 DEF vars, IInv, TypeOK, CutInTime, CutAtNewlines
    <3>2. EachByteOnce'
      BY <2>1 DEF vars, IInv, EachByteOnce, Holds
    <3> QED BY <3>1, <3>2 DEF IInv
  <2> QED BY <2>1 DEF Next, Done
<1>1. PICK end \in 1 .. file_size :
        /\ ChunkEnd(end)
        /\ queued' = Append(queued, [first |-> pos, last |-> end])
        /\ pos' = end
  BY DEF PushChunk
<1>2. pos < file_size /\ UNCHANGED <<file_size, newlines, chunk_size>>
  BY DEF PushChunk
<1>3. /\ pos < end
      /\ end = file_size \/ end - 1 \in newlines
      /\ end < file_size => pos + chunk_size < end
      /\ \A n \in newlines : pos + chunk_size <= n => end <= n + 1
  BY <1>1, <1>2, ChunkEndFacts DEF IInv
<1>4. /\ pos \in Nat /\ end \in Nat /\ file_size \in Nat /\ chunk_size \in Nat
      /\ newlines \subseteq 0 .. file_size - 1
      /\ queued \in Seq(Chunk) /\ Len(queued) \in Nat
  BY SplitterAssumption DEF IInv, TypeOK
<1>len. PICK k \in Nat : k = Len(queued) + 1
  BY <1>4
<1> DEFINE new == [first |-> pos, last |-> end]
<1>5. new \in Chunk /\ queued' \in Seq(Chunk)
  BY <1>1, <1>4 DEF Chunk
<1>6. DOMAIN queued = 1 .. Len(queued) /\ DOMAIN queued' = 1 .. k
  BY <1>1, <1>4, <1>5, <1>len
<1>7. queued'[k] = new /\ \A i \in DOMAIN queued : queued'[i] = queued[i] /\ queued[i] \in Chunk
  BY <1>1, <1>4, <1>5, <1>6, <1>len
<1>8. queued'[k].first = pos /\ queued'[k].last = end
  BY <1>7
<1>9. \A i \in DOMAIN queued' : i \in DOMAIN queued \/ i = k
  BY <1>4, <1>6, <1>len
<1>k. k \in DOMAIN queued' /\ k \notin DOMAIN queued /\ DOMAIN queued \subseteq DOMAIN queued'
  BY <1>4, <1>6, <1>len
<1>old. ASSUME NEW i \in DOMAIN queued
        PROVE  /\ queued'[i].first = queued[i].first /\ queued'[i].last = queued[i].last
               /\ queued[i].first \in Nat /\ queued[i].last \in Nat
               /\ queued[i].last <= pos
  BY <1>7 DEF Chunk, IInv, EachByteOnce
<1> HIDE DEF new
<1>10. TypeOK'
  BY <1>1, <1>2, <1>4, <1>5 DEF IInv, TypeOK
<1>11. EachByteOnce'
  <2>1. ASSUME NEW x \in 0 .. end - 1
        PROVE  \E i \in DOMAIN queued' : Holds(i, x)'
    <3>1. CASE x < pos
      <4>1. x \in 0 .. pos - 1
        BY <3>1, <1>4
      <4>2. PICK i \in DOMAIN queued : Holds(i, x)
        BY <4>1 DEF IInv, EachByteOnce
      <4>3. Holds(i, x)'
        BY <4>2, <1>old DEF Holds
      <4> QED BY <4>3, <1>k
    <3>2. CASE x >= pos
      <4>1. Holds(k, x)'
        BY <3>2, <1>4, <1>8 DEF Holds
      <4> QED BY <4>1, <1>k
    <3> QED BY <3>1, <3>2, <1>4
  <2>2. ASSUME NEW i \in DOMAIN queued', NEW j \in DOMAIN queued', NEW x \in 0 .. end,
               Holds(i, x)', Holds(j, x)'
        PROVE  i = j
    <3>1. ASSUME NEW l \in DOMAIN queued, Holds(l, x)'
          PROVE  x < pos /\ Holds(l, x)
      BY <3>1, <1>old, <1>4 DEF Holds
    <3>2. ASSUME Holds(k, x)'
          PROVE  x >= pos
      BY <3>2, <1>8, <1>4 DEF Holds
    <3>3. CASE i \in DOMAIN queued /\ j \in DOMAIN queued
      <4>1. x < pos /\ Holds(i, x) /\ Holds(j, x)
        BY <3>1, <3>3, <2>2
      <4>2. x \in 0 .. pos
        BY <4>1, <1>4
      <4> QED BY <4>1, <4>2, <3>3 DEF IInv, EachByteOnce
    <3>4. CASE i = k /\ j \in DOMAIN queued
      BY <3>1, <3>2, <3>4, <2>2, <1>4
    <3>5. CASE i \in DOMAIN queued /\ j = k
      BY <3>1, <3>2, <3>5, <2>2, <1>4
    <3> QED BY <3>3, <3>4, <3>5, <1>9
  <2>3. ASSUME NEW i \in DOMAIN queued'
        PROVE  queued'[i].last <= end
    <3>1. CASE i \in DOMAIN queued
      BY <3>1, <1>old, <1>3, <1>4
    <3>2. CASE i = k
      BY <3>2, <1>8, <1>4
    <3> QED BY <3>1, <3>2, <1>9
  <2> QED BY <2>1, <2>2, <2>3, <1>1 DEF EachByteOnce
<1>12. CutInTime'
  <2>1. ASSUME NEW i \in DOMAIN queued'
        PROVE  /\ \A n \in newlines : queued'[i].first + chunk_size <= n => queued'[i].last <= n + 1
               /\ queued'[i].last < file_size => queued'[i].first + chunk_size < queued'[i].last
    <3>1. CASE i \in DOMAIN queued
      BY <3>1, <1>old DEF IInv, CutInTime
    <3>2. CASE i = k
      BY <3>2, <1>8, <1>3
    <3> QED BY <3>1, <3>2, <1>9
  <2> QED BY <2>1, <1>2 DEF CutInTime
<1>13. CutAtNewlines'
  <2>1. pos' \in {0, file_size} \/ pos' - 1 \in newlines
    BY <1>1, <1>3
  <2>2. ASSUME NEW i \in DOMAIN queued'
        PROVE  /\ queued'[i].first < queued'[i].last
               /\ queued'[i].first = 0 \/ queued'[i].first - 1 \in newlines
               /\ queued'[i].last = file_size \/ queued'[i].last - 1 \in newlines
    <3>1. CASE i \in DOMAIN queued
      BY <3>1, <1>old DEF IInv, CutAtNewlines
    <3>2. CASE i = k
      <4>1. pos = 0 \/ pos - 1 \in newlines
        BY <1>2, <1>4 DEF IInv, CutAtNewlines
      <4> QED BY <3>2, <4>1, <1>8, <1>3
    <3> QED BY <3>1, <3>2, <1>9
  <2> QED BY <2>1, <2>2, <1>2 DEF CutAtNewlines
<1> QED BY <1>10, <1>11, <1>12, <1>13 DEF IInv

\* It holds always.
THEOREM Invariant == Spec => []IInv
<1>1. Init => IInv
  BY InitInvariant
<1>2. IInv /\ [Next]_vars => IInv'
  BY StepInvariant
<1> QED BY <1>1, <1>2, PTL DEF Spec

\* The types of the variables.
THEOREM TypeCorrect == Spec => []TypeOK
<1>1. IInv => TypeOK
  BY DEF IInv
<1> QED BY <1>1, Invariant, PTL

\* The chunks cover the file up to pos without a gap or an overlap.
THEOREM NoByteLostOrTwice == Spec => []EachByteOnce
<1>1. IInv => EachByteOnce
  BY DEF IInv
<1> QED BY <1>1, Invariant, PTL

\* A chunk exceeds chunk_size by no more than the rest of one record.
THEOREM ChunksAreCutInTime == Spec => []CutInTime
<1>1. IInv => CutInTime
  BY DEF IInv
<1> QED BY <1>1, Invariant, PTL

\* No record is split between two chunks, whatever the chunk size.
THEOREM NoRecordSplit == Spec => []RecordsWhole
<1>1. IInv => RecordsWhole
  <2> SUFFICES ASSUME IInv,
                      NEW x \in 0 .. file_size - 1, NEW y \in 0 .. file_size - 1,
                      SameRecord(x, y), NEW i \in DOMAIN queued
               PROVE  Holds(i, x) <=> Holds(i, y)
    BY DEF RecordsWhole
  <2>1. /\ queued \in Seq(Chunk) /\ file_size \in Nat
        /\ newlines \subseteq 0 .. file_size - 1
    BY SplitterAssumption DEF IInv, TypeOK
  <2>2. queued[i].first \in Nat /\ queued[i].last \in Nat
    <3>1. queued[i] \in Chunk
      BY <2>1
    <3> QED BY <3>1 DEF Chunk
  <2>3. x <= y /\ \A n \in newlines : ~(x <= n /\ n < y)
    BY DEF SameRecord
  <2>4. ASSUME Holds(i, x) PROVE y < queued[i].last
    <3>1. CASE queued[i].last = file_size
      BY <2>1, <3>1
    <3>2. CASE queued[i].last - 1 \in newlines
      BY <2>1, <2>2, <2>3, <2>4, <3>2 DEF Holds
    <3> QED BY <3>1, <3>2 DEF IInv, CutAtNewlines
  <2>5. ASSUME Holds(i, y) PROVE queued[i].first <= x
    <3>1. CASE queued[i].first = 0
      BY <2>1, <3>1
    <3>2. CASE queued[i].first - 1 \in newlines
      BY <2>1, <2>2, <2>3, <2>5, <3>2 DEF Holds
    <3> QED BY <3>1, <3>2 DEF IInv, CutAtNewlines
  <2> QED BY <2>1, <2>2, <2>3, <2>4, <2>5 DEF Holds
<1> QED BY <1>1, Invariant, PTL

-----------------------------------------------------------------------------
(* Numbers                                                                 *)

\* A set of numbers that is not empty has a least one: the inductions below are over
\* the least number for which something is wrong.
LEMMA LeastNumber ==
  ASSUME NEW S \in SUBSET Nat, S # {}
  PROVE  \E m \in S : \A n \in S : m <= n
<1>1. PICK m \in S : \A n \in S : ~(<<n, m>> \in OpToRel(<, Nat))
  BY NatLessThanWellFounded, WFMin
<1>2. ASSUME NEW n \in S PROVE m <= n
  <2>1. m \in Nat /\ n \in Nat
    OBVIOUS
  <2>2. CASE n < m
    <3>1. <<n, m>> \in OpToRel(<, Nat)
      BY <2>1, <2>2, SMT DEF OpToRel
    <3> QED BY <1>1, <3>1
  <2> QED BY <2>1, <2>2
<1> QED BY <1>2

-----------------------------------------------------------------------------
(* round_down_to_power_of_2 and popcnt                                     *)

\* What is left and what is lost by halving.
LEMMA Halves ==
  ASSUME NEW n \in Nat
  PROVE  /\ n \div 2 \in Nat /\ n % 2 \in {0, 1} /\ n = 2 * (n \div 2) + (n % 2)
         /\ n > 0 => n \div 2 < n
         /\ n > 1 => n \div 2 > 0
BY SMT

\* The recursion of round_down_to_power_of_2 defines a function.
LEMMA DownExists ==
  ASSUME NEW n \in Nat
  PROVE  \E f : f = [m \in 0 .. n |-> IF m <= 1 THEN 1 ELSE 2 * f[m \div 2]]
<1> DEFINE Has(k) == \E f : f = [m \in 0 .. k |-> IF m <= 1 THEN 1 ELSE 2 * f[m \div 2]]
           Without == {k \in Nat : ~Has(k)}
<1>1. SUFFICES ASSUME Without # {} PROVE FALSE
  OBVIOUS
<1>2. PICK k \in Without : \A j \in Without : k <= j
  <2>1. Without \in SUBSET Nat
    OBVIOUS
  <2> HIDE DEF Without
  <2> QED BY <1>1, <2>1, LeastNumber
<1>3. k # 0
  <2>1. [m \in 0 .. 0 |-> 1] =
          [m \in 0 .. 0 |-> IF m <= 1 THEN 1 ELSE 2 * [i \in 0 .. 0 |-> 1][m \div 2]]
    OBVIOUS
  <2>2. Has(0)
    BY <2>1
  <2> QED BY <2>2
<1>4. k - 1 \in Nat /\ Has(k - 1)
  <2>1. k - 1 \in Nat /\ ~(k <= k - 1)
    BY <1>3
  <2> QED BY <1>2, <2>1
<1>5. PICK f : f = [m \in 0 .. (k - 1) |-> IF m <= 1 THEN 1 ELSE 2 * f[m \div 2]]
  BY <1>4
<1> DEFINE g == [m \in 0 .. k |-> IF m = k THEN (IF k <= 1 THEN 1 ELSE 2 * f[k \div 2]) ELSE f[m]]
<1>6. ASSUME NEW m \in 0 .. k
      PROVE  g[m] = IF m <= 1 THEN 1 ELSE 2 * g[m \div 2]
  <2>1. k \in Nat /\ m \in Nat /\ m \div 2 \in Nat /\ (m > 1 => m \div 2 < m)
    BY Halves
  <2>2. m > 1 => g[m \div 2] = f[m \div 2]
    BY <2>1
  <2>3. m # k => m \in 0 .. (k - 1) /\ g[m] = f[m]
    BY <2>1
  <2>4. m # k => f[m] = IF m <= 1 THEN 1 ELSE 2 * f[m \div 2]
    BY <2>3, <1>5
  <2> HIDE DEF g
  <2>5. m = k => g[m] = IF m <= 1 THEN 1 ELSE 2 * f[m \div 2]
    BY DEF g
  <2> QED BY <2>1, <2>2, <2>3, <2>4, <2>5
<1>7. g = [m \in 0 .. k |-> IF m <= 1 THEN 1 ELSE 2 * g[m \div 2]]
  <2>1. g = [m \in 0 .. k |-> g[m]]
    OBVIOUS
  <2> HIDE DEF g
  <2> QED BY <1>6, <2>1
<1>8. Has(k)
  <2> HIDE DEF g
  <2> QED BY <1>7
<1> QED BY <1>8

\* One step of round_down_to_power_of_2.
LEMMA DownStep ==
  ASSUME NEW n \in Nat
  PROVE  round_down_to_power_of_2(n) =
           IF n <= 1 THEN 1 ELSE 2 * round_down_to_power_of_2(n \div 2)
<1> DEFINE F(k) == CHOOSE f : f = [m \in 0 .. k |-> IF m <= 1 THEN 1 ELSE 2 * f[m \div 2]]
           R(k) == round_down_to_power_of_2(k)
<1>1. ASSUME NEW k \in Nat, NEW m \in 0 .. k
      PROVE  F(k)[m] = IF m <= 1 THEN 1 ELSE 2 * F(k)[m \div 2]
  <2>1. F(k) = [i \in 0 .. k |-> IF i <= 1 THEN 1 ELSE 2 * F(k)[i \div 2]]
    BY DownExists
  <2> DEFINE f == F(k)
  <2> HIDE DEF F
  <2>2. f = [i \in 0 .. k |-> IF i <= 1 THEN 1 ELSE 2 * f[i \div 2]]
    BY <2>1
  <2> HIDE DEF f
  <2>3. f[m] = IF m <= 1 THEN 1 ELSE 2 * f[m \div 2]
    BY <2>2
  <2> QED BY <2>3 DEF f
<1>2. \A k \in Nat : R(k) = F(k)[k]
  BY DEF round_down_to_power_of_2
<1> HIDE DEF F, R
<1> DEFINE Wrong == {m \in Nat : \E k \in Nat : m <= k /\ F(k)[m] # R(m)}
<1>3. Wrong = {}
  <2>1. SUFFICES ASSUME Wrong # {} PROVE FALSE
    OBVIOUS
  <2>2. PICK m \in Wrong : \A j \in Wrong : m <= j
    <3>1. Wrong \in SUBSET Nat
      OBVIOUS
    <3> HIDE DEF Wrong
    <3> QED BY <2>1, <3>1, LeastNumber
  <2>3. PICK k \in Nat : m <= k /\ F(k)[m] # R(m)
    OBVIOUS
  <2>4. m \in 0 .. k /\ m \in 0 .. m /\ m \in Nat
    BY <2>3
  <2>5. CASE m <= 1
    BY <1>1, <1>2, <2>3, <2>4, <2>5
  <2>6. CASE m > 1
    <3>1. m \div 2 \in Nat /\ m \div 2 < m
      BY <2>4, <2>6, Halves
    <3>2. m \div 2 \notin Wrong
      BY <2>2, <2>4, <3>1
    <3>3. F(k)[m \div 2] = R(m \div 2) /\ F(m)[m \div 2] = R(m \div 2)
      BY <2>3, <2>4, <3>1, <3>2
    <3>4. F(k)[m] = 2 * F(k)[m \div 2] /\ F(m)[m] = 2 * F(m)[m \div 2]
      BY <1>1, <2>4, <2>6
    <3>5. R(m) = F(m)[m]
      BY <1>2, <2>4
    <3> QED BY <2>3, <3>3, <3>4, <3>5
  <2> QED BY <2>4, <2>5, <2>6
<1>4. R(n) = IF n <= 1 THEN 1 ELSE 2 * R(n \div 2)
  <2>1. R(n) = F(n)[n] /\ n \in 0 .. n
    BY <1>2
  <2>2. F(n)[n] = IF n <= 1 THEN 1 ELSE 2 * F(n)[n \div 2]
    BY <1>1, <2>1
  <2>3. n > 1 => F(n)[n \div 2] = R(n \div 2)
    <3>1. n \div 2 \in Nat /\ (n > 1 => n \div 2 < n)
      BY Halves
    <3>2. n \div 2 \notin Wrong
      BY <1>3
    <3> QED BY <3>1, <3>2
  <2> QED BY <2>1, <2>2, <2>3
<1> QED BY <1>4 DEF R

\* The recursion of popcnt defines a function.
LEMMA OnesExists ==
  ASSUME NEW n \in Nat
  PROVE  \E f : f = [m \in 0 .. n |-> IF m = 0 THEN 0 ELSE (m % 2) + f[m \div 2]]
<1> DEFINE Has(k) == \E f : f = [m \in 0 .. k |-> IF m = 0 THEN 0 ELSE (m % 2) + f[m \div 2]]
           Without == {k \in Nat : ~Has(k)}
<1>1. SUFFICES ASSUME Without # {} PROVE FALSE
  OBVIOUS
<1>2. PICK k \in Without : \A j \in Without : k <= j
  <2>1. Without \in SUBSET Nat
    OBVIOUS
  <2> HIDE DEF Without
  <2> QED BY <1>1, <2>1, LeastNumber
<1>3. k # 0
  <2>1. [m \in 0 .. 0 |-> 0] =
          [m \in 0 .. 0 |-> IF m = 0 THEN 0 ELSE (m % 2) + [i \in 0 .. 0 |-> 0][m \div 2]]
    OBVIOUS
  <2>2. Has(0)
    BY <2>1
  <2> QED BY <2>2
<1>4. k - 1 \in Nat /\ Has(k - 1)
  <2>1. k - 1 \in Nat /\ ~(k <= k - 1)
    BY <1>3
  <2> QED BY <1>2, <2>1
<1>5. PICK f : f = [m \in 0 .. (k - 1) |-> IF m = 0 THEN 0 ELSE (m % 2) + f[m \div 2]]
  BY <1>4
<1> DEFINE g == [m \in 0 .. k |-> IF m = k THEN (IF k = 0 THEN 0 ELSE (k % 2) + f[k \div 2]) ELSE f[m]]
<1>6. ASSUME NEW m \in 0 .. k
      PROVE  g[m] = IF m = 0 THEN 0 ELSE (m % 2) + g[m \div 2]
  <2>1. k \in Nat /\ m \in Nat /\ m \div 2 \in Nat /\ (m > 0 => m \div 2 < m)
    BY Halves
  <2>2. m > 0 => g[m \div 2] = f[m \div 2]
    BY <2>1
  <2>3. m # k => m \in 0 .. (k - 1) /\ g[m] = f[m]
    BY <2>1
  <2>4. m # k => f[m] = IF m = 0 THEN 0 ELSE (m % 2) + f[m \div 2]
    BY <2>3, <1>5
  <2> HIDE DEF g
  <2>5. m = k => g[m] = IF m = 0 THEN 0 ELSE (m % 2) + f[m \div 2]
    BY DEF g
  <2> QED BY <2>1, <2>2, <2>3, <2>4, <2>5
<1>7. g = [m \in 0 .. k |-> IF m = 0 THEN 0 ELSE (m % 2) + g[m \div 2]]
  <2>1. g = [m \in 0 .. k |-> g[m]]
    OBVIOUS
  <2> HIDE DEF g
  <2> QED BY <1>6, <2>1
<1>8. Has(k)
  <2> HIDE DEF g
  <2> QED BY <1>7
<1> QED BY <1>8

\* One step of popcnt.
LEMMA OnesStep ==
  ASSUME NEW n \in Nat
  PROVE  popcnt(n) =
           IF n = 0 THEN 0 ELSE (n % 2) + popcnt(n \div 2)
<1> DEFINE F(k) == CHOOSE f : f = [m \in 0 .. k |-> IF m = 0 THEN 0 ELSE (m % 2) + f[m \div 2]]
           R(k) == popcnt(k)
<1>1. ASSUME NEW k \in Nat, NEW m \in 0 .. k
      PROVE  F(k)[m] = IF m = 0 THEN 0 ELSE (m % 2) + F(k)[m \div 2]
  <2>1. F(k) = [i \in 0 .. k |-> IF i = 0 THEN 0 ELSE (i % 2) + F(k)[i \div 2]]
    BY OnesExists
  <2> DEFINE f == F(k)
  <2> HIDE DEF F
  <2>2. f = [i \in 0 .. k |-> IF i = 0 THEN 0 ELSE (i % 2) + f[i \div 2]]
    BY <2>1
  <2> HIDE DEF f
  <2>3. f[m] = IF m = 0 THEN 0 ELSE (m % 2) + f[m \div 2]
    BY <2>2
  <2> QED BY <2>3 DEF f
<1>2. \A k \in Nat : R(k) = F(k)[k]
  BY DEF popcnt
<1> HIDE DEF F, R
<1> DEFINE Wrong == {m \in Nat : \E k \in Nat : m <= k /\ F(k)[m] # R(m)}
<1>3. Wrong = {}
  <2>1. SUFFICES ASSUME Wrong # {} PROVE FALSE
    OBVIOUS
  <2>2. PICK m \in Wrong : \A j \in Wrong : m <= j
    <3>1. Wrong \in SUBSET Nat
      OBVIOUS
    <3> HIDE DEF Wrong
    <3> QED BY <2>1, <3>1, LeastNumber
  <2>3. PICK k \in Nat : m <= k /\ F(k)[m] # R(m)
    OBVIOUS
  <2>4. m \in 0 .. k /\ m \in 0 .. m /\ m \in Nat
    BY <2>3
  <2>5. CASE m = 0
    BY <1>1, <1>2, <2>3, <2>4, <2>5
  <2>6. CASE m > 0
    <3>1. m \div 2 \in Nat /\ m \div 2 < m
      BY <2>4, <2>6, Halves
    <3>2. m \div 2 \notin Wrong
      BY <2>2, <2>4, <3>1
    <3>3. F(k)[m \div 2] = R(m \div 2) /\ F(m)[m \div 2] = R(m \div 2)
      BY <2>3, <2>4, <3>1, <3>2
    <3>4. /\ F(k)[m] = (m % 2) + F(k)[m \div 2]
          /\ F(m)[m] = (m % 2) + F(m)[m \div 2]
      BY <1>1, <2>4, <2>6
    <3>5. R(m) = F(m)[m]
      BY <1>2, <2>4
    <3> QED BY <2>3, <3>3, <3>4, <3>5
  <2> QED BY <2>4, <2>5, <2>6
<1>4. R(n) = IF n = 0 THEN 0 ELSE (n % 2) + R(n \div 2)
  <2>1. R(n) = F(n)[n] /\ n \in 0 .. n
    BY <1>2
  <2>2. F(n)[n] = IF n = 0 THEN 0 ELSE (n % 2) + F(n)[n \div 2]
    BY <1>1, <2>1
  <2>3. n > 0 => F(n)[n \div 2] = R(n \div 2)
    <3>1. n \div 2 \in Nat /\ (n > 0 => n \div 2 < n)
      BY Halves
    <3>2. n \div 2 \notin Wrong
      BY <1>3
    <3> QED BY <3>1, <3>2
  <2> QED BY <2>1, <2>2, <2>3
<1> QED BY <1>4 DEF R

\* What is rounded down is the power of two below.
LEMMA DownFacts ==
  ASSUME NEW n \in Nat \ {0}
  PROVE  LET p == round_down_to_power_of_2(n) IN p \in Nat /\ p <= n /\ n < 2 * p /\ IsPowerOfTwo(p)
<1> DEFINE R(m) == round_down_to_power_of_2(m)
           Right(m) == R(m) \in Nat /\ R(m) <= m /\ m < 2 * R(m) /\ R(R(m)) = R(m)
           Wrong == {m \in Nat \ {0} : ~Right(m)}
<1>1. Wrong = {}
  <2>1. SUFFICES ASSUME Wrong # {} PROVE FALSE
    OBVIOUS
  <2>2. PICK m \in Wrong : \A j \in Wrong : m <= j
    <3>1. Wrong \in SUBSET Nat
      OBVIOUS
    <3> HIDE DEF Wrong
    <3> QED BY <2>1, <3>1, LeastNumber
  <2>3. \A k \in Nat : R(k) = IF k <= 1 THEN 1 ELSE 2 * R(k \div 2)
    BY DownStep
  <2>4. m \in Nat \ {0} /\ ~Right(m)
    OBVIOUS
  <2> HIDE DEF R
  <2>5. CASE m = 1
    BY <2>3, <2>4, <2>5
  <2>6. CASE m # 1
    <3> DEFINE h == m \div 2
    <3>1. h \in Nat \ {0} /\ h < m /\ 2 * h <= m /\ m <= 2 * h + 1 /\ m > 1
      BY <2>4, <2>6, Halves
    <3> HIDE DEF h
    <3>2. h \notin Wrong
      BY <2>2, <2>4, <3>1
    <3>3. Right(h)
      BY <3>1, <3>2
    <3> DEFINE r == R(h)
    <3>4. r \in Nat /\ r <= h /\ h < 2 * r /\ R(r) = r /\ R(m) = 2 * r
      BY <2>3, <2>4, <3>1, <3>3 DEF h
    <3> HIDE DEF r
    <3>5. R(2 * r) = 2 * R(r)
      <4>1. 2 * r \in Nat /\ 2 * r > 1 /\ (2 * r) \div 2 = r
        BY <3>1, <3>4
      <4> QED BY <2>3, <4>1
    <3>6. R(m) \in Nat /\ R(m) <= m /\ m < 2 * R(m)
      BY <2>4, <3>1, <3>4
    <3> QED BY <2>4, <3>4, <3>5, <3>6
  <2> QED BY <2>5, <2>6
<1>2. Right(n)
  <2>1. n \notin Wrong
    BY <1>1
  <2> QED BY <2>1
<1>3. R(n) > 0
  <2> HIDE DEF R
  <2> QED BY <1>2
<1> QED BY <1>2, <1>3 DEF IsPowerOfTwo

\* A number is a power of two exactly if its double is.
LEMMA TwicePowerOfTwo ==
  ASSUME NEW p \in Nat
  PROVE  IsPowerOfTwo(2 * p) <=> IsPowerOfTwo(p)
<1>1. CASE p = 0
  BY <1>1 DEF IsPowerOfTwo
<1>2. CASE p # 0
  <2>1. 2 * p \in Nat /\ 2 * p > 1 /\ (2 * p) \div 2 = p
    BY <1>2
  <2>2. round_down_to_power_of_2(2 * p) = 2 * round_down_to_power_of_2(p)
    BY <2>1, DownStep
  <2>3. round_down_to_power_of_2(p) \in Nat
    BY <1>2, DownFacts
  <2> QED BY <1>2, <2>1, <2>2, <2>3 DEF IsPowerOfTwo
<1> QED BY <1>1, <1>2

\* A power of two but 1 has a half, which is one too.
LEMMA HalfPowerOfTwo ==
  ASSUME NEW p \in Nat, IsPowerOfTwo(p), p # 1
  PROVE  \E h \in Nat \ {0} : p = 2 * h /\ IsPowerOfTwo(h) /\ h < p /\ p \div 2 = h
<1> DEFINE h == round_down_to_power_of_2(p \div 2)
<1>1. p > 1 /\ p = round_down_to_power_of_2(p)
  BY DEF IsPowerOfTwo
<1>2. p \div 2 \in Nat \ {0}
  BY <1>1, Halves
<1>3. h \in Nat /\ IsPowerOfTwo(h)
  BY <1>2, DownFacts
<1>4. p = 2 * h
  BY <1>1, DownStep
<1> HIDE DEF h
<1> QED BY <1>1, <1>3, <1>4

\* The first power of two.
LEMMA OneIsPowerOfTwo == IsPowerOfTwo(1)
BY DownStep DEF IsPowerOfTwo

\* There is no power of two between one and its double.
LEMMA NextPowerOfTwo ==
  ASSUME NEW a \in Nat, NEW b \in Nat, IsPowerOfTwo(a), IsPowerOfTwo(b), a < b
  PROVE  2 * a <= b
<1> DEFINE Between(m, n) == IsPowerOfTwo(m) /\ IsPowerOfTwo(n) /\ m < n /\ n < 2 * m
           Wrong == {m \in Nat : \E n \in Nat : Between(m, n)}
<1>1. Wrong = {}
  <2>1. SUFFICES ASSUME Wrong # {} PROVE FALSE
    OBVIOUS
  <2>2. PICK m \in Wrong : \A j \in Wrong : m <= j
    <3>1. Wrong \in SUBSET Nat
      OBVIOUS
    <3> HIDE DEF Wrong
    <3> QED BY <2>1, <3>1, LeastNumber
  <2>3. m \in Nat
    OBVIOUS
  <2>4. PICK n \in Nat : Between(m, n)
    OBVIOUS
  <2>5. m # 1 /\ n # 1 /\ m # 0
    BY <2>3, <2>4
  <2>6. PICK g \in Nat \ {0} : m = 2 * g /\ IsPowerOfTwo(g)
    BY <2>3, <2>4, <2>5, HalfPowerOfTwo
  <2>7. PICK h \in Nat \ {0} : n = 2 * h /\ IsPowerOfTwo(h)
    BY <2>4, <2>5, HalfPowerOfTwo
  <2>8. g < h /\ h < 2 * g /\ g < m
    BY <2>4, <2>6, <2>7
  <2>9. g \in Wrong
    BY <2>6, <2>7, <2>8
  <2> QED BY <2>2, <2>6, <2>8, <2>9
<1>2. a \notin Wrong
  BY <1>1
<1> QED BY <1>2

\* Powers of two divide the larger ones.
LEMMA PowersDivide ==
  ASSUME NEW a \in Nat, NEW b \in Nat, IsPowerOfTwo(a), IsPowerOfTwo(b), a <= b
  PROVE  \E k \in Nat \ {0} : IsPowerOfTwo(k) /\ b = k * a
<1> DEFINE Has(m, n) == \E k \in Nat \ {0} : IsPowerOfTwo(k) /\ n = k * m
           Without(m, n) == IsPowerOfTwo(m) /\ IsPowerOfTwo(n) /\ m <= n /\ ~Has(m, n)
           Wrong == {m \in Nat : \E n \in Nat : Without(m, n)}
<1>1. Wrong = {}
  <2>1. SUFFICES ASSUME Wrong # {} PROVE FALSE
    OBVIOUS
  <2>2. PICK m \in Wrong : \A j \in Wrong : m <= j
    <3>1. Wrong \in SUBSET Nat
      OBVIOUS
    <3> HIDE DEF Wrong
    <3> QED BY <2>1, <3>1, LeastNumber
  <2>3. m \in Nat
    OBVIOUS
  <2>4. PICK n \in Nat : Without(m, n)
    OBVIOUS
  <2>5. m # 1
    <3>1. n = n * 1 /\ n # 0
      BY <2>4 DEF IsPowerOfTwo
    <3> QED BY <2>4, <3>1
  <2>6. PICK g \in Nat \ {0} : m = 2 * g /\ IsPowerOfTwo(g)
    BY <2>3, <2>4, <2>5, HalfPowerOfTwo
  <2>7. PICK h \in Nat \ {0} : n = 2 * h /\ IsPowerOfTwo(h)
    <3>1. n # 1
      BY <2>4, <2>6
    <3> QED BY <2>4, <3>1, HalfPowerOfTwo
  <2>8. g <= h /\ g < m
    BY <2>4, <2>6, <2>7
  <2>9. g \notin Wrong
    BY <2>2, <2>3, <2>8
  <2>10. PICK k \in Nat \ {0} : IsPowerOfTwo(k) /\ h = k * g
    <3>1. ~Without(g, h)
      BY <2>9
    <3> QED BY <2>6, <2>7, <2>8, <3>1
  <2>11. n = k * m
    BY <2>6, <2>7, <2>10
  <2> QED BY <2>4, <2>10, <2>11
<1>2. a \notin Wrong
  BY <1>1
<1> QED BY <1>2

\* The bits of a double, and of one more than a double.
LEMMA PopcntFacts ==
  ASSUME NEW n \in Nat
  PROVE  /\ popcnt(n) \in Nat
         /\ popcnt(0) = 0
         /\ popcnt(2 * n) = popcnt(n)
         /\ popcnt(2 * n + 1) = popcnt(n) + 1
<1>1. \A m \in Nat : popcnt(m) = IF m = 0 THEN 0 ELSE (m % 2) + popcnt(m \div 2)
  BY OnesStep
<1> DEFINE Wrong == {m \in Nat : popcnt(m) \notin Nat}
<1>2. Wrong = {}
  <2>1. SUFFICES ASSUME Wrong # {} PROVE FALSE
    OBVIOUS
  <2>2. PICK m \in Wrong : \A j \in Wrong : m <= j
    <3>1. Wrong \in SUBSET Nat
      OBVIOUS
    <3> HIDE DEF Wrong
    <3> QED BY <2>1, <3>1, LeastNumber
  <2>3. m \in Nat /\ popcnt(m) \notin Nat
    OBVIOUS
  <2>4. m # 0
    BY <1>1, <2>3
  <2>5. m \div 2 \in Nat /\ m \div 2 < m /\ m % 2 \in Nat
    BY <2>3, <2>4, Halves
  <2>6. popcnt(m \div 2) \in Nat
    BY <2>2, <2>3, <2>5
  <2> QED BY <1>1, <2>3, <2>4, <2>5, <2>6
<1>3. popcnt(n) \in Nat
  BY <1>2
<1>4. popcnt(0) = 0
  BY <1>1
<1>5. (2 * n) % 2 = 0 /\ (2 * n) \div 2 = n /\ 2 * n \in Nat
  OBVIOUS
<1>6. (2 * n + 1) % 2 = 1 /\ (2 * n + 1) \div 2 = n /\ 2 * n + 1 \in Nat \ {0}
  OBVIOUS
<1>7. popcnt(2 * n) = popcnt(n)
  <2>1. CASE n = 0
    BY <2>1
  <2>2. CASE n # 0
    BY <1>1, <1>3, <1>5, <2>2
  <2> QED BY <2>1, <2>2
<1>8. popcnt(2 * n + 1) = popcnt(n) + 1
  BY <1>1, <1>3, <1>6
<1> QED BY <1>3, <1>4, <1>7, <1>8

\* One more sets one bit more at most.
LEMMA PopcntOfNext ==
  ASSUME NEW n \in Nat
  PROVE  popcnt(n + 1) <= popcnt(n) + 1
<1> DEFINE Wrong == {m \in Nat : ~(popcnt(m + 1) <= popcnt(m) + 1)}
<1>1. Wrong = {}
  <2>1. SUFFICES ASSUME Wrong # {} PROVE FALSE
    OBVIOUS
  <2>2. PICK m \in Wrong : \A j \in Wrong : m <= j
    <3>1. Wrong \in SUBSET Nat
      OBVIOUS
    <3> HIDE DEF Wrong
    <3> QED BY <2>1, <3>1, LeastNumber
  <2>3. m \in Nat /\ ~(popcnt(m + 1) <= popcnt(m) + 1)
    OBVIOUS
  <2> DEFINE h == m \div 2
  <2>4. h \in Nat /\ (m = 2 * h \/ m = 2 * h + 1)
    BY <2>3, Halves
  <2> HIDE DEF h
  <2>5. CASE m = 2 * h
    <3>1. popcnt(m) = popcnt(h) /\ popcnt(m + 1) = popcnt(h) + 1 /\ popcnt(h) \in Nat
      BY <2>4, <2>5, PopcntFacts
    <3> QED BY <2>3, <3>1
  <2>6. CASE m = 2 * h + 1
    <3>1. h < m /\ m + 1 = 2 * (h + 1) /\ h + 1 \in Nat
      BY <2>4, <2>6
    <3>2. popcnt(m) = popcnt(h) + 1 /\ popcnt(m + 1) = popcnt(h + 1)
      <4>1. popcnt(2 * (h + 1)) = popcnt(h + 1)
        BY <3>1, PopcntFacts
      <4> QED BY <2>4, <2>6, <3>1, <4>1, PopcntFacts
    <3>3. h \notin Wrong
      BY <2>2, <2>3, <2>4, <3>1
    <3>4. popcnt(h + 1) <= popcnt(h) + 1 /\ popcnt(h) \in Nat /\ popcnt(h + 1) \in Nat
      BY <2>4, <3>1, <3>3, PopcntFacts
    <3> QED BY <2>3, <3>2, <3>4
  <2> QED BY <2>4, <2>5, <2>6
<1>2. n \notin Wrong
  BY <1>1
<1> QED BY <1>2

\* The bits set do not depend on the unit.
LEMMA PopcntOfMultiple ==
  ASSUME NEW x \in Nat, IsPowerOfTwo(x), NEW n \in Nat
  PROVE  popcnt(n * x) = popcnt(n)
<1> DEFINE Wrong == {m \in Nat : IsPowerOfTwo(m) /\ popcnt(n * m) # popcnt(n)}
<1>1. Wrong = {}
  <2>1. SUFFICES ASSUME Wrong # {} PROVE FALSE
    OBVIOUS
  <2>2. PICK m \in Wrong : \A j \in Wrong : m <= j
    <3>1. Wrong \in SUBSET Nat
      OBVIOUS
    <3> HIDE DEF Wrong
    <3> QED BY <2>1, <3>1, LeastNumber
  <2>3. m \in Nat /\ IsPowerOfTwo(m) /\ popcnt(n * m) # popcnt(n)
    OBVIOUS
  <2>4. m # 1
    BY <2>3
  <2>5. PICK h \in Nat \ {0} : m = 2 * h /\ IsPowerOfTwo(h) /\ h < m
    BY <2>3, <2>4, HalfPowerOfTwo
  <2>6. popcnt(n * h) = popcnt(n)
    BY <2>2, <2>5
  <2>7. n * m = 2 * (n * h) /\ n * h \in Nat
    BY <2>5
  <2> QED BY <2>3, <2>6, <2>7, PopcntFacts
<1>2. x \notin Wrong
  BY <1>1
<1> QED BY <1>2

-----------------------------------------------------------------------------
(* Parts of sequences                                                      *)

\* Sequences with the same elements are the same.
LEMMA SameSequence ==
  ASSUME NEW S, NEW s \in Seq(S), NEW t \in Seq(S), Len(s) = Len(t),
         \A i \in 1 .. Len(s) : s[i] = t[i]
  PROVE  s = t
OBVIOUS

\* The elements of a part of a sequence.
LEMMA PartFacts ==
  ASSUME NEW S, NEW s \in Seq(S), NEW m \in Nat, NEW n \in Nat, m <= n, n <= Len(s)
  PROVE  /\ SubSeq(s, m + 1, n) \in Seq(S)
         /\ Len(SubSeq(s, m + 1, n)) = n - m
         /\ \A i \in 1 .. n - m : SubSeq(s, m + 1, n)[i] = s[m + i]
OBVIOUS

\* A part of a part.
LEMMA PartOfPart ==
  ASSUME NEW S, NEW s \in Seq(S), NEW m \in Nat, NEW n \in Nat, m <= n, n <= Len(s),
         NEW i \in Nat, NEW j \in Nat, i <= j, m + j <= n
  PROVE  SubSeq(SubSeq(s, m + 1, n), i + 1, j) = SubSeq(s, m + i + 1, m + j)
<1> DEFINE p == SubSeq(s, m + 1, n)
           q == SubSeq(p, i + 1, j)
           r == SubSeq(s, m + i + 1, m + j)
<1>1. p \in Seq(S) /\ Len(p) = n - m /\ \A k \in 1 .. n - m : p[k] = s[m + k]
  BY PartFacts
<1> HIDE DEF p
<1>2. q \in Seq(S) /\ Len(q) = j - i /\ \A k \in 1 .. j - i : q[k] = p[i + k]
  <2>1. j <= Len(p)
    BY <1>1
  <2> QED BY <1>1, <2>1, PartFacts
<1>3. r \in Seq(S) /\ Len(r) = j - i /\ \A k \in 1 .. j - i : r[k] = s[m + i + k]
  <2>1. m + i \in Nat /\ m + j \in Nat /\ m + i <= m + j /\ m + j <= Len(s) /\ (m + j) - (m + i) = j - i
    OBVIOUS
  <2> QED BY <2>1, PartFacts
<1> HIDE DEF q, r
<1>4. \A k \in 1 .. j - i : q[k] = r[k]
  <2>1. TAKE k \in 1 .. j - i
  <2>2. i + k \in 1 .. n - m /\ m + (i + k) = m + i + k
    OBVIOUS
  <2> QED BY <1>1, <1>2, <1>3, <2>2
<1>5. q = r
  BY <1>2, <1>3, <1>4, SameSequence
<1> QED BY <1>5 DEF p, q, r

\* Two parts, one after the other.
LEMMA JoinParts ==
  ASSUME NEW S, NEW s \in Seq(S), NEW m \in Nat, NEW n \in Nat, NEW k \in Nat,
         m <= n, n <= k, k <= Len(s)
  PROVE  SubSeq(s, m + 1, n) \o SubSeq(s, n + 1, k) = SubSeq(s, m + 1, k)
<1> DEFINE p == SubSeq(s, m + 1, n)
           q == SubSeq(s, n + 1, k)
           r == SubSeq(s, m + 1, k)
<1>1. p \in Seq(S) /\ Len(p) = n - m /\ \A i \in 1 .. n - m : p[i] = s[m + i]
  <2>1. n <= Len(s)
    OBVIOUS
  <2> QED BY <2>1, PartFacts
<1>2. q \in Seq(S) /\ Len(q) = k - n /\ \A i \in 1 .. k - n : q[i] = s[n + i]
  BY PartFacts
<1>3. r \in Seq(S) /\ Len(r) = k - m /\ \A i \in 1 .. k - m : r[i] = s[m + i]
  <2>1. m <= k
    OBVIOUS
  <2> QED BY <2>1, PartFacts
<1> HIDE DEF p, q, r
<1>4. p \o q \in Seq(S) /\ Len(p \o q) = k - m
  <2>1. p \o q \in Seq(S) /\ Len(p \o q) = Len(p) + Len(q)
    BY <1>1, <1>2, ConcatProperties
  <2> QED BY <1>1, <1>2, <2>1
<1>5. \A i \in 1 .. k - m : (p \o q)[i] = r[i]
  <2>1. TAKE i \in 1 .. k - m
  <2>2. CASE i <= n - m
    <3>1. i \in 1 .. Len(p)
      BY <1>1, <2>2
    <3>2. (p \o q)[i] = p[i]
      BY <1>1, <1>2, <3>1, ConcatProperties
    <3> QED BY <1>1, <1>3, <2>2, <3>2
  <2>3. CASE i > n - m
    <3> DEFINE j == i - (n - m)
    <3>1. j \in 1 .. k - n /\ n + j = m + i
      BY <2>3
    <3>2. i \in 1 .. Len(p) + Len(q) /\ ~(i <= Len(p)) /\ i - Len(p) = j
      BY <1>1, <1>2, <2>3
    <3> HIDE DEF j
    <3>3. (p \o q)[i] = q[j]
      BY <1>1, <1>2, <3>2, ConcatProperties
    <3>4. q[j] = r[i]
      BY <1>2, <1>3, <3>1
    <3> QED BY <3>3, <3>4
  <2>4. i <= n - m \/ i > n - m
    OBVIOUS
  <2> QED BY <2>2, <2>3, <2>4
<1>6. p \o q = r
  <2> DEFINE t == p \o q
  <2> HIDE DEF t
  <2>1. t \in Seq(S) /\ Len(t) = k - m /\ \A i \in 1 .. k - m : t[i] = r[i]
    BY <1>4, <1>5 DEF t
  <2>2. t = r
    BY <1>3, <2>1, SameSequence
  <2> QED BY <2>2 DEF t
<1> QED BY <1>6 DEF p, q, r

\* The whole of a sequence and the empty parts at its ends.
LEMMA SequenceItself ==
  ASSUME NEW S, NEW s \in Seq(S)
  PROVE  /\ SubSeq(s, 1, Len(s)) = s
         /\ SubSeq(s, 1, 0) = <<>>
         /\ SubSeq(s, Len(s) + 1, Len(s)) = <<>>
OBVIOUS

-----------------------------------------------------------------------------
(* The chunk state                                                         *)

\* The blocks of a chunk that are known not to be its last.
Full(s) == IF s = <<>> THEN 0 ELSE (Len(s) - 1) \div BLOCK_LEN

\* Block i of a chunk.
Block(s, i) == SubSeq(s, BLOCK_LEN * (i - 1) + 1, BLOCK_LEN * i)

\* The mark of the first block.
FirstFlag(i) == IF i = 1 THEN {"CHUNK_START"} ELSE {}

\* The chaining values after each of them.
IsChain(x, s, c) ==
  x = [i \in 0 .. Full(s) |->
         IF i = 0 THEN IV ELSE compress(x[i - 1], Block(s, i), c, FirstFlag(i))]

\* A chunk state by its parts.
ChunkState(v, c, b, n) == [cv |-> v, counter |-> c, buf |-> b, blocks |-> n]

\* A chunk state that has taken in the bytes s of chunk c.
IsChunkOf(chunk, s, c) ==
  \E x : /\ IsChain(x, s, c)
         /\ chunk = ChunkState(x[Full(s)], c, From(s, BLOCK_LEN * Full(s) + 1), Full(s))

\* How a quotient is recognised.
LEMMA Quotient ==
  ASSUME NEW b \in Nat \ {0}, NEW n \in Nat, NEW k \in Nat, b * k <= n, n < b * k + b
  PROVE  n \div b = k
<1> DEFINE q == n \div b  r == n % b
<1>1. q \in Nat /\ r \in Nat /\ r < b /\ n = b * q + r
  BY SMTT(30)
<1> HIDE DEF q, r
<1>2. q < k + 1
  <2>1. SUFFICES ASSUME k + 1 <= q PROVE FALSE
    BY <1>1
  <2>2. b * (k + 1) <= b * q
    BY <1>1, <2>1
  <2> QED BY <1>1, <2>2
<1>3. k < q + 1
  <2>1. SUFFICES ASSUME q + 1 <= k PROVE FALSE
    BY <1>1
  <2>2. b * (q + 1) <= b * k
    BY <1>1, <2>1
  <2> QED BY <1>1, <2>2
<1>4. q = k
  BY <1>1, <1>2, <1>3
<1> QED BY <1>4 DEF q

\* Full is a number of blocks, and a last one of at least a byte is left.
LEMMA FullFacts ==
  ASSUME NEW S, NEW s \in Seq(S)
  PROVE  /\ Full(s) \in Nat
         /\ BLOCK_LEN * Full(s) \in Nat /\ BLOCK_LEN * Full(s) <= Len(s)
         /\ Len(s) > 0 => BLOCK_LEN * Full(s) < Len(s) /\ Len(s) <= BLOCK_LEN * Full(s) + BLOCK_LEN
         /\ Len(s) = 0 => Full(s) = 0
<1>1. BLOCK_LEN \in Nat \ {0} /\ Len(s) \in Nat
  BY Blake3Assumption
<1>2. CASE s = <<>>
  BY <1>1, <1>2 DEF Full
<1>3. CASE s # <<>>
  <2> DEFINE l == Len(s) - 1  q == l \div BLOCK_LEN  r == l % BLOCK_LEN
  <2>1. l \in Nat
    BY <1>1, <1>3
  <2>2. q \in Nat /\ r \in Nat /\ r < BLOCK_LEN /\ l = BLOCK_LEN * q + r
    <3> HIDE DEF l
    <3> QED BY <1>1, <2>1, SMTT(30)
  <2>3. BLOCK_LEN * q \in Nat
    BY <1>1, <2>2
  <2>4. Full(s) = q /\ Len(s) = l + 1
    BY <1>1, <1>3 DEF Full
  <2> HIDE DEF l, q, r
  <2> QED BY <1>1, <2>1, <2>2, <2>3, <2>4
<1> QED BY <1>2, <1>3

\* Full is where the last block starts.
LEMMA FullIs ==
  ASSUME NEW S, NEW s \in Seq(S), NEW k \in Nat, BLOCK_LEN * k < Len(s), Len(s) <= BLOCK_LEN * k + BLOCK_LEN
  PROVE  Full(s) = k
<1>1. BLOCK_LEN \in Nat \ {0} /\ Len(s) \in Nat
  BY Blake3Assumption
<1>2. BLOCK_LEN * k \in Nat
  BY <1>1
<1>3. Len(s) - 1 \in Nat /\ s # <<>>
  BY <1>1, <1>2
<1>4. BLOCK_LEN * k <= Len(s) - 1 /\ Len(s) - 1 < BLOCK_LEN * k + BLOCK_LEN
  BY <1>1, <1>2
<1>5. (Len(s) - 1) \div BLOCK_LEN = k
  BY <1>1, <1>3, <1>4, Quotient
<1> QED BY <1>3, <1>5 DEF Full

\* A new chunk state has taken in nothing.
LEMMA NewChunk ==
  ASSUME NEW c
  PROVE  IsChunkOf(new_chunk(c), <<>>, c)
<1> DEFINE x == [i \in 0 .. 0 |-> IV]
<1>1. Full(<<>>) = 0
  BY DEF Full
<1>2. x = [i \in 0 .. 0 |-> IF i = 0 THEN IV ELSE compress(x[i - 1], Block(<<>>, i), c, FirstFlag(i))]
  OBVIOUS
<1>3. x[0] = IV
  OBVIOUS
<1> HIDE DEF x
<1>4. IsChain(x, <<>>, c)
  BY <1>1, <1>2 DEF IsChain
<1>5. From(<<>>, BLOCK_LEN * 0 + 1) = <<>>
  BY Blake3Assumption DEF From
<1> QED BY <1>1, <1>3, <1>4, <1>5 DEF IsChunkOf, ChunkState, new_chunk

\* The chunk state after each block.
IsRun(f, chunk, s) ==
  f = [i \in 0 .. Full(s) |-> IF i = 0 THEN chunk ELSE compress_block(f[i - 1], Block(s, i))]

\* The recursion of chunk_update defines a function.
LEMMA BlocksExist ==
  ASSUME NEW chunk, NEW s, Full(s) \in Nat
  PROVE  \E f : IsRun(f, chunk, s)
<1> DEFINE Has(k) == \E f : f = [i \in 0 .. k |-> IF i = 0 THEN chunk ELSE compress_block(f[i - 1], Block(s, i))]
           Without == {k \in Nat : ~Has(k)}
<1>1. Without = {}
  <2>1. SUFFICES ASSUME Without # {} PROVE FALSE
    OBVIOUS
  <2>2. PICK k \in Without : \A j \in Without : k <= j
    <3>1. Without \in SUBSET Nat
      OBVIOUS
    <3> HIDE DEF Without
    <3> QED BY <2>1, <3>1, LeastNumber
  <2>3. k # 0
    <3> DEFINE g == [i \in 0 .. 0 |-> chunk]
    <3>1. \A i \in 0 .. 0 : g[i] = IF i = 0 THEN chunk ELSE compress_block(g[i - 1], Block(s, i))
      OBVIOUS
    <3>2. g = [i \in 0 .. 0 |-> g[i]]
      OBVIOUS
    <3> HIDE DEF g
    <3>3. g = [i \in 0 .. 0 |-> IF i = 0 THEN chunk ELSE compress_block(g[i - 1], Block(s, i))]
      BY <3>1, <3>2
    <3>4. Has(0)
      BY <3>3
    <3> QED BY <3>4
  <2>4. k - 1 \in Nat /\ Has(k - 1)
    <3>1. k - 1 \in Nat /\ ~(k <= k - 1)
      BY <2>3
    <3> QED BY <2>2, <3>1
  <2>5. PICK f : f = [i \in 0 .. (k - 1) |-> IF i = 0 THEN chunk ELSE compress_block(f[i - 1], Block(s, i))]
    BY <2>4
  <2> DEFINE g == [i \in 0 .. k |-> IF i = k THEN compress_block(f[k - 1], Block(s, k)) ELSE f[i]]
  <2>6. k \in Nat /\ k > 0
    BY <2>3
  <2>7. ASSUME NEW i \in 0 .. k
        PROVE  g[i] = IF i = 0 THEN chunk ELSE compress_block(g[i - 1], Block(s, i))
    <3>1. CASE i = k
      <4>1. g[i] = compress_block(f[i - 1], Block(s, i)) /\ g[i - 1] = f[i - 1] /\ i # 0
        BY <2>6, <3>1
      <4> HIDE DEF g
      <4> QED BY <4>1
    <3>2. CASE i # k
      <4>1. i \in 0 .. (k - 1) /\ g[i] = f[i] /\ (i # 0 => g[i - 1] = f[i - 1])
        BY <2>6, <3>2
      <4>2. f[i] = IF i = 0 THEN chunk ELSE compress_block(f[i - 1], Block(s, i))
        BY <2>5, <4>1
      <4> HIDE DEF g
      <4> QED BY <4>1, <4>2
    <3> QED BY <3>1, <3>2
  <2>8. g = [i \in 0 .. k |-> g[i]]
    OBVIOUS
  <2> HIDE DEF g
  <2>9. g = [i \in 0 .. k |-> IF i = 0 THEN chunk ELSE compress_block(g[i - 1], Block(s, i))]
    BY <2>7, <2>8
  <2>10. Has(k)
    BY <2>9
  <2> QED BY <2>10
<1>2. Full(s) \in Nat
  OBVIOUS
<1>3. Has(Full(s))
  <2> HIDE DEF Has
  <2> QED BY <1>1, <1>2
<1> QED BY <1>3 DEF IsRun

\* What compress_block does to a chunk state.
LEMMA CompressBlock ==
  ASSUME NEW v, NEW c, NEW b, NEW n \in Nat, NEW block
  PROVE  compress_block(ChunkState(v, c, b, n), block) =
           ChunkState(compress(v, block, c, FirstFlag(n + 1)), c, b, n + 1)
<1>1. start_flag(ChunkState(v, c, b, n)) = FirstFlag(n + 1)
  BY DEF start_flag, FirstFlag, ChunkState
<1> HIDE DEF FirstFlag, start_flag
<1>2. ChunkState(v, c, b, n).cv = v /\ ChunkState(v, c, b, n).counter = c /\ ChunkState(v, c, b, n).blocks = n
  BY DEF ChunkState
<1>3. compress_block(ChunkState(v, c, b, n), block) =
        [ChunkState(v, c, b, n) EXCEPT !.blocks = n + 1, !.cv = compress(v, block, c, FirstFlag(n + 1))]
  BY <1>1, <1>2 DEF compress_block
<1> QED BY <1>3 DEF ChunkState

\* The blocks of the bytes still to compress are the next of the chunk.
LEMMA BlocksOfRest ==
  ASSUME NEW S, NEW s \in Seq(S), NEW t \in Seq(S)
  PROVE  LET w == s \o t
             f == Full(s)
             r == From(s, BLOCK_LEN * f + 1) \o t
         IN /\ w \in Seq(S) /\ r \in Seq(S) /\ f \in Nat /\ Full(r) \in Nat
            /\ Full(w) = f + Full(r)
            /\ \A i \in 1 .. f : Block(w, i) = Block(s, i)
            /\ \A i \in 1 .. Full(r) : Block(w, f + i) = Block(r, i)
            /\ From(r, BLOCK_LEN * Full(r) + 1) = From(w, BLOCK_LEN * Full(w) + 1)
<1> DEFINE w == s \o t
           f == Full(s)
           o == BLOCK_LEN * f
           r == From(s, BLOCK_LEN * f + 1) \o t
           g == Full(r)
<1>1. BLOCK_LEN \in Nat \ {0} /\ Len(s) \in Nat /\ Len(t) \in Nat
  BY Blake3Assumption
<1>2. f \in Nat /\ o \in Nat /\ o <= Len(s) /\ (Len(s) = 0 => f = 0)
  BY FullFacts
<1>3. w \in Seq(S) /\ Len(w) = Len(s) + Len(t)
  BY ConcatProperties
<1>4. s = SubSeq(w, 1, Len(s)) /\ t = SubSeq(w, Len(s) + 1, Len(w))
  BY <1>1, <1>3, ConcatProperties, SMTT(30)
<1> HIDE DEF w
<1>5. r = SubSeq(w, o + 1, Len(w))
  <2>1. SubSeq(SubSeq(w, 0 + 1, Len(s)), o + 1, Len(s)) = SubSeq(w, 0 + o + 1, 0 + Len(s))
    <3>1. 0 \in Nat /\ 0 <= Len(s) /\ Len(s) <= Len(w) /\ 0 + Len(s) <= Len(s)
      BY <1>1, <1>3
    <3> HIDE DEF o
    <3> QED BY <1>1, <1>2, <1>3, <3>1, PartOfPart
  <2>2. From(s, o + 1) = SubSeq(w, o + 1, Len(s))
    <3>1. SubSeq(SubSeq(w, 1, Len(s)), o + 1, Len(s)) = SubSeq(w, o + 1, Len(s))
      <4> HIDE DEF o
      <4> QED BY <2>1, <1>1, <1>2
    <3>2. SubSeq(s, o + 1, Len(s)) = SubSeq(w, o + 1, Len(s))
      BY <3>1, <1>4, Zenon
    <3> QED BY <3>2 DEF From
  <2>3. SubSeq(w, o + 1, Len(s)) \o SubSeq(w, Len(s) + 1, Len(w)) = SubSeq(w, o + 1, Len(w))
    <3> DEFINE n == Len(s)  k == Len(w)
    <3>1. n \in Nat /\ k \in Nat /\ n <= k /\ k <= Len(w) /\ o \in Nat /\ o <= n
      BY <1>1, <1>2, <1>3
    <3> HIDE DEF o, n, k
    <3>2. SubSeq(w, o + 1, n) \o SubSeq(w, n + 1, k) = SubSeq(w, o + 1, k)
      BY <1>3, <3>1, JoinParts
    <3> QED BY <3>2 DEF n, k
  <2> QED BY <1>4, <2>2, <2>3, Zenon
<1>6. r \in Seq(S) /\ Len(r) = Len(w) - o
  <2>1. Len(w) \in Nat /\ o <= Len(w)
    BY <1>1, <1>2, <1>3
  <2> HIDE DEF o, r
  <2> QED BY <1>2, <1>3, <1>5, <2>1, PartFacts
<1>7. g \in Nat /\ BLOCK_LEN * g \in Nat /\ BLOCK_LEN * g <= Len(r)
      /\ (Len(r) > 0 => BLOCK_LEN * g < Len(r) /\ Len(r) <= BLOCK_LEN * g + BLOCK_LEN)
      /\ (Len(r) = 0 => g = 0)
  <2> HIDE DEF r
  <2> QED BY <1>6, FullFacts
<1>8. BLOCK_LEN * (f + g) = o + BLOCK_LEN * g /\ f + g \in Nat
  <2>1. \A b, m, n \in Nat : b * (m + n) = b * m + b * n
    OBVIOUS
  <2>2. f \in Nat /\ g \in Nat
    BY <1>2, <1>7
  <2> HIDE DEF f, g
  <2> QED BY <1>1, <2>1, <2>2
<1>9. Full(w) = f + g
  <2>1. CASE Len(w) = 0
    <3>1. Len(s) = 0 /\ Len(r) = 0
      <4> HIDE DEF r, o, f
      <4>1. Len(s) = 0
        BY <1>1, <1>3, <2>1
      <4>2. o = 0
        BY <1>2, <4>1
      <4> QED BY <1>6, <2>1, <4>1, <4>2
    <3>2. Full(w) = 0
      BY <1>3, <2>1, FullFacts
    <3> QED BY <1>2, <1>7, <3>1, <3>2
  <2>2. CASE Len(w) # 0
    <3>1. Len(r) > 0
      <4>1. CASE Len(s) = 0
        BY <1>1, <1>2, <1>3, <1>6, <2>2, <4>1
      <4>2. CASE Len(s) > 0
        <5>1. o < Len(s)
          BY <4>2, FullFacts
        <5> QED BY <1>1, <1>2, <1>3, <1>6, <5>1
      <4> QED BY <1>1, <4>1, <4>2
    <3>2. BLOCK_LEN * (f + g) < Len(w) /\ Len(w) <= BLOCK_LEN * (f + g) + BLOCK_LEN
      <4> HIDE DEF o, r, f, g
      <4> QED BY <1>1, <1>2, <1>3, <1>6, <1>7, <1>8, <3>1
    <3> HIDE DEF f, g
    <3> QED BY <1>3, <1>8, <3>2, FullIs
  <2> QED BY <2>1, <2>2
<1>10. ASSUME NEW i \in 1 .. f PROVE Block(w, i) = Block(s, i)
  <2> DEFINE a == BLOCK_LEN * (i - 1)  b == BLOCK_LEN * i
  <2>1. a \in Nat /\ b \in Nat /\ a <= b /\ b <= o
    <3>1. i \in Nat /\ i <= f /\ i - 1 \in Nat
      BY <1>2
    <3>2. \A p, m, n \in Nat : m <= n => p * m \in Nat /\ p * n \in Nat /\ p * m <= p * n
      OBVIOUS
    <3>3. f \in Nat
      BY <1>2
    <3> HIDE DEF f
    <3>4. a \in Nat /\ b \in Nat /\ a <= b
      BY <1>1, <3>1, <3>2
    <3>5. b <= o
      BY <1>1, <3>1, <3>2, <3>3
    <3> QED BY <3>4, <3>5
  <2>2. SubSeq(SubSeq(w, 0 + 1, Len(s)), a + 1, b) = SubSeq(w, 0 + a + 1, 0 + b)
    <3>1. 0 \in Nat /\ 0 <= Len(s) /\ Len(s) <= Len(w) /\ 0 + b <= Len(s)
      BY <1>1, <1>2, <1>3, <2>1
    <3> HIDE DEF a, b
    <3> QED BY <1>1, <1>3, <2>1, <3>1, PartOfPart
  <2>3. SubSeq(SubSeq(w, 1, Len(s)), a + 1, b) = SubSeq(w, a + 1, b)
    <3>1. a \in Nat /\ b \in Nat
      BY <2>1
    <3> HIDE DEF a, b
    <3>2. 0 + 1 = 1 /\ 0 + a + 1 = a + 1 /\ 0 + b = b
      BY <3>1
    <3> QED BY <2>2, <3>2, Zenon
  <2>4. SubSeq(s, a + 1, b) = SubSeq(w, a + 1, b)
    BY <1>4, <2>3, Zenon
  <2> QED BY <2>4 DEF Block
<1>11. ASSUME NEW i \in 1 .. g PROVE Block(w, f + i) = Block(r, i)
  <2> DEFINE a == BLOCK_LEN * (i - 1)  b == BLOCK_LEN * i
  <2>1. i \in Nat /\ i <= g /\ i - 1 \in Nat /\ g \in Nat
    BY <1>7
  <2> HIDE DEF g
  <2>2. a \in Nat /\ b \in Nat /\ a <= b /\ b <= BLOCK_LEN * g
    <3>2. \A p, m, n \in Nat : m <= n => p * m \in Nat /\ p * n \in Nat /\ p * m <= p * n
      OBVIOUS
    <3>4. a \in Nat /\ b \in Nat /\ a <= b
      BY <1>1, <2>1, <3>2
    <3>5. b <= BLOCK_LEN * g
      BY <1>1, <2>1, <3>2
    <3> QED BY <3>4, <3>5
  <2>3. SubSeq(SubSeq(w, o + 1, Len(w)), a + 1, b) = SubSeq(w, o + a + 1, o + b)
    <3>1. o <= Len(w) /\ o + b <= Len(w) /\ Len(w) \in Nat
      <4> HIDE DEF a, b, o, r
      <4> QED BY <1>1, <1>2, <1>3, <1>6, <1>7, <2>2
    <3> HIDE DEF a, b, o
    <3> QED BY <1>2, <1>3, <2>2, <3>1, PartOfPart
  <2>4. SubSeq(r, a + 1, b) = SubSeq(w, o + a + 1, o + b)
    <3> HIDE DEF a, b, o, r
    <3> QED BY <1>5, <2>3
  <2>5. BLOCK_LEN * ((f + i) - 1) = o + a /\ BLOCK_LEN * (f + i) = o + b
    <3>1. \A p, m, n \in Nat : p * (m + n) = p * m + p * n
      OBVIOUS
    <3>2. f \in Nat /\ (f + i) - 1 = f + (i - 1)
      BY <1>2, <2>1
    <3> HIDE DEF f
    <3> QED BY <1>1, <2>1, <3>1, <3>2
  <2>6. Block(w, f + i) = SubSeq(w, o + a + 1, o + b)
    <3> HIDE DEF a, b, o, f
    <3> QED BY <2>5, Zenon DEF Block
  <2> QED BY <2>4, <2>6 DEF Block
<1>12. From(r, BLOCK_LEN * g + 1) = From(w, BLOCK_LEN * Full(w) + 1)
  <2> DEFINE e == BLOCK_LEN * g
  <2>1. SubSeq(SubSeq(w, o + 1, Len(w)), e + 1, Len(r)) = SubSeq(w, o + e + 1, o + Len(r))
    <3>1. o <= Len(w) /\ o + Len(r) <= Len(w) /\ Len(w) \in Nat /\ Len(r) \in Nat /\ o \in Nat
      <4> HIDE DEF o, r
      <4> QED BY <1>1, <1>2, <1>3, <1>6
    <3>2. e \in Nat /\ e <= Len(r)
      BY <1>7
    <3> HIDE DEF e, o, r
    <3> QED BY <1>3, <3>1, <3>2, PartOfPart
  <2>2. BLOCK_LEN * Full(w) = o + e /\ o + Len(r) = Len(w) /\ o \in Nat /\ e \in Nat
    <3>1. Len(w) \in Nat
      BY <1>3
    <3> HIDE DEF f, g, o, r
    <3> QED BY <1>2, <1>6, <1>7, <1>8, <1>9, <3>1
  <2>3. SubSeq(r, e + 1, Len(r)) = SubSeq(w, o + e + 1, Len(w))
    <3> HIDE DEF e, o, r
    <3> QED BY <1>5, <2>1, <2>2
  <2>4. From(r, e + 1) = From(w, BLOCK_LEN * Full(w) + 1)
    <3> HIDE DEF e, o, r
    <3> QED BY <2>2, <2>3 DEF From
  <2> QED BY <2>4
<1> HIDE DEF f, g, r
<1>13. /\ w \in Seq(S) /\ r \in Seq(S) /\ f \in Nat /\ g \in Nat
       /\ Full(w) = f + g
       /\ \A i \in 1 .. f : Block(w, i) = Block(s, i)
       /\ \A i \in 1 .. g : Block(w, f + i) = Block(r, i)
       /\ From(r, BLOCK_LEN * g + 1) = From(w, BLOCK_LEN * Full(w) + 1)
  BY <1>2, <1>3, <1>6, <1>7, <1>9, <1>10, <1>11, <1>12
<1> QED BY <1>13, Zenon DEF w, r, f, g

\* chunk_update goes on where the last update stopped.
LEMMA ChunkUpdate ==
  ASSUME NEW S, NEW s \in Seq(S), NEW t \in Seq(S), NEW c, NEW chunk, IsChunkOf(chunk, s, c)
  PROVE  IsChunkOf(chunk_update(chunk, t), s \o t, c)
<1> DEFINE w == s \o t
           f == Full(s)
           b == From(s, BLOCK_LEN * f + 1)
           r == b \o t
           g == Full(r)
<1>1. /\ f \in Nat /\ g \in Nat
      /\ Full(w) = f + g
      /\ \A i \in 1 .. f : Block(w, i) = Block(s, i)
      /\ \A i \in 1 .. g : Block(w, f + i) = Block(r, i)
      /\ From(r, BLOCK_LEN * g + 1) = From(w, BLOCK_LEN * Full(w) + 1)
  BY BlocksOfRest
<1>2. PICK x : IsChain(x, s, c) /\ chunk = ChunkState(x[f], c, b, f)
  BY DEF IsChunkOf
<1> DEFINE a == CHOOSE h : IsRun(h, chunk, r)
<1>3. chunk.buf = b
  BY <1>2 DEF ChunkState
<1>4. chunk_update(chunk, t) = [a[g] EXCEPT !.buf = From(r, BLOCK_LEN * g + 1)]
  <2> DEFINE u == chunk.buf \o t
             e == CHOOSE h : IsRun(h, chunk, u)
  <2>1. chunk_update(chunk, t) = [e[Full(u)] EXCEPT !.buf = From(u, BLOCK_LEN * Full(u) + 1)]
    BY DEF chunk_update, Full, Block, IsRun
  <2>2. u = r
    BY <1>3
  <2>3. e = a
    <3> HIDE DEF u, r
    <3> QED BY <2>2, Zenon
  <2> HIDE DEF u, r, e, a
  <2> QED BY <2>1, <2>2, <2>3
<1>5. a = [i \in 0 .. g |-> IF i = 0 THEN chunk ELSE compress_block(a[i - 1], Block(r, i))]
  <2>1. Full(r) \in Nat
    BY <1>1
  <2> HIDE DEF r
  <2>2. \E h : IsRun(h, chunk, r)
    BY <2>1, BlocksExist
  <2>3. IsRun(a, chunk, r)
    BY <2>2
  <2> HIDE DEF a
  <2> QED BY <2>3 DEF IsRun
<1> HIDE DEF a, w, f, b, r, g
<1>6. a[0] = chunk /\ \A i \in 1 .. g : a[i] = compress_block(a[i - 1], Block(r, i))
  BY <1>1, <1>5
<1>7. x[0] = IV /\ \A i \in 1 .. f : x[i] = compress(x[i - 1], Block(s, i), c, FirstFlag(i))
  <2>1. x = [i \in 0 .. f |->
               IF i = 0 THEN IV ELSE compress(x[i - 1], Block(s, i), c, FirstFlag(i))]
    BY <1>2 DEF IsChain, f
  <2> QED BY <1>1, <2>1
<1> DEFINE y == [i \in 0 .. f + g |-> IF i <= f THEN x[i] ELSE a[i - f].cv]
           Wrong == {i \in 0 .. g : a[i] # ChunkState(y[f + i], c, b, f + i)}
<1>8. \A i \in 0 .. f : y[i] = x[i]
  BY <1>1
<1>9. \A i \in 1 .. g : y[f + i] = a[i].cv
  <2>1. TAKE i \in 1 .. g
  <2>2. f + i \in 0 .. f + g /\ ~(f + i <= f) /\ (f + i) - f = i
    BY <1>1
  <2> QED BY <2>2
<1> HIDE DEF y
<1>10. ASSUME NEW i \in 1 .. g, a[i - 1] = ChunkState(y[f + (i - 1)], c, b, f + (i - 1))
       PROVE  /\ a[i] = ChunkState(y[f + i], c, b, f + i)
              /\ y[f + i] = compress(y[f + (i - 1)], Block(r, i), c, FirstFlag(f + i))
  <2> DEFINE k == f + (i - 1)
  <2>1. k \in Nat /\ k + 1 = f + i
    BY <1>1
  <2>2. a[i] = compress_block(ChunkState(y[k], c, b, k), Block(r, i))
    BY <1>6, <1>10
  <2> HIDE DEF k
  <2>3. a[i] = ChunkState(compress(y[k], Block(r, i), c, FirstFlag(k + 1)), c, b, k + 1)
    BY <2>1, <2>2, CompressBlock
  <2>4. a[i].cv = compress(y[k], Block(r, i), c, FirstFlag(k + 1))
    BY <2>3 DEF ChunkState
  <2>5. y[f + i] = compress(y[k], Block(r, i), c, FirstFlag(k + 1))
    BY <1>9, <2>4
  <2>6. a[i] = ChunkState(y[f + i], c, b, f + i)
    BY <2>1, <2>3, <2>5
  <2> QED BY <2>1, <2>5, <2>6 DEF k
<1>11. Wrong = {}
  <2>1. SUFFICES ASSUME Wrong # {} PROVE FALSE
    OBVIOUS
  <2>2. PICK i \in Wrong : \A j \in Wrong : i <= j
    <3>1. Wrong \in SUBSET Nat
      BY <1>1
    <3> HIDE DEF Wrong
    <3> QED BY <2>1, <3>1, LeastNumber
  <2>3. i \in 0 .. g /\ a[i] # ChunkState(y[f + i], c, b, f + i)
    OBVIOUS
  <2>4. i # 0
    <3>1. f + 0 = f /\ f \in 0 .. f
      BY <1>1
    <3>2. y[f] = x[f]
      BY <1>8, <3>1
    <3> QED BY <1>2, <1>6, <2>3, <3>1, <3>2
  <2>5. i \in 1 .. g /\ i - 1 \in 0 .. g /\ ~(i <= i - 1)
    BY <1>1, <2>3, <2>4
  <2>6. a[i - 1] = ChunkState(y[f + (i - 1)], c, b, f + (i - 1))
    BY <2>2, <2>5
  <2> QED BY <1>10, <2>3, <2>5, <2>6
<1>12. \A i \in 0 .. g : a[i] = ChunkState(y[f + i], c, b, f + i)
  BY <1>11
<1>13. ASSUME NEW i \in 0 .. f + g
       PROVE  y[i] = IF i = 0 THEN IV ELSE compress(y[i - 1], Block(w, i), c, FirstFlag(i))
  <2>1. CASE i = 0
    BY <1>1, <1>7, <1>8, <2>1
  <2>2. CASE i # 0 /\ i <= f
    <3>1. i \in 1 .. f /\ i - 1 \in 0 .. f /\ i \in 0 .. f
      BY <1>1, <2>2
    <3> QED BY <1>1, <1>7, <1>8, <2>2, <3>1
  <2>3. CASE i > f
    <3> DEFINE k == i - f
    <3>1. k \in 1 .. g /\ k - 1 \in 0 .. g /\ f + k = i /\ f + (k - 1) = i - 1 /\ i # 0
      BY <1>1, <2>3
    <3> HIDE DEF k
    <3>2. a[k - 1] = ChunkState(y[f + (k - 1)], c, b, f + (k - 1))
      BY <1>12, <3>1
    <3>3. y[f + k] = compress(y[f + (k - 1)], Block(r, k), c, FirstFlag(f + k))
      BY <1>10, <3>1, <3>2
    <3>4. Block(w, f + k) = Block(r, k)
      BY <1>1, <3>1
    <3> QED BY <3>1, <3>3, <3>4
  <2>4. i <= f \/ i > f
    BY <1>1
  <2> QED BY <2>1, <2>2, <2>3, <2>4
<1>14. IsChain(y, w, c)
  <2>1. y = [i \in 0 .. f + g |-> y[i]]
    BY DEF y
  <2>2. y = [i \in 0 .. f + g |->
               IF i = 0 THEN IV ELSE compress(y[i - 1], Block(w, i), c, FirstFlag(i))]
    BY <1>13, <2>1
  <2> QED BY <1>1, <2>2 DEF IsChain
<1>15. chunk_update(chunk, t) =
         ChunkState(y[Full(w)], c, From(w, BLOCK_LEN * Full(w) + 1), Full(w))
  <2>1. a[g] = ChunkState(y[f + g], c, b, f + g)
    BY <1>1, <1>12
  <2>2. [ChunkState(y[f + g], c, b, f + g) EXCEPT !.buf = From(r, BLOCK_LEN * g + 1)] =
          ChunkState(y[f + g], c, From(r, BLOCK_LEN * g + 1), f + g)
    BY DEF ChunkState
  <2> QED BY <1>1, <1>4, <2>1, <2>2
<1>16. IsChunkOf(chunk_update(chunk, t), w, c)
  BY <1>14, <1>15 DEF IsChunkOf
<1> QED BY <1>16 DEF w

\* A chunk state is what its bytes say, and its output the node of the tree.
LEMMA ChunkIs ==
  ASSUME NEW S, NEW s \in Seq(S), NEW c, NEW chunk, IsChunkOf(chunk, s, c)
  PROVE  /\ chunk_len(chunk) = Len(s)
         /\ chunk.counter = c
         /\ chunk_output(chunk) = ChunkNode(s, c)
<1> DEFINE f == Full(s)
           b == From(s, BLOCK_LEN * f + 1)
<1>1. PICK x : IsChain(x, s, c) /\ chunk = ChunkState(x[f], c, b, f)
  BY DEF IsChunkOf
<1>2. /\ f \in Nat /\ BLOCK_LEN * f \in Nat /\ BLOCK_LEN * f <= Len(s)
      /\ Len(s) > 0 => BLOCK_LEN * f < Len(s) /\ Len(s) <= BLOCK_LEN * f + BLOCK_LEN
      /\ Len(s) = 0 => f = 0
  BY FullFacts
<1>3. BLOCK_LEN \in Nat \ {0} /\ Len(s) \in Nat
  BY Blake3Assumption
<1>4. chunk.cv = x[f] /\ chunk.counter = c /\ chunk.buf = b /\ chunk.blocks = f
  BY <1>1 DEF ChunkState
<1>5. Len(b) = Len(s) - BLOCK_LEN * f
  <2> DEFINE o == BLOCK_LEN * f  n == Len(s)
  <2>1. o \in Nat /\ n \in Nat /\ o <= n /\ n <= Len(s)
    BY <1>2, <1>3
  <2> HIDE DEF o, n
  <2>2. Len(SubSeq(s, o + 1, n)) = n - o
    BY <2>1, PartFacts
  <2> QED BY <2>2 DEF o, n, From
<1>6. chunk_len(chunk) = Len(s)
  <2> HIDE DEF f, b
  <2> QED BY <1>2, <1>3, <1>4, <1>5 DEF chunk_len
<1>7. x = [i \in 0 .. f |-> IF i = 0 THEN IV ELSE compress(x[i - 1], Block(s, i), c, FirstFlag(i))]
  BY <1>1 DEF IsChain
<1> DEFINE bl == IF s = <<>> THEN <<<<>>>> ELSE Parts(s, BLOCK_LEN)
           n == Len(bl)
           flags(i) == (IF i = 1 THEN {"CHUNK_START"} ELSE {}) \cup (IF i = n THEN {"CHUNK_END"} ELSE {})
           z == CHOOSE h : h = [i \in 0 .. n - 1 |->
                  IF i = 0 THEN IV ELSE compress(h[i - 1], bl[i], c, flags(i))]
<1>8. ChunkNode(s, c) = make_output(z[n - 1], bl[n], c, flags(n))
  BY DEF ChunkNode
<1>9. n = f + 1 /\ (\A i \in 1 .. f : bl[i] = Block(s, i)) /\ bl[n] = b
  <2>1. CASE s = <<>>
    <3>1. f = 0 /\ n = 1 /\ bl[1] = <<>>
      BY <1>2, <2>1
    <3>2. b = <<>>
      <4>1. BLOCK_LEN * 0 + 1 = 1
        BY <1>3
      <4> QED BY <2>1, <3>1, <4>1 DEF From
    <3> QED BY <3>1, <3>2
  <2>2. CASE s # <<>>
    <3> DEFINE q == (Len(s) + BLOCK_LEN - 1) \div BLOCK_LEN
    <3>1. Len(s) > 0
      BY <1>3, <2>2
    <3>2. q = f + 1
      <4> DEFINE m == Len(s) + BLOCK_LEN - 1  l == f + 1
      <4>1. BLOCK_LEN * l = BLOCK_LEN * f + BLOCK_LEN
        <5>1. \A p, k \in Nat : p * (k + 1) = p * k + p
          OBVIOUS
        <5> HIDE DEF f
        <5> QED BY <1>2, <1>3, <5>1
      <4>2. m \in Nat /\ l \in Nat /\ BLOCK_LEN * l <= m /\ m < BLOCK_LEN * l + BLOCK_LEN
        <5> HIDE DEF f
        <5> QED BY <1>2, <1>3, <3>1, <4>1
      <4> HIDE DEF m, l
      <4>3. m \div BLOCK_LEN = l
        BY <1>3, <4>2, Quotient
      <4> QED BY <4>3 DEF m, l
    <3>3. bl = [i \in 1 .. q |-> SubSeq(s, BLOCK_LEN * (i - 1) + 1, SmallerOf(BLOCK_LEN * i, Len(s)))]
      BY <2>2 DEF Parts
    <3> HIDE DEF bl, q
    <3>4. n = f + 1
      <4>1. n = q
        <5> HIDE DEF f
        <5>1. q \in Nat
          BY <1>2, <3>2
        <5> QED BY <3>3, <5>1
      <4> QED BY <3>2, <4>1
    <3>5. ASSUME NEW i \in 1 .. f PROVE bl[i] = Block(s, i)
      <4>1. BLOCK_LEN * i <= BLOCK_LEN * f /\ BLOCK_LEN * i \in Nat
        <5>1. \A p, k, l \in Nat : k <= l => p * k <= p * l /\ p * k \in Nat
          OBVIOUS
        <5> HIDE DEF f
        <5> QED BY <1>2, <1>3, <5>1
      <4>2. SmallerOf(BLOCK_LEN * i, Len(s)) = BLOCK_LEN * i
        <5> HIDE DEF f
        <5> QED BY <1>2, <1>3, <4>1 DEF SmallerOf
      <4>3. i \in 1 .. q
        <5> HIDE DEF f
        <5> QED BY <1>2, <3>2
      <4> QED BY <3>3, <4>2, <4>3 DEF Block
    <3>6. bl[f + 1] = b
      <4>1. BLOCK_LEN * (f + 1) = BLOCK_LEN * f + BLOCK_LEN
        <5>1. \A p, k \in Nat : p * (k + 1) = p * k + p
          OBVIOUS
        <5> HIDE DEF f
        <5> QED BY <1>2, <1>3, <5>1
      <4>2. SmallerOf(BLOCK_LEN * (f + 1), Len(s)) = Len(s)
        <5> HIDE DEF f
        <5> QED BY <1>2, <1>3, <3>1, <4>1 DEF SmallerOf
      <4>3. f + 1 \in 1 .. q /\ (f + 1) - 1 = f
        <5> HIDE DEF f
        <5> QED BY <1>2, <3>2
      <4> HIDE DEF f
      <4> QED BY <3>3, <4>2, <4>3 DEF From
    <3> QED BY <3>4, <3>5, <3>6
  <2> QED BY <2>1, <2>2
<1> HIDE DEF bl, f, b
<1>10. flags(n) = FirstFlag(f + 1) \cup {"CHUNK_END"}
  BY <1>2, <1>9 DEF FirstFlag
<1>11. \A i \in 1 .. f : flags(i) = FirstFlag(i)
  BY <1>2, <1>9 DEF FirstFlag
<1> HIDE DEF n, flags
<1>12. n - 1 = f
  BY <1>2, <1>9
<1>13. z = [i \in 0 .. f |-> IF i = 0 THEN IV ELSE compress(z[i - 1], Block(s, i), c, FirstFlag(i))]
  <2>1. x = [i \in 0 .. n - 1 |-> IF i = 0 THEN IV ELSE compress(x[i - 1], bl[i], c, flags(i))]
    <3>1. \A i \in 0 .. f : i # 0 => i \in 1 .. f
      BY <1>2
    <3>2. \A i \in 0 .. f : x[i] = IF i = 0 THEN IV ELSE compress(x[i - 1], Block(s, i), c, FirstFlag(i))
      BY <1>7
    <3>3. \A i \in 0 .. f : x[i] = IF i = 0 THEN IV ELSE compress(x[i - 1], bl[i], c, flags(i))
      BY <1>9, <1>11, <3>1, <3>2
    <3>4. x = [i \in 0 .. f |-> x[i]]
      BY <1>7
    <3> QED BY <1>12, <3>3, <3>4
  <2>2. z = [i \in 0 .. n - 1 |-> IF i = 0 THEN IV ELSE compress(z[i - 1], bl[i], c, flags(i))]
    BY <2>1
  <2> HIDE DEF z
  <2>3. \A i \in 0 .. f : i # 0 => i \in 1 .. f
    BY <1>2
  <2>4. \A i \in 0 .. f : z[i] = IF i = 0 THEN IV ELSE compress(z[i - 1], bl[i], c, flags(i))
    BY <1>12, <2>2
  <2>5. \A i \in 0 .. f : z[i] = IF i = 0 THEN IV ELSE compress(z[i - 1], Block(s, i), c, FirstFlag(i))
    BY <1>9, <1>11, <2>3, <2>4
  <2>6. z = [i \in 0 .. f |-> z[i]]
    BY <1>12, <2>2
  <2> QED BY <2>5, <2>6
<1> HIDE DEF z
<1>14. z[f] = x[f]
  <2> DEFINE Wrong == {i \in 0 .. f : z[i] # x[i]}
  <2>1. Wrong = {}
    <3>1. SUFFICES ASSUME Wrong # {} PROVE FALSE
      OBVIOUS
    <3>2. PICK i \in Wrong : \A j \in Wrong : i <= j
      <4>1. Wrong \in SUBSET Nat
        BY <1>2
      <4> HIDE DEF Wrong
      <4> QED BY <3>1, <4>1, LeastNumber
    <3>3. i \in 0 .. f /\ z[i] # x[i]
      OBVIOUS
    <3>4. x[i] = IF i = 0 THEN IV ELSE compress(x[i - 1], Block(s, i), c, FirstFlag(i))
      BY <1>7, <3>3
    <3>5. z[i] = IF i = 0 THEN IV ELSE compress(z[i - 1], Block(s, i), c, FirstFlag(i))
      BY <1>13, <3>3
    <3>6. i # 0
      BY <3>3, <3>4, <3>5
    <3>7. i - 1 \in 0 .. f /\ ~(i <= i - 1)
      BY <1>2, <3>3, <3>6
    <3>8. z[i - 1] = x[i - 1]
      BY <3>2, <3>7
    <3> QED BY <3>3, <3>4, <3>5, <3>8
  <2>2. f \in 0 .. f
    BY <1>2
  <2> QED BY <2>1, <2>2
<1>15. start_flag(chunk) = FirstFlag(f + 1)
  BY <1>2, <1>4 DEF start_flag, FirstFlag
<1>16. chunk_output(chunk) = ChunkNode(s, c)
  <2>1. chunk_output(chunk) = make_output(x[f], b, c, FirstFlag(f + 1) \cup {"CHUNK_END"})
    BY <1>4, <1>15 DEF chunk_output
  <2> QED BY <1>8, <1>9, <1>10, <1>12, <1>14, <2>1
<1> QED BY <1>4, <1>6, <1>16

-----------------------------------------------------------------------------
(* The tree                                                                *)

\* The length of the left child in the definition of Tree.
LeftLen(len) ==
  CHUNK_LEN * (CHOOSE c \in 1 .. len : IsPowerOfTwo(c) /\
                 c * CHUNK_LEN < len /\ len <= 2 * c * CHUNK_LEN)

\* CHUNK_LEN is a power of two.
LEMMA ChunkLenFacts ==
  /\ CHUNK_LEN \in Nat \ {0} /\ IsPowerOfTwo(CHUNK_LEN)
BY Blake3Assumption DEF IsPowerOfTwo

\* Where a node is divided.
LEMMA LeftLenIs ==
  ASSUME NEW len \in Nat, NEW c \in Nat, IsPowerOfTwo(c),
         c * CHUNK_LEN < len, len <= 2 * (c * CHUNK_LEN)
  PROVE  LeftLen(len) = c * CHUNK_LEN /\ left_subtree_len(len) = c * CHUNK_LEN
<1> DEFINE C == CHUNK_LEN
           Fits(d) == IsPowerOfTwo(d) /\ d * CHUNK_LEN < len /\ len <= 2 * d * CHUNK_LEN
<1>1. C \in Nat \ {0} /\ c > 0 /\ c * C \in Nat
  BY ChunkLenFacts DEF IsPowerOfTwo
<1>2. \A d \in Nat : 2 * d * C = 2 * (d * C) /\ d * C \in Nat
  BY <1>1
<1>3. Fits(c)
  BY <1>2
<1>4. ASSUME NEW d \in Nat, NEW e \in Nat, Fits(d), Fits(e) PROVE ~(d < e)
  <2>1. SUFFICES ASSUME d < e PROVE FALSE
    OBVIOUS
  <2>2. 2 * d <= e
    BY <1>4, <2>1, NextPowerOfTwo
  <2>3. 2 * d * C <= e * C /\ 2 * d * C \in Nat /\ e * C \in Nat
    <3>1. \A m, n, p \in Nat : m <= n => m * p <= n * p /\ m * p \in Nat /\ n * p \in Nat
      OBVIOUS
    <3> QED BY <1>1, <2>2, <3>1
  <2> QED BY <1>4, <2>3
<1>5. ASSUME NEW d \in Nat, Fits(d) PROVE d = c
  <2>1. ~(d < c) /\ ~(c < d)
    <3> HIDE DEF Fits
    <3> QED BY <1>3, <1>4, <1>5
  <2> QED BY <2>1
<1>6. c \in 1 .. len
  <2>1. c <= c * C
    BY <1>1
  <2> QED BY <1>1, <2>1
<1>7. (CHOOSE d \in 1 .. len : Fits(d)) = c
  <2> HIDE DEF Fits
  <2> QED BY <1>3, <1>5, <1>6
<1>8. LeftLen(len) = C * c
  BY <1>7 DEF LeftLen
<1>9. C * c = c * C
  BY <1>1
<1> DEFINE m == (len - 1) \div C  r == (len - 1) % C
<1>10. m \in Nat /\ r \in Nat /\ r < C /\ len - 1 = m * C + r
  <2> DEFINE l == len - 1
  <2>1. l \in Nat
    BY <1>1
  <2> HIDE DEF l
  <2>2. l \div C \in Nat /\ l % C \in Nat /\ l % C < C /\ l = (l \div C) * C + (l % C)
    BY <1>1, <2>1, SMTT(30)
  <2> QED BY <2>2 DEF l
<1> HIDE DEF m, r
<1>11. m # 0
  <2>1. SUFFICES ASSUME m = 0 PROVE FALSE
    OBVIOUS
  <2>2. m * C = 0
    BY <1>1, <2>1
  <2>3. C <= c * C
    BY <1>1
  <2> QED BY <1>1, <1>10, <2>2, <2>3
<1> DEFINE d == round_down_to_power_of_2(m)
<1>12. d \in Nat /\ d <= m /\ m < 2 * d /\ IsPowerOfTwo(d)
  BY <1>10, <1>11, DownFacts
<1> HIDE DEF d
<1>13. Fits(d)
  <2>1. d * C <= m * C /\ m * C \in Nat /\ d * C \in Nat
    <3>1. \A i, j, p \in Nat : i <= j => i * p <= j * p /\ i * p \in Nat /\ j * p \in Nat
      OBVIOUS
    <3> QED BY <1>1, <1>10, <1>12, <3>1
  <2>2. (m + 1) * C <= 2 * d * C /\ (m + 1) * C = m * C + C
    <3>1. \A i, j, p \in Nat : i <= j => i * p <= j * p
      OBVIOUS
    <3>2. m + 1 <= 2 * d /\ m + 1 \in Nat /\ 2 * d \in Nat
      BY <1>10, <1>12
    <3>3. \A i, p \in Nat : (i + 1) * p = i * p + p
      OBVIOUS
    <3> QED BY <1>1, <1>10, <3>1, <3>2, <3>3
  <2>3. 2 * d * C \in Nat
    BY <1>1, <1>12
  <2> QED BY <1>1, <1>10, <1>12, <2>1, <2>2, <2>3
<1>14. d = c
  <2> HIDE DEF Fits
  <2> QED BY <1>5, <1>12, <1>13
<1>15. left_subtree_len(len) = C * c
  BY <1>14 DEF left_subtree_len, d, m
<1> QED BY <1>8, <1>9, <1>15

\* There is such a place.
LEMMA LeftLenExists ==
  ASSUME NEW len \in Nat, CHUNK_LEN < len
  PROVE  \E c \in Nat \ {0} : IsPowerOfTwo(c) /\ c * CHUNK_LEN < len /\ len <= 2 * (c * CHUNK_LEN)
<1> DEFINE C == CHUNK_LEN  m == (len - 1) \div C  r == (len - 1) % C
<1>1. C \in Nat \ {0}
  BY ChunkLenFacts
<1>2. m \in Nat /\ r \in Nat /\ r < C /\ len - 1 = m * C + r
  <2> DEFINE l == len - 1
  <2>1. l \in Nat
    BY <1>1
  <2> HIDE DEF l
  <2>2. l \div C \in Nat /\ l % C \in Nat /\ l % C < C /\ l = (l \div C) * C + (l % C)
    BY <1>1, <2>1, SMTT(30)
  <2> QED BY <2>2 DEF l
<1> HIDE DEF m, r
<1>3. m # 0
  <2>1. SUFFICES ASSUME m = 0 PROVE FALSE
    OBVIOUS
  <2>2. m * C = 0
    BY <1>1, <2>1
  <2> QED BY <1>1, <1>2, <2>2
<1> DEFINE d == round_down_to_power_of_2(m)
<1>4. d \in Nat /\ d <= m /\ m < 2 * d /\ IsPowerOfTwo(d)
  BY <1>2, <1>3, DownFacts
<1> HIDE DEF d
<1>5. d * C <= m * C /\ m * C \in Nat /\ d * C \in Nat
  <2>1. \A i, j, p \in Nat : i <= j => i * p <= j * p /\ i * p \in Nat /\ j * p \in Nat
    OBVIOUS
  <2> QED BY <1>1, <1>2, <1>4, <2>1
<1>6. (m + 1) * C <= (2 * d) * C /\ (m + 1) * C = m * C + C /\ (2 * d) * C = 2 * (d * C)
  <2>1. \A i, j, p \in Nat : i <= j => i * p <= j * p
    OBVIOUS
  <2>2. m + 1 <= 2 * d /\ m + 1 \in Nat /\ 2 * d \in Nat
    BY <1>2, <1>4
  <2>3. \A i, p \in Nat : (i + 1) * p = i * p + p /\ (2 * i) * p = 2 * (i * p)
    OBVIOUS
  <2> QED BY <1>1, <1>2, <1>4, <2>1, <2>2, <2>3
<1>7. d * C < len /\ len <= 2 * (d * C) /\ d # 0
  BY <1>1, <1>2, <1>4, <1>5, <1>6
<1> QED BY <1>4, <1>7

\* The nodes over len bytes, one for each place.
NodeRow(f, input, len) ==
  [from \in 0 .. Len(input) - len |->
     IF len <= CHUNK_LEN
       THEN ChunkNode(SubSeq(input, from + 1, from + len), from \div CHUNK_LEN)
       ELSE parent_output(chaining_value(f[LeftLen(len)][from]),
                          chaining_value(f[len - LeftLen(len)][from + LeftLen(len)]))]

\* A row of nodes depends on the shorter rows only.
LEMMA NodeRowSame ==
  ASSUME NEW f, NEW g, NEW input, NEW k \in Nat, \A j \in 0 .. (k - 1) : f[j] = g[j]
  PROVE  NodeRow(f, input, k) = NodeRow(g, input, k)
<1>1. CASE k <= CHUNK_LEN
  BY <1>1 DEF NodeRow
<1>2. CASE ~(k <= CHUNK_LEN)
  <2>1. PICK c \in Nat \ {0} : IsPowerOfTwo(c) /\ c * CHUNK_LEN < k /\ k <= 2 * (c * CHUNK_LEN)
    <3>1. CHUNK_LEN < k
      BY <1>2, ChunkLenFacts
    <3> QED BY <3>1, LeftLenExists
  <2>2. LeftLen(k) = c * CHUNK_LEN /\ c * CHUNK_LEN \in Nat \ {0}
    BY <2>1, LeftLenIs, ChunkLenFacts
  <2> DEFINE l == LeftLen(k)
  <2>3. l \in 0 .. (k - 1) /\ k - l \in 0 .. (k - 1)
    BY <2>1, <2>2
  <2> HIDE DEF l
  <2>4. f[l] = g[l] /\ f[k - l] = g[k - l]
    BY <2>3
  <2>5. f[LeftLen(k)] = g[LeftLen(k)] /\ f[k - LeftLen(k)] = g[k - LeftLen(k)]
    BY <2>4 DEF l
  <2> QED BY <1>2, <2>5, Zenon DEF NodeRow
<1> QED BY <1>1, <1>2

\* The tree of an input.
IsTree(f, input) == f = [i \in 0 .. Len(input) |-> NodeRow(f, input, i)]

\* The recursion of Tree defines a function.
LEMMA TreeExists ==
  ASSUME NEW S, NEW input \in Seq(S)
  PROVE  \E f : IsTree(f, input)
<1> DEFINE Has(k) == \E f : f = [i \in 0 .. k |-> NodeRow(f, input, i)]
           Without == {k \in Nat : ~Has(k + 0 - 1)}
<1>1. Len(input) \in Nat
  OBVIOUS
<1>2. Without = {}
  <2>1. SUFFICES ASSUME Without # {} PROVE FALSE
    OBVIOUS
  <2>2. PICK m \in Without : \A j \in Without : m <= j
    <3>1. Without \in SUBSET Nat
      OBVIOUS
    <3> HIDE DEF Without
    <3> QED BY <2>1, <3>1, LeastNumber
  <2> DEFINE k == m + 0 - 1
  <2>3. m \in Nat /\ k \in Int /\ ~Has(k)
    OBVIOUS
  <2>4. m # 0
    <3>1. ASSUME m = 0 PROVE FALSE
      <4> DEFINE g == [i \in 0 .. k |-> 0]
      <4>1. 0 .. k = {}
        BY <3>1
      <4>2. g = [i \in 0 .. k |-> NodeRow(g, input, i)]
        <5> HIDE DEF k
        <5> QED BY <4>1
      <4>3. Has(k)
        <5> HIDE DEF g, k
        <5> QED BY <4>2
      <4> QED BY <2>3, <4>3
    <3> QED BY <3>1
  <2>5. PICK f : f = [i \in 0 .. (k - 1) |-> NodeRow(f, input, i)]
    <3>1. m - 1 \in Nat /\ ~(m <= m - 1) /\ (m - 1) + 0 - 1 = k - 1
      BY <2>3, <2>4
    <3>2. Has((m - 1) + 0 - 1)
      <4> HIDE DEF Has
      <4> QED BY <2>2, <3>1
    <3>3. Has(k - 1)
      <4> HIDE DEF Has, k
      <4> QED BY <3>1, <3>2
    <3> QED BY <3>3
  <2>6. k \in Nat /\ k >= 0
    BY <2>3, <2>4
  <2> HIDE DEF k
  <2> DEFINE g == [i \in 0 .. k |-> IF i = k THEN NodeRow(f, input, k) ELSE f[i]]
  <2>7. \A i \in 0 .. (k - 1) : g[i] = f[i] /\ f[i] = NodeRow(f, input, i)
    <3>1. \A i \in 0 .. (k - 1) : g[i] = f[i]
      BY <2>6
    <3> HIDE DEF g
    <3>2. \A i \in 0 .. (k - 1) : f[i] = NodeRow(f, input, i)
      BY <2>5
    <3> QED BY <3>1, <3>2
  <2>8. g[k] = NodeRow(f, input, k)
    BY <2>6
  <2>9. g = [i \in 0 .. k |-> g[i]]
    OBVIOUS
  <2> HIDE DEF g
  <2>10. ASSUME NEW i \in 0 .. k
        PROVE  g[i] = NodeRow(g, input, i)
    <3>1. i \in Nat /\ \A j \in 0 .. (i - 1) : f[j] = g[j]
      BY <2>6, <2>7
    <3>2. NodeRow(f, input, i) = NodeRow(g, input, i)
      BY <3>1, NodeRowSame
    <3>3. i = k \/ i \in 0 .. (k - 1)
      BY <2>6
    <3> QED BY <2>7, <2>8, <3>2, <3>3
  <2>11. g = [i \in 0 .. k |-> NodeRow(g, input, i)]
    BY <2>9, <2>10
  <2>12. Has(k)
    BY <2>11
  <2> QED BY <2>3, <2>12
<1>3. Has(Len(input))
  <2>1. Len(input) - 0 + 1 \in Nat /\ (Len(input) - 0 + 1) + 0 - 1 = Len(input)
    BY <1>1
  <2> HIDE DEF Has
  <2> QED BY <1>2, <2>1
<1> QED BY <1>3 DEF IsTree

\* One step of the recursion of Tree.
LEMMA TreeFacts ==
  ASSUME NEW S, NEW input \in Seq(S), NEW len \in 0 .. Len(input), NEW from \in 0 .. Len(input) - len
  PROVE  Tree(input)[len][from] =
           IF len <= CHUNK_LEN
             THEN ChunkNode(SubSeq(input, from + 1, from + len), from \div CHUNK_LEN)
             ELSE parent_output(chaining_value(Tree(input)[LeftLen(len)][from]),
                                chaining_value(Tree(input)[len - LeftLen(len)][from + LeftLen(len)]))
<1> DEFINE f == CHOOSE h : IsTree(h, input)
<1>1. Tree(input) = f
  BY DEF Tree, IsTree, NodeRow, LeftLen
<1>2. IsTree(f, input)
  BY TreeExists
<1> HIDE DEF f
<1>3. f[len] = NodeRow(f, input, len)
  BY <1>2 DEF IsTree
<1>4. f[len][from] =
           IF len <= CHUNK_LEN
             THEN ChunkNode(SubSeq(input, from + 1, from + len), from \div CHUNK_LEN)
             ELSE parent_output(chaining_value(f[LeftLen(len)][from]),
                                chaining_value(f[len - LeftLen(len)][from + LeftLen(len)]))
  BY <1>3 DEF NodeRow
<1> QED BY <1>1, <1>4

\* A node of more than c chunks and up to 2 c, c a power of two, has a left
\* child of c chunks.
LEMMA NodeSplit ==
  ASSUME NEW S, NEW input \in Seq(S), NEW len \in 0 .. Len(input), NEW from \in 0 .. Len(input) - len,
         NEW c \in Nat, IsPowerOfTwo(c), c * CHUNK_LEN < len, len <= 2 * (c * CHUNK_LEN)
  PROVE  Tree(input)[len][from] =
           parent_output(chaining_value(Tree(input)[c * CHUNK_LEN][from]),
                         chaining_value(Tree(input)[len - c * CHUNK_LEN][from + c * CHUNK_LEN]))
<1>1. LeftLen(len) = c * CHUNK_LEN
  BY LeftLenIs
<1>2. ~(len <= CHUNK_LEN)
  <2>1. c > 0 /\ CHUNK_LEN \in Nat
    BY ChunkLenFacts DEF IsPowerOfTwo
  <2>2. CHUNK_LEN <= c * CHUNK_LEN /\ c * CHUNK_LEN \in Nat
    BY <2>1
  <2> QED BY <2>1, <2>2
<1>3. Tree(input)[len][from] =
             parent_output(chaining_value(Tree(input)[LeftLen(len)][from]),
                                chaining_value(Tree(input)[len - LeftLen(len)][from + LeftLen(len)]))
  BY <1>2, TreeFacts
<1> QED BY <1>1, <1>3, Zenon

-----------------------------------------------------------------------------
(* Layers of the tree                                                      *)

\* The chaining value of the node over r chunks of d after the first p.
At(d, p, r) == chaining_value(Tree(d)[r * CHUNK_LEN][p * CHUNK_LEN])

\* Those of m such nodes in a row.
Layer(d, p, r, m) == [k \in 1 .. m |-> At(d, p + (k - 1) * r, r)]

\* The facts about products that are used.
LEMMA Products ==
  /\ \A i, j \in Nat : i * j \in Nat /\ i * j = j * i
  /\ \A i, j, k \in Nat : (i + j) * k = i * k + j * k
  /\ \A i, j, k \in Nat : i <= j => i * k <= j * k
  /\ \A i, j, k \in Nat : (i * j) * k = i * (j * k)
<1>1. \A i, j \in Nat : i * j \in Nat /\ i * j = j * i
  OBVIOUS
<1>2. \A i, j, k \in Nat : (i + j) * k = i * k + j * k
  OBVIOUS
<1>3. \A i, j, k \in Nat : i <= j => i * k <= j * k
  OBVIOUS
<1>4. \A i, j, k \in Nat : (i * j) * k = i * (j * k)
  OBVIOUS
<1> QED BY <1>1, <1>2, <1>3, <1>4

\* The output of a node over twice r chunks.
LEMMA ParentOfHalves ==
  ASSUME NEW S, NEW d \in Seq(S), NEW p \in Nat, NEW r \in Nat, IsPowerOfTwo(r),
         (p + 2 * r) * CHUNK_LEN <= Len(d)
  PROVE  Tree(d)[(2 * r) * CHUNK_LEN][p * CHUNK_LEN] = parent_output(At(d, p, r), At(d, p + r, r))
<1> DEFINE C == CHUNK_LEN  len == (2 * r) * C  from == p * C  c == r * C
<1>1. C \in Nat \ {0} /\ r > 0 /\ Len(d) \in Nat
  BY ChunkLenFacts DEF IsPowerOfTwo
<1>2. /\ len \in Nat /\ from \in Nat /\ c \in Nat \ {0} /\ len = c + c
      /\ from + len <= Len(d) /\ (p + r) * C = from + c
  <2>1. (2 * r) * C = r * C + r * C /\ (p + 2 * r) * C = p * C + (2 * r) * C
        /\ (p + r) * C = p * C + r * C
    <3>1. 2 * r = r + r /\ 2 * r \in Nat /\ C \in Nat
      BY <1>1
    <3> HIDE DEF C
    <3> QED BY <3>1, Products
  <2>2. r * C \in Nat /\ r * C # 0 /\ p * C \in Nat
    BY <1>1
  <2> QED BY <2>1, <2>2
<1> HIDE DEF len, from, c
<1>3. len \in 0 .. Len(d) /\ from \in 0 .. Len(d) - len /\ c < len /\ len <= 2 * c /\ len - c = c
  BY <1>1, <1>2
<1>4. Tree(d)[len][from] =
         parent_output(chaining_value(Tree(d)[c][from]), chaining_value(Tree(d)[len - c][from + c]))
  BY <1>3, NodeSplit DEF c
<1>5. Tree(d)[len][from] =
         parent_output(chaining_value(Tree(d)[c][from]), chaining_value(Tree(d)[c][from + c]))
  BY <1>3, <1>4
<1>6. At(d, p, r) = chaining_value(Tree(d)[c][from]) /\ At(d, p + r, r) = chaining_value(Tree(d)[c][from + c])
  BY <1>2 DEF At, c, from
<1> QED BY <1>5, <1>6 DEF len, from

\* Its chaining value.
LEMMA TwiceAsWide ==
  ASSUME NEW S, NEW d \in Seq(S), NEW p \in Nat, NEW r \in Nat, IsPowerOfTwo(r),
         (p + 2 * r) * CHUNK_LEN <= Len(d)
  PROVE  At(d, p, 2 * r) = chaining_value(parent_output(At(d, p, r), At(d, p + r, r)))
BY ParentOfHalves DEF At

\* A chunk state with what is in the input from chunk p on gives its node.
LEMMA ChunkOutputIs ==
  ASSUME NEW S, NEW d \in Seq(S), NEW p \in Nat, NEW n \in Nat,
         p * CHUNK_LEN <= n, n <= p * CHUNK_LEN + CHUNK_LEN, n <= Len(d),
         NEW chunk, IsChunkOf(chunk, SubSeq(d, p * CHUNK_LEN + 1, n), p)
  PROVE  /\ chunk_output(chunk) = Tree(d)[n - p * CHUNK_LEN][p * CHUNK_LEN]
         /\ chunk_len(chunk) = n - p * CHUNK_LEN
         /\ chunk.counter = p
<1> DEFINE from == p * CHUNK_LEN  len == n - from
<1>1. CHUNK_LEN \in Nat \ {0} /\ from \in Nat /\ Len(d) \in Nat
  BY ChunkLenFacts
<1>2. from \div CHUNK_LEN = p
  <2>1. CHUNK_LEN * p = from
    BY <1>1
  <2> HIDE DEF from
  <2> QED BY <1>1, <2>1, Quotient
<1> HIDE DEF from
<1>3. len \in 0 .. Len(d) /\ from \in 0 .. Len(d) - len /\ len <= CHUNK_LEN /\ from + len = n
  BY <1>1 DEF from
<1>4. SubSeq(d, from + 1, n) \in Seq(S) /\ Len(SubSeq(d, from + 1, n)) = n - from
  <2>1. from <= n
    BY DEF from
  <2> QED BY <1>1, <2>1, PartFacts
<1>5. Tree(d)[len][from] = ChunkNode(SubSeq(d, from + 1, from + len), from \div CHUNK_LEN)
  <2> HIDE DEF len
  <2> QED BY <1>3, TreeFacts
<1>6. Tree(d)[len][from] = ChunkNode(SubSeq(d, from + 1, n), p)
  BY <1>2, <1>3, <1>5
<1>7. IsChunkOf(chunk, SubSeq(d, from + 1, n), p)
  BY DEF from
<1> DEFINE s == SubSeq(d, from + 1, n)
<1>8. s \in Seq(S) /\ IsChunkOf(chunk, s, p) /\ Len(s) = n - from
  BY <1>4, <1>7
<1>9. Tree(d)[len][from] = ChunkNode(s, p)
  BY <1>6
<1> HIDE DEF s, len
<1>10. chunk_output(chunk) = ChunkNode(s, p) /\ chunk_len(chunk) = Len(s)
  BY <1>8, ChunkIs
<1>11. chunk.counter = p
  BY <1>8, ChunkIs
<1> QED BY <1>8, <1>9, <1>10, <1>11 DEF from, len

\* A whole chunk hashed on its own gives its node.
LEMMA ChunkAt ==
  ASSUME NEW S, NEW d \in Seq(S), NEW p \in Nat, (p + 1) * CHUNK_LEN <= Len(d)
  PROVE  chunk_cv(SubSeq(d, p * CHUNK_LEN + 1, (p + 1) * CHUNK_LEN), p) = At(d, p, 1)
<1> DEFINE from == p * CHUNK_LEN  n == (p + 1) * CHUNK_LEN  s == SubSeq(d, from + 1, n)
           ch == chunk_update(new_chunk(p), s)
<1>1. CHUNK_LEN \in Nat \ {0} /\ from \in Nat /\ Len(d) \in Nat /\ n = from + CHUNK_LEN /\ n \in Nat
  BY ChunkLenFacts
<1>2. s \in Seq(S)
  <2>1. from <= n /\ n <= Len(d)
    BY <1>1
  <2> HIDE DEF from, n
  <2> QED BY <1>1, <2>1, PartFacts
<1>3. IsChunkOf(ch, s, p)
  <2>1. IsChunkOf(new_chunk(p), <<>>, p)
    BY NewChunk
  <2>2. <<>> \in Seq(S) /\ <<>> \o s = s
    BY <1>2, ConcatEmptySeq
  <2> HIDE DEF s
  <2>3. IsChunkOf(ch, <<>> \o s, p)
    BY <1>2, <2>1, <2>2, ChunkUpdate
  <2> QED BY <2>2, <2>3
<1>4. chunk_output(ch) = Tree(d)[n - from][from]
  <2>1. /\ p * CHUNK_LEN <= n /\ n <= p * CHUNK_LEN + CHUNK_LEN /\ n <= Len(d)
        /\ IsChunkOf(ch, SubSeq(d, p * CHUNK_LEN + 1, n), p)
    BY <1>1, <1>3
  <2>2. n \in Nat
    BY <1>1
  <2> HIDE DEF n, ch
  <2>3. chunk_output(ch) = Tree(d)[n - p * CHUNK_LEN][p * CHUNK_LEN]
    BY <2>1, <2>2, ChunkOutputIs
  <2> QED BY <2>3
<1>5. n - from = 1 * CHUNK_LEN
  BY <1>1
<1>6. chunk_cv(s, p) = chaining_value(chunk_output(ch))
  BY DEF chunk_cv
<1> QED BY <1>4, <1>5, <1>6 DEF At

\* s is a sequence of something.
IsSomeSeq(s) == \E T : s \in Seq(T)

\* The elements of a layer.
LEMMA LayerFacts ==
  ASSUME NEW d, NEW p, NEW r, NEW m \in Nat
  PROVE  /\ Len(Layer(d, p, r, m)) = m
         /\ \A k \in 1 .. m : Layer(d, p, r, m)[k] = At(d, p + (k - 1) * r, r)
         /\ DOMAIN Layer(d, p, r, m) = 1 .. m
         /\ IsSomeSeq(Layer(d, p, r, m))
<1> DEFINE l == [k \in 1 .. m |-> At(d, p + (k - 1) * r, r)]
           T == {At(d, p + (k - 1) * r, r) : k \in 1 .. m}
<1>1. \A k \in 1 .. m : l[k] = At(d, p + (k - 1) * r, r)
  BY Zenon
<1>2. l \in [1 .. m -> T]
  <2>1. \A k \in 1 .. m : At(d, p + (k - 1) * r, r) \in T
    BY Zenon
  <2> HIDE DEF T
  <2> QED BY <2>1, Zenon
<1> HIDE DEF l, T
<1>3. l \in Seq(T) /\ Len(l) = m /\ DOMAIN l = 1 .. m
  BY <1>2
<1> QED BY <1>1, <1>3, Zenon DEF Layer, l, T, IsSomeSeq

\* The parents of a layer are the layer above it.
LEMMA ParentsOfLayer ==
  ASSUME NEW S, NEW d \in Seq(S), NEW p \in Nat, NEW r \in Nat, IsPowerOfTwo(r), NEW m \in Nat,
         (p + (2 * r) * m) * CHUNK_LEN <= Len(d)
  PROVE  compress_parents_parallel(Layer(d, p, r, 2 * m)) = Layer(d, p, 2 * r, m)
<1> DEFINE l == Layer(d, p, r, 2 * m)
<1>1. Len(l) = 2 * m /\ \A k \in 1 .. 2 * m : l[k] = At(d, p + (k - 1) * r, r)
  <2>1. ASSUME NEW n \in Nat
        PROVE  Len(Layer(d, p, r, n)) = n
               /\ \A k \in 1 .. n : Layer(d, p, r, n)[k] = At(d, p + (k - 1) * r, r)
    BY LayerFacts
  <2>2. 2 * m \in Nat
    OBVIOUS
  <2> QED BY <2>1, <2>2, Zenon
<1>2. (Len(l) + 1) \div 2 = m
  BY <1>1
<1> HIDE DEF l
<1>3. ASSUME NEW i \in 1 .. m
      PROVE  /\ 2 * i <= Len(l)
             /\ chaining_value(parent_output(l[2 * i - 1], l[2 * i])) = At(d, p + (i - 1) * (2 * r), 2 * r)
  <2> DEFINE q == p + (i - 1) * (2 * r)
  <2>1. i \in Nat /\ 2 * i - 1 \in 1 .. 2 * m /\ 2 * i \in 1 .. 2 * m /\ i - 1 \in Nat
    OBVIOUS
  <2>2. q \in Nat /\ p + ((2 * i - 1) - 1) * r = q /\ p + (2 * i - 1) * r = q + r
    <3>1. (i - 1) * (2 * r) = ((2 * i - 1) - 1) * r
      BY <2>1
    <3>2. (2 * i - 1) * r = ((2 * i - 1) - 1) * r + r
      BY <2>1
    <3>3. (i - 1) * (2 * r) \in Nat
      BY <2>1
    <3> QED BY <3>1, <3>2, <3>3
  <2>3. (q + 2 * r) * CHUNK_LEN <= Len(d)
    <3>1. q + 2 * r <= p + (2 * r) * m
      <4>1. (i - 1) * (2 * r) + 2 * r = i * (2 * r) /\ i * (2 * r) <= m * (2 * r)
            /\ m * (2 * r) = (2 * r) * m
        <5>1. ((i - 1) + 1) * (2 * r) = (i - 1) * (2 * r) + 1 * (2 * r) /\ (i - 1) + 1 = i
          <6>1. 2 * r \in Nat /\ 1 \in Nat
            OBVIOUS
          <6> QED BY <2>1, <6>1, Products
        <5>2. i <= m /\ 2 * r \in Nat
          BY <2>1
        <5> QED BY <2>1, <5>1, <5>2, Products
      <4>2. (i - 1) * (2 * r) \in Nat /\ i * (2 * r) \in Nat /\ m * (2 * r) \in Nat
        BY <2>1
      <4> QED BY <4>1, <4>2
    <3>2. q + 2 * r \in Nat /\ p + (2 * r) * m \in Nat /\ CHUNK_LEN \in Nat
      <4>1. (2 * r) * m \in Nat
        OBVIOUS
      <4> HIDE DEF q
      <4> QED BY <2>2, <4>1, ChunkLenFacts
    <3> HIDE DEF q
    <3>3. (q + 2 * r) * CHUNK_LEN <= (p + (2 * r) * m) * CHUNK_LEN
      BY <3>1, <3>2, Products
    <3>4. Len(d) \in Nat /\ (q + 2 * r) * CHUNK_LEN \in Nat /\ (p + (2 * r) * m) * CHUNK_LEN \in Nat
      BY <3>2, Products
    <3> QED BY <3>3, <3>4
  <2>4. l[2 * i - 1] = At(d, q, r) /\ l[2 * i] = At(d, q + r, r)
    <3>1. l[2 * i - 1] = At(d, p + ((2 * i - 1) - 1) * r, r) /\ l[2 * i] = At(d, p + (2 * i - 1) * r, r)
      BY <1>1, <2>1
    <3> QED BY <2>2, <3>1
  <2> HIDE DEF q
  <2>5. At(d, q, 2 * r) = chaining_value(parent_output(At(d, q, r), At(d, q + r, r)))
    BY <2>2, <2>3, TwiceAsWide
  <2> QED BY <1>1, <2>1, <2>4, <2>5 DEF q
<1>4. compress_parents_parallel(l) =
        [i \in 1 .. m |-> IF 2 * i <= Len(l) THEN chaining_value(parent_output(l[2 * i - 1], l[2 * i]))
                                             ELSE l[2 * i - 1]]
  BY <1>2 DEF compress_parents_parallel
<1>5. compress_parents_parallel(l) = [i \in 1 .. m |-> At(d, p + (i - 1) * (2 * r), 2 * r)]
  BY <1>3, <1>4
<1> QED BY <1>5 DEF l, Layer

\* The facts about numbers of bytes in so many chunks.
LEMMA ChunkProducts ==
  /\ \A p \in Nat : p * CHUNK_LEN \in Nat
  /\ \A p, q \in Nat : (p + q) * CHUNK_LEN = p * CHUNK_LEN + q * CHUNK_LEN
  /\ \A p, q \in Nat : p <= q => p * CHUNK_LEN <= q * CHUNK_LEN
  /\ \A p, q \in Nat : p < q => p * CHUNK_LEN + CHUNK_LEN <= q * CHUNK_LEN
  /\ 1 * CHUNK_LEN = CHUNK_LEN /\ 0 * CHUNK_LEN = 0
<1>1. CHUNK_LEN \in Nat
  BY ChunkLenFacts
<1>2. ASSUME NEW p \in Nat, NEW q \in Nat, p < q
      PROVE  p * CHUNK_LEN + CHUNK_LEN <= q * CHUNK_LEN
  <2>1. p + 1 \in Nat /\ p + 1 <= q /\ 1 * CHUNK_LEN = CHUNK_LEN /\ 1 \in Nat
    BY <1>1, <1>2
  <2>2. (p + 1) * CHUNK_LEN <= q * CHUNK_LEN /\ (p + 1) * CHUNK_LEN = p * CHUNK_LEN + 1 * CHUNK_LEN
    BY <1>1, <2>1, Products
  <2> QED BY <2>1, <2>2
<1>3. 1 * CHUNK_LEN = CHUNK_LEN /\ 0 * CHUNK_LEN = 0
  BY <1>1
<1> QED BY <1>1, <1>2, <1>3, Products

\* Chunks hashed side by side give the lowest layer.
LEMMA ChunksLayer ==
  ASSUME NEW S, NEW d \in Seq(S), NEW p \in Nat, NEW m \in Nat, (p + m) * CHUNK_LEN <= Len(d)
  PROVE  compress_chunks_parallel(SubSeq(d, p * CHUNK_LEN + 1, (p + m) * CHUNK_LEN), p) = Layer(d, p, 1, m)
<1> DEFINE C == CHUNK_LEN  from == p * C  n == (p + m) * C  s == SubSeq(d, from + 1, n)
           Piece(i) == SubSeq(d, (p + (i - 1)) * C + 1, ((p + (i - 1)) + 1) * C)
<1>1. /\ C \in Nat \ {0} /\ from \in Nat /\ n \in Nat /\ n = from + m * C /\ m * C \in Nat
      /\ n <= Len(d) /\ from <= n /\ Len(d) \in Nat
  <2>1. p + m \in Nat
    OBVIOUS
  <2>2. (p + m) * C \in Nat /\ p * C \in Nat /\ m * C \in Nat /\ (p + m) * C = p * C + m * C
    BY <2>1, ChunkProducts
  <2> QED BY <2>2, ChunkLenFacts
<1>2. s \in Seq(S) /\ Len(s) = m * C
  <2> HIDE DEF from, n
  <2>1. s \in Seq(S) /\ Len(s) = n - from
    BY <1>1, PartFacts
  <2> QED BY <1>1, <2>1
<1>3. (Len(s) + C - 1) \div C = m
  <2> DEFINE l == m * C + C - 1
  <2>1. l \in Nat /\ C * m <= l /\ l < C * m + C
    <3>1. C * m = m * C
      BY <1>1
    <3> QED BY <1>1, <3>1
  <2>2. l \div C = m
    <3> HIDE DEF l
    <3> QED BY <1>1, <2>1, Quotient
  <2> HIDE DEF s
  <2> QED BY <1>2, <2>2
<1>4. ASSUME NEW i \in 1 .. m
      PROVE  SubSeq(s, C * (i - 1) + 1, SmallerOf(C * i, Len(s))) = Piece(i) /\ chunk_cv(Piece(i), p + i - 1) = At(d, p + (i - 1) * 1, 1)
  <2> DEFINE j == i - 1
  <2>1. j \in Nat /\ i = j + 1 /\ i <= m /\ i \in Nat
    OBVIOUS
  <2>2. /\ C * i = i * C /\ C * j = j * C /\ j * C \in Nat /\ i * C \in Nat
        /\ i * C = j * C + C /\ i * C <= m * C
        /\ (p + j) * C = p * C + j * C /\ ((p + j) + 1) * C = p * C + i * C
    <3>1. i * C = j * C + 1 * C /\ 1 * C = C
      BY <2>1, ChunkProducts
    <3>2. ((p + j) + 1) * C = (p + j) * C + 1 * C /\ (p + j) * C = p * C + j * C
      <4>1. p + j \in Nat /\ 1 \in Nat
        BY <2>1
      <4> HIDE DEF j
      <4> QED BY <2>1, <4>1, ChunkProducts
    <3>3. i * C <= m * C /\ j * C \in Nat /\ i * C \in Nat
      BY <2>1, ChunkProducts
    <3>4. C * i = i * C /\ C * j = j * C
      BY <1>1, <2>1, Products
    <3> HIDE DEF j
    <3> QED BY <1>1, <3>1, <3>2, <3>3, <3>4
  <2>3. SmallerOf(C * i, Len(s)) = i * C
    BY <1>2, <2>2 DEF SmallerOf
  <2>4. SubSeq(s, j * C + 1, i * C) = SubSeq(d, from + j * C + 1, from + i * C)
    <3>1. j * C <= i * C /\ from + i * C <= n
      BY <1>1, <2>2
    <3> HIDE DEF from, n
    <3>2. ASSUME NEW a \in Nat, NEW b \in Nat, a <= b, from + b <= n
          PROVE  SubSeq(SubSeq(d, from + 1, n), a + 1, b) = SubSeq(d, from + a + 1, from + b)
      BY <1>1, <3>2, PartOfPart
    <3> HIDE DEF j
    <3> QED BY <2>2, <3>1, <3>2
  <2>5. SubSeq(s, j * C + 1, i * C) = Piece(i)
    BY <2>2, <2>4
  <2>6. ((p + j) + 1) * C <= Len(d) /\ p + j \in Nat
    <3> HIDE DEF j
    <3> QED BY <1>1, <2>1, <2>2 DEF n, from
  <2>7. chunk_cv(SubSeq(d, (p + j) * C + 1, ((p + j) + 1) * C), p + j) = At(d, p + j, 1)
    <3> HIDE DEF j
    <3> QED BY <2>6, ChunkAt
  <2>8. (i - 1) * 1 = j
    OBVIOUS
  <2>9. SubSeq(s, C * (i - 1) + 1, SmallerOf(C * i, Len(s))) = Piece(i)
    <3> HIDE DEF s, Piece
    <3> QED BY <2>2, <2>3, <2>5
  <2> QED BY <2>7, <2>8, <2>9
<1> HIDE DEF s
<1>5. Parts(s, C) = [i \in 1 .. m |-> Piece(i)]
  <2> HIDE DEF Piece
  <2> QED BY <1>3, <1>4 DEF Parts
<1>6. compress_chunks_parallel(s, p) = [i \in 1 .. m |-> At(d, p + (i - 1) * 1, 1)]
  <2> HIDE DEF Piece
  <2> QED BY <1>4, <1>5 DEF compress_chunks_parallel
<1> QED BY <1>6 DEF Layer, s

\* Two layers of as many values as are hashed at a time are joined to the one above.
LEMMA JoinWide ==
  ASSUME NEW S, NEW d \in Seq(S), NEW p \in Nat, NEW r \in Nat, IsPowerOfTwo(r), NEW m \in Nat, m >= 2,
         (p + (2 * r) * m) * CHUNK_LEN <= Len(d), NEW left_len,
         (IF left_len > CHUNK_LEN /\ simd_degree = 1 THEN 2 ELSE simd_degree) = m
  PROVE  JoinHalves(Layer(d, p, r, m), Layer(d, p + r * m, r, m), left_len) = Layer(d, p, 2 * r, m)
<1> DEFINE left == Layer(d, p, r, m)  right == Layer(d, p + r * m, r, m)  all == Layer(d, p, r, 2 * m)
           cv_array == [i \in 1 .. m + m |-> CASE i <= m -> left[i] [] i > m -> right[i - m] [] OTHER -> <<"unset">>]
<1>1. /\ Len(left) = m /\ \A k \in 1 .. m : left[k] = At(d, p + (k - 1) * r, r)
      /\ Len(right) = m /\ \A k \in 1 .. m : right[k] = At(d, (p + r * m) + (k - 1) * r, r)
  BY LayerFacts
<1>2. IsSomeSeq(all) /\ all = [k \in 1 .. 2 * m |-> At(d, p + (k - 1) * r, r)] /\ Len(all) = 2 * m
  <2>1. ASSUME NEW n \in Nat PROVE IsSomeSeq(Layer(d, p, r, n)) /\ Len(Layer(d, p, r, n)) = n
    BY LayerFacts
  <2>2. 2 * m \in Nat
    OBVIOUS
  <2>3. IsSomeSeq(all) /\ Len(all) = 2 * m
    BY <2>1, <2>2, Zenon
  <2> QED BY <2>3 DEF Layer
<1> HIDE DEF left, right
<1>3. ASSUME NEW i \in 1 .. 2 * m
      PROVE  cv_array[i] = At(d, p + (i - 1) * r, r)
  <2>1. CASE i <= m
    <3>1. cv_array[i] = left[i] /\ i \in 1 .. m
      BY <2>1
    <3> QED BY <1>1, <3>1
  <2>2. CASE i > m
    <3>1. cv_array[i] = right[i - m] /\ i - m \in 1 .. m
      BY <2>2
    <3>2. (p + r * m) + ((i - m) - 1) * r = p + (i - 1) * r
      <4> DEFINE j == (i - m) - 1
      <4>1. j \in Nat /\ i - 1 = m + j
        BY <2>2
      <4> HIDE DEF j
      <4>2. (m + j) * r = m * r + j * r /\ m * r = r * m /\ m * r \in Nat /\ j * r \in Nat
        BY <4>1, Products
      <4>3. (p + r * m) + j * r = p + (m + j) * r
        BY <4>2
      <4> QED BY <4>1, <4>3 DEF j
    <3> QED BY <1>1, <3>1, <3>2
  <2>3. i <= m \/ i > m
    OBVIOUS
  <2> QED BY <2>1, <2>2, <2>3
<1>4. cv_array = all
  <2>1. 1 .. m + m = 1 .. 2 * m
    OBVIOUS
  <2>2. cv_array = [i \in 1 .. 2 * m |-> cv_array[i]]
    BY <2>1
  <2> HIDE DEF all, cv_array
  <2> QED BY <1>2, <1>3, <2>2
<1>5. SubSeq(all, 1, Len(left) + Len(right)) = all
  <2>1. Len(left) + Len(right) = Len(all)
    BY <1>1, <1>2
  <2>2. PICK T : all \in Seq(T)
    BY <1>2 DEF IsSomeSeq
  <2> HIDE DEF all
  <2> QED BY <2>1, <2>2, SequenceItself
<1>6. JoinHalves(left, right, left_len) = compress_parents_parallel(SubSeq(cv_array, 1, Len(left) + Len(right)))
  <2> DEFINE J(degree) ==
               IF Len(left) = 1
                 THEN SubSeq([i \in 1 .. degree + Len(right) |->
                       CASE i <= Len(left) -> left[i]
                         [] i > degree -> right[i - degree]
                         [] OTHER -> <<"unset">>], 1, 2)
                 ELSE compress_parents_parallel(
                        SubSeq([i \in 1 .. degree + Len(right) |->
                       CASE i <= Len(left) -> left[i]
                         [] i > degree -> right[i - degree]
                         [] OTHER -> <<"unset">>], 1, Len(left) + Len(right)))
  <2>1. JoinHalves(left, right, left_len) = J(IF left_len > CHUNK_LEN /\ simd_degree = 1 THEN 2 ELSE simd_degree)
    BY Zenon DEF JoinHalves
  <2>2. J(m) = compress_parents_parallel(SubSeq(cv_array, 1, Len(left) + Len(right)))
    BY <1>1
  <2> HIDE DEF J, cv_array
  <2> QED BY <2>1, <2>2
<1>7. compress_parents_parallel(all) = Layer(d, p, 2 * r, m)
  BY ParentsOfLayer
<1> HIDE DEF all, cv_array
<1>8. JoinHalves(left, right, left_len) = Layer(d, p, 2 * r, m)
  BY <1>4, <1>5, <1>6, <1>7
<1> QED BY <1>8 DEF left, right

\* Without SIMD two single values are put side by side.
LEMMA JoinSingle ==
  ASSUME NEW S, NEW d \in Seq(S), NEW p \in Nat, simd_degree = 1
  PROVE  JoinHalves(Layer(d, p, 1, 1), Layer(d, p + 1, 1, 1), CHUNK_LEN) = Layer(d, p, 1, 2)
<1> DEFINE left == Layer(d, p, 1, 1)  right == Layer(d, p + 1, 1, 1)  all == Layer(d, p, 1, 2)
           cv_array == [i \in 1 .. 1 + 1 |-> CASE i <= 1 -> left[i] [] i > 1 -> right[i - 1] [] OTHER -> <<"unset">>]
<1>1. /\ Len(left) = 1 /\ left[1] = At(d, p, 1)
      /\ Len(right) = 1 /\ right[1] = At(d, p + 1, 1)
  <2>1. ASSUME NEW q \in Nat PROVE Len(Layer(d, q, 1, 1)) = 1 /\ Layer(d, q, 1, 1)[1] = At(d, q, 1)
    <3>1. Len(Layer(d, q, 1, 1)) = 1 /\ \A k \in 1 .. 1 : Layer(d, q, 1, 1)[k] = At(d, q + (k - 1) * 1, 1)
      <4>1. ASSUME NEW n \in Nat
            PROVE  Len(Layer(d, q, 1, n)) = n
                   /\ \A k \in 1 .. n : Layer(d, q, 1, n)[k] = At(d, q + (k - 1) * 1, 1)
        BY LayerFacts
      <4>2. 1 \in Nat
        OBVIOUS
      <4> QED BY <4>1, <4>2, Zenon
    <3>2. q + (1 - 1) * 1 = q /\ 1 \in 1 .. 1
      OBVIOUS
    <3> QED BY <3>1, <3>2
  <2>2. p + 1 \in Nat
    OBVIOUS
  <2> QED BY <2>1, <2>2
<1>2. IsSomeSeq(all) /\ all = [k \in 1 .. 2 |-> At(d, p + (k - 1) * 1, 1)] /\ Len(all) = 2
  <2>1. IsSomeSeq(all) /\ Len(all) = 2
    <3>1. ASSUME NEW n \in Nat PROVE IsSomeSeq(Layer(d, p, 1, n)) /\ Len(Layer(d, p, 1, n)) = n
      BY LayerFacts
    <3>2. 2 \in Nat
      OBVIOUS
    <3> QED BY <3>1, <3>2, Zenon
  <2> QED BY <2>1 DEF Layer
<1> HIDE DEF left, right
<1>3. ASSUME NEW i \in 1 .. 2
      PROVE  cv_array[i] = At(d, p + (i - 1) * 1, 1)
  <2>1. CASE i = 1
    <3>1. cv_array[1] = left[1] /\ p + (1 - 1) * 1 = p
      OBVIOUS
    <3> QED BY <1>1, <2>1, <3>1
  <2>2. CASE i = 2
    <3>1. cv_array[2] = right[1] /\ p + (2 - 1) * 1 = p + 1
      OBVIOUS
    <3> QED BY <1>1, <2>2, <3>1
  <2> QED BY <2>1, <2>2
<1>4. cv_array = all
  <2>1. 1 .. 1 + 1 = 1 .. 2
    OBVIOUS
  <2>2. cv_array = [i \in 1 .. 2 |-> cv_array[i]]
    BY <2>1
  <2> HIDE DEF all, cv_array
  <2> QED BY <1>2, <1>3, <2>2
<1>5. SubSeq(all, 1, 2) = all
  <2>2. PICK T : all \in Seq(T)
    BY <1>2 DEF IsSomeSeq
  <2> HIDE DEF all
  <2> QED BY <1>2, <2>2, SequenceItself
<1>6. JoinHalves(left, right, CHUNK_LEN) = SubSeq(cv_array, 1, 2)
  <2> DEFINE J(degree) ==
               IF Len(left) = 1
                 THEN SubSeq([i \in 1 .. degree + Len(right) |->
                       CASE i <= Len(left) -> left[i]
                         [] i > degree -> right[i - degree]
                         [] OTHER -> <<"unset">>], 1, 2)
                 ELSE compress_parents_parallel(
                        SubSeq([i \in 1 .. degree + Len(right) |->
                       CASE i <= Len(left) -> left[i]
                         [] i > degree -> right[i - degree]
                         [] OTHER -> <<"unset">>], 1, Len(left) + Len(right)))
  <2>1. JoinHalves(left, right, CHUNK_LEN) = J(IF CHUNK_LEN > CHUNK_LEN /\ simd_degree = 1 THEN 2 ELSE simd_degree)
    BY Zenon DEF JoinHalves
  <2>2. J(1) = SubSeq(cv_array, 1, 2)
    BY <1>1
  <2>3. ~(CHUNK_LEN > CHUNK_LEN)
    BY ChunkLenFacts
  <2> HIDE DEF J, cv_array
  <2>4. (IF CHUNK_LEN > CHUNK_LEN /\ simd_degree = 1 THEN 2 ELSE simd_degree) = 1
    BY <2>3
  <2> QED BY <2>1, <2>2, <2>4
<1> HIDE DEF all, cv_array
<1>7. JoinHalves(left, right, CHUNK_LEN) = all
  BY <1>4, <1>5, <1>6
<1> QED BY <1>7 DEF left, right, all

-----------------------------------------------------------------------------
(* Subtrees hashed several chunks at a time                                *)

\* The layers over len bytes, one for each place.
WideRow(f, input, counter, len) ==
  [from \in 0 .. Len(input) - len |->
     IF len <= simd_degree * CHUNK_LEN
       THEN compress_chunks_parallel(SubSeq(input, from + 1, from + len), counter + from \div CHUNK_LEN)
       ELSE LET left_len == left_subtree_len(len)
            IN JoinHalves(f[left_len][from], f[len - left_len][from + left_len], left_len)]

\* A row of layers depends on the shorter rows only.
LEMMA WideRowSame ==
  ASSUME NEW f, NEW g, NEW input, NEW counter, simd_degree \in Nat \ {0},
         NEW k \in Nat, \A j \in 0 .. (k - 1) : f[j] = g[j]
  PROVE  WideRow(f, input, counter, k) = WideRow(g, input, counter, k)
<1>1. CASE k <= simd_degree * CHUNK_LEN
  BY <1>1 DEF WideRow
<1>2. CASE ~(k <= simd_degree * CHUNK_LEN)
  <2>1. PICK c \in Nat \ {0} : IsPowerOfTwo(c) /\ c * CHUNK_LEN < k /\ k <= 2 * (c * CHUNK_LEN)
    <3>1. CHUNK_LEN <= simd_degree * CHUNK_LEN /\ simd_degree * CHUNK_LEN \in Nat /\ CHUNK_LEN \in Nat
      <4>1. 1 \in Nat /\ 1 <= simd_degree
        OBVIOUS
      <4> QED BY <4>1, ChunkProducts, ChunkLenFacts
    <3>2. CHUNK_LEN < k
      BY <1>2, <3>1
    <3> QED BY <3>2, LeftLenExists
  <2>2. left_subtree_len(k) = c * CHUNK_LEN /\ c * CHUNK_LEN \in Nat \ {0}
    BY <2>1, LeftLenIs, ChunkLenFacts
  <2> DEFINE l == left_subtree_len(k)
  <2>3. l \in 0 .. (k - 1) /\ k - l \in 0 .. (k - 1)
    BY <2>1, <2>2
  <2> HIDE DEF l
  <2>4. f[l] = g[l] /\ f[k - l] = g[k - l]
    BY <2>3
  <2>5. f[left_subtree_len(k)] = g[left_subtree_len(k)] /\ f[k - left_subtree_len(k)] = g[k - left_subtree_len(k)]
    BY <2>4 DEF l
  <2> QED BY <1>2, <2>5, Zenon DEF WideRow
<1> QED BY <1>1, <1>2

\* The layers of an input.
IsWide(f, input, counter) == f = [i \in 0 .. Len(input) |-> WideRow(f, input, counter, i)]

\* The recursion of compress_subtree_wide defines a function.
LEMMA WideExists ==
  ASSUME NEW S, NEW input \in Seq(S), NEW counter, simd_degree \in Nat \ {0}
  PROVE  \E f : IsWide(f, input, counter)
<1> DEFINE Has(k) == \E f : f = [i \in 0 .. k |-> WideRow(f, input, counter, i)]
           Without == {k \in Nat : ~Has(k + 0 - 1)}
<1>1. Len(input) \in Nat
  OBVIOUS
<1>2. Without = {}
  <2>1. SUFFICES ASSUME Without # {} PROVE FALSE
    OBVIOUS
  <2>2. PICK m \in Without : \A j \in Without : m <= j
    <3>1. Without \in SUBSET Nat
      OBVIOUS
    <3> HIDE DEF Without
    <3> QED BY <2>1, <3>1, LeastNumber
  <2> DEFINE k == m + 0 - 1
  <2>3. m \in Nat /\ k \in Int /\ ~Has(k)
    OBVIOUS
  <2>4. m # 0
    <3>1. ASSUME m = 0 PROVE FALSE
      <4> DEFINE g == [i \in 0 .. k |-> 0]
      <4>1. 0 .. k = {}
        BY <3>1
      <4>2. g = [i \in 0 .. k |-> WideRow(g, input, counter, i)]
        <5> HIDE DEF k
        <5> QED BY <4>1
      <4>3. Has(k)
        <5> HIDE DEF g, k
        <5> QED BY <4>2
      <4> QED BY <2>3, <4>3
    <3> QED BY <3>1
  <2>5. PICK f : f = [i \in 0 .. (k - 1) |-> WideRow(f, input, counter, i)]
    <3>1. m - 1 \in Nat /\ ~(m <= m - 1) /\ (m - 1) + 0 - 1 = k - 1
      BY <2>3, <2>4
    <3>2. Has((m - 1) + 0 - 1)
      <4> HIDE DEF Has
      <4> QED BY <2>2, <3>1
    <3>3. Has(k - 1)
      <4> HIDE DEF Has, k
      <4> QED BY <3>1, <3>2
    <3> QED BY <3>3
  <2>6. k \in Nat /\ k >= 0
    BY <2>3, <2>4
  <2> HIDE DEF k
  <2> DEFINE g == [i \in 0 .. k |-> IF i = k THEN WideRow(f, input, counter, k) ELSE f[i]]
  <2>7. \A i \in 0 .. (k - 1) : g[i] = f[i] /\ f[i] = WideRow(f, input, counter, i)
    <3>1. \A i \in 0 .. (k - 1) : g[i] = f[i]
      BY <2>6
    <3> HIDE DEF g
    <3>2. \A i \in 0 .. (k - 1) : f[i] = WideRow(f, input, counter, i)
      BY <2>5
    <3> QED BY <3>1, <3>2
  <2>8. g[k] = WideRow(f, input, counter, k)
    BY <2>6
  <2>9. g = [i \in 0 .. k |-> g[i]]
    OBVIOUS
  <2> HIDE DEF g
  <2>10. ASSUME NEW i \in 0 .. k
        PROVE  g[i] = WideRow(g, input, counter, i)
    <3>1. i \in Nat /\ \A j \in 0 .. (i - 1) : f[j] = g[j]
      BY <2>6, <2>7
    <3>2. WideRow(f, input, counter, i) = WideRow(g, input, counter, i)
      BY <3>1, WideRowSame
    <3>3. i = k \/ i \in 0 .. (k - 1)
      BY <2>6
    <3> QED BY <2>7, <2>8, <3>2, <3>3
  <2>11. g = [i \in 0 .. k |-> WideRow(g, input, counter, i)]
    BY <2>9, <2>10
  <2>12. Has(k)
    BY <2>11
  <2> QED BY <2>3, <2>12
<1>3. Has(Len(input))
  <2>1. Len(input) - 0 + 1 \in Nat /\ (Len(input) - 0 + 1) + 0 - 1 = Len(input)
    BY <1>1
  <2> HIDE DEF Has
  <2> QED BY <1>2, <2>1
<1> QED BY <1>3 DEF IsWide

\* How many values there are in the layer over p chunks.
Width(p) == IF p <= simd_degree THEN p ELSE IF simd_degree = 1 THEN 2 ELSE simd_degree

\* wide, over n chunks of d after the first b, has layers of the tree of d.
WideAt(wide, d, b, n, p) ==
  \E r \in Nat : /\ IsPowerOfTwo(r)
                 /\ r * Width(p) = p
                 /\ \A q \in Nat : q + p <= n =>
                      wide[p * CHUNK_LEN][q * CHUNK_LEN] = Layer(d, b + q, r, Width(p))

\* One step of the recursion, for p chunks after the first q.
LEMMA WideRowIs ==
  ASSUME NEW S, NEW d \in Seq(S), NEW b \in Nat, NEW n \in Nat, (b + n) * CHUNK_LEN <= Len(d),
         NEW wide, IsWide(wide, SubSeq(d, b * CHUNK_LEN + 1, (b + n) * CHUNK_LEN), b),
         NEW p \in Nat, NEW q \in Nat, q + p <= n
  PROVE  wide[p * CHUNK_LEN][q * CHUNK_LEN] =
           IF p * CHUNK_LEN <= simd_degree * CHUNK_LEN
             THEN compress_chunks_parallel(SubSeq(d, (b + q) * CHUNK_LEN + 1, ((b + q) + p) * CHUNK_LEN), b + q)
             ELSE LET left_len == left_subtree_len(p * CHUNK_LEN)
                  IN JoinHalves(wide[left_len][q * CHUNK_LEN],
                                wide[p * CHUNK_LEN - left_len][q * CHUNK_LEN + left_len], left_len)
<1> DEFINE C == CHUNK_LEN  first == b * C  last == (b + n) * C  len == p * C  from == q * C
           input == SubSeq(d, first + 1, last)
<1>1. /\ C \in Nat \ {0} /\ Len(d) \in Nat /\ first \in Nat /\ last \in Nat /\ len \in Nat /\ from \in Nat
      /\ last <= Len(d) /\ first + from + len <= last
      /\ (b + q) * C = first + from /\ ((b + q) + p) * C = first + (from + len)
  <2>1. ((b + q) + p) * C = (b + q) * C + p * C /\ (b + q) * C = b * C + q * C /\ ((b + q) + p) * C <= last
        /\ b * C \in Nat /\ p * C \in Nat /\ q * C \in Nat /\ last \in Nat
    <3>1. b + q \in Nat /\ (b + q) + p \in Nat /\ (b + q) + p <= b + n /\ b + n \in Nat
      OBVIOUS
    <3> QED BY <3>1, ChunkProducts
  <2> QED BY <2>1, ChunkLenFacts
<1>2. Len(input) = last - first
  <2>1. first <= last
    BY <1>1
  <2> HIDE DEF first, last
  <2>2. input \in Seq(S) /\ Len(input) = last - first
    BY <1>1, <2>1, PartFacts
  <2> QED BY <2>2
<1>3. from \div C = q
  <2>1. C * q = from
    BY <1>1
  <2>2. C \in Nat \ {0} /\ from \in Nat
    BY <1>1
  <2> HIDE DEF from, first, last, len
  <2> QED BY <2>1, <2>2, Quotient, SMTT(40)
<1>4. SubSeq(input, from + 1, from + len) = SubSeq(d, (b + q) * C + 1, ((b + q) + p) * C)
  <2> HIDE DEF first, last, from, len
  <2>1. ASSUME NEW i \in Nat, NEW j \in Nat, i <= j, first + j <= last
        PROVE  SubSeq(SubSeq(d, first + 1, last), i + 1, j) = SubSeq(d, first + i + 1, first + j)
    <3>1. first <= last
      BY <1>1
    <3> QED BY <1>1, <2>1, <3>1, PartOfPart
  <2>2. from + len \in Nat /\ from <= from + len /\ first + (from + len) <= last
    BY <1>1
  <2>3. SubSeq(input, from + 1, from + len) = SubSeq(d, first + from + 1, first + (from + len))
    BY <1>1, <2>1, <2>2
  <2> QED BY <1>1, <2>3
<1>5. len \in 0 .. Len(input) /\ from \in 0 .. Len(input) - len
  <2> HIDE DEF first, last, len, from, input
  <2> QED BY <1>1, <1>2
<1>6. wide[len] = WideRow(wide, input, b, len)
  <2> HIDE DEF len
  <2> QED BY <1>5 DEF IsWide
<1> HIDE DEF len, from, input
<1>7. wide[len][from] =
           IF len <= simd_degree * CHUNK_LEN
             THEN compress_chunks_parallel(SubSeq(input, from + 1, from + len), b + from \div CHUNK_LEN)
             ELSE LET left_len == left_subtree_len(len)
                  IN JoinHalves(wide[left_len][from], wide[len - left_len][from + left_len], left_len)
  BY <1>5, <1>6 DEF WideRow
<1>8. wide[len][from] =
           IF len <= simd_degree * CHUNK_LEN
             THEN compress_chunks_parallel(SubSeq(d, (b + q) * C + 1, ((b + q) + p) * C), b + q)
             ELSE LET left_len == left_subtree_len(len)
                  IN JoinHalves(wide[left_len][from], wide[len - left_len][from + left_len], left_len)
  BY <1>3, <1>4, <1>7
<1> QED BY <1>8 DEF len, from

\* What the recursion gives for a power of two of chunks is a layer of the tree.
LEMMA WideLayers ==
  ASSUME NEW S, NEW d \in Seq(S), NEW b \in Nat, NEW n \in Nat, (b + n) * CHUNK_LEN <= Len(d),
         simd_degree \in Nat, IsPowerOfTwo(simd_degree),
         NEW wide, IsWide(wide, SubSeq(d, b * CHUNK_LEN + 1, (b + n) * CHUNK_LEN), b),
         NEW a \in Nat, IsPowerOfTwo(a), a <= n
  PROVE  WideAt(wide, d, b, n, a)
<1> DEFINE C == CHUNK_LEN
           Wrong == {p \in Nat : IsPowerOfTwo(p) /\ p <= n /\ ~WideAt(wide, d, b, n, p)}
<1>0. simd_degree > 0 /\ C \in Nat \ {0}
  BY ChunkLenFacts DEF IsPowerOfTwo
<1>1. SUFFICES ASSUME Wrong # {} PROVE FALSE
  OBVIOUS
<1>2. PICK p \in Wrong : \A j \in Wrong : p <= j
  <2>1. Wrong \in SUBSET Nat
    OBVIOUS
  <2> HIDE DEF Wrong
  <2> QED BY <1>1, <2>1, LeastNumber
<1>3. p \in Nat /\ IsPowerOfTwo(p) /\ p <= n /\ ~WideAt(wide, d, b, n, p) /\ p > 0
  BY DEF IsPowerOfTwo
<1>4. ASSUME NEW q \in Nat, q + p <= n
      PROVE  b + q \in Nat /\ ((b + q) + p) * C <= Len(d)
  <2>1. (b + q) + p \in Nat /\ b + n \in Nat /\ (b + q) + p <= b + n
    BY <1>3, <1>4
  <2>2. ((b + q) + p) * C <= (b + n) * C /\ ((b + q) + p) * C \in Nat /\ (b + n) * C \in Nat
    BY <2>1, ChunkProducts
  <2> QED BY <2>2
<1>5. CASE p <= simd_degree
  <2>1. Width(p) = p
    BY <1>5 DEF Width
  <2>2. p * C <= simd_degree * C
    BY <1>3, <1>5, ChunkProducts
  <2>3. ASSUME NEW q \in Nat, q + p <= n
        PROVE  wide[p * C][q * C] = Layer(d, b + q, 1, p)
    <3>1. wide[p * C][q * C] =
            compress_chunks_parallel(SubSeq(d, (b + q) * C + 1, ((b + q) + p) * C), b + q)
      <4>1. wide[p * C][q * C] =
              IF p * C <= simd_degree * C
                THEN compress_chunks_parallel(SubSeq(d, (b + q) * C + 1, ((b + q) + p) * C), b + q)
                ELSE LET left_len == left_subtree_len(p * C)
                     IN JoinHalves(wide[left_len][q * C], wide[p * C - left_len][q * C + left_len], left_len)
        <5>1. ASSUME NEW x \in Nat, x + p <= n
              PROVE  wide[p * C][x * C] =
                IF p * C <= simd_degree * C
                  THEN compress_chunks_parallel(SubSeq(d, (b + x) * C + 1, ((b + x) + p) * C), b + x)
                  ELSE LET left_len == left_subtree_len(p * C)
                       IN JoinHalves(wide[left_len][x * C], wide[p * C - left_len][x * C + left_len], left_len)
          <6>1. p \in Nat
            BY <1>3
          <6> HIDE DEF Wrong
          <6> QED BY <5>1, <6>1, WideRowIs
        <5> QED BY <2>3, <5>1, Zenon
      <4> QED BY <2>2, <4>1, Zenon
    <3>2. compress_chunks_parallel(SubSeq(d, (b + q) * C + 1, ((b + q) + p) * C), b + q) = Layer(d, b + q, 1, p)
      BY <1>3, <1>4, <2>3, ChunksLayer
    <3> QED BY <3>1, <3>2
  <2>4. 1 * p = p /\ 1 \in Nat
    BY <1>3
  <2>5. WideAt(wide, d, b, n, p)
    BY <2>1, <2>3, <2>4, OneIsPowerOfTwo DEF WideAt
  <2> QED BY <1>3, <2>5
<1>6. CASE p > simd_degree
  <2>1. PICK h \in Nat \ {0} : p = 2 * h /\ IsPowerOfTwo(h) /\ h < p
    <3>1. p # 1
      BY <1>0, <1>6
    <3> QED BY <1>3, <3>1, HalfPowerOfTwo
  <2>2. WideAt(wide, d, b, n, h)
    <3>1. h \in Nat /\ h <= n /\ ~(p <= h)
      BY <1>3, <2>1
    <3>2. h \notin Wrong
      <4> HIDE DEF Wrong
      <4> QED BY <1>2, <3>1
    <3> QED BY <2>1, <3>1, <3>2
  <2>3. PICK r \in Nat : /\ IsPowerOfTwo(r)
                         /\ r * Width(h) = h
                         /\ \A q \in Nat : q + h <= n =>
                              wide[h * C][q * C] = Layer(d, b + q, r, Width(h))
    BY <2>2 DEF WideAt
  <2>4. /\ h * C \in Nat /\ p * C \in Nat /\ h * C < p * C /\ p * C = 2 * (h * C) /\ p * C - h * C = h * C
    <3>1. h * C \in Nat /\ p * C = h * C + h * C
      <4>1. p = h + h
        BY <2>1
      <4> QED BY <2>1, <4>1, ChunkProducts
    <3>2. h * C + C <= p * C
      BY <1>3, <2>1, ChunkProducts
    <3> QED BY <1>0, <3>1, <3>2
  <2>5. left_subtree_len(p * C) = h * C
    <3> DEFINE len == p * C
    <3>1. len \in Nat /\ h * C < len /\ len <= 2 * (h * C)
      BY <2>4
    <3> HIDE DEF len
    <3>2. left_subtree_len(len) = h * C
      BY <2>1, <3>1, LeftLenIs
    <3> QED BY <3>2 DEF len
  <2>6. ~(p * C <= simd_degree * C)
    <3>1. simd_degree * C + C <= p * C /\ simd_degree * C \in Nat
      BY <1>3, <1>6, ChunkProducts
    <3> QED BY <1>0, <2>4, <3>1
  <2>7. ASSUME NEW q \in Nat, q + p <= n
        PROVE  wide[p * C][q * C] = JoinHalves(Layer(d, b + q, r, Width(h)), Layer(d, (b + q) + h, r, Width(h)), h * C)
    <3>1. wide[p * C][q * C] =
            JoinHalves(wide[h * C][q * C], wide[p * C - h * C][q * C + h * C], h * C)
      BY <1>3, <2>5, <2>6, <2>7, WideRowIs
    <3>2. q * C + h * C = (q + h) * C
      BY <2>1, ChunkProducts
    <3>3. q + h <= n /\ q + h \in Nat /\ (q + h) + h <= n /\ b + (q + h) = (b + q) + h
      BY <2>1, <2>7
    <3>4. wide[h * C][q * C] = Layer(d, b + q, r, Width(h))
          /\ wide[h * C][(q + h) * C] = Layer(d, b + (q + h), r, Width(h))
      BY <2>3, <3>3
    <3> QED BY <2>4, <3>1, <3>2, <3>3, <3>4
  <2>8. CASE simd_degree = 1 /\ h = 1
    <3>1. Width(h) = 1 /\ Width(p) = 2 /\ r = 1 /\ 1 * 2 = p /\ h * C = C
      <4>1. Width(h) = 1 /\ Width(p) = 2
        BY <2>1, <2>8 DEF Width
      <4> QED BY <1>0, <2>1, <2>3, <2>8, <4>1
    <3>2. ASSUME NEW q \in Nat, q + p <= n
          PROVE  wide[p * C][q * C] = Layer(d, b + q, 1, 2)
      <4>1. wide[p * C][q * C] = JoinHalves(Layer(d, b + q, 1, 1), Layer(d, (b + q) + 1, 1, 1), C)
        BY <2>7, <2>8, <3>1, <3>2
      <4>2. JoinHalves(Layer(d, b + q, 1, 1), Layer(d, (b + q) + 1, 1, 1), C) = Layer(d, b + q, 1, 2)
        BY <1>4, <2>8, <3>2, JoinSingle
      <4> QED BY <4>1, <4>2
    <3>3. WideAt(wide, d, b, n, p)
      BY <3>1, <3>2, OneIsPowerOfTwo DEF WideAt
    <3> QED BY <1>3, <3>3
  <2>9. CASE ~(simd_degree = 1 /\ h = 1)
    <3> DEFINE m == Width(h)
    <3>1. m \in Nat /\ m >= 2 /\ Width(p) = m
          /\ (IF h * C > CHUNK_LEN /\ simd_degree = 1 THEN 2 ELSE simd_degree) = m
      <4>1. CASE simd_degree = 1
        <5>1. h >= 2 /\ h > simd_degree
          BY <2>1, <2>9, <4>1
        <5>2. 1 * C + C <= h * C /\ 1 * C = C
          <6>1. 1 \in Nat /\ 1 < h
            BY <5>1
          <6> QED BY <2>1, <6>1, ChunkProducts
        <5>3. h * C > C
          BY <1>0, <2>4, <5>2
        <5>4. Width(h) = 2 /\ Width(p) = 2
          BY <1>3, <1>6, <2>1, <4>1, <5>1 DEF Width
        <5> QED BY <4>1, <5>3, <5>4
      <4>2. CASE simd_degree # 1
        <5>1. ~(h < simd_degree)
          <6>1. SUFFICES ASSUME h < simd_degree PROVE FALSE
            OBVIOUS
          <6>2. 2 * h <= simd_degree
            BY <2>1, <6>1, NextPowerOfTwo
          <6> QED BY <1>6, <2>1, <6>2
        <5>2. Width(h) = simd_degree /\ Width(p) = simd_degree /\ simd_degree >= 2
          BY <1>0, <1>3, <1>6, <2>1, <4>2, <5>1 DEF Width
        <5> QED BY <4>2, <5>2
      <4> QED BY <4>1, <4>2
    <3> HIDE DEF m
    <3>2. r * m = h
      BY <2>3 DEF m
    <3>3. (2 * r) * m = p /\ 2 * r \in Nat /\ IsPowerOfTwo(2 * r)
      <4>1. (2 * r) * m = 2 * (r * m)
        <5>1. 2 \in Nat
          OBVIOUS
        <5> QED BY <3>1, <5>1, Products
      <4> QED BY <2>1, <2>3, <3>2, <4>1, TwicePowerOfTwo
    <3>4. ASSUME NEW q \in Nat, q + p <= n
          PROVE  wide[p * C][q * C] = Layer(d, b + q, 2 * r, m)
      <4> DEFINE e == b + q  left_len == h * C
      <4>1. e \in Nat /\ (e + (2 * r) * m) * CHUNK_LEN <= Len(d)
        BY <1>4, <3>3, <3>4
      <4>2. (IF left_len > CHUNK_LEN /\ simd_degree = 1 THEN 2 ELSE simd_degree) = m
        BY <3>1
      <4> HIDE DEF e, left_len
      <4>3. JoinHalves(Layer(d, e, r, m), Layer(d, e + r * m, r, m), left_len) = Layer(d, e, 2 * r, m)
        BY <2>3, <3>1, <4>1, <4>2, JoinWide
      <4>4. wide[p * C][q * C] = JoinHalves(Layer(d, e, r, m), Layer(d, e + h, r, m), left_len)
        BY <2>7, <3>4 DEF e, left_len, m
      <4> QED BY <3>2, <4>3, <4>4 DEF e
    <3>5. WideAt(wide, d, b, n, p)
      BY <3>1, <3>3, <3>4 DEF WideAt
    <3> QED BY <1>3, <3>5
  <2> QED BY <2>8, <2>9
<1>7. p <= simd_degree \/ p > simd_degree
  BY <1>3
<1> QED BY <1>5, <1>6, <1>7

\* The layer over a subtree.
LEMMA SubtreeWide ==
  ASSUME NEW S, NEW d \in Seq(S), NEW b \in Nat, NEW p \in Nat, IsPowerOfTwo(p), (b + p) * CHUNK_LEN <= Len(d),
         simd_degree \in Nat, IsPowerOfTwo(simd_degree)
  PROVE  \E r \in Nat : /\ IsPowerOfTwo(r)
                        /\ r * Width(p) = p
                        /\ compress_subtree_wide(SubSeq(d, b * CHUNK_LEN + 1, (b + p) * CHUNK_LEN), b) =
                             Layer(d, b, r, Width(p))
<1> DEFINE C == CHUNK_LEN  first == b * C  last == (b + p) * C  input == SubSeq(d, first + 1, last)
           f == CHOOSE h : IsWide(h, input, b)
<1>0. simd_degree > 0 /\ C \in Nat \ {0}
  BY ChunkLenFacts DEF IsPowerOfTwo
<1>1. /\ first \in Nat /\ last \in Nat /\ first <= last /\ last <= Len(d) /\ last = first + p * C /\ Len(d) \in Nat
      /\ p * C \in Nat
  <2>1. b + p \in Nat /\ b <= b + p
    OBVIOUS
  <2>2. (b + p) * C = b * C + p * C /\ b * C \in Nat /\ p * C \in Nat
    BY ChunkProducts
  <2> QED BY <1>0, <2>2
<1>2. input \in Seq(S) /\ Len(input) = p * C
  <2> HIDE DEF first, last
  <2>1. input \in Seq(S) /\ Len(input) = last - first
    BY <1>1, PartFacts
  <2> QED BY <1>1, <2>1
<1>3. compress_subtree_wide(input, b) = f[Len(input)][0]
  <2> HIDE DEF input
  <2> QED BY DEF compress_subtree_wide, IsWide, WideRow
<1>4. IsWide(f, input, b)
  <2>1. \E h : IsWide(h, input, b)
    <3>1. ASSUME NEW t \in Seq(S) PROVE \E h : IsWide(h, t, b)
      <4>1. simd_degree \in Nat \ {0}
        BY <1>0
      <4> QED BY <4>1, WideExists
    <3> HIDE DEF input
    <3> QED BY <1>2, <3>1
  <2> HIDE DEF input
  <2> QED BY <2>1
<1> HIDE DEF f
<1>5. WideAt(f, d, b, p, p)
  BY <1>4, WideLayers
<1>6. PICK r \in Nat : /\ IsPowerOfTwo(r)
                       /\ r * Width(p) = p
                       /\ \A q \in Nat : q + p <= p => f[p * C][q * C] = Layer(d, b + q, r, Width(p))
  BY <1>5 DEF WideAt
<1>7. f[p * C][0] = Layer(d, b, r, Width(p))
  <2>1. 0 \in Nat /\ 0 + p <= p /\ 0 * C = 0 /\ b + 0 = b
    BY <1>0
  <2>2. f[p * C][0 * C] = Layer(d, b + 0, r, Width(p))
    BY <1>6, <2>1
  <2> QED BY <2>1, <2>2
<1> HIDE DEF input
<1>8. compress_subtree_wide(input, b) = Layer(d, b, r, Width(p))
  BY <1>2, <1>3, <1>7
<1> QED BY <1>6, <1>8 DEF input

\* The layers above cvs.
IsCondensed(f, cvs) ==
  f = [i \in 0 .. Len(cvs) |-> IF i = 0 THEN cvs ELSE CondenseOnce(f[i - 1])]

\* The recursion of Condense defines a function.
LEMMA CondenseExists ==
  ASSUME NEW cvs, Len(cvs) \in Nat
  PROVE  \E f : IsCondensed(f, cvs)
<1> DEFINE Has(k) == \E f : f = [i \in 0 .. k |-> IF i = 0 THEN cvs ELSE CondenseOnce(f[i - 1])]
           Without == {k \in Nat : ~Has(k)}
<1>1. Without = {}
  <2>1. SUFFICES ASSUME Without # {} PROVE FALSE
    OBVIOUS
  <2>2. PICK k \in Without : \A j \in Without : k <= j
    <3>1. Without \in SUBSET Nat
      OBVIOUS
    <3> HIDE DEF Without
    <3> QED BY <2>1, <3>1, LeastNumber
  <2>3. k # 0
    <3> DEFINE g == [i \in 0 .. 0 |-> cvs]
    <3>1. \A i \in 0 .. 0 : g[i] = IF i = 0 THEN cvs ELSE CondenseOnce(g[i - 1])
      OBVIOUS
    <3>2. g = [i \in 0 .. 0 |-> g[i]]
      OBVIOUS
    <3> HIDE DEF g
    <3>3. g = [i \in 0 .. 0 |-> IF i = 0 THEN cvs ELSE CondenseOnce(g[i - 1])]
      BY <3>1, <3>2
    <3>4. Has(0)
      BY <3>3
    <3> QED BY <3>4
  <2>4. k - 1 \in Nat /\ Has(k - 1)
    <3>1. k - 1 \in Nat /\ ~(k <= k - 1)
      BY <2>3
    <3> QED BY <2>2, <3>1
  <2>5. PICK f : f = [i \in 0 .. (k - 1) |-> IF i = 0 THEN cvs ELSE CondenseOnce(f[i - 1])]
    BY <2>4
  <2> DEFINE g == [i \in 0 .. k |-> IF i = k THEN CondenseOnce(f[k - 1]) ELSE f[i]]
  <2>6. k \in Nat /\ k > 0
    BY <2>3
  <2>7. ASSUME NEW i \in 0 .. k
        PROVE  g[i] = IF i = 0 THEN cvs ELSE CondenseOnce(g[i - 1])
    <3>1. CASE i = k
      <4>1. g[i] = CondenseOnce(f[i - 1]) /\ g[i - 1] = f[i - 1] /\ i # 0
        BY <2>6, <3>1
      <4> HIDE DEF g
      <4> QED BY <4>1
    <3>2. CASE i # k
      <4>1. i \in 0 .. (k - 1) /\ g[i] = f[i] /\ (i # 0 => g[i - 1] = f[i - 1])
        BY <2>6, <3>2
      <4>2. f[i] = IF i = 0 THEN cvs ELSE CondenseOnce(f[i - 1])
        BY <2>5, <4>1
      <4> HIDE DEF g
      <4> QED BY <4>1, <4>2
    <3> QED BY <3>1, <3>2
  <2>8. g = [i \in 0 .. k |-> g[i]]
    OBVIOUS
  <2> HIDE DEF g
  <2>9. g = [i \in 0 .. k |-> IF i = 0 THEN cvs ELSE CondenseOnce(g[i - 1])]
    BY <2>7, <2>8
  <2>10. Has(k)
    BY <2>9
  <2> QED BY <2>10
<1>2. Len(cvs) \in Nat
  OBVIOUS
<1>3. Has(Len(cvs))
  <2> HIDE DEF Has
  <2> QED BY <1>1, <1>2
<1> QED BY <1>3 DEF IsCondensed

\* A layer is condensed to the two values below the root.
LEMMA CondenseLayer ==
  ASSUME NEW S, NEW d \in Seq(S), NEW b \in Nat, NEW r \in Nat, IsPowerOfTwo(r),
         NEW m \in Nat, IsPowerOfTwo(m), m >= 2, NEW h \in Nat, r * m = 2 * h,
         (b + 2 * h) * CHUNK_LEN <= Len(d)
  PROVE  Condense(Layer(d, b, r, m)) = Layer(d, b, h, 2)
<1> DEFINE cvs == Layer(d, b, r, m)
           f == CHOOSE g : IsCondensed(g, cvs)
           Good(i, e, k) == /\ IsPowerOfTwo(e) /\ IsPowerOfTwo(k) /\ k >= 2 /\ e * k = 2 * h
                            /\ f[i] = Layer(d, b, e, k) /\ (k = 2 \/ k + i <= m)
           Wrong == {i \in Nat : i <= m /\ ~(\E e, k \in Nat : Good(i, e, k))}
<1>1. Len(cvs) = m
  BY LayerFacts
<1> HIDE DEF cvs
<1>2. Condense(cvs) = f[m]
  BY <1>1 DEF Condense, IsCondensed
<1>3. IsCondensed(f, cvs)
  BY <1>1, CondenseExists
<1>4. /\ f[0] = cvs
      /\ \A i \in 1 .. m : f[i] = IF Len(f[i - 1]) > 2 THEN compress_parents_parallel(f[i - 1]) ELSE f[i - 1]
  <2> HIDE DEF f
  <2>1. f = [i \in 0 .. m |-> IF i = 0 THEN cvs ELSE CondenseOnce(f[i - 1])]
    BY <1>1, <1>3 DEF IsCondensed
  <2> HIDE DEF Good, Wrong
  <2>2. f[0] = cvs /\ \A i \in 1 .. m : f[i] = CondenseOnce(f[i - 1])
    BY <2>1
  <2> QED BY <2>2 DEF CondenseOnce
<1> HIDE DEF f
<1>5. Wrong = {}
  <2>1. SUFFICES ASSUME Wrong # {} PROVE FALSE
    OBVIOUS
  <2>2. PICK i \in Wrong : \A j \in Wrong : i <= j
    <3>1. Wrong \in SUBSET Nat
      OBVIOUS
    <3> HIDE DEF Wrong
    <3> QED BY <2>1, <3>1, LeastNumber
  <2>3. i \in Nat /\ i <= m /\ ~(\E e, k \in Nat : Good(i, e, k))
    OBVIOUS
  <2>4. i # 0
    <3>1. SUFFICES ASSUME i = 0 PROVE FALSE
      OBVIOUS
    <3>2. Good(0, r, m)
      BY <1>4 DEF cvs
    <3> HIDE DEF Good
    <3> QED BY <2>3, <3>1, <3>2
  <2>5. i - 1 \in Nat /\ i - 1 <= m /\ i - 1 \notin Wrong
    <3>1. i - 1 \in Nat /\ i - 1 <= m /\ ~(i <= i - 1)
      BY <2>3, <2>4
    <3> HIDE DEF Wrong
    <3> QED BY <2>2, <3>1
  <2>6. PICK e \in Nat : \E k \in Nat : Good(i - 1, e, k)
    <3> HIDE DEF Good
    <3> QED BY <2>5
  <2>7. PICK k \in Nat : Good(i - 1, e, k)
    <3> HIDE DEF Good
    <3> QED BY <2>6
  <2>8. Len(f[i - 1]) = k /\ f[i] = IF k > 2 THEN compress_parents_parallel(Layer(d, b, e, k)) ELSE Layer(d, b, e, k)
    <3>1. Len(f[i - 1]) = k
      <4>1. f[i - 1] = Layer(d, b, e, k)
        BY <2>7
      <4> QED BY <4>1, LayerFacts
    <3>2. i \in 1 .. m
      BY <2>3, <2>4
    <3> QED BY <1>4, <2>7, <3>1, <3>2
  <2>9. CASE k > 2
    <3>1. PICK l \in Nat \ {0} : k = 2 * l /\ IsPowerOfTwo(l) /\ l < k
      <4>1. k # 1 /\ IsPowerOfTwo(k)
        BY <2>7, <2>9
      <4> QED BY <4>1, HalfPowerOfTwo
    <3>2. (2 * e) * l = 2 * h /\ 2 * e \in Nat /\ IsPowerOfTwo(2 * e)
      <4>1. (2 * e) * l = e * (2 * l)
        BY <3>1
      <4> QED BY <2>7, <3>1, <4>1, TwicePowerOfTwo
    <3>3. compress_parents_parallel(Layer(d, b, e, 2 * l)) = Layer(d, b, 2 * e, l)
      <4>1. (b + (2 * e) * l) * CHUNK_LEN <= Len(d) /\ l \in Nat /\ IsPowerOfTwo(e)
        BY <2>7, <3>1, <3>2
      <4> QED BY <4>1, ParentsOfLayer
    <3>4. f[i] = Layer(d, b, 2 * e, l)
      BY <2>8, <2>9, <3>1, <3>3
    <3>5. l >= 2 /\ (l = 2 \/ l + i <= m)
      <4>1. k + (i - 1) <= m
        BY <2>7, <2>9
      <4> QED BY <2>3, <2>9, <3>1, <4>1
    <3>6. Good(i, 2 * e, l)
      BY <3>1, <3>2, <3>4, <3>5
    <3> HIDE DEF Good
    <3> QED BY <2>3, <3>1, <3>2, <3>6
  <2>10. CASE ~(k > 2)
    <3>1. k = 2 /\ f[i] = Layer(d, b, e, k)
      BY <2>7, <2>8, <2>10
    <3>2. Good(i, e, k)
      BY <2>7, <3>1
    <3> HIDE DEF Good
    <3> QED BY <2>3, <3>2
  <2> QED BY <2>9, <2>10
<1>6. PICK e \in Nat : \E k \in Nat : Good(m, e, k)
  <2>1. m \notin Wrong /\ m <= m
    <3> HIDE DEF Wrong
    <3> QED BY <1>5
  <2> HIDE DEF Good
  <2> QED BY <2>1
<1>7. PICK k \in Nat : Good(m, e, k)
  <2> HIDE DEF Good
  <2> QED BY <1>6
<1>8. k = 2 /\ e = h
  BY <1>7
<1>9. Condense(cvs) = Layer(d, b, h, 2)
  BY <1>2, <1>7, <1>8
<1> QED BY <1>9 DEF cvs

\* The two values below the root of a subtree.
LEMMA SubtreePair ==
  ASSUME NEW S, NEW d \in Seq(S), NEW b \in Nat, NEW h \in Nat, IsPowerOfTwo(h), (b + 2 * h) * CHUNK_LEN <= Len(d),
         simd_degree \in Nat, IsPowerOfTwo(simd_degree)
  PROVE  LET pair == compress_subtree_to_parent_node(
                       SubSeq(d, b * CHUNK_LEN + 1, (b + 2 * h) * CHUNK_LEN), b)
         IN pair[1] = At(d, b, h) /\ pair[2] = At(d, b + h, h)
<1> DEFINE p == 2 * h  input == SubSeq(d, b * CHUNK_LEN + 1, (b + p) * CHUNK_LEN)  W == Width(p)
<1>1. p \in Nat /\ IsPowerOfTwo(p) /\ p >= 2 /\ h > 0
  BY TwicePowerOfTwo DEF IsPowerOfTwo
<1>2. W \in Nat /\ W >= 2 /\ IsPowerOfTwo(W)
  <2>1. IsPowerOfTwo(2)
    <3>1. 2 * 1 = 2 /\ 1 \in Nat
      OBVIOUS
    <3> QED BY <3>1, OneIsPowerOfTwo, TwicePowerOfTwo
  <2>2. simd_degree > 0
    BY DEF IsPowerOfTwo
  <2> HIDE DEF p
  <2> QED BY <1>1, <2>1, <2>2 DEF Width
<1> HIDE DEF W
<1>3. PICK r \in Nat : /\ IsPowerOfTwo(r)
                       /\ r * W = p
                       /\ compress_subtree_wide(input, b) = Layer(d, b, r, W)
  <2>1. (b + p) * CHUNK_LEN <= Len(d)
    OBVIOUS
  <2> HIDE DEF p
  <2> QED BY <1>1, <2>1, SubtreeWide DEF W
<1>4. Condense(Layer(d, b, r, W)) = Layer(d, b, h, 2)
  BY <1>2, <1>3, CondenseLayer
<1> HIDE DEF input
<1>5. compress_subtree_to_parent_node(input, b) = Layer(d, b, h, 2)
  BY <1>3, <1>4 DEF compress_subtree_to_parent_node
<1>6. \A k \in 1 .. 2 : Layer(d, b, h, 2)[k] = At(d, b + (k - 1) * h, h)
  <2>1. ASSUME NEW n \in Nat
        PROVE  \A k \in 1 .. n : Layer(d, b, h, n)[k] = At(d, b + (k - 1) * h, h)
    BY LayerFacts
  <2>2. 2 \in Nat
    OBVIOUS
  <2> QED BY <2>1, <2>2, Zenon
<1>7. 1 \in 1 .. 2 /\ 2 \in 1 .. 2 /\ b + (1 - 1) * h = b /\ b + (2 - 1) * h = b + h
  OBVIOUS
<1> QED BY <1>5, <1>6, <1>7 DEF input

-----------------------------------------------------------------------------
(* The stack                                                               *)

\* The values for j subtrees of u chunks from the start of d, for every u: one
\* for each 1-bit of j.
PeaksRow(f, d, j) ==
  [u \in Nat |->
     IF j = 0 THEN <<>>
     ELSE IF j % 2 = 0 THEN f[j \div 2][2 * u]
     ELSE Append(f[j \div 2][2 * u], At(d, (j - 1) * u, u))]

\* The values for j depend on those for smaller numbers only.
LEMMA PeaksRowSame ==
  ASSUME NEW f, NEW g, NEW d, NEW k \in Nat, \A j \in 0 .. (k - 1) : f[j] = g[j]
  PROVE  PeaksRow(f, d, k) = PeaksRow(g, d, k)
<1>1. CASE k = 0
  BY <1>1 DEF PeaksRow
<1>2. CASE k # 0
  <2>1. k \div 2 \in 0 .. (k - 1)
    BY <1>2, Halves
  <2>2. f[k \div 2] = g[k \div 2]
    BY <2>1
  <2> QED BY <2>2, Zenon DEF PeaksRow
<1> QED BY <1>1, <1>2

\* The values for every j.
IsPeaks(f, d) == f = [i \in 0 .. Len(d) |-> PeaksRow(f, d, i)]

\* There is such a function.
LEMMA PeaksExist ==
  ASSUME NEW S, NEW d \in Seq(S)
  PROVE  \E f : IsPeaks(f, d)
<1> DEFINE Has(k) == \E f : f = [i \in 0 .. k |-> PeaksRow(f, d, i)]
           Without == {k \in Nat : ~Has(k + 0 - 1)}
<1>1. Len(d) \in Nat
  OBVIOUS
<1>2. Without = {}
  <2>1. SUFFICES ASSUME Without # {} PROVE FALSE
    OBVIOUS
  <2>2. PICK m \in Without : \A j \in Without : m <= j
    <3>1. Without \in SUBSET Nat
      OBVIOUS
    <3> HIDE DEF Without
    <3> QED BY <2>1, <3>1, LeastNumber
  <2> DEFINE k == m + 0 - 1
  <2>3. m \in Nat /\ k \in Int /\ ~Has(k)
    OBVIOUS
  <2>4. m # 0
    <3>1. ASSUME m = 0 PROVE FALSE
      <4> DEFINE g == [i \in 0 .. k |-> 0]
      <4>1. 0 .. k = {}
        BY <3>1
      <4>2. g = [i \in 0 .. k |-> PeaksRow(g, d, i)]
        <5> HIDE DEF k
        <5> QED BY <4>1
      <4>3. Has(k)
        <5> HIDE DEF g, k
        <5> QED BY <4>2
      <4> QED BY <2>3, <4>3
    <3> QED BY <3>1
  <2>5. PICK f : f = [i \in 0 .. (k - 1) |-> PeaksRow(f, d, i)]
    <3>1. m - 1 \in Nat /\ ~(m <= m - 1) /\ (m - 1) + 0 - 1 = k - 1
      BY <2>3, <2>4
    <3>2. Has((m - 1) + 0 - 1)
      <4> HIDE DEF Has
      <4> QED BY <2>2, <3>1
    <3>3. Has(k - 1)
      <4> HIDE DEF Has, k
      <4> QED BY <3>1, <3>2
    <3> QED BY <3>3
  <2>6. k \in Nat /\ k >= 0
    BY <2>3, <2>4
  <2> HIDE DEF k
  <2> DEFINE g == [i \in 0 .. k |-> IF i = k THEN PeaksRow(f, d, k) ELSE f[i]]
  <2>7. \A i \in 0 .. (k - 1) : g[i] = f[i] /\ f[i] = PeaksRow(f, d, i)
    <3>1. \A i \in 0 .. (k - 1) : g[i] = f[i]
      BY <2>6
    <3> HIDE DEF g
    <3>2. \A i \in 0 .. (k - 1) : f[i] = PeaksRow(f, d, i)
      BY <2>5
    <3> QED BY <3>1, <3>2
  <2>8. g[k] = PeaksRow(f, d, k)
    BY <2>6
  <2>9. g = [i \in 0 .. k |-> g[i]]
    OBVIOUS
  <2> HIDE DEF g
  <2>10. ASSUME NEW i \in 0 .. k
        PROVE  g[i] = PeaksRow(g, d, i)
    <3>1. i \in Nat /\ \A j \in 0 .. (i - 1) : f[j] = g[j]
      BY <2>6, <2>7
    <3>2. PeaksRow(f, d, i) = PeaksRow(g, d, i)
      BY <3>1, PeaksRowSame
    <3>3. i = k \/ i \in 0 .. (k - 1)
      BY <2>6
    <3> QED BY <2>7, <2>8, <3>2, <3>3
  <2>11. g = [i \in 0 .. k |-> PeaksRow(g, d, i)]
    BY <2>9, <2>10
  <2>12. Has(k)
    BY <2>11
  <2> QED BY <2>3, <2>12
<1>3. Has(Len(d))
  <2>1. Len(d) - 0 + 1 \in Nat /\ (Len(d) - 0 + 1) + 0 - 1 = Len(d)
    BY <1>1
  <2> HIDE DEF Has
  <2> QED BY <1>2, <2>1
<1> QED BY <1>3 DEF IsPeaks

\* What is on the stack when everything is merged: Peaks(d)[j][u] are the values of the
\* largest subtrees that j subtrees of u chunks can be merged to.
Peaks(d) == CHOOSE f : IsPeaks(f, d)

\* One step of the recursion of Peaks.
LEMMA PeaksAre ==
  ASSUME NEW S, NEW d \in Seq(S), NEW j \in 0 .. Len(d), NEW u \in Nat
  PROVE  Peaks(d)[j][u] =
           IF j = 0 THEN <<>>
           ELSE IF j % 2 = 0 THEN Peaks(d)[j \div 2][2 * u]
           ELSE Append(Peaks(d)[j \div 2][2 * u], At(d, (j - 1) * u, u))
<1> DEFINE f == Peaks(d)
<1>1. IsPeaks(f, d)
  BY PeaksExist DEF Peaks
<1> HIDE DEF f
<1>2. f[j] = PeaksRow(f, d, j)
  BY <1>1 DEF IsPeaks
<1>3. f[j][u] =
           IF j = 0 THEN <<>>
           ELSE IF j % 2 = 0 THEN f[j \div 2][2 * u]
           ELSE Append(f[j \div 2][2 * u], At(d, (j - 1) * u, u))
  BY <1>2 DEF PeaksRow
<1> QED BY <1>3 DEF f

\* Nothing is on the stack at first.
LEMMA PeaksZero ==
  ASSUME NEW S, NEW d \in Seq(S), NEW u \in Nat
  PROVE  Peaks(d)[0][u] = <<>>
<1>1. 0 \in 0 .. Len(d)
  OBVIOUS
<1> QED BY <1>1, PeaksAre

\* Pairs of subtrees are merged.
LEMMA PeaksEven ==
  ASSUME NEW S, NEW d \in Seq(S), NEW k \in Nat, NEW u \in Nat, 2 * k <= Len(d)
  PROVE  Peaks(d)[2 * k][u] = Peaks(d)[k][2 * u]
<1>0. Len(d) \in Nat
  OBVIOUS
<1>1. CASE k = 0
  <2>1. 2 * k = 0 /\ 2 * u \in Nat
    BY <1>1
  <2> QED BY <1>1, <2>1, PeaksZero
<1>2. CASE k # 0
  <2> DEFINE j == 2 * k
  <2>1. j \in 0 .. Len(d) /\ j # 0 /\ j % 2 = 0 /\ j \div 2 = k
    BY <1>0, <1>2
  <2> HIDE DEF j
  <2>2. Peaks(d)[j][u] = Peaks(d)[j \div 2][2 * u]
    BY <2>1, PeaksAre
  <2> QED BY <2>1, <2>2 DEF j
<1> QED BY <1>1, <1>2

\* A subtree without a partner stays.
LEMMA PeaksOdd ==
  ASSUME NEW S, NEW d \in Seq(S), NEW k \in Nat, NEW u \in Nat, 2 * k + 1 <= Len(d)
  PROVE  Peaks(d)[2 * k + 1][u] = Append(Peaks(d)[k][2 * u], At(d, (2 * k) * u, u))
<1>0. Len(d) \in Nat
  OBVIOUS
<1> DEFINE j == 2 * k + 1
<1>1. j \in 0 .. Len(d) /\ j # 0 /\ j % 2 # 0 /\ j \div 2 = k /\ j - 1 = 2 * k
  BY <1>0
<1> HIDE DEF j
<1>2. Peaks(d)[j][u] = Append(Peaks(d)[j \div 2][2 * u], At(d, (j - 1) * u, u))
  BY <1>1, PeaksAre
<1> QED BY <1>1, <1>2 DEF j

\* Every number is twice another or one more.
LEMMA EvenOrOdd ==
  ASSUME NEW n \in Nat
  PROVE  \E k \in Nat : (n = 2 * k \/ n = 2 * k + 1) /\ (n > 0 => k < n)
<1> DEFINE k == n \div 2
<1>1. k \in Nat /\ n % 2 \in {0, 1} /\ n = 2 * k + (n % 2) /\ (n > 0 => k < n)
  BY Halves
<1> HIDE DEF k
<1>2. (n = 2 * k \/ n = 2 * k + 1) /\ (n > 0 => k < n)
  BY <1>1
<1> QED BY <1>1, <1>2

\* The chaining values there are.
Values(d) == {At(d, p, r) : p \in Nat, r \in Nat}

\* There is one value for each 1-bit.
LEMMA PeaksFacts ==
  ASSUME NEW S, NEW d \in Seq(S), NEW j \in 0 .. Len(d), NEW u \in Nat
  PROVE  /\ Peaks(d)[j][u] \in Seq(Values(d))
         /\ Len(Peaks(d)[j][u]) = popcnt(j)
<1> DEFINE P(k) == \A v \in Nat : /\ Peaks(d)[k][v] \in Seq(Values(d))
                                  /\ Len(Peaks(d)[k][v]) = popcnt(k)
           Wrong == {k \in Nat : k <= Len(d) /\ ~P(k)}
<1>0. Len(d) \in Nat
  OBVIOUS
<1>1. Wrong = {}
  <2>1. SUFFICES ASSUME Wrong # {} PROVE FALSE
    OBVIOUS
  <2>2. PICK m \in Wrong : \A k \in Wrong : m <= k
    <3>1. Wrong \in SUBSET Nat
      OBVIOUS
    <3> HIDE DEF Wrong
    <3> QED BY <2>1, <3>1, LeastNumber
  <2>3. m \in Nat /\ m <= Len(d) /\ ~P(m)
    OBVIOUS
  <2>4. m # 0
    <3>1. SUFFICES ASSUME m = 0 PROVE FALSE
      OBVIOUS
    <3>2. ASSUME NEW v \in Nat
          PROVE  Peaks(d)[0][v] \in Seq(Values(d)) /\ Len(Peaks(d)[0][v]) = popcnt(0)
      <4>1. Peaks(d)[0][v] = <<>> /\ popcnt(0) = 0
        <5>1. 0 \in Nat
          OBVIOUS
        <5> QED BY <5>1, PeaksZero, PopcntFacts
      <4> QED BY <4>1
    <3> QED BY <2>3, <3>1, <3>2
  <2>5. PICK k \in Nat : (m = 2 * k \/ m = 2 * k + 1) /\ k < m
    <3>1. PICK k \in Nat : (m = 2 * k \/ m = 2 * k + 1) /\ (m > 0 => k < m)
      BY <2>3, EvenOrOdd
    <3>2. m > 0
      BY <2>3, <2>4
    <3> QED BY <3>1, <3>2
  <2>6. P(k)
    <3>1. k <= Len(d) /\ ~(m <= k)
      BY <1>0, <2>3, <2>5
    <3>2. k \notin Wrong
      <4> HIDE DEF Wrong
      <4> QED BY <2>2, <3>1
    <3> HIDE DEF P
    <3> QED BY <3>1, <3>2
  <2>7. ASSUME NEW v \in Nat
        PROVE  Peaks(d)[m][v] \in Seq(Values(d)) /\ Len(Peaks(d)[m][v]) = popcnt(m)
    <3>1. 2 * v \in Nat
      OBVIOUS
    <3>2. Peaks(d)[k][2 * v] \in Seq(Values(d)) /\ Len(Peaks(d)[k][2 * v]) = popcnt(k)
      BY <2>6, <3>1
    <3>3. CASE m = 2 * k
      <4>1. Peaks(d)[2 * k][v] = Peaks(d)[k][2 * v]
        <5>1. 2 * k <= Len(d)
          BY <2>3, <3>3
        <5>2. 2 * k <= Len(d) => Peaks(d)[2 * k][v] = Peaks(d)[k][2 * v]
          BY PeaksEven, ZenonT(40)
        <5> QED BY <5>1, <5>2
      <4>2. popcnt(2 * k) = popcnt(k)
        BY PopcntFacts
      <4> QED BY <3>2, <3>3, <4>1, <4>2
    <3>4. CASE m = 2 * k + 1
      <4>1. Peaks(d)[2 * k + 1][v] = Append(Peaks(d)[k][2 * v], At(d, (2 * k) * v, v))
        <5>1. 2 * k + 1 <= Len(d)
          BY <2>3, <3>4
        <5> QED BY <5>1, PeaksOdd, ZenonT(40)
      <4>3. popcnt(2 * k + 1) = popcnt(k) + 1
        BY PopcntFacts
      <4>2. At(d, (2 * k) * v, v) \in Values(d)
        <5>1. (2 * k) * v \in Nat
          OBVIOUS
        <5> QED BY <5>1 DEF Values
      <4> DEFINE s == Peaks(d)[k][2 * v]  a == At(d, (2 * k) * v, v)
      <4>4. s \in Seq(Values(d)) /\ Len(s) = popcnt(k) /\ a \in Values(d)
        BY <3>2, <4>2
      <4>5. Peaks(d)[m][v] = Append(s, a) /\ popcnt(m) = popcnt(k) + 1
        BY <3>4, <4>1, <4>3
      <4> HIDE DEF s, a
      <4>6. Append(s, a) \in Seq(Values(d)) /\ Len(Append(s, a)) = Len(s) + 1
        BY <4>4
      <4> QED BY <4>4, <4>5, <4>6
    <3> QED BY <2>5, <3>3, <3>4
  <2> QED BY <2>3, <2>7
<1>2. j \in Nat /\ j <= Len(d) /\ j \notin Wrong
  BY <1>0, <1>1
<1>3. P(j)
  <2> HIDE DEF P
  <2> QED BY <1>2
<1> QED BY <1>3

\* n is the product of j and v.
IsProduct(n, j, v) == n = j * v

\* j subtrees of v u chunks are j v subtrees of u chunks.
LEMMA PeaksOfMultiple ==
  ASSUME NEW S, NEW d \in Seq(S), NEW v \in Nat, IsPowerOfTwo(v), NEW j \in Nat, NEW u \in Nat,
         NEW n, IsProduct(n, j, v), n <= Len(d), NEW w, IsProduct(w, v, u)
  PROVE  Peaks(d)[n][u] = Peaks(d)[j][w]
<1>even. ASSUME NEW x \in Nat, NEW y \in Nat, 2 * x <= Len(d)
         PROVE  Peaks(d)[2 * x][y] = Peaks(d)[x][2 * y]
  BY <1>even, PeaksEven, ZenonT(40)
<1> DEFINE P(q) == \A k, x \in Nat : k * q <= Len(d) => Peaks(d)[k * q][x] = Peaks(d)[k][q * x]
           Wrong == {q \in Nat : IsPowerOfTwo(q) /\ ~P(q)}
<1>0. Len(d) \in Nat
  OBVIOUS
<1>1. Wrong = {}
  <2>1. SUFFICES ASSUME Wrong # {} PROVE FALSE
    OBVIOUS
  <2>2. PICK q \in Wrong : \A k \in Wrong : q <= k
    <3>1. Wrong \in SUBSET Nat
      OBVIOUS
    <3> HIDE DEF Wrong
    <3> QED BY <2>1, <3>1, LeastNumber
  <2>3. q \in Nat /\ IsPowerOfTwo(q) /\ ~P(q)
    OBVIOUS
  <2>4. q # 1
    <3>1. \A k, x \in Nat : k * 1 = k /\ 1 * x = x
      OBVIOUS
    <3>2. P(1)
      BY <3>1
    <3> QED BY <2>3, <3>2
  <2>5. PICK h \in Nat \ {0} : q = 2 * h /\ IsPowerOfTwo(h) /\ h < q
    BY <2>3, <2>4, HalfPowerOfTwo
  <2>6. P(h)
    <3>1. h \in Nat /\ ~(q <= h)
      BY <2>3, <2>5
    <3>2. h \notin Wrong
      <4> HIDE DEF Wrong
      <4> QED BY <2>2, <3>1
    <3> HIDE DEF P
    <3> QED BY <2>5, <3>1, <3>2
  <2>7. ASSUME NEW k \in Nat, NEW x \in Nat, k * q <= Len(d)
        PROVE  Peaks(d)[k * q][x] = Peaks(d)[k][q * x]
    <3> DEFINE e == 2 * k
    <3>1. e * h = k * q /\ k * h \in Nat /\ e \in Nat /\ e * h = 2 * (k * h) /\ h * x \in Nat /\ 2 * (h * x) = q * x
      <4>1. \A a, b \in Nat : (2 * a) * b = 2 * (a * b) /\ a * (2 * b) = 2 * (a * b) /\ a * b \in Nat
        OBVIOUS
      <4>2. h \in Nat /\ e \in Nat
        BY <2>5
      <4>3. (2 * k) * h = 2 * (k * h) /\ k * (2 * h) = 2 * (k * h) /\ k * h \in Nat /\ (2 * h) * x = 2 * (h * x) /\ h * x \in Nat
        BY <4>1, <4>2, Zenon
      <4> QED BY <2>5, <4>2, <4>3
    <3>2. e <= Len(d)
      <4>1. 1 * e <= h * e /\ h * e = e * h /\ 1 * e = e
        <5>1. 1 \in Nat /\ 1 <= h
          BY <2>5
        <5> QED BY <3>1, <5>1, Products
      <4> QED BY <1>0, <2>7, <3>1, <4>1, SMTT(40)
    <3>3. Peaks(d)[e * h][x] = Peaks(d)[e][h * x]
      <4> HIDE DEF e
      <4> QED BY <2>6, <2>7, <3>1
    <3>4. Peaks(d)[e][h * x] = Peaks(d)[k][2 * (h * x)]
      <4>1. ASSUME NEW y \in Nat PROVE Peaks(d)[2 * k][y] = Peaks(d)[k][2 * y]
        BY <3>2, <1>even
      <4> QED BY <3>1, <4>1
    <3> QED BY <3>1, <3>3, <3>4
  <2> QED BY <2>3, <2>7
<1>2. P(v)
  <2>1. v \notin Wrong
    BY <1>1
  <2> HIDE DEF P
  <2> QED BY <2>1
<1> QED BY <1>2 DEF IsProduct

\* Merging from the top of a stack, n times.
IsMerge(f, stack, n) ==
  f = [i \in 0 .. n |-> IF i = 0 THEN stack ELSE MergeTop(f[i - 1])]

\* The recursion of merge_cv_stack defines a function.
LEMMA MergeExists ==
  ASSUME NEW stack, NEW n \in Nat
  PROVE  \E f : IsMerge(f, stack, n)
<1> DEFINE Has(k) == \E f : f = [i \in 0 .. k |-> IF i = 0 THEN stack ELSE MergeTop(f[i - 1])]
           Without == {k \in Nat : ~Has(k)}
<1>1. Without = {}
  <2>1. SUFFICES ASSUME Without # {} PROVE FALSE
    OBVIOUS
  <2>2. PICK k \in Without : \A j \in Without : k <= j
    <3>1. Without \in SUBSET Nat
      OBVIOUS
    <3> HIDE DEF Without
    <3> QED BY <2>1, <3>1, LeastNumber
  <2>3. k # 0
    <3> DEFINE g == [i \in 0 .. 0 |-> stack]
    <3>1. \A i \in 0 .. 0 : g[i] = IF i = 0 THEN stack ELSE MergeTop(g[i - 1])
      OBVIOUS
    <3>2. g = [i \in 0 .. 0 |-> g[i]]
      OBVIOUS
    <3> HIDE DEF g
    <3>3. g = [i \in 0 .. 0 |-> IF i = 0 THEN stack ELSE MergeTop(g[i - 1])]
      BY <3>1, <3>2
    <3>4. Has(0)
      BY <3>3
    <3> QED BY <3>4
  <2>4. k - 1 \in Nat /\ Has(k - 1)
    <3>1. k - 1 \in Nat /\ ~(k <= k - 1)
      BY <2>3
    <3> QED BY <2>2, <3>1
  <2>5. PICK f : f = [i \in 0 .. (k - 1) |-> IF i = 0 THEN stack ELSE MergeTop(f[i - 1])]
    BY <2>4
  <2> DEFINE g == [i \in 0 .. k |-> IF i = k THEN MergeTop(f[k - 1]) ELSE f[i]]
  <2>6. k \in Nat /\ k > 0
    BY <2>3
  <2>7. ASSUME NEW i \in 0 .. k
        PROVE  g[i] = IF i = 0 THEN stack ELSE MergeTop(g[i - 1])
    <3>1. CASE i = k
      <4>1. g[i] = MergeTop(f[i - 1]) /\ g[i - 1] = f[i - 1] /\ i # 0
        BY <2>6, <3>1
      <4> HIDE DEF g
      <4> QED BY <4>1
    <3>2. CASE i # k
      <4>1. i \in 0 .. (k - 1) /\ g[i] = f[i] /\ (i # 0 => g[i - 1] = f[i - 1])
        BY <2>6, <3>2
      <4>2. f[i] = IF i = 0 THEN stack ELSE MergeTop(f[i - 1])
        BY <2>5, <4>1
      <4> HIDE DEF g
      <4> QED BY <4>1, <4>2
    <3> QED BY <3>1, <3>2
  <2>8. g = [i \in 0 .. k |-> g[i]]
    OBVIOUS
  <2> HIDE DEF g
  <2>9. g = [i \in 0 .. k |-> IF i = 0 THEN stack ELSE MergeTop(g[i - 1])]
    BY <2>7, <2>8
  <2>10. Has(k)
    BY <2>9
  <2> QED BY <2>10
<1>2. n \in Nat
  OBVIOUS
<1>3. Has(n)
  <2> HIDE DEF Has
  <2> QED BY <1>1, <1>2
<1> QED BY <1>3 DEF IsMerge

\* Merging n times from the top of a stack gives t.
MergesTo(stack, n, t) == \E f : IsMerge(f, stack, n) /\ f[n] = t

\* Merging not at all.
LEMMA MergesNone ==
  ASSUME NEW stack
  PROVE  MergesTo(stack, 0, stack)
<1>1. PICK f : IsMerge(f, stack, 0)
  <2>1. 0 \in Nat
    OBVIOUS
  <2> QED BY <2>1, MergeExists
<1>2. f[0] = stack
  BY <1>1 DEF IsMerge
<1> QED BY <1>1, <1>2 DEF MergesTo

\* Merging once more.
LEMMA MergesOneMore ==
  ASSUME NEW stack, NEW n \in Nat, NEW t, MergesTo(MergeTop(stack), n, t)
  PROVE  MergesTo(stack, n + 1, t)
<1>1. PICK f : IsMerge(f, MergeTop(stack), n) /\ f[n] = t
  BY DEF MergesTo
<1> DEFINE g == [i \in 0 .. n + 1 |-> IF i = 0 THEN stack ELSE f[i - 1]]
<1>2. /\ f[0] = MergeTop(stack)
      /\ \A i \in 1 .. n : f[i] = MergeTop(f[i - 1])
  BY <1>1 DEF IsMerge
<1>3. ASSUME NEW i \in 0 .. n + 1
      PROVE  g[i] = IF i = 0 THEN stack ELSE MergeTop(g[i - 1])
  <2>1. CASE i = 0
    BY <2>1
  <2>2. CASE i = 1
    <3>1. g[1] = f[0] /\ g[0] = stack
      BY <2>2
    <3> HIDE DEF g
    <3> QED BY <1>2, <2>2, <3>1
  <2>3. CASE i > 1
    <3>1. g[i] = f[i - 1] /\ i - 1 \in 0 .. n + 1 /\ i - 1 # 0 /\ i - 1 \in 1 .. n
      BY <2>3
    <3>2. g[i - 1] = f[(i - 1) - 1]
      BY <3>1
    <3> HIDE DEF g
    <3> QED BY <1>2, <2>3, <3>1, <3>2
  <2>4. i = 0 \/ i = 1 \/ i > 1
    OBVIOUS
  <2> QED BY <2>1, <2>2, <2>3, <2>4
<1>4. g = [i \in 0 .. n + 1 |-> g[i]]
  OBVIOUS
<1>5. g[n + 1] = t
  <2>1. n + 1 \in 0 .. n + 1 /\ n + 1 # 0 /\ (n + 1) - 1 = n
    OBVIOUS
  <2> QED BY <1>1, <2>1
<1> HIDE DEF g
<1>6. IsMerge(g, stack, n + 1)
  BY <1>3, <1>4 DEF IsMerge
<1> QED BY <1>5, <1>6 DEF MergesTo

\* merge_cv_stack merges until there is one value for each 1-bit.
LEMMA MergeIs ==
  ASSUME NEW stack, Len(stack) \in Nat, NEW total, popcnt(total) \in Nat, popcnt(total) <= Len(stack),
         NEW t, MergesTo(stack, Len(stack) - popcnt(total), t)
  PROVE  merge_cv_stack(stack, total) = t
<1> DEFINE l == Len(stack)  n == l - popcnt(total)  f == CHOOSE h : IsMerge(h, stack, l)
<1>0. l \in Nat /\ n \in Nat /\ n <= l
  OBVIOUS
<1>1. PICK g : IsMerge(g, stack, n) /\ g[n] = t
  BY DEF MergesTo
<1>2. merge_cv_stack(stack, total) = IF l <= popcnt(total) THEN stack ELSE f[n]
  BY DEF merge_cv_stack, IsMerge
<1>3. IsMerge(f, stack, l)
  <2> HIDE DEF l
  <2> QED BY <1>0, MergeExists
<1> HIDE DEF f
<1>4. f[n] = g[n]
  <2> DEFINE Wrong == {i \in Nat : i <= n /\ f[i] # g[i]}
  <2> HIDE DEF n, l
  <2>0. /\ f[0] = stack /\ \A i \in 1 .. l : f[i] = MergeTop(f[i - 1])
        /\ g[0] = stack /\ \A i \in 1 .. n : g[i] = MergeTop(g[i - 1])
    BY <1>0, <1>1, <1>3 DEF IsMerge
  <2>1. Wrong = {}
    <3>1. SUFFICES ASSUME Wrong # {} PROVE FALSE
      OBVIOUS
    <3>2. PICK m \in Wrong : \A k \in Wrong : m <= k
      <4>1. Wrong \in SUBSET Nat
        OBVIOUS
      <4> HIDE DEF Wrong
      <4> QED BY <3>1, <4>1, LeastNumber
    <3>3. m \in Nat /\ m <= n /\ f[m] # g[m] /\ m # 0
      BY <2>0
    <3>4. m - 1 \in Nat /\ m - 1 <= n /\ ~(m <= m - 1)
      BY <1>0, <3>3
    <3>5. f[m - 1] = g[m - 1]
      BY <3>2, <3>4
    <3>6. m \in 1 .. n /\ m \in 1 .. l
      BY <1>0, <3>3
    <3> QED BY <2>0, <3>3, <3>5, <3>6
  <2>2. n <= n
    BY <1>0
  <2> QED BY <1>0, <2>1, <2>2
<1>5. CASE l <= popcnt(total)
  <2>1. n = 0
    BY <1>0, <1>5
  <2>2. g[0] = stack
    <3> HIDE DEF n
    <3> QED BY <1>1, <2>1 DEF IsMerge
  <2> QED BY <1>1, <1>2, <1>5, <2>1, <2>2
<1>6. CASE ~(l <= popcnt(total))
  BY <1>1, <1>2, <1>4, <1>6
<1> QED BY <1>5, <1>6

\* Merging the top two values.
LEMMA MergeTopIs ==
  ASSUME NEW V, NEW s \in Seq(V), NEW a \in V, NEW b \in V
  PROVE  MergeTop(Append(Append(s, a), b)) = Append(s, chaining_value(parent_output(a, b)))
<1> DEFINE t == Append(Append(s, a), b)
<1>1. t \in Seq(V) /\ Len(t) = Len(s) + 2 /\ Len(t) - 2 = Len(s) /\ Len(s) \in Nat
      /\ t[Len(t) - 1] = a /\ t[Len(t)] = b
  OBVIOUS
<1>2. SubSeq(t, 1, Len(s)) = s
  <2>1. Len(s) <= Len(t)
    BY <1>1
  <2>2. \A i \in 1 .. Len(s) : t[i] = s[i]
    OBVIOUS
  <2> HIDE DEF t
  <2>3. SubSeq(t, 0 + 1, Len(s)) \in Seq(V) /\ Len(SubSeq(t, 0 + 1, Len(s))) = Len(s) - 0
        /\ \A i \in 1 .. Len(s) - 0 : SubSeq(t, 0 + 1, Len(s))[i] = t[0 + i]
    <3>1. 0 \in Nat /\ 0 <= Len(s)
      BY <1>1
    <3> QED BY <1>1, <2>1, <3>1, PartFacts
  <2>4. 0 + 1 = 1 /\ Len(s) - 0 = Len(s) /\ \A i \in 1 .. Len(s) : 0 + i = i
    BY <1>1
  <2> QED BY <2>2, <2>3, <2>4, SameSequence
<1> HIDE DEF t
<1>3. MergeTop(t) = Append(SubSeq(t, 1, Len(s)), chaining_value(parent_output(a, b)))
  BY <1>1 DEF MergeTop
<1> QED BY <1>2, <1>3 DEF t

\* Merging after the value of the next subtree was pushed.
LEMMA MergePushed ==
  ASSUME NEW S, NEW d \in Seq(S), NEW j \in Nat, NEW u \in Nat, IsPowerOfTwo(u),
         ((j + 1) * u) * CHUNK_LEN <= Len(d)
  PROVE  /\ popcnt(j) \in Nat /\ popcnt(j + 1) \in Nat /\ popcnt(j + 1) <= popcnt(j) + 1
         /\ MergesTo(Append(Peaks(d)[j][u], At(d, j * u, u)), (popcnt(j) + 1) - popcnt(j + 1), Peaks(d)[j + 1][u])
<1>even. ASSUME NEW x \in Nat, NEW y \in Nat, 2 * x <= Len(d)
         PROVE  Peaks(d)[2 * x][y] = Peaks(d)[x][2 * y]
  BY <1>even, PeaksEven, ZenonT(40)
<1> DEFINE Count(i) == (popcnt(i) + 1) - popcnt(i + 1)
           P(i) == \A v \in Nat : IsPowerOfTwo(v) /\ ((i + 1) * v) * CHUNK_LEN <= Len(d) =>
                     MergesTo(Append(Peaks(d)[i][v], At(d, i * v, v)), Count(i), Peaks(d)[i + 1][v])
           Wrong == {i \in Nat : ~P(i)}
<1>0. Len(d) \in Nat /\ CHUNK_LEN \in Nat \ {0}
  BY ChunkLenFacts
<1>1. \A i \in Nat : popcnt(i) \in Nat /\ popcnt(i + 1) \in Nat /\ popcnt(i + 1) <= popcnt(i) + 1 /\ Count(i) \in Nat
  <2>1. ASSUME NEW i \in Nat
        PROVE  popcnt(i) \in Nat /\ popcnt(i + 1) \in Nat /\ popcnt(i + 1) <= popcnt(i) + 1
    <3>1. \A n \in Nat : popcnt(n) \in Nat
      BY PopcntFacts
    <3>2. i + 1 \in Nat
      OBVIOUS
    <3> QED BY <3>1, <3>2, PopcntOfNext
  <2>2. ASSUME NEW i \in Nat PROVE Count(i) \in Nat
    <3>1. popcnt(i) \in Nat /\ popcnt(i + 1) \in Nat /\ popcnt(i + 1) <= popcnt(i) + 1
      BY <2>1
    <3> HIDE DEF P, Wrong
    <3> QED BY <3>1
  <2> QED BY <2>1, <2>2
<1>2. Wrong = {}
  <2>1. SUFFICES ASSUME Wrong # {} PROVE FALSE
    OBVIOUS
  <2>2. PICK m \in Wrong : \A k \in Wrong : m <= k
    <3>1. Wrong \in SUBSET Nat
      OBVIOUS
    <3> HIDE DEF Wrong
    <3> QED BY <2>1, <3>1, LeastNumber
  <2>3. m \in Nat /\ ~P(m)
    OBVIOUS
  <2>4. PICK k \in Nat : (m = 2 * k \/ m = 2 * k + 1) /\ (m > 0 => k < m)
    BY <2>3, EvenOrOdd
  <2>5. ASSUME NEW v \in Nat, IsPowerOfTwo(v), ((m + 1) * v) * CHUNK_LEN <= Len(d)
        PROVE  /\ v > 0 /\ (m + 1) * v \in Nat /\ m + 1 <= Len(d)
    <3>1. v > 0
      BY <2>5 DEF IsPowerOfTwo
    <3>2. m + 1 <= (m + 1) * v /\ (m + 1) * v \in Nat
      <4>1. 1 * (m + 1) <= v * (m + 1) /\ v * (m + 1) = (m + 1) * v /\ (m + 1) * v \in Nat /\ 1 * (m + 1) = m + 1
        <5>1. 1 \in Nat /\ 1 <= v /\ m + 1 \in Nat
          BY <2>3, <3>1
        <5> QED BY <5>1, Products
      <4> QED BY <4>1
    <3>3. (m + 1) * v <= ((m + 1) * v) * CHUNK_LEN
      <4> DEFINE x == (m + 1) * v
      <4>1. x \in Nat
        BY <3>2
      <4> HIDE DEF x
      <4>2. 1 * x <= CHUNK_LEN * x /\ CHUNK_LEN * x = x * CHUNK_LEN /\ 1 * x = x
        <5>1. 1 \in Nat /\ 1 <= CHUNK_LEN /\ CHUNK_LEN \in Nat
          BY <1>0
        <5> QED BY <4>1, <5>1, Products
      <4>3. x <= x * CHUNK_LEN
        BY <4>2
      <4> QED BY <4>3 DEF x
    <3>4. ((m + 1) * v) * CHUNK_LEN \in Nat
      BY <1>0, <3>2, Products
    <3> DEFINE x == (m + 1) * v  y == x * CHUNK_LEN
    <3>5. x \in Nat /\ y \in Nat /\ m + 1 <= x /\ x <= y /\ y <= Len(d)
      BY <2>5, <3>2, <3>3, <3>4
    <3> HIDE DEF x, y
    <3>6. m + 1 <= Len(d)
      BY <1>0, <2>3, <3>5
    <3> QED BY <3>1, <3>2, <3>6
  <2>6. CASE m = 2 * k
    <3>1. ASSUME NEW v \in Nat, IsPowerOfTwo(v), ((m + 1) * v) * CHUNK_LEN <= Len(d)
          PROVE  MergesTo(Append(Peaks(d)[m][v], At(d, m * v, v)), Count(m), Peaks(d)[m + 1][v])
      <4>1. 2 * k + 1 <= Len(d) /\ 2 * k <= Len(d)
        BY <1>0, <2>3, <2>5, <2>6, <3>1
      <4>2. Peaks(d)[m][v] = Peaks(d)[k][2 * v]
            /\ Peaks(d)[m + 1][v] = Append(Peaks(d)[k][2 * v], At(d, (2 * k) * v, v))
        <5>1. Peaks(d)[2 * k][v] = Peaks(d)[k][2 * v]
          BY <4>1, PeaksEven, ZenonT(40)
        <5>2. Peaks(d)[2 * k + 1][v] = Append(Peaks(d)[k][2 * v], At(d, (2 * k) * v, v))
          BY <4>1, PeaksOdd, ZenonT(40)
        <5> QED BY <2>6, <5>1, <5>2
      <4>3. Count(m) = 0
        <5>1. popcnt(m) = popcnt(k) /\ popcnt(m + 1) = popcnt(k) + 1 /\ popcnt(k) \in Nat
          BY <2>6, PopcntFacts
        <5> QED BY <5>1
      <4>4. Append(Peaks(d)[m][v], At(d, m * v, v)) = Peaks(d)[m + 1][v]
        BY <2>6, <4>2
      <4> HIDE DEF Count
      <4> QED BY <4>3, <4>4, MergesNone
    <3> QED BY <2>3, <3>1
  <2>7. CASE m = 2 * k + 1
    <3>1. P(k)
      <4>1. k \notin Wrong
        <5>1. ~(m <= k)
          BY <2>3, <2>4, <2>7
        <5> HIDE DEF Wrong
        <5> QED BY <2>2, <5>1
      <4> HIDE DEF P
      <4> QED BY <4>1
    <3>2. ASSUME NEW v \in Nat, IsPowerOfTwo(v), ((m + 1) * v) * CHUNK_LEN <= Len(d)
          PROVE  MergesTo(Append(Peaks(d)[m][v], At(d, m * v, v)), Count(m), Peaks(d)[m + 1][v])
      <4> DEFINE s == Peaks(d)[k][2 * v]  a == At(d, (2 * k) * v, v)  b == At(d, m * v, v)
      <4>1. 2 * k + 1 <= Len(d) /\ 2 * (k + 1) <= Len(d) /\ k \in 0 .. Len(d) /\ m + 1 = 2 * (k + 1) /\ k + 1 \in Nat
        BY <1>0, <2>3, <2>5, <2>7, <3>2
      <4>2. Peaks(d)[m][v] = Append(s, a) /\ Peaks(d)[m + 1][v] = Peaks(d)[k + 1][2 * v]
        <5>1. Peaks(d)[2 * k + 1][v] = Append(Peaks(d)[k][2 * v], At(d, (2 * k) * v, v))
          BY <4>1, PeaksOdd, ZenonT(40)
        <5>2. ASSUME NEW x \in Nat, 2 * x <= Len(d) PROVE Peaks(d)[2 * x][v] = Peaks(d)[x][2 * v]
          BY <5>2, <1>even
        <5>3. Peaks(d)[2 * (k + 1)][v] = Peaks(d)[k + 1][2 * v]
          BY <4>1, <5>2
        <5> QED BY <2>7, <4>1, <5>1, <5>3
      <4>3. s \in Seq(Values(d)) /\ a \in Values(d) /\ b \in Values(d)
        <5>1. (2 * k) * v \in Nat /\ m * v \in Nat /\ 2 * v \in Nat
          <6> DEFINE x == 2 * k
          <6>1. x \in Nat /\ m \in Nat /\ 2 \in Nat
            BY <2>3
          <6> HIDE DEF x
          <6>2. x * v \in Nat /\ m * v \in Nat /\ 2 * v \in Nat
            BY <6>1, Products, Zenon
          <6> QED BY <6>2 DEF x
        <5>2. a \in Values(d) /\ b \in Values(d)
          <6>1. ASSUME NEW p \in Nat, NEW r \in Nat PROVE At(d, p, r) \in Values(d)
            BY DEF Values
          <6> QED BY <5>1, <6>1
        <5>3. s \in Seq(Values(d))
          BY <4>1, <5>1, PeaksFacts
        <5> QED BY <5>2, <5>3
      <4>4. MergeTop(Append(Append(s, a), b)) = Append(s, chaining_value(parent_output(a, b)))
        <5> HIDE DEF s, a, b
        <5> QED BY <4>3, MergeTopIs
      <4>5. chaining_value(parent_output(a, b)) = At(d, k * (2 * v), 2 * v)
        <5> DEFINE p == (2 * k) * v
        <5>1. p \in Nat /\ p = k * (2 * v) /\ p + v = m * v /\ p + 2 * v = (m + 1) * v
          <6>1. (2 * k) * v = k * (2 * v) /\ (2 * k) * v \in Nat
            OBVIOUS
          <6>2. (2 * k + 1) * v = (2 * k) * v + v
            OBVIOUS
          <6>3. ((2 * k + 1) + 1) * v = (2 * k + 1) * v + v
            OBVIOUS
          <6> QED BY <2>7, <6>1, <6>2, <6>3
        <5> HIDE DEF p
        <5>2. (p + 2 * v) * CHUNK_LEN <= Len(d)
          BY <3>2, <5>1
        <5>3. At(d, p, 2 * v) = chaining_value(parent_output(At(d, p, v), At(d, p + v, v)))
          BY <3>2, <5>1, <5>2, TwiceAsWide, ZenonT(40)
        <5>4. a = At(d, p, v) /\ b = At(d, p + v, v)
          BY <5>1 DEF p
        <5> QED BY <5>1, <5>3, <5>4
      <4>6. MergesTo(Append(s, At(d, k * (2 * v), 2 * v)), Count(k), Peaks(d)[k + 1][2 * v])
        <5>1. 2 * v \in Nat /\ IsPowerOfTwo(2 * v)
          <6>1. IsPowerOfTwo(2 * v)
            BY <3>2, TwicePowerOfTwo
          <6> QED BY <6>1
        <5>2. (k + 1) * (2 * v) = (m + 1) * v
          BY <2>7
        <5> HIDE DEF Count
        <5> QED BY <3>1, <3>2, <5>1, <5>2
      <4>7. Count(m) = Count(k) + 1
        <5>1. popcnt(m) = popcnt(k) + 1 /\ popcnt(m + 1) = popcnt(k + 1) /\ popcnt(k) \in Nat /\ popcnt(k + 1) \in Nat
          BY <2>7, <4>1, PopcntFacts
        <5> QED BY <5>1
      <4>8. Count(k) \in Nat
        BY <1>1
      <4> HIDE DEF Count, s, a, b
      <4>9. MergesTo(Append(Append(s, a), b), Count(k) + 1, Peaks(d)[k + 1][2 * v])
        BY <4>4, <4>5, <4>6, <4>8, MergesOneMore
      <4> QED BY <4>2, <4>7, <4>9 DEF b
    <3> QED BY <2>3, <3>2
  <2> QED BY <2>4, <2>6, <2>7
<1>3. P(j)
  <2>1. j \notin Wrong
    BY <1>2
  <2> HIDE DEF P
  <2> QED BY <2>1
<1> QED BY <1>1, <1>3

-----------------------------------------------------------------------------
(* Updates                                                                 *)

\* One step of ShrinkToDivide.
ShrinkRow(f, count, l) == IF count % l # 0 THEN f[l \div 2] ELSE l

\* It depends on smaller lengths only.
LEMMA ShrinkRowSame ==
  ASSUME NEW f, NEW g, NEW count \in Nat, NEW k \in Nat, k > 0, \A j \in 1 .. (k - 1) : f[j] = g[j]
  PROVE  ShrinkRow(f, count, k) = ShrinkRow(g, count, k)
<1>1. CASE k = 1
  <2>1. count % 1 = 0
    OBVIOUS
  <2> QED BY <1>1, <2>1 DEF ShrinkRow
<1>2. CASE k # 1
  <2>1. k \div 2 \in 1 .. (k - 1)
    BY <1>2, Halves
  <2>2. f[k \div 2] = g[k \div 2]
    BY <2>1
  <2> QED BY <2>2 DEF ShrinkRow
<1> QED BY <1>1, <1>2

\* Its recursion.
IsShrunk(f, len, count) == f = [i \in 1 .. len |-> ShrinkRow(f, count, i)]

\* The recursion of ShrinkToDivide defines a function.
LEMMA ShrinkExists ==
  ASSUME NEW len \in Nat, NEW count \in Nat
  PROVE  \E f : IsShrunk(f, len, count)
<1> DEFINE Has(k) == \E f : f = [i \in 1 .. k |-> ShrinkRow(f, count, i)]
           Without == {k \in Nat : ~Has(k + 1 - 1)}
<1>1. len \in Nat
  OBVIOUS
<1>2. Without = {}
  <2>1. SUFFICES ASSUME Without # {} PROVE FALSE
    OBVIOUS
  <2>2. PICK m \in Without : \A j \in Without : m <= j
    <3>1. Without \in SUBSET Nat
      OBVIOUS
    <3> HIDE DEF Without
    <3> QED BY <2>1, <3>1, LeastNumber
  <2> DEFINE k == m + 1 - 1
  <2>3. m \in Nat /\ k \in Int /\ ~Has(k)
    OBVIOUS
  <2>4. m # 0
    <3>1. ASSUME m = 0 PROVE FALSE
      <4> DEFINE g == [i \in 1 .. k |-> 0]
      <4>1. 1 .. k = {}
        BY <3>1
      <4>2. g = [i \in 1 .. k |-> ShrinkRow(g, count, i)]
        <5> HIDE DEF k
        <5> QED BY <4>1
      <4>3. Has(k)
        <5> HIDE DEF g, k
        <5> QED BY <4>2
      <4> QED BY <2>3, <4>3
    <3> QED BY <3>1
  <2>5. PICK f : f = [i \in 1 .. (k - 1) |-> ShrinkRow(f, count, i)]
    <3>1. m - 1 \in Nat /\ ~(m <= m - 1) /\ (m - 1) + 1 - 1 = k - 1
      BY <2>3, <2>4
    <3>2. Has((m - 1) + 1 - 1)
      <4> HIDE DEF Has
      <4> QED BY <2>2, <3>1
    <3>3. Has(k - 1)
      <4> HIDE DEF Has, k
      <4> QED BY <3>1, <3>2
    <3> QED BY <3>3
  <2>6. k \in Nat /\ k >= 1
    BY <2>3, <2>4
  <2> HIDE DEF k
  <2> DEFINE g == [i \in 1 .. k |-> IF i = k THEN ShrinkRow(f, count, k) ELSE f[i]]
  <2>7. \A i \in 1 .. (k - 1) : g[i] = f[i] /\ f[i] = ShrinkRow(f, count, i)
    <3>1. \A i \in 1 .. (k - 1) : g[i] = f[i]
      BY <2>6
    <3> HIDE DEF g
    <3>2. \A i \in 1 .. (k - 1) : f[i] = ShrinkRow(f, count, i)
      BY <2>5
    <3> QED BY <3>1, <3>2
  <2>8. g[k] = ShrinkRow(f, count, k)
    BY <2>6
  <2>9. g = [i \in 1 .. k |-> g[i]]
    OBVIOUS
  <2> HIDE DEF g
  <2>10. ASSUME NEW i \in 1 .. k
        PROVE  g[i] = ShrinkRow(g, count, i)
    <3>1. i \in Nat /\ \A j \in 1 .. (i - 1) : f[j] = g[j]
      BY <2>6, <2>7
    <3>2. ShrinkRow(f, count, i) = ShrinkRow(g, count, i)
      BY <3>1, ShrinkRowSame
    <3>3. i = k \/ i \in 1 .. (k - 1)
      BY <2>6
    <3> QED BY <2>7, <2>8, <3>2, <3>3
  <2>11. g = [i \in 1 .. k |-> ShrinkRow(g, count, i)]
    BY <2>9, <2>10
  <2>12. Has(k)
    BY <2>11
  <2> QED BY <2>3, <2>12
<1>3. Has(len)
  <2>1. len - 1 + 1 \in Nat /\ (len - 1 + 1) + 1 - 1 = len
    BY <1>1
  <2> HIDE DEF Has
  <2> QED BY <1>2, <2>1
<1> QED BY <1>3 DEF IsShrunk

\* The subtree is of a power of two of chunks that divides the chunks so far.
LEMMA ShrinkFacts ==
  ASSUME NEW m \in Nat, IsPowerOfTwo(m), CHUNK_LEN <= m, NEW t \in Nat
  PROVE  \E p \in Nat, x \in Nat : /\ IsPowerOfTwo(p)
                                   /\ ShrinkToDivide(m, t * CHUNK_LEN) = p * CHUNK_LEN
                                   /\ p * CHUNK_LEN <= m
                                   /\ t = x * p
<1> DEFINE C == CHUNK_LEN  count == t * C  f == CHOOSE g : IsShrunk(g, m, count)
           P(k) == \E p \in Nat, x \in Nat : IsPowerOfTwo(p) /\ f[k * C] = p * C /\ p * C <= m /\ t = x * p
           Wrong == {k \in Nat : IsPowerOfTwo(k) /\ k * C <= m /\ ~P(k)}
<1>0. C \in Nat \ {0} /\ count \in Nat /\ IsPowerOfTwo(C)
  BY ChunkLenFacts
<1>1. ShrinkToDivide(m, count) = f[m]
  BY DEF ShrinkToDivide, IsShrunk, ShrinkRow
<1>2. IsShrunk(f, m, count)
  <2> HIDE DEF count
  <2> QED BY <1>0, ShrinkExists
<1> HIDE DEF f
<1>3. \A l \in 1 .. m : f[l] = IF count % l # 0 THEN f[l \div 2] ELSE l
  BY <1>2 DEF IsShrunk, ShrinkRow
<1>4. Wrong = {}
  <2>1. SUFFICES ASSUME Wrong # {} PROVE FALSE
    OBVIOUS
  <2>2. PICK k \in Wrong : \A j \in Wrong : k <= j
    <3>1. Wrong \in SUBSET Nat
      OBVIOUS
    <3> HIDE DEF Wrong
    <3> QED BY <2>1, <3>1, LeastNumber
  <2>3. k \in Nat /\ IsPowerOfTwo(k) /\ k * C <= m /\ ~P(k) /\ k > 0
    BY DEF IsPowerOfTwo
  <2> DEFINE l == k * C
  <2>4. l \in 1 .. m
    <3>1. 1 * C <= k * C /\ 1 * C = C /\ k * C \in Nat
      <4>1. 1 \in Nat /\ 1 <= k
        BY <2>3
      <4> QED BY <2>3, <4>1, ChunkProducts
    <3> QED BY <1>0, <2>3, <3>1
  <2>5. CASE count % l = 0
    <3> DEFINE q == count \div l
    <3>1. q \in Nat /\ count = l * q
      <4> HIDE DEF count, l
      <4> QED BY <1>0, <2>4, <2>5, SMTT(30)
    <3> HIDE DEF q
    <3>2. (q * k) * C = t * C /\ q * k \in Nat
      <4>1. q * k \in Nat /\ (q * k) * C = q * (k * C) /\ q * l = l * q
        BY <1>0, <2>3, <2>4, <3>1, Products
      <4> QED BY <3>1, <4>1
    <3>3. t = q * k
      <4> DEFINE y == q * k
      <4>1. y \in Nat /\ y * C = t * C /\ t * C \in Nat
        BY <3>2, <1>0
      <4> HIDE DEF y
      <4>2. ~(y < t) /\ ~(t < y)
        BY <1>0, <4>1, ChunkProducts
      <4> QED BY <4>1, <4>2 DEF y
    <3>4. f[l] = k * C
      <4> HIDE DEF count, Wrong
      <4> QED BY <1>3, <2>4, <2>5
    <3>5. P(k)
      BY <2>3, <3>1, <3>3, <3>4
    <3> QED BY <2>3, <3>5
  <2>6. CASE count % l # 0
    <3>1. k # 1
      <4>1. SUFFICES ASSUME k = 1 PROVE FALSE
        OBVIOUS
      <4>2. l = C
        BY <1>0, <4>1
      <4>3. C * t = count /\ count \div C = t
        <5>1. C * t = count
          BY <1>0
        <5> HIDE DEF count
        <5> QED BY <1>0, <5>1, Quotient
      <4>4. count % C = 0
        <5> HIDE DEF count
        <5>1. count = C * (count \div C) + (count % C) /\ count % C \in Nat
          BY <1>0, SMTT(30)
        <5> QED BY <1>0, <4>3, <5>1
      <4> HIDE DEF count, l
      <4> QED BY <2>6, <4>2, <4>4
    <3>2. PICK h \in Nat \ {0} : k = 2 * h /\ IsPowerOfTwo(h) /\ h < k
      BY <2>3, <3>1, HalfPowerOfTwo
    <3>3. l \div 2 = h * C /\ h * C <= m
      <4>1. l = h * C + h * C /\ h * C \in Nat
        <5>1. k = h + h
          BY <3>2
        <5> QED BY <3>2, <5>1, ChunkProducts
      <4> HIDE DEF l
      <4> QED BY <2>4, <4>1
    <3>4. P(h)
      <4>1. h \in Nat /\ ~(k <= h)
        BY <2>3, <3>2
      <4>2. h \notin Wrong
        <5> HIDE DEF Wrong
        <5> QED BY <2>2, <4>1
      <4> HIDE DEF P
      <4> QED BY <3>2, <3>3, <4>1, <4>2
    <3>5. f[l] = f[h * C]
      <4> HIDE DEF count, Wrong, l
      <4> QED BY <1>3, <2>4, <2>6, <3>3
    <3>6. P(k)
      BY <3>4, <3>5
    <3> QED BY <2>3, <3>6
  <2> QED BY <2>5, <2>6
<1>5. PICK k \in Nat \ {0} : IsPowerOfTwo(k) /\ m = k * C
  BY <1>0, PowersDivide
<1>6. P(k)
  <2>1. k \in Nat /\ k * C <= m
    BY <1>5
  <2>2. k \notin Wrong
    BY <1>4
  <2> HIDE DEF P
  <2> QED BY <1>5, <2>1, <2>2
<1> QED BY <1>1, <1>5, <1>6

\* A stack that needs no merging is left alone.
LEMMA MergeMerged ==
  ASSUME NEW S, NEW d \in Seq(S), NEW j \in 0 .. Len(d), NEW u \in Nat, IsPowerOfTwo(u)
  PROVE  merge_cv_stack(Peaks(d)[j][u], j * u) = Peaks(d)[j][u]
<1>1. Len(Peaks(d)[j][u]) = popcnt(j) /\ j \in Nat
  BY PeaksFacts
<1>2. popcnt(j * u) = popcnt(j) /\ popcnt(j) \in Nat
  BY <1>1, PopcntOfMultiple, PopcntFacts
<1>3. Len(Peaks(d)[j][u]) <= popcnt(j * u)
  BY <1>1, <1>2
<1> QED BY <1>3 DEF merge_cv_stack

\* A value pushed is merged by the next push.
LEMMA MergeNext ==
  ASSUME NEW S, NEW d \in Seq(S), NEW j \in Nat, NEW u \in Nat, IsPowerOfTwo(u),
         ((j + 1) * u) * CHUNK_LEN <= Len(d)
  PROVE  /\ Append(Peaks(d)[j][u], At(d, j * u, u)) \in Seq(Values(d))
         /\ merge_cv_stack(Append(Peaks(d)[j][u], At(d, j * u, u)), (j + 1) * u) = Peaks(d)[j + 1][u]
         /\ j + 1 <= Len(d)
<1> DEFINE s == Peaks(d)[j][u]  a == At(d, j * u, u)  w == Append(s, a)
<1>0. j + 1 <= Len(d) /\ j + 1 \in Nat /\ u > 0
  <2>1. u > 0 /\ CHUNK_LEN \in Nat \ {0} /\ Len(d) \in Nat
    BY ChunkLenFacts DEF IsPowerOfTwo
  <2> DEFINE x == (j + 1) * u  y == x * CHUNK_LEN
  <2>2. x \in Nat /\ j + 1 <= x
    <3>1. 1 \in Nat /\ 1 <= u /\ j + 1 \in Nat
      BY <2>1
    <3>2. 1 * (j + 1) <= u * (j + 1) /\ u * (j + 1) = (j + 1) * u /\ (j + 1) * u \in Nat
      BY <3>1, Products
    <3>3. 1 * (j + 1) = j + 1
      OBVIOUS
    <3> QED BY <3>2, <3>3
  <2>3. y \in Nat /\ x <= y /\ y <= Len(d)
    <3> HIDE DEF x
    <3>1. 1 \in Nat /\ 1 <= CHUNK_LEN
      BY <2>1
    <3>2. 1 * x <= CHUNK_LEN * x /\ CHUNK_LEN * x = x * CHUNK_LEN /\ x * CHUNK_LEN \in Nat
      BY <2>1, <2>2, <3>1, Products
    <3>3. 1 * x = x
      BY <2>2
    <3> QED BY <3>2, <3>3 DEF x
  <2> HIDE DEF x, y
  <2> QED BY <2>1, <2>2, <2>3
<1>1. s \in Seq(Values(d)) /\ Len(s) = popcnt(j)
  <2>1. j \in 0 .. Len(d)
    BY <1>0
  <2> QED BY <2>1, PeaksFacts
<1>2. a \in Values(d)
  <2>1. j * u \in Nat
    OBVIOUS
  <2> QED BY <2>1 DEF Values
<1>3. /\ popcnt(j) \in Nat /\ popcnt(j + 1) \in Nat /\ popcnt(j + 1) <= popcnt(j) + 1
      /\ MergesTo(w, (popcnt(j) + 1) - popcnt(j + 1), Peaks(d)[j + 1][u])
  BY MergePushed
<1>4. popcnt((j + 1) * u) = popcnt(j + 1)
  BY <1>0, PopcntOfMultiple
<1> HIDE DEF s, a
<1>5. w \in Seq(Values(d)) /\ Len(w) = popcnt(j) + 1
  BY <1>1, <1>2
<1> HIDE DEF w
<1>6. merge_cv_stack(w, (j + 1) * u) = Peaks(d)[j + 1][u]
  <2> DEFINE total == (j + 1) * u
  <2>1. Len(w) \in Nat /\ popcnt(total) \in Nat /\ popcnt(total) <= Len(w)
        /\ MergesTo(w, Len(w) - popcnt(total), Peaks(d)[j + 1][u])
    BY <1>3, <1>4, <1>5
  <2> HIDE DEF total
  <2>2. merge_cv_stack(w, total) = Peaks(d)[j + 1][u]
    BY <2>1, MergeIs
  <2> QED BY <2>2 DEF total
<1> QED BY <1>0, <1>5, <1>6 DEF w, s, a

\* A hasher between two chunks, and a stack it may have after t of them.
Between(t, s) == [chunk |-> new_chunk(t), cv_stack |-> s]

\* A stack that the next push or the end of an update makes what Peaks says.
Merged(s, d, t) ==
  /\ s \in Seq(Values(d))
  /\ merge_cv_stack(s, t) = Peaks(d)[t][1]
  /\ t = 0 => s = <<>>

\* The last two values were not merged, since they may be the root's.
Lazy(s, d, t) ==
  \E x \in Nat, u \in Nat :
    /\ IsPowerOfTwo(u) /\ t = (x + 1) * (2 * u)
    /\ s = Append(Append(Peaks(d)[x][2 * u], At(d, x * (2 * u), u)), At(d, x * (2 * u) + u, u))

\* Pushing the value of the next chunk.
LEMMA PushOneChunk ==
  ASSUME NEW S, NEW d \in Seq(S), NEW t \in Nat, (t + 1) * CHUNK_LEN <= Len(d),
         NEW s, Merged(s, d, t)
  PROVE  Merged(push_cv(s, At(d, t, 1), t), d, t + 1)
<1>1. t * 1 = t /\ (t + 1) * 1 = t + 1 /\ 1 \in Nat /\ t + 1 # 0
  OBVIOUS
<1>2. push_cv(s, At(d, t, 1), t) = Append(Peaks(d)[t][1], At(d, t, 1))
  BY DEF push_cv, Merged
<1>3. ASSUME NEW u \in Nat, IsPowerOfTwo(u), ((t + 1) * u) * CHUNK_LEN <= Len(d)
      PROVE  /\ Append(Peaks(d)[t][u], At(d, t * u, u)) \in Seq(Values(d))
             /\ merge_cv_stack(Append(Peaks(d)[t][u], At(d, t * u, u)), (t + 1) * u) = Peaks(d)[t + 1][u]
  BY <1>3, MergeNext
<1>4. /\ Append(Peaks(d)[t][1], At(d, t * 1, 1)) \in Seq(Values(d))
      /\ merge_cv_stack(Append(Peaks(d)[t][1], At(d, t * 1, 1)), (t + 1) * 1) = Peaks(d)[t + 1][1]
  <2>1. ((t + 1) * 1) * CHUNK_LEN <= Len(d)
    BY <1>1
  <2> QED BY <1>1, <1>3, <2>1, OneIsPowerOfTwo, Zenon
<1> QED BY <1>1, <1>2, <1>4 DEF Merged

-----------------------------------------------------------------------------
(* Subtrees are pushed                                                     *)

\* Pushing the two values of the next subtree: they are not merged yet.
LEMMA PushPair ==
  ASSUME NEW S, NEW d \in Seq(S), NEW x \in Nat, NEW h \in Nat, IsPowerOfTwo(h),
         NEW t \in Nat, t = x * (2 * h), (t + 2 * h) * CHUNK_LEN <= Len(d),
         NEW s, Merged(s, d, t)
  PROVE  LET w == push_cv(push_cv(s, At(d, t, h), t), At(d, t + h, h), t + h)
         IN Merged(w, d, t + 2 * h) /\ Lazy(w, d, t + 2 * h)
<1>m. ASSUME NEW j \in Nat, j * h <= Len(d), NEW v \in Nat
      PROVE  Peaks(d)[j * h][v] = Peaks(d)[j][h * v]
  <2> DEFINE n == j * h  w == h * v
  <2>1. n = j * h /\ n <= Len(d) /\ w = h * v /\ IsProduct(n, j, h) /\ IsProduct(w, h, v)
    BY <1>m DEF IsProduct
  <2> HIDE DEF n, w
  <2>2. Peaks(d)[n][v] = Peaks(d)[j][w]
    BY <2>1, PeaksOfMultiple
  <2> QED BY <2>1, <2>2
<1> DEFINE k == 2 * x  a == At(d, t, h)  b == At(d, t + h, h)
<1>0. Len(d) \in Nat /\ h > 0 /\ CHUNK_LEN \in Nat \ {0}
  BY ChunkLenFacts DEF IsPowerOfTwo
<1>1. /\ k \in Nat /\ t = k * h /\ t + h = (k + 1) * h /\ t + 2 * h = (k + 2) * h
      /\ t + 2 * h = (x + 1) * (2 * h) /\ h * 1 = h /\ k + 1 \in Nat /\ k + 2 = (k + 1) + 1 /\ k + 2 = 2 * (x + 1)
      /\ t + h \in Nat /\ t + 2 * h \in Nat
  <2>1. x * (2 * h) = (2 * x) * h
    OBVIOUS
  <2>2. (2 * x + 1) * h = (2 * x) * h + h
    OBVIOUS
  <2>3. (2 * x + 2) * h = (2 * x) * h + 2 * h
    OBVIOUS
  <2>4. (x + 1) * (2 * h) = x * (2 * h) + 2 * h
    OBVIOUS
  <2>5. k \in Nat /\ h * 1 = h /\ k + 1 \in Nat /\ k + 2 = (k + 1) + 1 /\ k + 2 = 2 * (x + 1)
    OBVIOUS
  <2>6. t + h \in Nat /\ t + 2 * h \in Nat
    OBVIOUS
  <2> QED BY <2>1, <2>2, <2>3, <2>4, <2>5, <2>6
<1>2. t + 2 * h <= Len(d)
  <2> DEFINE y == t + 2 * h  z == y * CHUNK_LEN
  <2>1. y \in Nat
    BY <1>1
  <2> HIDE DEF y
  <2>2. 1 * y <= CHUNK_LEN * y /\ CHUNK_LEN * y = y * CHUNK_LEN /\ y * CHUNK_LEN \in Nat
    <3>1. 1 \in Nat /\ 1 <= CHUNK_LEN
      BY <1>0
    <3> QED BY <1>0, <2>1, <3>1, Products
  <2>3. 1 * y = y
    BY <2>1
  <2>4. z <= Len(d)
    BY DEF y
  <2> HIDE DEF z
  <2>5. y <= z /\ z \in Nat
    BY <2>2, <2>3 DEF z
  <2> QED BY <1>0, <2>1, <2>4, <2>5 DEF y
<1>3. k <= Len(d) /\ k + 1 <= Len(d) /\ k + 2 <= Len(d) /\ k \in 0 .. Len(d) /\ k + 1 \in 0 .. Len(d)
  <2>1. k + 2 <= (k + 2) * h
    <3>1. 1 * (k + 2) <= h * (k + 2) /\ h * (k + 2) = (k + 2) * h
      <4>1. 1 \in Nat /\ 1 <= h /\ k + 2 \in Nat
        BY <1>0, <1>1
      <4> HIDE DEF k
      <4> QED BY <4>1, Products
    <3>2. 1 * (k + 2) = k + 2
      BY <1>1
    <3> HIDE DEF k
    <3> QED BY <3>1, <3>2
  <2> HIDE DEF k
  <2> QED BY <1>0, <1>1, <1>2, <2>1
\* The first push.
<1>4. Peaks(d)[t][1] = Peaks(d)[k][h]
  <2>1. k * h <= Len(d)
    BY <1>0, <1>1, <1>2
  <2>2. ASSUME NEW v \in Nat PROVE Peaks(d)[k * h][v] = Peaks(d)[k][h * v]
    <3> HIDE DEF k
    <3> QED BY <1>1, <1>m, <2>1
  <2>3. 1 \in Nat
    OBVIOUS
  <2> QED BY <1>1, <2>2, <2>3
<1>5. Peaks(d)[k][h] = Peaks(d)[x][2 * h] /\ Peaks(d)[k + 1][h] = Append(Peaks(d)[x][2 * h], At(d, k * h, h))
  BY <1>3, PeaksEven, PeaksOdd, ZenonT(40)
<1>6. push_cv(s, a, t) = Peaks(d)[k + 1][h]
  <2>1. merge_cv_stack(s, t) = Peaks(d)[t][1]
    BY DEF Merged
  <2>2. a = At(d, k * h, h)
    BY <1>1
  <2> HIDE DEF a, k
  <2> QED BY <1>4, <1>5, <2>1, <2>2 DEF push_cv
\* The second.
<1> DEFINE w == push_cv(push_cv(s, a, t), b, t + h)
<1>7. w = Append(Peaks(d)[k + 1][h], b)
  <2>1. ASSUME NEW j \in 0 .. Len(d) PROVE merge_cv_stack(Peaks(d)[j][h], j * h) = Peaks(d)[j][h]
    BY MergeMerged
  <2>2. merge_cv_stack(Peaks(d)[k + 1][h], t + h) = Peaks(d)[k + 1][h]
    <3> HIDE DEF k
    <3> QED BY <1>1, <1>3, <2>1
  <2> HIDE DEF a, b, k
  <2> QED BY <1>6, <2>2 DEF push_cv
<1>8. b = At(d, (k + 1) * h, h)
  BY <1>1
<1>9. /\ Append(Peaks(d)[k + 1][h], At(d, (k + 1) * h, h)) \in Seq(Values(d))
      /\ merge_cv_stack(Append(Peaks(d)[k + 1][h], At(d, (k + 1) * h, h)), (k + 2) * h) = Peaks(d)[k + 2][h]
  <2>1. ASSUME NEW j \in Nat, ((j + 1) * h) * CHUNK_LEN <= Len(d)
        PROVE  /\ Append(Peaks(d)[j][h], At(d, j * h, h)) \in Seq(Values(d))
               /\ merge_cv_stack(Append(Peaks(d)[j][h], At(d, j * h, h)), (j + 1) * h) = Peaks(d)[j + 1][h]
    BY <2>1, MergeNext
  <2>2. (((k + 1) + 1) * h) * CHUNK_LEN <= Len(d)
    BY <1>1
  <2> HIDE DEF k
  <2> QED BY <1>1, <2>1, <2>2
<1>10. Peaks(d)[t + 2 * h][1] = Peaks(d)[k + 2][h]
  <2>1. (k + 2) * h <= Len(d) /\ k + 2 \in Nat /\ 1 \in Nat
    BY <1>1, <1>2
  <2>2. ASSUME NEW v \in Nat, NEW j \in Nat, j * h <= Len(d) PROVE Peaks(d)[j * h][v] = Peaks(d)[j][h * v]
    BY <1>m, <2>2
  <2> HIDE DEF k
  <2>3. Peaks(d)[(k + 2) * h][1] = Peaks(d)[k + 2][h * 1]
    BY <2>1, <2>2
  <2> QED BY <1>1, <2>3
<1>11. Merged(w, d, t + 2 * h)
  <2>1. t + 2 * h # 0
    BY <1>0, <1>1
  <2> HIDE DEF w, k, b
  <2> QED BY <1>1, <1>7, <1>8, <1>9, <1>10, <2>1 DEF Merged
<1>12. Lazy(w, d, t + 2 * h)
  <2>1. w = Append(Append(Peaks(d)[x][2 * h], At(d, x * (2 * h), h)), At(d, x * (2 * h) + h, h))
    <3>1. k * h = x * (2 * h) /\ (k + 1) * h = x * (2 * h) + h
      BY <1>1
    <3> HIDE DEF w, k, b
    <3> QED BY <1>5, <1>7, <1>8, <3>1
  <2> HIDE DEF w, k
  <2> QED BY <1>1, <2>1 DEF Lazy
<1> QED BY <1>11, <1>12

\* What hash_subtree does between two chunks.
LEMMA HashSubtreeIs ==
  ASSUME NEW t, NEW s, NEW input, NEW len,
         len = ShrinkToDivide(round_down_to_power_of_2(Len(input)), t * CHUNK_LEN),
         NEW p, len \div CHUNK_LEN = p
  PROVE  hash_subtree(Between(t, s), input) =
           LET subtree == SubSeq(input, 1, len)
               pair == compress_subtree_to_parent_node(subtree, t)
           IN [h |-> Between(t + p,
                       IF len <= CHUNK_LEN
                         THEN push_cv(s, chunk_cv(subtree, t), t)
                         ELSE push_cv(push_cv(s, pair[1], t), pair[2], t + p \div 2)),
               input |-> From(input, len + 1)]
<1> DEFINE h == Between(t, s)
<1>1. h.chunk = new_chunk(t) /\ h.chunk.counter = t /\ h.cv_stack = s
  BY DEF Between, new_chunk
<1>2. [new_chunk(t) EXCEPT !.counter = @ + p] = new_chunk(t + p)
  BY DEF new_chunk
<1> HIDE DEF h
<1>3. hash_subtree(h, input) =
           LET subtree == SubSeq(input, 1, len)
               pair == compress_subtree_to_parent_node(subtree, t)
           IN [h |-> [chunk |-> [h.chunk EXCEPT !.counter = @ + p],
                      cv_stack |->
                       IF len <= CHUNK_LEN
                         THEN push_cv(s, chunk_cv(subtree, t), t)
                         ELSE push_cv(push_cv(s, pair[1], t), pair[2], t + p \div 2)],
               input |-> From(input, len + 1)]
  BY <1>1, Zenon DEF hash_subtree
<1> QED BY <1>1, <1>2, <1>3, Zenon DEF h, Between

\* hash_subtree takes in the next subtree.
LEMMA HashSubtree ==
  ASSUME NEW S, NEW d \in Seq(S), simd_degree \in Nat, IsPowerOfTwo(simd_degree),
         NEW t \in Nat, NEW e \in Nat, e <= Len(d), t * CHUNK_LEN + CHUNK_LEN < e,
         NEW s, Merged(s, d, t)
  PROVE  \E i \in Nat : \E w :
           /\ hash_subtree(Between(t, s), SubSeq(d, t * CHUNK_LEN + 1, e)) =
                [h |-> Between(i, w), input |-> SubSeq(d, i * CHUNK_LEN + 1, e)]
           /\ t < i /\ i * CHUNK_LEN <= e
           /\ Merged(w, d, i)
           /\ i * CHUNK_LEN = e => Lazy(w, d, i)
<1> DEFINE C == CHUNK_LEN  from == t * C  input == SubSeq(d, from + 1, e)
           m == round_down_to_power_of_2(Len(input))
<1>0. C \in Nat \ {0} /\ from \in Nat /\ Len(d) \in Nat /\ from + C < e /\ IsPowerOfTwo(C)
  BY ChunkLenFacts
<1>1. input \in Seq(S) /\ Len(input) = e - from
  <2>1. from <= e
    BY <1>0
  <2> HIDE DEF from
  <2> QED BY <1>0, <2>1, PartFacts
<1> HIDE DEF input
<1>2. m \in Nat /\ m <= Len(input) /\ IsPowerOfTwo(m) /\ C <= m
  <2>1. Len(input) \in Nat \ {0} /\ C < Len(input)
    <3> HIDE DEF from
    <3> QED BY <1>0, <1>1
  <2>2. m \in Nat /\ m <= Len(input) /\ Len(input) < 2 * m /\ IsPowerOfTwo(m)
    BY <2>1, DownFacts
  <2> HIDE DEF m
  <2>3. ~(m < C)
    <3>1. SUFFICES ASSUME m < C PROVE FALSE
      OBVIOUS
    <3>2. 2 * m <= C
      BY <1>0, <2>2, <3>1, NextPowerOfTwo
    <3> QED BY <1>0, <2>1, <2>2, <3>2
  <2> QED BY <1>0, <2>2, <2>3
<1> HIDE DEF m
<1>3. PICK p \in Nat : \E x \in Nat : /\ IsPowerOfTwo(p)
                                      /\ ShrinkToDivide(m, t * CHUNK_LEN) = p * CHUNK_LEN
                                      /\ p * CHUNK_LEN <= m
                                      /\ t = x * p
  BY <1>2, ShrinkFacts
<1>4. PICK x \in Nat : /\ IsPowerOfTwo(p)
                       /\ ShrinkToDivide(m, t * CHUNK_LEN) = p * CHUNK_LEN
                       /\ p * CHUNK_LEN <= m
                       /\ t = x * p
  BY <1>3
<1> DEFINE len == p * C  i == t + p
<1>5. /\ len \in Nat /\ p > 0 /\ C <= len /\ from + len <= e /\ i * C = from + len /\ i \in Nat /\ t < i
      /\ i * C <= Len(d) /\ len <= Len(input)
  <2>1. p > 0 /\ 1 \in Nat /\ 1 <= p
    BY <1>4 DEF IsPowerOfTwo
  <2>2. 1 * C <= p * C /\ 1 * C = C /\ p * C \in Nat /\ (t + p) * C = t * C + p * C
    BY <2>1, ChunkProducts
  <2> HIDE DEF C
  <2> QED BY <1>0, <1>1, <1>2, <1>4, <2>1, <2>2 DEF C
<1>6. len \div C = p
  <2>1. C * p = len
    BY <1>0
  <2> HIDE DEF len, C
  <2>2. len \in Nat /\ C * p <= len /\ len < C * p + C
    BY <1>0, <1>5, <2>1
  <2> QED BY <1>0, <2>2, Quotient
<1>7. SubSeq(input, 1, len) = SubSeq(d, t * C + 1, (t + p) * C)
      /\ From(input, len + 1) = SubSeq(d, (t + p) * C + 1, e)
  <2> HIDE DEF from, len, i
  <2>1. ASSUME NEW a \in Nat, NEW b \in Nat, a <= b, from + b <= e
        PROVE  SubSeq(SubSeq(d, from + 1, e), a + 1, b) = SubSeq(d, from + a + 1, from + b)
    <3>1. from <= e
      BY <1>0
    <3> QED BY <1>0, <2>1, <3>1, PartOfPart
  <2>2. SubSeq(input, 0 + 1, len) = SubSeq(d, from + 0 + 1, from + len)
    <3>1. 0 \in Nat /\ 0 <= len
      BY <1>5
    <3> QED BY <1>5, <2>1, <3>1 DEF input
  <2>3. SubSeq(input, len + 1, e - from) = SubSeq(d, from + len + 1, from + (e - from))
    <3>1. e - from \in Nat /\ len <= e - from /\ from + (e - from) <= e
      BY <1>0, <1>5
    <3> QED BY <1>5, <2>1, <3>1 DEF input
  <2>4. 0 + 1 = 1 /\ from + 0 + 1 = from + 1 /\ from + (e - from) = e
    BY <1>0
  <2>5. SubSeq(input, 1, len) = SubSeq(d, from + 1, from + len)
    BY <2>2, <2>4
  <2>6. From(input, len + 1) = SubSeq(d, from + len + 1, e)
    BY <1>1, <2>3, <2>4 DEF From
  <2>7. i = t + p /\ from = t * C
    BY DEF i, from
  <2> QED BY <1>5, <2>5, <2>6, <2>7
<1>8. (t + p) * C <= Len(d)
  BY <1>5
<1> DEFINE subtree == SubSeq(d, t * C + 1, (t + p) * C)
           pair == compress_subtree_to_parent_node(subtree, t)
           w == IF len <= C THEN push_cv(s, chunk_cv(subtree, t), t)
                            ELSE push_cv(push_cv(s, pair[1], t), pair[2], t + p \div 2)
<1>9. hash_subtree(Between(t, s), input) = [h |-> Between(i, w), input |-> SubSeq(d, i * C + 1, e)]
  <2>1. len = ShrinkToDivide(round_down_to_power_of_2(Len(input)), t * CHUNK_LEN)
    BY <1>4 DEF m
  <2> HIDE DEF len
  <2>2. hash_subtree(Between(t, s), input) =
           LET st == SubSeq(input, 1, len)
               pr == compress_subtree_to_parent_node(st, t)
           IN [h |-> Between(t + p,
                       IF len <= CHUNK_LEN
                         THEN push_cv(s, chunk_cv(st, t), t)
                         ELSE push_cv(push_cv(s, pr[1], t), pr[2], t + p \div 2)),
               input |-> From(input, len + 1)]
    BY <1>6, <2>1, HashSubtreeIs
  <2> QED BY <1>7, <2>2, Zenon
<1>10. CASE p = 1
  <2>1. len <= C /\ i * C < e
    BY <1>0, <1>5, <1>10
  <2>2. w = push_cv(s, At(d, t, 1), t)
    <3>1. chunk_cv(SubSeq(d, t * C + 1, (t + 1) * C), t) = At(d, t, 1)
      BY <1>8, <1>10, ChunkAt
    <3> HIDE DEF len
    <3> QED BY <1>10, <2>1, <3>1
  <2>3. Merged(push_cv(s, At(d, t, 1), t), d, t + 1)
    BY <1>8, <1>10, PushOneChunk
  <2> HIDE DEF w
  <2>4. Merged(w, d, i)
    BY <1>10, <2>2, <2>3
  <2>5. i * C # e
    <3>1. i * C \in Nat
      <4> HIDE DEF len
      <4>1. i * C = from + len /\ from + len \in Nat
        BY <1>0, <1>5
      <4> QED BY <4>1
    <3> HIDE DEF i
    <3> QED BY <2>1, <3>1
  <2> HIDE DEF i
  <2> QED BY <1>5, <1>9, <2>4, <2>5 DEF input, from
<1>11. CASE p # 1
  <2>1. PICK h \in Nat \ {0} : p = 2 * h /\ IsPowerOfTwo(h) /\ h < p /\ p \div 2 = h
    BY <1>4, <1>11, HalfPowerOfTwo
  <2>2. ~(len <= C)
    <3>1. 1 * C + C <= p * C /\ 1 * C = C
      <4>1. 1 \in Nat /\ 1 < p
        BY <1>5, <1>11
      <4> QED BY <4>1, ChunkProducts
    <3> QED BY <1>0, <3>1
  <2>3. pair[1] = At(d, t, h) /\ pair[2] = At(d, t + h, h)
    <3>1. (t + 2 * h) * CHUNK_LEN <= Len(d) /\ h \in Nat
      BY <1>8, <2>1
    <3>2. LET pr == compress_subtree_to_parent_node(
                       SubSeq(d, t * CHUNK_LEN + 1, (t + 2 * h) * CHUNK_LEN), t)
          IN pr[1] = At(d, t, h) /\ pr[2] = At(d, t + h, h)
      BY <2>1, <3>1, SubtreePair
    <3> QED BY <2>1, <3>2
  <2>4. w = push_cv(push_cv(s, At(d, t, h), t), At(d, t + h, h), t + h)
    <3> HIDE DEF len, pair
    <3> QED BY <2>1, <2>2, <2>3
  <2> HIDE DEF w
  <2>5. Merged(w, d, t + 2 * h) /\ Lazy(w, d, t + 2 * h)
    <3>1. (t + 2 * h) * CHUNK_LEN <= Len(d) /\ t = x * (2 * h) /\ h \in Nat
      BY <1>4, <1>8, <2>1
    <3>2. LET v == push_cv(push_cv(s, At(d, t, h), t), At(d, t + h, h), t + h)
          IN Merged(v, d, t + 2 * h) /\ Lazy(v, d, t + 2 * h)
      BY <2>1, <3>1, PushPair
    <3> QED BY <2>4, <3>2
  <2>6. Merged(w, d, i) /\ Lazy(w, d, i)
    BY <2>1, <2>5
  <2>7. i * C <= e
    BY <1>5
  <2> HIDE DEF i
  <2> QED BY <1>5, <1>9, <2>6, <2>7 DEF input, from
<1> QED BY <1>10, <1>11

-----------------------------------------------------------------------------
(* The loop over subtrees                                                  *)

\* The loop of update.
IsLoop(f, h, input) ==
  f = [i \in 0 .. Len(input) |-> IF i = 0 THEN [h |-> h, input |-> input] ELSE Round(f[i - 1])]

\* The recursion of update_subtrees defines a function.
LEMMA LoopExists ==
  ASSUME NEW h, NEW input, Len(input) \in Nat
  PROVE  \E f : IsLoop(f, h, input)
<1> DEFINE Has(k) == \E f : f = [i \in 0 .. k |-> IF i = 0 THEN [h |-> h, input |-> input] ELSE Round(f[i - 1])]
           Without == {k \in Nat : ~Has(k)}
<1>1. Without = {}
  <2>1. SUFFICES ASSUME Without # {} PROVE FALSE
    OBVIOUS
  <2>2. PICK k \in Without : \A j \in Without : k <= j
    <3>1. Without \in SUBSET Nat
      OBVIOUS
    <3> HIDE DEF Without
    <3> QED BY <2>1, <3>1, LeastNumber
  <2>3. k # 0
    <3> DEFINE g == [i \in 0 .. 0 |-> [h |-> h, input |-> input]]
    <3>1. \A i \in 0 .. 0 : g[i] = IF i = 0 THEN [h |-> h, input |-> input] ELSE Round(g[i - 1])
      OBVIOUS
    <3>2. g = [i \in 0 .. 0 |-> g[i]]
      OBVIOUS
    <3> HIDE DEF g
    <3>3. g = [i \in 0 .. 0 |-> IF i = 0 THEN [h |-> h, input |-> input] ELSE Round(g[i - 1])]
      BY <3>1, <3>2
    <3>4. Has(0)
      BY <3>3
    <3> QED BY <3>4
  <2>4. k - 1 \in Nat /\ Has(k - 1)
    <3>1. k - 1 \in Nat /\ ~(k <= k - 1)
      BY <2>3
    <3> QED BY <2>2, <3>1
  <2>5. PICK f : f = [i \in 0 .. (k - 1) |-> IF i = 0 THEN [h |-> h, input |-> input] ELSE Round(f[i - 1])]
    BY <2>4
  <2> DEFINE g == [i \in 0 .. k |-> IF i = k THEN Round(f[k - 1]) ELSE f[i]]
  <2>6. k \in Nat /\ k > 0
    BY <2>3
  <2>7. ASSUME NEW i \in 0 .. k
        PROVE  g[i] = IF i = 0 THEN [h |-> h, input |-> input] ELSE Round(g[i - 1])
    <3>1. CASE i = k
      <4>1. g[i] = Round(f[i - 1]) /\ g[i - 1] = f[i - 1] /\ i # 0
        BY <2>6, <3>1
      <4> HIDE DEF g
      <4> QED BY <4>1
    <3>2. CASE i # k
      <4>1. i \in 0 .. (k - 1) /\ g[i] = f[i] /\ (i # 0 => g[i - 1] = f[i - 1])
        BY <2>6, <3>2
      <4>2. f[i] = IF i = 0 THEN [h |-> h, input |-> input] ELSE Round(f[i - 1])
        BY <2>5, <4>1
      <4> HIDE DEF g
      <4> QED BY <4>1, <4>2
    <3> QED BY <3>1, <3>2
  <2>8. g = [i \in 0 .. k |-> g[i]]
    OBVIOUS
  <2> HIDE DEF g
  <2>9. g = [i \in 0 .. k |-> IF i = 0 THEN [h |-> h, input |-> input] ELSE Round(g[i - 1])]
    BY <2>7, <2>8
  <2>10. Has(k)
    BY <2>9
  <2> QED BY <2>10
<1>2. Len(input) \in Nat
  OBVIOUS
<1>3. Has(Len(input))
  <2> HIDE DEF Has
  <2> QED BY <1>1, <1>2
<1> QED BY <1>3 DEF IsLoop

\* Where the loop is: after t chunks of d, in an update that ends at e.
AtLoop(r, d, e, t) ==
  \E s : /\ r = [h |-> Between(t, s), input |-> SubSeq(d, t * CHUNK_LEN + 1, e)]
         /\ t * CHUNK_LEN <= e
         /\ Merged(s, d, t)
         /\ t * CHUNK_LEN = e /\ t > 0 => Lazy(s, d, t)

\* What is left of the input there.
LEMMA AtLoopFacts ==
  ASSUME NEW S, NEW d \in Seq(S), NEW t \in Nat, NEW e \in Nat, e <= Len(d), NEW r, AtLoop(r, d, e, t)
  PROVE  t * CHUNK_LEN \in Nat /\ t * CHUNK_LEN <= e /\ Len(r.input) = e - t * CHUNK_LEN
<1> DEFINE from == t * CHUNK_LEN
<1>1. from \in Nat /\ from <= e /\ r.input = SubSeq(d, from + 1, e)
  <2>1. from \in Nat
    BY ChunkProducts
  <2>2. PICK s : /\ r = [h |-> Between(t, s), input |-> SubSeq(d, from + 1, e)]
                 /\ from <= e
    BY DEF AtLoop
  <2> HIDE DEF from
  <2> QED BY <2>1, <2>2
<1> HIDE DEF from
<1>2. Len(SubSeq(d, from + 1, e)) = e - from
  BY <1>1, PartFacts
<1> QED BY <1>1, <1>2 DEF from

\* One round of the loop.
LEMMA LoopStep ==
  ASSUME NEW S, NEW d \in Seq(S), simd_degree \in Nat, IsPowerOfTwo(simd_degree),
         NEW t \in Nat, NEW e \in Nat, e <= Len(d),
         NEW r, AtLoop(r, d, e, t), Len(r.input) > CHUNK_LEN
  PROVE  \E i \in Nat : AtLoop(hash_subtree(r.h, r.input), d, e, i) /\ t < i
<1>1. PICK s : /\ r = [h |-> Between(t, s), input |-> SubSeq(d, t * CHUNK_LEN + 1, e)]
               /\ Merged(s, d, t)
  BY DEF AtLoop
<1>2. r.h = Between(t, s) /\ r.input = SubSeq(d, t * CHUNK_LEN + 1, e)
  BY <1>1
<1>3. t * CHUNK_LEN + CHUNK_LEN < e
  <2>1. t * CHUNK_LEN \in Nat /\ Len(r.input) = e - t * CHUNK_LEN
    BY AtLoopFacts
  <2>2. CHUNK_LEN \in Nat
    BY ChunkLenFacts
  <2> QED BY <2>1, <2>2
<1>4. PICK i \in Nat : \E w :
           /\ hash_subtree(Between(t, s), SubSeq(d, t * CHUNK_LEN + 1, e)) =
                [h |-> Between(i, w), input |-> SubSeq(d, i * CHUNK_LEN + 1, e)]
           /\ t < i /\ i * CHUNK_LEN <= e
           /\ Merged(w, d, i)
           /\ i * CHUNK_LEN = e => Lazy(w, d, i)
  BY <1>1, <1>3, HashSubtree
<1>5. AtLoop(hash_subtree(Between(t, s), SubSeq(d, t * CHUNK_LEN + 1, e)), d, e, i)
  BY <1>4, Zenon DEF AtLoop
<1> QED BY <1>2, <1>4, <1>5

\* Every round takes at least a chunk, and the loop ends.
LEMMA LoopEnds ==
  ASSUME NEW S, NEW d \in Seq(S), simd_degree \in Nat, IsPowerOfTwo(simd_degree),
         NEW e \in Nat, e <= Len(d), NEW f, NEW n \in Nat, NEW h, NEW input,
         f = [i \in 0 .. n |-> IF i = 0 THEN [h |-> h, input |-> input] ELSE Round(f[i - 1])],
         NEW t \in Nat, AtLoop([h |-> h, input |-> input], d, e, t), e - t * CHUNK_LEN <= n
  PROVE  \E i \in Nat : AtLoop(f[n], d, e, i) /\ e - i * CHUNK_LEN <= CHUNK_LEN
<1> DEFINE C == CHUNK_LEN
           P(k) == \E i \in Nat : AtLoop(f[k], d, e, i) /\ (e - i * C <= C \/ (e - i * C) + k <= n)
           Wrong == {k \in Nat : k <= n /\ ~P(k)}
<1>0. C \in Nat \ {0}
  BY ChunkLenFacts
<1>1. /\ f[0] = [h |-> h, input |-> input]
      /\ \A k \in 1 .. n : f[k] = IF Len(f[k - 1].input) > C THEN hash_subtree(f[k - 1].h, f[k - 1].input)
                                                             ELSE f[k - 1]
  <2> HIDE DEF P, Wrong
  <2>1. f[0] = [h |-> h, input |-> input] /\ \A k \in 1 .. n : f[k] = Round(f[k - 1])
    OBVIOUS
  <2> QED BY <2>1 DEF Round
<1>2. Wrong = {}
  <2>1. SUFFICES ASSUME Wrong # {} PROVE FALSE
    OBVIOUS
  <2>2. PICK k \in Wrong : \A j \in Wrong : k <= j
    <3>1. Wrong \in SUBSET Nat
      OBVIOUS
    <3> HIDE DEF Wrong
    <3> QED BY <2>1, <3>1, LeastNumber
  <2>3. k \in Nat /\ k <= n /\ ~P(k)
    OBVIOUS
  <2> HIDE DEF Wrong
  <2>4. k # 0
    <3>1. P(0)
      <4>1. t * C \in Nat
        BY ChunkProducts
      <4>2. (e - t * C) + 0 <= n
        BY <4>1
      <4> QED BY <1>1, <4>2
    <3> HIDE DEF P
    <3> QED BY <2>3, <3>1
  <2>5. P(k - 1) /\ k - 1 \in Nat /\ k \in 1 .. n
    <3>1. k - 1 \in Nat /\ k - 1 <= n /\ ~(k <= k - 1) /\ k \in 1 .. n
      BY <2>3, <2>4
    <3>2. k - 1 \notin Wrong
      BY <2>2, <3>1
    <3> HIDE DEF P
    <3> QED BY <3>1, <3>2 DEF Wrong
  <2>6. PICK i \in Nat : AtLoop(f[k - 1], d, e, i) /\ (e - i * C <= C \/ (e - i * C) + (k - 1) <= n)
    BY <2>5
  <2>7. i * C \in Nat /\ i * C <= e /\ Len(f[k - 1].input) = e - i * C
    BY <2>6, AtLoopFacts
  <2>8. CASE e - i * C > C
    <3>1. f[k] = hash_subtree(f[k - 1].h, f[k - 1].input)
      BY <1>1, <2>5, <2>7, <2>8
    <3>2. Len(f[k - 1].input) > C
      BY <2>7, <2>8
    <3>3. PICK x \in Nat : AtLoop(f[k], d, e, x) /\ i < x
      <4>1. ASSUME NEW r, AtLoop(r, d, e, i), Len(r.input) > C
            PROVE  \E x \in Nat : AtLoop(hash_subtree(r.h, r.input), d, e, x) /\ i < x
        BY <4>1, LoopStep
      <4> QED BY <2>6, <3>1, <3>2, <4>1
    <3>4. i * C + C <= x * C /\ x * C \in Nat
      BY <3>3, ChunkProducts
    <3>5. (e - x * C) + k <= n
      <4> DEFINE a == i * C  b == x * C
      <4>1. a \in Nat /\ b \in Nat /\ a + C <= b /\ (e - a) + (k - 1) <= n
        BY <2>6, <2>7, <2>8, <3>4, <1>0
      <4> HIDE DEF a, b
      <4>2. (e - b) + k <= n
        BY <1>0, <2>3, <4>1
      <4> QED BY <4>2 DEF b
    <3>6. P(k)
      BY <3>3, <3>5
    <3> QED BY <2>3, <3>6
  <2>9. CASE ~(e - i * C > C)
    <3>1. f[k] = f[k - 1]
      BY <1>1, <2>5, <2>7, <2>9
    <3>2. e - i * C <= C
      BY <1>0, <2>7, <2>9
    <3>3. P(k)
      BY <2>6, <3>1, <3>2
    <3> QED BY <2>3, <3>3
  <2> QED BY <2>8, <2>9
<1>3. PICK i \in Nat : AtLoop(f[n], d, e, i) /\ (e - i * C <= C \/ (e - i * C) + n <= n)
  <2>1. P(n)
    <3>1. n \notin Wrong
      BY <1>2
    <3> HIDE DEF P
    <3> QED BY <3>1
  <2> QED BY <2>1
<1>4. e - i * C <= C
  <2>1. i * C \in Nat /\ i * C <= e
    BY <1>3, AtLoopFacts
  <2> QED BY <1>0, <1>3, <2>1
<1> QED BY <1>3, <1>4

\* A hasher that was given the first n bytes of d.
Represents(h, d, n) ==
  \E t \in Nat : \E chunk, s :
    /\ h = [chunk |-> chunk, cv_stack |-> s]
    /\ t * CHUNK_LEN <= n /\ n <= t * CHUNK_LEN + CHUNK_LEN
    /\ IsChunkOf(chunk, SubSeq(d, t * CHUNK_LEN + 1, n), t)
    /\ Merged(s, d, t)
    /\ t * CHUNK_LEN < n => s = Peaks(d)[t][1]
    /\ t * CHUNK_LEN = n /\ t > 0 => Lazy(s, d, t)

\* A stack where nothing is to merge.
LEMMA PeaksAreMerged ==
  ASSUME NEW S, NEW d \in Seq(S), NEW t \in 0 .. Len(d)
  PROVE  Merged(Peaks(d)[t][1], d, t)
<1>1. 1 \in Nat /\ t * 1 = t
  OBVIOUS
<1>2. Peaks(d)[t][1] \in Seq(Values(d))
  BY <1>1, PeaksFacts
<1>3. merge_cv_stack(Peaks(d)[t][1], t) = Peaks(d)[t][1]
  <2>1. ASSUME NEW u \in Nat, IsPowerOfTwo(u) PROVE merge_cv_stack(Peaks(d)[t][u], t * u) = Peaks(d)[t][u]
    BY <2>1, MergeMerged
  <2>2. merge_cv_stack(Peaks(d)[t][1], t * 1) = Peaks(d)[t][1]
    BY <1>1, <2>1, OneIsPowerOfTwo, Zenon
  <2> QED BY <1>1, <2>2
<1>4. t = 0 => Peaks(d)[t][1] = <<>>
  BY <1>1, PeaksZero
<1> QED BY <1>2, <1>3, <1>4 DEF Merged

\* There are at most as many chunks as bytes.
LEMMA ChunksFit ==
  ASSUME NEW S, NEW d \in Seq(S), NEW t \in Nat, NEW n \in Nat, t * CHUNK_LEN <= n, n <= Len(d)
  PROVE  t \in 0 .. Len(d)
<1>1. 1 \in Nat /\ 1 <= CHUNK_LEN /\ CHUNK_LEN \in Nat /\ Len(d) \in Nat
  BY ChunkLenFacts
<1>2. 1 * t <= CHUNK_LEN * t /\ CHUNK_LEN * t = t * CHUNK_LEN /\ t * CHUNK_LEN \in Nat
  BY <1>1, Products
<1>3. 1 * t = t
  OBVIOUS
<1> QED BY <1>1, <1>2, <1>3

\* What an update without a chunk begun comes to.
LEMMA UpdateSubtrees ==
  ASSUME NEW S, NEW d \in Seq(S), simd_degree \in Nat, IsPowerOfTwo(simd_degree),
         NEW t \in Nat, NEW e \in Nat, e <= Len(d), t * CHUNK_LEN <= e,
         NEW s, Merged(s, d, t), t * CHUNK_LEN = e /\ t > 0 => Lazy(s, d, t)
  PROVE  Represents(update_subtrees(Between(t, s), SubSeq(d, t * CHUNK_LEN + 1, e)), d, e)
<1> DEFINE C == CHUNK_LEN  input == SubSeq(d, t * C + 1, e)  h == Between(t, s)  n == Len(input)
           f == CHOOSE g : IsLoop(g, h, input)
           end == f[n]
<1>0. C \in Nat \ {0} /\ t * C \in Nat /\ Len(d) \in Nat
  BY ChunkLenFacts, ChunkProducts
<1>1. n = e - t * C /\ n \in Nat
  <2>1. Len(SubSeq(d, t * C + 1, e)) = e - t * C
    <3> DEFINE from == t * C
    <3>1. from \in Nat /\ from <= e
      BY <1>0
    <3> HIDE DEF from
    <3>2. Len(SubSeq(d, from + 1, e)) = e - from
      BY <3>1, PartFacts
    <3> QED BY <3>2 DEF from
  <2> QED BY <1>0, <2>1
<1>2. update_subtrees(h, input) =
        IF end.input = <<>> THEN end.h
        ELSE [chunk |-> chunk_update(end.h.chunk, end.input),
              cv_stack |-> merge_cv_stack(end.h.cv_stack, end.h.chunk.counter)]
  <2> HIDE DEF h, input
  <2> QED BY Zenon DEF update_subtrees, IsLoop
<1>3. IsLoop(f, h, input)
  <2> HIDE DEF h, input
  <2> QED BY <1>1, LoopExists
<1>4. AtLoop([h |-> h, input |-> input], d, e, t)
  BY DEF AtLoop
<1> HIDE DEF f, h, input
<1>5. PICK i \in Nat : AtLoop(end, d, e, i) /\ e - i * C <= C
  <2>1. e - t * C <= n
    BY <1>0, <1>1
  <2>2. f = [k \in 0 .. n |-> IF k = 0 THEN [h |-> h, input |-> input] ELSE Round(f[k - 1])]
    BY <1>3 DEF IsLoop
  <2> HIDE DEF n
  <2> QED BY <1>1, <1>4, <2>1, <2>2, LoopEnds
<1>6. PICK w : /\ end = [h |-> Between(i, w), input |-> SubSeq(d, i * C + 1, e)]
               /\ i * C <= e
               /\ Merged(w, d, i)
               /\ i * C = e /\ i > 0 => Lazy(w, d, i)
  BY <1>5 DEF AtLoop
<1> DEFINE from == i * C  rest == SubSeq(d, from + 1, e)
<1>7. from \in Nat /\ from <= e /\ e <= from + C /\ i \in 0 .. Len(d)
  <2>1. from \in Nat /\ from <= e
    BY <1>6, ChunkProducts
  <2>2. i \in 0 .. Len(d)
    BY <1>6, ChunksFit
  <2> QED BY <1>0, <1>5, <2>1, <2>2
<1>8. end.h.chunk = new_chunk(i) /\ end.h.chunk.counter = i /\ end.h.cv_stack = w /\ end.input = rest
      /\ end.h = [chunk |-> new_chunk(i), cv_stack |-> w]
  <2> HIDE DEF rest, end
  <2>1. end = [h |-> [chunk |-> new_chunk(i), cv_stack |-> w], input |-> rest]
    BY <1>6, Zenon DEF Between, rest
  <2>2. new_chunk(i).counter = i
    BY DEF new_chunk
  <2> QED BY <2>1, <2>2
<1> HIDE DEF end
<1>9. rest \in Seq(S) /\ Len(rest) = e - from
  <2> HIDE DEF from
  <2> QED BY <1>7, PartFacts
<1>10. CASE rest = <<>>
  <2>1. from = e
    <3>1. Len(rest) = 0
      <4> HIDE DEF rest
      <4> QED BY <1>10
    <3> HIDE DEF from, rest
    <3> QED BY <1>7, <1>9, <3>1
  <2>2. IsChunkOf(new_chunk(i), rest, i)
    BY <1>10, NewChunk
  <2>3. update_subtrees(h, input) = [chunk |-> new_chunk(i), cv_stack |-> w]
    BY <1>2, <1>8, <1>10
  <2>4. ~(from < e)
    BY <1>7, <2>1
  <2>5. Represents(update_subtrees(h, input), d, e)
    <3> HIDE DEF rest
    <3>1. IsChunkOf(new_chunk(i), SubSeq(d, i * C + 1, e), i)
      BY <2>2 DEF rest
    <3> QED BY <1>6, <1>7, <2>1, <2>3, <2>4, <3>1 DEF Represents
  <2> QED BY <2>5 DEF h, input
<1>11. CASE rest # <<>>
  <2>1. from < e
    <3>1. Len(rest) # 0
      <4> HIDE DEF rest
      <4> QED BY <1>9, <1>11
    <3> HIDE DEF from, rest
    <3> QED BY <1>7, <1>9, <3>1
  <2> DEFINE chunk == chunk_update(new_chunk(i), rest)
  <2>2. IsChunkOf(chunk, SubSeq(d, i * C + 1, e), i)
    <3> HIDE DEF rest
    <3>1. IsChunkOf(new_chunk(i), <<>>, i) /\ <<>> \in Seq(S) /\ <<>> \o rest = rest
      BY <1>9, NewChunk
    <3>2. IsChunkOf(chunk, <<>> \o rest, i)
      BY <1>9, <3>1, ChunkUpdate
    <3>3. IsChunkOf(chunk, rest, i)
      BY <3>1, <3>2
    <3> HIDE DEF chunk
    <3> QED BY <3>3 DEF rest
  <2>3. merge_cv_stack(w, i) = Peaks(d)[i][1]
    BY <1>6 DEF Merged
  <2>4. Merged(Peaks(d)[i][1], d, i)
    BY <1>7, PeaksAreMerged
  <2> HIDE DEF rest
  <2>5. update_subtrees(h, input) = [chunk |-> chunk, cv_stack |-> Peaks(d)[i][1]]
    BY <1>2, <1>8, <1>11, <2>3
  <2>6. from # e
    BY <1>7, <2>1
  <2> HIDE DEF chunk
  <2>7. Represents(update_subtrees(h, input), d, e)
    BY <1>7, <2>1, <2>2, <2>4, <2>5, <2>6 DEF Represents
  <2> QED BY <2>7 DEF h, input
<1> QED BY <1>10, <1>11

\* A new hasher was given nothing.
LEMMA InitRepresents ==
  ASSUME NEW S, NEW d \in Seq(S)
  PROVE  Represents(hasher_init, d, 0)
<1>1. /\ 0 \in Nat /\ 0 * CHUNK_LEN = 0 /\ 0 <= 0 * CHUNK_LEN + CHUNK_LEN /\ 0 * CHUNK_LEN <= 0
      /\ ~(0 * CHUNK_LEN < 0) /\ ~(0 > 0) /\ 0 \in 0 .. Len(d) /\ 1 \in Nat
  <2>1. CHUNK_LEN \in Nat /\ 0 * CHUNK_LEN = 0
    BY ChunkLenFacts, ChunkProducts
  <2> QED BY <2>1
<1>2. SubSeq(d, 0 * CHUNK_LEN + 1, 0) = <<>>
  <2>1. SubSeq(d, 1, 0) = <<>> /\ 0 * CHUNK_LEN + 1 = 1
    BY <1>1, SequenceItself
  <2> QED BY <2>1
<1>3. Merged(<<>>, d, 0)
  <2>1. Merged(Peaks(d)[0][1], d, 0) /\ Peaks(d)[0][1] = <<>>
    BY <1>1, PeaksAreMerged, PeaksZero
  <2> QED BY <2>1
<1>4. IsChunkOf(new_chunk(0), SubSeq(d, 0 * CHUNK_LEN + 1, 0), 0)
  BY <1>2, NewChunk
<1>5. hasher_init = [chunk |-> new_chunk(0), cv_stack |-> <<>>]
  BY DEF hasher_init
<1> QED BY <1>1, <1>3, <1>4, <1>5, Zenon DEF Represents

\* A chunk state that has taken in nothing is new.
LEMMA EmptyChunk ==
  ASSUME NEW chunk, NEW t, IsChunkOf(chunk, <<>>, t)
  PROVE  chunk = new_chunk(t)
<1>1. <<>> \in Seq({}) /\ Len(<<>>) = 0
  OBVIOUS
<1>2. Full(<<>>) = 0 /\ BLOCK_LEN * Full(<<>>) + 1 = 1
  <2>1. Full(<<>>) = 0
    BY DEF Full
  <2>2. BLOCK_LEN \in Nat
    BY Blake3Assumption
  <2> QED BY <2>1, <2>2
<1>3. PICK x : IsChain(x, <<>>, t) /\ chunk = ChunkState(x[0], t, From(<<>>, 1), 0)
  BY <1>2 DEF IsChunkOf
<1>4. x[0] = IV
  BY <1>2, <1>3 DEF IsChain
<1>5. From(<<>>, 1) = <<>>
  <2>1. SubSeq(<<>>, 1, 0) = <<>>
    BY <1>1, SequenceItself
  <2> QED BY <1>1, <2>1 DEF From
<1> QED BY <1>3, <1>4, <1>5 DEF ChunkState, new_chunk

\* What an update makes of a hasher.
LEMMA UpdateRepresents ==
  ASSUME NEW S, NEW d \in Seq(S), simd_degree \in Nat, IsPowerOfTwo(simd_degree),
         NEW n \in Nat, NEW e \in Nat, n <= e, e <= Len(d), NEW h, Represents(h, d, n)
  PROVE  Represents(hasher_update(h, SubSeq(d, n + 1, e)), d, e)
<1> DEFINE C == CHUNK_LEN  input == SubSeq(d, n + 1, e)
<1>0. C \in Nat \ {0} /\ Len(d) \in Nat
  BY ChunkLenFacts
<1>1. PICK t \in Nat : \E ch, s :
        /\ h = [chunk |-> ch, cv_stack |-> s]
        /\ t * C <= n /\ n <= t * C + C
        /\ IsChunkOf(ch, SubSeq(d, t * C + 1, n), t)
        /\ Merged(s, d, t)
        /\ t * C < n => s = Peaks(d)[t][1]
        /\ t * C = n /\ t > 0 => Lazy(s, d, t)
  BY DEF Represents
<1>2. PICK ch : \E s :
        /\ h = [chunk |-> ch, cv_stack |-> s]
        /\ t * C <= n /\ n <= t * C + C
        /\ IsChunkOf(ch, SubSeq(d, t * C + 1, n), t)
        /\ Merged(s, d, t)
        /\ t * C < n => s = Peaks(d)[t][1]
        /\ t * C = n /\ t > 0 => Lazy(s, d, t)
  BY <1>1
<1>3. PICK s :
        /\ h = [chunk |-> ch, cv_stack |-> s]
        /\ t * C <= n /\ n <= t * C + C
        /\ IsChunkOf(ch, SubSeq(d, t * C + 1, n), t)
        /\ Merged(s, d, t)
        /\ t * C < n => s = Peaks(d)[t][1]
        /\ t * C = n /\ t > 0 => Lazy(s, d, t)
  BY <1>2
<1> DEFINE from == t * C  done == SubSeq(d, from + 1, n)
<1>4. from \in Nat /\ from <= n /\ n <= from + C /\ from <= e
  <2>1. from \in Nat
    BY ChunkProducts
  <2> QED BY <1>0, <1>3, <2>1
<1>5. done \in Seq(S) /\ Len(done) = n - from
  <2>1. n <= Len(d)
    BY <1>0
  <2> HIDE DEF from
  <2> QED BY <1>4, <2>1, PartFacts
<1>6. input \in Seq(S) /\ Len(input) = e - n
  BY PartFacts
<1>7. chunk_len(ch) = n - from /\ ch.counter = t /\ chunk_output(ch) = Tree(d)[n - from][from]
  <2>1. t * CHUNK_LEN <= n /\ n <= t * CHUNK_LEN + CHUNK_LEN /\ n <= Len(d)
        /\ IsChunkOf(ch, SubSeq(d, t * CHUNK_LEN + 1, n), t)
    BY <1>0, <1>3
  <2> QED BY <2>1, ChunkOutputIs
<1>8. h.chunk = ch /\ h.cv_stack = s
  BY <1>3
<1> DEFINE begun == n - from  take == SmallerOf(C - begun, Len(input))
           chunk == chunk_update(ch, SubSeq(input, 1, take))
<1>9. hasher_update(h, input) =
        IF begun = 0 THEN update_subtrees(h, input)
        ELSE IF take = Len(input) THEN [h EXCEPT !.chunk = chunk]
        ELSE update_subtrees(
               [chunk |-> new_chunk(t + 1),
                cv_stack |-> push_cv(s, chaining_value(chunk_output(chunk)), t)],
               From(input, take + 1))
  <2> HIDE DEF input, from
  <2> QED BY <1>7, <1>8, Zenon DEF hasher_update
<1>10. CASE begun = 0
  <2>1. from = n
    BY <1>4, <1>10
  <2>2. done = <<>>
    <3>1. Len(done) = 0
      BY <1>5, <1>10
    <3> HIDE DEF done
    <3> QED BY <1>5, <3>1
  <2>3. ch = new_chunk(t)
    BY <1>3, <2>2, EmptyChunk
  <2>4. h = Between(t, s)
    BY <1>3, <2>3 DEF Between
  <2>5. t * CHUNK_LEN <= e /\ Merged(s, d, t) /\ (t * CHUNK_LEN = e /\ t > 0 => Lazy(s, d, t))
    <3>1. from = e /\ t > 0 => Lazy(s, d, t)
      BY <1>3, <2>1
    <3> QED BY <1>3, <1>4, <3>1
  <2>6. Represents(update_subtrees(Between(t, s), SubSeq(d, t * CHUNK_LEN + 1, e)), d, e)
    BY <2>5, UpdateSubtrees
  <2>7. SubSeq(d, t * CHUNK_LEN + 1, e) = input
    BY <2>1
  <2> HIDE DEF input, from
  <2> QED BY <1>9, <1>10, <2>4, <2>6, <2>7 DEF input
<1>11. CASE begun # 0
  <2>1. from < n /\ s = Peaks(d)[t][1]
    <3>1. from < n
      <4> HIDE DEF from
      <4> QED BY <1>4, <1>11
    <3> QED BY <1>3, <3>1
  <2>2. take \in Nat /\ take <= e - n /\ take <= C - begun /\ (take # e - n => take = C - begun)
        /\ e - n \in Nat /\ n + take <= e
    <3> HIDE DEF from, input
    <3> QED BY <1>0, <1>4, <1>6 DEF SmallerOf
  <2> HIDE DEF take
  <2>3. SubSeq(input, 1, take) = SubSeq(d, n + 1, n + take)
        /\ From(input, take + 1) = SubSeq(d, (n + take) + 1, e)
    <3>1. ASSUME NEW a \in Nat, NEW b \in Nat, a <= b, n + b <= e
          PROVE  SubSeq(SubSeq(d, n + 1, e), a + 1, b) = SubSeq(d, n + a + 1, n + b)
      BY <1>0, <3>1, PartOfPart
    <3>2. SubSeq(input, 0 + 1, take) = SubSeq(d, n + 0 + 1, n + take)
      <4>1. 0 \in Nat /\ 0 <= take
        BY <2>2
      <4> QED BY <2>2, <3>1, <4>1
    <3>3. SubSeq(input, take + 1, e - n) = SubSeq(d, n + take + 1, n + (e - n))
      <4>1. n + (e - n) <= e
        OBVIOUS
      <4> QED BY <2>2, <3>1, <4>1
    <3>4. 0 + 1 = 1 /\ n + 0 + 1 = n + 1 /\ n + (e - n) = e
      OBVIOUS
    <3>5. SubSeq(input, 1, take) = SubSeq(d, n + 1, n + take)
      BY <3>2, <3>4
    <3>6. From(input, take + 1) = SubSeq(d, (n + take) + 1, e)
      BY <1>6, <3>3, <3>4 DEF From
    <3> QED BY <3>5, <3>6
  <2>4. IsChunkOf(chunk, SubSeq(d, from + 1, n + take), t)
    <3> DEFINE more == SubSeq(d, n + 1, n + take)
    <3>1. more \in Seq(S) /\ n + take \in Nat /\ n + take <= Len(d)
      <4>1. n + take \in Nat /\ n + take <= Len(d) /\ n <= n + take
        BY <1>0, <2>2
      <4> QED BY <4>1, PartFacts
    <3>2. done \o more = SubSeq(d, from + 1, n + take)
      <4> HIDE DEF from
      <4>1. n <= n + take
        BY <2>2
      <4> QED BY <1>4, <3>1, <4>1, JoinParts, SMTT(40)
    <3> HIDE DEF more, done
    <3>3. IsChunkOf(chunk_update(ch, more), done \o more, t)
      <4>1. IsChunkOf(ch, done, t)
        BY <1>3 DEF done
      <4> QED BY <1>5, <3>1, <4>1, ChunkUpdate
    <3>4. chunk = chunk_update(ch, more)
      BY <2>3 DEF more
    <3> QED BY <3>2, <3>3, <3>4
  <2> HIDE DEF chunk
  <2>5. CASE take = e - n
    <3>1. hasher_update(h, input) = [chunk |-> chunk, cv_stack |-> s]
      <4>1. take = Len(input)
        BY <1>6, <2>5
      <4>2. hasher_update(h, input) = [h EXCEPT !.chunk = chunk]
        <5> HIDE DEF begun, input
        <5> QED BY <1>9, <1>11, <4>1
      <4> QED BY <1>3, <4>2
    <3>2. n + take = e /\ e <= from + C /\ from < e /\ from # e
      <4> HIDE DEF from
      <4> QED BY <1>0, <1>4, <2>1, <2>2, <2>5
    <3>3. IsChunkOf(chunk, SubSeq(d, t * CHUNK_LEN + 1, e), t)
      BY <2>4, <3>2
    <3>4. Represents([chunk |-> chunk, cv_stack |-> s], d, e)
      <4>1. t * CHUNK_LEN <= e /\ e <= t * CHUNK_LEN + CHUNK_LEN /\ t * CHUNK_LEN # e
        BY <1>4, <3>2
      <4> HIDE DEF from, done, input
      <4> QED BY <1>3, <2>1, <3>3, <4>1, Zenon DEF Represents
    <3> QED BY <3>1, <3>4
  <2>6. CASE take # e - n
    <3>1. n + take = from + C /\ from + C < e /\ (t + 1) * C = from + C
      <4>1. (t + 1) * C = t * C + 1 * C /\ 1 * C = C
        <5>1. 1 \in Nat
          OBVIOUS
        <5> QED BY <5>1, ChunkProducts
      <4>2. n + take = from + C /\ from + C < e
        <5> HIDE DEF from
        <5> QED BY <1>0, <1>4, <2>2, <2>6
      <4> QED BY <4>1, <4>2
    <3>2. chunk_output(chunk) = Tree(d)[C][from]
      <4>1. from + C \in Nat /\ from + C <= Len(d) /\ (from + C) - from = C
        <5> HIDE DEF from
        <5> QED BY <1>0, <1>4, <3>1
      <4>2. IsChunkOf(chunk, SubSeq(d, t * CHUNK_LEN + 1, from + C), t)
        BY <2>4, <3>1
      <4>3. ASSUME NEW k \in Nat, t * CHUNK_LEN <= k, k <= t * CHUNK_LEN + CHUNK_LEN, k <= Len(d),
                   IsChunkOf(chunk, SubSeq(d, t * CHUNK_LEN + 1, k), t)
            PROVE  chunk_output(chunk) = Tree(d)[k - t * CHUNK_LEN][t * CHUNK_LEN]
        BY <4>3, ChunkOutputIs
      <4>4. t * CHUNK_LEN <= from + C /\ from + C <= t * CHUNK_LEN + CHUNK_LEN
        BY <1>0, <1>4
      <4>5. chunk_output(chunk) = Tree(d)[(from + C) - t * CHUNK_LEN][t * CHUNK_LEN]
        BY <4>1, <4>2, <4>3, <4>4
      <4> QED BY <4>1, <4>5
    <3>3. chaining_value(chunk_output(chunk)) = At(d, t, 1)
      <4>1. 1 * C = C
        BY <1>0
      <4> QED BY <3>2, <4>1 DEF At
    <3> DEFINE w == push_cv(s, At(d, t, 1), t)
    <3>4. Merged(w, d, t + 1)
      <4>1. (t + 1) * CHUNK_LEN <= Len(d)
        <5>1. from + C <= Len(d)
          <6> HIDE DEF from
          <6> QED BY <1>0, <1>4, <3>1
        <5> QED BY <3>1, <5>1
      <4> QED BY <1>3, <4>1, PushOneChunk
    <3>5. hasher_update(h, input) = update_subtrees(Between(t + 1, w), SubSeq(d, (n + take) + 1, e))
      <4>1. take # Len(input)
        BY <1>6, <2>6
      <4>2. hasher_update(h, input) =
               update_subtrees([chunk |-> new_chunk(t + 1), cv_stack |-> w], From(input, take + 1))
        <5> HIDE DEF begun, input
        <5> QED BY <1>9, <1>11, <3>3, <4>1
      <4> QED BY <2>3, <4>2 DEF Between
    <3> HIDE DEF w
    <3>6. SubSeq(d, (n + take) + 1, e) = SubSeq(d, (t + 1) * CHUNK_LEN + 1, e)
      BY <3>1
    <3>7. Represents(update_subtrees(Between(t + 1, w), SubSeq(d, (t + 1) * CHUNK_LEN + 1, e)), d, e)
      <4>1. (t + 1) * CHUNK_LEN <= e /\ (t + 1) * CHUNK_LEN # e /\ t + 1 \in Nat
        <5>1. from + C <= e /\ from + C # e
          <6> HIDE DEF from
          <6> QED BY <1>0, <1>4, <3>1
        <5> QED BY <3>1, <5>1
      <4> HIDE DEF from, done, input
      <4>2. ASSUME NEW i \in Nat, i * CHUNK_LEN <= e, i * CHUNK_LEN # e, Merged(w, d, i)
            PROVE  Represents(update_subtrees(Between(i, w), SubSeq(d, i * CHUNK_LEN + 1, e)), d, e)
        BY <4>2, UpdateSubtrees
      <4> QED BY <3>4, <4>1, <4>2
    <3> QED BY <3>5, <3>6, <3>7
  <2> QED BY <2>5, <2>6
<1> QED BY <1>10, <1>11

-----------------------------------------------------------------------------
(* The end                                                                 *)

\* Rolling up a stack.
IsRolled(f, output, stack) ==
  f = [i \in 0 .. Len(stack) |->
         IF i = 0 THEN output ELSE parent_output(stack[Len(stack) + 1 - i], chaining_value(f[i - 1]))]

\* One step of it.
Onto(stack, i, output) == parent_output(stack[Len(stack) + 1 - i], chaining_value(output))

\* The recursion of RollUp defines a function.
LEMMA RollExists ==
  ASSUME NEW output, NEW stack, Len(stack) \in Nat
  PROVE  \E f : IsRolled(f, output, stack)
<1> DEFINE Has(k) == \E f : f = [i \in 0 .. k |-> IF i = 0 THEN output ELSE Onto(stack, i, f[i - 1])]
           Without == {k \in Nat : ~Has(k)}
<1>1. Without = {}
  <2>1. SUFFICES ASSUME Without # {} PROVE FALSE
    OBVIOUS
  <2>2. PICK k \in Without : \A j \in Without : k <= j
    <3>1. Without \in SUBSET Nat
      OBVIOUS
    <3> HIDE DEF Without
    <3> QED BY <2>1, <3>1, LeastNumber
  <2>3. k # 0
    <3> DEFINE g == [i \in 0 .. 0 |-> output]
    <3>1. \A i \in 0 .. 0 : g[i] = IF i = 0 THEN output ELSE Onto(stack, i, g[i - 1])
      OBVIOUS
    <3>2. g = [i \in 0 .. 0 |-> g[i]]
      OBVIOUS
    <3> HIDE DEF g
    <3>3. g = [i \in 0 .. 0 |-> IF i = 0 THEN output ELSE Onto(stack, i, g[i - 1])]
      BY <3>1, <3>2
    <3>4. Has(0)
      BY <3>3
    <3> QED BY <3>4
  <2>4. k - 1 \in Nat /\ Has(k - 1)
    <3>1. k - 1 \in Nat /\ ~(k <= k - 1)
      BY <2>3
    <3> QED BY <2>2, <3>1
  <2>5. PICK f : f = [i \in 0 .. (k - 1) |-> IF i = 0 THEN output ELSE Onto(stack, i, f[i - 1])]
    BY <2>4
  <2> DEFINE g == [i \in 0 .. k |-> IF i = k THEN Onto(stack, k, f[k - 1]) ELSE f[i]]
  <2>6. k \in Nat /\ k > 0
    BY <2>3
  <2>7. ASSUME NEW i \in 0 .. k
        PROVE  g[i] = IF i = 0 THEN output ELSE Onto(stack, i, g[i - 1])
    <3>1. CASE i = k
      <4>1. g[i] = Onto(stack, i, f[i - 1]) /\ g[i - 1] = f[i - 1] /\ i # 0
        BY <2>6, <3>1
      <4> HIDE DEF g
      <4> QED BY <4>1
    <3>2. CASE i # k
      <4>1. i \in 0 .. (k - 1) /\ g[i] = f[i] /\ (i # 0 => g[i - 1] = f[i - 1])
        BY <2>6, <3>2
      <4>2. f[i] = IF i = 0 THEN output ELSE Onto(stack, i, f[i - 1])
        BY <2>5, <4>1
      <4> HIDE DEF g
      <4> QED BY <4>1, <4>2
    <3> QED BY <3>1, <3>2
  <2>8. g = [i \in 0 .. k |-> g[i]]
    OBVIOUS
  <2> HIDE DEF g
  <2>9. g = [i \in 0 .. k |-> IF i = 0 THEN output ELSE Onto(stack, i, g[i - 1])]
    BY <2>7, <2>8
  <2>10. Has(k)
    BY <2>9
  <2> QED BY <2>10
<1>2. Len(stack) \in Nat
  OBVIOUS
<1>3. Has(Len(stack))
  <2> HIDE DEF Has
  <2> QED BY <1>1, <1>2
<1> QED BY <1>3 DEF IsRolled, Onto

\* Rolling up an empty stack.
LEMMA RollNothing ==
  ASSUME NEW output
  PROVE  RollUp(output, <<>>) = output
<1> DEFINE f == CHOOSE g : IsRolled(g, output, <<>>)
<1>1. Len(<<>>) = 0 /\ 0 \in Nat
  OBVIOUS
<1>2. RollUp(output, <<>>) = f[Len(<<>>)]
  BY DEF RollUp, IsRolled
<1>3. IsRolled(f, output, <<>>)
  BY <1>1, RollExists
<1> HIDE DEF f
<1>4. f[0] = output
  BY <1>1, <1>3 DEF IsRolled
<1> QED BY <1>1, <1>2, <1>4

\* Rolling up the top of a stack.
LEMMA RollOnce ==
  ASSUME NEW V, NEW s \in Seq(V), NEW a \in V, NEW output
  PROVE  RollUp(output, Append(s, a)) = RollUp(parent_output(a, chaining_value(output)), s)
<1> DEFINE w == Append(s, a)  o == parent_output(a, chaining_value(output))
           f == CHOOSE h : IsRolled(h, output, w)
           g == CHOOSE h : IsRolled(h, o, s)
           n == Len(s)
<1>0. n \in Nat /\ Len(w) = n + 1 /\ w[n + 1] = a /\ \A i \in 1 .. n : w[i] = s[i]
  OBVIOUS
<1> HIDE DEF w, o
<1>1. RollUp(output, w) = f[n + 1] /\ RollUp(o, s) = g[n]
  BY <1>0 DEF RollUp, IsRolled
<1>2. IsRolled(f, output, w) /\ IsRolled(g, o, s)
  <2>1. Len(w) \in Nat
    BY <1>0
  <2>2. IsRolled(f, output, w)
    BY <2>1, RollExists
  <2>3. IsRolled(g, o, s)
    BY <1>0, RollExists
  <2> QED BY <2>2, <2>3
<1> HIDE DEF f, g
<1>3. /\ f[0] = output
      /\ \A i \in 1 .. n + 1 : f[i] = parent_output(w[(n + 1) + 1 - i], chaining_value(f[i - 1]))
  <2> DEFINE l == Len(w)
  <2>1. f = [i \in 0 .. l |-> IF i = 0 THEN output ELSE parent_output(w[l + 1 - i], chaining_value(f[i - 1]))]
    BY <1>2 DEF IsRolled
  <2>2. l = n + 1
    BY <1>0
  <2> HIDE DEF l, n
  <2>3. /\ f[0] = output
        /\ \A i \in 1 .. l : f[i] = parent_output(w[l + 1 - i], chaining_value(f[i - 1]))
    BY <1>0, <2>1, <2>2
  <2> QED BY <2>2, <2>3
<1>4. /\ g[0] = o
      /\ \A i \in 1 .. n : g[i] = parent_output(s[n + 1 - i], chaining_value(g[i - 1]))
  BY <1>0, <1>2 DEF IsRolled
<1> HIDE DEF n
<1> DEFINE Wrong == {i \in Nat : i <= n /\ f[i + 1] # g[i]}
<1>5. Wrong = {}
  <2>1. SUFFICES ASSUME Wrong # {} PROVE FALSE
    OBVIOUS
  <2>2. PICK m \in Wrong : \A k \in Wrong : m <= k
    <3>1. Wrong \in SUBSET Nat
      OBVIOUS
    <3> HIDE DEF Wrong
    <3> QED BY <2>1, <3>1, LeastNumber
  <2>3. m \in Nat /\ m <= n /\ f[m + 1] # g[m]
    OBVIOUS
  <2>4. m # 0
    <3>1. f[1] = o
      <4>1. 1 \in 1 .. n + 1 /\ (n + 1) + 1 - 1 = n + 1 /\ 1 - 1 = 0
        BY <1>0
      <4>2. f[1] = parent_output(w[n + 1], chaining_value(f[0]))
        BY <1>3, <4>1
      <4> QED BY <1>0, <1>3, <4>2 DEF o
    <3>2. m = 0 => m + 1 = 1
      OBVIOUS
    <3> QED BY <1>4, <2>3, <3>1, <3>2
  <2>5. f[(m - 1) + 1] = g[m - 1]
    <3>1. m - 1 \in Nat /\ m - 1 <= n /\ ~(m <= m - 1)
      BY <1>0, <2>3, <2>4
    <3>2. m - 1 \notin Wrong
      <4> HIDE DEF Wrong
      <4> QED BY <2>2, <3>1
    <3> QED BY <3>1, <3>2
  <2>6. m \in 1 .. n /\ m + 1 \in 1 .. n + 1 /\ (m + 1) - 1 = m /\ (m - 1) + 1 = m
        /\ (n + 1) + 1 - (m + 1) = n + 1 - m /\ n + 1 - m \in 1 .. n
    BY <1>0, <2>3, <2>4
  <2>7. f[m + 1] = parent_output(w[n + 1 - m], chaining_value(f[m]))
    BY <1>3, <2>6
  <2>8. g[m] = parent_output(s[n + 1 - m], chaining_value(g[m - 1]))
    BY <1>4, <2>6
  <2>9. w[n + 1 - m] = s[n + 1 - m] /\ f[m] = g[m - 1]
    BY <1>0, <2>5, <2>6
  <2> QED BY <2>3, <2>7, <2>8, <2>9
<1>6. f[n + 1] = g[n]
  <2>1. n <= n
    BY <1>0
  <2> QED BY <1>0, <1>5, <2>1
<1> QED BY <1>1, <1>6 DEF w, o

-----------------------------------------------------------------------------
(* The stack is rolled up                                                  *)

\* The node over what follows q chunks, if a subtree of u chunks is on its left.
LEMMA RestSplit ==
  ASSUME NEW S, NEW d \in Seq(S), NEW q \in Nat, NEW u \in Nat, IsPowerOfTwo(u), NEW p, p = q + u,
         p * CHUNK_LEN < Len(d), Len(d) <= p * CHUNK_LEN + u * CHUNK_LEN
  PROVE  Tree(d)[Len(d) - q * CHUNK_LEN][q * CHUNK_LEN] =
           parent_output(At(d, q, u), chaining_value(Tree(d)[Len(d) - p * CHUNK_LEN][p * CHUNK_LEN]))
<1> DEFINE C == CHUNK_LEN  from == q * C  left == u * C  len == Len(d) - from
<1>1. p * C = from + left /\ from \in Nat /\ left \in Nat /\ Len(d) \in Nat
  <2>1. (q + u) * C = q * C + u * C /\ q * C \in Nat /\ u * C \in Nat
    BY ChunkProducts, Zenon
  <2> QED BY <2>1
<1>2. Len(d) - p * C = len - left
  <2> HIDE DEF from, left
  <2> QED BY <1>1
<1>3. len \in 0 .. Len(d) /\ from \in 0 .. Len(d) - len /\ left < len /\ len <= 2 * left
  <2>1. from + left < Len(d) /\ Len(d) <= from + left + left
    BY <1>1
  <2> HIDE DEF from, left
  <2> QED BY <1>1, <2>1
<1>4. Tree(d)[len][from] =
        parent_output(chaining_value(Tree(d)[u * CHUNK_LEN][from]),
                      chaining_value(Tree(d)[len - u * CHUNK_LEN][from + u * CHUNK_LEN]))
  <2>1. u * CHUNK_LEN < len /\ len <= 2 * (u * CHUNK_LEN)
    BY <1>3
  <2> HIDE DEF from, len
  <2> QED BY <1>3, <2>1, NodeSplit
<1>5. At(d, q, u) = chaining_value(Tree(d)[u * CHUNK_LEN][from])
  BY DEF At
<1> QED BY <1>1, <1>2, <1>4, <1>5

\* Rolling up the values of the subtrees gives the root of the tree.
LEMMA RollPeaks ==
  ASSUME NEW S, NEW d \in Seq(S), NEW j \in Nat, NEW u \in Nat, IsPowerOfTwo(u),
         NEW p, p = j * u, p * CHUNK_LEN < Len(d) \/ p = 0,
         Len(d) <= p * CHUNK_LEN + u * CHUNK_LEN
  PROVE  RollUp(Tree(d)[Len(d) - p * CHUNK_LEN][p * CHUNK_LEN], Peaks(d)[j][u]) = Tree(d)[Len(d)][0]
<1> DEFINE N == Len(d)  C == CHUNK_LEN
           Rest(i) == Tree(d)[N - i * C][i * C]
           Fits(i, v) == (i * C < N \/ i = 0) /\ N <= i * C + v * C
           P(i) == \A v \in Nat : IsPowerOfTwo(v) /\ Fits(i * v, v) =>
                      RollUp(Rest(i * v), Peaks(d)[i][v]) = Tree(d)[N][0]
           Wrong == {i \in Nat : ~P(i)}
<1>0. N \in Nat /\ C \in Nat \ {0} /\ 0 * C = 0
  BY ChunkLenFacts, ChunkProducts
<1>even. ASSUME NEW x \in Nat, NEW y \in Nat, 2 * x <= Len(d)
         PROVE  Peaks(d)[2 * x][y] = Peaks(d)[x][2 * y]
  BY <1>even, PeaksEven, ZenonT(40)
<1>odd. ASSUME NEW x \in Nat, NEW y \in Nat, 2 * x + 1 <= Len(d)
        PROVE  Peaks(d)[2 * x + 1][y] = Append(Peaks(d)[x][2 * y], At(d, (2 * x) * y, y))
  BY <1>odd, PeaksOdd, ZenonT(40)
<1>split. ASSUME NEW q \in Nat, NEW v \in Nat, IsPowerOfTwo(v), Fits(q + v, v), v > 0
          PROVE  Rest(q) = parent_output(At(d, q, v), chaining_value(Rest(q + v)))
  BY <1>split, RestSplit
<1>1. Wrong = {}
  <2>1. SUFFICES ASSUME Wrong # {} PROVE FALSE
    OBVIOUS
  <2>2. PICK m \in Wrong : \A k \in Wrong : m <= k
    <3>1. Wrong \in SUBSET Nat
      OBVIOUS
    <3> HIDE DEF Wrong
    <3> QED BY <2>1, <3>1, LeastNumber
  <2>3. m \in Nat /\ ~P(m)
    OBVIOUS
  <2>4. m # 0
    <3>1. ASSUME NEW v \in Nat PROVE RollUp(Rest(0 * v), Peaks(d)[0][v]) = Tree(d)[N][0]
      <4>1. 0 * v = 0 /\ Peaks(d)[0][v] = <<>> /\ N - 0 = N
        BY <1>0, PeaksZero
      <4> HIDE DEF N
      <4>2. Rest(0 * v) = Tree(d)[N][0]
        BY <1>0, <4>1
      <4> HIDE DEF Rest
      <4> QED BY <4>1, <4>2, RollNothing
    <3>2. P(0)
      <4> HIDE DEF Rest, Fits
      <4> QED BY <3>1
    <3> HIDE DEF P
    <3> QED BY <2>3, <3>2
  <2>5. PICK k \in Nat : (m = 2 * k \/ m = 2 * k + 1) /\ k < m
    <3>1. PICK k \in Nat : (m = 2 * k \/ m = 2 * k + 1) /\ (m > 0 => k < m)
      BY <2>3, EvenOrOdd
    <3>2. m > 0
      BY <2>3, <2>4
    <3> QED BY <3>1, <3>2
  <2>6. P(k)
    <3>1. ~(m <= k)
      BY <2>3, <2>5
    <3>2. k \notin Wrong
      <4> HIDE DEF Wrong
      <4> QED BY <2>2, <3>1
    <3> HIDE DEF P
    <3> QED BY <3>2
  <2>7. ASSUME NEW v \in Nat, IsPowerOfTwo(v), Fits(m * v, v)
        PROVE  RollUp(Rest(m * v), Peaks(d)[m][v]) = Tree(d)[N][0]
    <3>0. v > 0
      BY <2>7 DEF IsPowerOfTwo
    <3> DEFINE q == k * (2 * v)  i == m * v
    <3>1. q \in Nat /\ i \in Nat /\ q = (2 * k) * v /\ (m = 2 * k => i = q) /\ (m = 2 * k + 1 => i = q + v)
      <4>1. k * (2 * v) = (2 * k) * v /\ (2 * k + 1) * v = (2 * k) * v + v /\ (2 * k) * v \in Nat
        OBVIOUS
      <4>2. m * v \in Nat
        BY <2>3
      <4> QED BY <4>1, <4>2
    <3>2. i # 0 /\ m <= i
      <4>1. 1 \in Nat /\ 1 <= v
        BY <3>0
      <4>2. 1 * m <= v * m /\ v * m = i /\ 1 * m = m
        BY <2>3, <4>1, Products
      <4> HIDE DEF i
      <4> QED BY <2>3, <2>4, <3>1, <4>2
    <3>3. i * C < N /\ N <= i * C + v * C /\ i * C \in Nat /\ v * C \in Nat
      BY <2>7, <3>1, <3>2, ChunkProducts
    <3>4. i \in 0 .. N
      <4>1. i * C <= N
        <5> HIDE DEF i
        <5> QED BY <1>0, <3>3
      <4> HIDE DEF i
      <4> QED BY <1>0, <3>1, <4>1, ChunksFit
    <3>5. m <= N
      <4> HIDE DEF i
      <4> QED BY <1>0, <2>3, <3>2, <3>4
    <3>6. 2 * v \in Nat /\ IsPowerOfTwo(2 * v) /\ (2 * v) * C = v * C + v * C
      <4>1. 2 * v = v + v /\ 2 * v \in Nat
        OBVIOUS
      <4>2. (v + v) * C = v * C + v * C
        BY ChunkProducts, Zenon
      <4>3. IsPowerOfTwo(2 * v)
        BY <2>7, TwicePowerOfTwo
      <4> QED BY <4>1, <4>2, <4>3
    <3>7. ASSUME Fits(q, 2 * v) PROVE RollUp(Rest(q), Peaks(d)[k][2 * v]) = Tree(d)[N][0]
      <4> HIDE DEF Fits, Rest
      <4> QED BY <2>6, <3>6, <3>7
    <3>8. CASE m = 2 * k
      <4>1. Fits(q, 2 * v)
        <5>1. i = q
          BY <3>1, <3>8
        <5> HIDE DEF i, q
        <5>2. q * C < N /\ N <= q * C + (2 * v) * C
          <6> DEFINE x == i * C  y == v * C  z == (2 * v) * C
          <6>1. x < N /\ N <= x + y /\ x \in Nat /\ y \in Nat /\ z = y + y
            BY <3>3, <3>6
          <6> HIDE DEF x, y, z
          <6>2. x < N /\ N <= x + z
            BY <1>0, <6>1
          <6> QED BY <5>1, <6>2 DEF x, z
        <5> QED BY <5>2
      <4>2. Peaks(d)[m][v] = Peaks(d)[k][2 * v]
        BY <1>even, <3>5, <3>8
      <4>3. i = q
        BY <3>1, <3>8
      <4> HIDE DEF Fits, Rest, q, i
      <4>4. RollUp(Rest(i), Peaks(d)[m][v]) = Tree(d)[N][0]
        BY <3>7, <4>1, <4>2, <4>3
      <4> QED BY <4>4 DEF i
    <3>9. CASE m = 2 * k + 1
      <4> DEFINE s == Peaks(d)[k][2 * v]  a == At(d, q, v)
      <4>1. i = q + v
        BY <3>1, <3>9
      <4>2. i * C = q * C + v * C /\ q * C \in Nat
        <5>1. q \in Nat /\ v \in Nat
          BY <3>1
        <5> HIDE DEF q
        <5>2. (q + v) * C = q * C + v * C /\ q * C \in Nat
          BY <5>1, ChunkProducts, ZenonT(40)
        <5> HIDE DEF i
        <5> QED BY <4>1, <5>2
      <4>3. Fits(q, 2 * v)
        <5> DEFINE x == q * C  y == v * C  z == (2 * v) * C
        <5>1. x + y < N /\ N <= (x + y) + y /\ x \in Nat /\ y \in Nat /\ z = y + y
          BY <3>3, <3>6, <4>2
        <5> HIDE DEF x, y, z, q
        <5>2. x < N /\ N <= x + z
          BY <1>0, <5>1
        <5> QED BY <5>2 DEF x, z
      <4>4. Peaks(d)[m][v] = Append(s, a)
        <5>1. Peaks(d)[2 * k + 1][v] = Append(Peaks(d)[k][2 * v], At(d, (2 * k) * v, v))
          BY <1>odd, <3>5, <3>9
        <5>2. a = At(d, (2 * k) * v, v)
          BY <3>1
        <5> HIDE DEF a
        <5> QED BY <3>9, <5>1, <5>2
      <4>5. s \in Seq(Values(d)) /\ a \in Values(d)
        <5>1. k \in 0 .. Len(d)
          BY <1>0, <2>3, <2>5, <3>5
        <5>2. s \in Seq(Values(d))
          BY <3>6, <5>1, PeaksFacts
        <5>3. a \in Values(d)
          BY <3>1 DEF Values
        <5> QED BY <5>2, <5>3
      <4>6. Rest(q) = parent_output(a, chaining_value(Rest(i)))
        <5>1. Fits(q + v, v)
          BY <2>7, <4>1
        <5> HIDE DEF Fits, Rest, i, q
        <5> QED BY <1>split, <2>7, <3>0, <3>1, <4>1, <5>1
      <4>7. RollUp(Rest(i), Append(s, a)) = RollUp(parent_output(a, chaining_value(Rest(i))), s)
        <5> HIDE DEF s, a, i, Rest
        <5> QED BY <4>5, RollOnce
      <4>8. RollUp(Rest(q), s) = Tree(d)[N][0]
        BY <3>7, <4>3
      <4> HIDE DEF Rest, q, s, a
      <4> QED BY <4>4, <4>6, <4>7, <4>8 DEF i
    <3> QED BY <2>5, <3>8, <3>9
  <2> QED BY <2>3, <2>7
<1>2. P(j)
  <2>1. j \notin Wrong
    BY <1>1
  <2> HIDE DEF P
  <2> QED BY <2>1
<1>3. Fits(j * u, u)
  OBVIOUS
<1> QED BY <1>2, <1>3

\* The end: whatever is left, it is rolled up to the root of the tree.
LEMMA Finalize ==
  ASSUME NEW S, NEW d \in Seq(S), NEW h, Represents(h, d, Len(d))
  PROVE  hasher_finalize(h) = Digest(d)
<1> DEFINE C == CHUNK_LEN  n == Len(d)
<1>0. C \in Nat \ {0} /\ n \in Nat
  BY ChunkLenFacts
<1>1. PICK t \in Nat : \E chunk, s :
        /\ h = [chunk |-> chunk, cv_stack |-> s]
        /\ t * C <= n /\ n <= t * C + C
        /\ IsChunkOf(chunk, SubSeq(d, t * C + 1, n), t)
        /\ Merged(s, d, t)
        /\ t * C < n => s = Peaks(d)[t][1]
        /\ t * C = n /\ t > 0 => Lazy(s, d, t)
  BY DEF Represents
<1>2. PICK chunk : \E s :
        /\ h = [chunk |-> chunk, cv_stack |-> s]
        /\ t * C <= n /\ n <= t * C + C
        /\ IsChunkOf(chunk, SubSeq(d, t * C + 1, n), t)
        /\ Merged(s, d, t)
        /\ t * C < n => s = Peaks(d)[t][1]
        /\ t * C = n /\ t > 0 => Lazy(s, d, t)
  BY <1>1
<1>3. PICK s :
        /\ h = [chunk |-> chunk, cv_stack |-> s]
        /\ t * C <= n /\ n <= t * C + C
        /\ IsChunkOf(chunk, SubSeq(d, t * C + 1, n), t)
        /\ Merged(s, d, t)
        /\ t * C < n => s = Peaks(d)[t][1]
        /\ t * C = n /\ t > 0 => Lazy(s, d, t)
  BY <1>2
<1> DEFINE from == t * C
<1>4. from \in Nat
  BY ChunkProducts
<1>5. chunk_output(chunk) = Tree(d)[n - from][from] /\ chunk_len(chunk) = n - from
  <2>1. t * CHUNK_LEN <= n /\ n <= t * CHUNK_LEN + CHUNK_LEN /\ n <= Len(d)
        /\ IsChunkOf(chunk, SubSeq(d, t * CHUNK_LEN + 1, n), t)
    BY <1>0, <1>3
  <2> QED BY <1>0, <2>1, ChunkOutputIs
<1>6. hasher_finalize(h) =
        root_bytes(
          IF Len(s) = 0 \/ n - from > 0
            THEN RollUp(Tree(d)[n - from][from], s)
            ELSE RollUp(parent_output(s[Len(s) - 1], s[Len(s)]), SubSeq(s, 1, Len(s) - 2)))
  <2>1. h.chunk = chunk /\ h.cv_stack = s
    BY <1>3
  <2> HIDE DEF from
  <2> QED BY <1>5, <2>1, Zenon DEF hasher_finalize
<1>roll. ASSUME NEW j \in Nat, NEW u \in Nat, IsPowerOfTwo(u), NEW p, p = j * u,
                p * CHUNK_LEN < n \/ p = 0, n <= p * CHUNK_LEN + u * CHUNK_LEN
         PROVE  RollUp(Tree(d)[n - p * CHUNK_LEN][p * CHUNK_LEN], Peaks(d)[j][u]) = Tree(d)[n][0]
  BY <1>roll, RollPeaks
<1>7. CASE from < n \/ t = 0
  <2>1. s = Peaks(d)[t][1]
    <3>1. CASE from < n
      BY <1>3, <3>1
    <3>2. CASE t = 0
      <4>1. s = <<>> /\ 1 \in Nat
        BY <1>3, <3>2 DEF Merged
      <4> QED BY <3>2, <4>1, PeaksZero
    <3> QED BY <1>7, <3>1, <3>2
  <2>2. RollUp(Tree(d)[n - from][from], s) = Tree(d)[n][0]
    <3>1. 1 \in Nat /\ t = t * 1 /\ (t * CHUNK_LEN < n \/ t = 0) /\ n <= t * CHUNK_LEN + 1 * CHUNK_LEN
      <4>1. 1 * C = C /\ t = t * 1
        BY <1>0
      <4> QED BY <1>3, <1>7, <4>1
    <3>2. RollUp(Tree(d)[n - t * CHUNK_LEN][t * CHUNK_LEN], Peaks(d)[t][1]) = Tree(d)[n][0]
      BY <1>roll, <3>1, OneIsPowerOfTwo
    <3> QED BY <2>1, <3>2
  <2>3. Len(s) = 0 \/ n - from > 0
    <3>1. CASE from < n
      <4> HIDE DEF from
      <4> QED BY <1>0, <1>4, <3>1
    <3>2. CASE t = 0
      <4>1. s = <<>>
        BY <1>3, <3>2 DEF Merged
      <4> QED BY <4>1
    <3> QED BY <1>7, <3>1, <3>2
  <2> HIDE DEF from
  <2> QED BY <1>6, <2>2, <2>3 DEF Digest
<1>8. CASE from = n /\ t > 0
  <2>1. Lazy(s, d, t)
    BY <1>3, <1>8
  <2>2. PICK x \in Nat : \E u \in Nat :
          /\ IsPowerOfTwo(u) /\ t = (x + 1) * (2 * u)
          /\ s = Append(Append(Peaks(d)[x][2 * u], At(d, x * (2 * u), u)), At(d, x * (2 * u) + u, u))
    BY <2>1 DEF Lazy
  <2>3. PICK u \in Nat :
          /\ IsPowerOfTwo(u) /\ t = (x + 1) * (2 * u)
          /\ s = Append(Append(Peaks(d)[x][2 * u], At(d, x * (2 * u), u)), At(d, x * (2 * u) + u, u))
    BY <2>2
  <2> DEFINE w == 2 * u  p == x * w  a == At(d, p, u)  b == At(d, p + u, u)  peaks == Peaks(d)[x][w]
  <2>4. w \in Nat /\ w > 0 /\ p \in Nat /\ t = p + w /\ x <= p /\ IsPowerOfTwo(w) /\ u > 0
    <3>1. w \in Nat /\ IsPowerOfTwo(w) /\ w > 0 /\ 1 <= w /\ u > 0
      <4>1. IsPowerOfTwo(w) /\ u > 0
        <5>1. u > 0
          BY <2>3 DEF IsPowerOfTwo
        <5> QED BY <2>3, <5>1, TwicePowerOfTwo
      <4> QED BY <4>1
    <3>2. t = (x + 1) * w
      BY <2>3
    <3> HIDE DEF w
    <3>3. (x + 1) * w = x * w + 1 * w /\ 1 * w = w /\ 1 * x <= w * x /\ 1 * x = x /\ w * x = x * w /\ x * w \in Nat
      <4>1. 1 \in Nat
        OBVIOUS
      <4>2. 1 * w = w /\ 1 * x = x
        BY <3>1
      <4> QED BY <3>1, <4>1, <4>2, Products
    <3> QED BY <3>1, <3>2, <3>3
  <2>5. t \in 0 .. n
    BY <1>0, <1>3, ChunksFit
  <2>6. peaks \in Seq(Values(d)) /\ a \in Values(d) /\ b \in Values(d)
    <3>1. x \in 0 .. Len(d)
      <4> HIDE DEF p, w
      <4> QED BY <1>0, <2>4, <2>5
    <3>2. ASSUME NEW q \in Nat PROVE At(d, q, u) \in Values(d)
      BY DEF Values
    <3>3. p + u \in Nat
      BY <2>4
    <3> HIDE DEF p, w
    <3>4. peaks \in Seq(Values(d))
      BY <2>4, <3>1, PeaksFacts
    <3> QED BY <2>4, <3>2, <3>3, <3>4
  <2>7. s = Append(Append(peaks, a), b)
    BY <2>3
  <2> HIDE DEF peaks, a, b
  <2>8. s \in Seq(Values(d)) /\ Len(s) = Len(peaks) + 2 /\ Len(s) - 2 = Len(peaks) /\ Len(peaks) \in Nat
        /\ Len(s) # 0 /\ s[Len(s) - 1] = a /\ s[Len(s)] = b /\ \A i \in 1 .. Len(peaks) : s[i] = peaks[i]
    BY <2>6, <2>7
  <2>9. SubSeq(s, 1, Len(s) - 2) = peaks
    <3>1. 0 \in Nat /\ 0 <= Len(peaks) /\ Len(peaks) <= Len(s)
      BY <2>8
    <3>2. /\ SubSeq(s, 0 + 1, Len(peaks)) \in Seq(Values(d))
          /\ Len(SubSeq(s, 0 + 1, Len(peaks))) = Len(peaks) - 0
          /\ \A i \in 1 .. Len(peaks) - 0 : SubSeq(s, 0 + 1, Len(peaks))[i] = s[0 + i]
      BY <2>8, <3>1, PartFacts
    <3>3. 0 + 1 = 1 /\ Len(peaks) - 0 = Len(peaks) /\ \A i \in 1 .. Len(peaks) : 0 + i = i
      BY <2>8
    <3>4. SubSeq(s, 1, Len(peaks)) = peaks
      BY <2>6, <2>8, <3>2, <3>3, SameSequence
    <3> QED BY <2>8, <3>4
  <2>10. n = (p + w) * C /\ n = p * C + w * C /\ p * C \in Nat /\ w * C \in Nat /\ 0 < w * C
    <3>1. n = t * C
      BY <1>8
    <3> HIDE DEF p, w
    <3>2. (p + w) * C = p * C + w * C /\ p * C \in Nat /\ w * C \in Nat
      BY <2>4, ChunkProducts, Zenon
    <3>3. 0 * C + C <= w * C /\ 0 * C = 0
      <4>1. 0 \in Nat /\ 0 < w
        BY <2>4
      <4> QED BY <2>4, <4>1, ChunkProducts
    <3>4. 0 < w * C
      <4> DEFINE y == w * C
      <4>1. y \in Nat /\ C <= y
        BY <1>0, <3>2, <3>3
      <4> HIDE DEF y
      <4>2. 0 < y
        BY <1>0, <4>1
      <4> QED BY <4>2 DEF y
    <3> QED BY <2>4, <3>1, <3>2, <3>4
  <2>11. parent_output(a, b) = Tree(d)[n - p * CHUNK_LEN][p * CHUNK_LEN]
    <3>1. (p + 2 * u) * CHUNK_LEN <= Len(d)
      BY <1>0, <2>10
    <3>2. n - p * CHUNK_LEN = w * CHUNK_LEN
      <4> DEFINE y == p * CHUNK_LEN  z == w * CHUNK_LEN
      <4>1. n = y + z /\ y \in Nat /\ z \in Nat
        BY <2>10
      <4> HIDE DEF y, z
      <4>2. n - y = z
        BY <4>1
      <4> QED BY <4>2 DEF y, z
    <3>3. p \in Nat
      BY <2>4
    <3> HIDE DEF p
    <3>4. Tree(d)[(2 * u) * CHUNK_LEN][p * CHUNK_LEN] = parent_output(At(d, p, u), At(d, p + u, u))
      BY <2>3, <3>1, <3>3, ParentOfHalves
    <3> QED BY <3>2, <3>4 DEF a, b
  <2>12. RollUp(Tree(d)[n - p * CHUNK_LEN][p * CHUNK_LEN], peaks) = Tree(d)[n][0]
    <3>1. p = x * w
      OBVIOUS
    <3>2. p * CHUNK_LEN < n /\ n <= p * CHUNK_LEN + w * CHUNK_LEN
      <4> DEFINE y == p * CHUNK_LEN  z == w * CHUNK_LEN
      <4>1. n = y + z /\ y \in Nat /\ z \in Nat /\ 0 < z
        BY <2>10
      <4> HIDE DEF y, z
      <4>2. y < n /\ n <= y + z
        BY <4>1
      <4> QED BY <4>2 DEF y, z
    <3> HIDE DEF p, w
    <3> QED BY <1>roll, <2>4, <3>1, <3>2 DEF peaks
  <2>13. ~(n - from > 0)
    <3>1. n - from = 0
      BY <1>0, <1>8
    <3> HIDE DEF from
    <3> QED BY <3>1
  <2>14. hasher_finalize(h) = root_bytes(RollUp(parent_output(a, b), peaks))
    <3> HIDE DEF from
    <3> QED BY <1>6, <2>8, <2>9, <2>13
  <2> QED BY <2>11, <2>12, <2>14 DEF Digest
<1>9. from < n \/ t = 0 \/ (from = n /\ t > 0)
  <2>1. from <= n
    BY <1>3
  <2> HIDE DEF from
  <2> QED BY <1>0, <1>4, <2>1
<1> QED BY <1>7, <1>8, <1>9

\* One update after another.
LEMMA TwoUpdates ==
  ASSUME NEW S, NEW d \in Seq(S), simd_degree \in Nat, IsPowerOfTwo(simd_degree), NEW cut \in 0 .. Len(d)
  PROVE  hasher_finalize(hasher_update(hasher_update(hasher_init, SubSeq(d, 1, cut)),
                                       From(d, cut + 1))) = Digest(d)
<1> DEFINE n == Len(d)
<1>1. 0 \in Nat /\ n \in Nat /\ cut \in Nat /\ 0 <= cut /\ cut <= n /\ n <= Len(d) /\ 0 + 1 = 1
  OBVIOUS
<1>2. Represents(hasher_update(hasher_init, SubSeq(d, 0 + 1, cut)), d, cut)
  BY <1>1, InitRepresents, UpdateRepresents
<1>3. Represents(hasher_update(hasher_update(hasher_init, SubSeq(d, 1, cut)), SubSeq(d, cut + 1, n)), d, n)
  <2> DEFINE h == hasher_update(hasher_init, SubSeq(d, 1, cut))
  <2>1. Represents(h, d, cut)
    BY <1>1, <1>2
  <2> HIDE DEF h, n
  <2> QED BY <1>1, <2>1, UpdateRepresents DEF h
<1> QED BY <1>3, Finalize DEF From

\* hash() makes one update of the whole file.
LEMMA OneUpdate ==
  ASSUME NEW S, NEW d \in Seq(S), simd_degree \in Nat, IsPowerOfTwo(simd_degree)
  PROVE  hasher_finalize(hasher_update(hasher_init, d)) = Digest(d)
<1> DEFINE n == Len(d)
<1>1. 0 \in Nat /\ n \in Nat /\ 0 <= n /\ n <= Len(d) /\ 0 + 1 = 1
  OBVIOUS
<1>2. Represents(hasher_update(hasher_init, SubSeq(d, 0 + 1, n)), d, n)
  <2> HIDE DEF n
  <2> QED BY <1>1, InitRepresents, UpdateRepresents
<1>3. SubSeq(d, 0 + 1, n) = d
  BY <1>1, SequenceItself
<1> QED BY <1>2, <1>3, Finalize

-----------------------------------------------------------------------------
(* Processor::hash                                                         *)

\* The digests there are.
Digests == {Digest(d) : d \in Seq(Byte)}

\* The descriptor is held from the open on and the mapping from the mmap on, both until
\* the cleanup.
HeldAt ==
  /\ opened = IF pc \in {"fstat", "map", "hash", "cleanup"} THEN 1 ELSE 0
  /\ mapped = IF pc \in {"hash", "cleanup"} THEN 1 ELSE 0

\* How many digests are printed where hash() is.
PrintedAt ==
  /\ pc \in {"next", "cleanup"} => Len(printed) = current
  /\ pc \in {"fstat", "map", "hash"} => current > 0 /\ Len(printed) = current - 1
  /\ outcome = "none" <=> pc # "end"
  /\ outcome \in {"threw", "killed"} => current > 0 /\ Len(printed) = current - 1
  /\ outcome = "returned" => current = Len(input_files) /\ Len(printed) = current

\* There is a size for every file that hash() is past the fstat of; the process is
\* killed at a file with another one than it has.
SizesAt ==
  /\ pc = "fstat" => Len(st_sizes) = current - 1
  /\ pc \in {"next", "map", "hash", "cleanup"} => Len(st_sizes) = current
  /\ outcome = "killed" => st_size # Len(contents)

\* A file whose size was told is hashed as it is.
PrintedDigests ==
  \A i \in 1 .. Len(printed) :
    st_sizes[i] = Len(input_files[i]) => printed[i] = Digest(input_files[i])

\* The inductive invariant of HashSpec.
HashIInv ==
  /\ HashTypeOK
  /\ HeldAt
  /\ PrintedAt
  /\ SizesAt
  /\ printed \in Seq(Digests)
  /\ PrintedDigests

\* What HashAssumption says of the files given.
LEMMA FilesAreBytes ==
  ASSUME input_files \in Inputs
  PROVE  /\ input_files \in Seq(Seq(Byte)) /\ Len(input_files) \in Nat
         /\ \A i \in 1 .. Len(input_files) : input_files[i] \in Seq(Byte)
<1>1. input_files \in Seq(Seq(Byte))
  BY HashAssumption
<1> QED BY <1>1

\* What Blake3Assumption says of the processor.
LEMMA DegreeIsPower ==
  ASSUME simd_degree \in SimdDegrees
  PROVE  simd_degree \in Nat /\ IsPowerOfTwo(simd_degree)
BY Blake3Assumption

\* What is mapped are bytes, and if the size is right, they are those of the file.
LEMMA WhatIsMapped ==
  ASSUME HashTypeOK, current \in 1 .. Len(input_files), Len(st_sizes) = current
  PROVE  /\ data \in Seq(Byte) /\ Len(data) = st_size
         /\ st_size = Len(contents) => data = contents
<1>1. contents \in Seq(Byte) /\ st_size \in Nat /\ 0 \in Byte
  BY FilesAreBytes, HashAssumption DEF HashTypeOK, contents, st_size
<1>2. ASSUME NEW p \in 1 .. st_size
      PROVE  (IF p <= Len(contents) THEN contents[p] ELSE 0) \in Byte
  BY <1>1
<1>3. data \in Seq(Byte) /\ Len(data) = st_size
  BY <1>1, <1>2 DEF data
<1>4. ASSUME st_size = Len(contents) PROVE data = contents
  BY <1>1, <1>3, <1>4 DEF data
<1> QED BY <1>3, <1>4

\* All of a file lies in its pages.
LEMMA PagesHoldFile ==
  ASSUME contents \in Seq(Byte)
  PROVE  Readable \in Nat /\ Len(contents) <= Readable
<1> DEFINE n == Len(contents)  q == (n + PAGE - 1) \div PAGE
<1>1. n \in Nat /\ PAGE \in Nat \ {0}
  BY HashAssumption
<1> HIDE DEF n
<1>2. q \in Nat /\ q * PAGE <= n + PAGE - 1 /\ n + PAGE - 1 < q * PAGE + PAGE
  BY <1>1, SMTT(30)
<1> HIDE DEF q
<1>3. q * PAGE \in Nat
  BY <1>1, <1>2
<1> DEFINE r == q * PAGE
<1> HIDE DEF r
<1>4. r \in Nat /\ n <= r
  BY <1>1, <1>2, <1>3 DEF r
<1> QED BY <1>4 DEF r, q, n, Readable

\* The inductive invariant holds at first.
LEMMA HashIInvInit == HashInit => HashIInv
<1> SUFFICES ASSUME HashInit PROVE HashIInv
  OBVIOUS
<1>1. Len(input_files) \in Nat
  BY FilesAreBytes DEF HashInit
<1> QED BY <1>1 DEF HashInit, HashIInv, HashTypeOK, HeldAt, PrintedAt, SizesAt, PrintedDigests

\* Every action keeps it: the one that prints does by OneUpdate.
LEMMA HashIInvNext == HashIInv /\ [HashNext]_hashVars => HashIInv'
<1> SUFFICES ASSUME HashIInv, [HashNext]_hashVars PROVE HashIInv'
  OBVIOUS
<1> USE DEF HashIInv
<1>0. /\ Len(input_files) \in Nat /\ Len(printed) \in Nat /\ Len(st_sizes) \in Nat
      /\ current \in Nat
  BY FilesAreBytes DEF HashTypeOK
<1>d. Digests' = Digests
  BY DEF Digests
\* Nothing is printed by any other action than HashAndPrint.
<1>1. ASSUME UNCHANGED <<input_files, st_sizes, printed>>
      PROVE  printed' \in Seq(Digests)' /\ PrintedDigests'
  BY <1>1, <1>d DEF PrintedDigests
<1>2. CASE OpenFile
  <2>1. HashTypeOK' /\ HeldAt' /\ PrintedAt' /\ SizesAt'
    BY <1>0, <1>2 DEF OpenFile, Throw, HashTypeOK, HeldAt, PrintedAt, SizesAt
  <2> QED BY <1>1, <1>2, <2>1 DEF OpenFile
<1>f. CASE Fstat
  <2>1. PICK size \in {Len(contents)} \cup Garbage : st_sizes' = Append(st_sizes, size)
    BY <1>f DEF Fstat
  <2>2. current \in 1 .. Len(input_files) /\ Len(st_sizes) = current - 1 /\ Len(printed) = current - 1
    BY <1>0, <1>f DEF Fstat, HashTypeOK, PrintedAt, SizesAt
  <2>3. size \in Nat
    <3>1. contents \in Seq(Byte)
      BY <2>2, FilesAreBytes DEF HashTypeOK, contents
    <3>2. Len(contents) \in Nat
      BY <3>1
    <3>3. Garbage \subseteq Nat
      BY HashAssumption
    <3> QED BY <2>1, <3>2, <3>3
  <2>4. /\ st_sizes' \in Seq(Nat) /\ Len(st_sizes') = current
        /\ \A i \in 1 .. Len(st_sizes) : st_sizes'[i] = st_sizes[i]
    BY <1>0, <2>1, <2>2, <2>3 DEF HashTypeOK
  <2>5. HashTypeOK' /\ HeldAt' /\ PrintedAt' /\ SizesAt'
    BY <1>0, <1>f, <2>2, <2>4 DEF Fstat, HashTypeOK, HeldAt, PrintedAt, SizesAt
  <2>6. printed' = printed /\ input_files' = input_files
    BY <1>f DEF Fstat
  <2>7. PrintedDigests'
    BY <2>2, <2>4, <2>6 DEF PrintedDigests
  <2> QED BY <1>d, <2>5, <2>6, <2>7
<1>3. CASE Map
  <2>1. HashTypeOK' /\ HeldAt' /\ PrintedAt' /\ SizesAt'
    BY <1>0, <1>3 DEF Map, HashTypeOK, HeldAt, PrintedAt, SizesAt
  <2> QED BY <1>1, <1>3, <2>1 DEF Map
<1>4. CASE MapFails
  <2>1. HashTypeOK' /\ HeldAt' /\ PrintedAt' /\ SizesAt'
    BY <1>0, <1>4 DEF MapFails, Throw, HashTypeOK, HeldAt, PrintedAt, SizesAt
  <2> QED BY <1>1, <1>4, <2>1 DEF MapFails
<1>5. CASE HashAndPrint
  <2> DEFINE digest == hasher_finalize(hasher_update(hasher_init, data))  d == Digest(data)
  <2>1. /\ current \in 1 .. Len(input_files) /\ Len(printed) = current - 1 /\ pc = "hash"
        /\ Len(st_sizes) = current
    BY <1>0, <1>5 DEF HashAndPrint, HashTypeOK, PrintedAt, SizesAt
  <2>m. data \in Seq(Byte) /\ (st_sizes[current] = Len(input_files[current]) => data = input_files[current])
    BY <2>1, WhatIsMapped DEF contents, st_size
  <2>2. digest = Digest(data)
    <3>1. simd_degree \in Nat /\ IsPowerOfTwo(simd_degree)
      BY DegreeIsPower DEF HashTypeOK
    <3> QED BY <2>m, <3>1, OneUpdate
  <2>3. d \in Digests
    BY <2>m DEF Digests
  <2>c. st_sizes[current] = Len(input_files[current]) => d = Digest(input_files[current])
    BY <2>m
  <2>4. printed' = Append(printed, d)
    <3> HIDE DEF d
    <3>1. printed' = Append(printed, digest)
      BY <1>5 DEF HashAndPrint
    <3> HIDE DEF digest
    <3> QED BY <2>2, <3>1 DEF d
  <2> HIDE DEF d
  <2>5. /\ printed' \in Seq(Digests) /\ Len(printed') = current /\ printed'[current] = d
        /\ \A i \in 1 .. current : i < current => printed'[i] = printed[i]
    BY <2>1, <2>3, <2>4
  <2>6. HashTypeOK' /\ HeldAt' /\ PrintedAt' /\ SizesAt'
    BY <1>0, <1>5, <2>1, <2>5 DEF HashAndPrint, HashTypeOK, HeldAt, PrintedAt, SizesAt
  <2>7. input_files' = input_files /\ st_sizes' = st_sizes
    BY <1>5 DEF HashAndPrint
  <2>9. ASSUME NEW i \in 1 .. Len(printed'), st_sizes[i] = Len(input_files[i])
        PROVE  printed'[i] = Digest(input_files[i])
    <3>1. i = current \/ (i \in 1 .. Len(printed) /\ i < current /\ i \in 1 .. current)
      BY <1>0, <2>1, <2>5
    <3> QED BY <2>c, <2>5, <2>9, <3>1 DEF PrintedDigests
  <2>10. PrintedDigests'
    BY <2>7, <2>9 DEF PrintedDigests
  <2> QED BY <1>d, <2>5, <2>6, <2>10
<1>b. CASE BusError
  <2>1. current \in 1 .. Len(input_files) /\ Len(st_sizes) = current
    BY <1>0, <1>b DEF BusError, HashTypeOK, PrintedAt, SizesAt
  <2>2. st_size # Len(contents)
    <3>1. contents \in Seq(Byte)
      BY <2>1, FilesAreBytes DEF HashTypeOK, contents
    <3>2. st_size \in Nat /\ Len(contents) \in Nat
      BY <2>1, <3>1 DEF HashTypeOK, st_size
    <3> QED BY <1>b, <3>1, <3>2, PagesHoldFile DEF BusError
  <2>3. UNCHANGED <<st_size, contents>>
    BY <1>b DEF BusError, st_size, contents
  <2>4. HashTypeOK' /\ HeldAt' /\ PrintedAt' /\ SizesAt'
    BY <1>0, <1>b, <2>2, <2>3 DEF BusError, HashTypeOK, HeldAt, PrintedAt, SizesAt
  <2> QED BY <1>1, <1>b, <2>4 DEF BusError
<1>6. CASE Cleanup
  <2>1. HashTypeOK' /\ HeldAt' /\ PrintedAt' /\ SizesAt'
    BY <1>0, <1>6 DEF Cleanup, HashTypeOK, HeldAt, PrintedAt, SizesAt
  <2> QED BY <1>1, <1>6, <2>1 DEF Cleanup
<1>7. CASE ReturnFromHash
  <2>1. HashTypeOK' /\ HeldAt' /\ PrintedAt' /\ SizesAt'
    BY <1>0, <1>7 DEF ReturnFromHash, HashTypeOK, HeldAt, PrintedAt, SizesAt
  <2> QED BY <1>1, <1>7, <2>1 DEF ReturnFromHash
<1>8. CASE Ended \/ UNCHANGED hashVars
  <2>1. HashTypeOK' /\ HeldAt' /\ PrintedAt' /\ SizesAt'
    BY <1>0, <1>8 DEF Ended, hashVars, HashTypeOK, HeldAt, PrintedAt, SizesAt, st_size, contents
  <2> QED BY <1>1, <1>8, <2>1 DEF Ended, hashVars
<1> QED BY <1>2, <1>f, <1>3, <1>4, <1>5, <1>b, <1>6, <1>7, <1>8 DEF HashNext

\* It holds always.
LEMMA HashIInvHolds == HashSpec => []HashIInv
BY HashIInvInit, HashIInvNext, PTL DEF HashSpec

\* The variables of Processor::hash have their types, and nothing is held twice.
THEOREM HashTypes == HashSpec => []HashTypeOK
<1>1. HashIInv => HashTypeOK
  BY DEF HashIInv
<1> QED BY <1>1, HashIInvHolds, PTL

\* However Processor::hash ends, and between two files, it holds no descriptor and no
\* mapping, for any list of files and any failures of open, fstat and mmap.
THEOREM HashHoldsNothing == HashSpec => []NothingHeld
<1>1. HashIInv => NothingHeld
  BY DEF HashIInv, HeldAt, NothingHeld
<1> QED BY <1>1, HashIInvHolds, PTL

\* What Processor::hash prints are the BLAKE3 digests of the files, in their order, if
\* fstat told their size: init, update and finalize compute the tree hash of the paper
\* for files of any length, any CHUNK_LEN and BLOCK_LEN as assumed, and any power of two
\* of chunks hashed at a time.
THEOREM DigestsArePrinted == HashSpec => []DigestsOfFiles
<1>1. HashIInv => DigestsOfFiles
  <2> SUFFICES ASSUME HashIInv PROVE DigestsOfFiles
    OBVIOUS
  <2>1. DOMAIN printed = 1 .. Len(printed)
    BY DEF HashIInv
  <2>2. PrintedDigests
    BY DEF HashIInv
  <2>3. /\ outcome = "returned" => Len(printed) = Len(input_files)
        /\ outcome \in {"threw", "killed"} => Len(printed) = current - 1
        /\ outcome = "killed" => st_size # Len(contents)
    BY DEF HashIInv, PrintedAt, SizesAt
  <2> QED BY <2>1, <2>2, <2>3 DEF DigestsOfFiles, PrintedDigests
<1> QED BY <1>1, HashIInvHolds, PTL

\* The digest does not depend on where the bytes are divided over two calls of
\* blake3_hasher_update.
THEOREM UpdatesMayBeSplit == HashSpec => []UpdatesCompose
<1>1. HashIInv => UpdatesCompose
  <2> SUFFICES ASSUME HashIInv, pc = "hash", NEW cut \in 0 .. Len(data)
               PROVE  hasher_finalize(hasher_update(hasher_update(hasher_init, SubSeq(data, 1, cut)),
                                                    From(data, cut + 1))) = Digest(data)
    BY DEF UpdatesCompose
  <2>1. current \in 1 .. Len(input_files) /\ Len(st_sizes) = current
    BY FilesAreBytes DEF HashIInv, HashTypeOK, PrintedAt, SizesAt
  <2>2. data \in Seq(Byte)
    BY <2>1, WhatIsMapped DEF HashIInv
  <2>3. simd_degree \in Nat /\ IsPowerOfTwo(simd_degree)
    BY DegreeIsPower DEF HashIInv, HashTypeOK
  <2> QED BY <2>2, <2>3, TwoUpdates
<1> QED BY <1>1, HashIInvHolds, PTL
=============================================================================
