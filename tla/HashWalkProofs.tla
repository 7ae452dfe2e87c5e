--------------------------- MODULE HashWalkProofs ---------------------------
(***************************************************************************)
(* Proofs about HashWalk and Content, for all files of documents of any    *)
(* depth: what the walk accumulates, that files which say the same are     *)
(* hashed the same, and that plain documents which do not are told apart.  *)
(***************************************************************************)
EXTENDS Content, FiniteSetTheorems, WellFoundedInduction, TLAPS

-----------------------------------------------------------------------------
(* Positions                                                               *)

\* The parts of a position.
LEMMA PositionFacts ==
  ASSUME NEW p \in Position
  PROVE  /\ Len(p) \in Nat /\ DOMAIN p = 1 .. Len(p)
         /\ \A i \in 1 .. Len(p) : p[i] \in Nat /\ p[i] > 0
         /\ <<>> \in Position
         /\ Len(p) = 0 <=> p = <<>>
BY DEF Position

LEMMA PartOfPosition ==
  ASSUME NEW p \in Position, NEW i \in 0 .. Len(p)
  PROVE  /\ SubSeq(p, 1, i) \in Position
         /\ Len(SubSeq(p, 1, i)) = i
         /\ \A j \in 1 .. i : SubSeq(p, 1, i)[j] = p[j]
<1>1. Len(p) \in Nat /\ DOMAIN p = 1 .. Len(p) /\ \A j \in 1 .. Len(p) : p[j] \in Nat \ {0}
  BY DEF Position
<1>2. i \in Nat /\ i <= Len(p)
  BY <1>1
<1>3. SubSeq(p, 1, i) = [j \in 1 .. i |-> p[j]]
  BY <1>1, <1>2 DEF Position
<1> QED BY <1>1, <1>2, <1>3 DEF Position

LEMMA FrontFacts ==
  ASSUME NEW p \in Position, p # <<>>
  PROVE  /\ Front(p) \in Position /\ Len(Front(p)) = Len(p) - 1
         /\ \A j \in 1 .. Len(p) - 1 : Front(p)[j] = p[j]
         /\ p[Len(p)] \in Nat /\ p[Len(p)] > 0
<1>1. Len(p) \in Nat /\ Len(p) > 0 /\ Len(p) - 1 \in 0 .. Len(p) /\ Len(p) \in 1 .. Len(p)
  BY PositionFacts
<1> QED BY <1>1, PositionFacts, PartOfPosition DEF Front

LEMMA ChildFacts ==
  ASSUME NEW p \in Position, NEW i \in Nat, i > 0
  PROVE  /\ Append(p, i) \in Position /\ Append(p, i) # <<>>
         /\ Len(Append(p, i)) = Len(p) + 1
         /\ \A j \in 1 .. Len(p) : Append(p, i)[j] = p[j]
         /\ Append(p, i)[Len(p) + 1] = i
BY DEF Position

\* Positions with the same steps are the same.
LEMMA SamePosition ==
  ASSUME NEW p \in Position, NEW q \in Position,
         Len(p) = Len(q), \A j \in 1 .. Len(p) : p[j] = q[j]
  PROVE  p = q
BY DEF Position

-----------------------------------------------------------------------------
(* Documents                                                               *)

LEMMA DocumentFacts ==
  ASSUME NEW doc, IsDocument(doc), NEW p \in DOMAIN doc
  PROVE  /\ p \in Position /\ <<>> \in DOMAIN doc
         /\ doc[p].type \in Basic \cup Containers \cup {"malformed"}
         /\ doc[p].size \in Nat
         /\ doc[p].type \notin Containers => doc[p].size = 0
         /\ \A i \in 1 .. doc[p].size : Append(p, i) \in DOMAIN doc
         /\ p # <<>> => Front(p) \in DOMAIN doc /\ p[Len(p)] <= doc[Front(p)].size
BY DEF IsDocument

\* The way to a position leads through positions of the document: the longest
\* part of it that is not one would be the front of one that is.
LEMMA PartsAreThere ==
  ASSUME NEW doc, IsDocument(doc), NEW p \in DOMAIN doc, NEW n \in 0 .. Len(p)
  PROVE  SubSeq(p, 1, n) \in DOMAIN doc
<1> DEFINE Missing == {k \in 0 .. Len(p) : SubSeq(p, 1, Len(p) - k) \notin DOMAIN doc}
<1>1. p \in Position /\ Len(p) \in Nat
  BY DocumentFacts, PositionFacts
<1>2. CASE Missing = {}
  <2>1. Len(p) - n \in 0 .. Len(p) /\ Len(p) - (Len(p) - n) = n
    BY <1>1
  <2>2. Len(p) - n \notin Missing
    BY <1>2
  <2> QED BY <2>1, <2>2
<1>3. CASE Missing # {}
  <2>1. Missing \subseteq Nat
    BY <1>1
  <2>2. PICK k \in Missing : \A m \in Missing : ~(<<m, k>> \in OpToRel(<, Nat))
    <3> HIDE DEF Missing
    <3> QED BY <1>3, <2>1, NatLessThanWellFounded, WFMin
  <2>3. k \in 0 .. Len(p) /\ k \in Nat /\ SubSeq(p, 1, Len(p) - k) \notin DOMAIN doc
    <3>1. k \in 0 .. Len(p) /\ SubSeq(p, 1, Len(p) - k) \notin DOMAIN doc
      BY <2>2, Zenon
    <3> QED BY <1>1, <3>1
  <2>4. k # 0
    <3>1. SubSeq(p, 1, Len(p)) = p
      <4>1. Len(p) \in 0 .. Len(p)
        BY <1>1
      <4> QED BY <1>1, <4>1, PartOfPosition, SamePosition
    <3>2. k = 0 => Len(p) - k = Len(p)
      BY <1>1
    <3> QED BY <2>3, <3>1, <3>2
  <2>5. k - 1 \notin Missing
    <3>1. <<k - 1, k>> \in OpToRel(<, Nat)
      BY <2>3, <2>4, SMT DEF OpToRel
    <3> QED BY <2>2, <3>1
  <2>6. k - 1 \in 0 .. Len(p) /\ Len(p) - (k - 1) \in 0 .. Len(p) /\ Len(p) - k \in 0 .. Len(p)
        /\ Len(p) - (k - 1) = (Len(p) - k) + 1
    BY <1>1, <2>3, <2>4
  <2> DEFINE r == SubSeq(p, 1, Len(p) - (k - 1))  s == SubSeq(p, 1, Len(p) - k)
  <2>7. r \in DOMAIN doc
    BY <2>5, <2>6
  <2>8. /\ r \in Position /\ Len(r) = (Len(p) - k) + 1
        /\ \A j \in 1 .. (Len(p) - k) + 1 : r[j] = p[j]
    <3>1. /\ r \in Position /\ Len(r) = Len(p) - (k - 1)
          /\ \A j \in 1 .. Len(p) - (k - 1) : r[j] = p[j]
      BY <1>1, <2>6, PartOfPosition
    <3> HIDE DEF r
    <3> QED BY <3>1, <2>6
  <2>9. s \in Position /\ Len(s) = Len(p) - k /\ \A j \in 1 .. Len(p) - k : s[j] = p[j]
    BY <1>1, <2>6, PartOfPosition
  <2> HIDE DEF r, s
  <2>10. r # <<>>
    BY <2>6, <2>8, PositionFacts
  <2>11. Front(r) = s
    <3>1. Front(r) \in Position /\ Len(Front(r)) = Len(p) - k
      BY <1>1, <2>3, <2>8, <2>10, FrontFacts
    <3>2. \A j \in 1 .. Len(p) - k : Front(r)[j] = s[j]
      <4>1. \A j \in 1 .. Len(r) - 1 : Front(r)[j] = r[j]
        BY <2>8, <2>10, FrontFacts
      <4>2. ASSUME NEW j \in 1 .. Len(p) - k
            PROVE  j \in 1 .. Len(r) - 1 /\ r[j] = p[j] /\ s[j] = p[j]
        BY <1>1, <2>3, <2>8, <2>9
      <4> QED BY <4>1, <4>2
    <3> QED BY <3>1, <3>2, <2>9, SamePosition
  <2>12. s \in DOMAIN doc
    BY <2>7, <2>10, <2>11, DocumentFacts
  <2> QED BY <2>3, <2>12 DEF s
<1> QED BY <1>2, <1>3

\* Below a position, the next step is to one of its children.
LEMMA BelowIsChild ==
  ASSUME NEW doc, IsDocument(doc), NEW q \in DOMAIN doc, NEW p \in DOMAIN doc,
         IsPrefix(q, p), p # q
  PROVE  /\ Len(q) < Len(p)
         /\ p[Len(q) + 1] \in Nat /\ p[Len(q) + 1] > 0
         /\ p[Len(q) + 1] <= doc[q].size
<1>1. p \in Position /\ q \in Position /\ Len(p) \in Nat /\ Len(q) \in Nat
  BY DocumentFacts, PositionFacts
<1>2. Len(q) <= Len(p) /\ \A j \in 1 .. Len(q) : p[j] = q[j]
  BY DEF IsPrefix
<1>3. Len(q) < Len(p)
  <2>1. CASE Len(q) = Len(p)
    BY <1>1, <1>2, <2>1, SamePosition
  <2> QED BY <1>1, <1>2, <2>1
<1> DEFINE n == Len(q) + 1  r == SubSeq(p, 1, n)
<1>4. n \in 0 .. Len(p) /\ n \in 1 .. Len(p) /\ n \in Nat
  BY <1>1, <1>3
<1>5. p[n] \in Nat /\ p[n] > 0
  BY <1>1, <1>4, PositionFacts
<1>6. r \in DOMAIN doc
  BY <1>4, PartsAreThere
<1>7. r \in Position /\ Len(r) = n /\ \A j \in 1 .. n : r[j] = p[j]
  BY <1>1, <1>4, PartOfPosition
<1> HIDE DEF r
<1>8. r # <<>>
  BY <1>1, <1>7, PositionFacts
<1>9. Front(r) = q
  <2>1. Front(r) \in Position /\ Len(Front(r)) = Len(q) /\ \A j \in 1 .. Len(q) : Front(r)[j] = r[j]
    <3>1. Len(r) - 1 = Len(q)
      BY <1>1, <1>7
    <3> QED BY <1>7, <1>8, <3>1, FrontFacts
  <2>2. \A j \in 1 .. Len(q) : Front(r)[j] = q[j]
    BY <2>1, <1>1, <1>2, <1>7
  <2> QED BY <1>1, <2>1, <2>2, SamePosition
<1>10. r[Len(r)] <= doc[q].size
  BY <1>6, <1>8, <1>9, DocumentFacts
<1>11. r[Len(r)] = p[n]
  BY <1>1, <1>7
<1> QED BY <1>3, <1>5, <1>10, <1>11

\* Nothing is below a value without children.
LEMMA NothingBelow ==
  ASSUME NEW doc, IsDocument(doc), NEW q \in DOMAIN doc, NEW p \in DOMAIN doc,
         doc[q].size = 0, IsPrefix(q, p)
  PROVE  p = q
<1>1. SUFFICES ASSUME p # q PROVE FALSE
  OBVIOUS
<1>2. p[Len(q) + 1] \in Nat /\ p[Len(q) + 1] > 0 /\ p[Len(q) + 1] <= 0
  BY <1>1, BelowIsChild
<1> QED BY <1>2

-----------------------------------------------------------------------------
(* What the walk has passed                                                *)

\* Going to the next child passes nothing.
LEMMA VisitPasses ==
  ASSUME NEW q \in Position, NEW n \in Nat, NEW p \in Position
  PROVE  Passed(Append(q, n + 1), 0, p) <=> Passed(q, n, p)
<1> DEFINE r == Append(q, n + 1)
<1>1. /\ r \in Position /\ Len(r) = Len(q) + 1 /\ r[Len(q) + 1] = n + 1
      /\ \A j \in 1 .. Len(q) : r[j] = q[j]
      /\ Len(q) \in Nat /\ Len(p) \in Nat
      /\ \A j \in 1 .. Len(p) : p[j] \in Nat /\ p[j] > 0
  <2>1. n + 1 \in Nat /\ n + 1 > 0
    OBVIOUS
  <2>2. /\ r \in Position /\ Len(r) = Len(q) + 1 /\ r[Len(q) + 1] = n + 1
        /\ \A j \in 1 .. Len(q) : r[j] = q[j]
    BY <2>1, ChildFacts
  <2> HIDE DEF r
  <2> QED BY <2>2, PositionFacts
<1> HIDE DEF r
<1>2. ASSUME NEW i \in 0 .. Len(q)
      PROVE  /\ i \in 0 .. Len(r)
             /\ (\A j \in 1 .. i : p[j] = r[j]) <=> (\A j \in 1 .. i : p[j] = q[j])
             /\ (IF i = Len(r) THEN 0 + 1 ELSE r[i + 1]) = (IF i = Len(q) THEN n + 1 ELSE q[i + 1])
  <2>1. i \in Nat /\ i <= Len(q) /\ i # Len(r) /\ i \in 0 .. Len(r)
    BY <1>1
  <2>2. \A j \in 1 .. i : r[j] = q[j]
    BY <1>1, <2>1
  <2>3. i # Len(q) => i + 1 \in 1 .. Len(q)
    BY <1>1, <2>1
  <2> QED BY <1>1, <2>1, <2>2, <2>3
<1>3. ASSUME Passed(q, n, p) PROVE Passed(r, 0, p)
  BY <1>2, <1>3 DEF Passed
<1>4. ASSUME Passed(r, 0, p) PROVE Passed(q, n, p)
  <2>1. PICK i \in 0 .. Len(r) :
          /\ i < Len(p) /\ \A j \in 1 .. i : p[j] = r[j]
          /\ p[i + 1] < IF i = Len(r) THEN 0 + 1 ELSE r[i + 1]
    BY <1>4 DEF Passed
  <2>2. i # Len(r)
    <3>1. i + 1 \in 1 .. Len(p)
      BY <1>1, <2>1
    <3>2. p[i + 1] \in Nat /\ p[i + 1] > 0
      BY <1>1, <3>1
    <3> QED BY <2>1, <3>2
  <2>3. i \in 0 .. Len(q)
    BY <1>1, <2>1, <2>2
  <2> QED BY <1>2, <2>1, <2>3 DEF Passed
<1> QED BY <1>3, <1>4 DEF r

\* Returning from a position passes it and all that is below it.
LEMMA ReturnPasses ==
  ASSUME NEW q \in Position, q # <<>>, NEW n \in Nat, NEW p \in Position
  PROVE  Passed(Front(q), q[Len(q)], p) <=> Passed(q, n, p) \/ IsPrefix(q, p)
<1> DEFINE r == Front(q)  m == q[Len(q)]
<1>1. /\ r \in Position /\ Len(r) = Len(q) - 1 /\ m \in Nat
      /\ \A j \in 1 .. Len(r) : r[j] = q[j]
      /\ Len(q) \in Nat /\ Len(q) > 0 /\ Len(p) \in Nat /\ Len(r) \in Nat
      /\ \A j \in 1 .. Len(p) : p[j] \in Nat
      /\ \A j \in 1 .. Len(q) : q[j] \in Nat
  BY FrontFacts, PositionFacts
<1>2. m = q[Len(r) + 1]
  BY <1>1
<1> HIDE DEF r, m
<1>3. ASSUME Passed(r, m, p) PROVE Passed(q, n, p) \/ IsPrefix(q, p)
  <2>1. PICK i \in 0 .. Len(r) :
          /\ i < Len(p) /\ \A j \in 1 .. i : p[j] = r[j]
          /\ p[i + 1] < IF i = Len(r) THEN m + 1 ELSE r[i + 1]
    BY <1>3 DEF Passed
  <2>2. i \in 0 .. Len(q) /\ i # Len(q) /\ \A j \in 1 .. i : p[j] = q[j]
    BY <1>1, <2>1
  <2>3. i + 1 \in 1 .. Len(p) /\ p[i + 1] \in Nat /\ i + 1 \in 1 .. Len(q) /\ q[i + 1] \in Nat
    BY <1>1, <2>1
  <2>4. CASE p[i + 1] < q[i + 1]
    BY <2>1, <2>2, <2>4 DEF Passed
  <2>5. CASE ~(p[i + 1] < q[i + 1])
    <3>1. i = Len(r)
      <4>1. i # Len(r) => r[i + 1] = q[i + 1]
        BY <1>1, <2>1
      <4> QED BY <2>1, <2>5, <4>1
    <3>2. p[i + 1] = q[i + 1]
      BY <1>1, <1>2, <2>1, <2>3, <2>5, <3>1
    <3>3. \A j \in 1 .. Len(q) : p[j] = q[j]
      BY <1>1, <2>2, <3>1, <3>2
    <3>4. Len(q) <= Len(p)
      BY <1>1, <2>1, <3>1
    <3> QED BY <3>3, <3>4 DEF IsPrefix
  <2> QED BY <2>4, <2>5
<1>4. ASSUME IsPrefix(q, p) PROVE Passed(r, m, p)
  <2>1. Len(q) <= Len(p) /\ \A j \in 1 .. Len(q) : p[j] = q[j]
    BY <1>4 DEF IsPrefix
  <2>2. Len(r) \in 0 .. Len(r) /\ Len(r) < Len(p) /\ \A j \in 1 .. Len(r) : p[j] = r[j]
    BY <1>1, <2>1
  <2>3. p[Len(r) + 1] = m
    BY <1>1, <1>2, <2>1
  <2> QED BY <1>1, <2>2, <2>3 DEF Passed
<1>5. ASSUME Passed(q, n, p), ~IsPrefix(q, p) PROVE Passed(r, m, p)
  <2>1. PICK i \in 0 .. Len(q) :
          /\ i < Len(p) /\ \A j \in 1 .. i : p[j] = q[j]
          /\ p[i + 1] < IF i = Len(q) THEN n + 1 ELSE q[i + 1]
    BY <1>5 DEF Passed
  <2>2. i # Len(q)
    <3>1. i = Len(q) => IsPrefix(q, p)
      BY <1>1, <2>1 DEF IsPrefix
    <3> QED BY <1>5, <3>1
  <2>3. i \in 0 .. Len(r) /\ \A j \in 1 .. i : p[j] = r[j]
    BY <1>1, <2>1, <2>2
  <2>4. i + 1 \in 1 .. Len(p) /\ p[i + 1] \in Nat /\ p[i + 1] < q[i + 1]
    BY <1>1, <2>1, <2>2
  <2>5. CASE i = Len(r)
    BY <1>1, <1>2, <2>1, <2>3, <2>4, <2>5 DEF Passed
  <2>6. CASE i # Len(r)
    <3>1. r[i + 1] = q[i + 1]
      BY <1>1, <2>1, <2>3, <2>6
    <3> QED BY <2>1, <2>3, <2>4, <2>6, <3>1 DEF Passed
  <2> QED BY <2>5, <2>6
<1> QED BY <1>3, <1>4, <1>5 DEF r, m

\* The position the walk is at has not been passed, and at the start of a
\* document nothing has.
LEMMA NotPassed ==
  ASSUME NEW q \in Position, NEW n \in Nat, NEW p \in Position
  PROVE  ~Passed(q, n, q) /\ ~Passed(<<>>, 0, p)
<1>1. /\ Len(q) \in Nat /\ \A j \in 1 .. Len(q) : q[j] \in Nat
      /\ Len(p) \in Nat /\ \A j \in 1 .. Len(p) : p[j] \in Nat /\ p[j] > 0
  BY PositionFacts
<1>2. ~Passed(q, n, q)
  BY <1>1 DEF Passed
<1>3. ~Passed(<<>>, 0, p)
  BY <1>1 DEF Passed
<1> QED BY <1>2, <1>3

-----------------------------------------------------------------------------
(* The stack of path hashes                                                *)

\* Functions from 1 .. n are sequences.
LEMMA IsSequence ==
  ASSUME NEW n \in Nat, NEW f, f = [i \in 1 .. n |-> f[i]]
  PROVE  f \in Seq({f[i] : i \in 1 .. n}) /\ Len(f) = n /\ DOMAIN f = 1 .. n
<1> DEFINE S == {f[i] : i \in 1 .. n}
<1>1. f \in [1 .. n -> S]
  <2>1. \A i \in 1 .. n : f[i] \in S
    OBVIOUS
  <2> HIDE DEF S
  <2> QED BY <2>1
<1> HIDE DEF S
<1>2. f \in Seq(S)
  BY <1>1
<1>3. DOMAIN f = 1 .. n /\ Len(f) = n
  BY <1>1, <1>2
<1> QED BY <1>2, <1>3 DEF S

LEMMA AppendAsFunction ==
  ASSUME NEW n \in Nat, NEW f, f = [i \in 1 .. n |-> f[i]], NEW x
  PROVE  Append(f, x) = [i \in 1 .. n + 1 |-> IF i = n + 1 THEN x ELSE f[i]]
<1> DEFINE S == {f[i] : i \in 1 .. n} \cup {x}
<1>1. f \in Seq(S) /\ x \in S /\ Len(f) = n /\ DOMAIN f = 1 .. n
  <2>1. f \in [1 .. n -> S]
    <3>1. \A i \in 1 .. n : f[i] \in S
      OBVIOUS
    <3> HIDE DEF S
    <3> QED BY <3>1
  <2> HIDE DEF S
  <2>2. f \in Seq(S)
    BY <2>1
  <2>3. DOMAIN f = 1 .. n /\ Len(f) = n
    BY <2>1, <2>2
  <2> QED BY <2>2, <2>3 DEF S
<1> HIDE DEF S
<1>2. /\ Append(f, x) \in Seq(S) /\ Len(Append(f, x)) = n + 1
      /\ \A i \in 1 .. n : Append(f, x)[i] = f[i]
      /\ Append(f, x)[n + 1] = x
  BY <1>1
<1> QED BY <1>1, <1>2

LEMMA FrontAsFunction ==
  ASSUME NEW n \in Nat, NEW f, f = [i \in 1 .. n + 1 |-> f[i]]
  PROVE  Front(f) = [i \in 1 .. n |-> f[i]]
<1> DEFINE S == {f[i] : i \in 1 .. n + 1}
<1>1. f \in Seq(S) /\ Len(f) = n + 1
  BY IsSequence
<1> HIDE DEF S
<1>2. SubSeq(f, 1, n) = [i \in 1 .. n |-> f[i]]
  BY <1>1
<1>3. Len(f) - 1 = n
  BY <1>1
<1> QED BY <1>2, <1>3 DEF Front

\* The steps to a child are those to its parent and one more.
LEMMA PathToChild ==
  ASSUME NEW doc, NEW p \in Position, NEW i \in Nat
  PROVE  PathTo(doc, Append(p, i + 1)) = mix(PathTo(doc, p), StepHash(doc[p], i))
<1> DEFINE r == Append(p, i + 1)  n == Len(p)
           step(q, j) == StepHash(doc[SubSeq(q, 1, j - 1)], q[j] - 1)
<1>1. i + 1 \in Nat /\ i + 1 > 0 /\ n \in Nat /\ DOMAIN p = 1 .. n
  BY PositionFacts
<1>2. /\ r \in Position /\ Len(r) = n + 1 /\ r[n + 1] = i + 1
      /\ \A j \in 1 .. n : r[j] = p[j]
  BY <1>1, ChildFacts
<1> HIDE DEF r
<1>3. DOMAIN r = 1 .. n + 1
  BY <1>2, PositionFacts
<1>4. ASSUME NEW j \in 0 .. n PROVE SubSeq(r, 1, j) = SubSeq(p, 1, j)
  <2>1. j \in 0 .. Len(r) /\ j \in 0 .. Len(p) /\ \A k \in 1 .. j : k \in 1 .. n
    BY <1>1, <1>2
  <2> HIDE DEF n
  <2> QED BY <1>2, <2>1, PartOfPosition, SamePosition
<1>5. SubSeq(p, 1, n) = p
  <2>1. n \in 0 .. Len(p)
    BY <1>1
  <2> QED BY <2>1, PartOfPosition, SamePosition
<1>6. ASSUME NEW j \in 1 .. n PROVE step(r, j) = step(p, j)
  <2>1. j - 1 \in 0 .. n
    BY <1>1
  <2> QED BY <1>2, <1>4, <2>1
<1>7. step(r, n + 1) = StepHash(doc[p], i)
  <2>1. (n + 1) - 1 = n /\ n \in 0 .. n /\ r[n + 1] - 1 = i
    BY <1>1, <1>2
  <2> QED BY <1>4, <1>5, <2>1
<1>8. PathTo(doc, p) = [j \in 1 .. n |-> step(p, j)] /\ PathTo(doc, r) = [j \in 1 .. n + 1 |-> step(r, j)]
  BY <1>1, <1>3 DEF PathTo
<1> HIDE DEF step
<1>9. PathTo(doc, p) = [j \in 1 .. n |-> PathTo(doc, p)[j]]
  BY <1>8
<1>10. mix(PathTo(doc, p), StepHash(doc[p], i))
         = [j \in 1 .. n + 1 |-> IF j = n + 1 THEN StepHash(doc[p], i) ELSE PathTo(doc, p)[j]]
  BY <1>1, <1>9, AppendAsFunction DEF mix
<1>11. ASSUME NEW j \in 1 .. n + 1
       PROVE  step(r, j) = IF j = n + 1 THEN StepHash(doc[p], i) ELSE PathTo(doc, p)[j]
  <2>1. CASE j = n + 1
    BY <1>7, <2>1
  <2>2. CASE j # n + 1
    <3>1. j \in 1 .. n
      BY <1>1, <2>2
    <3> QED BY <1>6, <1>8, <2>2, <3>1
  <2> QED BY <2>1, <2>2
<1> QED BY <1>8, <1>10, <1>11 DEF r

StackOf(doc, p) == [i \in 1 .. Len(p) + 1 |-> PathTo(doc, SubSeq(p, 1, i - 1))]

LEMMA StackFacts ==
  ASSUME NEW doc, NEW p \in Position
  PROVE  /\ Len(StackOf(doc, p)) = Len(p) + 1
         /\ StackOf(doc, p) # <<>>
         /\ StackOf(doc, p)[Len(p) + 1] = PathTo(doc, p)
         /\ StackOf(doc, p) = [i \in 1 .. Len(p) + 1 |-> StackOf(doc, p)[i]]
<1>1. Len(p) \in Nat /\ Len(p) + 1 \in Nat /\ Len(p) + 1 \in 1 .. Len(p) + 1
      /\ (Len(p) + 1) - 1 = Len(p) /\ Len(p) \in 0 .. Len(p)
  BY PositionFacts
<1>2. StackOf(doc, p) = [i \in 1 .. Len(p) + 1 |-> StackOf(doc, p)[i]]
  BY DEF StackOf
<1>3. Len(StackOf(doc, p)) = Len(p) + 1
  BY <1>1, <1>2, IsSequence
<1>4. SubSeq(p, 1, Len(p)) = p
  BY <1>1, PartOfPosition, SamePosition
<1>5. StackOf(doc, p)[Len(p) + 1] = PathTo(doc, p)
  BY <1>1, <1>4 DEF StackOf
<1>6. Len(<<>>) = 0
  OBVIOUS
<1>7. StackOf(doc, p) # <<>>
  BY <1>1, <1>3, <1>6
<1> QED BY <1>2, <1>3, <1>5, <1>7

LEMMA StackAtRoot ==
  ASSUME NEW doc
  PROVE  <<<<>>>> = StackOf(doc, <<>>)
<1>1. PathTo(doc, <<>>) = <<>>
  BY DEF PathTo
<1>2. Len(<<>>) = 0 /\ SubSeq(<<>>, 1, 0) = <<>>
  OBVIOUS
<1>3. StackOf(doc, <<>>) = [i \in 1 .. 1 |-> <<>>]
  <2>1. ASSUME NEW i \in 1 .. 1 PROVE i - 1 = 0
    OBVIOUS
  <2>2. \A i \in 1 .. 1 : PathTo(doc, SubSeq(<<>>, 1, i - 1)) = <<>>
    BY <1>1, <1>2, <2>1
  <2> QED BY <1>2, <2>2 DEF StackOf
<1> QED BY <1>3

\* The stack of a child has the path hash of the child on top.
LEMMA StackOfChild ==
  ASSUME NEW doc, NEW p \in Position, NEW k \in Nat, k > 0
  PROVE  Append(StackOf(doc, p), PathTo(doc, Append(p, k))) = StackOf(doc, Append(p, k))
<1> DEFINE r == Append(p, k)  n == Len(p) + 1
<1>1. r \in Position /\ Len(r) = n /\ n \in Nat /\ \A j \in 1 .. Len(p) : r[j] = p[j]
  BY ChildFacts, PositionFacts
<1> HIDE DEF r
<1>2. Append(StackOf(doc, p), PathTo(doc, r))
        = [i \in 1 .. n + 1 |-> IF i = n + 1 THEN PathTo(doc, r) ELSE StackOf(doc, p)[i]]
  BY <1>1, StackFacts, AppendAsFunction
<1>3. ASSUME NEW i \in 1 .. n + 1, i # n + 1
      PROVE  StackOf(doc, p)[i] = StackOf(doc, r)[i]
  <2>1. /\ i - 1 \in 0 .. Len(p) /\ i - 1 \in 0 .. Len(r) /\ i \in 1 .. n
        /\ \A j \in 1 .. i - 1 : j \in 1 .. Len(p)
    BY <1>1, <1>3, PositionFacts
  <2>2. SubSeq(p, 1, i - 1) = SubSeq(r, 1, i - 1)
    BY <1>1, <2>1, PartOfPosition, SamePosition
  <2> QED BY <1>1, <2>1, <2>2 DEF StackOf
<1>4. StackOf(doc, r)[n + 1] = PathTo(doc, r)
  BY <1>1, StackFacts
<1>5. StackOf(doc, r) = [i \in 1 .. n + 1 |-> StackOf(doc, r)[i]]
  BY <1>1, StackFacts
<1> QED BY <1>2, <1>3, <1>4, <1>5 DEF r

\* Without its top it is the stack of the parent.
LEMMA StackOfParent ==
  ASSUME NEW doc, NEW p \in Position
  PROVE  /\ p # <<>> => Front(StackOf(doc, p)) = StackOf(doc, Front(p))
         /\ p = <<>> => Front(StackOf(doc, p)) = <<>>
<1>1. Len(p) \in Nat /\ (Len(p) = 0 <=> p = <<>>)
  BY PositionFacts
<1>2. Front(StackOf(doc, p)) = [i \in 1 .. Len(p) |-> StackOf(doc, p)[i]]
  BY <1>1, StackFacts, FrontAsFunction
<1>3. CASE p # <<>>
  <2> DEFINE r == Front(p)
  <2>1. r \in Position /\ Len(r) = Len(p) - 1 /\ \A j \in 1 .. Len(p) - 1 : r[j] = p[j]
    BY <1>3, FrontFacts
  <2> HIDE DEF r
  <2>2. ASSUME NEW i \in 1 .. Len(p) PROVE StackOf(doc, p)[i] = StackOf(doc, r)[i]
    <3>1. /\ i - 1 \in 0 .. Len(p) /\ i - 1 \in 0 .. Len(r)
          /\ i \in 1 .. Len(p) + 1 /\ i \in 1 .. Len(r) + 1
          /\ \A j \in 1 .. i - 1 : j \in 1 .. Len(p) - 1
      BY <1>1, <2>1
    <3>2. SubSeq(p, 1, i - 1) = SubSeq(r, 1, i - 1)
      BY <2>1, <3>1, PartOfPosition, SamePosition
    <3> QED BY <3>1, <3>2 DEF StackOf
  <2>3. Len(r) + 1 = Len(p)
    BY <1>1, <2>1
  <2>4. StackOf(doc, r) = [i \in 1 .. Len(p) |-> StackOf(doc, r)[i]]
    BY <2>1, <2>3, StackFacts
  <2> QED BY <1>2, <1>3, <2>2, <2>4 DEF r
<1>4. CASE p = <<>>
  <2>1. 1 .. Len(p) = {}
    BY <1>1, <1>4
  <2> QED BY <1>2, <1>4, <2>1
<1> QED BY <1>3, <1>4

-----------------------------------------------------------------------------
(* The inductive invariant                                                 *)

LEMMA FileFacts ==
  ASSUME TypeOK
  PROVE  /\ Len(file) \in Nat /\ DOMAIN file = 1 .. Len(file)
         /\ \A d \in DOMAIN file : IsDocument(file[d])
         /\ current \in Nat /\ current <= Len(file)
BY WalkAssumption DEF TypeOK

\* Inside a document.
LEMMA ActiveFacts ==
  ASSUME IInv, Active
  PROVE  /\ current \in DOMAIN file /\ IsDocument(file[current])
         /\ at \in DOMAIN file[current] /\ at \in Position
         /\ index \in Nat /\ index <= file[current][at].size
         /\ paths = StackOf(file[current], at)
         /\ path_hash = PathTo(file[current], at)
<1>1. TypeOK /\ Stack /\ paths # <<>>
  BY DEF IInv, Active
<1>2. current \in DOMAIN file /\ IsDocument(file[current])
  <2>1. current > 0
    BY <1>1 DEF TypeOK
  <2> QED BY <1>1, <2>1, FileFacts
<1>3. at \in DOMAIN file[current] /\ at \in Position /\ index \in Nat
      /\ index <= file[current][at].size
  BY <1>1 DEF TypeOK, Element
<1>4. paths = StackOf(file[current], at)
  BY <1>1 DEF Stack, StackOf
<1>5. path_hash = PathTo(file[current], at)
  BY <1>3, <1>4, StackFacts DEF path_hash
<1> QED BY <1>2, <1>3, <1>4, <1>5

LEMMA EntryFacts ==
  ASSUME NEW e \in Entry
  PROVE  /\ e.document \in DOMAIN file /\ e.at \in Leaves(file[e.document])
         /\ e.hash \in HashesOf(file[e.document], e.at)
BY DEF Entry

LEMMA NewEntry ==
  ASSUME NEW d \in DOMAIN file, NEW p \in Leaves(file[d]), NEW h \in HashesOf(file[d], p)
  PROVE  [document |-> d, at |-> p, hash |-> h] \in Entry
BY DEF Entry

LEMMA AppendFacts ==
  ASSUME NEW S, NEW s \in Seq(S), NEW e \in S
  PROVE  /\ Append(s, e) \in Seq(S)
         /\ Len(s) \in Nat /\ DOMAIN s = 1 .. Len(s)
         /\ DOMAIN Append(s, e) = 1 .. Len(s) + 1
         /\ \A i \in DOMAIN s : Append(s, e)[i] = s[i]
         /\ Append(s, e)[Len(s) + 1] = e
OBVIOUS

LEMMA InitInvariant == Init => IInv
<1> SUFFICES ASSUME Init PROVE IInv
  OBVIOUS
<1>1. Len(file) \in Nat /\ DOMAIN file = 1 .. Len(file)
  BY WalkAssumption DEF Init
<1>2. <<>> \in Position /\ 0 \in 0 .. Len(file)
  BY <1>1 DEF Position
<1>3. TypeOK
  BY <1>2 DEF Init, TypeOK
<1>4. Stack
  BY DEF Init, Stack
<1>5. DOMAIN accumulated = {} /\ accumulated \in Seq(Entry)
  <2>1. accumulated = <<>>
    BY DEF Init
  <2> QED BY <2>1
<1>6. Entries
  BY <1>5 DEF Entries
<1>7. Progress
  <2>1. ASSUME NEW d \in DOMAIN file, NEW p \in DOMAIN file[d] PROVE ~Done(d, p)
    BY <1>1 DEF Done, Init
  <2> QED BY <1>5, <2>1 DEF Progress
<1>8. Ends
  BY DEF Init, Ends
<1> QED BY <1>3, <1>4, <1>6, <1>7, <1>8 DEF IInv

\* Done after a step.
DoneNext(d, p) ==
  \/ d < current'
  \/ d = current' /\ (paths' = <<>> \/ Passed(at', index', p))

\* A return leads to the parent, or out of the document, and passes what is at
\* the position and below it.
LEMMA ReturnFacts ==
  ASSUME IInv, Active, Return, UNCHANGED <<file, current, outcome>>
  PROVE  /\ TypeOK' /\ Stack'
         /\ \A p \in Position : DoneNext(current, p) <=> Done(current, p) \/ IsPrefix(at, p)
         /\ \A d \in DOMAIN file : \A p : d # current => (DoneNext(d, p) <=> Done(d, p))
<1> DEFINE doc == file[current]
<1>1. /\ current \in DOMAIN file /\ IsDocument(doc) /\ at \in DOMAIN doc /\ at \in Position
      /\ paths = StackOf(doc, at) /\ index \in Nat
  BY ActiveFacts
<1>2. /\ paths' = Front(paths)
      /\ at' = IF at = <<>> THEN <<>> ELSE Front(at)
      /\ index' = IF at = <<>> THEN 0 ELSE at[Len(at)]
  BY DEF Return
<1>3. TypeOK /\ outcome = "none" /\ paths # <<>>
  BY DEF IInv, Active
<1>4. current \in Nat /\ ~(current < current)
  BY <1>3, FileFacts
<1>5. CASE at = <<>>
  <2>1. paths' = <<>> /\ at' = <<>> /\ index' = 0
    BY <1>1, <1>2, <1>5, StackOfParent
  <2>2. TypeOK'
    BY <1>1, <1>3, <1>5, <2>1 DEF TypeOK
  <2>3. Stack'
    BY <2>1 DEF Stack
  <2>4. ASSUME NEW p \in Position PROVE DoneNext(current, p) /\ IsPrefix(at, p)
    <3>1. DoneNext(current, p)
      BY <2>1 DEF DoneNext
    <3>2. IsPrefix(at, p)
      <4>1. Len(at) = 0 /\ Len(p) \in Nat
        BY <1>1, <1>5, PositionFacts
      <4> QED BY <4>1 DEF IsPrefix
    <3> QED BY <3>1, <3>2
  <2>5. ASSUME NEW d \in DOMAIN file, NEW p, d # current PROVE DoneNext(d, p) <=> Done(d, p)
    BY <2>5 DEF Done, DoneNext
  <2> QED BY <2>2, <2>3, <2>4, <2>5
<1>6. CASE at # <<>>
  <2> DEFINE up == Front(at)  n == at[Len(at)]
  <2>1. /\ up \in Position /\ Len(up) = Len(at) - 1 /\ n \in Nat
        /\ Len(at) \in Nat
    BY <1>1, <1>6, FrontFacts, PositionFacts
  <2>2. at' = up /\ index' = n /\ paths' = StackOf(doc, up) /\ paths' # <<>>
    <3>1. paths' = StackOf(doc, up)
      BY <1>1, <1>2, <1>6, StackOfParent
    <3> QED BY <1>2, <1>6, <2>1, <3>1, StackFacts
  <2>3. up \in DOMAIN doc /\ n <= doc[up].size
    BY <1>1, <1>6, DocumentFacts
  <2>4. Len(paths') = Len(up) + 1
    BY <2>1, <2>2, StackFacts
  <2> HIDE DEF up, n
  <2>5. TypeOK'
    <3>1. current > 0
      BY <1>3 DEF TypeOK
    <3> QED BY <1>3, <2>1, <2>2, <2>3, <2>4, <3>1 DEF TypeOK, Element
  <2>6. Stack'
    BY <2>2 DEF Stack, StackOf
  <2>7. ASSUME NEW p \in Position
        PROVE  DoneNext(current, p) <=> Done(current, p) \/ IsPrefix(at, p)
    <3>1. Done(current, p) <=> Passed(at, index, p)
      BY <1>3, <1>4 DEF Done
    <3>2. DoneNext(current, p) <=> Passed(up, n, p)
      BY <1>4, <2>2 DEF DoneNext
    <3> QED BY <1>1, <1>6, <3>1, <3>2, ReturnPasses DEF up, n
  <2>8. ASSUME NEW d \in DOMAIN file, NEW p, d # current PROVE DoneNext(d, p) <=> Done(d, p)
    BY <2>8 DEF Done, DoneNext
  <2> QED BY <2>5, <2>6, <2>7, <2>8
<1> QED BY <1>5, <1>6

\* HashValue and HashEmpty: the value the walk is at is accumulated and returned
\* from.
LEMMA LeafStep ==
  ASSUME IInv, Active, Return, UNCHANGED <<file, current, outcome>>,
         at \in Leaves(file[current]),
         NEW h \in HashesOf(file[current], at), Accumulate(h)
  PROVE  IInv'
<1> DEFINE e == [document |-> current, at |-> at, hash |-> h]  n == Len(accumulated)
<1>1. /\ current \in DOMAIN file /\ IsDocument(file[current])
      /\ at \in DOMAIN file[current] /\ at \in Position /\ index \in Nat
  BY ActiveFacts
<1>2. /\ TypeOK' /\ Stack'
      /\ \A p \in Position : DoneNext(current, p) <=> Done(current, p) \/ IsPrefix(at, p)
      /\ \A d \in DOMAIN file : \A p : d # current => (DoneNext(d, p) <=> Done(d, p))
  BY ReturnFacts
<1>3. TypeOK /\ Entries /\ Progress /\ outcome = "none" /\ paths # <<>>
  BY DEF IInv, Active
<1>4. e \in Entry /\ Entry' = Entry /\ accumulated \in Seq(Entry)
  BY <1>1, <1>3, NewEntry DEF Entry, Entries
<1>5. accumulated' = Append(accumulated, e)
  BY DEF Accumulate
<1>6. e.document = current /\ e.at = at
  OBVIOUS
<1> HIDE DEF e
<1>7. /\ accumulated' \in Seq(Entry)
      /\ n \in Nat /\ DOMAIN accumulated = 1 .. n /\ DOMAIN accumulated' = 1 .. n + 1
      /\ \A i \in 1 .. n : accumulated'[i] = accumulated[i]
      /\ accumulated'[n + 1] = e
  BY <1>4, <1>5, AppendFacts
<1> HIDE DEF n
<1>8. \A i \in 1 .. n : /\ accumulated[i].document \in DOMAIN file
                        /\ accumulated[i].at \in Leaves(file[accumulated[i].document])
                        /\ Done(accumulated[i].document, accumulated[i].at)
  <2>1. \A i \in 1 .. n : accumulated[i] \in Entry
    BY <1>4, <1>7
  <2>2. \A i \in 1 .. n : Done(accumulated[i].document, accumulated[i].at)
    BY <1>3, <1>7 DEF Progress
  <2> QED BY <2>1, <2>2, EntryFacts
<1>9. ~Done(current, at)
  <2>1. ~(current < current)
    BY <1>3, FileFacts
  <2>2. ~Passed(at, index, at)
    BY <1>1, NotPassed
  <2> QED BY <1>3, <2>1, <2>2 DEF Done
<1>10. \A i \in 1 .. n : ~(accumulated[i].document = current /\ accumulated[i].at = at)
  BY <1>8, <1>9
<1>11. Entries'
  <2>1. ASSUME NEW i \in 1 .. n + 1, NEW j \in 1 .. n + 1,
               accumulated'[i].document = accumulated'[j].document,
               accumulated'[i].at = accumulated'[j].at
        PROVE  i = j
    <3>1. i \in 1 .. n \/ i = n + 1
      BY <1>7
    <3>2. j \in 1 .. n \/ j = n + 1
      BY <1>7
    <3>3. CASE i \in 1 .. n /\ j \in 1 .. n
      BY <1>3, <1>7, <2>1, <3>3 DEF Entries
    <3>4. CASE i \in 1 .. n /\ j = n + 1
      BY <1>6, <1>7, <1>10, <2>1, <3>4
    <3>5. CASE i = n + 1 /\ j \in 1 .. n
      BY <1>6, <1>7, <1>10, <2>1, <3>5
    <3> QED BY <3>1, <3>2, <3>3, <3>4, <3>5
  <2> QED BY <1>4, <1>7, <2>1 DEF Entries
<1>12. \A d \in DOMAIN file : \A p \in DOMAIN file[d] :
         DoneNext(d, p) => Done(d, p) \/ (d = current /\ p = at)
  <2>1. ASSUME NEW d \in DOMAIN file, NEW p \in DOMAIN file[d], DoneNext(d, p), ~Done(d, p)
        PROVE  d = current /\ p = at
    <3>1. d = current
      BY <1>2, <2>1
    <3>2. p \in Position
      BY <1>1, <3>1, DocumentFacts
    <3>3. IsPrefix(at, p)
      BY <1>2, <2>1, <3>1, <3>2
    <3>4. file[current][at].size = 0
      BY DEF Leaves
    <3> QED BY <1>1, <3>1, <3>3, <3>4, NothingBelow
  <2> QED BY <2>1
<1>13. DoneNext(current, at)
  <2>1. IsPrefix(at, at)
    BY <1>1, PositionFacts DEF IsPrefix
  <2> QED BY <1>1, <1>2, <2>1
<1>14. \A d \in DOMAIN file : \A p \in DOMAIN file[d] : Done(d, p) => DoneNext(d, p)
  <2>1. ASSUME NEW d \in DOMAIN file, NEW p \in DOMAIN file[d], Done(d, p) PROVE DoneNext(d, p)
    <3>1. CASE d # current
      BY <1>2, <2>1, <3>1
    <3>2. CASE d = current
      <4>1. p \in Position
        BY <1>1, <3>2, DocumentFacts
      <4> QED BY <1>2, <2>1, <3>2, <4>1
    <3> QED BY <3>1, <3>2
  <2> QED BY <2>1
<1>15. Progress'
  <2>1. ASSUME NEW i \in 1 .. n + 1
        PROVE  DoneNext(accumulated'[i].document, accumulated'[i].at)
    <3>1. CASE i \in 1 .. n
      <4>1. accumulated[i].at \in DOMAIN file[accumulated[i].document]
        BY <1>8, <3>1 DEF Leaves
      <4>2. Done(accumulated[i].document, accumulated[i].at)
        BY <1>8, <3>1
      <4> DEFINE d == accumulated[i].document  p == accumulated[i].at
      <4>3. d \in DOMAIN file /\ p \in DOMAIN file[d] /\ Done(d, p)
        BY <1>8, <3>1, <4>1, <4>2
      <4> QED BY <1>7, <1>14, <3>1, <4>3
    <3>2. CASE i = n + 1
      BY <1>6, <1>7, <1>13, <3>2
    <3> QED BY <1>7, <3>1, <3>2
  <2>2. ASSUME NEW d \in DOMAIN file, NEW p \in DOMAIN file[d], DoneNext(d, p)
        PROVE  /\ file[d][p].type # "malformed"
               /\ p \in Leaves(file[d]) =>
                    \E i \in 1 .. n + 1 : accumulated'[i].document = d /\ accumulated'[i].at = p
    <3>1. CASE Done(d, p)
      <4>1. /\ file[d][p].type # "malformed"
            /\ p \in Leaves(file[d]) =>
                 \E i \in 1 .. n : accumulated[i].document = d /\ accumulated[i].at = p
        BY <1>3, <1>7, <3>1 DEF Progress
      <4>2. \A i \in 1 .. n : i \in 1 .. n + 1 /\ accumulated'[i] = accumulated[i]
        BY <1>7
      <4> QED BY <4>1, <4>2
    <3>2. CASE d = current /\ p = at
      <4>1. n + 1 \in 1 .. n + 1
        BY <1>7
      <4>2. file[d][p].type # "malformed"
        BY <3>2 DEF Leaves
      <4> QED BY <1>6, <1>7, <3>2, <4>1, <4>2
    <3> QED BY <1>12, <2>2, <3>1, <3>2
  <2> QED BY <1>7, <2>1, <2>2 DEF Progress, Done, DoneNext, Leaves
<1>16. Ends'
  BY <1>3 DEF Ends
<1> QED BY <1>2, <1>11, <1>15, <1>16 DEF IInv

LEMMA HashValueStep == IInv /\ HashValue => IInv'
<1> SUFFICES ASSUME IInv, HashValue PROVE IInv'
  OBVIOUS
<1>1. /\ Active /\ Return /\ UNCHANGED <<file, current, outcome>>
      /\ file[current][at].type \in Basic
  BY DEF HashValue, Element
<1>2. PICK h \in XXHash(path_hash, Element) : Accumulate(h)
  BY DEF HashValue
<1>3. /\ IsDocument(file[current]) /\ at \in DOMAIN file[current]
      /\ path_hash = PathTo(file[current], at)
  BY <1>1, ActiveFacts
<1>4. at \in Leaves(file[current])
  <2>1. file[current][at].type \notin Containers /\ file[current][at].type # "malformed"
    BY <1>1 DEF Basic, Containers
  <2> QED BY <1>3, <2>1, DocumentFacts DEF Leaves
<1>5. h \in HashesOf(file[current], at)
  BY <1>1, <1>2, <1>3 DEF XXHash, HashesOf, Element
<1> QED BY <1>1, <1>2, <1>4, <1>5, LeafStep

LEMMA HashEmptyStep == IInv /\ HashEmpty => IInv'
<1> SUFFICES ASSUME IInv, HashEmpty PROVE IInv'
  OBVIOUS
<1>1. /\ Active /\ Return /\ UNCHANGED <<file, current, outcome>>
      /\ file[current][at].type \in Containers /\ file[current][at].size = 0
      /\ Accumulate(EmptyHash(file[current][at].type))
  BY DEF HashEmpty, Element
<1>2. at \in DOMAIN file[current]
  BY <1>1, ActiveFacts
<1>3. file[current][at].type \notin Basic /\ file[current][at].type # "malformed"
  BY <1>1 DEF Basic, Containers
<1>4. at \in Leaves(file[current])
  BY <1>1, <1>2, <1>3 DEF Leaves
<1>5. EmptyHash(file[current][at].type) \in HashesOf(file[current], at)
  BY <1>3 DEF HashesOf
<1> QED BY <1>1, <1>4, <1>5, LeafStep

\* Steps that accumulate nothing and pass nothing but containers.
LEMMA NothingAccumulated ==
  ASSUME IInv, outcome = "none", UNCHANGED <<file, accumulated>>,
         \A d \in DOMAIN file : \A p \in DOMAIN file[d] : Done(d, p) => DoneNext(d, p),
         \A d \in DOMAIN file : \A p \in DOMAIN file[d] :
           DoneNext(d, p) => \/ Done(d, p)
                             \/ file[d][p].size # 0 /\ file[d][p].type # "malformed"
  PROVE  Entries' /\ Progress'
<1>1. Entries /\ Progress
  BY DEF IInv
<1>2. Entries'
  BY <1>1 DEF Entries, Entry
<1>3. ASSUME NEW i \in DOMAIN accumulated
      PROVE  DoneNext(accumulated[i].document, accumulated[i].at)
  <2> DEFINE d == accumulated[i].document  p == accumulated[i].at
  <2>1. accumulated[i] \in Entry
    BY <1>1 DEF Entries
  <2>2. d \in DOMAIN file /\ p \in DOMAIN file[d]
    BY <2>1, EntryFacts DEF Leaves
  <2>3. Done(d, p)
    BY <1>1 DEF Progress
  <2> QED BY <2>2, <2>3
<1>4. ASSUME NEW d \in DOMAIN file, NEW p \in DOMAIN file[d], DoneNext(d, p)
      PROVE  /\ file[d][p].type # "malformed"
             /\ p \in Leaves(file[d]) =>
                  \E i \in DOMAIN accumulated : accumulated[i].document = d /\ accumulated[i].at = p
  <2>1. CASE Done(d, p)
    BY <1>1, <2>1 DEF Progress
  <2>2. CASE file[d][p].size # 0 /\ file[d][p].type # "malformed"
    BY <2>2 DEF Leaves
  <2> QED BY <1>4, <2>1, <2>2
<1> QED BY <1>2, <1>3, <1>4 DEF Progress, Done, DoneNext, Leaves

\* What is below a container whose children have all been visited was passed.
LEMMA LeaveStep == IInv /\ Leave => IInv'
<1> SUFFICES ASSUME IInv, Leave PROVE IInv'
  OBVIOUS
<1>1. /\ Active /\ Return /\ UNCHANGED <<file, current, outcome>>
      /\ accumulated' = accumulated
      /\ file[current][at].type \in Containers
      /\ file[current][at].size > 0 /\ index = file[current][at].size
  BY DEF Leave, Element
<1>2. /\ current \in DOMAIN file /\ IsDocument(file[current])
      /\ at \in DOMAIN file[current] /\ at \in Position /\ index \in Nat
  BY <1>1, ActiveFacts
<1>3. /\ TypeOK' /\ Stack'
      /\ \A p \in Position : DoneNext(current, p) <=> Done(current, p) \/ IsPrefix(at, p)
      /\ \A d \in DOMAIN file : \A p : d # current => (DoneNext(d, p) <=> Done(d, p))
  BY <1>1, ReturnFacts
<1>4. TypeOK /\ Entries /\ Progress /\ outcome = "none" /\ paths # <<>>
  BY <1>1 DEF IInv, Active
<1>5. \A d \in DOMAIN file : \A p \in DOMAIN file[d] :
        DoneNext(d, p) => Done(d, p) \/ (d = current /\ p = at)
  <2>1. ASSUME NEW d \in DOMAIN file, NEW p \in DOMAIN file[d], DoneNext(d, p), ~Done(d, p), d = current
        PROVE  p = at
    <3>1. p \in Position
      BY <1>2, <2>1, DocumentFacts
    <3>2. IsPrefix(at, p)
      BY <1>3, <2>1, <3>1
    <3>3. SUFFICES ASSUME p # at PROVE Done(d, p)
      BY <2>1
    <3>4. /\ Len(at) < Len(p) /\ p[Len(at) + 1] \in Nat
          /\ p[Len(at) + 1] <= index
      BY <1>1, <1>2, <2>1, <3>2, <3>3, BelowIsChild
    <3>5. Len(at) \in 0 .. Len(at) /\ p[Len(at) + 1] < index + 1
      BY <1>2, <3>4, PositionFacts
    <3>6. Passed(at, index, p)
      BY <3>2, <3>4, <3>5 DEF Passed, IsPrefix
    <3> QED BY <2>1, <3>6 DEF Done
  <2> QED BY <1>3, <2>1
<1>6. \A d \in DOMAIN file : \A p \in DOMAIN file[d] : Done(d, p) => DoneNext(d, p)
  <2>1. ASSUME NEW d \in DOMAIN file, NEW p \in DOMAIN file[d], Done(d, p) PROVE DoneNext(d, p)
    <3>1. CASE d # current
      BY <1>3, <2>1, <3>1
    <3>2. CASE d = current
      <4>1. p \in Position
        BY <1>2, <3>2, DocumentFacts
      <4> QED BY <1>3, <2>1, <3>2, <4>1
    <3> QED BY <3>1, <3>2
  <2> QED BY <2>1
<1>7. file[current][at].size # 0 /\ file[current][at].type # "malformed"
  BY <1>1 DEF Containers
<1>8. Entries' /\ Progress'
  BY <1>1, <1>4, <1>5, <1>6, <1>7, NothingAccumulated
<1>9. Ends'
  BY <1>1, <1>4 DEF Ends
<1> QED BY <1>3, <1>8, <1>9 DEF IInv

LEMMA VisitChildStep == IInv /\ VisitChild => IInv'
<1> SUFFICES ASSUME IInv, VisitChild PROVE IInv'
  OBVIOUS
<1> DEFINE doc == file[current]  child == Append(at, index + 1)
<1>1. /\ Active /\ index < doc[at].size
      /\ paths' = Append(paths, mix(path_hash, StepHash(doc[at], index)))
      /\ at' = child /\ index' = 0
      /\ UNCHANGED <<file, current, accumulated, outcome>>
  BY DEF VisitChild, Element
<1>2. /\ current \in DOMAIN file /\ IsDocument(doc) /\ at \in DOMAIN doc /\ at \in Position
      /\ index \in Nat /\ paths = StackOf(doc, at) /\ path_hash = PathTo(doc, at)
  BY <1>1, ActiveFacts
<1>3. TypeOK /\ Entries /\ Progress /\ outcome = "none" /\ paths # <<>> /\ current > 0
  BY <1>1 DEF IInv, Active, TypeOK
<1>4. doc[at].size \in Nat /\ index + 1 \in 1 .. doc[at].size /\ index + 1 \in Nat /\ index + 1 > 0
  <2>1. doc[at].size \in Nat
    BY <1>2, DocumentFacts
  <2> HIDE DEF doc
  <2> QED BY <1>1, <1>2, <2>1
<1>5. child \in DOMAIN doc /\ child \in Position
  BY <1>2, <1>4, DocumentFacts, ChildFacts
<1>6. paths' = StackOf(doc, child)
  <2>1. mix(path_hash, StepHash(doc[at], index)) = PathTo(doc, child)
    BY <1>2, PathToChild
  <2> QED BY <1>1, <1>2, <1>4, <2>1, StackOfChild
<1>7. doc[child].size \in Nat
  BY <1>2, <1>5, DocumentFacts
<1> HIDE DEF child
<1>8. Len(paths') = Len(child) + 1 /\ paths' # <<>>
  BY <1>5, <1>6, StackFacts
<1>9. TypeOK'
  BY <1>1, <1>3, <1>5, <1>7, <1>8 DEF TypeOK, Element
<1>10. Stack'
  BY <1>1, <1>6 DEF Stack, StackOf
<1>11. \A d \in DOMAIN file : \A p \in DOMAIN file[d] : DoneNext(d, p) <=> Done(d, p)
  <2>1. ASSUME NEW d \in DOMAIN file, NEW p \in DOMAIN file[d] PROVE DoneNext(d, p) <=> Done(d, p)
    <3>1. CASE d # current
      BY <1>1, <3>1 DEF Done, DoneNext
    <3>2. CASE d = current
      <4>1. p \in Position
        BY <1>2, <3>2, DocumentFacts
      <4>2. Passed(child, 0, p) <=> Passed(at, index, p)
        BY <1>2, <4>1, VisitPasses DEF child
      <4> QED BY <1>1, <1>3, <1>8, <3>2, <4>2 DEF Done, DoneNext
    <3> QED BY <3>1, <3>2
  <2> QED BY <2>1
<1>12. Entries' /\ Progress'
  BY <1>1, <1>3, <1>11, NothingAccumulated
<1>13. Ends'
  BY <1>1, <1>3 DEF Ends
<1> QED BY <1>9, <1>10, <1>12, <1>13 DEF IInv

LEMMA NextDocumentStep == IInv /\ NextDocument => IInv'
<1> SUFFICES ASSUME IInv, NextDocument PROVE IInv'
  OBVIOUS
<1>1. /\ outcome = "none" /\ paths = <<>> /\ current < Len(file)
      /\ current' = current + 1 /\ at' = <<>> /\ index' = 0 /\ paths' = <<<<>>>>
      /\ UNCHANGED <<file, accumulated, outcome>>
  BY DEF NextDocument
<1>2. TypeOK
  BY DEF IInv
<1>3. /\ current \in Nat /\ current + 1 \in DOMAIN file /\ IsDocument(file[current + 1])
      /\ current + 1 \in 0 .. Len(file) /\ current + 1 > 0
  BY <1>1, <1>2, FileFacts
<1>4. /\ <<>> \in DOMAIN file[current + 1] /\ <<>> \in Position
      /\ file[current + 1][<<>>].size \in Nat
  <2>1. <<>> \in DOMAIN file[current + 1]
    BY <1>3 DEF IsDocument
  <2> QED BY <1>3, <2>1, DocumentFacts
<1>5. /\ paths' = StackOf(file[current + 1], <<>>) /\ paths' # <<>>
      /\ Len(paths') = Len(<<>>) + 1
  BY <1>1, <1>4, StackAtRoot, StackFacts
<1>6. TypeOK'
  BY <1>1, <1>2, <1>3, <1>4, <1>5 DEF TypeOK, Element
<1>7. Stack'
  BY <1>1, <1>5 DEF Stack, StackOf
<1>8. \A d \in DOMAIN file : \A p \in DOMAIN file[d] : DoneNext(d, p) <=> Done(d, p)
  <2>1. ASSUME NEW d \in DOMAIN file, NEW p \in DOMAIN file[d] PROVE DoneNext(d, p) <=> Done(d, p)
    <3>1. p \in Position /\ d \in Nat
      BY <1>2, FileFacts, DocumentFacts
    <3>2. ~Passed(<<>>, 0, p)
      BY <1>4, <3>1, NotPassed
    <3>3. DoneNext(d, p) <=> d < current + 1
      BY <1>1, <1>5, <3>2 DEF DoneNext
    <3>4. Done(d, p) <=> d < current \/ d = current
      BY <1>1 DEF Done
    <3> QED BY <1>3, <3>1, <3>3, <3>4
  <2> QED BY <2>1
<1>9. Entries' /\ Progress'
  BY <1>1, <1>8, NothingAccumulated
<1>10. Ends'
  BY <1>1 DEF Ends
<1> QED BY <1>6, <1>7, <1>9, <1>10 DEF IInv

LEMMA MalformedStep == IInv /\ Malformed => IInv'
<1> SUFFICES ASSUME IInv, Malformed PROVE IInv'
  OBVIOUS
<1>1. /\ Active /\ file[current][at].type = "malformed"
      /\ outcome' = "threw" /\ paths' = <<>>
      /\ UNCHANGED <<file, current, at, index, accumulated>>
  BY DEF Malformed, Element
<1>2. TypeOK /\ Entries
  BY DEF IInv
<1>3. TypeOK'
  BY <1>1, <1>2 DEF TypeOK
<1>4. Stack' /\ Progress'
  BY <1>1 DEF Stack, Progress
<1>5. Entries'
  BY <1>1, <1>2 DEF Entries, Entry
<1>6. current \in DOMAIN file /\ at \in DOMAIN file[current]
  BY <1>1, ActiveFacts
<1>7. Ends'
  BY <1>1, <1>6 DEF Ends, WellFormed
<1> QED BY <1>3, <1>4, <1>5, <1>7 DEF IInv

LEMMA EndOfFileStep == IInv /\ EndOfFile => IInv'
<1> SUFFICES ASSUME IInv, EndOfFile PROVE IInv'
  OBVIOUS
<1>1. /\ outcome = "none" /\ paths = <<>> /\ current = Len(file)
      /\ outcome' = "returned"
      /\ UNCHANGED <<file, current, at, index, paths, accumulated>>
  BY DEF EndOfFile
<1>2. TypeOK /\ Stack
  BY DEF IInv
<1>3. TypeOK'
  BY <1>1, <1>2 DEF TypeOK, Element
<1>4. Stack'
  BY <1>1 DEF Stack
<1>5. \A d \in DOMAIN file : \A p \in DOMAIN file[d] : DoneNext(d, p) <=> Done(d, p)
  BY <1>1 DEF Done, DoneNext
<1>6. Entries' /\ Progress'
  BY <1>1, <1>5, NothingAccumulated
<1>7. Ends'
  BY <1>1 DEF Ends
<1> QED BY <1>3, <1>4, <1>6, <1>7 DEF IInv

LEMMA StepInvariant == IInv /\ [Next]_vars => IInv'
<1> SUFFICES ASSUME IInv, [Next]_vars PROVE IInv'
  OBVIOUS
<1>1. CASE UNCHANGED vars
  BY <1>1 DEF vars, IInv, TypeOK, Element, Stack, Entries, Entry, Progress, Done, Ends, WellFormed
<1>2. CASE Ended
  BY <1>1, <1>2 DEF Ended
<1> QED
  BY <1>1, <1>2, HashValueStep, HashEmptyStep, LeaveStep, VisitChildStep, NextDocumentStep,
     MalformedStep, EndOfFileStep DEF Next

LEMMA Invariant == Spec => []IInv
BY InitInvariant, StepInvariant, PTL DEF Spec

-----------------------------------------------------------------------------
(* Theorems                                                                *)

\* The variables have their types, and hashBasicValues is called with positions
\* of the document only, a path_hash for each step from the root.
THEOREM TypeCorrect == Spec => []TypeOK
<1>1. IInv => TypeOK
  BY DEF IInv
<1> QED BY <1>1, Invariant, PTL

\* When the walk has ended it has accumulated what it must.
LEMMA ValuesOnce == IInv => EachValueOnce
<1> SUFFICES ASSUME IInv PROVE EachValueOnce
  OBVIOUS
<1>1. TypeOK /\ Entries /\ Progress /\ Ends
  BY DEF IInv
<1>2. outcome = "threw" => ~WellFormed
  BY <1>1 DEF Ends
<1>3. ASSUME outcome = "returned"
      PROVE  /\ WellFormed
             /\ \A d \in DOMAIN file : \A p \in Leaves(file[d]) :
                  \E i \in DOMAIN accumulated :
                    /\ accumulated[i].document = d /\ accumulated[i].at = p
                    /\ accumulated[i].hash \in HashesOf(file[d], p)
                    /\ \A j \in DOMAIN accumulated \ {i} :
                         <<accumulated[j].document, accumulated[j].at>> # <<d, p>>
             /\ \A i \in DOMAIN accumulated :
                  accumulated[i].at \in Leaves(file[accumulated[i].document])
  <2>1. current = Len(file) /\ paths = <<>>
    BY <1>1, <1>3 DEF Ends
  <2>2. \A d \in DOMAIN file : \A p \in DOMAIN file[d] : Done(d, p)
    BY <1>1, <2>1, FileFacts DEF Done
  <2>3. WellFormed
    BY <1>1, <1>3, <2>2 DEF Progress, WellFormed
  <2>4. \A i \in DOMAIN accumulated : accumulated[i] \in Entry
    BY <1>1 DEF Entries
  <2>5. ASSUME NEW d \in DOMAIN file, NEW p \in Leaves(file[d])
        PROVE  \E i \in DOMAIN accumulated :
                 /\ accumulated[i].document = d /\ accumulated[i].at = p
                 /\ accumulated[i].hash \in HashesOf(file[d], p)
                 /\ \A j \in DOMAIN accumulated \ {i} :
                      <<accumulated[j].document, accumulated[j].at>> # <<d, p>>
    <3>1. p \in DOMAIN file[d]
      BY DEF Leaves
    <3>2. PICK i \in DOMAIN accumulated : accumulated[i].document = d /\ accumulated[i].at = p
      BY <1>1, <1>3, <2>2, <3>1 DEF Progress
    <3>3. accumulated[i].hash \in HashesOf(file[d], p)
      BY <2>4, <3>2, EntryFacts
    <3>4. ASSUME NEW j \in DOMAIN accumulated,
                 accumulated[j].document = d, accumulated[j].at = p
          PROVE  i = j
      BY <1>1, <3>2, <3>4 DEF Entries
    <3> QED BY <3>2, <3>3, <3>4
  <2> QED BY <2>3, <2>4, <2>5, EntryFacts
<1> QED BY <1>2, <1>3 DEF EachValueOnce

\* The walk hashes every value of every document once, with its path, or throws
\* because a value is malformed.
THEOREM EachValueHashedOnce == Spec => []EachValueOnce
BY ValuesOnce, Invariant, PTL

-----------------------------------------------------------------------------
(* Counting                                                                *)

\* What a bijection relates occurs equally often.
LEMMA CountBijection ==
  ASSUME NEW S, NEW T, IsFiniteSet(S), NEW f, NEW g, NEW b \in Bijection(S, T),
         \A x \in S : g[b[x]] = f[x]
  PROVE  IsFiniteSet(T) /\ Count(S, f) = Count(T, g)
<1>1. /\ b \in [S -> T]
      /\ \A x, y \in S : b[x] = b[y] => x = y
      /\ \A y \in T : \E x \in S : b[x] = y
  BY Zenon DEF Bijection, Injection, Surjection, IsInjective
<1>2. IsFiniteSet(T)
  BY FS_Bijection DEF ExistsBijection
<1>3. {f[x] : x \in S} = {g[y] : y \in T}
  BY <1>1
<1>4. ASSUME NEW h
      PROVE  Cardinality({x \in S : f[x] = h}) = Cardinality({y \in T : g[y] = h})
  <2> DEFINE A == {x \in S : f[x] = h}  B == {y \in T : g[y] = h}  c == [x \in A |-> b[x]]
  <2>1. IsFiniteSet(A)
    BY FS_Subset
  <2>2. c \in Bijection(A, B)
    <3>1. c \in [A -> B]
      BY <1>1
    <3>2. \A x, y \in A : c[x] = c[y] => x = y
      BY <1>1
    <3>3. \A y \in B : \E x \in A : c[x] = y
      BY <1>1
    <3> QED BY <3>1, <3>2, <3>3, Zenon DEF Bijection, Injection, Surjection, IsInjective
  <2> HIDE DEF A, B, c
  <2>3. Cardinality(A) = Cardinality(B)
    BY <2>1, <2>2, FS_Bijection DEF ExistsBijection
  <2> QED BY <2>3 DEF A, B
<1> QED BY <1>2, <1>3, <1>4 DEF Count

-----------------------------------------------------------------------------
(* The bytes of a value                                                    *)

\* The bytes of a plain number are those of its value alone.
Canonical(halves) ==
  IF halves % 2 = 0 /\ halves \div 2 \in -Limit .. 2 * Limit - 1
    THEN Int128(halves \div 2)
    ELSE Double(halves)

IsPlain(n) ==
  /\ n.type # "malformed"
  /\ n.type = "boolean" => n.value \in BOOLEAN
  /\ n.type = "number" =>
       /\ IsNumber(n.value) /\ n.value.kind # "big"
       /\ n.value.kind = "double" => n.value.halves \div 2 < Limit

LEMMA HalvesFacts ==
  ASSUME NEW h \in Int
  PROVE  /\ h \div 2 \in Int /\ h % 2 \in {0, 1}
         /\ h % 2 = 0 => h = 2 * (h \div 2)
BY SMTT(30)

LEMMA NumberIsCanonical ==
  ASSUME NEW n, IsNumber(n), n.kind # "big", n.kind = "double" => n.halves \div 2 < Limit
  PROVE  NumberBytes(n) = {Canonical(n.halves)}
<1> DEFINE h == n.halves  k == n.halves \div 2
<1>1. Limit \in Nat /\ Limit > 0 /\ h \in Int /\ k \in Int
  BY HalvesFacts, WalkAssumption DEF IsNumber
<1>2. CASE n.kind = "double" /\ Integral(n)
  <2>1. h % 2 = 0 /\ k \in -Limit .. Limit - 1
    BY <1>1, <1>2 DEF Integral
  <2>2. Int64Casts(k) = {k} /\ k \in -Limit .. 2 * Limit - 1
    BY <1>1, <2>1 DEF Int64Casts
  <2>3. NumberBytes(n) = {Int128(i) : i \in Int64Casts(k)}
    BY <1>2 DEF NumberBytes
  <2> QED BY <2>1, <2>2, <2>3 DEF Canonical
<1>3. CASE n.kind = "double" /\ ~Integral(n)
  <2>1. ~(h % 2 = 0 /\ k \in -Limit .. 2 * Limit - 1)
    BY <1>1, <1>3 DEF Integral
  <2> QED BY <1>3, <2>1 DEF NumberBytes, Canonical
<1>4. CASE n.kind # "double"
  <2>1. h % 2 = 0 /\ k \in -Limit .. 2 * Limit - 1
    BY <1>1, <1>4 DEF IsNumber
  <2> QED BY <1>4, <2>1 DEF NumberBytes, Canonical
<1> QED BY <1>2, <1>3, <1>4

\* The bytes of a plain value.
BytesOf(e) ==
  CASE e.type = "string" -> e.value
    [] e.type = "number" -> Canonical(e.value.halves)
    [] e.type = "boolean" -> <<IF e.value THEN 1 ELSE 0>>
    [] e.type = "null" -> <<0, 0>>

LEMMA ValueHasBytes ==
  ASSUME NEW e, IsPlain(e), e.type \in Basic
  PROVE  ValueBytes(e) = {BytesOf(e)}
<1>1. CASE e.type = "number"
  BY <1>1, NumberIsCanonical DEF IsPlain, ValueBytes, BytesOf
<1>2. CASE e.type # "number"
  BY <1>2 DEF Basic, ValueBytes, BytesOf
<1> QED BY <1>1, <1>2

\* Nodes that say the same have the same bytes.
LEMMA SameNodeSameBytes ==
  ASSUME NEW m, NEW n, SameNode(m, n), m.type \in Basic
  PROVE  BytesOf(m) = BytesOf(n) /\ n.type = m.type
<1>1. CASE m.type = "number"
  BY <1>1 DEF SameNode, BytesOf
<1>2. CASE m.type \in {"string", "boolean"}
  BY <1>2 DEF SameNode, BytesOf
<1>3. CASE m.type = "null"
  BY <1>3 DEF SameNode, BytesOf
<1> QED BY <1>1, <1>2, <1>3 DEF Basic

\* The hash of a plain value or empty container.
HashOf(doc, p) ==
  IF doc[p].type \in Basic THEN mixHash(BytesOf(doc[p]), PathTo(doc, p))
                           ELSE EmptyHash(doc[p].type)

LEMMA ValueHasHash ==
  ASSUME NEW doc, NEW p, IsPlain(doc[p])
  PROVE  /\ HashesOf(doc, p) = {HashOf(doc, p)}
         /\ (CHOOSE h \in HashesOf(doc, p) : TRUE) = HashOf(doc, p)
<1>1. HashesOf(doc, p) = {HashOf(doc, p)}
  BY ValueHasBytes DEF HashesOf, HashOf
<1> QED BY <1>1

LEMMA PlainFacts ==
  ASSUME NEW f \in PlainNumberFiles
  PROVE  /\ Len(f) \in Nat /\ DOMAIN f = 1 .. Len(f)
         /\ \A d \in DOMAIN f : IsDocument(f[d]) /\ \A p \in DOMAIN f[d] : IsPlain(f[d][p])
<1>1. f \in Files /\ IsWellFormed(f) /\ PlainNumbers(f)
  BY DEF PlainNumberFiles
<1>2. Len(f) \in Nat /\ DOMAIN f = 1 .. Len(f) /\ \A d \in DOMAIN f : IsDocument(f[d])
  BY <1>1, WalkAssumption
<1>3. ASSUME NEW d \in DOMAIN f, NEW p \in DOMAIN f[d] PROVE IsPlain(f[d][p])
  <2>1. f[d][p] \in Nodes(f)
    BY DEF Nodes
  <2>2. IsDocument(f[d])
    BY <1>2
  <2> QED BY <1>1, <2>1, <2>2 DEF IsWellFormed, PlainNumbers, IsDocument, IsPlain
<1> QED BY <1>2, <1>3

-----------------------------------------------------------------------------
(* Reordering children                                                     *)

\* A set of numbers with an element has a least one.
LEMMA LeastNumber ==
  ASSUME NEW S \in SUBSET Nat, S # {}
  PROVE  \E m \in S : \A n \in S : m <= n
<1>1. PICK m \in S : \A n \in S : ~(<<n, m>> \in OpToRel(<, Nat))
  BY NatLessThanWellFounded, WFMin
<1>2. ASSUME NEW n \in S PROVE m <= n
  <2>1. m \in Nat /\ n \in Nat
    OBVIOUS
  <2>2. CASE n < m
    <3>1. <<n, m>> \in OpToRel(<, Nat)
      BY <2>1, <2>2, SMT DEF OpToRel
    <3> QED BY <1>1, <3>1
  <2> QED BY <2>1, <2>2
<1> QED BY <1>2

\* The i-th step to a position is to a child of a container.
LEMMA StepFacts ==
  ASSUME NEW doc, IsDocument(doc), NEW p \in DOMAIN doc, NEW i \in 1 .. Len(p)
  PROVE  /\ SubSeq(p, 1, i - 1) \in Inner(doc)
         /\ Len(SubSeq(p, 1, i - 1)) = i - 1
         /\ p[i] \in 1 .. doc[SubSeq(p, 1, i - 1)].size
<1> DEFINE q == SubSeq(p, 1, i - 1)
<1>1. p \in Position /\ Len(p) \in Nat /\ i - 1 \in 0 .. Len(p)
  BY DocumentFacts, PositionFacts
<1>2. q \in DOMAIN doc /\ Len(q) = i - 1 /\ \A j \in 1 .. i - 1 : q[j] = p[j]
  BY <1>1, PartsAreThere, PartOfPosition
<1>3. IsPrefix(q, p) /\ p # q
  BY <1>1, <1>2 DEF IsPrefix
<1> HIDE DEF q
<1>4. p[Len(q) + 1] \in Nat /\ p[Len(q) + 1] > 0 /\ p[Len(q) + 1] <= doc[q].size
  BY <1>2, <1>3, BelowIsChild
<1>5. Len(q) + 1 = i /\ doc[q].size \in Nat
  BY <1>1, <1>2, DocumentFacts
<1>6. p[i] \in 1 .. doc[q].size /\ doc[q].size > 0
  BY <1>4, <1>5
<1> QED BY <1>2, <1>6 DEF q, Inner

LEMMA OrderFacts ==
  ASSUME NEW doc, NEW s \in ChildOrders(doc), NEW q \in Inner(doc)
  PROVE  /\ s[q] \in [1 .. doc[q].size -> 1 .. doc[q].size]
         /\ \A i, j \in 1 .. doc[q].size : s[q][i] = s[q][j] => i = j
BY DEF ChildOrders, Orders

\* A position keeps its depth, and goes to one below where its front goes.
LEMMA MovedFacts ==
  ASSUME NEW doc, IsDocument(doc), NEW s \in ChildOrders(doc), NEW p \in DOMAIN doc
  PROVE  /\ Moved(s, p) \in Position /\ Len(Moved(s, p)) = Len(p)
         /\ \A i \in 1 .. Len(p) : Moved(s, p)[i] = s[SubSeq(p, 1, i - 1)][p[i]]
         /\ \A i \in 0 .. Len(p) : SubSeq(Moved(s, p), 1, i) = Moved(s, SubSeq(p, 1, i))
<1>1. p \in Position /\ Len(p) \in Nat /\ DOMAIN p = 1 .. Len(p)
  BY DocumentFacts, PositionFacts
<1>2. ASSUME NEW i \in 1 .. Len(p)
      PROVE  s[SubSeq(p, 1, i - 1)][p[i]] \in Nat \ {0}
  <2> DEFINE q == SubSeq(p, 1, i - 1)
  <2>1. q \in Inner(doc) /\ p[i] \in 1 .. doc[q].size
    BY StepFacts
  <2> HIDE DEF q
  <2>2. s[q][p[i]] \in 1 .. doc[q].size /\ doc[q].size \in Nat
    BY <2>1, OrderFacts, DocumentFacts DEF Inner
  <2>3. s[q][p[i]] \in Nat \ {0}
    BY <2>2
  <2> QED BY <2>3 DEF q
<1>3. Moved(s, p) = [i \in 1 .. Len(p) |-> s[SubSeq(p, 1, i - 1)][p[i]]]
  BY <1>1 DEF Moved
<1>4. Moved(s, p) \in [1 .. Len(p) -> Nat \ {0}]
  BY <1>2, <1>3
<1>5. Moved(s, p) \in Position /\ Len(Moved(s, p)) = Len(p)
  BY <1>1, <1>4 DEF Position
<1>6. ASSUME NEW i \in 0 .. Len(p)
      PROVE  SubSeq(Moved(s, p), 1, i) = Moved(s, SubSeq(p, 1, i))
  <2> DEFINE r == SubSeq(p, 1, i)
  <2>1. r \in Position /\ Len(r) = i /\ \A j \in 1 .. i : r[j] = p[j]
    BY <1>1, PartOfPosition
  <2>2. DOMAIN r = 1 .. i
    BY <2>1, PositionFacts
  <2>3. ASSUME NEW j \in 1 .. i PROVE SubSeq(r, 1, j - 1) = SubSeq(p, 1, j - 1)
    <3>1. j - 1 \in 0 .. Len(r) /\ j - 1 \in 0 .. Len(p) /\ \A k \in 1 .. j - 1 : k \in 1 .. i
      BY <1>1, <2>1
    <3> HIDE DEF r
    <3> QED BY <1>1, <2>1, <3>1, PartOfPosition, SamePosition
  <2> HIDE DEF r
  <2>4. Moved(s, r) = [j \in 1 .. i |-> Moved(s, p)[j]]
    <3>1. \A j \in 1 .. i : j \in 1 .. Len(p)
      BY <1>1
    <3> QED BY <1>3, <2>1, <2>2, <2>3, <3>1 DEF Moved
  <2>5. SubSeq(Moved(s, p), 1, i) = [j \in 1 .. i |-> Moved(s, p)[j]]
    <3>1. \A j \in 1 .. i : j \in 1 .. Len(p)
      BY <1>1
    <3> QED BY <1>1, <1>5, <3>1 DEF Position
  <2> QED BY <2>4, <2>5 DEF r
<1> QED BY <1>3, <1>5, <1>6

\* No two positions go to the same one: where they part first they go apart.
LEMMA MovedApart ==
  ASSUME NEW doc, IsDocument(doc), NEW s \in ChildOrders(doc),
         NEW p \in DOMAIN doc, NEW q \in DOMAIN doc, Moved(s, p) = Moved(s, q)
  PROVE  p = q
<1>1. /\ p \in Position /\ Len(p) \in Nat
      /\ q \in Position /\ Len(q) = Len(p)
  <2>1. Len(Moved(s, p)) = Len(p) /\ Len(Moved(s, q)) = Len(q)
    BY MovedFacts
  <2> QED BY <2>1, DocumentFacts, PositionFacts
<1>0. ASSUME NEW x \in DOMAIN doc, NEW i \in 1 .. Len(x)
      PROVE  Moved(s, x)[i] = s[SubSeq(x, 1, i - 1)][x[i]]
  BY MovedFacts
<1> DEFINE Apart == {i \in 1 .. Len(p) : p[i] # q[i]}
<1>2. Apart = {}
  <2> SUFFICES ASSUME Apart # {} PROVE FALSE
    OBVIOUS
  <2>1. PICK i \in Apart : \A j \in Apart : i <= j
    <3>1. Apart \in SUBSET Nat
      BY <1>1
    <3> HIDE DEF Apart
    <3> QED BY <3>1, LeastNumber
  <2>2. i \in 1 .. Len(p) /\ i \in 1 .. Len(q) /\ p[i] # q[i]
    BY <1>1
  <2>3. SubSeq(p, 1, i - 1) = SubSeq(q, 1, i - 1)
    <3>1. i - 1 \in 0 .. Len(p) /\ \A j \in 1 .. i - 1 : j \in 1 .. Len(p) /\ ~(i <= j)
      BY <1>1, <2>2
    <3>2. \A j \in 1 .. i - 1 : p[j] = q[j]
      BY <2>1, <3>1
    <3> HIDE DEF Apart
    <3> QED BY <1>1, <3>1, <3>2, PartOfPosition, SamePosition
  <2> DEFINE r == SubSeq(p, 1, i - 1)
  <2>4. r \in Inner(doc) /\ p[i] \in 1 .. doc[r].size /\ q[i] \in 1 .. doc[r].size
    BY <2>2, <2>3, StepFacts
  <2>5. s[r][p[i]] = s[r][q[i]]
    <3>1. Moved(s, p)[i] = s[r][p[i]]
      BY <2>2, MovedFacts
    <3>2. Moved(s, q)[i] = s[SubSeq(q, 1, i - 1)][q[i]]
      BY <2>2, <1>0
    <3> QED BY <3>1, <3>2, <2>3
  <2> HIDE DEF r
  <2> QED BY <2>2, <2>4, <2>5, OrderFacts
<1> QED BY <1>1, <1>2, SamePosition

-----------------------------------------------------------------------------
(* Documents that say the same have the same hashes                        *)

\* s turns d into e.
Turns(s, d, e) ==
  /\ s \in ChildOrders(d)
  /\ {Moved(s, p) : p \in DOMAIN d} = DOMAIN e
  /\ \A p \in DOMAIN d : SameNode(d[p], e[Moved(s, p)])
  /\ \A p \in Inner(d) : \A i \in 1 .. d[p].size :
       IF d[p].type = "object" THEN d[p].keys[i] = e[Moved(s, p)].keys[s[p][i]]
                               ELSE s[p][i] = i

\* A reordered position is reached by the same keys and indices.
LEMMA MovedPath ==
  ASSUME NEW d, IsDocument(d), NEW e, NEW s, Turns(s, d, e), NEW p \in DOMAIN d
  PROVE  PathTo(e, Moved(s, p)) = PathTo(d, p)
<1> DEFINE m == Moved(s, p)
<1>1. /\ p \in Position /\ Len(p) \in Nat /\ DOMAIN p = 1 .. Len(p)
      /\ m \in Position /\ Len(m) = Len(p) /\ DOMAIN m = 1 .. Len(p)
  BY DocumentFacts, PositionFacts, MovedFacts DEF Turns
<1>2. ASSUME NEW i \in 1 .. Len(p)
      PROVE  StepHash(e[SubSeq(m, 1, i - 1)], m[i] - 1)
               = StepHash(d[SubSeq(p, 1, i - 1)], p[i] - 1)
  <2> DEFINE q == SubSeq(p, 1, i - 1)
  <2>1. q \in Inner(d) /\ p[i] \in 1 .. d[q].size /\ q \in DOMAIN d
    BY StepFacts DEF Inner
  <2>2. SubSeq(m, 1, i - 1) = Moved(s, q) /\ m[i] = s[q][p[i]]
    <3>1. i - 1 \in 0 .. Len(p)
      BY <1>1
    <3> QED BY <3>1, MovedFacts DEF Turns
  <2> HIDE DEF q, m
  <2>3. p[i] \in Int /\ m[i] \in Int /\ (p[i] - 1) + 1 = p[i] /\ (m[i] - 1) + 1 = m[i]
    <3>1. p[i] \in Int /\ m[i] \in Int
      BY <1>1, PositionFacts
    <3> QED BY <3>1
  <2>4. e[Moved(s, q)].type = d[q].type
    BY <2>1 DEF Turns, SameNode
  <2>5. CASE d[q].type = "object"
    <3>1. d[q].keys[p[i]] = e[Moved(s, q)].keys[m[i]]
      BY <2>1, <2>2, <2>5 DEF Turns
    <3> QED BY <2>2, <2>3, <2>4, <2>5, <3>1 DEF StepHash, q
  <2>6. CASE d[q].type # "object"
    <3>1. m[i] = p[i]
      BY <2>1, <2>2, <2>6 DEF Turns
    <3> QED BY <2>2, <2>4, <2>6, <3>1 DEF StepHash, q
  <2> QED BY <2>5, <2>6
<1> HIDE DEF m
<1>3. PathTo(e, m) = PathTo(d, p)
  BY <1>1, <1>2 DEF PathTo
<1> QED BY <1>3 DEF m

\* A value goes to a value with the same hash, and every value is gone to.
LEMMA MovedHash ==
  ASSUME NEW d, IsDocument(d), NEW e, NEW s, Turns(s, d, e), NEW p \in Leaves(d)
  PROVE  Moved(s, p) \in Leaves(e) /\ HashOf(e, Moved(s, p)) = HashOf(d, p)
<1>1. p \in DOMAIN d /\ d[p].size = 0 /\ d[p].type # "malformed"
  BY DEF Leaves
<1>2. /\ Moved(s, p) \in DOMAIN e /\ SameNode(d[p], e[Moved(s, p)])
      /\ PathTo(e, Moved(s, p)) = PathTo(d, p)
  <2>1. Moved(s, p) \in {Moved(s, x) : x \in DOMAIN d}
    BY <1>1
  <2>2. PathTo(e, Moved(s, p)) = PathTo(d, p)
    BY <1>1, MovedPath
  <2> QED BY <2>1, <2>2, <1>1, Zenon DEF Turns
<1>3. e[Moved(s, p)].type = d[p].type /\ e[Moved(s, p)].size = 0
  BY <1>1, <1>2 DEF SameNode
<1>4. d[p].type \in Basic => BytesOf(e[Moved(s, p)]) = BytesOf(d[p])
  BY <1>2, SameNodeSameBytes
<1> QED BY <1>1, <1>2, <1>3, <1>4 DEF Leaves, HashOf

LEMMA AllGoneTo ==
  ASSUME NEW d, IsDocument(d), NEW e, NEW s, Turns(s, d, e), NEW q \in Leaves(e)
  PROVE  \E p \in Leaves(d) : Moved(s, p) = q
<1>1. q \in DOMAIN e /\ e[q].size = 0 /\ e[q].type # "malformed"
  BY DEF Leaves
<1>2. PICK p \in DOMAIN d : Moved(s, p) = q /\ SameNode(d[p], e[q])
  BY <1>1 DEF Turns
<1>3. d[p].size = 0 /\ d[p].type # "malformed"
  BY <1>1, <1>2 DEF SameNode
<1> QED BY <1>2, <1>3 DEF Leaves

\* The hash of a value of a file.
LEMMA HashesFacts ==
  ASSUME NEW f \in PlainNumberFiles
  PROVE  /\ Hashes(f) = Count(Hashed(f), [v \in Hashed(f) |-> HashOf(f[v[1]], v[2])])
         /\ \A v : v \in Hashed(f) <=>
              \E d \in DOMAIN f : \E p \in Leaves(f[d]) : v = <<d, p>>
         /\ \A d \in DOMAIN f : \A p \in Leaves(f[d]) : <<d, p>> \in Hashed(f)
         /\ \A d \in DOMAIN f : \A p \in Leaves(f[d]) : IsPlain(f[d][p])
<1>1. \A v : v \in Hashed(f) <=> \E d \in DOMAIN f : \E p \in Leaves(f[d]) : v = <<d, p>>
  BY DEF Hashed
<1>2. \A d \in DOMAIN f : \A p \in Leaves(f[d]) : IsPlain(f[d][p])
  BY PlainFacts DEF Leaves
<1>3. ASSUME NEW v \in Hashed(f)
      PROVE  (CHOOSE h \in HashesOf(f[v[1]], v[2]) : TRUE) = HashOf(f[v[1]], v[2])
  <2>1. PICK d \in DOMAIN f : \E p \in Leaves(f[d]) : v = <<d, p>>
    BY <1>1
  <2>1a. PICK p \in Leaves(f[d]) : v = <<d, p>>
    BY <2>1
  <2> QED BY <2>1a, <1>2, ValueHasHash
<1> QED BY <1>1, <1>2, <1>3 DEF Hashes

\* Files that say the same have the same hashes.
THEOREM SameContentSameHashes ==
  ASSUME NEW f \in PlainNumberFiles, NEW g \in PlainNumberFiles,
         SameContent(f, g), IsFiniteSet(Hashed(f))
  PROVE  Hashes(f) = Hashes(g)
<1>1. /\ Len(f) \in Nat /\ DOMAIN f = 1 .. Len(f) /\ DOMAIN g = 1 .. Len(f)
      /\ \A d \in DOMAIN f : IsDocument(f[d])
  BY PlainFacts DEF SameContent
<1>2. PICK r \in Orders(Len(f)) : \A d \in 1 .. Len(f) : SameDocument(f[d], g[r[d]])
  BY DEF SameContent
<1>3. /\ r \in [1 .. Len(f) -> 1 .. Len(f)]
      /\ \A i, j \in 1 .. Len(f) : r[i] = r[j] => i = j
  BY DEF Orders
<1>4. \A j \in 1 .. Len(f) : \E i \in 1 .. Len(f) : r[i] = j
  <2> DEFINE I == 1 .. Len(f)
  <2>1. IsFiniteSet(I)
    BY <1>1, FS_Interval
  <2>2. r \in Injection(I, I)
    BY <1>3 DEF Injection, IsInjective
  <2> HIDE DEF I
  <2>3. r \in Surjection(I, I)
    BY <2>1, <2>2, FS_Injection
  <2>4. \A j \in I : \E i \in I : r[i] = j
    BY <2>3 DEF Surjection
  <2> QED BY <2>4 DEF I
<1> DEFINE order(d) == CHOOSE s : Turns(s, f[d], g[r[d]])
<1>5. ASSUME NEW d \in 1 .. Len(f) PROVE Turns(order(d), f[d], g[r[d]])
  <2>1. \E s : Turns(s, f[d], g[r[d]])
    BY <1>2 DEF SameDocument, Turns
  <2> QED BY <2>1, Zenon
<1>0. /\ \A v \in Hashed(f) : \E d \in DOMAIN f : \E p \in Leaves(f[d]) : v = <<d, p>>
      /\ \A v \in Hashed(g) : \E d \in DOMAIN g : \E p \in Leaves(g[d]) : v = <<d, p>>
  BY DEF Hashed
<1> DEFINE b == [v \in Hashed(f) |-> <<r[v[1]], Moved(order(v[1]), v[2])>>]
<1> HIDE DEF order
<1>6. ASSUME NEW d \in DOMAIN f, NEW p \in Leaves(f[d])
      PROVE  /\ b[<<d, p>>] = <<r[d], Moved(order(d), p)>>
             /\ r[d] \in DOMAIN g /\ Moved(order(d), p) \in Leaves(g[r[d]])
             /\ HashOf(g[r[d]], Moved(order(d), p)) = HashOf(f[d], p)
  <2> DEFINE m == Moved(order(d), p)
  <2>1. b[<<d, p>>] = <<r[d], m>>
    <3>1. <<d, p>> \in Hashed(f)
      BY HashesFacts
    <3> QED BY <3>1
  <2>2. d \in 1 .. Len(f) /\ r[d] \in DOMAIN g /\ IsDocument(f[d])
    BY <1>1, <1>3
  <2>3. m \in Leaves(g[r[d]]) /\ HashOf(g[r[d]], m) = HashOf(f[d], p)
    BY <2>2, <1>5, MovedHash
  <2> QED BY <2>1, <2>2, <2>3
<1>7. b \in Bijection(Hashed(f), Hashed(g))
  <2>1. b \in [Hashed(f) -> Hashed(g)]
    <3>1. ASSUME NEW v \in Hashed(f) PROVE b[v] \in Hashed(g)
      <4>1. PICK d \in DOMAIN f : \E p \in Leaves(f[d]) : v = <<d, p>>
        BY <1>0
      <4>1a. PICK p \in Leaves(f[d]) : v = <<d, p>>
        BY <4>1
      <4> HIDE DEF b
      <4> QED BY <4>1a, <1>6, HashesFacts
    <3> QED BY <3>1
  <2>2. ASSUME NEW v \in Hashed(f), NEW w \in Hashed(f), b[v] = b[w] PROVE v = w
    <3>1. PICK d \in DOMAIN f : \E p \in Leaves(f[d]) : v = <<d, p>>
      BY <1>0
    <3>1a. PICK p \in Leaves(f[d]) : v = <<d, p>>
      BY <3>1
    <3>2. PICK c \in DOMAIN f : \E q \in Leaves(f[c]) : w = <<c, q>>
      BY <1>0
    <3>2a. PICK q \in Leaves(f[c]) : w = <<c, q>>
      BY <3>2
    <3> HIDE DEF b
    <3>3. r[d] = r[c] /\ Moved(order(d), p) = Moved(order(c), q)
      BY <2>2, <3>1a, <3>2a, <1>6
    <3>4. d = c
      BY <3>3, <1>1, <1>3
    <3>5. p = q
      <4>1. order(d) \in ChildOrders(f[d]) /\ IsDocument(f[d])
        BY <1>1, <1>5 DEF Turns
      <4>2. p \in DOMAIN f[d] /\ q \in DOMAIN f[d]
        BY <3>4 DEF Leaves
      <4> QED BY <3>3, <3>4, <4>1, <4>2, MovedApart
    <3> QED BY <3>1a, <3>2a, <3>4, <3>5
  <2>3. ASSUME NEW w \in Hashed(g) PROVE \E v \in Hashed(f) : b[v] = w
    <3>1. PICK c \in DOMAIN g : \E q \in Leaves(g[c]) : w = <<c, q>>
      BY <1>0
    <3>1a. PICK q \in Leaves(g[c]) : w = <<c, q>>
      BY <3>1
    <3>2. PICK d \in DOMAIN f : r[d] = c
      BY <1>1, <1>4
    <3>3. PICK p \in Leaves(f[d]) : Moved(order(d), p) = q
      BY <3>1a, <3>2, <1>1, <1>5, AllGoneTo
    <3>4. <<d, p>> \in Hashed(f)
      BY HashesFacts
    <3> HIDE DEF b
    <3> QED BY <3>1a, <3>2, <3>3, <3>4, <1>6
  <2> HIDE DEF b
  <2> QED BY <2>1, <2>2, <2>3, Zenon DEF Bijection, Injection, Surjection, IsInjective
<1> DEFINE hf == [v \in Hashed(f) |-> HashOf(f[v[1]], v[2])]
           hg == [v \in Hashed(g) |-> HashOf(g[v[1]], v[2])]
<1>8. ASSUME NEW v \in Hashed(f) PROVE hg[b[v]] = hf[v]
  <2>1. PICK d \in DOMAIN f : \E p \in Leaves(f[d]) : v = <<d, p>>
    BY <1>0
  <2>1a. PICK p \in Leaves(f[d]) : v = <<d, p>>
    BY <2>1
  <2>2. hf[v] = HashOf(f[d], p)
    BY <2>1a
  <2>3. <<r[d], Moved(order(d), p)>> \in Hashed(g)
    BY <1>6, HashesFacts
  <2>4. hg[<<r[d], Moved(order(d), p)>>] = HashOf(g[r[d]], Moved(order(d), p))
    BY <2>3
  <2> HIDE DEF b, hf, hg
  <2> QED BY <2>1a, <2>2, <2>4, <1>6
<1> HIDE DEF b, hf, hg
<1>9. Count(Hashed(f), hf) = Count(Hashed(g), hg)
  BY <1>7, <1>8, CountBijection
<1> QED BY <1>9, HashesFacts DEF hf, hg

-----------------------------------------------------------------------------
(* What the walk accumulates                                               *)

\* When the walk returns, the hashes accumulated are those of the file.
LEMMA AccumulatedHashes ==
  ASSUME IInv, outcome = "returned", file \in PlainNumberFiles
  PROVE  IsFiniteSet(Hashed(file)) /\ Accumulated = Hashes(file)
<1> DEFINE I == DOMAIN accumulated
           b == [i \in I |-> <<accumulated[i].document, accumulated[i].at>>]
           hash == [i \in I |-> accumulated[i].hash]
           hf == [v \in Hashed(file) |-> HashOf(file[v[1]], v[2])]
<1>1. EachValueOnce /\ Entries
  BY ValuesOnce DEF IInv
<1>2. IsFiniteSet(I)
  <2>1. Len(accumulated) \in Nat /\ I = 1 .. Len(accumulated)
    BY <1>1 DEF Entries
  <2> QED BY <2>1, FS_Interval
<1>3. ASSUME NEW i \in I
      PROVE  /\ accumulated[i].document \in DOMAIN file
             /\ accumulated[i].at \in Leaves(file[accumulated[i].document])
             /\ accumulated[i].hash =
                  HashOf(file[accumulated[i].document], accumulated[i].at)
  <2>1. accumulated[i] \in Entry
    BY <1>1 DEF Entries
  <2> DEFINE d == accumulated[i].document  p == accumulated[i].at
  <2>2. d \in DOMAIN file /\ p \in Leaves(file[d]) /\ accumulated[i].hash \in HashesOf(file[d], p)
    BY <2>1, EntryFacts
  <2> HIDE DEF d, p
  <2>3. HashesOf(file[d], p) = {HashOf(file[d], p)}
    <3>1. IsPlain(file[d][p])
      BY <2>2, HashesFacts
    <3> QED BY <3>1, ValueHasHash
  <2>4. accumulated[i].hash = HashOf(file[d], p)
    BY <2>2, <2>3
  <2> QED BY <2>2, <2>4 DEF d, p
<1>4. b \in Bijection(I, Hashed(file))
  <2>1. b \in [I -> Hashed(file)]
    BY <1>3 DEF Hashed
  <2>2. ASSUME NEW i \in I, NEW j \in I, b[i] = b[j] PROVE i = j
    BY <1>1, <2>2 DEF Entries
  <2>3. ASSUME NEW v \in Hashed(file) PROVE \E i \in I : b[i] = v
    <3>1. PICK d \in DOMAIN file : \E p \in Leaves(file[d]) : v = <<d, p>>
      BY DEF Hashed
    <3>2. PICK p \in Leaves(file[d]) : v = <<d, p>>
      BY <3>1
    <3>3. PICK i \in I : accumulated[i].document = d /\ accumulated[i].at = p
      BY <1>1 DEF EachValueOnce
    <3> QED BY <3>2, <3>3
  <2> HIDE DEF b, I
  <2> QED BY <2>1, <2>2, <2>3, Zenon DEF Bijection, Injection, Surjection, IsInjective
<1>5. ASSUME NEW i \in I PROVE hf[b[i]] = hash[i]
  <2>1. b[i] \in Hashed(file)
    BY <1>3 DEF Hashed
  <2> QED BY <1>3, <2>1
<1> HIDE DEF I, b, hash, hf
<1>6. IsFiniteSet(Hashed(file)) /\ Count(I, hash) = Count(Hashed(file), hf)
  BY <1>2, <1>4, <1>5, CountBijection
<1> QED BY <1>6, HashesFacts DEF Accumulated, I, hash, hf

\* A fingerprint is that of what the file says: files that say the same are
\* hashed the same, whatever the order of their lines, the order of the fields of
\* their objects and the notation of their numbers.
THEOREM EquivalentFilesHashTheSame == Spec => []EquivalentFilesAgree
<1>1. IInv => EquivalentFilesAgree
  <2> SUFFICES ASSUME IInv, outcome = "returned", file \in PlainNumberFiles,
                      NEW g \in PlainNumberFiles, SameContent(file, g)
               PROVE  Accumulated = HashesOfFile[g]
    BY DEF EquivalentFilesAgree
  <2>1. IsFiniteSet(Hashed(file)) /\ Accumulated = Hashes(file)
    BY AccumulatedHashes
  <2>2. Hashes(file) = Hashes(g)
    BY <2>1, SameContentSameHashes
  <2> QED BY <2>1, <2>2 DEF HashesOfFile
<1> QED BY <1>1, Invariant, PTL

-----------------------------------------------------------------------------
(* Documents told apart                                                    *)

PlainDocument(doc) ==
  IsDocument(doc) /\ \A p \in DOMAIN doc : IsPlain(doc[p]) /\ Unmistakable(doc[p])

\* No two children of a container are reached by the same step, and the steps of
\* an array are none of an object's.
LEMMA StepApart ==
  ASSUME NEW doc, PlainDocument(doc), NEW p \in Inner(doc),
         NEW i \in 1 .. doc[p].size, NEW j \in 1 .. doc[p].size,
         StepHash(doc[p], i - 1) = StepHash(doc[p], j - 1)
  PROVE  i = j
<1>1. /\ p \in DOMAIN doc /\ doc[p].size \in Nat
      /\ doc[p].type = "object" \/ doc[p].type = "array"
  BY DocumentFacts DEF PlainDocument, Inner, Containers
<1>2. (i - 1) + 1 = i /\ (j - 1) + 1 = j /\ i \in Int /\ j \in Int
  BY <1>1
<1>3. CASE doc[p].type = "object"
  <2>1. doc[p].keys[i] = doc[p].keys[j]
    BY <1>2, <1>3 DEF StepHash
  <2> QED BY <1>1, <1>3, <2>1 DEF PlainDocument, Unmistakable
<1>4. CASE doc[p].type = "array"
  <2>1. ArrayIndexPrefix(i - 1) = ArrayIndexPrefix(j - 1)
    BY <1>4 DEF StepHash
  <2>2. i - 1 = j - 1
    BY <2>1 DEF ArrayIndexPrefix
  <2> QED BY <1>2, <2>2
<1> QED BY <1>1, <1>3, <1>4

\* The i-th step of the path to a position; the path to a part of it is a part of
\* the path.
LEMMA PathFacts ==
  ASSUME NEW doc, IsDocument(doc), NEW p \in DOMAIN doc
  PROVE  /\ DOMAIN PathTo(doc, p) = 1 .. Len(p)
         /\ \A i \in 1 .. Len(p) :
              PathTo(doc, p)[i] = StepHash(doc[SubSeq(p, 1, i - 1)], p[i] - 1)
         /\ \A n \in 0 .. Len(p) :
              PathTo(doc, SubSeq(p, 1, n)) = [i \in 1 .. n |-> PathTo(doc, p)[i]]
<1>1. p \in Position /\ Len(p) \in Nat /\ DOMAIN p = 1 .. Len(p)
  BY DocumentFacts, PositionFacts
<1>2. PathTo(doc, p) = [i \in 1 .. Len(p) |-> StepHash(doc[SubSeq(p, 1, i - 1)], p[i] - 1)]
  BY <1>1 DEF PathTo
<1>3. ASSUME NEW n \in 0 .. Len(p)
      PROVE  PathTo(doc, SubSeq(p, 1, n)) = [i \in 1 .. n |-> PathTo(doc, p)[i]]
  <2> DEFINE r == SubSeq(p, 1, n)
  <2>1. r \in Position /\ Len(r) = n /\ \A j \in 1 .. n : r[j] = p[j]
    BY <1>1, PartOfPosition
  <2>2. DOMAIN r = 1 .. n
    BY <2>1, PositionFacts
  <2>3. ASSUME NEW j \in 1 .. n PROVE SubSeq(r, 1, j - 1) = SubSeq(p, 1, j - 1)
    <3>1. j - 1 \in 0 .. Len(r) /\ j - 1 \in 0 .. Len(p) /\ \A k \in 1 .. j - 1 : k \in 1 .. n
      BY <1>1, <2>1
    <3> HIDE DEF r
    <3> QED BY <1>1, <2>1, <3>1, PartOfPosition, SamePosition
  <2> HIDE DEF r
  <2>4. \A j \in 1 .. n : j \in 1 .. Len(p)
    BY <1>1
  <2>5. PathTo(doc, r) = [i \in 1 .. n |-> PathTo(doc, p)[i]]
    BY <1>2, <2>1, <2>2, <2>3, <2>4 DEF PathTo
  <2> QED BY <2>5 DEF r
<1> QED BY <1>2, <1>3

\* In a plain document no two positions have the same path.
LEMMA PathApart ==
  ASSUME NEW doc, PlainDocument(doc), NEW p \in DOMAIN doc, NEW q \in DOMAIN doc,
         PathTo(doc, p) = PathTo(doc, q)
  PROVE  p = q
<1>0. IsDocument(doc)
  BY DEF PlainDocument
<1>1. /\ p \in Position /\ Len(p) \in Nat
      /\ q \in Position /\ Len(q) = Len(p)
  <2>1. p \in Position /\ Len(p) \in Nat /\ q \in Position /\ Len(q) \in Nat
    BY <1>0, DocumentFacts, PositionFacts
  <2>2. 1 .. Len(p) = 1 .. Len(q)
    <3>1. DOMAIN PathTo(doc, p) = 1 .. Len(p)
      BY <1>0, PathFacts
    <3>2. DOMAIN PathTo(doc, q) = 1 .. Len(q)
      BY <1>0, PathFacts
    <3> QED BY <3>1, <3>2
  <2>3. Len(p) = Len(q)
    <3>1. Len(p) > 0 => Len(p) \in 1 .. Len(q)
      BY <2>1, <2>2
    <3>2. Len(q) > 0 => Len(q) \in 1 .. Len(p)
      BY <2>1, <2>2
    <3> QED BY <2>1, <3>1, <3>2
  <2> QED BY <2>1, <2>3
<1>2. ASSUME NEW x \in DOMAIN doc, NEW i \in 1 .. Len(x)
      PROVE  /\ PathTo(doc, x)[i] = StepHash(doc[SubSeq(x, 1, i - 1)], x[i] - 1)
             /\ SubSeq(x, 1, i - 1) \in Inner(doc)
             /\ x[i] \in 1 .. doc[SubSeq(x, 1, i - 1)].size
  BY <1>0, PathFacts, StepFacts
<1> DEFINE Apart == {i \in 1 .. Len(p) : p[i] # q[i]}
<1>3. Apart = {}
  <2> SUFFICES ASSUME Apart # {} PROVE FALSE
    OBVIOUS
  <2>1. PICK i \in Apart : \A j \in Apart : i <= j
    <3>1. Apart \in SUBSET Nat
      BY <1>1
    <3> HIDE DEF Apart
    <3> QED BY <3>1, LeastNumber
  <2>2. i \in 1 .. Len(p) /\ i \in 1 .. Len(q) /\ p[i] # q[i]
    BY <1>1
  <2>3. SubSeq(p, 1, i - 1) = SubSeq(q, 1, i - 1)
    <3>1. i - 1 \in 0 .. Len(p) /\ \A j \in 1 .. i - 1 : j \in 1 .. Len(p) /\ ~(i <= j)
      BY <1>1, <2>2
    <3>2. \A j \in 1 .. i - 1 : p[j] = q[j]
      BY <2>1, <3>1
    <3> HIDE DEF Apart
    <3> QED BY <1>1, <3>1, <3>2, PartOfPosition, SamePosition
  <2> DEFINE r == SubSeq(p, 1, i - 1)
  <2>4. /\ r \in Inner(doc) /\ p[i] \in 1 .. doc[r].size /\ q[i] \in 1 .. doc[r].size
        /\ StepHash(doc[r], p[i] - 1) = StepHash(doc[r], q[i] - 1)
    BY <2>2, <2>3, <1>2
  <2> HIDE DEF r
  <2> QED BY <2>2, <2>4, StepApart
<1> QED BY <1>1, <1>3, SamePosition

\* Below every position there is a value: of the positions below it one has the
\* fewest below itself.
LEMMA LeafBelow ==
  ASSUME NEW doc, PlainDocument(doc), NEW p \in DOMAIN doc
  PROVE  \E l \in Leaves(doc) : IsPrefix(p, l)
<1> DEFINE Under(q) == {r \in DOMAIN doc : IsPrefix(q, r)}
           Sizes == {Cardinality(Under(q)) : q \in Under(p)}
<1>0. IsDocument(doc) /\ IsFiniteSet(DOMAIN doc) /\ DOMAIN doc \subseteq Position
  BY DEF PlainDocument, IsDocument
<1>1. ASSUME NEW q \in DOMAIN doc
      PROVE  IsFiniteSet(Under(q)) /\ Cardinality(Under(q)) \in Nat /\ q \in Under(q)
  <2>1. IsFiniteSet(Under(q))
    BY <1>0, FS_Subset
  <2>2. Len(q) \in Nat
    BY <1>0, PositionFacts
  <2> QED BY <2>1, <2>2, FS_CardinalityType DEF IsPrefix
<1>2. PICK n \in Sizes : \A k \in Sizes : n <= k
  <2>1. Sizes \in SUBSET Nat /\ Sizes # {}
    BY <1>1
  <2> HIDE DEF Sizes
  <2> QED BY <2>1, LeastNumber
<1>3. PICK q \in Under(p) : n = Cardinality(Under(q))
  OBVIOUS
<1>4. q \in DOMAIN doc /\ q \in Position /\ Len(q) \in Nat /\ IsPrefix(p, q)
  BY <1>0, PositionFacts
<1>5. doc[q].size = 0
  <2> SUFFICES ASSUME doc[q].size # 0 PROVE FALSE
    OBVIOUS
  <2> DEFINE c == Append(q, 1)
  <2>1. c \in DOMAIN doc /\ c \in Position /\ Len(c) = Len(q) + 1 /\ \A j \in 1 .. Len(q) : c[j] = q[j]
    <3>1. doc[q].size \in Nat /\ 1 \in 1 .. doc[q].size
      BY <1>0, <1>4, DocumentFacts
    <3> QED BY <1>0, <1>4, <3>1, DocumentFacts, ChildFacts
  <2> HIDE DEF c
  <2>2. ASSUME NEW r \in DOMAIN doc, IsPrefix(c, r) PROVE IsPrefix(q, r) /\ q # r
    <3>1. Len(r) \in Nat /\ Len(c) <= Len(r) /\ \A j \in 1 .. Len(c) : r[j] = c[j]
      BY <2>2, <1>0, PositionFacts DEF IsPrefix
    <3> QED BY <3>1, <2>1, <1>4 DEF IsPrefix
  <2>3. IsPrefix(p, c)
    <3>1. Len(p) \in Nat /\ Len(p) <= Len(q) /\ \A j \in 1 .. Len(p) : q[j] = p[j]
      BY <1>0, <1>4, PositionFacts DEF IsPrefix
    <3> QED BY <3>1, <2>1, <1>4 DEF IsPrefix
  <2>4. Under(c) \subseteq Under(q) /\ q \notin Under(c) /\ q \in Under(q) /\ c \in Under(p)
    BY <1>1, <1>4, <2>1, <2>2, <2>3
  <2>5. Cardinality(Under(c)) \in Sizes
    BY <2>4
  <2>6. n <= Cardinality(Under(c))
    <3> HIDE DEF Sizes, Under
    <3> QED BY <1>2, <2>5
  <2>7. /\ IsFiniteSet(Under(q)) /\ Cardinality(Under(q)) \in Nat /\ Cardinality(Under(c)) \in Nat
    BY <1>1, <1>4, <2>1
  <2> HIDE DEF Under, Sizes
  <2>8. Cardinality(Under(c)) <= Cardinality(Under(q))
        /\ Cardinality(Under(c)) # Cardinality(Under(q))
    BY <2>4, <2>7, FS_Subset
  <2> QED BY <1>3, <2>6, <2>7, <2>8
<1> QED BY <1>4, <1>5 DEF Leaves, PlainDocument, IsPlain

\* A plain value is known from its bytes.
LEMMA BytesTell ==
  ASSUME NEW m, NEW n, IsPlain(m), IsPlain(n), Unmistakable(m), Unmistakable(n),
         m.type \in Basic, n.type \in Basic, BytesOf(m) = BytesOf(n), m.size = n.size
  PROVE  SameNode(m, n)
<1> DEFINE b == BytesOf(m)
           Kind(e) ==
             /\ e.type = "number" => Len(b) \in {3, 4}
             /\ e.type = "boolean" => b = <<0>> \/ b = <<1>>
             /\ e.type = "null" => b = <<0, 0>>
             /\ e.type = "string" => b \notin {<<0>>, <<1>>, <<0, 0>>} /\ Len(b) \notin {3, 4}
<1>1. ASSUME NEW e, e.type \in Basic, Unmistakable(e), BytesOf(e) = b PROVE Kind(e)
  <2>1. CASE e.type = "number"
    <3>1. b = Canonical(e.value.halves)
      BY <1>1, <2>1 DEF BytesOf
    <3> HIDE DEF b
    <3>2. \A x : Len(Int128(x)) = 4 /\ Len(Double(x)) = 3
      BY DEF Int128, Double
    <3> QED BY <2>1, <3>1, <3>2 DEF Canonical
  <2>2. CASE e.type = "boolean"
    BY <1>1, <2>2 DEF BytesOf
  <2>3. CASE e.type = "null"
    BY <1>1, <2>3 DEF BytesOf
  <2>4. CASE e.type = "string"
    <3>1. b = e.value
      BY <1>1, <2>4 DEF BytesOf
    <3> HIDE DEF b
    <3> QED BY <2>4, <1>1, <3>1 DEF Unmistakable
  <2> HIDE DEF Kind
  <2>5. e.type \in {"number", "boolean", "null", "string"}
    BY <1>1 DEF Basic
  <2> QED BY <2>1, <2>2, <2>3, <2>4, <2>5
<1>2. Len(<<0>>) = 1 /\ Len(<<1>>) = 1 /\ Len(<<0, 0>>) = 2
  OBVIOUS
<1>3. m.type = n.type
  <2>1. Kind(m) /\ Kind(n)
    BY <1>1
  <2> HIDE DEF b
  <2>2. /\ b = <<0>> \/ b = <<1>> => Len(b) = 1 /\ b # <<0, 0>>
        /\ b = <<0, 0>> => Len(b) = 2
    BY <1>2
  <2> QED BY <2>1, <2>2 DEF Basic
<1>4. CASE m.type = "number"
  <2> DEFINE h == m.value.halves  k == n.value.halves
  <2>1. h \in Int /\ k \in Int /\ Canonical(h) = Canonical(k)
    BY <1>3, <1>4 DEF IsPlain, IsNumber, BytesOf
  <2> HIDE DEF h, k
  <2>2. h = k
    <3>1. \A x, y : Int128(x) # Double(y)
      BY DEF Int128, Double
    <3>2. \A x, y : (Int128(x) = Int128(y) => x = y) /\ (Double(x) = Double(y) => x = y)
      BY DEF Int128, Double
    <3>3. (h % 2 = 0 => h = 2 * (h \div 2)) /\ (k % 2 = 0 => k = 2 * (k \div 2))
      BY <2>1, HalvesFacts
    <3> QED BY <2>1, <3>1, <3>2, <3>3 DEF Canonical
  <2> QED BY <2>2, <1>3, <1>4 DEF h, k, SameNode
<1>5. CASE m.type = "string"
  BY <1>3, <1>5 DEF SameNode, BytesOf
<1>6. CASE m.type = "boolean"
  <2>1. <<IF m.value THEN 1 ELSE 0>> = <<IF n.value THEN 1 ELSE 0>>
    BY <1>3, <1>6 DEF BytesOf
  <2>2. (IF m.value THEN 1 ELSE 0) = (IF n.value THEN 1 ELSE 0)
    <3>1. \A x, y : <<x>> = <<y>> => x = y
      OBVIOUS
    <3> QED BY <2>1, <3>1
  <2>3. m.value \in BOOLEAN /\ n.value \in BOOLEAN
    BY <1>3, <1>6 DEF IsPlain
  <2>4. m.value = n.value
    BY <2>2, <2>3
  <2> QED BY <2>4, <1>3, <1>6 DEF SameNode
<1>7. CASE m.type = "null"
  BY <1>3, <1>7 DEF SameNode
<1> QED BY <1>4, <1>5, <1>6, <1>7 DEF Basic

\* Positions with the same path are as deep, and so have parts with the same paths.
LEMMA SamePath ==
  ASSUME NEW d, IsDocument(d), NEW e, IsDocument(e), NEW p \in DOMAIN d, NEW q \in DOMAIN e,
         PathTo(e, q) = PathTo(d, p)
  PROVE  /\ Len(q) = Len(p) /\ Len(p) \in Nat /\ p \in Position /\ q \in Position
         /\ \A n \in 0 .. Len(p) :
              /\ SubSeq(p, 1, n) \in DOMAIN d /\ SubSeq(q, 1, n) \in DOMAIN e
              /\ PathTo(e, SubSeq(q, 1, n)) = PathTo(d, SubSeq(p, 1, n))
<1>1. p \in Position /\ Len(p) \in Nat /\ q \in Position /\ Len(q) \in Nat
  BY DocumentFacts, PositionFacts
<1>2. DOMAIN PathTo(d, p) = 1 .. Len(p)
  BY PathFacts
<1>3. DOMAIN PathTo(e, q) = 1 .. Len(q)
  BY PathFacts
<1>4. Len(q) = Len(p)
  <2>1. 1 .. Len(p) = 1 .. Len(q)
    BY <1>2, <1>3
  <2>2. Len(p) > 0 => Len(p) \in 1 .. Len(q)
    BY <1>1, <2>1
  <2>3. Len(q) > 0 => Len(q) \in 1 .. Len(p)
    BY <1>1, <2>1
  <2> QED BY <1>1, <2>2, <2>3
<1>5. ASSUME NEW n \in 0 .. Len(p)
      PROVE  /\ SubSeq(p, 1, n) \in DOMAIN d /\ SubSeq(q, 1, n) \in DOMAIN e
             /\ PathTo(e, SubSeq(q, 1, n)) = PathTo(d, SubSeq(p, 1, n))
  <2>1. SubSeq(p, 1, n) \in DOMAIN d
    BY PartsAreThere
  <2>2. SubSeq(q, 1, n) \in DOMAIN e
    BY <1>4, PartsAreThere
  <2>3. PathTo(d, SubSeq(p, 1, n)) = [i \in 1 .. n |-> PathTo(d, p)[i]]
    BY PathFacts
  <2>4. PathTo(e, SubSeq(q, 1, n)) = [i \in 1 .. n |-> PathTo(e, q)[i]]
    BY <1>4, PathFacts
  <2> QED BY <2>1, <2>2, <2>3, <2>4
<1> QED BY <1>1, <1>4, <1>5

\* Every path of d is one of e.
Reaches(d, e) == \A p \in DOMAIN d : \E q \in DOMAIN e : PathTo(e, q) = PathTo(d, p)

\* A child of a container is reached from the value of e with the container's path
\* by the same step.
LEMMA StepReached ==
  ASSUME NEW d, PlainDocument(d), NEW e, PlainDocument(e), Reaches(d, e),
         NEW p \in Inner(d), NEW q \in DOMAIN e, PathTo(e, q) = PathTo(d, p),
         NEW i \in 1 .. d[p].size
  PROVE  /\ q \in Inner(e)
         /\ \E j \in 1 .. e[q].size :
              /\ StepHash(e[q], j - 1) = StepHash(d[p], i - 1)
              /\ Append(q, j) \in DOMAIN e
              /\ PathTo(e, Append(q, j)) = PathTo(d, Append(p, i))
<1>0. IsDocument(d) /\ IsDocument(e)
  BY DEF PlainDocument
<1>1. p \in DOMAIN d /\ p \in Position /\ Len(p) \in Nat /\ i \in Nat /\ i > 0
  BY <1>0, DocumentFacts, PositionFacts DEF Inner
<1> DEFINE c == Append(p, i)
<1>2. /\ c \in DOMAIN d /\ c \in Position /\ Len(c) = Len(p) + 1
      /\ c[Len(p) + 1] = i /\ \A j \in 1 .. Len(p) : c[j] = p[j]
  BY <1>0, <1>1, DocumentFacts, ChildFacts
<1> HIDE DEF c
<1>3. PICK r \in DOMAIN e : PathTo(e, r) = PathTo(d, c)
  BY <1>2 DEF Reaches
<1>4. /\ Len(r) = Len(p) + 1 /\ r \in Position
      /\ SubSeq(r, 1, Len(p)) \in DOMAIN e
      /\ PathTo(e, SubSeq(r, 1, Len(p))) = PathTo(d, SubSeq(c, 1, Len(p)))
  <2>1. Len(p) \in 0 .. Len(c)
    BY <1>1, <1>2
  <2> QED BY <1>0, <1>2, <1>3, <2>1, SamePath
<1>5. SubSeq(c, 1, Len(p)) = p
  <2> DEFINE h == SubSeq(c, 1, Len(p))
  <2>1. Len(p) \in 0 .. Len(c)
    BY <1>1, <1>2
  <2>2. h \in Position /\ Len(h) = Len(p) /\ \A j \in 1 .. Len(p) : h[j] = c[j]
    BY <1>2, <2>1, PartOfPosition
  <2> HIDE DEF h
  <2>3. h = p
    BY <1>1, <1>2, <2>2, SamePosition
  <2> QED BY <2>3 DEF h
<1>6. SubSeq(r, 1, Len(p)) = q
  BY <1>4, <1>5, PathApart
<1> DEFINE n == Len(p) + 1  j == r[n]
<1>7. n \in 1 .. Len(r) /\ n \in 1 .. Len(c) /\ n - 1 = Len(p)
  BY <1>1, <1>2, <1>4
<1>8. q \in Inner(e) /\ j \in 1 .. e[q].size /\ Len(q) = Len(p)
  <2>1. /\ SubSeq(r, 1, n - 1) \in Inner(e) /\ r[n] \in 1 .. e[SubSeq(r, 1, n - 1)].size
        /\ Len(SubSeq(r, 1, n - 1)) = n - 1
    BY <1>0, <1>7, StepFacts
  <2> QED BY <1>6, <1>7, <2>1
<1>9. StepHash(e[q], j - 1) = StepHash(d[p], i - 1)
  <2>1. PathTo(e, r)[n] = StepHash(e[SubSeq(r, 1, n - 1)], r[n] - 1)
    <3>1. \A k \in 1 .. Len(r) : PathTo(e, r)[k] = StepHash(e[SubSeq(r, 1, k - 1)], r[k] - 1)
      BY <1>0, PathFacts
    <3> HIDE DEF n
    <3> QED BY <1>7, <3>1
  <2>2. PathTo(d, c)[n] = StepHash(d[SubSeq(c, 1, n - 1)], c[n] - 1)
    BY <1>0, <1>2, <1>7, PathFacts
  <2> QED BY <1>2, <1>3, <1>5, <1>6, <1>7, <2>1, <2>2
<1>10. r = Append(q, j)
  <2>1. \A k \in 1 .. Len(p) : r[k] = q[k]
    <3>1. Len(p) \in 0 .. Len(r)
      BY <1>1, <1>4
    <3> QED BY <1>4, <1>6, <3>1, PartOfPosition
  <2>2. j \in Nat /\ j > 0 /\ q \in Position
    <3>1. q \in Position /\ e[q].size \in Nat
      BY <1>0, DocumentFacts
    <3> QED BY <1>8, <3>1
  <2>3. /\ Append(q, j) \in Position /\ Len(Append(q, j)) = Len(p) + 1
        /\ \A k \in 1 .. Len(p) : Append(q, j)[k] = q[k]
        /\ Append(q, j)[Len(p) + 1] = j
    <3> HIDE DEF j
    <3> QED BY <1>8, <2>2, ChildFacts
  <2>4. \A k \in 1 .. Len(r) : r[k] = Append(q, j)[k]
    <3>1. \A k \in 1 .. Len(r) : k \in 1 .. Len(p) \/ k = Len(p) + 1
      BY <1>1, <1>4
    <3>2. r[Len(p) + 1] = j
      OBVIOUS
    <3> HIDE DEF j
    <3> QED BY <2>1, <2>3, <3>1, <3>2
  <2> HIDE DEF j
  <2> QED BY <1>4, <2>3, <2>4, SamePosition
<1> HIDE DEF j, n
<1> QED BY <1>3, <1>8, <1>9, <1>10 DEF c

\* Where both documents have the same paths, containers with the same path have as
\* many children and are of the same kind.
LEMMA SameContainer ==
  ASSUME NEW d, PlainDocument(d), NEW e, PlainDocument(e), Reaches(d, e), Reaches(e, d),
         NEW p \in Inner(d), NEW q \in DOMAIN e, PathTo(e, q) = PathTo(d, p)
  PROVE  /\ q \in Inner(e)
         /\ d[p].type = e[q].type /\ d[p].size = e[q].size
<1>0. IsDocument(d) /\ IsDocument(e) /\ p \in DOMAIN d
  BY DEF PlainDocument, Inner
<1>1. d[p].size \in Nat /\ d[p].size > 0 /\ e[q].size \in Nat
  BY <1>0, DocumentFacts DEF Inner
<1>2. \A i \in 1 .. d[p].size : q \in Inner(e) /\ \E j \in 1 .. e[q].size :
         StepHash(e[q], j - 1) = StepHash(d[p], i - 1)
  BY StepReached
<1>3. q \in Inner(e)
  BY <1>1, <1>2
<1>4. \A j \in 1 .. e[q].size : \E i \in 1 .. d[p].size :
         StepHash(d[p], i - 1) = StepHash(e[q], j - 1)
  BY <1>0, <1>3, StepReached
<1>5. e[q].size > 0
  BY <1>3 DEF Inner
<1>6. d[p].size = e[q].size
  <2> DEFINE I == 1 .. d[p].size  J == 1 .. e[q].size
             f == [i \in I |-> CHOOSE j \in J : StepHash(e[q], j - 1) = StepHash(d[p], i - 1)]
             g == [j \in J |-> CHOOSE i \in I : StepHash(d[p], i - 1) = StepHash(e[q], j - 1)]
  <2>1. \A i \in I : f[i] \in J /\ StepHash(e[q], f[i] - 1) = StepHash(d[p], i - 1)
    BY <1>2
  <2>2. \A j \in J : g[j] \in I /\ StepHash(d[p], g[j] - 1) = StepHash(e[q], j - 1)
    BY <1>4
  <2>3. \A i, k \in I : f[i] = f[k] => i = k
    <3> SUFFICES ASSUME NEW i \in I, NEW k \in I, f[i] = f[k] PROVE i = k
      OBVIOUS
    <3>1. StepHash(d[p], i - 1) = StepHash(d[p], k - 1)
      <4> HIDE DEF f, I, J
      <4> QED BY <2>1
    <3> HIDE DEF f
    <3> QED BY <3>1, StepApart
  <2>4. \A j, k \in J : g[j] = g[k] => j = k
    <3> SUFFICES ASSUME NEW j \in J, NEW k \in J, g[j] = g[k] PROVE j = k
      OBVIOUS
    <3>1. StepHash(e[q], j - 1) = StepHash(e[q], k - 1)
      <4> HIDE DEF g, I, J
      <4> QED BY <2>2
    <3> HIDE DEF g
    <3> QED BY <3>1, <1>3, StepApart
  <2>5. f \in [I -> J] /\ g \in [J -> I]
    BY <2>1, <2>2
  <2>6. /\ IsFiniteSet(I) /\ Cardinality(I) = d[p].size
        /\ IsFiniteSet(J) /\ Cardinality(J) = e[q].size
    <3>1. ASSUME NEW n \in Nat, n > 0
          PROVE  IsFiniteSet(1 .. n) /\ Cardinality(1 .. n) = n
      <4>1. IsFiniteSet(1 .. n) /\ Cardinality(1 .. n) = IF 1 > n THEN 0 ELSE n - 1 + 1
        BY FS_Interval
      <4> QED BY <3>1, <4>1
    <3> QED BY <1>1, <1>5, <3>1
  <2> HIDE DEF f, g, I, J
  <2>7. f \in Injection(I, J) /\ g \in Injection(J, I)
    BY <2>3, <2>4, <2>5, Zenon DEF Injection, IsInjective
  <2>8. Cardinality(I) <= Cardinality(J)
    BY <2>6, <2>7, FS_Injection DEF ExistsInjection
  <2>9. Cardinality(J) <= Cardinality(I)
    BY <2>6, <2>7, FS_Injection DEF ExistsInjection
  <2> QED BY <1>1, <2>6, <2>8, <2>9
<1>7. d[p].type = e[q].type
  <2>1. /\ d[p].type = "object" \/ d[p].type = "array"
        /\ e[q].type = "object" \/ e[q].type = "array"
    BY <1>0, <1>1, <1>5, DocumentFacts DEF Containers
  <2>2. \A doc : \A x \in DOMAIN doc : \A i \in 1 .. doc[x].size :
           PlainDocument(doc) /\ doc[x].type = "object" =>
             StepHash(doc[x], i - 1) # ArrayIndexPrefix(0)
    <3> SUFFICES ASSUME NEW doc, NEW x \in DOMAIN doc, NEW i \in 1 .. doc[x].size,
                        PlainDocument(doc), doc[x].type = "object"
                 PROVE  StepHash(doc[x], i - 1) # ArrayIndexPrefix(0)
      OBVIOUS
    <3>1. i \in Int /\ (i - 1) + 1 = i
      BY DocumentFacts DEF PlainDocument
    <3> QED BY <3>1 DEF StepHash, PlainDocument, Unmistakable
  <2>3. \A doc : \A x : doc[x].type # "object" => StepHash(doc[x], 1 - 1) = ArrayIndexPrefix(0)
    BY DEF StepHash
  <2>4. 1 \in 1 .. d[p].size /\ 1 \in 1 .. e[q].size
    BY <1>1, <1>5
  <2>5. PICK j \in 1 .. e[q].size : StepHash(e[q], j - 1) = StepHash(d[p], 1 - 1)
    BY <1>2, <2>4
  <2>6. PICK i \in 1 .. d[p].size : StepHash(d[p], i - 1) = StepHash(e[q], 1 - 1)
    BY <1>4, <2>4
  <2>7. ~(d[p].type = "array" /\ e[q].type = "object")
    BY <2>2, <2>3, <2>5
  <2>8. ~(d[p].type = "object" /\ e[q].type = "array")
    BY <1>0, <2>2, <2>3, <2>6
  <2> QED BY <2>1, <2>7, <2>8
<1> QED BY <1>3, <1>6, <1>7

\* Plain documents with the same paths, and the same nodes at the end of each, say
\* the same: every child goes where the child of the same path is.
LEMMA AlikeSaySame ==
  ASSUME NEW d, PlainDocument(d), NEW e, PlainDocument(e), Reaches(d, e), Reaches(e, d),
         \A p \in DOMAIN d : \A q \in DOMAIN e :
           PathTo(e, q) = PathTo(d, p) => SameNode(d[p], e[q])
  PROVE  SameDocument(d, e)
<1> DEFINE match(p) == CHOOSE q \in DOMAIN e : PathTo(e, q) = PathTo(d, p)
           Goes(p, i, j) ==
             /\ StepHash(e[match(p)], j - 1) = StepHash(d[p], i - 1)
             /\ Append(match(p), j) \in DOMAIN e
             /\ PathTo(e, Append(match(p), j)) = PathTo(d, Append(p, i))
           step(p, i) == CHOOSE j \in 1 .. e[match(p)].size : Goes(p, i, j)
           s == [p \in Inner(d) |-> [i \in 1 .. d[p].size |-> step(p, i)]]
<1>0. IsDocument(d) /\ IsDocument(e) /\ Inner(d) \subseteq DOMAIN d
  BY DEF PlainDocument, Inner
<1>a. ASSUME NEW p \in Inner(d), NEW q \in DOMAIN e, PathTo(e, q) = PathTo(d, p)
      PROVE  /\ q \in Inner(e) /\ d[p].type = e[q].type /\ d[p].size = e[q].size
             /\ \A i \in 1 .. d[p].size : \E j \in 1 .. e[q].size :
                  /\ StepHash(e[q], j - 1) = StepHash(d[p], i - 1)
                  /\ Append(q, j) \in DOMAIN e
                  /\ PathTo(e, Append(q, j)) = PathTo(d, Append(p, i))
  <2>1. q \in Inner(e) /\ d[p].type = e[q].type /\ d[p].size = e[q].size
    BY <1>a, SameContainer
  <2> QED BY <1>a, <2>1, StepReached
<1>b. ASSUME NEW p \in DOMAIN d, NEW q \in DOMAIN e, PathTo(e, q) = PathTo(d, p)
      PROVE  /\ Len(q) = Len(p) /\ Len(p) \in Nat /\ p \in Position /\ q \in Position
             /\ \A n \in 0 .. Len(p) :
                  /\ SubSeq(p, 1, n) \in DOMAIN d /\ SubSeq(q, 1, n) \in DOMAIN e
                  /\ PathTo(e, SubSeq(q, 1, n)) = PathTo(d, SubSeq(p, 1, n))
  BY <1>0, <1>b, SamePath
<1>1. \A p \in DOMAIN d : match(p) \in DOMAIN e /\ PathTo(e, match(p)) = PathTo(d, p)
  BY DEF Reaches
<1>2. ASSUME NEW p \in DOMAIN d, NEW q \in DOMAIN e, PathTo(e, q) = PathTo(d, p)
      PROVE  q = match(p)
  <2>1. match(p) \in DOMAIN e /\ PathTo(e, match(p)) = PathTo(d, p)
    BY <1>1
  <2> HIDE DEF match
  <2> QED BY <1>2, <2>1, PathApart
<1> HIDE DEF match
<1>3. ASSUME NEW p \in Inner(d)
      PROVE  /\ match(p) \in Inner(e)
             /\ d[p].type = e[match(p)].type /\ d[p].size = e[match(p)].size
  <2>1. match(p) \in DOMAIN e /\ PathTo(e, match(p)) = PathTo(d, p)
    BY <1>0, <1>1
  <2> QED BY <2>1, <1>a
<1>4. ASSUME NEW p \in Inner(d), NEW i \in 1 .. d[p].size
      PROVE  step(p, i) \in 1 .. d[p].size /\ Goes(p, i, step(p, i))
  <2>1. match(p) \in DOMAIN e /\ PathTo(e, match(p)) = PathTo(d, p)
    BY <1>0, <1>1
  <2>2. \E j \in 1 .. e[match(p)].size : Goes(p, i, j)
    BY <2>1, <1>a
  <2>3. step(p, i) \in 1 .. e[match(p)].size /\ Goes(p, i, step(p, i))
    <3> HIDE DEF Goes
    <3> QED BY <2>2
  <2> HIDE DEF step, Goes
  <2> QED BY <2>3, <1>3
<1> HIDE DEF step
<1>5. ASSUME NEW p \in Inner(d), NEW i \in 1 .. d[p].size, NEW k \in 1 .. d[p].size,
             step(p, i) = step(p, k)
      PROVE  i = k
  <2>1. StepHash(d[p], i - 1) = StepHash(d[p], k - 1)
    BY <1>4, <1>5
  <2> QED BY <2>1, StepApart
<1>6. s \in ChildOrders(d)
  <2>1. ASSUME NEW p \in Inner(d) PROVE s[p] \in Orders(d[p].size)
    <3>1. s[p] = [i \in 1 .. d[p].size |-> step(p, i)]
      OBVIOUS
    <3>2. s[p] \in [1 .. d[p].size -> 1 .. d[p].size]
      BY <1>4, <3>1
    <3>3. \A i, k \in 1 .. d[p].size : s[p][i] = s[p][k] => i = k
      BY <1>5, <3>1
    <3> HIDE DEF s
    <3> QED BY <3>2, <3>3 DEF Orders
  <2>2. DOMAIN s = Inner(d) /\ s = [p \in DOMAIN s |-> s[p]]
    OBVIOUS
  <2> HIDE DEF s
  <2>3. s \in [Inner(d) -> UNION {Orders(d[p].size) : p \in Inner(d)}]
    BY <2>1, <2>2
  <2> QED BY <2>1, <2>3 DEF ChildOrders
<1>7. \A p \in Inner(d) : \A i \in 1 .. d[p].size : s[p][i] = step(p, i)
  OBVIOUS
<1> HIDE DEF s
<1>8. ASSUME NEW p \in DOMAIN d PROVE Moved(s, p) = match(p)
  <2> DEFINE m == match(p)
  <2>1. /\ m \in DOMAIN e /\ m \in Position /\ Len(m) = Len(p) /\ Len(p) \in Nat
        /\ p \in Position
        /\ \A n \in 0 .. Len(p) : /\ SubSeq(p, 1, n) \in DOMAIN d /\ SubSeq(m, 1, n) \in DOMAIN e
                                  /\ PathTo(e, SubSeq(m, 1, n)) = PathTo(d, SubSeq(p, 1, n))
    BY <1>1, <1>b
  <2> HIDE DEF m
  <2>2. Moved(s, p) \in Position /\ Len(Moved(s, p)) = Len(p)
    BY <1>0, <1>6, MovedFacts
  <2>3. ASSUME NEW i \in 1 .. Len(p) PROVE Moved(s, p)[i] = m[i]
    <3> DEFINE q == SubSeq(p, 1, i - 1)  j == step(q, p[i])
    <3>1. q \in Inner(d) /\ Len(q) = i - 1 /\ p[i] \in 1 .. d[q].size
      BY <1>0, StepFacts
    <3>2. Moved(s, p)[i] = j
      <4>1. Moved(s, p)[i] = s[q][p[i]]
        BY <1>0, <1>6, MovedFacts
      <4> HIDE DEF q
      <4> QED BY <3>1, <4>1, <1>7
    <3>3. /\ j \in 1 .. d[q].size /\ Append(match(q), j) \in DOMAIN e
          /\ PathTo(e, Append(match(q), j)) = PathTo(d, Append(q, p[i]))
      BY <3>1, <1>4
    <3>4. Append(q, p[i]) = SubSeq(p, 1, i)
      <4> DEFINE h == SubSeq(p, 1, i)
      <4>1. i - 1 \in 0 .. Len(p) /\ i \in 0 .. Len(p) /\ i \in Nat
        BY <2>1
      <4>2. q \in Position /\ \A k \in 1 .. i - 1 : q[k] = p[k]
        BY <2>1, <4>1, PartOfPosition
      <4>3. h \in Position /\ Len(h) = i /\ \A k \in 1 .. i : h[k] = p[k]
        BY <2>1, <4>1, PartOfPosition
      <4>4. p[i] \in Nat /\ p[i] > 0
        BY <2>1, PositionFacts
      <4>5. Append(q, p[i]) \in Position /\ Len(Append(q, p[i])) = i
            /\ \A k \in 1 .. i : Append(q, p[i])[k] = p[k]
        <5>1. /\ Append(q, p[i]) \in Position /\ Len(Append(q, p[i])) = Len(q) + 1
              /\ \A k \in 1 .. Len(q) : Append(q, p[i])[k] = q[k]
              /\ Append(q, p[i])[Len(q) + 1] = p[i]
          <6> HIDE DEF q
          <6> QED BY <4>2, <4>4, ChildFacts
        <5>2. Len(q) = i - 1 /\ (i - 1) + 1 = i /\ \A k \in 1 .. i : k \in 1 .. i - 1 \/ k = i
          BY <3>1, <4>1
        <5> HIDE DEF q
        <5> QED BY <4>2, <5>1, <5>2
      <4> HIDE DEF q, h
      <4>6. Append(q, p[i]) = h
        BY <4>3, <4>5, SamePosition
      <4> QED BY <4>6 DEF h
    <3>5. i \in 0 .. Len(p) /\ i \in Nat
      BY <2>1
    <3>6. Append(match(q), j) = SubSeq(m, 1, i)
      <4> DEFINE h == SubSeq(p, 1, i)
      <4>1. h \in DOMAIN d /\ SubSeq(m, 1, i) \in DOMAIN e /\ PathTo(e, SubSeq(m, 1, i)) = PathTo(d, h)
        BY <2>1, <3>5
      <4>2. SubSeq(m, 1, i) = match(h)
        <5> HIDE DEF h
        <5> QED BY <4>1, <1>2
      <4>3. Append(match(q), j) = match(h)
        <5>1. PathTo(e, Append(match(q), j)) = PathTo(d, h)
          BY <3>3, <3>4
        <5> HIDE DEF h, q, j
        <5> QED BY <3>3, <4>1, <5>1, <1>2
      <4> QED BY <4>2, <4>3
    <3>7. Append(match(q), j)[i] = j
      <4>1. match(q) \in DOMAIN e /\ PathTo(e, match(q)) = PathTo(d, q) /\ q \in DOMAIN d
        BY <1>0, <1>1, <3>1
      <4> HIDE DEF q, j
      <4>2. Len(match(q)) = Len(q) /\ match(q) \in Position
        BY <4>1, <1>b
      <4>3. j \in Nat /\ j > 0
        <5>1. d[q].size \in Nat
          BY <1>0, <4>1, DocumentFacts
        <5> QED BY <3>3, <5>1
      <4>4. Append(match(q), j)[Len(match(q)) + 1] = j
        BY <4>2, <4>3, ChildFacts
      <4>5. Len(match(q)) + 1 = i
        <5>1. Len(q) = i - 1
          BY <3>1 DEF q
        <5> QED BY <3>5, <4>2, <5>1
      <4> QED BY <4>4, <4>5
    <3>8. SubSeq(m, 1, i)[i] = m[i]
      BY <2>1, <3>5, PartOfPosition
    <3> HIDE DEF q, j
    <3> QED BY <3>2, <3>6, <3>7, <3>8
  <2>4. Moved(s, p) = m
    BY <2>1, <2>2, <2>3, SamePosition
  <2> QED BY <2>4 DEF m
<1>9. {Moved(s, p) : p \in DOMAIN d} = DOMAIN e
  <2>1. ASSUME NEW q \in DOMAIN e PROVE \E p \in DOMAIN d : Moved(s, p) = q
    <3>1. PICK p \in DOMAIN d : PathTo(d, p) = PathTo(e, q)
      BY DEF Reaches
    <3> QED BY <3>1, <1>2, <1>8
  <2>2. \A p \in DOMAIN d : Moved(s, p) \in DOMAIN e
    BY <1>1, <1>8
  <2> QED BY <2>1, <2>2
<1>10. \A p \in DOMAIN d : SameNode(d[p], e[Moved(s, p)])
  BY <1>1, <1>8
<1>11. ASSUME NEW p \in Inner(d), NEW i \in 1 .. d[p].size
       PROVE  IF d[p].type = "object" THEN d[p].keys[i] = e[Moved(s, p)].keys[s[p][i]]
                                      ELSE s[p][i] = i
  <2> DEFINE j == step(p, i)
  <2>1. /\ j \in 1 .. d[p].size /\ StepHash(e[match(p)], j - 1) = StepHash(d[p], i - 1)
        /\ s[p][i] = j /\ Moved(s, p) = match(p) /\ e[match(p)].type = d[p].type
    BY <1>0, <1>3, <1>4, <1>7, <1>8
  <2> HIDE DEF j
  <2>2. i \in Int /\ j \in Int /\ (i - 1) + 1 = i /\ (j - 1) + 1 = j
    <3>1. d[p].size \in Nat
      BY <1>0, DocumentFacts
    <3> QED BY <2>1, <3>1
  <2>3. CASE d[p].type = "object"
    BY <2>1, <2>2, <2>3 DEF StepHash
  <2>4. CASE d[p].type # "object"
    <3>1. ArrayIndexPrefix(j - 1) = ArrayIndexPrefix(i - 1)
      BY <2>1, <2>4 DEF StepHash
    <3>2. j - 1 = i - 1
      BY <3>1 DEF ArrayIndexPrefix
    <3> QED BY <2>1, <2>2, <2>4, <3>2
  <2> QED BY <2>3, <2>4
<1> QED BY <1>6, <1>9, <1>10, <1>11, Zenon DEF SameDocument

\* The hash of every value of d is the hash of a value of e.
Covers(d, e) == \A p \in Leaves(d) : \E q \in Leaves(e) : HashOf(e, q) = HashOf(d, p)

LEMMA LeafFacts ==
  ASSUME NEW doc, PlainDocument(doc)
  PROVE  /\ \A p \in DOMAIN doc : doc[p].size = 0 <=> p \in Leaves(doc)
         /\ \A p \in Leaves(doc) :
              /\ p \in DOMAIN doc /\ doc[p].type \in Basic
              /\ IsPlain(doc[p]) /\ Unmistakable(doc[p])
              /\ HashOf(doc, p) = mixHash(BytesOf(doc[p]), PathTo(doc, p))
<1>1. ASSUME NEW p \in DOMAIN doc PROVE doc[p].size = 0 <=> p \in Leaves(doc)
  BY <1>1 DEF PlainDocument, IsPlain, Leaves
<1>2. ASSUME NEW p \in Leaves(doc)
      PROVE  /\ p \in DOMAIN doc /\ doc[p].type \in Basic
             /\ IsPlain(doc[p]) /\ Unmistakable(doc[p])
  <2>1. p \in DOMAIN doc /\ doc[p].size = 0 /\ doc[p].type # "malformed"
    BY DEF Leaves
  <2>2. Unmistakable(doc[p]) /\ IsPlain(doc[p])
    BY <2>1 DEF PlainDocument
  <2>3. doc[p].type \notin Containers
    BY <2>1, <2>2 DEF Unmistakable
  <2>4. doc[p].type \in Basic \cup Containers \cup {"malformed"}
    BY <2>1, DocumentFacts DEF PlainDocument
  <2> QED BY <2>1, <2>2, <2>3, <2>4
<1> QED BY <1>1, <1>2 DEF HashOf

\* Where every value is covered, every path is.
LEMMA CoveredIsReached ==
  ASSUME NEW d, PlainDocument(d), NEW e, PlainDocument(e), Covers(d, e)
  PROVE  Reaches(d, e)
<1> SUFFICES ASSUME NEW p \in DOMAIN d
             PROVE  \E q \in DOMAIN e : PathTo(e, q) = PathTo(d, p)
  BY DEF Reaches
<1>0. IsDocument(d) /\ IsDocument(e) /\ p \in Position /\ Len(p) \in Nat
  BY DocumentFacts, PositionFacts DEF PlainDocument
<1>1. PICK l \in Leaves(d) : IsPrefix(p, l)
  BY LeafBelow
<1>2. PICK k \in Leaves(e) : HashOf(e, k) = HashOf(d, l)
  BY DEF Covers
<1>3. l \in DOMAIN d /\ k \in DOMAIN e /\ PathTo(e, k) = PathTo(d, l)
  <2>1. l \in DOMAIN d /\ HashOf(d, l) = mixHash(BytesOf(d[l]), PathTo(d, l))
    BY LeafFacts
  <2>2. k \in DOMAIN e /\ HashOf(e, k) = mixHash(BytesOf(e[k]), PathTo(e, k))
    BY LeafFacts
  <2> QED BY <1>2, <2>1, <2>2 DEF mixHash
<1>4. /\ l \in Position /\ Len(l) \in Nat
      /\ \A n \in 0 .. Len(l) : /\ SubSeq(k, 1, n) \in DOMAIN e
                                /\ PathTo(e, SubSeq(k, 1, n)) = PathTo(d, SubSeq(l, 1, n))
  BY <1>0, <1>3, SamePath
<1>5. Len(p) \in 0 .. Len(l) /\ SubSeq(l, 1, Len(p)) = p
  <2> DEFINE h == SubSeq(l, 1, Len(p))
  <2>1. Len(p) \in 0 .. Len(l) /\ \A j \in 1 .. Len(p) : l[j] = p[j]
    BY <1>0, <1>1, <1>4 DEF IsPrefix
  <2>2. h \in Position /\ Len(h) = Len(p) /\ \A j \in 1 .. Len(p) : h[j] = l[j]
    BY <1>4, <2>1, PartOfPosition
  <2> HIDE DEF h
  <2>3. h = p
    BY <1>0, <2>1, <2>2, SamePosition
  <2> QED BY <2>1, <2>3 DEF h
<1> QED BY <1>4, <1>5

\* Plain documents whose values are hashed the same say the same.
LEMMA CoveredSaySame ==
  ASSUME NEW d, PlainDocument(d), NEW e, PlainDocument(e), Covers(d, e), Covers(e, d)
  PROVE  SameDocument(d, e)
<1>1. Reaches(d, e) /\ Reaches(e, d)
  BY CoveredIsReached
<1>2. ASSUME NEW p \in DOMAIN d, NEW q \in DOMAIN e, PathTo(e, q) = PathTo(d, p)
      PROVE  SameNode(d[p], e[q])
  <2>1. /\ d[p].size \in Nat /\ e[q].size \in Nat
        /\ d[p].type \notin Containers => d[p].size = 0
    <3>1. d[p].size \in Nat /\ (d[p].type \notin Containers => d[p].size = 0)
      BY DocumentFacts DEF PlainDocument
    <3>2. e[q].size \in Nat
      BY DocumentFacts DEF PlainDocument
    <3> QED BY <3>1, <3>2
  <2>2. CASE p \in Inner(d)
    <3>1. d[p].type = e[q].type /\ d[p].size = e[q].size
      BY <1>1, <1>2, <2>2, SameContainer
    <3>2. d[p].type \in Containers
      BY <2>1, <2>2 DEF Inner
    <3> QED BY <3>1, <3>2 DEF SameNode, Containers
  <2>3. CASE p \notin Inner(d)
    <3>1. d[p].size = 0
      BY <2>1, <2>3 DEF Inner
    <3>2. e[q].size = 0
      <4>1. q \notin Inner(e)
        BY <1>1, <1>2, <2>3, SameContainer
      <4> QED BY <2>1, <4>1 DEF Inner
    <3>3. p \in Leaves(d) /\ q \in Leaves(e)
      <4>1. p \in Leaves(d)
        BY <3>1, LeafFacts
      <4>2. q \in Leaves(e)
        BY <3>2, LeafFacts
      <4> QED BY <4>1, <4>2
    <3>4. /\ d[p].type \in Basic /\ IsPlain(d[p]) /\ Unmistakable(d[p])
          /\ HashOf(d, p) = mixHash(BytesOf(d[p]), PathTo(d, p))
      BY <3>3, LeafFacts
    <3>5. PICK k \in Leaves(e) : HashOf(e, k) = HashOf(d, p)
      BY <3>3 DEF Covers
    <3>6. \A x \in Leaves(e) :
            /\ x \in DOMAIN e /\ e[x].type \in Basic /\ IsPlain(e[x]) /\ Unmistakable(e[x])
            /\ HashOf(e, x) = mixHash(BytesOf(e[x]), PathTo(e, x))
      BY LeafFacts
    <3>7. k \in DOMAIN e /\ PathTo(e, k) = PathTo(d, p) /\ BytesOf(e[k]) = BytesOf(d[p])
      BY <3>4, <3>5, <3>6 DEF mixHash
    <3>8. k = q
      BY <1>2, <3>7, PathApart
    <3> QED BY <3>1, <3>2, <3>3, <3>4, <3>6, <3>7, <3>8, BytesTell
  <2> QED BY <2>2, <2>3
<1> QED BY <1>1, <1>2, AlikeSaySame

\* Files of one plain document with the same hashes say the same.
THEOREM SameHashesSameContent ==
  ASSUME NEW f \in PlainDocuments, NEW g \in PlainDocuments, Hashes(f) = Hashes(g)
  PROVE  SameContent(f, g)
<1>1. ASSUME NEW x \in PlainDocuments
      PROVE  /\ x \in PlainNumberFiles /\ Len(x) = 1 /\ DOMAIN x = 1 .. 1 /\ PlainDocument(x[1])
             /\ \A h : h \in DOMAIN Hashes(x) <=> \E p \in Leaves(x[1]) : h = HashOf(x[1], p)
  <2>1. x \in PlainNumberFiles /\ Len(x) = 1 /\ Plain(x)
    BY DEF PlainDocuments
  <2>2. /\ DOMAIN x = 1 .. 1 /\ 1 \in DOMAIN x
        /\ IsDocument(x[1]) /\ \A p \in DOMAIN x[1] : IsPlain(x[1][p])
    BY <2>1, PlainFacts
  <2>3. \A p \in DOMAIN x[1] : Unmistakable(x[1][p])
    BY <2>1, <2>2 DEF Plain, Nodes
  <2> DEFINE hx == [v \in Hashed(x) |-> HashOf(x[v[1]], v[2])]
  <2>4. /\ Hashes(x) = Count(Hashed(x), hx)
        /\ \A v : v \in Hashed(x) <=> \E d \in DOMAIN x : \E p \in Leaves(x[d]) : v = <<d, p>>
    BY <2>1, HashesFacts
  <2>5. \A v : v \in Hashed(x) <=> \E p \in Leaves(x[1]) : v = <<1, p>>
    BY <2>2, <2>4
  <2>6. DOMAIN Hashes(x) = {hx[v] : v \in Hashed(x)}
    BY <2>4 DEF Count
  <2>7. ASSUME NEW h PROVE h \in DOMAIN Hashes(x) <=> \E p \in Leaves(x[1]) : h = HashOf(x[1], p)
    <3>1. ASSUME h \in DOMAIN Hashes(x) PROVE \E p \in Leaves(x[1]) : h = HashOf(x[1], p)
      BY <3>1, <2>5, <2>6
    <3>2. ASSUME NEW p \in Leaves(x[1]), h = HashOf(x[1], p) PROVE h \in DOMAIN Hashes(x)
      <4>1. <<1, p>> \in Hashed(x) /\ hx[<<1, p>>] = h
        BY <3>2, <2>5
      <4> HIDE DEF hx
      <4> QED BY <2>6, <4>1
    <3> QED BY <3>1, <3>2
  <2> QED BY <2>1, <2>2, <2>3, <2>7 DEF PlainDocument
<1> DEFINE d == f[1]  e == g[1]
<1>2. /\ PlainDocument(d) /\ \A h : h \in DOMAIN Hashes(f) <=> \E p \in Leaves(d) : h = HashOf(d, p)
      /\ PlainDocument(e) /\ \A h : h \in DOMAIN Hashes(g) <=> \E q \in Leaves(e) : h = HashOf(e, q)
  BY <1>1
<1> HIDE DEF d, e
<1>3. Covers(d, e) /\ Covers(e, d)
  <2>1. ASSUME NEW p \in Leaves(d) PROVE \E q \in Leaves(e) : HashOf(e, q) = HashOf(d, p)
    BY <1>2
  <2>2. ASSUME NEW q \in Leaves(e) PROVE \E p \in Leaves(d) : HashOf(d, p) = HashOf(e, q)
    BY <1>2
  <2> QED BY <2>1, <2>2 DEF Covers
<1>4. SameDocument(d, e)
  BY <1>2, <1>3, CoveredSaySame
<1>5. [i \in 1 .. 1 |-> 1] \in Orders(1)
  BY DEF Orders
<1>6. Len(f) = 1 /\ Len(g) = 1
  BY <1>1
<1>7. \A i \in 1 .. 1 : i = 1
  OBVIOUS
<1> QED BY <1>4, <1>5, <1>6, <1>7 DEF SameContent, d, e

\* A fingerprint tells documents apart: plain documents that do not say the same
\* are not hashed the same.
THEOREM DocumentsAreToldApart == Spec => []DocumentsToldApart
<1>1. IInv => DocumentsToldApart
  <2> SUFFICES ASSUME IInv, outcome = "returned", file \in PlainDocuments,
                      NEW g \in PlainDocuments, Accumulated = HashesOfFile[g]
               PROVE  SameContent(file, g)
    BY DEF DocumentsToldApart
  <2>1. file \in PlainNumberFiles /\ g \in PlainNumberFiles
    BY DEF PlainDocuments
  <2>2. Accumulated = Hashes(file) /\ HashesOfFile[g] = Hashes(g)
    BY <2>1, AccumulatedHashes DEF HashesOfFile
  <2> QED BY <2>2, SameHashesSameContent
<1> QED BY <1>1, Invariant, PTL
=============================================================================
