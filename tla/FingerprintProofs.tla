-------------------------- MODULE FingerprintProofs --------------------------
(***************************************************************************)
(* Proofs about ModularSum and Fingerprint, for words of every size, every *)
(* number of workers and every list of files.                              *)
(***************************************************************************)
EXTENDS Fingerprint, WellFoundedInduction, TLAPS

-----------------------------------------------------------------------------
(* Remainders                                                              *)

\* A number is a multiple of p and a remainder below p, in one way only.
LEMMA DivisionExists ==
  ASSUME NEW p \in Nat \ {0}, NEW n \in Nat
  PROVE  /\ n \div p \in Nat /\ n % p \in Nat /\ n % p < p
         /\ n = (n \div p) * p + (n % p)
BY SMTT(30)

LEMMA DivisionUnique ==
  ASSUME NEW p \in Nat \ {0}, NEW q \in Nat, NEW r \in Nat, r < p
  PROVE  (q * p + r) % p = r
BY SMTT(30)

\* The remainder of a sum is that of the sum of the remainders.
LEMMA RemainderOfSum ==
  ASSUME NEW p \in Nat \ {0}, NEW m \in Nat, NEW n \in Nat
  PROVE  (m + n) % p = ((m % p) + (n % p)) % p
<1> DEFINE a == m \div p  b == n \div p  r == m % p  s == n % p
           c == (r + s) \div p  t == (r + s) % p
<1>1. a \in Nat /\ b \in Nat /\ r \in Nat /\ s \in Nat /\ m = a * p + r /\ n = b * p + s
  BY DivisionExists
<1> HIDE DEF a, b, r, s
<1>2. c \in Nat /\ t \in Nat /\ t < p /\ r + s = c * p + t
  <2>1. r + s \in Nat
    BY <1>1
  <2> QED BY <2>1, DivisionExists
<1> HIDE DEF c, t
<1>3. m + n = (a + b + c) * p + t
  BY <1>1, <1>2, SMT
<1>4. ((a + b + c) * p + t) % p = t
  <2>1. a + b + c \in Nat
    BY <1>1, <1>2
  <2> QED BY <2>1, <1>2, DivisionUnique
<1> QED BY <1>3, <1>4 DEF t, r, s

-----------------------------------------------------------------------------
(* reduce_mod_p and add_mod                                                *)

\* Subtracting PRIME once is enough below twice PRIME.
LEMMA SubtractOnce ==
  ASSUME NEW r \in Nat, r < 2 * PRIME
  PROVE  SubtractPrime(r) = r % PRIME /\ SubtractPrime(r) \in 0 .. PRIME - 1
<1>1. PRIME \in Nat \ {0}
  BY HalfWordAssumption DEF PRIME
<1>2. CASE r < PRIME
  <2>1. r = 0 * PRIME + r
    BY <1>1
  <2> QED BY <1>1, <1>2, <2>1, DivisionUnique DEF SubtractPrime
<1>3. CASE r >= PRIME
  <2>1. r - PRIME \in Nat /\ r - PRIME < PRIME /\ r = 1 * PRIME + (r - PRIME)
    BY <1>1, <1>3
  <2> QED BY <1>1, <1>3, <2>1, DivisionUnique DEF SubtractPrime
<1> QED BY <1>1, <1>2, <1>3

\* reduce_mod_p returns the remainder modulo PRIME of every word, without
\* overflow.
THEOREM ReduceModP ==
  ASSUME NEW x \in Word
  PROVE  reduce_mod_p(x) = x % PRIME /\ reduce_mod_p(x) \in 0 .. PRIME - 1
<1> DEFINE q == x \div HalfWord  r == x % HalfWord
<1>1. x \in Nat /\ HalfWord \in Nat \ {0} /\ HalfWord > 2
  BY HalfWordAssumption DEF Word
<1>2. q \in Nat /\ r \in Nat /\ r < HalfWord /\ x = q * HalfWord + r
  BY <1>1, DivisionExists
<1> HIDE DEF q, r
<1>3. q = 0 \/ q = 1
  BY <1>1, <1>2, SMT DEF Word
<1>4. q + r \in Nat /\ q + r < 2 * HalfWord /\ q + r < 2 * PRIME
  BY <1>1, <1>2, <1>3 DEF PRIME
<1>5. Wrap(q + r) = q + r
  <2>1. q + r = 0 * (2 * HalfWord) + (q + r) /\ 2 * HalfWord \in Nat \ {0}
    BY <1>1, <1>4
  <2> QED BY <2>1, <1>4, DivisionUnique DEF Wrap
<1>6. x = q * PRIME + (q + r)
  BY <1>1, <1>2, <1>3 DEF PRIME
<1>7. x % PRIME = (q + r) % PRIME
  <2>1. PRIME \in Nat \ {0}
    BY <1>1 DEF PRIME
  <2>2. (q + r) % PRIME \in Nat /\ (q + r) % PRIME < PRIME /\ (q + r) \div PRIME \in Nat
        /\ q + r = ((q + r) \div PRIME) * PRIME + ((q + r) % PRIME)
    BY <2>1, <1>4, DivisionExists
  <2> DEFINE d == (q + r) \div PRIME  s == (q + r) % PRIME
  <2>3. d \in Nat /\ s \in Nat /\ s < PRIME /\ q + r = d * PRIME + s
    BY <2>2
  <2> HIDE DEF d, s
  <2>4. x = (q + d) * PRIME + s
    BY <2>1, <2>3, <1>6, <1>2, SMT
  <2>5. q + d \in Nat
    BY <1>2, <2>3
  <2>6. x % PRIME = s
    BY <2>1, <2>3, <2>4, <2>5, DivisionUnique
  <2> QED BY <2>6 DEF s
<1>8. reduce_mod_p(x) = SubtractPrime(q + r)
  BY <1>5 DEF reduce_mod_p, q, r
<1> QED BY <1>4, <1>7, <1>8, SubtractOnce

\* add_mod returns the sum of any two words modulo PRIME, without overflow.
THEOREM AddMod ==
  ASSUME NEW a \in Word, NEW b \in Word
  PROVE  add_mod(a, b) = (a + b) % PRIME /\ add_mod(a, b) \in 0 .. PRIME - 1
<1> DEFINE r == reduce_mod_p(a)  s == reduce_mod_p(b)
<1>1. a \in Nat /\ b \in Nat /\ PRIME \in Nat \ {0} /\ HalfWord \in Nat
  BY HalfWordAssumption DEF Word, PRIME
<1>2. r = a % PRIME /\ s = b % PRIME /\ r \in 0 .. PRIME - 1 /\ s \in 0 .. PRIME - 1
  BY ReduceModP
<1>3. (a + b) % PRIME = (r + s) % PRIME
  <2>1. (a + b) % PRIME = ((a % PRIME) + (b % PRIME)) % PRIME
    BY <1>1, RemainderOfSum
  <2> HIDE DEF r, s
  <2> QED BY <2>1, <1>2, Zenon
<1>a. add_mod(a, b) = SubtractPrime(Wrap(r + s))
  BY DEF add_mod
<1> HIDE DEF r, s
<1>4. r + s \in Nat /\ r + s < 2 * PRIME /\ r + s < 2 * HalfWord
  BY <1>1, <1>2 DEF PRIME
<1>5. Wrap(r + s) = r + s
  <2>1. r + s = 0 * (2 * HalfWord) + (r + s) /\ 2 * HalfWord \in Nat \ {0}
    BY <1>1, <1>4 DEF PRIME
  <2> QED BY <2>1, <1>4, DivisionUnique DEF Wrap
<1> QED BY <1>a, <1>3, <1>4, <1>5, SubtractOnce

\* Remainders may be taken early.
LEMMA RemainderOfRemainders ==
  ASSUME NEW m \in Nat, NEW n \in Nat
  PROVE  /\ ((m % PRIME) + (n % PRIME)) % PRIME = (m + n) % PRIME
         /\ ((m % PRIME) + n) % PRIME = (m + n) % PRIME
         /\ (0 + (m % PRIME)) % PRIME = m % PRIME
<1>1. PRIME \in Nat \ {0}
  BY HalfWordAssumption DEF PRIME
<1> DEFINE r == m % PRIME  s == n % PRIME
<1>2. r \in Nat /\ r < PRIME
  BY <1>1, DivisionExists
<1>3. (m + n) % PRIME = (r + s) % PRIME
  BY <1>1, RemainderOfSum
<1>4. r % PRIME = r
  <2> HIDE DEF r
  <2>1. r = 0 * PRIME + r
    BY <1>1, <1>2
  <2>2. (0 * PRIME + r) % PRIME = r
    BY <1>1, <1>2, DivisionUnique
  <2> QED BY <2>1, <2>2
<1>5. (r + n) % PRIME = (r + s) % PRIME
  <2> HIDE DEF r
  <2>1. (r + n) % PRIME = ((r % PRIME) + (n % PRIME)) % PRIME
    BY <1>1, <1>2, RemainderOfSum
  <2> HIDE DEF s
  <2>2. n % PRIME = s
    BY DEF s
  <2> QED BY <2>1, <2>2, <1>4, Zenon
<1>6. (0 + r) % PRIME = r
  <2> HIDE DEF r
  <2>1. 0 + r = r
    BY <1>2
  <2> QED BY <2>1, <1>4
<1> QED BY <1>3, <1>5, <1>6

\* What the steps below use of the constants and of add_mod.
LEMMA WordFacts ==
  /\ 0 \in Word
  /\ 0 .. PRIME - 1 \subseteq Word
  /\ Word \subseteq Nat
  /\ 0 % PRIME = 0
<1>1. 0 \in Word /\ 0 .. PRIME - 1 \subseteq Word /\ Word \subseteq Nat
  BY HalfWordAssumption DEF Word, PRIME
<1>2. PRIME \in Nat \ {0}
  BY HalfWordAssumption DEF PRIME
<1>3. (0 * PRIME + 0) % PRIME = 0
  BY <1>2, DivisionUnique
<1>4. 0 * PRIME + 0 = 0
  BY <1>2
<1> QED BY <1>1, <1>3, <1>4

LEMMA AddModWord ==
  ASSUME NEW a \in Word, NEW b \in Word
  PROVE  add_mod(a, b) \in Word
BY AddMod, WordFacts

-----------------------------------------------------------------------------
(* Sums                                                                    *)

\* A set of numbers with an element has a least one.
LEMMA LeastNumber ==
  ASSUME NEW S \in SUBSET Nat, S # {}
  PROVE  \E m \in S : \A n \in S : m <= n
<1>1. PICK m \in S : \A n \in S : ~(<<n, m>> \in OpToRel(<, Nat))
  BY NatLessThanWellFounded, WFMin
<1>2. ASSUME NEW n \in S PROVE m <= n
  <2>1. m \in Nat /\ n \in Nat
    OBVIOUS
  <2>2. CASE n < m
    <3>1. <<n, m>> \in OpToRel(<, Nat)
      BY <2>1, <2>2, SMT DEF OpToRel
    <3> QED BY <1>1, <3>1
  <2> QED BY <2>1, <2>2
<1> QED BY <1>2

\* The sums of the first elements exist: the shortest prefix without them would
\* get them from the prefix before it.
LEMMA SumsExist ==
  ASSUME NEW s \in Seq(Nat), NEW n \in 0 .. Len(s)
  PROVE  \E f : f = [i \in 0 .. n |-> IF i = 0 THEN 0 ELSE f[i - 1] + s[i]]
<1> DEFINE Has(k) == \E f : f = [i \in 0 .. k |-> IF i = 0 THEN 0 ELSE f[i - 1] + s[i]]
           Without == {k \in 0 .. Len(s) : ~Has(k)}
<1>1. SUFFICES ASSUME Without # {} PROVE FALSE
  OBVIOUS
<1>2. Len(s) \in Nat /\ Without \in SUBSET Nat
  OBVIOUS
<1>3. PICK k \in Without : \A j \in Without : k <= j
  <2> HIDE DEF Without
  <2> QED BY <1>1, <1>2, LeastNumber
<1>4. k \in 0 .. Len(s) /\ ~Has(k)
  OBVIOUS
<1>5. Has(0)
  <2>1. [i \in 0 .. 0 |-> 0] = [i \in 0 .. 0 |->
           IF i = 0 THEN 0 ELSE [j \in 0 .. 0 |-> 0][i - 1] + s[i]]
    OBVIOUS
  <2> QED BY <2>1
<1>6. k - 1 \in 0 .. Len(s) /\ Has(k - 1)
  <2>1. k # 0
    BY <1>4, <1>5
  <2>2. k - 1 \in 0 .. Len(s) /\ ~(k <= k - 1)
    BY <1>2, <1>4, <2>1
  <2> QED BY <1>3, <2>2
<1>7. PICK f : f = [i \in 0 .. (k - 1) |-> IF i = 0 THEN 0 ELSE f[i - 1] + s[i]]
  BY <1>6
<1> DEFINE g == [i \in 0 .. k |-> IF i = k THEN f[k - 1] + s[k] ELSE f[i]]
<1>8. ASSUME NEW i \in 0 .. k
      PROVE  g[i] = IF i = 0 THEN 0 ELSE g[i - 1] + s[i]
  <2>1. k \in Nat /\ k # 0
    BY <1>2, <1>4, <1>6
  <2>2. CASE i = k
    <3>1. g[i] = f[k - 1] + s[k] /\ g[k - 1] = f[k - 1]
      BY <2>1, <2>2
    <3> QED BY <2>1, <2>2, <3>1
  <2>3. CASE i # k
    <3>1. i \in 0 .. (k - 1) /\ g[i] = f[i]
      BY <2>1, <2>3
    <3>2. i # 0 => g[i - 1] = f[i - 1]
      BY <2>1, <2>3
    <3>3. f[i] = IF i = 0 THEN 0 ELSE f[i - 1] + s[i]
      BY <1>7, <3>1
    <3> QED BY <3>1, <3>2, <3>3
  <2> QED BY <2>2, <2>3
<1>9. g = [i \in 0 .. k |-> IF i = 0 THEN 0 ELSE g[i - 1] + s[i]]
  <2>1. g = [i \in 0 .. k |-> g[i]]
    OBVIOUS
  <2> HIDE DEF g
  <2> QED BY <1>8, <2>1
<1> HIDE DEF g
<1> QED BY <1>4, <1>9

LEMMA PartialSumsFacts ==
  ASSUME NEW s \in Seq(Nat)
  PROVE  /\ PartialSums(s) \in [0 .. Len(s) -> Nat]
         /\ PartialSums(s)[0] = 0
         /\ \A i \in 1 .. Len(s) : PartialSums(s)[i] = PartialSums(s)[i - 1] + s[i]
<1> DEFINE f == PartialSums(s)
           Wrong == {k \in 0 .. Len(s) : f[k] \notin Nat}
<1>1. Len(s) \in Nat
  OBVIOUS
<1>2. f = [i \in 0 .. Len(s) |-> IF i = 0 THEN 0 ELSE f[i - 1] + s[i]]
  <2>1. Len(s) \in 0 .. Len(s)
    BY <1>1
  <2>2. \E g : g = [i \in 0 .. Len(s) |-> IF i = 0 THEN 0 ELSE g[i - 1] + s[i]]
    BY <2>1, SumsExist
  <2> QED BY <2>2 DEF PartialSums
<1> HIDE DEF f
<1>3. f[0] = 0 /\ \A i \in 1 .. Len(s) : f[i] = f[i - 1] + s[i]
  BY <1>1, <1>2
<1>4. Wrong = {}
  <2>1. SUFFICES ASSUME Wrong # {} PROVE FALSE
    OBVIOUS
  <2>2. Wrong \in SUBSET Nat
    BY <1>1
  <2>3. PICK k \in Wrong : \A j \in Wrong : k <= j
    <3> HIDE DEF Wrong
    <3> QED BY <2>1, <2>2, LeastNumber
  <2>4. k \in 1 .. Len(s)
    BY <1>1, <1>3
  <2>5. k - 1 \in 0 .. Len(s) /\ ~(k <= k - 1)
    BY <1>1, <2>4
  <2>6. f[k - 1] \in Nat
    BY <2>3, <2>5
  <2>7. s[k] \in Nat /\ f[k] = f[k - 1] + s[k]
    BY <1>3, <2>4
  <2> QED BY <2>3, <2>6, <2>7
<1>5. f \in [0 .. Len(s) -> Nat]
  BY <1>2, <1>4
<1> QED BY <1>3, <1>5 DEF f

\* The sum of numbers that are all 0.
LEMMA SumOfZeros ==
  ASSUME NEW s \in Seq(Nat), \A i \in 1 .. Len(s) : s[i] = 0
  PROVE  Sum(s) = 0
<1> DEFINE f == PartialSums(s)
           Wrong == {k \in 0 .. Len(s) : f[k] # 0}
<1>1. /\ Len(s) \in Nat
      /\ f \in [0 .. Len(s) -> Nat] /\ f[0] = 0
      /\ \A i \in 1 .. Len(s) : f[i] = f[i - 1] + s[i]
  BY PartialSumsFacts
<1> HIDE DEF f
<1>2. Wrong = {}
  <2>1. SUFFICES ASSUME Wrong # {} PROVE FALSE
    OBVIOUS
  <2>2. Wrong \in SUBSET Nat
    BY <1>1
  <2>3. PICK k \in Wrong : \A j \in Wrong : k <= j
    <3> HIDE DEF Wrong
    <3> QED BY <2>1, <2>2, LeastNumber
  <2>4. k \in 1 .. Len(s)
    BY <1>1
  <2>5. k - 1 \in 0 .. Len(s) /\ ~(k <= k - 1)
    BY <1>1, <2>4
  <2>6. f[k - 1] = 0
    BY <2>3, <2>5
  <2> QED BY <1>1, <2>3, <2>4, <2>6
<1>3. f[Len(s)] = 0
  BY <1>1, <1>2
<1> QED BY <1>3 DEF Sum, f

\* What is added to one number is added to the sum, wherever the number stands.
LEMMA SumOfOneMore ==
  ASSUME NEW s \in Seq(Nat), NEW t \in Seq(Nat), Len(t) = Len(s),
         NEW i \in 1 .. Len(s), NEW h \in Nat, t[i] = s[i] + h,
         \A j \in 1 .. Len(s) : j # i => t[j] = s[j]
  PROVE  Sum(t) = Sum(s) + h
<1> DEFINE f == PartialSums(s)
<1>1. /\ Len(s) \in Nat
      /\ f \in [0 .. Len(s) -> Nat] /\ f[0] = 0
      /\ \A j \in 1 .. Len(s) : f[j] = f[j - 1] + s[j]
  <2>1. Len(s) \in Nat
    OBVIOUS
  <2> QED BY <2>1, PartialSumsFacts, Zenon
<1> HIDE DEF f
<1> DEFINE g == PartialSums(t)
           Wrong == {k \in 0 .. Len(s) : g[k] # IF k < i THEN f[k] ELSE f[k] + h}
<1>2. /\ g \in [0 .. Len(s) -> Nat] /\ g[0] = 0
      /\ \A j \in 1 .. Len(s) : g[j] = g[j - 1] + t[j]
  BY PartialSumsFacts
<1> HIDE DEF g
<1>3. Wrong = {}
  <2>1. SUFFICES ASSUME Wrong # {} PROVE FALSE
    OBVIOUS
  <2>2. Wrong \in SUBSET Nat
    BY <1>1
  <2>3. PICK k \in Wrong : \A j \in Wrong : k <= j
    <3> HIDE DEF Wrong
    <3> QED BY <2>1, <2>2, LeastNumber
  <2>4. k \in 1 .. Len(s)
    BY <1>1, <1>2
  <2>5. k - 1 \in 0 .. Len(s) /\ ~(k <= k - 1)
    BY <1>1, <2>4
  <2>6. g[k - 1] = IF k - 1 < i THEN f[k - 1] ELSE f[k - 1] + h
    BY <2>3, <2>5
  <2>7. s[k] \in Nat /\ t[k] \in Nat /\ f[k - 1] \in Nat /\ k \in Nat /\ i \in Nat
    <3>1. f[k - 1] \in Nat
      BY <1>1, <2>5
    <3>2. s[k] \in Nat /\ k \in Nat
      BY <1>1, <2>4
    <3>3. t[k] \in Nat
      <4>1. \A j \in 1 .. Len(t) : t[j] \in Nat
        OBVIOUS
      <4> QED BY <2>4, <4>1
    <3> QED BY <3>1, <3>2, <3>3
  <2>8. f[k] = f[k - 1] + s[k] /\ g[k] = g[k - 1] + t[k]
    BY <1>1, <1>2, <2>4
  <2>9. g[k] # IF k < i THEN f[k] ELSE f[k] + h
    BY <2>3
  <2>10. CASE k < i
    <3>1. t[k] = s[k]
      BY <2>4, <2>7, <2>10
    <3> QED BY <2>6, <2>7, <2>8, <2>9, <2>10, <3>1
  <2>11. CASE k = i
    BY <2>6, <2>7, <2>8, <2>9, <2>11
  <2>12. CASE k > i
    <3>1. t[k] = s[k]
      BY <2>4, <2>7, <2>12
    <3> QED BY <2>6, <2>7, <2>8, <2>9, <2>12, <3>1
  <2> QED BY <2>7, <2>10, <2>11, <2>12
<1>4. g[Len(s)] = f[Len(s)] + h
  <2>1. Len(s) \in 0 .. Len(s) /\ ~(Len(s) < i)
    BY <1>1
  <2> QED BY <1>3, <2>1
<1> QED BY <1>4 DEF Sum, f, g

-----------------------------------------------------------------------------
(* The inductive invariant                                                 *)

LEMMA InitInvariant == Init => IInv
<1> SUFFICES ASSUME Init PROVE IInv
  OBVIOUS
<1> USE FingerprintAssumption, WordFacts DEF Init, Workers, Empty
<1>1. TypeOK
  <2>1. input_files \in Inputs /\ Len(input_files) \in Nat
    OBVIOUS
  <2> QED BY <2>1 DEF TypeOK
<1>2. AtFile
  BY DEF AtFile
<1>3. Shares
  BY DEF Shares
<1>4. Results /\ PrintsTheSum
  BY DEF Results, PrintsTheSum
<1>5. OutputInOrder /\ SumOfAccumulated /\ FingerprintOfEachFile
  BY DEF OutputInOrder, SumOfAccumulated, FingerprintOfEachFile
<1> QED BY <1>1, <1>2, <1>3, <1>4, <1>5 DEF IInv

\* The file the loop is at, and its hashes.
LEMMA CurrentFile ==
  ASSUME TypeOK, AtFile, pc \notin {"file", "end"}
  PROVE  /\ Current \in File
         /\ \A i \in todo : i \in Nat /\ Current.hashes[i] \in Word
         /\ Current.hashes \in Seq(Word) /\ todo \subseteq DOMAIN Current.hashes
<1>1. input_files \in Seq(File)
  BY FingerprintAssumption DEF TypeOK
<1>2. current \in 1 .. Len(input_files) /\ todo \subseteq DOMAIN Current.hashes
  BY DEF AtFile
<1>3. Current \in File
  BY <1>1, <1>2 DEF Current
<1>4. Current.hashes \in Seq(Word)
  BY <1>3 DEF File
<1> QED BY <1>2, <1>3, <1>4 DEF TypeOK

\* A step that stays in a file and leaves the plain sum alone, and one that
\* prints nothing.
LEMMA SumUnchanged ==
  ASSUME SumOfAccumulated, UNCHANGED <<todo, total, current, input_files>>,
         pc' \notin {"file", "end"} => pc \notin {"file", "end"}
  PROVE  SumOfAccumulated'
BY DEF SumOfAccumulated, Accumulated, Current

LEMMA NothingPrinted ==
  ASSUME FingerprintOfEachFile, UNCHANGED <<stream_, input_files>>
  PROVE  FingerprintOfEachFile'
BY DEF FingerprintOfEachFile

\* The hashes accumulated are a sequence of numbers, one per hash of the file.
LEMMA AccumulatedType ==
  ASSUME TypeOK, AtFile, pc \notin {"file", "end"}
  PROVE  /\ Accumulated \in Seq(Nat) /\ Len(Accumulated) = Len(Current.hashes)
         /\ DOMAIN Current.hashes = 1 .. Len(Current.hashes)
<1>1. Current.hashes \in Seq(Word) /\ Len(Current.hashes) \in Nat
      /\ DOMAIN Current.hashes = 1 .. Len(Current.hashes)
  BY CurrentFile
<1>2. \A i \in 1 .. Len(Current.hashes) : Current.hashes[i] \in Nat
  <2>1. \A s \in Seq(Word) : \A i \in 1 .. Len(s) : s[i] \in Word
    OBVIOUS
  <2> QED BY <1>1, <2>1, WordFacts
<1>3. Accumulated \in [1 .. Len(Current.hashes) -> Nat]
  BY <1>1, <1>2 DEF Accumulated
<1> QED BY <1>1, <1>3

\* The actions keep the invariant, one lemma each.
LEMMA BeginFileKeeps == IInv /\ BeginFile => IInv'
<1> SUFFICES ASSUME IInv, BeginFile PROVE IInv'
  OBVIOUS
<1> USE FingerprintAssumption, WordFacts DEF BeginFile, ResetM, Workers, Empty
<1>1. input_files \in Seq(File) /\ input_files' = input_files /\ Len(input_files) \in Nat
  BY DEF IInv, TypeOK
<1>2. current' \in 1 .. Len(input_files) /\ current \in Nat /\ current' = current + 1
  BY <1>1 DEF IInv, TypeOK
<1>3. input_files[current'] \in File
  BY <1>1, <1>2
<1>4. input_files[current'].hashes \in Seq(Word)
  BY <1>3 DEF File
<1>5. TypeOK'
  <2>1. todo' \subseteq Nat
    BY <1>4
  <2>2. opened' \in 0 .. Descriptors
    BY DEF IInv, TypeOK
  <2>3. local' \in [Workers -> Word] /\ prefix' \in [0 .. num_workers_ -> Nat]
    OBVIOUS
  <2> QED BY <1>1, <1>2, <2>1, <2>2, <2>3 DEF IInv, TypeOK
<1>6. AtFile'
  BY <1>1, <1>2 DEF IInv, AtFile, Current
<1>7. Shares'
  BY DEF Shares
<1>8. Results' /\ PrintsTheSum'
  BY DEF Results, PrintsTheSum
<1>9. OutputInOrder'
  <2>1. Len(stream_) = current /\ stream_' = stream_ /\ outcome' = outcome
    BY DEF IInv, OutputInOrder
  <2>2. outcome = "none"
    BY DEF IInv, AtFile
  <2>3. \A i \in 1 .. Len(stream_) : input_files[i].kind # "malformed"
    BY DEF IInv, OutputInOrder
  <2> QED BY <1>1, <1>2, <2>1, <2>2, <2>3 DEF OutputInOrder
<1>10. SumOfAccumulated'
  <2>1. /\ Accumulated' \in Seq(Nat)
        /\ \A i \in 1 .. Len(Accumulated') : Accumulated'[i] = 0
    <3> DEFINE hashes == input_files[current'].hashes
    <3>1. DOMAIN hashes = 1 .. Len(hashes) /\ Len(hashes) \in Nat
      BY <1>4
    <3>2. Accumulated' = [i \in DOMAIN hashes |-> IF i \in DOMAIN hashes THEN 0 ELSE hashes[i]]
      BY <1>1 DEF Accumulated, Current
    <3> HIDE DEF hashes
    <3> QED BY <3>1, <3>2
  <2>2. Sum(Accumulated') = 0
    BY <2>1, SumOfZeros
  <2> QED BY <2>2 DEF SumOfAccumulated
<1>11. FingerprintOfEachFile'
  BY NothingPrinted DEF IInv
<1> QED BY <1>5, <1>6, <1>7, <1>8, <1>9, <1>10, <1>11 DEF IInv

LEMMA AccumulateKeeps ==
  ASSUME IInv, NEW w \in Workers, NEW i \in todo, Accumulate(w, i)
  PROVE  IInv'
<1> DEFINE h == Current.hashes[i]  W == 0 .. num_workers_
<1> USE DEF Workers
<1>0. num_workers_ \in Nat \ {0}
  BY FingerprintAssumption
<1>1. TypeOK /\ AtFile /\ Shares /\ Results /\ OutputInOrder /\ pc = "fold"
  BY DEF IInv, Accumulate
<1>2. h \in Word /\ h \in Nat
  BY <1>1, CurrentFile, WordFacts
<1>3. /\ todo' = todo \ {i}
      /\ local' = [local EXCEPT ![w] = add_mod(@, h)]
      /\ total' = total + h
      /\ prefix' = [v \in W |-> IF w <= v THEN prefix[v] + h ELSE prefix[v]]
      /\ UNCHANGED <<single, input_files, pc, current, reduced, result, M, stream_, opened, outcome>>
  BY DEF Accumulate
<1> HIDE DEF h
<1>4. local \in [Workers -> Word] /\ prefix \in [W -> Nat] /\ total \in Nat
  BY <1>1 DEF TypeOK
<1>5. TypeOK'
  <2>1. local' \in [Workers -> Word]
    <3>1. local[w] \in Word
      BY <1>4
    <3>2. add_mod(local[w], h) \in Word
      BY <3>1, <1>2, AddModWord
    <3> QED BY <3>2, <1>3, <1>4
  <2>2. prefix' \in [W -> Nat]
    <3>1. ASSUME NEW v \in W PROVE prefix[v] \in Nat /\ prefix[v] + h \in Nat
      BY <1>2, <1>4
    <3> QED BY <3>1, <1>3
  <2>3. total' \in Nat
    BY <1>2, <1>3, <1>4
  <2> QED BY <1>1, <1>3, <2>1, <2>2, <2>3 DEF TypeOK
<1>6. AtFile'
  BY <1>1, <1>3 DEF AtFile, Current
<1>7. Shares'
  <2>1. prefix'[0] = 0 /\ prefix'[num_workers_] = total'
    BY <1>0, <1>1, <1>3 DEF Shares
  <2>2. ASSUME NEW v \in Workers
        PROVE  /\ prefix'[v] - prefix'[v - 1] \in Nat
               /\ local'[v] = (prefix'[v] - prefix'[v - 1]) % PRIME
    <3> DEFINE d == prefix[v] - prefix[v - 1]
    <3>1. v \in W /\ v - 1 \in W
      BY <1>0
    <3>2. d \in Nat /\ local[v] = d % PRIME /\ local[v] \in Word
      BY <1>1, <1>4 DEF Shares
    <3>3. prefix[v] \in Nat /\ prefix[v - 1] \in Nat
      BY <3>1, <1>4
    <3>4. CASE v = w
      <4>1. prefix'[v] = prefix[v] + h /\ prefix'[v - 1] = prefix[v - 1]
        BY <3>1, <3>4, <1>0, <1>3
      <4>2. prefix'[v] - prefix'[v - 1] = d + h /\ d + h \in Nat
        BY <4>1, <3>2, <3>3, <1>2
      <4>3. local'[v] = add_mod(local[v], h)
        BY <3>4, <1>3, <1>4
      <4> HIDE DEF d
      <4>4. local'[v] = ((d % PRIME) + h) % PRIME
        <5>1. add_mod(local[v], h) = (local[v] + h) % PRIME
          BY <3>2, <1>2, AddMod
        <5> QED BY <4>3, <3>2, <5>1, Zenon
      <4>5. ((d % PRIME) + h) % PRIME = (d + h) % PRIME
        BY <3>2, <1>2, RemainderOfRemainders
      <4> QED BY <4>2, <4>4, <4>5
    <3>5. CASE v # w
      <4>1. local'[v] = local[v]
        BY <3>5, <1>3, <1>4
      <4>2. prefix'[v] - prefix'[v - 1] = d
        BY <3>1, <3>3, <3>5, <1>0, <1>2, <1>3
      <4> QED BY <4>1, <4>2, <3>2
    <3> QED BY <3>4, <3>5
  <2>3. single' => prefix'[1] = total'
    <3>1. single => w = 1
      BY DEF Accumulate
    <3>2. 1 \in W
      BY <1>0
    <3> QED BY <3>1, <3>2, <1>1, <1>3 DEF Shares
  <2> QED BY <2>1, <2>2, <2>3 DEF Shares
<1>8. Results' /\ PrintsTheSum'
  BY <1>1, <1>3 DEF Results, PrintsTheSum
<1>9. OutputInOrder' /\ FingerprintOfEachFile'
  BY <1>1, <1>3, NothingPrinted DEF IInv, OutputInOrder, Current
<1>10. SumOfAccumulated'
  <2> DEFINE n == Len(Current.hashes)
  <2>1. /\ Accumulated \in Seq(Nat) /\ Len(Accumulated) = n
        /\ DOMAIN Current.hashes = 1 .. n
    BY <1>1, AccumulatedType
  <2>2. Accumulated' \in Seq(Nat) /\ Len(Accumulated') = n
    <3>1. Accumulated' \in Seq(Nat) /\ Len(Accumulated') = Len(Current'.hashes)
      <4>1. (TypeOK /\ AtFile /\ pc \notin {"file", "end"} =>
              Accumulated \in Seq(Nat) /\ Len(Accumulated) = Len(Current.hashes))'
        BY AccumulatedType, PTL
      <4> QED BY <4>1, <1>1, <1>3, <1>5, <1>6
    <3> QED BY <3>1, <1>3 DEF Current
  <2>3. i \in 1 .. n /\ i \in todo
    BY <2>1, <1>1, CurrentFile
  <2>4. Accumulated'[i] = Accumulated[i] + h
    BY <2>1, <2>3, <1>2, <1>3 DEF Accumulated, Current, h
  <2>5. \A j \in 1 .. n : j # i => Accumulated'[j] = Accumulated[j]
    BY <2>1, <2>3, <1>3 DEF Accumulated, Current
  <2> DEFINE a == Accumulated  b == Accumulated'
  <2>6. /\ a \in Seq(Nat) /\ b \in Seq(Nat) /\ Len(b) = Len(a) /\ i \in 1 .. Len(a)
        /\ b[i] = a[i] + h /\ \A j \in 1 .. Len(a) : j # i => b[j] = a[j]
    BY <2>1, <2>2, <2>3, <2>4, <2>5
  <2>7. Sum(b) = Sum(a) + h
    <3> HIDE DEF a, b
    <3> QED BY <2>6, <1>2, SumOfOneMore
  <2> QED BY <2>7, <1>1, <1>3 DEF IInv, SumOfAccumulated
<1> QED BY <1>5, <1>6, <1>7, <1>8, <1>9, <1>10 DEF IInv

LEMMA FoldDoneKeeps == IInv /\ FoldDone => IInv'
<1> SUFFICES ASSUME IInv, FoldDone PROVE IInv'
  OBVIOUS
<1> USE FingerprintAssumption, WordFacts DEF FoldDone, Workers
<1>1. TypeOK'
  <2>1. 1 \in Workers
    OBVIOUS
  <2>2. local[1] \in Word
    BY <2>1 DEF IInv, TypeOK
  <2> QED BY <2>2 DEF IInv, TypeOK
<1>2. AtFile' /\ Shares' /\ OutputInOrder'
  BY DEF IInv, AtFile, Shares, OutputInOrder, Current
<1>3. Results'
  <2>1. M = 0 /\ reduced = 0 /\ prefix[0] = 0
    BY DEF IInv, Results, Shares
  <2>2. CASE single
    <3>1. local[1] = (prefix[1] - prefix[0]) % PRIME /\ prefix[1] = total /\ total \in Nat
      <4>1. 1 - 1 = 0
        OBVIOUS
      <4> QED BY <2>2, <4>1 DEF IInv, Shares, TypeOK
    <3>2. prefix[1] - prefix[0] = total
      BY <3>1, <2>1
    <3> QED BY <2>1, <2>2, <3>1, <3>2 DEF Results
  <2>3. CASE ~single
    BY <2>1, <2>3 DEF Results
  <2> QED BY <2>2, <2>3
<1>4. PrintsTheSum'
  BY DEF PrintsTheSum, IInv, TypeOK
<1>5. SumOfAccumulated' /\ FingerprintOfEachFile'
  BY SumUnchanged, NothingPrinted DEF IInv
<1> QED BY <1>1, <1>2, <1>3, <1>4, <1>5 DEF IInv

LEMMA ReduceKeeps == IInv /\ Reduce => IInv'
<1> SUFFICES ASSUME IInv, Reduce PROVE IInv'
  OBVIOUS
<1> DEFINE k == reduced + 1  d == prefix[k] - prefix[reduced]
<1> USE DEF Workers
<1>1. /\ pc = "reduce" /\ reduced' = k /\ result' = add_mod(result, local[k])
      /\ UNCHANGED <<single, input_files, pc, current, todo, local, M, stream_, opened, outcome,
                     total, prefix>>
  BY DEF Reduce
<1>2. k \in Workers /\ k - 1 = reduced /\ reduced \in Nat
  BY FingerprintAssumption DEF IInv, TypeOK, Reduce
<1>3. /\ local[k] \in Word /\ result \in Word /\ d \in Nat
      /\ local[k] = d % PRIME /\ result = prefix[reduced] % PRIME
  BY <1>1, <1>2 DEF IInv, TypeOK, Shares, Results
<1>4. prefix[reduced] \in Nat /\ prefix[k] \in Nat
  BY <1>2, FingerprintAssumption DEF IInv, TypeOK
<1>5. prefix[reduced] + d = prefix[k]
  BY <1>3, <1>4
<1> HIDE DEF d
<1>6. result' = ((prefix[reduced] % PRIME) + (d % PRIME)) % PRIME
  <2>1. add_mod(result, local[k]) = (result + local[k]) % PRIME
    BY <1>3, AddMod
  <2> QED BY <2>1, <1>1, <1>3, Zenon
<1>7. result' = prefix[k] % PRIME
  <2>1. ((prefix[reduced] % PRIME) + (d % PRIME)) % PRIME = (prefix[reduced] + d) % PRIME
    BY <1>3, <1>4, RemainderOfRemainders
  <2> QED BY <2>1, <1>5, <1>6, Zenon
<1>8. TypeOK'
  <2>1. result' \in Word
    BY <1>1, <1>3, AddModWord
  <2>2. reduced' \in 0 .. num_workers_
    BY <1>1, <1>2
  <2> QED BY <1>1, <2>1, <2>2 DEF IInv, TypeOK
<1>9. AtFile' /\ Shares' /\ OutputInOrder'
  BY <1>1 DEF IInv, AtFile, Shares, OutputInOrder, Current
<1>10. Results' /\ PrintsTheSum'
  BY <1>1, <1>7 DEF IInv, Results, PrintsTheSum
<1>11. SumOfAccumulated' /\ FingerprintOfEachFile'
  BY <1>1, SumUnchanged, NothingPrinted DEF IInv
<1> QED BY <1>8, <1>9, <1>10, <1>11 DEF IInv

LEMMA ReduceDoneKeeps == IInv /\ ReduceDone => IInv'
<1> SUFFICES ASSUME IInv, ReduceDone PROVE IInv'
  OBVIOUS
<1> USE DEF ReduceDone, fileVars
<1>1. TypeOK' /\ AtFile' /\ Shares' /\ OutputInOrder'
  BY DEF IInv, TypeOK, AtFile, Shares, OutputInOrder, Current
<1>2. result = total % PRIME
  BY DEF IInv, Results, Shares
<1>3. Results' /\ PrintsTheSum'
  BY <1>2 DEF IInv, Results, PrintsTheSum
<1>4. SumOfAccumulated' /\ FingerprintOfEachFile'
  BY SumUnchanged, NothingPrinted DEF IInv
<1> QED BY <1>1, <1>3, <1>4 DEF IInv

LEMMA AddToMKeeps == IInv /\ add_to_m => IInv'
<1> SUFFICES ASSUME IInv, add_to_m PROVE IInv'
  OBVIOUS
<1> USE DEF add_to_m, fileVars
<1>1. M = 0 /\ M \in Word /\ result \in Word /\ result = total % PRIME /\ total \in Nat
  BY DEF IInv, TypeOK, Results
<1>2. M' \in Word
  BY <1>1, AddModWord
<1>3. M' = total % PRIME
  <2>1. M' = (M + result) % PRIME
    BY <1>1, AddMod
  <2>2. M' = (0 + (total % PRIME)) % PRIME
    BY <2>1, <1>1, Zenon
  <2> QED BY <2>2, <1>1, RemainderOfRemainders
<1>4. TypeOK'
  BY <1>2 DEF IInv, TypeOK
<1>5. AtFile' /\ Shares' /\ OutputInOrder'
  BY DEF IInv, AtFile, Shares, OutputInOrder, Current
<1>6. Results' /\ PrintsTheSum'
  BY <1>3 DEF IInv, Results, PrintsTheSum
<1>7. SumOfAccumulated' /\ FingerprintOfEachFile'
  BY SumUnchanged, NothingPrinted DEF IInv
<1> QED BY <1>4, <1>5, <1>6, <1>7 DEF IInv

LEMMA PrintKeeps == IInv /\ printFingerprint => IInv'
<1> SUFFICES ASSUME IInv, printFingerprint PROVE IInv'
  OBVIOUS
<1> USE DEF printFingerprint, fileVars
<1>1. stream_ \in Seq(Word) /\ M \in Word /\ Len(stream_) \in Nat
  BY DEF IInv, TypeOK
<1>2. stream_' \in Seq(Word) /\ Len(stream_') = Len(stream_) + 1
  BY <1>1
<1>3. TypeOK'
  BY <1>2 DEF IInv, TypeOK
<1>4. AtFile' /\ Shares' /\ Results' /\ PrintsTheSum'
  BY DEF IInv, AtFile, Shares, Results, PrintsTheSum
<1>5. OutputInOrder'
  <2>1. /\ current \in Nat /\ Len(stream_) = current - 1 /\ outcome = "none"
        /\ Current.kind # "malformed"
    BY DEF IInv, OutputInOrder, AtFile, TypeOK
  <2>2. Len(stream_') = current
    BY <1>2, <2>1
  <2>3. ASSUME NEW i \in 1 .. Len(stream_') PROVE input_files[i].kind # "malformed"
    <3>1. i \in 1 .. Len(stream_) \/ i = current
      BY <1>1, <1>2, <2>1
    <3> QED BY <2>1, <3>1 DEF IInv, OutputInOrder, Current
  <2> QED BY <2>1, <2>2, <2>3 DEF OutputInOrder
<1>6. SumOfAccumulated'
  BY DEF SumOfAccumulated
<1>7. FingerprintOfEachFile'
  <2>1. M = Sum(Current.hashes) % PRIME
    <3>1. todo = {} /\ M = total % PRIME /\ total = Sum(Accumulated)
      BY DEF IInv, AtFile, PrintsTheSum, SumOfAccumulated
    <3>2. Current.hashes \in Seq(Word)
      BY CurrentFile DEF IInv
    <3>3. Accumulated = Current.hashes
      BY <3>1, <3>2 DEF Accumulated
    <3> QED BY <3>1, <3>3
  <2>2. Len(stream_) = current - 1 /\ current \in Nat
    BY DEF IInv, OutputInOrder, AtFile, TypeOK
  <2>3. ASSUME NEW i \in 1 .. Len(stream_')
        PROVE  stream_'[i] = Sum(input_files[i].hashes) % PRIME
    <3>1. CASE i \in 1 .. Len(stream_)
      <4>1. stream_'[i] = stream_[i]
        BY <1>1, <3>1
      <4> QED BY <3>1, <4>1 DEF IInv, FingerprintOfEachFile
    <3>2. CASE i = Len(stream_) + 1
      <4>1. stream_'[i] = M /\ i = current
        BY <1>1, <2>2, <3>2
      <4> QED BY <4>1, <2>1 DEF Current
    <3> QED BY <1>1, <1>2, <3>1, <3>2
  <2> QED BY <2>3 DEF FingerprintOfEachFile
<1> QED BY <1>3, <1>4, <1>5, <1>6, <1>7 DEF IInv

\* The three ways the loop over the files ends.
LEMMA EndKeeps == IInv /\ (TooManyOpenFiles \/ FileThrows \/ Finish) => IInv'
<1> SUFFICES ASSUME IInv, TooManyOpenFiles \/ FileThrows \/ Finish PROVE IInv'
  OBVIOUS
<1> USE DEF fileVars
<1>0. SumOfAccumulated' /\ FingerprintOfEachFile'
  BY NothingPrinted DEF IInv, SumOfAccumulated, TooManyOpenFiles, FileThrows, Finish
<1>1. CASE TooManyOpenFiles
  <2> USE <1>1, WordFacts DEF TooManyOpenFiles, ResetM
  <2>1. current \in Nat /\ Len(input_files) \in Nat /\ Len(stream_) = current
    BY FingerprintAssumption DEF IInv, TypeOK, OutputInOrder
  <2>2. TypeOK'
    BY <2>1 DEF IInv, TypeOK
  <2>3. AtFile' /\ Shares' /\ Results' /\ PrintsTheSum' /\ OutputInOrder'
    BY <2>1 DEF IInv, AtFile, Shares, Results, PrintsTheSum, OutputInOrder
  <2> QED BY <2>2, <2>3, <1>0 DEF IInv
<1>2. CASE FileThrows
  <2> USE <1>2 DEF FileThrows
  <2>1. TypeOK' /\ AtFile' /\ Shares' /\ Results' /\ PrintsTheSum'
    BY DEF IInv, TypeOK, AtFile, Shares, Results, PrintsTheSum
  <2>2. OutputInOrder'
    BY DEF IInv, OutputInOrder, AtFile, Current
  <2> QED BY <2>1, <2>2, <1>0 DEF IInv
<1>3. CASE Finish
  <2> USE <1>3 DEF Finish
  <2>1. TypeOK' /\ AtFile' /\ Shares' /\ Results' /\ PrintsTheSum'
    BY DEF IInv, TypeOK, AtFile, Shares, Results, PrintsTheSum
  <2>2. OutputInOrder'
    BY DEF IInv, OutputInOrder
  <2> QED BY <2>1, <2>2, <1>0 DEF IInv
<1> QED BY <1>1, <1>2, <1>3

LEMMA StepInvariant == IInv /\ [Next]_vars => IInv'
<1> SUFFICES ASSUME IInv, [Next]_vars PROVE IInv'
  OBVIOUS
<1>1. CASE BeginFile
  BY <1>1, BeginFileKeeps
<1>2. ASSUME NEW w \in Workers, NEW i \in todo, Accumulate(w, i) PROVE IInv'
  BY <1>2, AccumulateKeeps
<1>3. CASE FoldDone
  BY <1>3, FoldDoneKeeps
<1>4. CASE Reduce
  BY <1>4, ReduceKeeps
<1>5. CASE ReduceDone
  BY <1>5, ReduceDoneKeeps
<1>6. CASE add_to_m
  BY <1>6, AddToMKeeps
<1>7. CASE printFingerprint
  BY <1>7, PrintKeeps
<1>8. CASE TooManyOpenFiles \/ FileThrows \/ Finish
  BY <1>8, EndKeeps
<1>9. CASE UNCHANGED vars
  BY <1>9 DEF IInv, TypeOK, AtFile, Shares, Results, PrintsTheSum, OutputInOrder, Current,
              SumOfAccumulated, Accumulated, FingerprintOfEachFile, vars, fileVars
<1> QED BY <1>1, <1>2, <1>3, <1>4, <1>5, <1>6, <1>7, <1>8, <1>9 DEF Next, Step, Ended

THEOREM Invariant == Spec => []IInv
<1>1. Init => IInv
  BY InitInvariant
<1>2. IInv /\ [Next]_vars => IInv'
  BY StepInvariant
<1> QED BY <1>1, <1>2, PTL DEF Spec

\* Every sum the program holds fits its 128-bit word.
THEOREM TypeCorrect == Spec => []TypeOK
<1>1. IInv => TypeOK
  BY DEF IInv
<1> QED BY <1>1, Invariant, PTL

\* The fingerprint of a file is the sum of the hashes of its values modulo
\* PRIME: it depends neither on the number of workers nor on which of them got
\* which value, in which order, nor on the files before it.
THEOREM FingerprintIsTheSum == Spec => []PrintsTheSum
<1>1. IInv => PrintsTheSum
  BY DEF IInv
<1> QED BY <1>1, Invariant, PTL

\* One fingerprint per file, in the order given, up to the first malformed one.
THEOREM FingerprintsInOrder == Spec => []OutputInOrder
<1>1. IInv => OutputInOrder
  BY DEF IInv
<1> QED BY <1>1, Invariant, PTL

\* Each fingerprint printed is the sum of the hashes of its file modulo PRIME,
\* for every file and every number of hashes: with one thread as with many, and
\* with the hashes in any order.
THEOREM EachFingerprintIsTheSum == Spec => []FingerprintOfEachFile
<1>1. IInv => FingerprintOfEachFile
  BY DEF IInv
<1> QED BY <1>1, Invariant, PTL
=============================================================================
