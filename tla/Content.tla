------------------------------ MODULE Content ------------------------------
(***************************************************************************)
(* What it means that two files say the same, and what the hashes that     *)
(* HashWalk accumulates tell of it.                                        *)
(***************************************************************************)
EXTENDS HashWalk

-----------------------------------------------------------------------------
(* The same content                                                        *)

\* Do two nodes say the same, the children aside?  Numbers are the same when they
\* are equal, however they are written.
SameNode(m, n) ==
  /\ m.type = n.type
  /\ m.size = n.size
  /\ CASE m.type = "number" -> m.value.halves = n.value.halves
       [] m.type \in {"string", "boolean"} -> m.value = n.value
       [] OTHER -> TRUE

\* The orders that n things may be put in: f[i] is the new place of the i-th.
Orders(n) == {f \in [1 .. n -> 1 .. n] : \A i, j \in 1 .. n : f[i] = f[j] => i = j}

\* An order for the children of every container of a document.
Inner(doc) == {p \in DOMAIN doc : doc[p].size > 0}
ChildOrders(doc) ==
  {s \in [Inner(doc) -> UNION {Orders(doc[p].size) : p \in Inner(doc)}] :
     \A p \in Inner(doc) : s[p] \in Orders(doc[p].size)}

\* Where a position goes when the children of every container are reordered.
Moved(s, p) == [i \in DOMAIN p |-> s[SubSeq(p, 1, i - 1)][p[i]]]

\* Do two documents say the same, up to the order of the fields of objects?
SameDocument(d, e) ==
  \E s \in ChildOrders(d) :
    /\ {Moved(s, p) : p \in DOMAIN d} = DOMAIN e
    /\ \A p \in DOMAIN d : SameNode(d[p], e[Moved(s, p)])
    /\ \A p \in Inner(d) : \A i \in 1 .. d[p].size :
         IF d[p].type = "object" THEN d[p].keys[i] = e[Moved(s, p)].keys[s[p][i]]
                                 ELSE s[p][i] = i

\* Do two files say the same, up to the order of lines?
SameContent(f, g) ==
  /\ Len(f) = Len(g)
  /\ \E r \in Orders(Len(f)) : \A d \in 1 .. Len(f) : SameDocument(f[d], g[r[d]])

-----------------------------------------------------------------------------
(* The hashes of a file                                                    *)

Nodes(f) == UNION {{f[d][p] : p \in DOMAIN f[d]} : d \in DOMAIN f}

IsWellFormed(f) == \A n \in Nodes(f) : n.type # "malformed"

\* No number is written as a double of 2^63 or more, or is a big integer.
PlainNumbers(f) ==
  \A n \in Nodes(f) : n.type = "number" =>
    /\ n.value.kind # "big"
    /\ n.value.kind = "double" => n.value.halves \div 2 < Limit

\* Nothing else keeps a document from being told apart from another: no key
\* twice in an object or with the bytes of the first index, no {} or [], and no
\* string with the bytes of a boolean, of null or of a number.
Unmistakable(n) ==
  /\ n.type \in Containers => n.size > 0
  /\ n.type = "object" =>
       \A i \in 1 .. n.size :
         /\ n.keys[i] # ArrayIndexPrefix(0)
         /\ \A j \in 1 .. n.size : n.keys[i] = n.keys[j] => i = j
  /\ n.type = "string" => n.value \notin {<<0>>, <<1>>, <<0, 0>>} /\ Len(n.value) \notin {3, 4}

Plain(f) == PlainNumbers(f) /\ \A n \in Nodes(f) : Unmistakable(n)

PlainNumberFiles == {f \in Files : IsWellFormed(f) /\ PlainNumbers(f)}
PlainDocuments == {f \in PlainNumberFiles : Len(f) = 1 /\ Plain(f)}

\* How often each of the values of f in S is mapped to: the fingerprint before
\* the hashes are added up.
Count(S, f) == [h \in {f[x] : x \in S} |-> Cardinality({x \in S : f[x] = h})]

Accumulated == Count(DOMAIN accumulated, [i \in DOMAIN accumulated |-> accumulated[i].hash])

\* What the walk of a file accumulates, if its numbers are plain.
Hashed(f) == UNION {{<<d, p>> : p \in Leaves(f[d])} : d \in DOMAIN f}
Hashes(f) == Count(Hashed(f), [v \in Hashed(f) |-> CHOOSE h \in HashesOf(f[v[1]], v[2]) : TRUE])
HashesOfFile == [f \in PlainNumberFiles |-> Hashes(f)]

-----------------------------------------------------------------------------
(* Properties                                                              *)

\* src/processor.cpp:173-175: "it also canonicalizes the JSON in a way that the
\* hash of an equivalent value is equivalent", and docs/fingerprinting.md:12: two
\* files have the same fingerprint if only the order of lines differs.  Files that
\* say the same have the same hashes, the order of lines and fields and the
\* notation of numbers below 2^63 notwithstanding.
EquivalentFilesAgree ==
  outcome = "returned" /\ file \in PlainNumberFiles =>
    \A g \in PlainNumberFiles : SameContent(file, g) => Accumulated = HashesOfFile[g]

\* The paths and values that hashBasicValues hashes tell a document apart from
\* every other, but for what Plain excludes.
DocumentsToldApart ==
  outcome = "returned" /\ file \in PlainDocuments =>
    \A g \in PlainDocuments : Accumulated = HashesOfFile[g] => SameContent(file, g)

\* docs/fingerprinting.md:8: "Fingerprints can be used to say two files are
\* different or to show that a file has changed meaningfully."  Files of plain
\* lines that do not say the same have different hashes.
ChangesShow ==
  outcome = "returned" /\ IsWellFormed(file) /\ Plain(file) =>
    \A g \in PlainNumberFiles : Plain(g) /\ Accumulated = HashesOfFile[g] => SameContent(file, g)
=============================================================================
