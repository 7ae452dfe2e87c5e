------------------------------ MODULE HashWalk ------------------------------
(***************************************************************************)
(* hashBasicValues, XXHash, mixHash and mix (src/processor.cpp, utils.h):  *)
(* the walk of the documents of a file, and the hash it accumulates for    *)
(* every basic value.                                                      *)
(*                                                                         *)
(* A document is a function from positions to nodes.  A position is the    *)
(* sequence of the children to go to from the root: <<2, 1>> is the first  *)
(* child of the second child.  The stack of calls of hashBasicValues is    *)
(* the position of the value it is at, and the path_hash of every call.    *)
(*                                                                         *)
(* Hash functions are ideal: a hash is what was hashed.  Strings, keys and *)
(* the bytes of a number are sequences of integers.  Numbers are counted   *)
(* in halves, so that some are not integral.                               *)
(***************************************************************************)
EXTENDS Integers, Sequences, FiniteSets

CONSTANTS
  Limit,   \* 2^63
  Files    \* the files that may be given: sequences of documents

Basic == {"string", "number", "boolean", "null"}
Containers == {"object", "array"}
Position == Seq(Nat \ {0})
Front(s) == SubSeq(s, 1, Len(s) - 1)

\* The numbers as simdjson tells their kinds apart: int64_t where it fits, then
\* uint64_t, and big integers beyond.
IsNumber(n) ==
  /\ n.halves \in Int
  /\ \/ n.kind = "double"
     \/ /\ n.halves % 2 = 0
        /\ \/ n.kind = "int64" /\ n.halves \div 2 \in -Limit .. Limit - 1
           \/ n.kind = "uint64" /\ n.halves \div 2 \in Limit .. 2 * Limit - 1
           \/ n.kind = "big" /\ n.halves \div 2 \notin -Limit .. 2 * Limit - 1

\* A tree: the children of a node are numbered from 1 to its size.
IsDocument(doc) ==
  /\ IsFiniteSet(DOMAIN doc) /\ DOMAIN doc \subseteq Position
  /\ \A p \in DOMAIN doc :
       /\ doc[p].type \in Basic \cup Containers \cup {"malformed"}
       /\ doc[p].size \in Nat
       /\ doc[p].type \notin Containers => doc[p].size = 0
       /\ doc[p].type = "object" => DOMAIN doc[p].keys = 1 .. doc[p].size
       /\ doc[p].type = "number" => IsNumber(doc[p].value)
       /\ doc[p].type = "boolean" => doc[p].value \in BOOLEAN
       /\ \A i \in 1 .. doc[p].size : Append(p, i) \in DOMAIN doc
       /\ p # <<>> => Front(p) \in DOMAIN doc /\ p[Len(p)] <= doc[Front(p)].size
  /\ <<>> \in DOMAIN doc

ASSUME WalkAssumption ==
  /\ Limit \in Nat \ {0}
  /\ \A f \in Files :
       /\ Len(f) \in Nat /\ DOMAIN f = 1 .. Len(f)
       /\ \A d \in DOMAIN f : IsDocument(f[d])

VARIABLES
  file,          \* the file being walked
  current,       \* the document of it the walk is at
  at,            \* the position of the value hashBasicValues is called with
  index,         \* children of it visited
  paths,         \* the path_hash of each call on the stack, none between documents
  accumulated,   \* what was passed to Policy::accumulate, and the value it stands for
  outcome        \* "none" until the walk ends: "returned" or "threw"

vars == <<file, current, at, index, paths, accumulated, outcome>>

Element == file[current][at]
path_hash == paths[Len(paths)]

Init ==
  /\ file \in Files
  /\ current = 0
  /\ at = <<>>
  /\ index = 0
  /\ paths = <<>>
  /\ accumulated = <<>>
  /\ outcome = "none"

-----------------------------------------------------------------------------
(* Hashes                                                                  *)

\* Mutant of mix: a path is its last step only.
MixLast(h, k) == <<k>>

\* A path is the sequence of the hashes mixed into it; 0 is the empty one.
mix(h, k) == Append(h, k)

mixHash(h, b) == <<h, b>>

\* A double takes 8 bytes and an __int128 16: here three cells and four.
Double(halves) == <<halves, 0, 0>>
Int128(integer) == <<integer, 0, 0, 0>>

\* Casting a double to int64_t when it does not fit is undefined: x86 gives the
\* smallest integer, other processors the largest.
Int64Casts(integer) ==
  IF integer \in -Limit .. Limit - 1 THEN {integer} ELSE {-Limit, Limit - 1}

Integral(n) == n.halves % 2 = 0 /\ n.halves \div 2 \in -Limit .. Limit

\* Mutant of NumberBytes: a double is hashed as it is.
NumberBytesRaw(n) ==
  IF n.kind = "double" THEN {Double(n.halves)} ELSE {Int128(n.halves \div 2)}

\* The bytes that XXHash hashes for a number.  For a big integer get_double is
\* called on a number the failed get() left alone: what it gives is simdjson's.
NumberBytes(n) ==
  CASE n.kind = "big" -> {Double(n.halves), Double(0)}
    [] n.kind = "double" /\ Integral(n) -> {Int128(i) : i \in Int64Casts(n.halves \div 2)}
    [] n.kind = "double" /\ ~Integral(n) -> {Double(n.halves)}
    [] OTHER -> {Int128(n.halves \div 2)}

\* The bytes that XXHash may hash for a value.
ValueBytes(e) ==
  CASE e.type = "string" -> {e.value}
    [] e.type = "number" -> NumberBytes(e.value)
    [] e.type = "boolean" -> {<<IF e.value THEN 1 ELSE 0>>}
    [] e.type = "null" -> {<<0, 0>>}

XXHash(path, e) == {mixHash(bytes, path) : bytes \in ValueBytes(e)}

\* The hashes (1, 1) mixed with 0 and with 1 are those of no value.
EmptyHash(type) == mixHash(<<-1>>, IF type = "object" THEN <<>> ELSE <<<<-1>>>>)

\* '[', the index, counted from 0, and ']', each in 8 bytes.
ArrayIndexPrefix(i) == <<91, i, 93>>

\* What is mixed into the path on the way to child i + 1.
StepHash(e, i) == IF e.type = "object" THEN e.keys[i + 1] ELSE ArrayIndexPrefix(i)

-----------------------------------------------------------------------------
(* The walk                                                                *)

Active == outcome = "none" /\ paths # <<>>

\* The loop over the document stream calls hashBasicValues with path_hash 0.
NextDocument ==
  /\ outcome = "none" /\ paths = <<>>
  /\ current < Len(file)
  /\ current' = current + 1
  /\ at' = <<>>
  /\ index' = 0
  /\ paths' = <<<<>>>>
  /\ UNCHANGED <<file, accumulated, outcome>>

\* Back to the loop of the caller, which has visited this child.
Return ==
  /\ paths' = Front(paths)
  /\ at' = IF at = <<>> THEN <<>> ELSE Front(at)
  /\ index' = IF at = <<>> THEN 0 ELSE at[Len(at)]

Accumulate(h) ==
  accumulated' = Append(accumulated, [document |-> current, at |-> at, hash |-> h])

\* A string, a number, a boolean or null.
HashValue ==
  /\ Active
  /\ Element.type \in Basic
  /\ \E h \in XXHash(path_hash, Element) : Accumulate(h)
  /\ Return
  /\ UNCHANGED <<file, current, outcome>>

\* {} and [] are hashed without their path.
HashEmpty ==
  /\ Active
  /\ Element.type \in Containers
  /\ Element.size = 0
  /\ Accumulate(EmptyHash(Element.type))
  /\ Return
  /\ UNCHANGED <<file, current, outcome>>

\* Mutant of VisitChild: the loop goes one child too far.
VisitOneMore ==
  /\ Active
  /\ Element.type \in Containers
  /\ index <= Element.size
  /\ paths' = Append(paths, path_hash)
  /\ at' = Append(at, index + 1)
  /\ index' = 0
  /\ UNCHANGED <<file, current, accumulated, outcome>>

\* Mutant of VisitChild: the step is mixed into the path_hash of the loop.
VisitInPlace ==
  /\ Active
  /\ Element.type \in Containers
  /\ index < Element.size
  /\ LET new_hash == mix(path_hash, StepHash(Element, index)) IN
       paths' = Front(paths) \o <<new_hash, new_hash>>
  /\ at' = Append(at, index + 1)
  /\ index' = 0
  /\ UNCHANGED <<file, current, accumulated, outcome>>

\* The next field of an object or child of an array.
VisitChild ==
  /\ Active
  /\ Element.type \in Containers
  /\ index < Element.size
  /\ paths' = Append(paths, mix(path_hash, StepHash(Element, index)))
  /\ at' = Append(at, index + 1)
  /\ index' = 0
  /\ UNCHANGED <<file, current, accumulated, outcome>>

\* All children have been visited.
Leave ==
  /\ Active
  /\ Element.type \in Containers
  /\ Element.size > 0 /\ index = Element.size
  /\ Return
  /\ UNCHANGED <<file, current, accumulated, outcome>>

\* simdjson throws where it meets an error, past all calls of hashBasicValues.
Malformed ==
  /\ Active
  /\ Element.type = "malformed"
  /\ outcome' = "threw"
  /\ paths' = <<>>
  /\ UNCHANGED <<file, current, at, index, accumulated>>

EndOfFile ==
  /\ outcome = "none" /\ paths = <<>>
  /\ current = Len(file)
  /\ outcome' = "returned"
  /\ UNCHANGED <<file, current, at, index, paths, accumulated>>

Ended == outcome # "none" /\ UNCHANGED vars

Next ==
  \/ NextDocument \/ HashValue \/ HashEmpty \/ VisitChild \/ Leave
  \/ Malformed \/ EndOfFile \/ Ended

Spec == Init /\ [][Next]_vars
-----------------------------------------------------------------------------
(* Properties                                                              *)

\* The values of a document that are hashed.
Leaves(doc) == {p \in DOMAIN doc : doc[p].size = 0 /\ doc[p].type # "malformed"}

\* The path to a position as its keys and indices tell it.
PathTo(doc, p) ==
  [i \in DOMAIN p |-> StepHash(doc[SubSeq(p, 1, i - 1)], p[i] - 1)]

\* The hashes a value may be given.
HashesOf(doc, p) ==
  IF doc[p].type \in Basic
    THEN {mixHash(bytes, PathTo(doc, p)) : bytes \in ValueBytes(doc[p])}
    ELSE {EmptyHash(doc[p].type)}

WellFormed == \A d \in DOMAIN file : \A p \in DOMAIN file[d] : file[d][p].type # "malformed"

\* The types of the variables; the stack is as deep as the position.
TypeOK ==
  /\ file \in Files
  /\ current \in 0 .. Len(file)
  /\ at \in Position
  /\ index \in Nat
  /\ paths # <<>> =>
       /\ current > 0 /\ at \in DOMAIN file[current]
       /\ Len(paths) = Len(at) + 1
       /\ index <= Element.size
  /\ outcome \in {"none", "returned", "threw"}

\* When the walk returns, every value of every document was accumulated once,
\* with the hash of its path and its value, and all of the file was well formed;
\* a malformed value makes it throw (hashBasicValues returns nothing else).
EachValueOnce ==
  /\ outcome = "threw" => ~WellFormed
  /\ outcome = "returned" =>
       /\ WellFormed
       /\ \A d \in DOMAIN file : \A p \in Leaves(file[d]) :
            \E i \in DOMAIN accumulated :
              /\ accumulated[i].document = d /\ accumulated[i].at = p
              /\ accumulated[i].hash \in HashesOf(file[d], p)
              /\ \A j \in DOMAIN accumulated \ {i} :
                   <<accumulated[j].document, accumulated[j].at>> # <<d, p>>
       /\ \A i \in DOMAIN accumulated : accumulated[i].at \in Leaves(file[accumulated[i].document])
-----------------------------------------------------------------------------
(* The inductive invariant                                                 *)

IsPrefix(q, p) == Len(q) <= Len(p) /\ \A j \in 1 .. Len(q) : p[j] = q[j]

\* Has a walk that is at position q, with n of its children visited, returned
\* from position p?  At some level p went to a child before the one the walk is at.
Passed(q, n, p) ==
  \E i \in 0 .. Len(q) :
    /\ i < Len(p)
    /\ \A j \in 1 .. i : p[j] = q[j]
    /\ p[i + 1] < IF i = Len(q) THEN n + 1 ELSE q[i + 1]

Done(d, p) ==
  \/ d < current
  \/ d = current /\ (paths = <<>> \/ Passed(at, index, p))

\* The path_hash of each call is that of the way to its position.
Stack ==
  paths # <<>> =>
    paths = [i \in 1 .. Len(at) + 1 |-> PathTo(file[current], SubSeq(at, 1, i - 1))]

Entry ==
  UNION {UNION {[document : {d}, at : {p}, hash : HashesOf(file[d], p)] : p \in Leaves(file[d])}
         : d \in DOMAIN file}

\* What is accumulated are values of the file, none twice.
Entries ==
  /\ accumulated \in Seq(Entry)
  /\ \A i, j \in DOMAIN accumulated :
       /\ accumulated[i].document = accumulated[j].document
       /\ accumulated[i].at = accumulated[j].at
       => i = j

\* They are the values that the walk has returned from.
Progress ==
  outcome # "threw" =>
    /\ \A i \in DOMAIN accumulated : Done(accumulated[i].document, accumulated[i].at)
    /\ \A d \in DOMAIN file : \A p \in DOMAIN file[d] : Done(d, p) =>
         /\ file[d][p].type # "malformed"
         /\ p \in Leaves(file[d]) =>
              \E i \in DOMAIN accumulated : accumulated[i].document = d /\ accumulated[i].at = p

Ends ==
  /\ outcome = "returned" => current = Len(file) /\ paths = <<>>
  /\ outcome = "threw" => ~WellFormed /\ paths = <<>>

IInv == TypeOK /\ Stack /\ Entries /\ Progress /\ Ends
=============================================================================
