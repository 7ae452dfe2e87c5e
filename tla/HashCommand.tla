---------------------------- MODULE HashCommand ----------------------------
(***************************************************************************)
(* Processor::hash (src/processor.cpp): each input file is opened, mapped  *)
(* and hashed with BLAKE3, and its digest is printed.  open, fstat and mmap*)
(* may fail, and mapping an empty file always does.  Nobody looks whether  *)
(* fstat failed: the size is then what happened to be in st.               *)
(***************************************************************************)
EXTENDS Blake3

CONSTANTS
  Byte,     \* the bytes files are made of
  Inputs,   \* the lists of input files that may be given, by their bytes
  Garbage,  \* what an uninitialised st_size may hold: 0 stands for a size that
            \* mmap refuses, a negative one too
  PAGE      \* bytes in a page: what is mapped of the last one is readable

ASSUME HashAssumption ==
  /\ 0 \in Byte
  /\ Inputs \subseteq Seq(Seq(Byte))
  /\ Garbage \subseteq Nat
  /\ PAGE \in Nat \ {0}

VARIABLES
  input_files,   \* options.input_files
  current,       \* the file hash is at
  pc,            \* where it is
  st_sizes,      \* st.st_size after the fstat of each file so far
  opened,        \* descriptors the process holds
  mapped,        \* mappings it holds
  printed,       \* the digests printed
  outcome        \* "none" until the call ends: "returned", "threw" or "killed"

hashVars == <<simd_degree, input_files, current, pc, st_sizes, opened, mapped, printed, outcome>>

contents == input_files[current]
st_size == st_sizes[current]

\* What is mapped: the first bytes of the file, and zeros behind its end.
data == [p \in 1 .. st_size |-> IF p <= Len(contents) THEN contents[p] ELSE 0]

\* How much of it can be read: pages of which the file has a byte.
Readable == ((Len(contents) + PAGE - 1) \div PAGE) * PAGE

HashInit ==
  /\ simd_degree \in SimdDegrees
  /\ input_files \in Inputs
  /\ current = 0
  /\ pc = "next"
  /\ st_sizes = <<>>
  /\ opened = 0
  /\ mapped = 0
  /\ printed = <<>>
  /\ outcome = "none"

Throw == outcome' = "threw" /\ pc' = "end"

OpenFile ==
  /\ pc = "next"
  /\ current < Len(input_files)
  /\ current' = current + 1
  /\ \/ opened' = opened + 1 /\ pc' = "fstat" /\ UNCHANGED outcome
     \/ Throw /\ UNCHANGED opened
  /\ UNCHANGED <<simd_degree, input_files, st_sizes, mapped, printed>>

\* fstat may fail, and then leaves st as it was.
Fstat ==
  /\ pc = "fstat"
  /\ \E size \in {Len(contents)} \cup Garbage : st_sizes' = Append(st_sizes, size)
  /\ pc' = "map"
  /\ UNCHANGED <<simd_degree, input_files, current, opened, mapped, printed, outcome>>

Map ==
  /\ pc = "map"
  /\ st_size # 0
  /\ mapped' = mapped + 1
  /\ pc' = "hash"
  /\ UNCHANGED <<simd_degree, input_files, current, st_sizes, opened, printed, outcome>>

\* Mutant of MapFails: the descriptor is not closed.
MapFailsLeavingOpen ==
  /\ pc = "map"
  /\ Throw
  /\ UNCHANGED <<simd_degree, input_files, current, st_sizes, opened, mapped, printed>>

MapFails ==
  /\ pc = "map"
  /\ opened' = opened - 1
  /\ Throw
  /\ UNCHANGED <<simd_degree, input_files, current, st_sizes, mapped, printed>>

HashAndPrint ==
  /\ pc = "hash"
  /\ st_size <= Readable
  /\ printed' = Append(printed, hasher_finalize(hasher_update(hasher_init, data)))
  /\ pc' = "cleanup"
  /\ UNCHANGED <<simd_degree, input_files, current, st_sizes, opened, mapped, outcome>>

\* Reading a page of which the file has no byte raises SIGBUS.
BusError ==
  /\ pc = "hash"
  /\ st_size > Readable
  /\ opened' = 0
  /\ mapped' = 0
  /\ outcome' = "killed"
  /\ pc' = "end"
  /\ UNCHANGED <<simd_degree, input_files, current, st_sizes, printed>>

\* Mutant of Cleanup: the mapping stays.
CleanupWithoutUnmap ==
  /\ pc = "cleanup"
  /\ opened' = opened - 1
  /\ pc' = "next"
  /\ UNCHANGED <<simd_degree, input_files, current, st_sizes, mapped, printed, outcome>>

Cleanup ==
  /\ pc = "cleanup"
  /\ mapped' = mapped - 1
  /\ opened' = opened - 1
  /\ pc' = "next"
  /\ UNCHANGED <<simd_degree, input_files, current, st_sizes, printed, outcome>>

ReturnFromHash ==
  /\ pc = "next"
  /\ current = Len(input_files)
  /\ outcome' = "returned"
  /\ pc' = "end"
  /\ UNCHANGED <<simd_degree, input_files, current, st_sizes, opened, mapped, printed>>

Ended == pc = "end" /\ UNCHANGED hashVars

HashNext ==
  \/ OpenFile \/ Fstat \/ Map \/ MapFails
  \/ HashAndPrint \/ BusError \/ Cleanup
  \/ ReturnFromHash \/ Ended

HashSpec == HashInit /\ [][HashNext]_hashVars
-----------------------------------------------------------------------------
(* Properties                                                              *)

\* The types of the variables; nothing is held twice.
HashTypeOK ==
  /\ simd_degree \in SimdDegrees
  /\ input_files \in Inputs
  /\ current \in 0 .. Len(input_files)
  /\ pc \in {"next", "fstat", "map", "hash", "cleanup", "end"}
  /\ st_sizes \in Seq(Nat)
  /\ opened \in 0 .. 1 /\ mapped \in 0 .. opened
  /\ Len(printed) <= Len(st_sizes) /\ Len(st_sizes) <= current
  /\ outcome \in {"none", "threw", "killed", "returned"}

\* What is printed are the BLAKE3 digests of the files in their order: of all of
\* them if hash() returns, and of those before the one it threw at.  A file whose
\* fstat failed is the exception, for what was printed of it; only such a file kills
\* the process.
DigestsOfFiles ==
  /\ \A i \in DOMAIN printed :
       st_sizes[i] = Len(input_files[i]) => printed[i] = Digest(input_files[i])
  /\ outcome = "returned" => Len(printed) = Len(input_files)
  /\ outcome \in {"threw", "killed"} => Len(printed) = current - 1
  /\ outcome = "killed" => st_size # Len(contents)

\* However it ends, hash() holds no descriptor and no mapping any more, unlike
\* chunk() (see AnyNumberOfFiles of MCFingerprint).
NothingHeld == pc \in {"next", "end"} => opened = 0 /\ mapped = 0

\* The digest does not depend on how the bytes are spread over two calls of
\* blake3_hasher_update, nor a call with nothing (blake3.c:477-482).
UpdatesCompose ==
  pc = "hash" =>
    \A cut \in 0 .. Len(data) :
      hasher_finalize(hasher_update(hasher_update(hasher_init, SubSeq(data, 1, cut)),
                                    From(data, cut + 1))) = Digest(data)
=============================================================================
