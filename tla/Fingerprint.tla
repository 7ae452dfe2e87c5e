---------------------------- MODULE Fingerprint ----------------------------
(***************************************************************************)
(* Processor::fingerprint and Processor::fingerprint_s (src/processor.cpp) *)
(* with FingerprintPolicy (include/policies.h): for each input file, the   *)
(* hashes of its values are summed modulo PRIME, by several workers whose  *)
(* sums are then reduced or by one loop, added to M and printed.           *)
(*                                                                         *)
(* run_pipeline is taken at the level of what Pipeline shows of it: every  *)
(* hash is accumulated by exactly one worker, in any order, and a file     *)
(* that cannot be read makes the call throw.  A file is the sequence of    *)
(* the hashes of its values.                                               *)
(***************************************************************************)
EXTENDS ModularSum, Sequences

CONSTANTS
  num_workers_,   \* worker threads
  Inputs,         \* the lists of input files that may be given
  Descriptors     \* how many files the process may have open

File == [kind : {"empty", "readable", "malformed"}, hashes : Seq(Word)]

ASSUME FingerprintAssumption ==
  /\ num_workers_ \in Nat \ {0}
  /\ Inputs \subseteq Seq(File)
  /\ Descriptors \in Nat

VARIABLES
  single,       \* options.single
  input_files,  \* options.input_files
  pc,           \* where the loop over the files is
  current,      \* the file it is at
  todo,         \* the hashes of the file not accumulated yet
  local,        \* per worker: its accumulator
  reduced,      \* accumulators reduced so far
  result,       \* what run_pipeline returns
  M,            \* the member M of Processor
  stream_,      \* the fingerprints printed
  opened,       \* file descriptors the process holds
  outcome,      \* "none" until the call ends
  total,        \* history: the plain sum of the hashes of the file so far
  prefix        \* history: prefix[w] is the part of it due to workers 1 to w

fileVars == <<todo, local, reduced, result, total, prefix>>
vars == <<single, input_files, pc, current, fileVars, M, stream_, opened, outcome>>

Workers == 1 .. num_workers_
Empty == [w \in Workers |-> 0]
Current == input_files[current]

Init ==
  /\ single \in BOOLEAN
  /\ input_files \in Inputs
  /\ pc = "file"
  /\ current = 0
  /\ todo = {}
  /\ local = Empty
  /\ reduced = 0
  /\ result = 0
  /\ M = 0
  /\ stream_ = <<>>
  /\ opened = 0
  /\ outcome = "none"
  /\ total = 0
  /\ prefix = [w \in 0 .. num_workers_ |-> 0]

-----------------------------------------------------------------------------

\* Mutant of ResetM: the sum of the previous file stays.
KeepM == UNCHANGED M

\* Each file starts from zero.
ResetM == M' = 0

\* Start the next file.  chunk() opens it and closes it again only if it is
\* empty; padded_string::load leaves nothing open.
BeginFile ==
  /\ pc = "file"
  /\ current < Len(input_files)
  /\ single \/ opened < Descriptors
  /\ pc' = "fold"
  /\ current' = current + 1
  /\ ResetM
  /\ todo' = DOMAIN input_files[current'].hashes
  /\ local' = Empty
  /\ reduced' = 0
  /\ result' = 0
  /\ total' = 0
  /\ prefix' = [w \in 0 .. num_workers_ |-> 0]
  /\ opened' = IF single \/ input_files[current'].kind = "empty" THEN opened ELSE opened + 1
  /\ UNCHANGED <<single, input_files, stream_, outcome>>

\* open() fails for want of a descriptor, chunk() throws past the running
\* workers, and the process ends (see Pipeline).
TooManyOpenFiles ==
  /\ pc = "file"
  /\ current < Len(input_files)
  /\ ~single /\ opened = Descriptors
  /\ pc' = "end"
  /\ outcome' = "terminated"
  /\ current' = current + 1
  /\ ResetM
  /\ UNCHANGED <<single, input_files, fileVars, stream_, opened>>

\* FingerprintPolicy::accumulate.  One thread takes the hashes in order.
Accumulate(w, i) ==
  /\ pc = "fold"
  /\ i \in todo
  /\ single => w = 1 /\ \A j \in todo : i <= j
  /\ todo' = todo \ {i}
  /\ LET h == Current.hashes[i] IN
       /\ local' = [local EXCEPT ![w] = add_mod(@, h)]
       /\ total' = total + h
       /\ prefix' = [v \in 0 .. num_workers_ |-> IF w <= v THEN prefix[v] + h ELSE prefix[v]]
  /\ UNCHANGED <<single, input_files, pc, current, reduced, result, M, stream_, opened, outcome>>

\* Mutant of FileThrows: the exception is swallowed and the loop goes on.
FileSkipped ==
  /\ pc = "fold"
  /\ Current.kind = "malformed"
  /\ pc' = "file"
  /\ UNCHANGED <<single, input_files, current, fileVars, M, stream_, opened, outcome>>

\* A document is malformed: the exception leaves the loop over the files.
FileThrows ==
  /\ pc = "fold"
  /\ Current.kind = "malformed"
  /\ pc' = "end"
  /\ outcome' = "threw"
  /\ UNCHANGED <<single, input_files, current, fileVars, M, stream_, opened>>

\* Every hash is accumulated: the workers' sums are reduced, or the only
\* accumulator is the result.
FoldDone ==
  /\ pc = "fold"
  /\ Current.kind # "malformed"
  /\ todo = {}
  /\ pc' = IF single THEN "add" ELSE "reduce"
  /\ result' = IF single THEN local[1] ELSE 0
  /\ UNCHANGED <<single, input_files, current, todo, local, reduced, M, stream_, opened, outcome,
                 total, prefix>>

\* Mutant of Reduce: a worker's sum replaces the others.
ReduceOverwrites ==
  /\ pc = "reduce"
  /\ reduced < num_workers_
  /\ reduced' = reduced + 1
  /\ result' = local[reduced']
  /\ UNCHANGED <<single, input_files, pc, current, todo, local, M, stream_, opened, outcome,
                 total, prefix>>

\* FingerprintPolicy::reduce
Reduce ==
  /\ pc = "reduce"
  /\ reduced < num_workers_
  /\ reduced' = reduced + 1
  /\ result' = add_mod(result, local[reduced'])
  /\ UNCHANGED <<single, input_files, pc, current, todo, local, M, stream_, opened, outcome,
                 total, prefix>>

ReduceDone ==
  /\ pc = "reduce"
  /\ reduced = num_workers_
  /\ pc' = "add"
  /\ UNCHANGED <<single, input_files, current, fileVars, M, stream_, opened, outcome>>

add_to_m ==
  /\ pc = "add"
  /\ pc' = "print"
  /\ M' = add_mod(M, result)
  /\ UNCHANGED <<single, input_files, current, fileVars, stream_, opened, outcome>>

printFingerprint ==
  /\ pc = "print"
  /\ pc' = "file"
  /\ stream_' = Append(stream_, M)
  /\ UNCHANGED <<single, input_files, current, fileVars, M, opened, outcome>>

Finish ==
  /\ pc = "file"
  /\ current = Len(input_files)
  /\ pc' = "end"
  /\ outcome' = "done"
  /\ UNCHANGED <<single, input_files, current, fileVars, M, stream_, opened>>

Ended == pc = "end" /\ UNCHANGED vars

Step ==
  \/ BeginFile \/ TooManyOpenFiles
  \/ \E w \in Workers, i \in todo : Accumulate(w, i)
  \/ FileThrows \/ FoldDone \/ Reduce \/ ReduceDone
  \/ add_to_m \/ printFingerprint \/ Finish

Next == Step \/ Ended

Spec == Init /\ [][Next]_vars
-----------------------------------------------------------------------------
(* Properties                                                              *)

\* The sums of the first elements of a sequence of numbers, and of all of them.
PartialSums(s) == LET sum[i \in 0 .. Len(s)] == IF i = 0 THEN 0 ELSE sum[i - 1] + s[i] IN sum
Sum(s) == PartialSums(s)[Len(s)]

\* The types of the variables: every sum stays within a word.
TypeOK ==
  /\ single \in BOOLEAN
  /\ input_files \in Inputs
  /\ pc \in {"file", "fold", "reduce", "add", "print", "end"}
  /\ current \in 0 .. Len(input_files)
  /\ todo \subseteq Nat
  /\ local \in [Workers -> Word]
  /\ reduced \in 0 .. num_workers_
  /\ result \in Word
  /\ M \in Word
  /\ stream_ \in Seq(Word)
  /\ opened \in 0 .. Descriptors
  /\ outcome \in {"none", "done", "threw", "terminated"}
  /\ total \in Nat
  /\ prefix \in [0 .. num_workers_ -> Nat]

\* However the hashes are spread over the workers, M is the sum of all of them
\* modulo PRIME when it is printed: nothing of the previous file is left in it,
\* no worker's share is missed, and no addition overflows.
PrintsTheSum == pc = "print" => M = total % PRIME

\* Fingerprints come out in the order of the files, one per file; the first
\* malformed file ends the output with an exception, and no other file throws.  The
\* one other thing that ends it is the process being out of descriptors, which the
\* single-threaded mode never is: what was printed before is still right.
OutputInOrder ==
  /\ Len(stream_) = IF pc = "file" \/ outcome = "done" THEN current ELSE current - 1
  /\ outcome = "threw" => Current.kind = "malformed"
  /\ outcome = "terminated" => ~single /\ opened = Descriptors
  /\ \A i \in 1 .. Len(stream_) : input_files[i].kind # "malformed"

\* Each fingerprint printed is the sum of the hashes of its file modulo PRIME,
\* with one thread as with many: the two modes agree on every file.
FingerprintOfEachFile ==
  \A i \in 1 .. Len(stream_) : stream_[i] = Sum(input_files[i].hashes) % PRIME

\* README.md:44: "dataprint fingerprint file1.json1 file2.json file3.json ...".
\* The number of files is not limited.
AnyNumberOfFiles == outcome # "terminated"
-----------------------------------------------------------------------------
(* The inductive invariant                                                 *)

\* Each worker's sum is its share of the plain sum, modulo PRIME.
Shares ==
  /\ prefix[0] = 0
  /\ prefix[num_workers_] = total
  /\ \A w \in Workers :
       /\ prefix[w] - prefix[w - 1] \in Nat
       /\ local[w] = (prefix[w] - prefix[w - 1]) % PRIME
  /\ single => prefix[1] = total

\* Between two files the loop is at none; what is left of the current one are
\* positions in it.
AtFile ==
  /\ outcome = "none" <=> pc # "end"
  /\ pc \notin {"file", "end"} =>
       /\ current \in 1 .. Len(input_files)
       /\ todo \subseteq DOMAIN Current.hashes
  /\ pc \in {"reduce", "add", "print"} => todo = {} /\ Current.kind # "malformed"

\* The hashes of the current file, 0 for those not accumulated yet: whichever
\* they are, the plain sum is theirs.
Accumulated == [i \in DOMAIN Current.hashes |-> IF i \in todo THEN 0 ELSE Current.hashes[i]]
SumOfAccumulated == pc \notin {"file", "end"} => total = Sum(Accumulated)

Results ==
  /\ pc = "fold" => reduced = 0
  /\ pc \in {"fold", "reduce", "add"} => M = 0
  /\ pc = "reduce" => ~single /\ result = prefix[reduced] % PRIME
  /\ pc = "add" => result = total % PRIME

IInv ==
  /\ TypeOK /\ AtFile /\ Shares /\ Results /\ SumOfAccumulated
  /\ PrintsTheSum /\ OutputInOrder /\ FingerprintOfEachFile
=============================================================================
