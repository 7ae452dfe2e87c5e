------------------------------ MODULE Splitter ------------------------------
(***************************************************************************)
(* The loop of Processor::chunk (src/processor.cpp) that cuts a mapped     *)
(* file into chunks for the queue.  Of the bytes of the file only the      *)
(* newlines matter; positions are offsets from the start of the mapping.   *)
(* What becomes of a chunk once it is pushed is the subject of Pipeline.   *)
(***************************************************************************)
EXTENDS Integers, Sequences

CONSTANTS
  MaxFileSize,   \* the sizes of file considered
  ChunkSizes     \* the chunk sizes considered

ASSUME SplitterAssumption == MaxFileSize \in Nat /\ ChunkSizes \subseteq Nat

VARIABLES
  file_size,    \* sb.st_size
  newlines,     \* the positions that hold a newline
  chunk_size,   \* the parameter of chunk
  pos,          \* where the next chunk starts
  queued        \* the chunks pushed: the bytes first to last - 1 of the file

vars == <<file_size, newlines, chunk_size, pos, queued>>

Chunk == [first : Nat, last : Nat]

Init ==
  /\ file_size \in 0 .. MaxFileSize
  /\ newlines \in SUBSET (0 .. file_size - 1)
  /\ chunk_size \in ChunkSizes
  /\ pos = 0
  /\ queued = <<>>

\* memchr finds the newline n, looking from one position to the end.
Memchr(from, n) ==
  /\ n \in newlines
  /\ from <= n
  /\ \A m \in newlines : from <= m => n <= m

\* Mutant of ChunkEnd: the newline is left to the next chunk.
ChunkEndBeforeNewline(end) ==
  LET chunk_end == pos + chunk_size IN
    \/ chunk_end >= file_size /\ end = file_size
    \/ chunk_end < file_size /\ \E n \in newlines : Memchr(chunk_end, n) /\ end = n
    \/ chunk_end < file_size /\ (\A n \in newlines : n < chunk_end) /\ end = file_size

\* Mutant of ChunkEnd: the newline is looked for from the start of the chunk.
ChunkEndTooSoon(end) ==
  LET chunk_end == pos + chunk_size IN
    \/ chunk_end >= file_size /\ end = file_size
    \/ chunk_end < file_size /\ \E n \in newlines : Memchr(pos, n) /\ end = n + 1
    \/ chunk_end < file_size /\ (\A n \in newlines : n < pos) /\ end = file_size

\* Where the chunk that starts at pos ends: at the end of the file when
\* chunk_size reaches it, else after the first newline from there, if any.
ChunkEnd(end) ==
  LET chunk_end == pos + chunk_size IN
    \/ chunk_end >= file_size /\ end = file_size
    \/ chunk_end < file_size /\ \E n \in newlines : Memchr(chunk_end, n) /\ end = n + 1
    \/ chunk_end < file_size /\ (\A n \in newlines : n < chunk_end) /\ end = file_size

\* Mutant of PushChunk: chunk_size decides alone where a chunk ends.
PushFixedSize ==
  /\ pos < file_size
  /\ queued' = Append(queued, [first |-> pos, last |-> pos + chunk_size])
  /\ pos' = pos + chunk_size
  /\ UNCHANGED <<file_size, newlines, chunk_size>>

\* Mutant of PushChunk: the byte after a chunk is skipped.
PushAndSkip ==
  /\ pos < file_size
  /\ \E end \in 1 .. file_size :
       /\ ChunkEnd(end)
       /\ queued' = Append(queued, [first |-> pos, last |-> end])
       /\ pos' = end + 1
  /\ UNCHANGED <<file_size, newlines, chunk_size>>

\* Mutant of PushChunk: the loop stops at the last byte.
PushButLastByte ==
  /\ pos < file_size - 1
  /\ \E end \in 1 .. file_size :
       /\ ChunkEnd(end)
       /\ queued' = Append(queued, [first |-> pos, last |-> end])
       /\ pos' = end
  /\ UNCHANGED <<file_size, newlines, chunk_size>>

PushChunk ==
  /\ pos < file_size
  /\ \E end \in 1 .. file_size :
       /\ ChunkEnd(end)
       /\ queued' = Append(queued, [first |-> pos, last |-> end])
       /\ pos' = end
  /\ UNCHANGED <<file_size, newlines, chunk_size>>

Done == pos = file_size /\ UNCHANGED vars

Next == PushChunk \/ Done

Spec == Init /\ [][Next]_vars

\* The loop is sequential code of one thread.
FairSpec == Spec /\ WF_vars(PushChunk)
-----------------------------------------------------------------------------
(* Properties                                                              *)

\* The types of the variables.
TypeOK ==
  /\ file_size \in 0 .. MaxFileSize
  /\ newlines \subseteq 0 .. file_size - 1
  /\ chunk_size \in ChunkSizes
  /\ pos \in 0 .. file_size
  /\ queued \in Seq(Chunk)

Holds(i, x) == queued[i].first <= x /\ x < queued[i].last

\* Byte x and a later byte y belong to one record: no newline ends it between.
SameRecord(x, y) == x <= y /\ \A n \in newlines : ~(x <= n /\ n < y)

\* Every byte of the file up to pos is in exactly one chunk, and none after it
\* is in any.
EachByteOnce ==
  /\ \A x \in 0 .. pos - 1 : \E i \in DOMAIN queued : Holds(i, x)
  /\ \A i, j \in DOMAIN queued, x \in 0 .. pos : Holds(i, x) /\ Holds(j, x) => i = j
  /\ \A i \in DOMAIN queued : queued[i].last <= pos

\* A record is never split: no chunk holds one byte of it without the others.
\* The workers then parse the same documents as a single thread does on the
\* whole file.
RecordsWhole ==
  \A x, y \in 0 .. file_size - 1 :
    SameRecord(x, y) => \A i \in DOMAIN queued : Holds(i, x) <=> Holds(i, y)

\* A chunk is cut as soon as the record at chunk_size allows: it holds no byte
\* of a record that starts later, and only the last chunk is smaller.
CutInTime ==
  \A i \in DOMAIN queued :
    LET chunk_end == queued[i].first + chunk_size IN
      /\ \A n \in newlines : chunk_end <= n => queued[i].last <= n + 1
      /\ queued[i].last < file_size => chunk_end < queued[i].last

\* The loop reaches the end of the file, for a chunk_size of zero too.
Termination == <>(pos = file_size)
-----------------------------------------------------------------------------
(* The inductive invariant                                                 *)

\* Chunks start and end next to a newline, or where the file does.
CutAtNewlines ==
  /\ pos \in {0, file_size} \/ pos - 1 \in newlines
  /\ \A i \in DOMAIN queued :
       /\ queued[i].first < queued[i].last
       /\ queued[i].first = 0 \/ queued[i].first - 1 \in newlines
       /\ queued[i].last = file_size \/ queued[i].last - 1 \in newlines

IInv == TypeOK /\ EachByteOnce /\ CutInTime /\ CutAtNewlines
=============================================================================
