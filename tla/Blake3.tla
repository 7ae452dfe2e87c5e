------------------------------- MODULE Blake3 -------------------------------
(***************************************************************************)
(* The hasher of lib/blake3/blake3.c, as Processor::hash uses it: init,    *)
(* update and finalize of an unkeyed hash of BLAKE3_OUT_LEN bytes.         *)
(*                                                                         *)
(* The compression function is ideal: a chaining value is what was         *)
(* compressed.  What is modelled is which blocks are compressed into which *)
(* tree, by code that takes chunks and parents several at a time and       *)
(* merges subtrees as late as it can.                                      *)
(***************************************************************************)
EXTENDS Integers, Sequences

CONSTANTS
  BLOCK_LEN,     \* bytes in a block: 64
  CHUNK_LEN,     \* bytes in a chunk: 1024
  SimdDegrees    \* how many chunks a processor may hash at a time

VARIABLE simd_degree   \* how many this one does, found out at run time

IV == "IV"

From(s, i) == SubSeq(s, i, Len(s))
SmallerOf(m, n) == IF m <= n THEN m ELSE n

\* The parts of s of length n, of which the last may be shorter.
Parts(s, n) ==
  [i \in 1 .. (Len(s) + n - 1) \div n |-> SubSeq(s, n * (i - 1) + 1, SmallerOf(n * i, Len(s)))]

round_down_to_power_of_2(n) ==
  LET down[m \in 0 .. n] == IF m <= 1 THEN 1 ELSE 2 * down[m \div 2]
  IN down[n]

popcnt(n) ==
  LET ones[m \in 0 .. n] == IF m = 0 THEN 0 ELSE (m % 2) + ones[m \div 2]
  IN ones[n]

IsPowerOfTwo(n) == n > 0 /\ round_down_to_power_of_2(n) = n

ASSUME Blake3Assumption ==
  /\ BLOCK_LEN \in Nat \ {0}
  /\ CHUNK_LEN \in Nat /\ CHUNK_LEN % BLOCK_LEN = 0 /\ IsPowerOfTwo(CHUNK_LEN)
  /\ SimdDegrees \subseteq Nat /\ \A n \in SimdDegrees : IsPowerOfTwo(n)

-----------------------------------------------------------------------------
(* Chunks and parents                                                      *)

compress(cv, block, counter, flags) == <<flags, counter, cv, block>>

\* What is left to compress: the last block of a chunk, or a parent.
make_output(cv, block, counter, flags) ==
  [cv |-> cv, block |-> block, counter |-> counter, flags |-> flags]
chaining_value(o) == compress(o.cv, o.block, o.counter, o.flags)
root_bytes(o) == compress(o.cv, o.block, 0, o.flags \cup {"ROOT"})

parent_output(left, right) == make_output(IV, <<left, right>>, 0, {"PARENT"})

new_chunk(counter) == [cv |-> IV, counter |-> counter, buf |-> <<>>, blocks |-> 0]
chunk_len(chunk) == BLOCK_LEN * chunk.blocks + Len(chunk.buf)
start_flag(chunk) == IF chunk.blocks = 0 THEN {"CHUNK_START"} ELSE {}

chunk_output(chunk) ==
  make_output(chunk.cv, chunk.buf, chunk.counter, start_flag(chunk) \cup {"CHUNK_END"})

compress_block(chunk, block) ==
  [chunk EXCEPT !.blocks = @ + 1,
                !.cv = compress(@, block, chunk.counter, start_flag(chunk))]

\* A block is compressed once it is known not to be the last of its chunk.
chunk_update(chunk, input) ==
  LET bytes == chunk.buf \o input
      full == IF bytes = <<>> THEN 0 ELSE (Len(bytes) - 1) \div BLOCK_LEN
      block(i) == SubSeq(bytes, BLOCK_LEN * (i - 1) + 1, BLOCK_LEN * i)
      after[i \in 0 .. full] ==
        IF i = 0 THEN chunk ELSE compress_block(after[i - 1], block(i))
  IN [after[full] EXCEPT !.buf = From(bytes, BLOCK_LEN * full + 1)]

chunk_cv(input, counter) == chaining_value(chunk_output(chunk_update(new_chunk(counter), input)))

\* Mutant of compress_chunks_parallel: the counter is not incremented.
compress_chunks_uncounted(input, counter) ==
  LET chunks == Parts(input, CHUNK_LEN)
  IN [i \in DOMAIN chunks |-> chunk_cv(chunks[i], counter)]

\* The chaining values of the chunks of input, the last of which may be partial.
compress_chunks_parallel(input, counter) ==
  LET chunks == Parts(input, CHUNK_LEN)
  IN [i \in DOMAIN chunks |-> chunk_cv(chunks[i], counter + i - 1)]

\* The parents of pairs; an odd one left over is kept.
compress_parents_parallel(cvs) ==
  [i \in 1 .. (Len(cvs) + 1) \div 2 |->
     IF 2 * i <= Len(cvs) THEN chaining_value(parent_output(cvs[2 * i - 1], cvs[2 * i]))
                          ELSE cvs[2 * i - 1]]

\* The largest power of two of chunks that leaves something for the right.
left_subtree_len(len) == CHUNK_LEN * round_down_to_power_of_2((len - 1) \div CHUNK_LEN)

\* One layer over those of the two halves of a subtree.  Those of the right
\* half are written behind room for degree values of the left.
JoinHalves(left, right, left_len) ==
  LET degree == IF left_len > CHUNK_LEN /\ simd_degree = 1 THEN 2 ELSE simd_degree
      cv_array == [i \in 1 .. degree + Len(right) |->
                     CASE i <= Len(left) -> left[i]
                       [] i > degree -> right[i - degree]
                       [] OTHER -> <<"unset">>]
  IN IF Len(left) = 1
       THEN SubSeq(cv_array, 1, 2)
       ELSE compress_parents_parallel(SubSeq(cv_array, 1, Len(left) + Len(right)))

\* The chaining values of a layer of the subtree over input, as wide as is
\* hashed at a time and at least two, unless there is but one chunk: wide has
\* that of the len bytes after from.
compress_subtree_wide(input, counter) ==
  LET wide[len \in 0 .. Len(input)] ==
        [from \in 0 .. Len(input) - len |->
           IF len <= simd_degree * CHUNK_LEN
             THEN compress_chunks_parallel(SubSeq(input, from + 1, from + len),
                                           counter + from \div CHUNK_LEN)
             ELSE LET left_len == left_subtree_len(len)
                  IN JoinHalves(wide[left_len][from],
                                wide[len - left_len][from + left_len], left_len)]
  IN wide[Len(input)][0]

\* Parents are formed until two chaining values are left.
CondenseOnce(cvs) == IF Len(cvs) > 2 THEN compress_parents_parallel(cvs) ELSE cvs
Condense(cvs) ==
  LET layer[i \in 0 .. Len(cvs)] == IF i = 0 THEN cvs ELSE CondenseOnce(layer[i - 1])
  IN layer[Len(cvs)]

\* The two chaining values below the root of the subtree over input.
compress_subtree_to_parent_node(input, counter) ==
  Condense(compress_subtree_wide(input, counter))

-----------------------------------------------------------------------------
(* The hasher                                                              *)

hasher_init == [chunk |-> new_chunk(0), cv_stack |-> <<>>]

MergeTop(stack) ==
  LET n == Len(stack) IN
  Append(SubSeq(stack, 1, n - 2), chaining_value(parent_output(stack[n - 1], stack[n])))

\* Pairs on the stack are merged until there is one entry per 1-bit of total.
merge_cv_stack(stack, total) ==
  LET merged[i \in 0 .. Len(stack)] == IF i = 0 THEN stack ELSE MergeTop(merged[i - 1])
  IN IF Len(stack) <= popcnt(total) THEN stack ELSE merged[Len(stack) - popcnt(total)]

push_cv(stack, cv, counter) == Append(merge_cv_stack(stack, counter), cv)

\* Mutant of ShrinkToDivide: the chunks so far are not looked at.
NoShrink(len, count) == len

\* The largest subtree that starts after the chunks so far: a power of two of
\* bytes that divides what was hashed.
ShrinkToDivide(len, count) ==
  LET shrunk[l \in 1 .. len] == IF count % l # 0 THEN shrunk[l \div 2] ELSE l
  IN shrunk[len]

\* Hash the next subtree of the input, which is longer than a chunk.
hash_subtree(h, input) ==
  LET counter == h.chunk.counter
      len == ShrinkToDivide(round_down_to_power_of_2(Len(input)), counter * CHUNK_LEN)
      subtree == SubSeq(input, 1, len)
      pair == compress_subtree_to_parent_node(subtree, counter)
      chunks == len \div CHUNK_LEN
  IN [h |-> [chunk |-> [h.chunk EXCEPT !.counter = @ + chunks],
             cv_stack |->
               IF len <= CHUNK_LEN
                 THEN push_cv(h.cv_stack, chunk_cv(subtree, counter), counter)
                 ELSE push_cv(push_cv(h.cv_stack, pair[1], counter), pair[2],
                              counter + chunks \div 2)],
      input |-> From(input, len + 1)]

\* The loop over subtrees, and what is left for the chunk state.
Round(s) == IF Len(s.input) > CHUNK_LEN THEN hash_subtree(s.h, s.input) ELSE s
update_subtrees(h, input) ==
  LET loop[i \in 0 .. Len(input)] == IF i = 0 THEN [h |-> h, input |-> input] ELSE Round(loop[i - 1])
      end == loop[Len(input)]
  IN IF end.input = <<>> THEN end.h
     ELSE [chunk |-> chunk_update(end.h.chunk, end.input),
           cv_stack |-> merge_cv_stack(end.h.cv_stack, end.h.chunk.counter)]

\* A chunk begun by an earlier update is completed first.
hasher_update(h, input) ==
  LET begun == chunk_len(h.chunk)
      take == SmallerOf(CHUNK_LEN - begun, Len(input))
      chunk == chunk_update(h.chunk, SubSeq(input, 1, take))
      counter == h.chunk.counter
  IN IF begun = 0 THEN update_subtrees(h, input)
     ELSE IF take = Len(input) THEN [h EXCEPT !.chunk = chunk]
     ELSE update_subtrees(
            [chunk |-> new_chunk(counter + 1),
             cv_stack |-> push_cv(h.cv_stack, chaining_value(chunk_output(chunk)), counter)],
            From(input, take + 1))

\* The stack is rolled up from its top, starting with the chunk begun or with
\* the top two entries.
RollUp(output, stack) ==
  LET up[i \in 0 .. Len(stack)] ==
        IF i = 0 THEN output
                 ELSE parent_output(stack[Len(stack) + 1 - i], chaining_value(up[i - 1]))
  IN up[Len(stack)]

hasher_finalize(h) ==
  LET n == Len(h.cv_stack) IN
  root_bytes(
    IF n = 0 \/ chunk_len(h.chunk) > 0
      THEN RollUp(chunk_output(h.chunk), h.cv_stack)
      ELSE RollUp(parent_output(h.cv_stack[n - 1], h.cv_stack[n]), SubSeq(h.cv_stack, 1, n - 2)))

-----------------------------------------------------------------------------
(* The hash as the tree that the BLAKE3 paper defines                      *)

\* The output of a chunk: its blocks are chained, the first and last are marked.
ChunkNode(input, counter) ==
  LET blocks == IF input = <<>> THEN <<<<>>>> ELSE Parts(input, BLOCK_LEN)
      n == Len(blocks)
      flags(i) == (IF i = 1 THEN {"CHUNK_START"} ELSE {}) \cup (IF i = n THEN {"CHUNK_END"} ELSE {})
      cv[i \in 0 .. n - 1] ==
        IF i = 0 THEN IV ELSE compress(cv[i - 1], blocks[i], counter, flags(i))
  IN make_output(cv[n - 1], blocks[n], counter, flags(n))

\* The outputs of the nodes over len bytes of the input, starting after from:
\* a left child holds the largest power of two of chunks that leaves a byte for
\* the right child.
Tree(input) ==
  LET LeftLen(len) == CHUNK_LEN * (CHOOSE c \in 1 .. len : IsPowerOfTwo(c) /\
                                     c * CHUNK_LEN < len /\ len <= 2 * c * CHUNK_LEN)
      node[len \in 0 .. Len(input)] ==
        [from \in 0 .. Len(input) - len |->
           IF len <= CHUNK_LEN
             THEN ChunkNode(SubSeq(input, from + 1, from + len), from \div CHUNK_LEN)
             ELSE parent_output(chaining_value(node[LeftLen(len)][from]),
                                chaining_value(node[len - LeftLen(len)][from + LeftLen(len)]))]
  IN node

Digest(input) == root_bytes(Tree(input)[Len(input)][0])
=============================================================================
