-------------------------------- MODULE MinK --------------------------------
(***************************************************************************)
(* Processor::sketch (src/processor.cpp) with MinKPolicy and               *)
(* MinKAccumulator (include/policies.h): each worker keeps the K smallest  *)
(* hashes it meets, and the workers' heaps are merged one after another.   *)
(*                                                                         *)
(* Of the vector of a heap only the order of its elements is abstracted:   *)
(* push appends, replace_top overwrites a largest element (see MaxHeap),   *)
(* and a loop over data() takes the elements in any order.  As in          *)
(* Fingerprint, run_pipeline hands every hash to one worker, in any order. *)
(***************************************************************************)
EXTENDS Integers, Sequences

CONSTANTS
  K,              \* elements in a sketch: 20000 in the code
  MaxHash,        \* the largest hash: 2^128 - 1
  num_workers_,   \* worker threads
  Inputs          \* the files that may be given, as sequences of hashes

Hash == 0 .. MaxHash

ASSUME MinKAssumption ==
  /\ K \in Nat \ {0}
  /\ MaxHash \in Nat
  /\ num_workers_ \in Nat \ {0}
  /\ Inputs \subseteq Seq(Hash)

VARIABLES
  hashes,    \* the hashes of the values in the file
  pc,        \* where run_pipeline is
  todo,      \* the positions in hashes not accumulated yet
  local,     \* per worker: its accumulator
  global,    \* the accumulator the results are reduced into
  merged,    \* the accumulator reduce builds
  left,      \* what its loops still have to visit: <<which heap, position>>
  reduced,   \* accumulators reduced so far
  taken,     \* history: per worker, the hashes it has been given
  visited    \* history: the elements given to merged

vars == <<hashes, pc, todo, local, global, merged, left, reduced, taken, visited>>

Workers == 1 .. num_workers_
Accumulator == {acc \in [heap : Seq(Hash), seen : SUBSET Hash] : Len(acc.heap) <= K}
NewAccumulator == [heap |-> <<>>, seen |-> {}]

Elements(heap) == {heap[i] : i \in DOMAIN heap}

Init ==
  /\ hashes \in Inputs
  /\ pc = "fold"
  /\ todo = DOMAIN hashes
  /\ local = [w \in Workers |-> NewAccumulator]
  /\ global = NewAccumulator
  /\ merged = NewAccumulator
  /\ left = {}
  /\ reduced = 0
  /\ taken = [w \in Workers |-> {}]
  /\ visited = {}

-----------------------------------------------------------------------------
(* MinKPolicy::accumulate                                                  *)

\* Mutant of full: one element too many.
FullBeyondK(heap) == Len(heap) > K

full(heap) == Len(heap) = K

\* A position of the element that peek returns.
IsTop(heap, i) == i \in DOMAIN heap /\ \A j \in DOMAIN heap : heap[j] <= heap[i]
Top(heap) == CHOOSE i \in DOMAIN heap : IsTop(heap, i)
peek(heap) == heap[Top(heap)]

Push(acc, h) ==
  [heap |-> Append(acc.heap, h), seen |-> acc.seen \cup {h}]

\* Mutant of ReplaceTop: the map keeps the hash that is evicted.
ReplaceTopKeepsSeen(acc, h) ==
  [heap |-> [acc.heap EXCEPT ![Top(acc.heap)] = h],
   seen |-> acc.seen \cup {h}]

ReplaceTop(acc, h) ==
  [heap |-> [acc.heap EXCEPT ![Top(acc.heap)] = h],
   seen |-> (acc.seen \ {peek(acc.heap)}) \cup {h}]

accumulate(acc, h) ==
  IF h \in acc.seen THEN acc
  ELSE IF ~full(acc.heap) THEN Push(acc, h)
  ELSE IF h < peek(acc.heap) THEN ReplaceTop(acc, h)
  ELSE acc

-----------------------------------------------------------------------------

\* A worker accumulates a hash of a document it has parsed.
Accumulate(w, i) ==
  /\ pc = "fold"
  /\ todo' = todo \ {i}
  /\ local' = [local EXCEPT ![w] = accumulate(@, hashes[i])]
  /\ taken' = [taken EXCEPT ![w] = @ \cup {hashes[i]}]
  /\ UNCHANGED <<hashes, pc, global, merged, left, reduced, visited>>

FoldDone ==
  /\ pc = "fold"
  /\ todo = {}
  /\ pc' = "reduce"
  /\ UNCHANGED <<hashes, todo, local, global, merged, left, reduced, taken, visited>>

\* Mutant of StartReduce: what was reduced before is not visited.
StartReduceLocalOnly ==
  /\ pc = "reduce"
  /\ reduced < num_workers_
  /\ pc' = "merge"
  /\ merged' = NewAccumulator
  /\ left' = {"local"} \X DOMAIN local[reduced + 1].heap
  /\ visited' = {}
  /\ UNCHANGED <<hashes, todo, local, global, reduced, taken>>

\* MinKPolicy::reduce starts with an empty accumulator.
StartReduce ==
  /\ pc = "reduce"
  /\ reduced < num_workers_
  /\ pc' = "merge"
  /\ merged' = NewAccumulator
  /\ left' = ({"global"} \X DOMAIN global.heap)
             \cup ({"local"} \X DOMAIN local[reduced + 1].heap)
  /\ visited' = {}
  /\ UNCHANGED <<hashes, todo, local, global, reduced, taken>>

\* An iteration of its loops: global's elements come before local's.
Merge(which, i) ==
  /\ pc = "merge"
  /\ <<which, i>> \in left
  /\ which = "local" => \A l \in left : l[1] = "local"
  /\ LET heap == IF which = "global" THEN global.heap ELSE local[reduced + 1].heap IN
       /\ merged' = accumulate(merged, heap[i])
       /\ visited' = visited \cup {heap[i]}
  /\ left' = left \ {<<which, i>>}
  /\ UNCHANGED <<hashes, pc, todo, local, global, reduced, taken>>

\* global = std::move(merged)
MergeDone ==
  /\ pc = "merge"
  /\ left = {}
  /\ pc' = "reduce"
  /\ global' = merged
  /\ merged' = NewAccumulator
  /\ reduced' = reduced + 1
  /\ visited' = {}
  /\ UNCHANGED <<hashes, todo, local, left, taken>>

Return ==
  /\ pc = "reduce"
  /\ reduced = num_workers_
  /\ pc' = "end"
  /\ UNCHANGED <<hashes, todo, local, global, merged, left, reduced, taken, visited>>

Ended == pc = "end" /\ UNCHANGED vars

Step ==
  \/ \E w \in Workers, i \in todo : Accumulate(w, i)
  \/ FoldDone \/ StartReduce
  \/ \E l \in left : Merge(l[1], l[2])
  \/ MergeDone \/ Return

Next == Step \/ Ended

Spec == Init /\ [][Next]_vars
-----------------------------------------------------------------------------
(* Properties                                                              *)

\* The types of the variables, and the capacity of the heaps, which
\* MaxHeap::push does not enforce.
TypeOK ==
  /\ hashes \in Inputs
  /\ pc \in {"fold", "reduce", "merge", "end"}
  /\ todo \subseteq DOMAIN hashes
  /\ local \in [Workers -> Accumulator]
  /\ global \in Accumulator
  /\ merged \in Accumulator
  /\ left \subseteq {"global", "local"} \X Nat
  /\ reduced \in 0 .. num_workers_
  /\ taken \in [Workers -> SUBSET Hash]
  /\ visited \subseteq Hash

NoDuplicates(heap) == \A i, j \in DOMAIN heap : heap[i] = heap[j] => i = j

\* The heap holds K elements of S, each once, and all others of S are larger;
\* or it holds all of S.
HoldsSmallest(heap, S) ==
  /\ NoDuplicates(heap)
  /\ Elements(heap) \subseteq S
  /\ Len(heap) <= K
  /\ \A h \in S \ Elements(heap) : Len(heap) = K /\ \A i \in DOMAIN heap : heap[i] < h

\* The sketch of a file is made of the K smallest hashes of its values, however
\* they are spread over the workers, repeated, and ordered.
SketchIsSmallest ==
  pc = "end" => HoldsSmallest(global.heap, {hashes[i] : i \in DOMAIN hashes})

\* The map and the heap of an accumulator hold the same hashes: the map forgets
\* what the heap evicts, so it never outgrows it, and no hash is pushed twice.
SeenIsHeap ==
  /\ \A w \in Workers : local[w].seen = Elements(local[w].heap)
  /\ merged.seen = Elements(merged.heap)
  /\ global.seen = Elements(global.heap)
-----------------------------------------------------------------------------
(* The inductive invariant                                                 *)

\* Every hash not waiting has been given to a worker, and no other.
Taken ==
  /\ \A w \in Workers : taken[w] \subseteq {hashes[i] : i \in DOMAIN hashes}
  /\ \A i \in DOMAIN hashes \ todo : \E w \in Workers : hashes[i] \in taken[w]
  /\ pc # "fold" => todo = {}

TakenBy(n) == UNION {taken[w] : w \in 1 .. n}

Folded ==
  /\ \A w \in Workers : HoldsSmallest(local[w].heap, taken[w])
  /\ HoldsSmallest(global.heap, TakenBy(reduced))
  /\ HoldsSmallest(merged.heap, visited)

\* The elements of both heaps are visited, or left.
Merging ==
  /\ pc = "fold" => reduced = 0
  /\ pc # "merge" => visited = {}
  /\ pc = "merge" =>
       /\ reduced < num_workers_
       /\ visited \subseteq Elements(global.heap) \cup Elements(local[reduced + 1].heap)
       /\ \A i \in DOMAIN global.heap : global.heap[i] \in visited \/ <<"global", i>> \in left
       /\ \A i \in DOMAIN local[reduced + 1].heap :
            local[reduced + 1].heap[i] \in visited \/ <<"local", i>> \in left
       /\ \A l \in left :
            \/ l[1] = "global" /\ l[2] \in DOMAIN global.heap
            \/ l[1] = "local" /\ l[2] \in DOMAIN local[reduced + 1].heap
  /\ pc = "end" => reduced = num_workers_

IInv == TypeOK /\ SeenIsHeap /\ Taken /\ Folded /\ Merging
=============================================================================
