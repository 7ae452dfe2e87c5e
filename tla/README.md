# dataprint in TLA+

Specifications, model-checking configurations and machine-checked proofs for
dataprint, the tool in this repository that fingerprints JSONL files and
estimates their similarity. Paths are relative to the root of the repository.

To check a module: `tlc -config <run>.cfg <Module>.tla`; to check the proofs:
`tlapm` on the modules whose names end in `Proofs`. `PROJECT.json` lists the runs,
the definitions with the lines they stand for, the hazards and the theorems.

## The system

| Part | Source | State | Operations |
|---|---|---|---|
| `BoundedQueue` | `src/boundedQueue.cpp` | `queue_`, `done_`, a mutex, two condition variables | `push`, `pop`, `shutdown`, `size` |
| `run_pipeline`, `worker` | `include/processor.h` | the threads, one accumulator and one `exception_ptr` per worker | spawn, chunk, shut down, join, rethrow, reduce |
| `Processor::chunk` | `src/processor.cpp` | position in the mapped file | cut at a newline, push |
| fingerprinting | `src/processor.cpp`, `include/policies.h`, `include/utils.h` | `M`, one 128-bit sum per worker | `accumulate`, `reduce`, `add_to_m`, `printFingerprint` |
| `MaxHeap` | `src/maxheap.cpp` | a vector, a capacity | `push`, `pop`, `peek`, `replace_top`, `clear`, copies and moves |
| sketching | `include/policies.h` | a heap and a map of the hashes in it, per worker | `accumulate`, `reduce` |
| comparing | `src/processor.cpp` | two sketches | `mapify`, `jaccard`, print |
| JSON walk, hashing of values | `src/processor.cpp`, `include/utils.h` | the calls of `hashBasicValues` in progress, with their `path_hash` | `hashBasicValues`, `XXHash`, `mixHash`, `mix` |
| `hash` command | `src/processor.cpp` | a descriptor and a mapping at a time | open, map, hash, print, clean up |
| BLAKE3 hasher | `lib/blake3/blake3.c` | a chunk state and a stack of chaining values | `init`, `update`, `finalize` |
| command line | `src/main.cpp`, `src/processor.cpp` | options | parse, dispatch |

`fingerprint` and `compare` (through `sketch`) call `run_pipeline` once per
file. It creates `hardware_concurrency() - 1` threads and a queue with four
slots for each of them. The calling thread maps the file, cuts it into chunks at
newlines and pushes them; each worker pops chunks, has simdjson iterate over the
documents of a chunk and hands every document to a callback, which walks it and
accumulates the hash of each value into the worker's own accumulator. The queue
is the only thing the threads share under a lock; `results` and `exceptions` are
ordered by `join()` alone. `fingerprint_s` (option `-T`) does the same work in
one thread, without queue and chunks.

What is hard here: the wakeups and the shutdown of the queue, exceptions in some
workers while others run and the splitter sleeps, chunks refused by a queue that
was shut down, the independence of the result from the schedule, a member `M`
that lives from file to file, arithmetic next to 2^127, heaps that evict a hash
other workers have seen, resources that run out, a hash that depends on the path
and not on the order of fields or the notation of numbers, a tree hash computed
several nodes at a time, and the numeric edges of the chunking, of the
canonicalisation of numbers and of the Jaccard index. `PROJECT.json` lists these hazards line by
line. Nothing is persisted and nothing crosses a network, so there is no crash
recovery and no lost message to model.

What makes each part correct:

- queue: a bounded FIFO channel; no lost wakeup; shutdown wakes all and is final
  once drained;
- pipeline: each document counts once, an error is never lost, it ends, and the
  schedule does not show;
- chunking: the chunks partition the file and split no record;
- fingerprint: the sum of the hashes modulo PRIME, of this file only, in order;
- heap: heap order, a bag of values; sketch: the K smallest distinct hashes;
- comparing: exact where it says so, 1 for equal files, within [0, 1];
- walk: every value is hashed once, files that say the same have the same hashes,
  documents that do not have others, malformed input throws;
- `hash`: the digest of the BLAKE3 tree, of every file in order, and nothing left
  open.

## The modules

| Module | Models | Built on |
|---|---|---|
| `BoundedQueue` | the monitor: one action per section between waits | |
| `Channel` | what the queue promises | |
| `QueueClients` | the queue with producers, consumers and an owner | `BoundedQueue`, refines `Channel` |
| `Pipeline` | `run_pipeline`, `worker`, the pushing of `chunk` | `BoundedQueue`, refines `FileFold` |
| `FileFold` | what `run_pipeline` promises | |
| `Splitter` | the loop of `chunk` over the bytes | |
| `ModularSum` | `reduce_mod_p`, `add_mod` | |
| `Fingerprint` | `fingerprint`, `fingerprint_s`, `FingerprintPolicy` | `ModularSum` |
| `MaxHeap` | `MaxHeap`, one step per iteration of its loops | refines `MaxBag` |
| `MaxBag` | what the heap promises | |
| `MinK` | `sketch`, `MinKPolicy`, `MinKAccumulator` | |
| `Compare` | `compare`, `mapify`, `jaccard` | |
| `HashWalk` | `hashBasicValues`, `XXHash`, `mix`, `mixHash` | |
| `Blake3` | the hasher of `blake3.c`, and the tree it should compute | |
| `HashCommand` | `Processor::hash` | `Blake3` |
| `Content` | when two files say the same, and what their hashes tell of it | `HashWalk` |
| `MCPipeline`, `MCFingerprint`, `MCMinK`, `MCHashWalk`, `MCHashCommand` | the inputs of the TLC instances | |
| `QueueClientsProofs`, `PipelineProofs`, `FingerprintProofs`, `MappedFileProofs`, `MaxHeapProofs`, `MinKProofs`, `CompareProofs`, `HashWalkProofs` | theorems | the module they are named after; `HashWalkProofs` is about `Content` too, and `MappedFileProofs` about what is done with the bytes of a mapped file: `Splitter`, `HashCommand` and `Blake3` |

Operators called `Mutant of ...` in a comment are not part of a specification:
each is a definition as a plausible bug would leave it. Substituting it makes
TLC report the property it is paired with in `PROJECT.json`, which shows that the
property can fail.

### How states and actions correspond to the code

**Queue.** Every method holds `mutex_` from its first line to its last, except
while it waits, so a call is a sequence of atomic sections: `PushWait` and
`PopWait` end in a wait, `PushAccepted`, `PushRefused`, `PopItem` and `PopNull`
end in a return. A sleeping thread is a member of `not_full_` or `not_empty_`;
`notify_one` removes any one member, `notify_all` all of them, and a member may
leave by itself (a spurious wakeup). A thread that has left re-evaluates its
predicate, in competition with everyone else. The capacity is `max_size_`.

**Pipeline.** `pc` is where the calling thread is: creating threads, in `chunk`,
in `join`, reducing, or at the end. `worker[w]` is where worker `w` is; `item`
and `doc` are the chunk in its hands and its place in it. `results[w]` is the bag
of the documents it has accumulated: every policy whose `reduce` is a
commutative and associative sum is an image of this one. `MinKPolicy` is one as
a function of sets, which `MinK` shows in detail. A document that is
malformed may throw before or after a part of it was accumulated. `refused` is
the number of the call to the system that fails in this behaviour, 0 if none does:
constructing the vectors (`ConstructFails`), creating a thread, one after the other
(`SpawnFails`), and opening the file (`OpenFails`, for `open`, `fstat` or `mmap` in
`chunk`). An exception from them reaches the caller, but if threads are joinable the
process is terminated (`Unwind`); `FileFold` says which of the two by the number
alone. `num_workers_` may be -1, as where `hardware_concurrency()` does not know the
number of processors: the vectors would then have SIZE_MAX elements and constructing
them always fails. When `iterate_many` fails the exception is constructed but
not thrown, and the loop over the unopened stream ends at once or reports an
error; simdjson's sources do not promise which, so both are possible. `owner` is
a history variable.

**Splitter.** Positions are offsets in the mapping, and of the bytes only the
newlines matter.

**Fingerprint.** A file is the sequence of the hashes of its values. `Accumulate`
gives any hash not accumulated yet to any worker, or the next one to the only
thread in `-T` mode. That each hash goes to exactly one worker, that the reduce
runs after the last of them and that a malformed file throws is what `Pipeline`
shows. `HalfWord` stands for 2^127; words wrap around at twice that. `opened`
counts the descriptors that `chunk` leaves open. `total` and `prefix` are
history variables: the plain sums over the integers.

**MaxHeap.** A vector with positions from 0. An operation that sifts leaves
`sifting` and `i` set, and each iteration of the loop is a step, so that the
invariant of the loops is visible. On an empty heap `pop`, `peek` and `replace_top`
throw and change nothing (`ThrowOutOfRange`). `MovedFrom` is what moving leaves behind: an
empty heap of capacity 0.

**MinK.** Heaps are sequences in order of insertion; `Top` is a position of the
largest element, which `MaxHeap` shows `peek` to return and `replace_top` to
replace. The loops of `reduce` are steps, and visit the elements of a heap in
any order because the layout of the vector is abstract.

**Compare.** A file is the set of the hashes of its values and `sketch` returns
the K smallest, as `MinK` shows. The figure is a pair of numerator and
denominator: both are below 2^24, so `float` holds them, and the rounding of the
quotient is left out.

**HashWalk.** A document is a function from positions to nodes, and a position is
the list of the children to take from the root. The stack of calls of
`hashBasicValues` is the position of the value it is at (`at`), the child its
loop has come to (`index`) and the `path_hash` of every call (`paths`).
`VisitChild` is the call for a field or child, `HashValue`, `HashEmpty` and
`Leave` are its returns, `Malformed` is simdjson throwing past all calls.
`accumulated` lists what was passed to `Policy::accumulate`; the value it was
passed for is a history. Hash functions are ideal, a hash being what was hashed:
equal hashes come from equal bytes in equal order, so what the properties show is
about the structure of the hash and not about collisions of xxHash. Numbers are
counted in halves so that some are not integral, and `Limit` stands for 2^63. The
conversion of a double of exactly `Limit` to `int64_t`, undefined in C++, gives
either end of the range, and a big integer gives either of what simdjson may leave
in the number.

**Content.** Two documents say the same (`SameDocument`) if the children of every
container can be put in an order (`ChildOrders`) that turns one into the other:
that of an array has to stay, the keys of an object move with their fields, and
numbers are the same when they are equal. Files say the same if their lines can be
put in such an order. `Accumulated` counts how often the walk has accumulated each
hash, which is the fingerprint before it is added up, and the sketch before it is
cut.

**HashCommand and Blake3.** `open`, `fstat` and `mmap` may fail at every file, and
`mmap` always does for a size of 0. That `fstat` failed is not noticed: `st_size` is
then one of `Garbage`, and what is mapped (`data`) is the file cut short or continued
by zeros to the end of its last page of `PAGE` bytes; hashing beyond that page kills
the process (`BusError`). BLAKE3's hasher is a value (`chunk`, `cv_stack`)
and its functions are operators with the names of `blake3.c`; `simd_degree`, how
many chunks the processor hashes at a time, is a variable that does not change.
The compression function is ideal, so a chaining value is the tree below it.
Loops and recursions of the code are recursive functions: `layer`, `merged`, `loop`
and `up` go through the iterations, and `wide` through the lengths and places of the
subtrees. `JoinHalves` keeps the array that both halves are written to, with room for
the left one that it may not fill. `Tree` and `Digest` define the hash independently,
by the length of the left child that the BLAKE3 paper gives. The names of
`HashCommand` begin with `Hash` where `Splitter` has them too, so that one module can
prove about both.

## The runs

| Run | Instance | Shows |
|---|---|---|
| `queue` | 2 producers of 2 items, 3 consumers, 2 slots | `TypeOK`, `SleepersAreWaiting`, `NoLostWakeup`, `FIFO`, `DrainedIsFinal`, `Termination`, and the refinement of `Channel` with its liveness |
| `pipeline` | 2 workers, 2 slots, all files of up to 3 chunks, each call to the system failing | `DroppedOnlyAfterException`, `ResultsSettled`, and the refinement of `FileFold`, which includes that each document counts once, that errors surface, that nothing else throws, that a failing call throws or terminates as it should, and that `run_pipeline` ends |
| `fingerprint` | 2 workers or 1 thread, 3-bit words, lists of two and three files | `PrintsTheSum`, `OutputInOrder`, `FingerprintOfEachFile` |
| `splitter` | all files of up to 7 bytes, chunk sizes 0 to 4 | `EachByteOnce`, `RecordsWhole`, `CutInTime`, `Termination` |
| `maxheap` | up to 6 values out of 4 | `HeapOrder`, `OperationsEnd`, and the refinement of `MaxBag`, which includes that `peek` and `pop` give the largest value |
| `mink` | K = 2, 2 workers, all files of up to 4 values out of 4 | `SketchIsSmallest`, `SeenIsHeap` |
| `compare` | K = 4, all pairs of sets of 6 hashes | `ExactWhenBothFit`, `WithinUnit`, `SameFilesMatch`, `EstimateErrsUpwards` |
| `walk` | some 440 files of objects, arrays and values of every kind, 2^63 being 4 | `EachValueOnce`, `EquivalentFilesAgree`, `DocumentsToldApart` |
| `hash` | files of up to 37 bytes, blocks of 2, chunks of 4, 1, 2 or 4 at a time; pages of 8 bytes, and sizes of 0, 3 and 19 after a failed `fstat` | `DigestsOfFiles`, `NothingHeld`, `UpdatesCompose` |
| `pipeline_one_cpu`, `fingerprint_descriptors`, `walk_records` | as small as the case allows | the disagreements listed below |

Every passing run also checks the type invariant of its module.

Why the bounds are enough to be interesting. The queue has fewer slots
than there are items, and fewer than there are consumers, so both condition
variables have sleepers, several at once, and three consumers compete for two
items. Two workers and three chunks give every overlap of a worker that throws,
one that holds a chunk and a splitter that sleeps; two workers with one slot
each stand for the four slots per worker of the code (`SlotsPerWorker`), since
with four the splitter would never wait on files this short. Words of three bits
have a value below, at and above PRIME and 2^127 and the largest word, and three
of them overflow. Six heap values fill three levels, the last in part, with
duplicates. Four values over two sketches of two force evictions, duplicates
within and across workers, and merges that evict. With K = 4 and six hashes every
combination of full and partial sketches occurs, overlapping or not. The files of
`walk` are all values of every kind below a key or an index, all pairs of four
values below two keys, equal or not, or in an array, and trees three deep in which
fields and children trade places; the numbers are 2 in all notations, 2.5, and
the ones at and beyond 2^63 of both signs, and there are strings and keys with
exactly the bytes of a number, a boolean, null or an index. The files of `hash`
reach ten chunks: trees four deep, full and not, and subtrees wider and narrower
than what is hashed at a time; a file is cut at every place into two updates. A
garbage size may be shorter than the file, reach into its last page or lie beyond it.
What the bounds cannot show for all sizes, the proofs do.

Fairness. `QueueClients` and `Pipeline` assume weak fairness of each thread: the
scheduler runs every thread that can run, and a thread woken or not blocked gets
the mutex eventually. In `QueueClients` the owner is such a thread too. No
fairness is assumed of spurious wakeups or of exceptions. Which call to the system
fails is settled in the initial state, and failing is a step of the main thread like
the others.
`Splitter` and `MaxHeap` assume that a loop that can go on does.

## What the code does differently from what is said of it

1. **One processor** (`pipeline_one_cpu`). `num_workers_` is
   `hardware_concurrency() - 1`, so there are no workers, the queue has capacity
   0 and the first `push` waits for ever (`include/processor.h:82`).
2. **Many files** (`fingerprint_descriptors`). `chunk` leaves a descriptor open
   per non-empty file (`src/processor.cpp:414`); when they run out, it throws past
   the running workers and `std::terminate` ends the process.
3. **Records that exchange values** (`walk_records`). Each document is walked from
   the empty path and all hashes are added up, so nothing says which values stand
   on the same line: `{"a":1,"b":1} {"a":2,"b":2}` and `{"a":1,"b":2}
   {"a":2,"b":1}` have the same fingerprint, and similarity 1
   (`src/processor.cpp:440`). `docs/fingerprinting.md` says that fingerprints show
   that a file has changed meaningfully.

Some properties hold only with an exception, which their definitions name:

- `SameFilesMatch`: a file of exactly K/2 distinct hashes is measured as 50%
  similar to itself, since the sizes then sum to K and `jaccard` takes them for
  two full sketches (`src/processor.cpp:514`).
- `ExactWhenBothFit`: where the sizes of two sketches that are not full sum to K,
  `jaccard` divides by K for the same reason; the property then says that the figure
  is at most the index and at least half of it. If one sketch is full and the other
  is not, the branch commented "this is an exact answer" is taken
  (`src/processor.cpp:510`), but what the full sketch leaves out is not counted, and
  the figure is not the index.
- `EstimateErrsUpwards`: with both sketches full, u / K counts the hashes both
  hold out of K, and is never below the bottom-k estimate, which looks at the K
  smallest of the union. Two files with exactly K hashes each, complete in their
  sketches, are measured with it too.
- `OutputInOrder`: the output of the threaded mode also ends when the process is out
  of descriptors (see 2 above).
- `DigestsOfFiles`: a file whose `fstat` failed is hashed with a size that is not its
  own, and a digest is printed all the same (`src/processor.cpp:317`).
- `EquivalentFilesAgree` leaves out the doubles of 2^63 and more and the big
  integers (`PlainNumbers`): the conversion is undefined at 2^63, a double beyond
  it is not hashed like the `uint64` of the same value, and a big integer is
  rounded (`src/processor.cpp:222`).
- `DocumentsToldApart` leaves out (`Plain`) empty objects and arrays, which are
  hashed without their path (`src/processor.cpp:263`), objects with a key twice,
  keys with the 24 bytes of an array index, and strings with the bytes of another
  value: the string of one byte 1 is hashed like `true` (`src/processor.cpp:184`).
- In `Pipeline`, when `iterate_many` fails, the exception is constructed and not
  thrown (`include/processor.h:138`), and the loop over the unopened stream ends
  at once or reports an error; the model and the promise of `FileFold` allow both.

## The proofs

The theorems hold for every value of the constants that satisfies the
assumptions named in the modules: any finite sets of threads, any capacity, any
number of workers, files, chunks, hashes and values. Each component has an
inductive invariant `IInv`, checked by TLC before it was proved; the theorems
follow from `Spec => []IInv`.

- **Queue.** `IInv` adds to the checked invariants only who may be in which call
  (`Roles`). `NoLostWakeup` is inductive by itself: while somebody sleeps for want
  of an item, at least as many threads are awake inside `pop` as there are items.
  A push adds one item and wakes one sleeper; a pop takes one of each. From this:
  `TypeCorrect`, `ShutdownWakesAll`, `WakeupsSuffice`, `FirstInFirstOut`,
  `DrainedStaysDrained`, and `ImplementsChannel`, the safety part of the
  refinement.
- **Pipeline.** `IInv` relates the phases of the calling thread to the workers'
  (`Phases`), the queue to `owner` (`QueuedChunks`), the shutdown to its causes
  (`ShutdownCauses`), the chunk in a worker's hands to its exception
  (`HeldChunks`), each accumulator to the chunks its worker popped
  (`WorkersResults`) and `global` to the workers reduced so far
  (`ReducedResults`). The argument: a worker leaves without an exception only if
  the queue is shut down and drained; without any exception it is shut down only
  after the last push; so when all have left and none has thrown, every chunk has
  an owner, and its owner has read all of it. `ImplementsFold` is the safety part
  of the refinement: for any schedule, any files and any failing call.
- **Fingerprint.** `ReduceModP` and `AddMod` show that the arithmetic is that of
  remainders for every word; `Shares` keeps each worker's sum equal to its share
  of the plain sum modulo PRIME, and the reduction adds the shares up. That this
  plain sum is that of the file as it lies there (`EachFingerprintIsTheSum`) needs
  the sum to be independent of the order in which hashes are taken: `Accumulated`
  says that it is the sum of the file with the hashes still to come taken for
  zeros, and `SumOfOneMore` that filling in one of them adds it, wherever it is.
- **Splitter.** Chunks start and end next to newlines (`CutAtNewlines`), from
  which `NoRecordSplit` follows.
- **HashCommand.** `HashIInv` says which of descriptor and mapping is held where
  (`HeldAt`), how many digests are printed (`PrintedAt`), of how many files the size is
  told (`SizesAt`), and that the digests are those of the first files, except where the
  size was wrong (`PrintedDigests`). That only a wrong size kills the process needs the
  pages of a file to hold all of it (`PagesHoldFile`). It gives `HashTypes`, `HashHoldsNothing` and `DigestsArePrinted`; the
  one step that is work is `HashAndPrint`, and that is about BLAKE3.
- **Blake3.** That init, one or two updates and finalize give `Digest` (`OneUpdate`,
  `TwoUpdates`), for bytes of any number, any block length, any power of two as the
  chunk length that it divides, and any power of two of chunks hashed at a time. `At(d,
  p, r)` is the chaining value of the node over r chunks after the first p, and `Layer`
  a row of them. A chunk state is the chain of the blocks it has taken in
  (`IsChunkOf`). The recursion over wide subtrees gives a layer, for every power of two
  of chunks (`WideLayers`), and `Condense` its two topmost values (`SubtreePair`). For
  the stack, `Peaks(d)[j][u]` are the values of the subtrees that j subtrees of u chunks
  can be merged to, by the bits of j: merging one more in changes the peaks of j to
  those of j + 1 in as many steps as the carry of the addition has (`MergeNext`), which
  is what the count of 1-bits in `hasher_merge_cv_stack` relies on. The code merges
  late, so after a chunk was pushed the stack is only what the next push will make the
  peaks (`Merged`), and after a whole subtree it still has its two halves on top
  (`Lazy`), which may be the root's. `Represents(h, d, n)` puts this together: h has
  been given the first n bytes of d. An update keeps it (`UpdateRepresents`), through
  the completion of a begun chunk and the loop over subtrees, whose length divides what
  was hashed before (`ShrinkToDivide`). Rolling up the peaks from the top forms the
  right edge of the tree and ends at its root (`RollPeaks`), so `Finalize` gives the
  digest of all n bytes. `UpdatesMayBeSplit` follows.
- **MaxHeap.** `AllButOne` is the invariant of the loops: only the value that
  moves is out of order, and those below it are in order with the one above it.
  `RootLargest` needs an induction along the path to the root: the first position
  that holds more than the root would have a parent that does, too. `ImplementsBag`
  is the refinement of `MaxBag`, complete, since the promise has no fairness: the
  copies of each value are counted, a swap is a permutation of the positions
  (`SwapKeepsBag`), and the root is the largest of the bag (`RootIsLargestOfBag`).
- **MinK.** `AccumulateKeepsSmallest` and `MergeKeepsSmallest` are the lemmas about
  the policy; the second compares the sizes of heaps by an injection. They give
  `SketchHoldsSmallest` for any number of workers and any schedule.

- **Compare.** The invariant is only that the two sketches are those of the files.
  The work is in lemmas on cardinalities: a sketch of a file of up to K hashes is
  the file (`SketchOfSmall`), one of a larger file holds exactly K (`SketchFits`
  looks at the largest hash in it, `SketchFull` at the least one left out), and a
  hash among the K smallest of two files is among those of its own
  (`SketchOfPart`). From these follow `IndexWithinUnit`, `SameFilesAreFoundEqual`,
  `ExactBelowK` (which bounds the figure where the sizes sum to K, too) and `FullSketchesErrUpwards`, for every K.
- **HashWalk.** `IInv` says that the stack of calls holds the path hash of every
  part of the position (`Stack`), that what is accumulated are values of the file
  and none twice (`Entries`), and that they are exactly the ones the walk has
  returned from (`Progress`): those that at some level went to a child before the
  one the walk is at (`Passed`). Going to a child passes nothing (`VisitPasses`); a
  return passes the position and all below it (`ReturnPasses`), which is nothing
  for a value (`NothingBelow`) and was passed already for a container. That the
  way to a position leads through the document (`PartsAreThere`) takes an
  induction over its length, by a least counterexample. `EachValueHashedOnce`
  follows, for documents of any depth.
- **Content.** From the same invariant: when the walk returns, it has accumulated
  each hash as often as it occurs among the values of the file
  (`AccumulatedHashes`). Reordering moves positions one to one (`MovedApart`) and
  keeps the keys and indices that lead to them (`MovedPath`), and a plain number
  has the bytes of its value alone, whatever its notation (`NumberIsCanonical`):
  so `SameContentSameHashes`, and `EquivalentFilesHashTheSame`. The converse,
  `SameHashesSameContent`, builds the order from the hashes: in a plain document
  no two positions have the same path (`PathApart`), below each there is a value
  (`LeafBelow`), and the bytes of a value tell what it is (`BytesTell`); so
  documents with the same hashes have the same paths, equal containers along them
  (`SameContainer`) and equal values at their ends. `DocumentsAreToldApart`
  follows, for documents of any depth and width.

A fact about all numbers, positions or trees is proved by a least counterexample,
and a sum or a document is a function, so that none of the proofs needs an
induction theorem but that Nat is well founded.

Only model-checked: liveness (`Termination`, `OperationsEnd`, the fairness of
`ChannelSpec` and `FoldSpec`), which is out of the prover's reach. Every safety
property of the passing runs, and the safety part of each refinement, is a theorem.
`ExactlyOnce` and `ErrorsSurface` (Pipeline) and `RootIsLargest` (MaxHeap) are
proved; TLC does not check them on their own, since the refinements imply them.

## Not modelled

- `Processor::run` and `main`: a comparison of the name of the subcommand and
  declarations for CLI11, before anything has a state. That `main` catches nothing
  is why an exception ends the process.
- `operator<<` and `printBytesAsHex`: how 128 or 256 bits become hexadecimal
  digits.
- The vendored libraries, which are most of the lines of this repository. Of
  simdjson (58000 lines) the models keep what the callers see: a stream that opens
  or not, documents that are well formed or not, and trees of values; the header
  that declares the `ondemand` interface is not in the repository. xxHash and the
  compression function of BLAKE3 are ideal hash functions; the SIMD kernels,
  `blake3_dispatch.c`, keyed hashing, key derivation and seeking in the output are
  not called or compute the same function faster. CLI11 parses the command line;
  Catch2 runs the tests.
- `mix` and `mixHash` on the level of bits, and with them collisions.
- `mapify`'s map from hashes to themselves: `Shared` looks up in a set.
- Copies of `MaxHeap` and `reserve`: a copy is a heap of its own in the same state,
  and copying leaves the source alone.
- A file that changes while it is mapped, a document that spans lines, exhaustion
  of memory elsewhere than in the vectors of `run_pipeline`: the program handles none of
  them.

## Plan

1. Done: queue, pipeline, chunking, fingerprint, heap, sketch, compare, the walk and
   its hashes, the `hash` command with BLAKE3's tree, and the proofs above.
2. Possible further proofs: that the heap of `MinK` may be replaced by `MaxHeap`; that
   any number of updates may be composed, which `Represents` prepares.
3. Not planned: models inside the vendored libraries, which have their own tests.
