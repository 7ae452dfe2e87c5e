------------------------------ MODULE Pipeline ------------------------------
(***************************************************************************)
(* run_pipeline, worker (include/processor.h) and the pushing side of      *)
(* Processor::chunk (src/processor.cpp): one thread splits the file into   *)
(* chunks and pushes them, num_workers_ threads pop chunks and fold the    *)
(* documents they hold into one accumulator each, and the main thread      *)
(* joins the workers, rethrows the first exception or reduces the          *)
(* accumulators.                                                           *)
(*                                                                         *)
(* An accumulator is the bag of the documents accumulated into it: reduce  *)
(* is the sum of bags.  Every policy whose reduce is associative and       *)
(* commutative is an image of this one.                                    *)
(***************************************************************************)
EXTENDS BoundedQueue, Integers, FiniteSets

CONSTANTS
  num_workers_,     \* hardware_concurrency() - 1: -1 where that is not known
  SlotsPerWorker,   \* queue slots per worker: 4 in the code
  Files,            \* the files that may be given (see FileFold)
  Refusals          \* the numbers of the calls that may fail (see refused)

\* With num_workers_ = -1 the vectors would have SIZE_MAX elements: constructing
\* them fails.
ASSUME PipelineAssumption ==
  /\ num_workers_ \in Nat \cup {-1}
  /\ SlotsPerWorker \in Nat \ {0}
  /\ num_workers_ \in Nat => max_size_ = num_workers_ * SlotsPerWorker
  /\ Files \subseteq Seq([opened : BOOLEAN, docs : Seq({"ok", "bad"})])
  /\ Refusals \subseteq 0 .. num_workers_ + 2
  /\ num_workers_ = -1 => 0 \notin Refusals

VARIABLES
  file,         \* the file, cut into chunks
  refused,      \* the call that fails, 0 if none: 1 constructs the vectors,
                \* 1 + w creates thread w, num_workers_ + 2 opens the file
  pc,           \* where the main thread is
  spawned,      \* threads created so far
  pos,          \* chunks the splitter is done with
  worker,       \* per worker: where its thread is
  item,         \* per worker: the chunk it holds, 0 if none
  doc,          \* per worker: the document of the chunk to read next
  results,      \* per worker: its accumulator
  exceptions,   \* the workers whose exception_ptr is set
  owner,        \* history: the worker that popped each chunk, 0 if none
  global,       \* the reduced accumulator
  reduced,      \* accumulators reduced so far
  outcome       \* "none" until the call ends

mainVars == <<pc, spawned, pos, global, reduced, outcome>>
workerVars == <<worker, item, doc, results, exceptions, owner>>
vars == <<queueVars, file, refused, mainVars, workerVars>>

Main == 0
Workers == 1 .. num_workers_

Chunks == 1 .. Len(file)
Documents == UNION {{c} \X (1 .. Len(file[c].docs)) : c \in Chunks}
NoDocuments == [d \in Documents |-> 0]

Init ==
  /\ QueueInit
  /\ file \in Files
  /\ refused \in Refusals
  /\ pc = "spawn"
  /\ spawned = 0
  /\ pos = 0
  /\ worker = [w \in Workers |-> "unborn"]
  /\ item = [w \in Workers |-> 0]
  /\ doc = [w \in Workers |-> 1]
  /\ results = [w \in Workers |-> NoDocuments]
  /\ exceptions = {}
  /\ owner = [c \in Chunks |-> 0]
  /\ global = NoDocuments
  /\ reduced = 0
  /\ outcome = "none"

-----------------------------------------------------------------------------
(* The main thread: construct the vectors and create the workers           *)

\* The calls up to number n have not failed.
Granted(n) == refused \notin 1 .. n

Spawn ==
  /\ pc = "spawn"
  /\ spawned < num_workers_
  /\ Granted(spawned + 2)
  /\ spawned' = spawned + 1
  /\ worker' = [worker EXCEPT ![spawned'] = "pop"]
  /\ UNCHANGED <<queueVars, file, refused, pc, pos, global, reduced, outcome,
                 item, doc, results, exceptions, owner>>

\* Mutant of Unwind: the threads are taken for detached.
UnwindPastThreads(n) ==
  /\ pc' = "end"
  /\ outcome' = "threw"
  /\ UNCHANGED <<queueVars, file, refused, spawned, pos, global, reduced, workerVars>>

\* An exception leaves run_pipeline while `n' threads are joinable: their
\* destructors call std::terminate.  Without threads it reaches the caller.
Unwind(n) ==
  /\ pc' = "end"
  /\ outcome' = IF n = 0 THEN "threw" ELSE "terminated"
  /\ UNCHANGED <<queueVars, file, refused, spawned, pos, global, reduced, workerVars>>

\* There is no memory for the vectors, or they would be too long.
ConstructFails ==
  /\ pc = "spawn"
  /\ refused = 1
  /\ Unwind(0)

\* std::thread's constructor throws std::system_error.
SpawnFails ==
  /\ pc = "spawn"
  /\ spawned < num_workers_
  /\ refused = spawned + 2
  /\ Unwind(spawned)

-----------------------------------------------------------------------------
(* The main thread: chunk(file, queue)                                     *)

OpenFile ==
  /\ pc = "spawn"
  /\ spawned = num_workers_
  /\ Granted(num_workers_ + 2)
  /\ pc' = "chunk"
  /\ UNCHANGED <<queueVars, file, refused, spawned, pos, global, reduced, outcome, workerVars>>

\* open, fstat or mmap fails and chunk throws.
OpenFails ==
  /\ pc = "spawn"
  /\ spawned = num_workers_
  /\ refused = num_workers_ + 2
  /\ Unwind(spawned)

CallFails == ConstructFails \/ SpawnFails \/ OpenFails

\* The splitter has a chunk to push.  It does not look at what push() returns.
Pushing == pc = "chunk" /\ pos < Len(file)

PushChunk ==
  /\ Pushing
  /\ PushAccepted(Main, pos + 1)
  /\ pos' = pos + 1
  /\ UNCHANGED <<file, refused, pc, spawned, global, reduced, outcome, workerVars>>

DropChunk ==
  /\ Pushing
  /\ PushRefused(Main)
  /\ pos' = pos + 1
  /\ UNCHANGED <<file, refused, pc, spawned, global, reduced, outcome, workerVars>>

WaitToPush ==
  /\ Pushing
  /\ PushWait(Main)
  /\ UNCHANGED <<file, refused, mainVars, workerVars>>

-----------------------------------------------------------------------------
(* The main thread: shut down, join, rethrow or reduce                     *)

\* Mutant of ChunksDone: the queue is not shut down.
ChunksDoneStillOpen ==
  /\ pc = "chunk"
  /\ pos = Len(file)
  /\ pc' = "join"
  /\ UNCHANGED <<queueVars, file, refused, spawned, pos, global, reduced, outcome, workerVars>>

ChunksDone ==
  /\ pc = "chunk"
  /\ pos = Len(file)
  /\ Shutdown
  /\ pc' = "join"
  /\ UNCHANGED <<file, refused, spawned, pos, global, reduced, outcome, workerVars>>

\* Mutant of Joined: the last worker is not joined.
JoinedAllButLast == pc = "join" /\ \A w \in Workers \ {num_workers_} : worker[w] = "ended"

Joined == pc = "join" /\ \A w \in Workers : worker[w] = "ended"

Rethrow ==
  /\ Joined
  /\ exceptions # {}
  /\ pc' = "end"
  /\ outcome' = "threw"
  /\ UNCHANGED <<queueVars, file, refused, spawned, pos, global, reduced, workerVars>>

StartReduce ==
  /\ Joined
  /\ exceptions = {}
  /\ pc' = "reduce"
  /\ UNCHANGED <<queueVars, file, refused, spawned, pos, global, reduced, outcome, workerVars>>

Reduce ==
  /\ pc = "reduce"
  /\ reduced < num_workers_
  /\ reduced' = reduced + 1
  /\ global' = [d \in Documents |-> global[d] + results[reduced'][d]]
  /\ UNCHANGED <<queueVars, file, refused, pc, spawned, pos, outcome, workerVars>>

Return ==
  /\ pc = "reduce"
  /\ reduced = num_workers_
  /\ pc' = "end"
  /\ outcome' = "returned"
  /\ UNCHANGED <<queueVars, file, refused, spawned, pos, global, reduced, workerVars>>

-----------------------------------------------------------------------------
(* The worker threads                                                      *)

WaitToPop(w) ==
  /\ worker[w] = "pop"
  /\ PopWait(w)
  /\ UNCHANGED <<file, refused, mainVars, workerVars>>

PopChunk(w) ==
  /\ worker[w] = "pop"
  /\ PopItem(w)
  /\ worker' = [worker EXCEPT ![w] = "parse"]
  /\ item' = [item EXCEPT ![w] = Head(queue_)]
  /\ doc' = [doc EXCEPT ![w] = 1]
  /\ owner' = [owner EXCEPT ![Head(queue_)] = w]
  /\ UNCHANGED <<file, refused, mainVars, results, exceptions>>

WorkerExits(w) ==
  /\ worker[w] = "pop"
  /\ PopNull(w)
  /\ worker' = [worker EXCEPT ![w] = "ended"]
  /\ UNCHANGED <<file, refused, mainVars, item, doc, results, exceptions, owner>>

\* The chunk in hand, and whether its stream has a next document.
Chunk(w) == file[item[w]]
HasDocument(w) ==
  worker[w] = "parse" /\ Chunk(w).opened /\ doc[w] <= Len(Chunk(w).docs)

AccumulateDocument(w) ==
  results' = [results EXCEPT ![w][<<item[w], doc[w]>>] = @ + 1]

ReadDocument(w) ==
  /\ HasDocument(w)
  /\ Chunk(w).docs[doc[w]] = "ok"
  /\ AccumulateDocument(w)
  /\ doc' = [doc EXCEPT ![w] = @ + 1]
  /\ UNCHANGED <<queueVars, file, refused, mainVars, worker, item, exceptions, owner>>

\* Mutant of Throws: exceptions[i] is not assigned before the shutdown.
ThrowsUnrecorded(w) ==
  /\ worker' = [worker EXCEPT ![w] = "catch"]
  /\ UNCHANGED <<queueVars, file, refused, mainVars, item, doc, exceptions, owner>>

Throws(w) ==
  /\ exceptions' = exceptions \cup {w}
  /\ worker' = [worker EXCEPT ![w] = "catch"]
  /\ UNCHANGED <<queueVars, file, refused, mainVars, item, doc, owner>>

\* get_value() reports an error, or fn throws after part of the document has
\* been accumulated.
MalformedDocument(w) ==
  /\ HasDocument(w)
  /\ Chunk(w).docs[doc[w]] = "bad"
  /\ Throws(w)
  /\ AccumulateDocument(w) \/ UNCHANGED results

NextItem(w) ==
  /\ worker' = [worker EXCEPT ![w] = "pop"]
  /\ item' = [item EXCEPT ![w] = 0]
  /\ UNCHANGED <<queueVars, file, refused, mainVars, doc, results, exceptions, owner>>

EndOfChunk(w) ==
  /\ worker[w] = "parse"
  /\ Chunk(w).opened
  /\ doc[w] > Len(Chunk(w).docs)
  /\ NextItem(w)

\* iterate_many failed.  The exception is constructed but not thrown, and the
\* loop runs over a stream that was never opened: it ends at once or reports
\* an error for its first document.
StreamNotOpened(w) ==
  /\ worker[w] = "parse"
  /\ ~Chunk(w).opened
  /\ \/ NextItem(w)
     \/ Throws(w) /\ UNCHANGED results

CatchException(w) ==
  /\ worker[w] = "catch"
  /\ Shutdown
  /\ worker' = [worker EXCEPT ![w] = "ended"]
  /\ UNCHANGED <<file, refused, mainVars, item, doc, results, exceptions, owner>>

Wakeup(t) ==
  /\ outcome = "none"
  /\ SpuriousWakeup(t)
  /\ UNCHANGED <<file, refused, mainVars, workerVars>>

-----------------------------------------------------------------------------

MainStep ==
  \/ Spawn \/ OpenFile
  \/ CallFails
  \/ PushChunk \/ DropChunk \/ WaitToPush \/ ChunksDone
  \/ Rethrow \/ StartReduce \/ Reduce \/ Return

\* std::terminate stops every thread.
WorkerStep(w) ==
  /\ outcome = "none"
  /\ \/ WaitToPop(w) \/ PopChunk(w) \/ WorkerExits(w)
     \/ ReadDocument(w) \/ MalformedDocument(w) \/ EndOfChunk(w)
     \/ StreamNotOpened(w) \/ CatchException(w)

\* The call is over, and the threads are gone.
Ended == pc = "end" /\ UNCHANGED vars

Next ==
  \/ MainStep
  \/ \E w \in Workers : WorkerStep(w)
  \/ \E t \in {Main} \cup Workers : Wakeup(t)
  \/ Ended

Spec == Init /\ [][Next]_vars

\* The scheduler runs every thread that can run.
Fairness == WF_vars(MainStep) /\ \A w \in Workers : WF_vars(WorkerStep(w))

FairSpec == Spec /\ Fairness
-----------------------------------------------------------------------------
(* Properties                                                              *)

ChunkNumbers == 0 .. Len(file)

QueueTypeOK ==
  /\ queue_ \in Seq(Chunks)
  /\ Len(queue_) <= max_size_
  /\ done_ \in BOOLEAN
  /\ not_full_ \in SUBSET {Main}
  /\ not_empty_ \in SUBSET Workers

MainTypeOK ==
  /\ file \in Files
  /\ refused \in Refusals
  /\ pc \in {"spawn", "chunk", "join", "reduce", "end"}
  /\ spawned \in Workers \cup {0}
  /\ pos \in ChunkNumbers
  /\ global \in [Documents -> Nat]
  /\ reduced \in Workers \cup {0}
  /\ outcome \in {"none", "returned", "threw", "terminated"}

WorkersTypeOK ==
  /\ worker \in [Workers -> {"unborn", "pop", "parse", "catch", "ended"}]
  /\ item \in [Workers -> ChunkNumbers]
  /\ doc \in [Workers -> Nat \ {0}]
  /\ results \in [Workers -> [Documents -> Nat]]
  /\ exceptions \in SUBSET Workers
  /\ owner \in [Chunks -> Workers \cup {0}]

\* The types of the variables, and the capacity of the queue.
TypeOK == QueueTypeOK /\ MainTypeOK /\ WorkersTypeOK

\* If run_pipeline returns, every document of every chunk whose stream was
\* opened has been accumulated exactly once: no chunk is lost or taken twice
\* between push() and pop(), and none of a worker's results is overlooked.
ExactlyOnce ==
  outcome = "returned" =>
    \A d \in Documents : global[d] = IF file[d[1]].opened THEN 1 ELSE 0

\* If run_pipeline returns, no document it read was malformed: an exception
\* caught in one worker is never lost, even when the shutdown it causes makes
\* the others finish normally.
ErrorsSurface ==
  outcome = "returned" =>
    \A d \in Documents : file[d[1]].opened => file[d[1]].docs[d[2]] = "ok"

\* chunk() ignores what push() returns.  That is harmless only because a chunk
\* it was done with is waiting, has been popped, or will never be missed: some
\* worker has recorded an exception.
DroppedOnlyAfterException ==
  \A c \in 1 .. pos :
    \/ \E i \in 1 .. Len(queue_) : queue_[i] = c
    \/ owner[c] # 0
    \/ exceptions # {}

\* results and exceptions are shared without a lock.  Once the main thread
\* reads them, no thread writes them any more.
ResultsSettled ==
  [][pc = "reduce" \/ pc = "end" => UNCHANGED <<results, exceptions>>]_vars

\* tests/test_pipeline_worker.cpp:188: "run_pipeline returns nonzero result for
\* valid JSONL".  The call ends, on any number of processors.
Termination == <>(outcome # "none")

\* The call is a fold of the file: which worker took which chunk, and in what
\* order, does not show; and the call ends.  It throws for no other file than one
\* that cannot be read, unless a call of the system fails; and what that leads to
\* depends on whether a thread was running, and on nothing else.
Fold == INSTANCE FileFold WITH
  result <- IF outcome = "returned" THEN global ELSE <<>>
FoldSpec == Fold!Spec

-----------------------------------------------------------------------------
(* The inductive invariant                                                 *)

\* Which thread is where, phase by phase.
Phases ==
  /\ outcome = "none" <=> pc # "end"
  /\ \A w \in Workers : worker[w] = "unborn" <=> spawned < w
  /\ pc \in {"chunk", "join", "reduce"} => spawned = num_workers_ /\ refused = 0
  /\ pc = "spawn" => pos = 0
  /\ pc \in {"join", "reduce"} => pos = Len(file) /\ done_
  /\ pc = "reduce" \/ outcome = "returned" =>
       exceptions = {} /\ \A w \in Workers : worker[w] = "ended"

\* The queue holds chunks nobody has popped, in the order of the file.
QueuedChunks ==
  /\ \A i \in 1 .. Len(queue_) : queue_[i] <= pos /\ owner[queue_[i]] = 0
  /\ \A i, j \in 1 .. Len(queue_) : i < j => queue_[i] < queue_[j]
  /\ \A c \in Chunks : pos < c => owner[c] = 0

\* Before the splitter is done, only an exception shuts the queue down; and a
\* worker that finishes without an exception leaves the queue drained.
ShutdownCauses ==
  /\ done_ /\ pc \in {"spawn", "chunk"} => exceptions # {}
  /\ \A w \in Workers :
       worker[w] = "ended" => done_ /\ (w \in exceptions \/ queue_ = <<>>)

\* A worker holds a chunk exactly while it parses it or has thrown.
Holds(w) ==
  /\ worker[w] \in {"parse", "catch"} => item[w] \in Chunks /\ owner[item[w]] = w
  /\ worker[w] \in {"unborn", "pop"} => item[w] = 0
  /\ worker[w] = "ended" /\ w \notin exceptions => item[w] = 0
  /\ w \in exceptions => worker[w] \in {"catch", "ended"}
  /\ worker[w] = "catch" => w \in exceptions

HeldChunks == \A w \in Workers : Holds(w)

\* What worker w has accumulated, as long as it has not thrown: the documents
\* of the chunks it popped, up to where it is in the one it holds.
Read(w, c, d) ==
  owner[c] = w /\ file[c].opened /\ (item[w] = c => d < doc[w])

WorkersResults ==
  \A w \in Workers \ exceptions :
    \A c \in Chunks : \A d \in 1 .. Len(file[c].docs) :
      /\ results[w][<<c, d>>] = IF Read(w, c, d) THEN 1 ELSE 0
      /\ Read(w, c, d) => file[c].docs[d] = "ok"

\* What has been reduced: the documents of the workers taken so far.
ReducedResults ==
  /\ pc \in {"spawn", "chunk", "join"} => reduced = 0
  /\ outcome = "returned" => reduced = num_workers_
  /\ pc \in {"spawn", "chunk", "join", "reduce"} \/ outcome = "returned" =>
       \A c \in Chunks : \A d \in 1 .. Len(file[c].docs) :
         global[<<c, d>>] = IF owner[c] \in 1 .. reduced /\ file[c].opened THEN 1 ELSE 0
  /\ pc = "reduce" \/ outcome = "returned" => \A c \in Chunks : owner[c] \in Workers

\* Only a chunk that was not opened or a malformed document raises an exception.
ExceptionsAreReal ==
  exceptions # {} =>
    \E c \in Chunks :
      ~file[c].opened \/ \E d \in 1 .. Len(file[c].docs) : file[c].docs[d] = "bad"

IInv ==
  /\ TypeOK
  /\ DroppedOnlyAfterException
  /\ Phases
  /\ QueuedChunks
  /\ ShutdownCauses
  /\ HeldChunks
  /\ WorkersResults
  /\ ReducedResults
  /\ ExceptionsAreReal
=============================================================================
