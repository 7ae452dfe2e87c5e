--------------------------- MODULE PipelineProofs ---------------------------
(***************************************************************************)
(* Proofs about Pipeline, for every number of workers, every file and      *)
(* every combination of failing calls.                                     *)
(***************************************************************************)
EXTENDS Pipeline, TLAPS

-----------------------------------------------------------------------------
(* Type correctness                                                        *)

\* A document is a pair of a chunk and a position in it.
LEMMA DocumentPairs ==
  /\ \A c \in Chunks : \A d \in 1 .. Len(file[c].docs) : <<c, d>> \in Documents
  /\ \A p \in Documents :
       p = <<p[1], p[2]>> /\ p[1] \in Chunks /\ p[2] \in 1 .. Len(file[p[1]].docs)
BY DEF Documents

\* A file is a sequence of chunks, and a chunk has a sequence of documents.
LEMMA FileShape ==
  ASSUME file \in Files
  PROVE  /\ Len(file) \in Nat
         /\ \A c \in Chunks :
              /\ file[c].opened \in BOOLEAN
              /\ file[c].docs \in Seq({"ok", "bad"})
              /\ Len(file[c].docs) \in Nat
<1> DEFINE ChunkType == [opened : BOOLEAN, docs : Seq({"ok", "bad"})]
<1>1. file \in Seq(ChunkType)
  BY PipelineAssumption
<1>2. ASSUME NEW c \in Chunks PROVE file[c] \in ChunkType
  <2> HIDE DEF ChunkType
  <2> QED BY <1>1, <1>2 DEF Chunks
<1>3. ASSUME NEW c \in Chunks PROVE file[c].opened \in BOOLEAN /\ file[c].docs \in Seq({"ok", "bad"})
  BY <1>2
<1>4. ASSUME NEW c \in Chunks PROVE Len(file[c].docs) \in Nat
  BY <1>3
<1> HIDE DEF ChunkType
<1> QED BY <1>1, <1>3, <1>4

\* Every variable has its type in the initial states.
LEMMA TypeInit == Init => TypeOK
<1> SUFFICES ASSUME Init PROVE TypeOK
  OBVIOUS
<1> USE DEF Init
<1>1. Len(file) \in Nat /\ num_workers_ \in Int /\ max_size_ \in Nat
  BY FileShape, PipelineAssumption, MaxSizeAssumption
<1>2. queue_ \in Seq(Chunks) /\ Len(queue_) <= max_size_
  BY <1>1 DEF QueueInit
<1>3. NoDocuments \in [Documents -> Nat]
  BY DEF NoDocuments
<1>4. item \in [Workers -> ChunkNumbers] /\ owner \in [Chunks -> Workers \cup {0}]
  BY <1>1 DEF ChunkNumbers
<1>5. results \in [Workers -> [Documents -> Nat]] /\ global \in [Documents -> Nat]
  BY <1>3
<1>6. QueueTypeOK
  BY <1>2 DEF QueueInit, QueueTypeOK
<1>7. MainTypeOK
  BY <1>1, <1>5 DEF MainTypeOK, ChunkNumbers
<1>8. WorkersTypeOK
  BY <1>4, <1>5 DEF WorkersTypeOK
<1> QED BY <1>6, <1>7, <1>8 DEF TypeOK

\* The file never changes, so neither do its chunks and documents; nor does the
\* call that fails.
LEMMA SameFile ==
  [Next]_vars => file' = file /\ refused' = refused /\ Chunks' = Chunks /\ Documents' = Documents
<1> SUFFICES ASSUME [Next]_vars PROVE UNCHANGED <<file, refused>>
  BY DEF Chunks, Documents
<1> USE DEF mainVars, workerVars, vars
<1>1. CASE MainStep /\ ~CallFails
  BY <1>1 DEF MainStep, Spawn, OpenFile, PushChunk, DropChunk, WaitToPush, ChunksDone,
              Rethrow, StartReduce, Reduce, Return
<1>2. CASE CallFails
  BY <1>2 DEF CallFails, ConstructFails, SpawnFails, OpenFails, Unwind
<1>3. ASSUME NEW w \in Workers, WorkerStep(w) PROVE UNCHANGED <<file, refused>>
  BY <1>3 DEF WorkerStep, WaitToPop, PopChunk, WorkerExits, ReadDocument, MalformedDocument,
              Throws, EndOfChunk, NextItem, StreamNotOpened, CatchException
<1>4. ASSUME NEW t \in {Main} \cup Workers, Wakeup(t) PROVE UNCHANGED <<file, refused>>
  BY <1>4 DEF Wakeup
<1> QED BY <1>1, <1>2, <1>3, <1>4 DEF Next, Ended

\* Every step preserves the types, and the queue never exceeds its capacity.
LEMMA TypeStep == TypeOK /\ HeldChunks /\ [Next]_vars => TypeOK'
<1> SUFFICES ASSUME TypeOK, HeldChunks, [Next]_vars
             PROVE  TypeOK'
  OBVIOUS
<1> USE DEF TypeOK
<1>f. /\ file' = file /\ refused' = refused
      /\ Chunks' = Chunks /\ Documents' = Documents /\ ChunkNumbers' = ChunkNumbers
  BY SameFile DEF ChunkNumbers
<1>s. /\ Len(file) \in Nat /\ num_workers_ \in Int /\ max_size_ \in Nat
      /\ Chunks = 1 .. Len(file) /\ ChunkNumbers = 0 .. Len(file) /\ Workers = 1 .. num_workers_
  BY FileShape, PipelineAssumption, MaxSizeAssumption DEF Chunks, ChunkNumbers, Workers, MainTypeOK
<1>q. ASSUME UNCHANGED queueVars PROVE QueueTypeOK'
  BY <1>q, <1>f DEF QueueTypeOK, queueVars
<1>m. ASSUME UNCHANGED mainVars PROVE MainTypeOK'
  BY <1>m, <1>f DEF MainTypeOK, mainVars
<1>w. ASSUME UNCHANGED workerVars PROVE WorkersTypeOK'
  BY <1>w, <1>f DEF WorkersTypeOK, workerVars
<1>1. CASE Spawn
  <2>1. QueueTypeOK' BY <1>1, <1>q DEF Spawn
  <2>2. MainTypeOK' BY <1>1, <1>f, <1>s DEF Spawn, MainTypeOK
  <2>3. WorkersTypeOK' BY <1>1, <1>f, <1>s DEF Spawn, WorkersTypeOK
  <2> QED BY <2>1, <2>2, <2>3
<1>2. CASE CallFails
  <2>1. QueueTypeOK' BY <1>2, <1>q DEF CallFails, ConstructFails, SpawnFails, OpenFails, Unwind
  <2>2. MainTypeOK' BY <1>2, <1>f DEF CallFails, ConstructFails, SpawnFails, OpenFails, Unwind, MainTypeOK
  <2>3. WorkersTypeOK' BY <1>2, <1>w DEF CallFails, ConstructFails, SpawnFails, OpenFails, Unwind
  <2> QED BY <2>1, <2>2, <2>3
<1>3. CASE OpenFile \/ Rethrow \/ StartReduce \/ Return
  <2>1. QueueTypeOK' BY <1>3, <1>q DEF OpenFile, Rethrow, StartReduce, Return
  <2>2. MainTypeOK' BY <1>3, <1>f DEF OpenFile, Rethrow, StartReduce, Return, MainTypeOK
  <2>3. WorkersTypeOK' BY <1>3, <1>w DEF OpenFile, Rethrow, StartReduce, Return
  <2> QED BY <2>1, <2>2, <2>3
<1>4. CASE PushChunk
  <2> USE DEF PushChunk
  <2>1. pos + 1 \in Chunks
    BY <1>4, <1>s DEF Pushing, MainTypeOK
  <2>2. queue_' \in Seq(Chunks) /\ Len(queue_') <= max_size_
    BY <1>4, <1>s, <2>1 DEF PushAccepted, QueueTypeOK
  <2>3. QueueTypeOK'
    BY <1>4, <1>f, <2>2 DEF PushAccepted, NotifyOne, QueueTypeOK
  <2>4. MainTypeOK' BY <1>4, <1>f, <1>s, <2>1 DEF MainTypeOK
  <2>5. WorkersTypeOK' BY <1>4, <1>w
  <2> QED BY <2>3, <2>4, <2>5
<1>5. CASE DropChunk
  <2>1. QueueTypeOK' BY <1>5, <1>q DEF DropChunk, PushRefused
  <2>2. MainTypeOK' BY <1>5, <1>f, <1>s DEF DropChunk, Pushing, MainTypeOK
  <2>3. WorkersTypeOK' BY <1>5, <1>w DEF DropChunk
  <2> QED BY <2>1, <2>2, <2>3
<1>6. CASE WaitToPush
  <2>1. QueueTypeOK' BY <1>6, <1>f DEF WaitToPush, PushWait, QueueTypeOK
  <2> QED BY <1>6, <2>1, <1>m, <1>w DEF WaitToPush
<1>7. CASE ChunksDone
  <2>1. QueueTypeOK' BY <1>7, <1>f DEF ChunksDone, Shutdown, QueueTypeOK
  <2>2. MainTypeOK' BY <1>7, <1>f DEF ChunksDone, MainTypeOK
  <2>3. WorkersTypeOK' BY <1>7, <1>w DEF ChunksDone
  <2> QED BY <2>1, <2>2, <2>3
<1>8. CASE Reduce
  <2>1. QueueTypeOK' BY <1>8, <1>q DEF Reduce
  <2>2. reduced' \in Workers /\ reduced' \in Workers \cup {0}
    BY <1>8, <1>s DEF Reduce, MainTypeOK
  <2>3. global' \in [Documents -> Nat]
    BY <1>8, <2>2 DEF Reduce, MainTypeOK, WorkersTypeOK
  <2>4. MainTypeOK' BY <1>8, <1>f, <2>2, <2>3 DEF Reduce, MainTypeOK
  <2>5. WorkersTypeOK' BY <1>8, <1>w DEF Reduce
  <2> QED BY <2>1, <2>4, <2>5
<1>9. ASSUME NEW w \in Workers, WorkerStep(w) PROVE TypeOK'
  <2>m. UNCHANGED mainVars
    BY <1>9 DEF WorkerStep, WaitToPop, PopChunk, WorkerExits, ReadDocument, MalformedDocument,
                Throws, EndOfChunk, NextItem, StreamNotOpened, CatchException
  <2>1. CASE WaitToPop(w)
    <3>1. QueueTypeOK' BY <2>1, <1>f DEF WaitToPop, PopWait, QueueTypeOK
    <3> QED BY <2>1, <3>1, <1>m, <1>w DEF WaitToPop
  <2>2. CASE PopChunk(w)
    <3> USE DEF PopChunk, PopItem
    <3>1. Head(queue_) \in Chunks /\ queue_' \in Seq(Chunks) /\ Len(queue_') <= max_size_
      BY <2>2, <1>s DEF QueueTypeOK
    <3>2. QueueTypeOK' BY <2>2, <1>f, <3>1 DEF NotifyOne, QueueTypeOK
    <3>3. item' \in [Workers -> ChunkNumbers]
      BY <2>2, <1>s, <3>1 DEF WorkersTypeOK
    <3>4. doc' \in [Workers -> Nat \ {0}]
      BY <2>2 DEF WorkersTypeOK
    <3>5. owner' \in [Chunks -> Workers \cup {0}]
      BY <2>2, <1>s, <3>1 DEF WorkersTypeOK
    <3>6. WorkersTypeOK' BY <2>2, <1>f, <3>3, <3>4, <3>5 DEF WorkersTypeOK
    <3> QED BY <2>m, <3>2, <3>6, <1>m
  <2>3. CASE WorkerExits(w)
    <3>1. QueueTypeOK' BY <2>3, <1>q DEF WorkerExits, PopNull
    <3>2. WorkersTypeOK' BY <2>3, <1>f DEF WorkerExits, WorkersTypeOK
    <3> QED BY <2>m, <3>1, <3>2, <1>m
  <2>4. ASSUME HasDocument(w) PROVE <<item[w], doc[w]>> \in Documents
    <3>1. item[w] \in Chunks
      BY <2>4 DEF HasDocument, HeldChunks, Holds
    <3>2. doc[w] \in 1 .. Len(file[item[w]].docs)
      BY <2>4, <3>1, FileShape DEF HasDocument, Chunk, MainTypeOK, WorkersTypeOK
    <3> QED BY <3>1, <3>2, DocumentPairs
  <2>5. ASSUME HasDocument(w), AccumulateDocument(w)
        PROVE  results' \in [Workers -> [Documents -> Nat]]
    BY <2>5, <2>4 DEF AccumulateDocument, WorkersTypeOK
  <2>6. CASE ReadDocument(w)
    <3>1. QueueTypeOK' BY <2>6, <1>q DEF ReadDocument
    <3>2. results' \in [Workers -> [Documents -> Nat]]
      BY <2>6, <2>5 DEF ReadDocument
    <3>3. doc' \in [Workers -> Nat \ {0}]
      BY <2>6 DEF ReadDocument, WorkersTypeOK
    <3>4. WorkersTypeOK' BY <2>6, <3>2, <3>3, <1>f DEF ReadDocument, WorkersTypeOK
    <3> QED BY <2>m, <3>1, <3>4, <1>m
  <2>7. ASSUME Throws(w), results' \in [Workers -> [Documents -> Nat]] PROVE TypeOK'
    <3>1. QueueTypeOK' BY <2>7, <1>q DEF Throws
    <3>2. WorkersTypeOK' BY <2>7, <1>f DEF Throws, WorkersTypeOK
    <3> QED BY <2>m, <3>1, <3>2, <1>m
  <2>8. CASE MalformedDocument(w)
    <3>1. results' \in [Workers -> [Documents -> Nat]]
      BY <2>8, <2>5 DEF MalformedDocument, WorkersTypeOK
    <3> QED BY <2>8, <2>7, <3>1 DEF MalformedDocument
  <2>9. ASSUME NextItem(w) PROVE TypeOK'
    <3>1. QueueTypeOK' BY <2>9, <1>q DEF NextItem
    <3>2. WorkersTypeOK' BY <2>9, <1>f, <1>s DEF NextItem, WorkersTypeOK
    <3> QED BY <2>m, <3>1, <3>2, <1>m
  <2>10. CASE EndOfChunk(w)
    BY <2>10, <2>9 DEF EndOfChunk
  <2>11. CASE StreamNotOpened(w)
    BY <2>11, <2>9, <2>7 DEF StreamNotOpened, WorkersTypeOK
  <2>12. CASE CatchException(w)
    <3>1. QueueTypeOK' BY <2>12, <1>f DEF CatchException, Shutdown, QueueTypeOK
    <3>2. WorkersTypeOK' BY <2>12, <1>f DEF CatchException, WorkersTypeOK
    <3> QED BY <2>m, <3>1, <3>2, <1>m
  <2> QED BY <1>9, <2>1, <2>2, <2>3, <2>6, <2>8, <2>10, <2>11, <2>12 DEF WorkerStep
<1>10. ASSUME NEW t \in {Main} \cup Workers, Wakeup(t) PROVE TypeOK'
  <2>1. QueueTypeOK' BY <1>10, <1>f DEF Wakeup, SpuriousWakeup, QueueTypeOK
  <2> QED BY <1>10, <2>1, <1>m, <1>w DEF Wakeup
<1>11. CASE UNCHANGED vars
  BY <1>11, <1>q, <1>m, <1>w DEF vars
<1> QED
  BY <1>1, <1>2, <1>3, <1>4, <1>5, <1>6, <1>7, <1>8, <1>9, <1>10, <1>11
     DEF Next, MainStep, Ended

-----------------------------------------------------------------------------
(* The conjuncts of the inductive invariant                                *)

\* Every step keeps the threads where the phase of the call wants them.
LEMMA PhasesStep == IInv /\ [Next]_vars => Phases'
<1> SUFFICES ASSUME TypeOK, Phases, HeldChunks, [Next]_vars PROVE Phases'
  BY DEF IInv
<1> USE DEF Phases
<1>f. file' = file /\ refused' = refused
  BY SameFile
<1>s. num_workers_ \in Int /\ Workers = 1 .. num_workers_
  BY PipelineAssumption DEF Workers
<1>1. CASE Spawn
  BY <1>1, <1>s, <1>f DEF Spawn, TypeOK, MainTypeOK, WorkersTypeOK, queueVars
<1>2. CASE CallFails
  BY <1>2, <1>f DEF CallFails, ConstructFails, SpawnFails, OpenFails, Unwind, queueVars, workerVars
<1>o. CASE OpenFile
  <2>1. refused = 0
    BY <1>o, PipelineAssumption DEF OpenFile, Granted, TypeOK, MainTypeOK
  <2> QED BY <1>o, <2>1, <1>f DEF OpenFile, queueVars, workerVars
<1>3. CASE Rethrow \/ Return
  BY <1>3, <1>f DEF Rethrow, Return, Joined, queueVars, workerVars
<1>4. CASE StartReduce \/ Reduce
  BY <1>4, <1>f DEF StartReduce, Reduce, Joined, queueVars, workerVars
<1>5. CASE PushChunk \/ DropChunk
  BY <1>5, <1>f DEF PushChunk, DropChunk, Pushing, PushAccepted, PushRefused, queueVars, workerVars
<1>6. CASE WaitToPush
  BY <1>6, <1>f DEF WaitToPush, PushWait, mainVars, workerVars
<1>7. CASE ChunksDone
  BY <1>7, <1>f DEF ChunksDone, Shutdown, workerVars
<1>8. ASSUME NEW w \in Workers, WorkerStep(w) PROVE Phases'
  <2> USE DEF WaitToPop, PopChunk, WorkerExits, ReadDocument, MalformedDocument, Throws,
              EndOfChunk, NextItem, StreamNotOpened, CatchException
  <2>1. UNCHANGED mainVars /\ outcome = "none"
    BY <1>8 DEF WorkerStep
  <2>2. worker[w] \in {"pop", "parse", "catch"}
    BY <1>8 DEF WorkerStep, HasDocument
  <2>3. \E s \in {"pop", "parse", "catch", "ended"} : worker' = [worker EXCEPT ![w] = s]
    <3>1. worker \in [Workers -> {"unborn", "pop", "parse", "catch", "ended"}]
      BY DEF TypeOK, WorkersTypeOK
    <3>2. CASE WaitToPop(w)
      BY <3>1, <3>2, <2>2 DEF workerVars
    <3>3. CASE ReadDocument(w)
      BY <3>1, <3>3, <2>2
    <3>4. CASE PopChunk(w) \/ WorkerExits(w) \/ MalformedDocument(w) \/ EndOfChunk(w)
               \/ StreamNotOpened(w) \/ CatchException(w)
      BY <3>4
    <3> QED BY <1>8, <3>2, <3>3, <3>4 DEF WorkerStep
  <2>4. worker'[w] # "unborn" /\ \A v \in Workers \ {w} : worker'[v] = worker[v]
    BY <2>3 DEF TypeOK, WorkersTypeOK
  <2>5. done_ => done_'
    BY <1>8 DEF WorkerStep, PopWait, PopItem, PopNull, Shutdown, queueVars
  <2>6. pc # "reduce" /\ outcome # "returned"
    BY <2>1, <2>2
  <2>7. \A v \in Workers : worker'[v] = "unborn" <=> worker[v] = "unborn"
    BY <2>2, <2>4
  <2> QED BY <2>1, <2>5, <2>6, <2>7, <1>f, <1>s DEF mainVars
<1>9. ASSUME NEW t \in {Main} \cup Workers, Wakeup(t) PROVE Phases'
  BY <1>9, <1>f DEF Wakeup, SpuriousWakeup, mainVars, workerVars
<1>10. CASE UNCHANGED vars
  BY <1>10, <1>f DEF vars, queueVars, mainVars, workerVars
<1> QED
  BY <1>1, <1>2, <1>o, <1>3, <1>4, <1>5, <1>6, <1>7, <1>8, <1>9, <1>10 DEF Next, MainStep, Ended

\* Every step keeps the chunks a worker holds its own.
LEMMA HeldChunksStep == IInv /\ [Next]_vars => HeldChunks'
<1> SUFFICES ASSUME TypeOK, Phases, QueuedChunks, HeldChunks, [Next]_vars PROVE HeldChunks'
  BY DEF IInv
<1> USE DEF HeldChunks, Holds, TypeOK, WorkersTypeOK
<1>f. file' = file /\ Chunks' = Chunks
  BY SameFile
<1>s. num_workers_ \in Int /\ Workers = 1 .. num_workers_
  BY PipelineAssumption DEF Workers
<1>1. CASE UNCHANGED workerVars
  BY <1>1, <1>f DEF workerVars
<1>2. CASE Spawn
  <2>1. spawned + 1 \in Workers /\ worker[spawned + 1] = "unborn"
    BY <1>2, <1>s DEF Spawn, Phases, MainTypeOK
  <2>2. /\ worker' = [worker EXCEPT ![spawned + 1] = "pop"]
        /\ UNCHANGED <<item, exceptions, owner>>
    BY <1>2 DEF Spawn
  <2> QED BY <2>1, <2>2, <1>f
<1>3. ASSUME NEW w \in Workers, WorkerStep(w) PROVE HeldChunks'
  <2>1. CASE PopChunk(w)
    <3>1. Head(queue_) \in Chunks /\ owner[Head(queue_)] = 0
      BY <2>1 DEF PopChunk, PopItem, QueueTypeOK, QueuedChunks
    <3>2. Holds(w)'
      BY <2>1, <3>1, <1>f DEF PopChunk
    <3>3. ASSUME NEW v \in Workers \ {w} PROVE Holds(v)'
      <4>1. worker'[v] = worker[v] /\ item'[v] = item[v] /\ exceptions' = exceptions
        BY <2>1 DEF PopChunk
      <4>2. ASSUME item[v] \in Chunks, owner[item[v]] = v PROVE owner'[item[v]] = v
        BY <2>1, <3>1, <4>2, <1>s DEF PopChunk
      <4> QED BY <4>1, <4>2, <1>f
    <3> QED BY <3>2, <3>3
  <2>2. CASE WaitToPop(w)
    BY <2>2, <1>1 DEF WaitToPop
  <2>3. CASE WorkerExits(w)
    BY <2>3, <1>f DEF WorkerExits
  <2>4. ASSUME NextItem(w), worker[w] = "parse" PROVE HeldChunks'
    BY <2>4, <1>f DEF NextItem
  <2>5. CASE CatchException(w)
    BY <2>5, <1>f DEF CatchException
  <2>6. CASE ReadDocument(w)
    BY <2>6, <1>f DEF ReadDocument
  <2>7. ASSUME Throws(w), worker[w] = "parse" PROVE HeldChunks'
    BY <2>7, <1>f DEF Throws
  <2> QED
    BY <1>3, <2>1, <2>2, <2>3, <2>4, <2>5, <2>6, <2>7
       DEF WorkerStep, EndOfChunk, MalformedDocument, HasDocument, StreamNotOpened
<1>4. ASSUME NEW t \in {Main} \cup Workers, Wakeup(t) PROVE HeldChunks'
  BY <1>4, <1>1 DEF Wakeup
<1>5. CASE MainStep /\ ~CallFails
  BY <1>5, <1>1, <1>2 DEF MainStep, OpenFile, PushChunk, DropChunk, WaitToPush, ChunksDone, Rethrow,
                          StartReduce, Reduce, Return
<1>6. CASE CallFails
  BY <1>6, <1>1 DEF CallFails, ConstructFails, SpawnFails, OpenFails, Unwind
<1>7. CASE UNCHANGED vars
  BY <1>7, <1>1 DEF vars
<1> QED BY <1>3, <1>4, <1>5, <1>6, <1>7 DEF Next, Ended

\* Every step keeps the queue in the order of the file, ahead of the workers.
LEMMA QueuedChunksStep == IInv /\ [Next]_vars => QueuedChunks'
<1> SUFFICES ASSUME TypeOK, Phases, QueuedChunks, [Next]_vars PROVE QueuedChunks'
  BY DEF IInv
<1> USE DEF QueuedChunks, TypeOK, QueueTypeOK
<1>f. file' = file /\ Chunks' = Chunks
  BY SameFile
<1>s. /\ Len(file) \in Nat /\ Chunks = 1 .. Len(file) /\ pos \in 0 .. Len(file)
      /\ Len(queue_) \in Nat
  BY FileShape DEF Chunks, MainTypeOK, ChunkNumbers
<1>1. ASSUME UNCHANGED <<queue_, owner, pos>> PROVE QueuedChunks'
  BY <1>1, <1>f
<1>2. CASE PushChunk
  <2>1. /\ UNCHANGED owner /\ pos' = pos + 1 /\ queue_' = Append(queue_, pos + 1)
        /\ pos + 1 \in Chunks
    BY <1>2, <1>s DEF PushChunk, Pushing, PushAccepted, workerVars
  <2>2. /\ Len(queue_') = Len(queue_) + 1
        /\ \A i \in 1 .. Len(queue_) : queue_'[i] = queue_[i]
        /\ queue_'[Len(queue_) + 1] = pos + 1
    BY <2>1
  <2>3. \A i \in 1 .. Len(queue_) : queue_[i] \in Chunks
    OBVIOUS
  <2>4. \A i \in 1 .. Len(queue_') : queue_'[i] <= pos' /\ owner'[queue_'[i]] = 0
    BY <2>1, <2>2, <2>3, <1>s
  <2>5. ASSUME NEW i \in 1 .. Len(queue_'), NEW j \in 1 .. Len(queue_'), i < j
        PROVE  queue_'[i] < queue_'[j]
    <3>1. i \in 1 .. Len(queue_) /\ queue_'[i] = queue_[i] /\ queue_[i] <= pos
      BY <2>2, <2>5, <1>s
    <3>2. CASE j = Len(queue_) + 1
      BY <3>1, <3>2, <2>2, <2>3, <1>s
    <3>3. CASE j # Len(queue_) + 1
      <4>1. j \in 1 .. Len(queue_) /\ queue_'[j] = queue_[j]
        BY <3>3, <2>2, <1>s
      <4> QED BY <3>1, <4>1, <2>5
    <3> QED BY <3>2, <3>3
  <2>6. \A c \in Chunks : pos' < c => owner'[c] = 0
    BY <2>1, <1>s
  <2> QED BY <2>4, <2>5, <2>6, <1>f
<1>3. CASE DropChunk
  BY <1>3, <1>f, <1>s DEF DropChunk, PushRefused, queueVars, workerVars
<1>4. CASE MainStep /\ ~CallFails
  BY <1>4, <1>1, <1>2, <1>3
     DEF MainStep, Spawn, OpenFile, WaitToPush, PushWait, ChunksDone, Shutdown, Rethrow,
         StartReduce, Reduce, Return, queueVars, mainVars, workerVars
<1>5. ASSUME NEW w \in Workers, WorkerStep(w) PROVE QueuedChunks'
  <2>1. CASE PopChunk(w)
    <3>1. /\ queue_ # <<>> /\ queue_' = Tail(queue_) /\ UNCHANGED pos
          /\ owner' = [owner EXCEPT ![Head(queue_)] = w]
      BY <2>1 DEF PopChunk, PopItem, mainVars
    <3>2. /\ Len(queue_') = Len(queue_) - 1
          /\ \A i \in 1 .. Len(queue_') : i + 1 \in 1 .. Len(queue_) /\ queue_'[i] = queue_[i + 1]
          /\ Head(queue_) = queue_[1] /\ 1 \in 1 .. Len(queue_)
      BY <3>1, <1>s
    <3>3. \A i \in 1 .. Len(queue_') : queue_'[i] # Head(queue_) /\ queue_'[i] \in Chunks
      BY <3>2, <1>s
    <3>4. \A c \in Chunks \ {Head(queue_)} : owner'[c] = owner[c]
      BY <3>1 DEF WorkersTypeOK
    <3>5. \A i \in 1 .. Len(queue_') : queue_'[i] <= pos' /\ owner'[queue_'[i]] = 0
      BY <3>1, <3>2, <3>3, <3>4
    <3>6. ASSUME NEW i \in 1 .. Len(queue_'), NEW j \in 1 .. Len(queue_'), i < j
          PROVE  queue_'[i] < queue_'[j]
      <4>1. i + 1 \in 1 .. Len(queue_) /\ j + 1 \in 1 .. Len(queue_) /\ i + 1 < j + 1
        BY <3>2, <3>6
      <4> QED BY <4>1, <3>2
    <3>7. Head(queue_) <= pos /\ Head(queue_) \in Chunks
      BY <3>2
    <3>8. \A c \in Chunks : pos' < c => owner'[c] = 0
      BY <3>1, <3>4, <3>7, <1>s
    <3> QED BY <3>5, <3>6, <3>8, <1>f
  <2>2. CASE ~PopChunk(w)
    <3>1. UNCHANGED <<queue_, owner, pos>>
      BY <1>5, <2>2
         DEF WorkerStep, WaitToPop, PopWait, WorkerExits, PopNull, ReadDocument, MalformedDocument,
             EndOfChunk, NextItem, StreamNotOpened, Throws, CatchException, Shutdown,
             queueVars, mainVars, workerVars
    <3> QED BY <3>1, <1>1
  <2> QED BY <2>1, <2>2
<1>6. CASE CallFails
  BY <1>6, <1>1 DEF CallFails, ConstructFails, SpawnFails, OpenFails, Unwind, queueVars, workerVars
<1>7. ASSUME NEW t \in {Main} \cup Workers, Wakeup(t) PROVE QueuedChunks'
  BY <1>7, <1>1 DEF Wakeup, SpuriousWakeup, mainVars, workerVars
<1>8. CASE UNCHANGED vars
  BY <1>8, <1>1 DEF vars, queueVars, mainVars, workerVars
<1> QED BY <1>4, <1>5, <1>6, <1>7, <1>8 DEF Next, Ended

\* Every step keeps the reasons why the queue may be shut down or drained.
LEMMA ShutdownCausesStep == IInv /\ [Next]_vars => ShutdownCauses'
<1> SUFFICES ASSUME TypeOK, Phases, HeldChunks, ShutdownCauses, [Next]_vars PROVE ShutdownCauses'
  BY DEF IInv
<1> USE DEF ShutdownCauses
<1>1. ASSUME UNCHANGED <<queue_, done_, pc, worker, exceptions>> PROVE ShutdownCauses'
  BY <1>1
<1>2. CASE Spawn
  BY <1>2 DEF Spawn, queueVars, TypeOK, WorkersTypeOK
<1>3. CASE OpenFile \/ Rethrow \/ StartReduce \/ Return
  BY <1>3 DEF OpenFile, Rethrow, StartReduce, Return, Joined, queueVars, workerVars
<1>4. CASE PushChunk
  BY <1>4 DEF PushChunk, Pushing, PushAccepted, workerVars
<1>5. CASE DropChunk \/ Reduce
  BY <1>5, <1>1 DEF DropChunk, PushRefused, Reduce, queueVars, workerVars
<1>6. CASE WaitToPush
  BY <1>6, <1>1 DEF WaitToPush, PushWait, mainVars, workerVars
<1>7. CASE ChunksDone
  BY <1>7 DEF ChunksDone, Shutdown, workerVars
<1>8. ASSUME NEW w \in Workers, WorkerStep(w) PROVE ShutdownCauses'
  <2> USE DEF mainVars, TypeOK, WorkersTypeOK
  <2>1. CASE WaitToPop(w)
    BY <2>1, <1>1 DEF WaitToPop, PopWait, workerVars
  <2>2. CASE PopChunk(w)
    BY <2>2 DEF PopChunk, PopItem, QueueTypeOK
  <2>3. CASE WorkerExits(w)
    BY <2>3 DEF WorkerExits, PopNull, queueVars
  <2>4. CASE ReadDocument(w)
    BY <2>4, <1>1 DEF ReadDocument, queueVars
  <2>5. ASSUME NextItem(w) PROVE ShutdownCauses'
    BY <2>5 DEF NextItem, queueVars
  <2>6. ASSUME Throws(w) PROVE ShutdownCauses'
    BY <2>6 DEF Throws, queueVars
  <2>7. CASE CatchException(w)
    <3>1. w \in exceptions
      BY <2>7 DEF CatchException, HeldChunks, Holds
    <3> QED BY <2>7, <3>1 DEF CatchException, Shutdown
  <2> QED
    BY <1>8, <2>1, <2>2, <2>3, <2>4, <2>5, <2>6, <2>7
       DEF WorkerStep, EndOfChunk, MalformedDocument, StreamNotOpened
<1>9. CASE CallFails
  BY <1>9 DEF CallFails, ConstructFails, SpawnFails, OpenFails, Unwind, queueVars, workerVars
<1>10. ASSUME NEW t \in {Main} \cup Workers, Wakeup(t) PROVE ShutdownCauses'
  BY <1>10, <1>1 DEF Wakeup, SpuriousWakeup, mainVars, workerVars
<1>11. CASE UNCHANGED vars
  BY <1>11, <1>1 DEF vars, queueVars, mainVars, workerVars
<1> QED
  BY <1>2, <1>3, <1>4, <1>5, <1>6, <1>7, <1>8, <1>9, <1>10, <1>11 DEF Next, MainStep, Ended

\* Every step keeps account of the chunks the splitter is done with.
LEMMA DroppedStep == IInv /\ [Next]_vars => DroppedOnlyAfterException'
<1> SUFFICES ASSUME TypeOK, Phases, QueuedChunks, ShutdownCauses,
                    DroppedOnlyAfterException, [Next]_vars
             PROVE  DroppedOnlyAfterException'
  BY DEF IInv
<1> USE DEF DroppedOnlyAfterException, TypeOK, QueueTypeOK
<1>s. Len(file) \in Nat /\ Chunks = 1 .. Len(file) /\ pos \in 0 .. Len(file) /\ Len(queue_) \in Nat
  BY FileShape DEF Chunks, MainTypeOK, ChunkNumbers
<1>1. ASSUME UNCHANGED <<pos, queue_, owner, exceptions>> PROVE DroppedOnlyAfterException'
  BY <1>1
<1>2. CASE PushChunk
  <2>1. UNCHANGED <<owner, exceptions>> /\ pos' = pos + 1 /\ queue_' = Append(queue_, pos + 1)
    BY <1>2 DEF PushChunk, PushAccepted, workerVars
  <2>2. /\ Len(queue_') = Len(queue_) + 1 /\ queue_'[Len(queue_) + 1] = pos + 1
        /\ \A i \in 1 .. Len(queue_) : queue_'[i] = queue_[i]
    BY <2>1
  <2>3. Len(queue_) + 1 \in 1 .. Len(queue_') /\ \A i \in 1 .. Len(queue_) : i \in 1 .. Len(queue_')
    BY <2>2, <1>s
  <2>4. \A c \in 1 .. pos' : c \in 1 .. pos \/ c = pos + 1
    BY <2>1, <1>s
  <2> QED BY <2>1, <2>2, <2>3, <2>4
<1>3. CASE DropChunk
  BY <1>3 DEF DropChunk, Pushing, PushRefused, ShutdownCauses, workerVars
<1>4. CASE MainStep /\ ~CallFails
  BY <1>4, <1>1, <1>2, <1>3
     DEF MainStep, Spawn, OpenFile, WaitToPush, PushWait, ChunksDone, Shutdown, Rethrow,
         StartReduce, Reduce, Return, queueVars, mainVars, workerVars
<1>5. ASSUME NEW w \in Workers, WorkerStep(w) PROVE DroppedOnlyAfterException'
  <2>1. CASE PopChunk(w)
    <3>1. /\ queue_ # <<>> /\ queue_' = Tail(queue_) /\ UNCHANGED <<pos, exceptions>>
          /\ owner' = [owner EXCEPT ![Head(queue_)] = w]
      BY <2>1 DEF PopChunk, PopItem, mainVars
    <3>2. w # 0 /\ Head(queue_) = queue_[1] /\ Head(queue_) \in Chunks
      BY <3>1, PipelineAssumption DEF Workers
    <3>3. \A c \in Chunks : owner'[c] = IF c = Head(queue_) THEN w ELSE owner[c]
      BY <3>1 DEF WorkersTypeOK
    <3>4. ASSUME NEW i \in 1 .. Len(queue_), queue_[i] # Head(queue_)
          PROVE  \E j \in 1 .. Len(queue_') : queue_'[j] = queue_[i]
      <4>1. i - 1 \in 1 .. Len(queue_') /\ queue_'[i - 1] = queue_[i]
        BY <3>1, <3>2, <3>4, <1>s
      <4> QED BY <4>1
    <3>5. \A c \in 1 .. pos : c \in Chunks
      BY <1>s
    <3> QED BY <3>1, <3>2, <3>3, <3>4, <3>5
  <2>2. ASSUME Throws(w) PROVE DroppedOnlyAfterException'
    BY <2>2 DEF Throws, mainVars
  <2>3. CASE ~PopChunk(w) /\ ~Throws(w)
    <3>1. UNCHANGED <<pos, queue_, owner, exceptions>>
      BY <1>5, <2>3
         DEF WorkerStep, WaitToPop, PopWait, WorkerExits, PopNull, ReadDocument, MalformedDocument,
             EndOfChunk, NextItem, StreamNotOpened, CatchException, Shutdown,
             queueVars, mainVars, workerVars
    <3> QED BY <3>1, <1>1
  <2> QED BY <2>1, <2>2, <2>3
<1>6. CASE CallFails
  BY <1>6, <1>1 DEF CallFails, ConstructFails, SpawnFails, OpenFails, Unwind, queueVars, workerVars
<1>7. ASSUME NEW t \in {Main} \cup Workers, Wakeup(t) PROVE DroppedOnlyAfterException'
  BY <1>7, <1>1 DEF Wakeup, SpuriousWakeup, mainVars, workerVars
<1>8. CASE UNCHANGED vars
  BY <1>8, <1>1 DEF vars, queueVars, mainVars, workerVars
<1> QED BY <1>4, <1>5, <1>6, <1>7, <1>8 DEF Next, Ended

\* What a worker that has not thrown should have accumulated.
Accounted(w) ==
  \A c \in Chunks : \A d \in 1 .. Len(file[c].docs) :
    /\ results[w][<<c, d>>] = IF Read(w, c, d) THEN 1 ELSE 0
    /\ Read(w, c, d) => file[c].docs[d] = "ok"

\* Every step keeps the accumulators in step with the chunks read.
LEMMA WorkersResultsStep == IInv /\ [Next]_vars => WorkersResults'
<1> SUFFICES ASSUME TypeOK, QueuedChunks, HeldChunks, [Next]_vars,
                    \A w \in Workers \ exceptions : Accounted(w)
             PROVE  \A w \in Workers \ exceptions' : Accounted(w)'
  BY DEF IInv, WorkersResults, Accounted
<1> USE DEF TypeOK, WorkersTypeOK
<1>f. file' = file /\ Chunks' = Chunks
  BY SameFile
<1>s. /\ Len(file) \in Nat /\ Chunks = 1 .. Len(file)
      /\ \A c \in Chunks : Len(file[c].docs) \in Nat
      /\ \A v \in Workers : v # 0
  BY FileShape DEF Chunks, MainTypeOK, Workers
\* A worker whose own variables do not change stays accounted for.
<1>1. ASSUME NEW v \in Workers, Accounted(v), results'[v] = results[v],
             item'[v] = item[v], doc'[v] = doc[v],
             \A c \in Chunks : owner'[c] = v <=> owner[c] = v
      PROVE  Accounted(v)'
  <2>1. ASSUME NEW c \in Chunks, NEW d \in 1 .. Len(file[c].docs)
        PROVE  /\ results'[v][<<c, d>>] = IF Read(v, c, d)' THEN 1 ELSE 0
               /\ Read(v, c, d)' => file[c].docs[d] = "ok"
    <3>1. Read(v, c, d)' <=> Read(v, c, d)
      BY <1>1, <1>f DEF Read
    <3> QED BY <1>1, <3>1 DEF Accounted
  <2> QED BY <2>1, <1>f DEF Accounted
<1>2. ASSUME UNCHANGED <<item, doc, results, owner>>, exceptions \subseteq exceptions'
      PROVE  \A w \in Workers \ exceptions' : Accounted(w)'
  BY <1>2, <1>1
<1>3. CASE MainStep /\ ~CallFails
  BY <1>3, <1>2
     DEF MainStep, Spawn, OpenFile, PushChunk, DropChunk, WaitToPush, ChunksDone, Rethrow,
         StartReduce, Reduce, Return, workerVars
<1>4. ASSUME NEW w \in Workers, WorkerStep(w)
      PROVE  \A v \in Workers \ exceptions' : Accounted(v)'
  <2>1. CASE WaitToPop(w) \/ WorkerExits(w) \/ CatchException(w)
    BY <2>1, <1>2 DEF WaitToPop, WorkerExits, CatchException, workerVars
  <2>2. CASE PopChunk(w)
    <3>1. /\ Head(queue_) \in Chunks /\ owner[Head(queue_)] = 0
          /\ w \notin exceptions /\ item[w] = 0
      BY <2>2 DEF PopChunk, PopItem, QueueTypeOK, QueuedChunks, HeldChunks, Holds
    <3>2. /\ UNCHANGED <<results, exceptions>> /\ item'[w] = Head(queue_) /\ doc'[w] = 1
          /\ \A v \in Workers \ {w} : item'[v] = item[v] /\ doc'[v] = doc[v]
          /\ \A c \in Chunks : owner'[c] = IF c = Head(queue_) THEN w ELSE owner[c]
      BY <2>2, <3>1 DEF PopChunk
    <3>3. ASSUME NEW v \in Workers \ exceptions, v # w PROVE Accounted(v)'
      <4>1. \A c \in Chunks : owner'[c] = v <=> owner[c] = v
        BY <3>1, <3>2, <3>3, <1>s
      <4>2. results'[v] = results[v] /\ item'[v] = item[v] /\ doc'[v] = doc[v]
        BY <3>2, <3>3
      <4> QED BY <4>1, <4>2, <1>1
    <3>4. Accounted(w)'
      <4>1. ASSUME NEW c \in Chunks, NEW d \in 1 .. Len(file[c].docs)
            PROVE  Read(w, c, d)' <=> Read(w, c, d)
        BY <3>1, <3>2, <1>f, <1>s DEF Read
      <4> QED BY <4>1, <3>1, <3>2, <1>f DEF Accounted
    <3> QED BY <3>2, <3>3, <3>4
  <2>3. CASE ReadDocument(w)
    <3>1. /\ w \notin exceptions /\ item[w] \in Chunks /\ owner[item[w]] = w
          /\ file[item[w]].opened /\ file[item[w]].docs[doc[w]] = "ok"
          /\ doc[w] \in 1 .. Len(file[item[w]].docs)
      <4>1. /\ worker[w] = "parse" /\ file[item[w]].opened
            /\ file[item[w]].docs[doc[w]] = "ok" /\ doc[w] <= Len(file[item[w]].docs)
        BY <2>3 DEF ReadDocument, HasDocument, Chunk
      <4>2. w \notin exceptions /\ item[w] \in Chunks /\ owner[item[w]] = w
        BY <4>1 DEF HeldChunks, Holds
      <4> QED BY <4>1, <4>2, <1>s
    <3>2. <<item[w], doc[w]>> \in Documents
      BY <3>1, DocumentPairs
    <3>3. /\ UNCHANGED <<item, owner, exceptions>> /\ doc'[w] = doc[w] + 1
          /\ \A v \in Workers \ {w} : doc'[v] = doc[v] /\ results'[v] = results[v]
          /\ \A p \in Documents :
               results'[w][p] = IF p = <<item[w], doc[w]>> THEN results[w][p] + 1 ELSE results[w][p]
      BY <2>3, <3>2 DEF ReadDocument, AccumulateDocument
    <3>4. ASSUME NEW v \in Workers \ exceptions, v # w PROVE Accounted(v)'
      BY <3>3, <3>4, <1>1
    <3>5. ASSUME NEW c \in Chunks, NEW d \in 1 .. Len(file[c].docs)
          PROVE  /\ results'[w][<<c, d>>] = IF Read(w, c, d)' THEN 1 ELSE 0
                 /\ Read(w, c, d)' => file[c].docs[d] = "ok"
      <4>1. <<c, d>> \in Documents
        BY DocumentPairs
      <4>2. /\ results[w][<<c, d>>] = IF Read(w, c, d) THEN 1 ELSE 0
            /\ Read(w, c, d) => file[c].docs[d] = "ok"
        BY <3>1 DEF Accounted
      <4>3. CASE <<c, d>> = <<item[w], doc[w]>>
        <5>1. c = item[w] /\ d = doc[w]
          BY <4>3
        <5>2. ~Read(w, c, d) /\ Read(w, c, d)'
          BY <5>1, <3>1, <3>3, <1>f, <1>s DEF Read
        <5> QED BY <5>1, <5>2, <4>1, <4>2, <3>1, <3>3
      <4>4. CASE <<c, d>> # <<item[w], doc[w]>>
        <5>1. Read(w, c, d)' <=> Read(w, c, d)
          BY <4>4, <3>1, <3>3, <1>f, <1>s DEF Read
        <5> QED BY <5>1, <4>1, <4>2, <4>4, <3>3
      <4> QED BY <4>3, <4>4
    <3>6. Accounted(w)'
      BY <3>5, <1>f DEF Accounted
    <3> QED BY <3>3, <3>4, <3>6
  <2>4. ASSUME Throws(w), \A v \in Workers \ {w} : results'[v] = results[v]
        PROVE  \A v \in Workers \ exceptions' : Accounted(v)'
    <3>1. exceptions' = exceptions \cup {w} /\ UNCHANGED <<item, doc, owner>>
      BY <2>4 DEF Throws
    <3> QED BY <3>1, <2>4, <1>1
  <2>5. CASE MalformedDocument(w)
    BY <2>5, <2>4 DEF MalformedDocument, AccumulateDocument
  <2>6. ASSUME NextItem(w), worker[w] = "parse",
               Chunk(w).opened => doc[w] > Len(Chunk(w).docs)
        PROVE  \A v \in Workers \ exceptions' : Accounted(v)'
    <3>1. /\ UNCHANGED <<doc, results, exceptions, owner>> /\ item'[w] = 0
          /\ \A v \in Workers \ {w} : item'[v] = item[v]
      BY <2>6 DEF NextItem
    <3>2. ASSUME NEW v \in Workers \ exceptions, v # w PROVE Accounted(v)'
      BY <3>1, <3>2, <1>1
    <3>3. ASSUME w \notin exceptions PROVE Accounted(w)'
      <4>1. ASSUME NEW c \in Chunks, NEW d \in 1 .. Len(file[c].docs)
            PROVE  Read(w, c, d)' <=> Read(w, c, d)
        BY <2>6, <3>1, <1>f, <1>s DEF Read, Chunk
      <4> QED BY <4>1, <3>1, <3>3, <1>f DEF Accounted
    <3> QED BY <3>1, <3>2, <3>3
  <2>7. CASE EndOfChunk(w)
    BY <2>7, <2>6 DEF EndOfChunk
  <2>8. CASE StreamNotOpened(w)
    BY <2>8, <2>6, <2>4 DEF StreamNotOpened
  <2> QED BY <1>4, <2>1, <2>2, <2>3, <2>5, <2>7, <2>8 DEF WorkerStep
<1>5. CASE CallFails
  BY <1>5, <1>2 DEF CallFails, ConstructFails, SpawnFails, OpenFails, Unwind, workerVars
<1>6. ASSUME NEW t \in {Main} \cup Workers, Wakeup(t)
      PROVE  \A w \in Workers \ exceptions' : Accounted(w)'
  BY <1>6, <1>2 DEF Wakeup, workerVars
<1>7. CASE UNCHANGED vars
  BY <1>7, <1>2 DEF vars, workerVars
<1> QED BY <1>3, <1>4, <1>5, <1>6, <1>7 DEF Next, Ended

\* Every step keeps the reduced accumulator in step with the workers taken.
LEMMA ReducedResultsStep == IInv /\ [Next]_vars => ReducedResults'
<1> SUFFICES ASSUME IInv, [Next]_vars PROVE ReducedResults'
  OBVIOUS
<1> USE DEF ReducedResults
<1>i. /\ TypeOK /\ Phases /\ HeldChunks /\ ShutdownCauses /\ DroppedOnlyAfterException
      /\ WorkersResults /\ ReducedResults
  BY DEF IInv
<1>f. file' = file /\ Chunks' = Chunks
  BY SameFile
<1>s. /\ num_workers_ \in Int /\ Workers = 1 .. num_workers_ /\ reduced \in Workers \cup {0}
      /\ Len(file) \in Nat /\ Chunks = 1 .. Len(file)
  BY <1>i, FileShape, PipelineAssumption DEF Workers, TypeOK, MainTypeOK, Chunks
<1>1. ASSUME UNCHANGED <<pc, outcome, reduced, global, owner>> PROVE ReducedResults'
  BY <1>1, <1>i, <1>f
<1>2. CASE Spawn \/ OpenFile \/ PushChunk \/ DropChunk \/ WaitToPush \/ ChunksDone
  BY <1>2, <1>i, <1>f
     DEF Spawn, OpenFile, PushChunk, DropChunk, Pushing, WaitToPush, ChunksDone, mainVars, workerVars,
         Phases
<1>3. CASE Rethrow
  BY <1>3 DEF Rethrow
<1>4. CASE StartReduce
  <2>1. /\ pc = "join" /\ pc' = "reduce" /\ exceptions = {}
        /\ \A w \in Workers : worker[w] = "ended"
        /\ UNCHANGED <<global, reduced, outcome, owner>>
    BY <1>4 DEF StartReduce, Joined, workerVars
  <2>2. queue_ = <<>>
    <3>1. CASE num_workers_ <= 0
      <4>1. num_workers_ = 0
        BY <3>1, <2>1, <1>i, <1>s DEF Phases, TypeOK, MainTypeOK
      <4>2. max_size_ = 0
        BY <4>1, PipelineAssumption
      <4> QED BY <4>2, <1>i DEF TypeOK, QueueTypeOK
    <3>2. CASE num_workers_ > 0
      <4>1. 1 \in Workers
        BY <3>2, <1>s
      <4> QED BY <4>1, <2>1, <1>i DEF ShutdownCauses
    <3> QED BY <3>1, <3>2, <1>s
  <2>3. \A c \in Chunks : owner[c] # 0
    BY <2>1, <2>2, <1>i, <1>s DEF DroppedOnlyAfterException, Phases
  <2>4. \A c \in Chunks : owner[c] \in Workers
    BY <2>3, <1>i, <1>s DEF TypeOK, WorkersTypeOK
  <2> QED BY <2>1, <2>4, <1>i, <1>f DEF Phases
<1>5. CASE Reduce
  <2>1. /\ pc = "reduce" /\ reduced' = reduced + 1 /\ reduced' \in Workers
        /\ UNCHANGED <<pc, outcome, owner>>
        /\ global' = [p \in Documents |-> global[p] + results[reduced'][p]]
    BY <1>5, <1>s DEF Reduce, workerVars
  <2>2. worker[reduced'] = "ended" /\ reduced' \notin exceptions /\ item[reduced'] = 0
    BY <2>1, <1>i DEF Phases, HeldChunks, Holds
  <2>3. ASSUME NEW c \in Chunks, NEW d \in 1 .. Len(file[c].docs)
        PROVE  global'[<<c, d>>] = IF owner[c] \in 1 .. reduced' /\ file[c].opened THEN 1 ELSE 0
    <3>1. results[reduced'][<<c, d>>] = IF owner[c] = reduced' /\ file[c].opened THEN 1 ELSE 0
      BY <2>1, <2>2, <1>i, <1>s DEF WorkersResults, Read
    <3>2. global[<<c, d>>] = IF owner[c] \in 1 .. reduced /\ file[c].opened THEN 1 ELSE 0
      BY <2>1, <1>i
    <3>3. <<c, d>> \in Documents
      BY DocumentPairs
    <3>4. owner[c] \in 1 .. reduced' <=> owner[c] \in 1 .. reduced \/ owner[c] = reduced'
      BY <2>1, <1>s
    <3>5. ~(owner[c] \in 1 .. reduced /\ owner[c] = reduced')
      BY <2>1, <1>s
    <3> QED BY <2>1, <3>1, <3>2, <3>3, <3>4, <3>5
  <2> QED BY <2>1, <2>3, <1>i, <1>f DEF Phases
<1>6. CASE Return
  BY <1>6, <1>i, <1>f DEF Return, workerVars
<1>7. ASSUME NEW w \in Workers, WorkerStep(w) PROVE ReducedResults'
  <2>1. UNCHANGED <<pc, outcome, reduced, global>> /\ outcome = "none"
    BY <1>7
       DEF WorkerStep, WaitToPop, PopChunk, WorkerExits, ReadDocument, MalformedDocument, EndOfChunk,
           NextItem, StreamNotOpened, Throws, CatchException, mainVars
  <2>2. worker[w] # "ended"
    BY <1>7
       DEF WorkerStep, WaitToPop, PopChunk, WorkerExits, ReadDocument, MalformedDocument, EndOfChunk,
           StreamNotOpened, HasDocument, CatchException
  <2>3. pc \in {"spawn", "chunk", "join"} /\ reduced = 0
    BY <2>1, <2>2, <1>i DEF Phases, TypeOK, MainTypeOK
  <2>4. \A o : o \notin 1 .. reduced
    BY <2>3
  <2> QED BY <2>1, <2>3, <2>4, <1>i, <1>f
<1>8. CASE CallFails
  BY <1>8 DEF CallFails, ConstructFails, SpawnFails, OpenFails, Unwind
<1>9. ASSUME NEW t \in {Main} \cup Workers, Wakeup(t) PROVE ReducedResults'
  BY <1>9, <1>1 DEF Wakeup, mainVars, workerVars
<1>10. CASE UNCHANGED vars
  BY <1>10, <1>1 DEF vars, mainVars, workerVars
<1> QED
  BY <1>2, <1>3, <1>4, <1>5, <1>6, <1>7, <1>8, <1>9, <1>10 DEF Next, MainStep, Ended

\* Every step that records an exception has a reason for it.
LEMMA ExceptionsStep == IInv /\ [Next]_vars => ExceptionsAreReal'
<1> SUFFICES ASSUME TypeOK, HeldChunks, ExceptionsAreReal, [Next]_vars PROVE ExceptionsAreReal'
  BY DEF IInv
<1> USE DEF ExceptionsAreReal
<1>f. file' = file /\ Chunks' = Chunks
  BY SameFile
<1>1. ASSUME UNCHANGED exceptions PROVE ExceptionsAreReal'
  BY <1>1, <1>f
<1>2. CASE MainStep \/ UNCHANGED vars
  BY <1>2, <1>1
     DEF MainStep, Spawn, OpenFile, PushChunk, DropChunk, WaitToPush, ChunksDone, Rethrow,
         StartReduce, Reduce, Return, CallFails, ConstructFails, SpawnFails, OpenFails, Unwind, vars,
         workerVars
<1>3. ASSUME NEW w \in Workers, WorkerStep(w) PROVE ExceptionsAreReal'
  <2>1. CASE MalformedDocument(w)
    <3>1. item[w] \in Chunks
      BY <2>1 DEF MalformedDocument, HasDocument, HeldChunks, Holds
    <3>2. doc[w] \in 1 .. Len(file[item[w]].docs) /\ file[item[w]].docs[doc[w]] = "bad"
      BY <2>1, <3>1, FileShape
         DEF MalformedDocument, HasDocument, Chunk, TypeOK, MainTypeOK, WorkersTypeOK
    <3> QED BY <3>1, <3>2, <1>f
  <2>2. CASE StreamNotOpened(w)
    <3>1. item[w] \in Chunks /\ ~file[item[w]].opened
      BY <2>2 DEF StreamNotOpened, Chunk, HeldChunks, Holds
    <3> QED BY <3>1, <1>f
  <2>3. CASE ~MalformedDocument(w) /\ ~StreamNotOpened(w)
    <3>1. UNCHANGED exceptions
      BY <1>3, <2>3
         DEF WorkerStep, WaitToPop, PopChunk, WorkerExits, ReadDocument, EndOfChunk, NextItem,
             CatchException, workerVars
    <3> QED BY <3>1, <1>1
  <2> QED BY <2>1, <2>2, <2>3
<1>4. ASSUME NEW t \in {Main} \cup Workers, Wakeup(t) PROVE ExceptionsAreReal'
  BY <1>4, <1>1 DEF Wakeup, workerVars
<1> QED BY <1>2, <1>3, <1>4 DEF Next, Ended

-----------------------------------------------------------------------------
(* The theorems                                                            *)

\* The inductive invariant holds initially.
LEMMA InvariantInit == Init => IInv
<1> SUFFICES ASSUME Init PROVE IInv
  OBVIOUS
<1>1. TypeOK
  BY TypeInit
<1>2. num_workers_ \in Int /\ Workers = 1 .. num_workers_ /\ Len(file) \in Nat
  BY <1>1, FileShape, PipelineAssumption DEF Workers, TypeOK, MainTypeOK
<1> USE DEF Init, QueueInit
<1>3. DroppedOnlyAfterException
  BY DEF DroppedOnlyAfterException
<1>4. Phases
  BY <1>2 DEF Phases
<1>5. QueuedChunks
  BY DEF QueuedChunks
<1>6. ShutdownCauses
  BY DEF ShutdownCauses
<1>7. HeldChunks
  BY DEF HeldChunks, Holds
<1>8. WorkersResults
  <2>1. ASSUME NEW w \in Workers, NEW c \in Chunks, NEW d \in 1 .. Len(file[c].docs)
        PROVE  results[w][<<c, d>>] = 0 /\ owner[c] # w
    BY <1>2, DocumentPairs DEF NoDocuments
  <2> QED BY <2>1 DEF WorkersResults, Read
<1>9. ReducedResults
  <2>1. \A c \in Chunks : \A d \in 1 .. Len(file[c].docs) : global[<<c, d>>] = 0
    BY DocumentPairs DEF NoDocuments
  <2> QED BY <2>1 DEF ReducedResults
<1>10. ExceptionsAreReal
  BY DEF ExceptionsAreReal
<1> QED BY <1>1, <1>3, <1>4, <1>5, <1>6, <1>7, <1>8, <1>9, <1>10 DEF IInv

\* The inductive invariant is inductive.
LEMMA InvariantStep == IInv /\ [Next]_vars => IInv'
BY TypeStep, PhasesStep, QueuedChunksStep, ShutdownCausesStep, HeldChunksStep, DroppedStep,
   WorkersResultsStep, ReducedResultsStep, ExceptionsStep
   DEF IInv

\* The inductive invariant holds in every reachable state.
THEOREM Invariant == Spec => []IInv
BY InvariantInit, InvariantStep, PTL DEF Spec

\* The variables have their types, and the queue never exceeds the capacity
\* run_pipeline gives it.
THEOREM TypeCorrect == Spec => []TypeOK
<1>1. IInv => TypeOK
  BY DEF IInv
<1> QED BY <1>1, Invariant, PTL

\* When run_pipeline returns, every document of every chunk that was opened
\* has been accumulated exactly once.
THEOREM AccumulatedExactlyOnce == Spec => []ExactlyOnce
<1>1. ASSUME IInv, outcome = "returned", NEW p \in Documents
      PROVE  global[p] = IF file[p[1]].opened THEN 1 ELSE 0
  <2>1. p = <<p[1], p[2]>> /\ p[1] \in Chunks /\ p[2] \in 1 .. Len(file[p[1]].docs)
    BY DocumentPairs
  <2>2. owner[p[1]] \in 1 .. reduced
    BY <1>1, <2>1 DEF IInv, ReducedResults, Workers
  <2> QED BY <1>1, <2>1, <2>2 DEF IInv, ReducedResults
<1>2. IInv => ExactlyOnce
  BY <1>1 DEF ExactlyOnce
<1> QED BY <1>2, Invariant, PTL

\* When run_pipeline returns, none of the documents it read was malformed.
THEOREM NoErrorIsLost == Spec => []ErrorsSurface
<1>1. ASSUME IInv, outcome = "returned", NEW p \in Documents, file[p[1]].opened
      PROVE  file[p[1]].docs[p[2]] = "ok"
  <2>1. p[1] \in Chunks /\ p[2] \in 1 .. Len(file[p[1]].docs)
    BY DocumentPairs
  <2>2. owner[p[1]] \in Workers /\ exceptions = {} /\ worker[owner[p[1]]] = "ended"
    BY <1>1, <2>1 DEF IInv, ReducedResults, Phases
  <2>3. item[owner[p[1]]] = 0 /\ p[1] # 0
    BY <1>1, <2>1, <2>2, FileShape DEF IInv, HeldChunks, Holds, Chunks, TypeOK, MainTypeOK
  <2>4. Read(owner[p[1]], p[1], p[2])
    BY <1>1, <2>1, <2>2, <2>3 DEF Read
  <2> QED BY <1>1, <2>1, <2>2, <2>4 DEF IInv, WorkersResults
<1>2. IInv => ErrorsSurface
  BY <1>1 DEF ErrorsSurface
<1> QED BY <1>2, Invariant, PTL

\* A chunk is dropped by a push() whose result nobody looks at only when an
\* exception has been recorded.
THEOREM DropsAreHarmless == Spec => []DroppedOnlyAfterException
<1>1. IInv => DroppedOnlyAfterException
  BY DEF IInv
<1> QED BY <1>1, Invariant, PTL

\* Once the main thread reads results and exceptions, no thread writes them.
THEOREM NoLateWrites == Spec => ResultsSettled
<1>1. IInv /\ [Next]_vars => [pc = "reduce" \/ pc = "end" => UNCHANGED <<results, exceptions>>]_vars
  <2> SUFFICES ASSUME IInv, [Next]_vars, pc = "reduce" \/ pc = "end"
               PROVE  UNCHANGED <<results, exceptions>>
    OBVIOUS
  <2>1. CASE MainStep \/ Ended \/ UNCHANGED vars
    BY <2>1
       DEF MainStep, Spawn, OpenFile, PushChunk, DropChunk, WaitToPush, ChunksDone, Rethrow,
           StartReduce, Reduce, Return, CallFails, ConstructFails, SpawnFails, OpenFails, Unwind, Ended,
           vars, workerVars
  <2>2. ASSUME NEW w \in Workers PROVE ~WorkerStep(w)
    <3>1. outcome # "none" \/ worker[w] = "ended"
      BY DEF IInv, Phases
    <3> QED BY <3>1
            DEF WorkerStep, WaitToPop, PopChunk, WorkerExits, ReadDocument, MalformedDocument,
                EndOfChunk, StreamNotOpened, HasDocument, CatchException
  <2>3. ASSUME NEW t \in {Main} \cup Workers, Wakeup(t) PROVE UNCHANGED <<results, exceptions>>
    BY <2>3 DEF Wakeup, workerVars
  <2> QED BY <2>1, <2>2, <2>3 DEF Next
<1> QED BY <1>1, Invariant, PTL DEF Spec, ResultsSettled

\* Every step of the pipeline is a step of the fold of the file, or none: what
\* it returns counts each document once whatever the workers did, and it throws
\* only for a chunk or a document that cannot be read.
THEOREM ImplementsFold == Spec => Fold!Init /\ [][Fold!Next]_(Fold!vars)
<1> DEFINE result == IF outcome = "returned" THEN global ELSE <<>>
<1>1. Init => Fold!Init
  BY DEF Init, Fold!Init
<1>2. ASSUME IInv, IInv', [Next]_vars PROVE [Fold!Next]_(Fold!vars)
  <2>f. file' = file /\ refused' = refused
    BY <1>2, SameFile
  <2>1. CASE Return
    <3>1. /\ outcome = "none" /\ outcome' = "returned" /\ refused = 0
          /\ reduced = num_workers_ /\ pc = "reduce"
      BY <2>1, <1>2 DEF Return, IInv, Phases
    <3>2. Fold!WellFormed
      <4>1. ASSUME NEW c \in Chunks, file[c].opened, NEW d \in 1 .. Len(file[c].docs)
            PROVE  file[c].docs[d] = "ok"
        <5>1. owner[c] \in Workers /\ exceptions = {} /\ worker[owner[c]] = "ended"
          BY <1>2, <3>1 DEF IInv, ReducedResults, Phases
        <5>2. item[owner[c]] = 0 /\ c # 0
          BY <1>2, <5>1, FileShape DEF IInv, HeldChunks, Holds, Chunks, TypeOK, MainTypeOK
        <5>3. Read(owner[c], c, d)
          BY <5>1, <5>2, <4>1 DEF Read
        <5> QED BY <1>2, <5>1, <5>3 DEF IInv, WorkersResults
      <4> QED BY <4>1 DEF Fold!WellFormed, Fold!Chunks, Chunks
    <3>3. global' = [p \in Documents |-> IF file[p[1]].opened THEN 1 ELSE 0]
      <4>1. global' = global /\ global \in [Documents -> Nat]
        BY <1>2, <2>1 DEF Return, IInv, TypeOK, MainTypeOK
      <4>2. ASSUME NEW p \in Documents PROVE global[p] = IF file[p[1]].opened THEN 1 ELSE 0
        <5>1. p = <<p[1], p[2]>> /\ p[1] \in Chunks /\ p[2] \in 1 .. Len(file[p[1]].docs)
          BY DocumentPairs
        <5>2. owner[p[1]] \in 1 .. reduced
          BY <1>2, <3>1, <5>1 DEF IInv, ReducedResults, Workers
        <5> QED BY <1>2, <3>1, <5>1, <5>2 DEF IInv, ReducedResults
      <4> QED BY <4>1, <4>2
    <3>4. Fold!Return
      BY <3>1, <3>2, <3>3, <2>f DEF Fold!Return, Fold!Documents, Fold!Chunks, Documents, Chunks
    <3> QED BY <3>4 DEF Fold!Next
  <2>2. CASE Rethrow
    <3>1. outcome = "none" /\ outcome' = "threw" /\ refused = 0 /\ exceptions # {}
      BY <2>2, <1>2 DEF Rethrow, Joined, IInv, Phases
    <3>2. ~(Fold!AllOpened /\ Fold!WellFormed)
      BY <1>2, <3>1
         DEF IInv, ExceptionsAreReal, Fold!AllOpened, Fold!WellFormed, Fold!Chunks, Chunks
    <3> QED BY <3>1, <3>2, <2>f DEF Fold!Next, Fold!Throw
  <2>3. CASE CallFails
    <3>1. /\ outcome = "none" /\ refused # 0
          /\ outcome' = IF refused <= 2 THEN "threw" ELSE "terminated"
      <4>1. spawned \in Nat /\ pc = "spawn" /\ outcome = "none"
        BY <2>3, <1>2
           DEF CallFails, ConstructFails, SpawnFails, OpenFails, IInv, Phases, TypeOK, MainTypeOK,
               Workers
      <4> QED BY <2>3, <4>1 DEF CallFails, ConstructFails, SpawnFails, OpenFails, Unwind
    <3> QED BY <3>1, <2>f DEF Fold!Next, Fold!Refused
  <2>4. CASE ~Return /\ ~Rethrow /\ ~CallFails
    <3>1. UNCHANGED outcome /\ (outcome = "returned" => UNCHANGED global)
      <4>1. CASE MainStep /\ ~CallFails
        BY <4>1, <2>4, <1>2
           DEF MainStep, Spawn, OpenFile, PushChunk, DropChunk, WaitToPush, ChunksDone,
               StartReduce, Reduce, mainVars, IInv, Phases
      <4>3. ASSUME NEW w \in Workers, WorkerStep(w) PROVE UNCHANGED <<outcome, global>>
        BY <4>3
           DEF WorkerStep, WaitToPop, PopChunk, WorkerExits, ReadDocument, MalformedDocument,
               EndOfChunk, NextItem, StreamNotOpened, Throws, CatchException, mainVars
      <4>4. ASSUME NEW t \in {Main} \cup Workers, Wakeup(t) PROVE UNCHANGED <<outcome, global>>
        BY <4>4 DEF Wakeup, mainVars
      <4>5. CASE UNCHANGED vars
        BY <4>5 DEF vars, mainVars
      <4> QED BY <1>2, <2>4, <4>1, <4>3, <4>4, <4>5 DEF Next, Ended
    <3> QED BY <3>1, <2>f DEF Fold!vars
  <2> QED BY <2>1, <2>2, <2>3, <2>4
<1> QED BY <1>1, <1>2, Invariant, PTL DEF Spec
=============================================================================
