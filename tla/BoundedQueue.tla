---------------------------- MODULE BoundedQueue ----------------------------
(***************************************************************************)
(* The monitor BoundedQueue (include/boundedqueue.h, src/boundedQueue.cpp):*)
(* a FIFO of work items guarded by one mutex and two condition variables.  *)
(*                                                                         *)
(* Every method holds mutex_ for its whole body except while it waits on a *)
(* condition variable, so a method is a sequence of atomic sections        *)
(* separated by waits.  A section is one action here: the one that ends in *)
(* a wait puts the thread to sleep; the one that ends the call returns.  A *)
(* sleeping thread is a member of the set of its condition variable; it    *)
(* leaves the set when it is notified, or spuriously, and then competes    *)
(* for mutex_ again and re-evaluates the predicate of its wait.            *)
(*                                                                         *)
(* The module has the state and the operations; QueueClients and Pipeline  *)
(* supply the threads that call them.                                      *)
(***************************************************************************)
EXTENDS Naturals, Sequences

CONSTANT max_size_      \* capacity of the queue, in items

ASSUME MaxSizeAssumption == max_size_ \in Nat

VARIABLES
  queue_,       \* the items, oldest first
  done_,        \* has shutdown() been called?
  not_full_,    \* threads asleep on the condition variable of push()
  not_empty_    \* threads asleep on the condition variable of pop()

queueVars == <<queue_, done_, not_full_, not_empty_>>

QueueInit ==
  /\ queue_ = <<>>
  /\ done_ = FALSE
  /\ not_full_ = {}
  /\ not_empty_ = {}

Asleep(t) == t \in not_full_ \cup not_empty_

\* Mutant of NotifyOne: nobody is notified.
NotifyNobody(cv) == {cv}

\* The sets notify_one() may leave behind: one sleeper fewer, if there is one.
NotifyOne(cv) == IF cv = {} THEN {{}} ELSE {cv \ {t} : t \in cv}

(***************************************************************************)
(* push(item): wait until there is room or the queue is shut down; then    *)
(* refuse the item or append it and notify one consumer.                   *)
(***************************************************************************)
PushWait(t) ==
  /\ ~Asleep(t)
  /\ ~(Len(queue_) < max_size_ \/ done_)
  /\ not_full_' = not_full_ \cup {t}
  /\ UNCHANGED <<queue_, done_, not_empty_>>

PushRefused(t) ==
  /\ ~Asleep(t)
  /\ done_
  /\ UNCHANGED queueVars

\* Mutant of PushAccepted: the predicate is not evaluated before the item is
\* appended.
PushUnchecked(t, item) ==
  /\ ~Asleep(t)
  /\ ~done_
  /\ queue_' = Append(queue_, item)
  /\ not_empty_' \in NotifyOne(not_empty_)
  /\ UNCHANGED <<done_, not_full_>>

\* Mutant of PushAccepted: done_ is not looked at after the wait.
PushAfterShutdown(t, item) ==
  /\ ~Asleep(t)
  /\ Len(queue_) < max_size_ \/ done_
  /\ queue_' = Append(queue_, item)
  /\ not_empty_' \in NotifyOne(not_empty_)
  /\ UNCHANGED <<done_, not_full_>>

PushAccepted(t, item) ==
  /\ ~Asleep(t)
  /\ ~done_
  /\ Len(queue_) < max_size_
  /\ queue_' = Append(queue_, item)
  /\ not_empty_' \in NotifyOne(not_empty_)
  /\ UNCHANGED <<done_, not_full_>>

(***************************************************************************)
(* pop(): wait until there is an item or the queue is shut down; then      *)
(* return the oldest item and notify one producer, or nullopt.             *)
(***************************************************************************)
PopWait(t) ==
  /\ ~Asleep(t)
  /\ ~(queue_ # <<>> \/ done_)
  /\ not_empty_' = not_empty_ \cup {t}
  /\ UNCHANGED <<queue_, done_, not_full_>>

\* Mutant of PopNull: a queue that is shut down is not drained first.
PopNullWhenDone(t) ==
  /\ ~Asleep(t)
  /\ done_
  /\ UNCHANGED queueVars

PopNull(t) ==
  /\ ~Asleep(t)
  /\ done_
  /\ queue_ = <<>>
  /\ UNCHANGED queueVars

\* Mutant of PopItem: the producers are not told of the free slot.
PopItemSilently(t) ==
  /\ ~Asleep(t)
  /\ queue_ # <<>>
  /\ queue_' = Tail(queue_)
  /\ UNCHANGED <<done_, not_full_, not_empty_>>

\* Mutant of PopItem: the oldest item is returned and the newest removed.
PopItemFromBack(t) ==
  /\ ~Asleep(t)
  /\ queue_ # <<>>
  /\ queue_' = SubSeq(queue_, 1, Len(queue_) - 1)
  /\ not_full_' \in NotifyOne(not_full_)
  /\ UNCHANGED <<done_, not_empty_>>

\* The item returned is Head(queue_).
PopItem(t) ==
  /\ ~Asleep(t)
  /\ queue_ # <<>>
  /\ queue_' = Tail(queue_)
  /\ not_full_' \in NotifyOne(not_full_)
  /\ UNCHANGED <<done_, not_empty_>>

\* Mutant of Shutdown: only the consumers are woken.
ShutdownWakesConsumers ==
  /\ done_' = TRUE
  /\ not_empty_' = {}
  /\ UNCHANGED <<queue_, not_full_>>

\* shutdown(): set the flag and wake every sleeper.
Shutdown ==
  /\ done_' = TRUE
  /\ not_full_' = {}
  /\ not_empty_' = {}
  /\ UNCHANGED queue_

\* std::condition_variable::wait may wake a thread nobody notified.
SpuriousWakeup(t) ==
  /\ Asleep(t)
  /\ not_full_' = not_full_ \ {t}
  /\ not_empty_' = not_empty_ \ {t}
  /\ UNCHANGED <<queue_, done_>>
=============================================================================
