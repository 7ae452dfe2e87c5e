---------------------------- MODULE QueueClients ----------------------------
(***************************************************************************)
(* BoundedQueue with the threads that use it: producers that push their    *)
(* items one after the other and ignore what push() returns, as            *)
(* Processor::chunk does; consumers that pop until they get nullopt or     *)
(* until processing an item throws, in which case the handler shuts the    *)
(* queue down (run_pipeline's worker threads); and the owner of the queue, *)
(* who shuts it down once the producers are finished.  The program has one *)
(* producer, the tests of the queue have several; both are instances.      *)
(***************************************************************************)
EXTENDS BoundedQueue, FiniteSets

CONSTANTS Producers, Consumers, PerProducer

ASSUME ClientsAssumption ==
  /\ Producers \cap Consumers = {}
  /\ IsFiniteSet(Producers) /\ IsFiniteSet(Consumers)
  /\ PerProducer \in Nat

VARIABLES
  call,       \* per thread: "idle", in "push", in "pop", or "exited"
  offered,    \* per producer: calls of push() that have returned
  accepted,   \* history: the items push() took, in order
  received    \* history: the items pop() returned, in order

vars == <<queue_, done_, not_full_, not_empty_, call, offered, accepted, received>>

Threads == Producers \cup Consumers

Init ==
  /\ QueueInit
  /\ call = [t \in Threads |-> "idle"]
  /\ offered = [p \in Producers |-> 0]
  /\ accepted = <<>>
  /\ received = <<>>

Move(t, from, to) ==
  /\ call[t] = from
  /\ call' = [call EXCEPT ![t] = to]

-----------------------------------------------------------------------------
(* Producers                                                               *)

CallPush(p) ==
  /\ offered[p] < PerProducer
  /\ Move(p, "idle", "push")
  /\ UNCHANGED <<queueVars, offered, accepted, received>>

Push(p) ==
  /\ PushAccepted(p, <<p, offered[p] + 1>>)
  /\ Move(p, "push", "idle")
  /\ offered' = [offered EXCEPT ![p] = @ + 1]
  /\ accepted' = Append(accepted, <<p, offered[p] + 1>>)
  /\ UNCHANGED received

PushReturnsFalse(p) ==
  /\ PushRefused(p)
  /\ Move(p, "push", "idle")
  /\ offered' = [offered EXCEPT ![p] = @ + 1]
  /\ UNCHANGED <<accepted, received>>

PushBlocks(p) ==
  /\ call[p] = "push"
  /\ PushWait(p)
  /\ UNCHANGED <<call, offered, accepted, received>>

ProducerExit(p) ==
  /\ offered[p] = PerProducer
  /\ Move(p, "idle", "exited")
  /\ UNCHANGED <<queueVars, offered, accepted, received>>

-----------------------------------------------------------------------------
(* Consumers                                                               *)

CallPop(c) ==
  /\ Move(c, "idle", "pop")
  /\ UNCHANGED <<queueVars, offered, accepted, received>>

Pop(c) ==
  /\ PopItem(c)
  /\ Move(c, "pop", "idle")
  /\ received' = Append(received, Head(queue_))
  /\ UNCHANGED <<offered, accepted>>

PopReturnsNull(c) ==
  /\ PopNull(c)
  /\ Move(c, "pop", "exited")
  /\ UNCHANGED <<offered, accepted, received>>

PopBlocks(c) ==
  /\ call[c] = "pop"
  /\ PopWait(c)
  /\ UNCHANGED <<call, offered, accepted, received>>

\* Processing an item threw: the handler shuts the queue down and exits.
ConsumerThrows(c) ==
  /\ Shutdown
  /\ Move(c, "idle", "exited")
  /\ UNCHANGED <<offered, accepted, received>>

-----------------------------------------------------------------------------

\* The producers have been joined (or the splitter has returned).
OwnerShutdown ==
  /\ \A p \in Producers : call[p] = "exited"
  /\ Shutdown
  /\ UNCHANGED <<call, offered, accepted, received>>

Wakeup(t) ==
  /\ SpuriousWakeup(t)
  /\ UNCHANGED <<call, offered, accepted, received>>

ProducerStep(p) ==
  CallPush(p) \/ Push(p) \/ PushReturnsFalse(p) \/ PushBlocks(p) \/ ProducerExit(p)

ConsumerStep(c) ==
  CallPop(c) \/ Pop(c) \/ PopReturnsNull(c) \/ PopBlocks(c)

Next ==
  \/ \E p \in Producers : ProducerStep(p)
  \/ \E c \in Consumers : ConsumerStep(c) \/ ConsumerThrows(c)
  \/ \E t \in Threads : Wakeup(t)
  \/ OwnerShutdown

(***************************************************************************)
(* The scheduler runs every thread that can run.  Nothing forces an item   *)
(* to throw or a thread to wake up spuriously.                             *)
(***************************************************************************)
Fairness ==
  /\ \A p \in Producers : WF_vars(ProducerStep(p))
  /\ \A c \in Consumers : WF_vars(ConsumerStep(c))
  /\ WF_vars(OwnerShutdown)

Spec == Init /\ [][Next]_vars
FairSpec == Spec /\ Fairness
-----------------------------------------------------------------------------
(* Properties                                                              *)

ItemOf == Producers \X (1 .. PerProducer)

\* The types of the variables, and the capacity of the queue: a thread that
\* wakes up in push() and appends without looking again would exceed it.
TypeOK ==
  /\ queue_ \in Seq(ItemOf)
  /\ Len(queue_) <= max_size_
  /\ done_ \in BOOLEAN
  /\ not_full_ \in SUBSET Producers
  /\ not_empty_ \in SUBSET Consumers
  /\ call \in [Threads -> {"idle", "push", "pop", "exited"}]
  /\ offered \in [Producers -> 0 .. PerProducer]
  /\ accepted \in Seq(ItemOf)
  /\ received \in Seq(ItemOf)

\* Only a thread inside push() sleeps on not_full_, only one inside pop() on
\* not_empty_, and shutdown() leaves nobody asleep and nobody falls asleep
\* after it: otherwise joining the threads would hang.
SleepersAreWaiting ==
  /\ \A t \in not_full_ : call[t] = "push"
  /\ \A t \in not_empty_ : call[t] = "pop"
  /\ done_ => not_full_ = {} /\ not_empty_ = {}

\* Threads inside push() (or pop()) that are not asleep: each of them will
\* evaluate its predicate again.
AwakePushers == {p \in Producers : call[p] = "push" /\ p \notin not_full_}
AwakePoppers == {c \in Consumers : call[c] = "pop" /\ c \notin not_empty_}

\* No wakeup is lost: while somebody sleeps for want of an item, there are at
\* least as many threads on their way to take items as there are items; and
\* the same for free slots.  notify_one() per item is enough.
NoLostWakeup ==
  /\ not_empty_ # {} => Len(queue_) <= Cardinality(AwakePoppers)
  /\ not_full_ # {} => max_size_ - Len(queue_) <= Cardinality(AwakePushers)

\* Items come out in the order in which push() took them; none is lost,
\* duplicated or invented.
FIFO == accepted = received \o queue_

\* Shut down and drained is final: once pop() may answer nullopt no item is
\* accepted any more, so a consumer that leaves never leaves work behind.
DrainedIsFinal ==
  [][done_ /\ queue_ = <<>> => done_' /\ queue_' = <<>> /\ accepted' = accepted]_vars

\* Every call returns and every thread finishes.
Termination == <>(\A t \in Threads : call[t] = "exited")

\* The queue with its clients is a channel.
Ch == INSTANCE Channel WITH Capacity <- max_size_, closed <- done_
ChannelSpec == Ch!Spec
-----------------------------------------------------------------------------
(* The inductive invariant                                                 *)

\* Producers push and consumers pop, and a producer inside push() still has
\* an item to offer.
Roles ==
  /\ \A p \in Producers :
       /\ call[p] # "pop"
       /\ call[p] = "push" => offered[p] < PerProducer
  /\ \A c \in Consumers : call[c] # "push"

IInv ==
  /\ TypeOK
  /\ Roles
  /\ SleepersAreWaiting
  /\ NoLostWakeup
  /\ FIFO
=============================================================================
