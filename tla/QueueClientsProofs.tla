------------------------- MODULE QueueClientsProofs -------------------------
(***************************************************************************)
(* Proofs about QueueClients, for all finite sets of producers and         *)
(* consumers, every number of items and every capacity.                    *)
(***************************************************************************)
EXTENDS QueueClients, FiniteSetTheorems, TLAPS

-----------------------------------------------------------------------------
(* Sequences and sets                                                      *)

\* Moving the head of the second sequence to the end of the first.
LEMMA MoveHead ==
  ASSUME NEW S, NEW r \in Seq(S), NEW q \in Seq(S), q # <<>>
  PROVE  /\ r \o q = Append(r, Head(q)) \o Tail(q)
         /\ Len(r \o q) = Len(r) + Len(q)
         /\ (r \o q)[Len(r) + 1] = Head(q)
OBVIOUS

\* A finite set with one more element, or one less.
LEMMA OneMore ==
  ASSUME NEW S, IsFiniteSet(S), NEW T, NEW x, T = S \cup {x}, x \notin S
  PROVE  IsFiniteSet(T) /\ Cardinality(T) = Cardinality(S) + 1
BY FS_AddElement

LEMMA OneLess ==
  ASSUME NEW S, IsFiniteSet(S), NEW T, NEW x \in S, T = S \ {x}
  PROVE  IsFiniteSet(T) /\ Cardinality(T) = Cardinality(S) - 1
BY FS_RemoveElement

-----------------------------------------------------------------------------
(* The inductive invariant                                                 *)

\* Any set of threads that are awake is finite.
LEMMA AwakeFinite ==
  ASSUME NEW S, S \subseteq Producers \/ S \subseteq Consumers
  PROVE  IsFiniteSet(S) /\ Cardinality(S) \in Nat
<1>1. IsFiniteSet(Producers) /\ IsFiniteSet(Consumers)
  BY ClientsAssumption
<1>2. IsFiniteSet(S)
  BY <1>1, FS_Subset
<1> QED BY <1>2, FS_CardinalityType

\* Everything holds initially: nobody has called anything yet.
LEMMA InvariantInit == Init => IInv
<1> SUFFICES ASSUME Init PROVE IInv
  OBVIOUS
<1> USE DEF Init, QueueInit
<1>1. TypeOK
  <2>1. queue_ \in Seq(ItemOf) /\ accepted \in Seq(ItemOf) /\ received \in Seq(ItemOf)
    OBVIOUS
  <2>2. Len(queue_) <= max_size_
    BY MaxSizeAssumption
  <2>3. offered \in [Producers -> 0 .. PerProducer]
    BY ClientsAssumption
  <2> QED BY <2>1, <2>2, <2>3 DEF TypeOK
<1>2. Roles
  BY DEF Roles, Threads
<1>3. SleepersAreWaiting /\ NoLostWakeup /\ FIFO
  BY DEF SleepersAreWaiting, NoLostWakeup, FIFO
<1> QED BY <1>1, <1>2, <1>3 DEF IInv

\* Every step preserves the types, the capacity and the roles of the threads.
LEMMA TypeStep == TypeOK /\ Roles /\ [Next]_vars => TypeOK' /\ Roles'
<1> SUFFICES ASSUME TypeOK, Roles, [Next]_vars PROVE TypeOK' /\ Roles'
  OBVIOUS
<1> USE DEF TypeOK, Roles, Move, Threads, queueVars
<1>s. /\ max_size_ \in Nat /\ PerProducer \in Nat /\ Producers \cap Consumers = {}
      /\ Len(queue_) \in Nat
  BY MaxSizeAssumption, ClientsAssumption
<1>1. ASSUME NEW p \in Producers, ProducerStep(p) PROVE TypeOK' /\ Roles'
  <2>1. CASE CallPush(p)
    BY <2>1, <1>s DEF CallPush
  <2>2. CASE Push(p)
    <3> DEFINE x == <<p, offered[p] + 1>>
    <3>1. call[p] = "push" /\ offered[p] \in 0 .. PerProducer /\ offered[p] < PerProducer
      BY <2>2 DEF Push
    <3>2. x \in ItemOf
      BY <3>1, <1>s DEF ItemOf
    <3>3. queue_' = Append(queue_, x) /\ accepted' = Append(accepted, x) /\ Len(queue_) < max_size_
      BY <2>2 DEF Push, PushAccepted
    <3> HIDE DEF x
    <3>4. queue_' \in Seq(ItemOf) /\ accepted' \in Seq(ItemOf) /\ Len(queue_') <= max_size_
      BY <3>2, <3>3, <1>s
    <3>5. offered' \in [Producers -> 0 .. PerProducer]
      BY <2>2, <3>1, <1>s DEF Push
    <3>6. not_empty_' \in SUBSET Consumers /\ UNCHANGED <<done_, not_full_, received>>
      BY <2>2 DEF Push, PushAccepted, NotifyOne
    <3>7. call' = [call EXCEPT ![p] = "idle"]
      BY <2>2 DEF Push
    <3>8. \A q \in Producers \ {p} : offered'[q] = offered[q]
      BY <2>2 DEF Push
    <3>9. TypeOK'
      BY <3>4, <3>5, <3>6, <3>7
    <3>10. Roles'
      BY <3>7, <3>8, <1>s
    <3> QED BY <3>9, <3>10
  <2>3. CASE PushReturnsFalse(p)
    <3>1. call[p] = "push" /\ offered[p] \in 0 .. PerProducer /\ offered[p] < PerProducer
      BY <2>3 DEF PushReturnsFalse
    <3>2. offered' \in [Producers -> 0 .. PerProducer] /\ \A q \in Producers \ {p} : offered'[q] = offered[q]
      BY <2>3, <3>1, <1>s DEF PushReturnsFalse
    <3>3. call' = [call EXCEPT ![p] = "idle"] /\ UNCHANGED <<queueVars, accepted, received>>
      BY <2>3 DEF PushReturnsFalse, PushRefused
    <3>4. TypeOK'
      BY <3>2, <3>3
    <3>5. Roles'
      BY <3>2, <3>3, <1>s
    <3> QED BY <3>4, <3>5
  <2>4. CASE PushBlocks(p)
    BY <2>4 DEF PushBlocks, PushWait
  <2>5. CASE ProducerExit(p)
    BY <2>5, <1>s DEF ProducerExit
  <2> QED BY <1>1, <2>1, <2>2, <2>3, <2>4, <2>5 DEF ProducerStep
<1>2. ASSUME NEW c \in Consumers, ConsumerStep(c) \/ ConsumerThrows(c) PROVE TypeOK' /\ Roles'
  <2>1. CASE CallPop(c)
    BY <2>1, <1>s DEF CallPop
  <2>2. CASE Pop(c)
    <3>1. /\ queue_ # <<>> /\ queue_' = Tail(queue_) /\ received' = Append(received, Head(queue_))
          /\ UNCHANGED <<done_, not_empty_, offered, accepted>>
          /\ call' = [call EXCEPT ![c] = "idle"]
      BY <2>2 DEF Pop, PopItem
    <3>2. queue_' \in Seq(ItemOf) /\ received' \in Seq(ItemOf) /\ Len(queue_') <= max_size_
      BY <3>1, <1>s
    <3>3. not_full_' \in SUBSET Producers
      BY <2>2 DEF Pop, PopItem, NotifyOne
    <3>4. TypeOK'
      BY <3>1, <3>2, <3>3
    <3>5. Roles'
      BY <3>1, <1>s
    <3> QED BY <3>4, <3>5
  <2>3. CASE PopReturnsNull(c)
    BY <2>3, <1>s DEF PopReturnsNull, PopNull
  <2>4. CASE PopBlocks(c)
    BY <2>4 DEF PopBlocks, PopWait
  <2>5. CASE ConsumerThrows(c)
    BY <2>5, <1>s DEF ConsumerThrows, Shutdown
  <2> QED BY <1>2, <2>1, <2>2, <2>3, <2>4, <2>5 DEF ConsumerStep
<1>3. ASSUME NEW t \in Threads, Wakeup(t) PROVE TypeOK' /\ Roles'
  BY <1>3 DEF Wakeup, SpuriousWakeup
<1>4. CASE OwnerShutdown
  BY <1>4 DEF OwnerShutdown, Shutdown
<1>5. CASE UNCHANGED vars
  BY <1>5 DEF vars
<1> QED BY <1>1, <1>2, <1>3, <1>4, <1>5 DEF Next

\* Every step leaves only threads asleep that are inside push() or pop().
LEMMA SleepersStep == IInv /\ [Next]_vars => SleepersAreWaiting'
<1> SUFFICES ASSUME TypeOK, SleepersAreWaiting, [Next]_vars PROVE SleepersAreWaiting'
  BY DEF IInv
<1> USE DEF TypeOK, SleepersAreWaiting, Move, Threads, queueVars, Asleep
<1>s. Producers \cap Consumers = {}
  BY ClientsAssumption
<1>1. ASSUME NEW p \in Producers, ProducerStep(p) PROVE SleepersAreWaiting'
  <2>1. CASE CallPush(p) \/ ProducerExit(p)
    BY <2>1, <1>s DEF CallPush, ProducerExit
  <2>2. CASE Push(p)
    <3>1. not_empty_' \subseteq not_empty_ /\ UNCHANGED not_full_ /\ ~done_ /\ ~done_' /\ p \notin not_full_
      BY <2>2 DEF Push, PushAccepted, NotifyOne
    <3> QED BY <2>2, <3>1, <1>s DEF Push
  <2>3. CASE PushReturnsFalse(p)
    BY <2>3, <1>s DEF PushReturnsFalse, PushRefused
  <2>4. CASE PushBlocks(p)
    BY <2>4 DEF PushBlocks, PushWait
  <2> QED BY <1>1, <2>1, <2>2, <2>3, <2>4 DEF ProducerStep
<1>2. ASSUME NEW c \in Consumers, ConsumerStep(c) \/ ConsumerThrows(c) PROVE SleepersAreWaiting'
  <2>1. CASE CallPop(c)
    BY <2>1, <1>s DEF CallPop
  <2>2. CASE Pop(c)
    <3>1. not_full_' \subseteq not_full_ /\ UNCHANGED <<not_empty_, done_>> /\ c \notin not_empty_
      BY <2>2 DEF Pop, PopItem, NotifyOne
    <3> QED BY <2>2, <3>1, <1>s DEF Pop
  <2>3. CASE PopReturnsNull(c)
    BY <2>3, <1>s DEF PopReturnsNull, PopNull
  <2>4. CASE PopBlocks(c)
    BY <2>4 DEF PopBlocks, PopWait
  <2>5. CASE ConsumerThrows(c)
    BY <2>5 DEF ConsumerThrows, Shutdown
  <2> QED BY <1>2, <2>1, <2>2, <2>3, <2>4, <2>5 DEF ConsumerStep
<1>3. ASSUME NEW t \in Threads, Wakeup(t) PROVE SleepersAreWaiting'
  BY <1>3 DEF Wakeup, SpuriousWakeup
<1>4. CASE OwnerShutdown
  BY <1>4 DEF OwnerShutdown, Shutdown
<1>5. CASE UNCHANGED vars
  BY <1>5 DEF vars
<1> QED BY <1>1, <1>2, <1>3, <1>4, <1>5 DEF Next

\* Every step keeps the order of the items.
LEMMA FIFOStep == IInv /\ [Next]_vars => FIFO'
<1> SUFFICES ASSUME TypeOK, TypeOK', FIFO, [Next]_vars PROVE FIFO'
  BY TypeStep DEF IInv
<1> USE DEF FIFO
<1>1. ASSUME UNCHANGED <<accepted, received, queue_>> PROVE FIFO'
  BY <1>1
<1>2. ASSUME NEW p \in Producers, Push(p) PROVE FIFO'
  <2> DEFINE x == <<p, offered[p] + 1>>
  <2>1. queue_' = Append(queue_, x) /\ accepted' = Append(accepted, x) /\ UNCHANGED received
    BY <1>2 DEF Push, PushAccepted
  <2> HIDE DEF x
  <2>2. Len(queue_') = Len(queue_) + 1 /\ queue_'[Len(queue_) + 1] = x
    BY <2>1 DEF TypeOK
  <2>3. x \in ItemOf
    BY <2>2 DEF TypeOK
  <2>4. received \in Seq(ItemOf) /\ queue_ \in Seq(ItemOf)
    BY DEF TypeOK
  <2>5. Append(received \o queue_, x) = received \o Append(queue_, x)
    BY <2>3, <2>4
  <2> QED BY <2>1, <2>5
<1>3. ASSUME NEW c \in Consumers, Pop(c) PROVE FIFO'
  BY <1>3, MoveHead DEF Pop, PopItem, TypeOK
<1>4. ASSUME NEW p \in Producers, ProducerStep(p) PROVE FIFO'
  BY <1>1, <1>2, <1>4
     DEF ProducerStep, CallPush, PushReturnsFalse, PushRefused, PushBlocks, PushWait, ProducerExit,
         queueVars
<1>5. ASSUME NEW c \in Consumers, ConsumerStep(c) \/ ConsumerThrows(c) PROVE FIFO'
  BY <1>1, <1>3, <1>5
     DEF ConsumerStep, CallPop, PopReturnsNull, PopNull, PopBlocks, PopWait, ConsumerThrows, Shutdown,
         queueVars
<1>6. ASSUME NEW t \in Threads, Wakeup(t) PROVE FIFO'
  BY <1>6 DEF Wakeup, SpuriousWakeup
<1>7. CASE OwnerShutdown \/ UNCHANGED vars
  BY <1>7 DEF OwnerShutdown, Shutdown, vars
<1> QED BY <1>4, <1>5, <1>6, <1>7 DEF Next

\* The two halves of NoLostWakeup.
PoppersWoken == not_empty_ # {} => Len(queue_) <= Cardinality(AwakePoppers)
PushersWoken == not_full_ # {} => max_size_ - Len(queue_) <= Cardinality(AwakePushers)

\* Every step leaves enough threads awake for the items in the queue.
LEMMA PoppersStep == IInv /\ [Next]_vars => PoppersWoken'
<1> SUFFICES ASSUME TypeOK, Roles, SleepersAreWaiting, PoppersWoken, [Next]_vars
             PROVE  PoppersWoken'
  BY DEF IInv, NoLostWakeup, PoppersWoken
<1> USE DEF PoppersWoken
<1>s. /\ IsFiniteSet(AwakePoppers) /\ Cardinality(AwakePoppers) \in Nat
      /\ IsFiniteSet(AwakePoppers') /\ Cardinality(AwakePoppers') \in Nat
      /\ Len(queue_) \in Nat /\ Producers \cap Consumers = {}
  <2>1. AwakePoppers \subseteq Consumers /\ AwakePoppers' \subseteq Consumers
    BY DEF AwakePoppers
  <2>2. IsFiniteSet(AwakePoppers) /\ Cardinality(AwakePoppers) \in Nat
    BY <2>1, AwakeFinite
  <2>3. IsFiniteSet(AwakePoppers') /\ Cardinality(AwakePoppers') \in Nat
    BY <2>1, AwakeFinite
  <2> QED BY <2>2, <2>3, ClientsAssumption DEF TypeOK
\* Nobody asleep, or nothing relevant changes.
<1>1. ASSUME not_empty_' = {} PROVE PoppersWoken'
  BY <1>1
<1>2. ASSUME UNCHANGED <<queue_, not_empty_>>, AwakePoppers' = AwakePoppers PROVE PoppersWoken'
  BY <1>2
<1>3. ASSUME NEW p \in Producers, ProducerStep(p) PROVE PoppersWoken'
  <2>1. CASE Push(p)
    <3>1. /\ queue_' = Append(queue_, <<p, offered[p] + 1>>)
          /\ not_empty_' \in NotifyOne(not_empty_)
          /\ \A c \in Consumers : call'[c] = call[c]
      BY <2>1, <1>s DEF Push, PushAccepted, Move, TypeOK, Threads
    <3>2. Len(queue_') = Len(queue_) + 1
      BY <3>1 DEF TypeOK
    <3>3. CASE not_empty_ = {}
      BY <3>1, <3>3 DEF NotifyOne
    <3>4. CASE not_empty_ # {}
      <4>1. PICK c \in not_empty_ : not_empty_' = not_empty_ \ {c}
        BY <3>1, <3>4 DEF NotifyOne
      <4>2. AwakePoppers' = AwakePoppers \cup {c} /\ c \notin AwakePoppers
        BY <3>1, <4>1 DEF AwakePoppers, SleepersAreWaiting, TypeOK
      <4>3. Cardinality(AwakePoppers') = Cardinality(AwakePoppers) + 1
        BY <4>2, <1>s, OneMore
      <4> QED BY <3>2, <3>4, <4>3, <1>s
    <3> QED BY <3>3, <3>4
  <2>2. CASE ~Push(p)
    <3>1. UNCHANGED <<queue_, not_empty_>> /\ \A c \in Consumers : call'[c] = call[c]
      BY <1>3, <2>2, <1>s
         DEF ProducerStep, CallPush, PushReturnsFalse, PushRefused, PushBlocks, PushWait,
             ProducerExit, Move, TypeOK, Threads, queueVars
    <3>2. AwakePoppers' = AwakePoppers
      BY <3>1 DEF AwakePoppers
    <3> QED BY <3>1, <3>2, <1>2
  <2> QED BY <2>1, <2>2
<1>4. ASSUME NEW c \in Consumers, ConsumerStep(c) PROVE PoppersWoken'
  <2> USE DEF Move, TypeOK, Threads
  <2>1. CASE CallPop(c)
    <3>1. UNCHANGED <<queue_, not_empty_>> /\ AwakePoppers' = AwakePoppers \cup {c} /\ c \notin AwakePoppers
      BY <2>1 DEF CallPop, AwakePoppers, SleepersAreWaiting, queueVars
    <3>2. Cardinality(AwakePoppers') = Cardinality(AwakePoppers) + 1
      BY <3>1, <1>s, OneMore
    <3> QED BY <3>1, <3>2, <1>s
  <2>2. CASE Pop(c)
    <3>1. queue_ # <<>> /\ queue_' = Tail(queue_) /\ UNCHANGED not_empty_ /\ c \notin not_empty_
      BY <2>2 DEF Pop, PopItem, Asleep
    <3>2. AwakePoppers' = AwakePoppers \ {c} /\ c \in AwakePoppers
      BY <2>2, <3>1 DEF Pop, AwakePoppers
    <3>3. Cardinality(AwakePoppers') = Cardinality(AwakePoppers) - 1
      BY <3>2, <1>s, OneLess
    <3>4. Len(queue_') = Len(queue_) - 1
      BY <3>1
    <3> QED BY <3>1, <3>3, <3>4, <1>s
  <2>3. CASE PopReturnsNull(c)
    BY <2>3, <1>1 DEF PopReturnsNull, PopNull, SleepersAreWaiting, queueVars
  <2>4. CASE PopBlocks(c)
    BY <2>4, <1>s DEF PopBlocks, PopWait
  <2> QED BY <1>4, <2>1, <2>2, <2>3, <2>4 DEF ConsumerStep
<1>5. ASSUME NEW c \in Consumers, ConsumerThrows(c) PROVE PoppersWoken'
  BY <1>5, <1>1 DEF ConsumerThrows, Shutdown
<1>6. ASSUME NEW t \in Threads, Wakeup(t) PROVE PoppersWoken'
  <2>1. UNCHANGED <<queue_, call>> /\ not_empty_' = not_empty_ \ {t}
    BY <1>6 DEF Wakeup, SpuriousWakeup
  <2>2. CASE t \in not_empty_
    <3>1. AwakePoppers' = AwakePoppers \cup {t} /\ t \notin AwakePoppers
      BY <2>1, <2>2 DEF AwakePoppers, SleepersAreWaiting, TypeOK
    <3>2. Cardinality(AwakePoppers') = Cardinality(AwakePoppers) + 1
      BY <3>1, <1>s, OneMore
    <3> QED BY <2>1, <3>2, <1>s
  <2>3. CASE t \notin not_empty_
    <3>1. UNCHANGED not_empty_
      BY <2>1, <2>3
    <3>2. AwakePoppers' = AwakePoppers
      BY <2>1, <3>1 DEF AwakePoppers
    <3> QED BY <2>1, <3>1, <3>2, <1>2
  <2> QED BY <2>2, <2>3
<1>7. CASE OwnerShutdown
  BY <1>7, <1>1 DEF OwnerShutdown, Shutdown
<1>8. CASE UNCHANGED vars
  BY <1>8, <1>2 DEF vars, AwakePoppers
<1> QED BY <1>3, <1>4, <1>5, <1>6, <1>7, <1>8 DEF Next

\* Every step leaves enough threads awake for the free slots of the queue.
LEMMA PushersStep == IInv /\ [Next]_vars => PushersWoken'
<1> SUFFICES ASSUME TypeOK, Roles, SleepersAreWaiting, PushersWoken, [Next]_vars
             PROVE  PushersWoken'
  BY DEF IInv, NoLostWakeup, PushersWoken
<1> USE DEF PushersWoken
<1>s. /\ IsFiniteSet(AwakePushers) /\ Cardinality(AwakePushers) \in Nat
      /\ IsFiniteSet(AwakePushers') /\ Cardinality(AwakePushers') \in Nat
      /\ Len(queue_) \in Nat /\ max_size_ \in Nat /\ Producers \cap Consumers = {}
  <2>1. AwakePushers \subseteq Producers /\ AwakePushers' \subseteq Producers
    BY DEF AwakePushers
  <2>2. IsFiniteSet(AwakePushers) /\ Cardinality(AwakePushers) \in Nat
    BY <2>1, AwakeFinite
  <2>3. IsFiniteSet(AwakePushers') /\ Cardinality(AwakePushers') \in Nat
    BY <2>1, AwakeFinite
  <2> QED BY <2>2, <2>3, ClientsAssumption, MaxSizeAssumption DEF TypeOK
\* Nobody asleep, or nothing relevant changes.
<1>1. ASSUME not_full_' = {} PROVE PushersWoken'
  BY <1>1
<1>2. ASSUME UNCHANGED <<queue_, not_full_>>, AwakePushers' = AwakePushers PROVE PushersWoken'
  BY <1>2
<1>3. ASSUME NEW c \in Consumers, ConsumerStep(c) PROVE PushersWoken'
  <2>1. CASE Pop(c)
    <3>1. /\ queue_ # <<>> /\ queue_' = Tail(queue_)
          /\ not_full_' \in NotifyOne(not_full_)
          /\ \A p \in Producers : call'[p] = call[p]
      BY <2>1, <1>s DEF Pop, PopItem, Move, TypeOK, Threads
    <3>2. Len(queue_') = Len(queue_) - 1
      BY <3>1 DEF TypeOK
    <3>3. CASE not_full_ = {}
      BY <3>1, <3>3 DEF NotifyOne
    <3>4. CASE not_full_ # {}
      <4>1. PICK p \in not_full_ : not_full_' = not_full_ \ {p}
        BY <3>1, <3>4 DEF NotifyOne
      <4>2. AwakePushers' = AwakePushers \cup {p} /\ p \notin AwakePushers
        BY <3>1, <4>1 DEF AwakePushers, SleepersAreWaiting, TypeOK
      <4>3. Cardinality(AwakePushers') = Cardinality(AwakePushers) + 1
        BY <4>2, <1>s, OneMore
      <4> QED BY <3>2, <3>4, <4>3, <1>s
    <3> QED BY <3>3, <3>4
  <2>2. CASE ~Pop(c)
    <3>1. UNCHANGED <<queue_, not_full_>> /\ \A p \in Producers : call'[p] = call[p]
      BY <1>3, <2>2, <1>s
         DEF ConsumerStep, CallPop, PopReturnsNull, PopNull, PopBlocks, PopWait, Move, TypeOK,
             Threads, queueVars
    <3>2. AwakePushers' = AwakePushers
      BY <3>1 DEF AwakePushers
    <3> QED BY <3>1, <3>2, <1>2
  <2> QED BY <2>1, <2>2
<1>4. ASSUME NEW p \in Producers, ProducerStep(p) PROVE PushersWoken'
  <2> USE DEF Move, TypeOK, Threads
  <2>1. CASE CallPush(p)
    <3>1. UNCHANGED <<queue_, not_full_>> /\ AwakePushers' = AwakePushers \cup {p} /\ p \notin AwakePushers
      BY <2>1 DEF CallPush, AwakePushers, SleepersAreWaiting, queueVars
    <3>2. Cardinality(AwakePushers') = Cardinality(AwakePushers) + 1
      BY <3>1, <1>s, OneMore
    <3> QED BY <3>1, <3>2, <1>s
  <2>2. CASE Push(p)
    <3>1. /\ queue_' = Append(queue_, <<p, offered[p] + 1>>) /\ UNCHANGED not_full_
          /\ p \notin not_full_
      BY <2>2 DEF Push, PushAccepted, Asleep
    <3>2. AwakePushers' = AwakePushers \ {p} /\ p \in AwakePushers
      BY <2>2, <3>1 DEF Push, AwakePushers
    <3>3. Cardinality(AwakePushers') = Cardinality(AwakePushers) - 1
      BY <3>2, <1>s, OneLess
    <3>4. Len(queue_') = Len(queue_) + 1
      BY <3>1
    <3> QED BY <3>1, <3>3, <3>4, <1>s
  <2>3. CASE PushReturnsFalse(p)
    BY <2>3, <1>1 DEF PushReturnsFalse, PushRefused, SleepersAreWaiting, queueVars
  <2>4. CASE PushBlocks(p)
    BY <2>4, <1>s DEF PushBlocks, PushWait
  <2>5. CASE ProducerExit(p)
    <3>1. UNCHANGED <<queue_, not_full_>> /\ AwakePushers' = AwakePushers
      BY <2>5 DEF ProducerExit, AwakePushers, queueVars
    <3> QED BY <3>1, <1>2
  <2> QED BY <1>4, <2>1, <2>2, <2>3, <2>4, <2>5 DEF ProducerStep
<1>5. ASSUME NEW c \in Consumers, ConsumerThrows(c) PROVE PushersWoken'
  BY <1>5, <1>1 DEF ConsumerThrows, Shutdown
<1>6. ASSUME NEW t \in Threads, Wakeup(t) PROVE PushersWoken'
  <2>1. UNCHANGED <<queue_, call>> /\ not_full_' = not_full_ \ {t}
    BY <1>6 DEF Wakeup, SpuriousWakeup
  <2>2. CASE t \in not_full_
    <3>1. AwakePushers' = AwakePushers \cup {t} /\ t \notin AwakePushers
      BY <2>1, <2>2 DEF AwakePushers, SleepersAreWaiting, TypeOK
    <3>2. Cardinality(AwakePushers') = Cardinality(AwakePushers) + 1
      BY <3>1, <1>s, OneMore
    <3> QED BY <2>1, <3>2, <1>s
  <2>3. CASE t \notin not_full_
    <3>1. UNCHANGED not_full_
      BY <2>1, <2>3
    <3>2. AwakePushers' = AwakePushers
      BY <2>1, <3>1 DEF AwakePushers
    <3> QED BY <2>1, <3>1, <3>2, <1>2
  <2> QED BY <2>2, <2>3
<1>7. CASE OwnerShutdown
  BY <1>7, <1>1 DEF OwnerShutdown, Shutdown
<1>8. CASE UNCHANGED vars
  BY <1>8, <1>2 DEF vars, AwakePushers
<1> QED BY <1>3, <1>4, <1>5, <1>6, <1>7, <1>8 DEF Next

-----------------------------------------------------------------------------
(* The theorems                                                            *)

\* The inductive invariant is inductive.
LEMMA InvariantStep == IInv /\ [Next]_vars => IInv'
<1> SUFFICES ASSUME IInv, [Next]_vars PROVE IInv'
  OBVIOUS
<1>1. TypeOK' /\ Roles'
  BY TypeStep DEF IInv
<1>2. SleepersAreWaiting' /\ FIFO'
  BY SleepersStep, FIFOStep
<1>3. NoLostWakeup'
  BY PoppersStep, PushersStep DEF NoLostWakeup, PoppersWoken, PushersWoken
<1> QED BY <1>1, <1>2, <1>3 DEF IInv

\* The inductive invariant holds in every reachable state.
THEOREM Invariant == Spec => []IInv
BY InvariantInit, InvariantStep, PTL DEF Spec

\* The variables have their types, and the queue never exceeds its capacity.
THEOREM TypeCorrect == Spec => []TypeOK
<1>1. IInv => TypeOK
  BY DEF IInv
<1> QED BY <1>1, Invariant, PTL

\* After shutdown() nobody sleeps in push() or pop(), so every thread can be
\* joined.
THEOREM ShutdownWakesAll == Spec => []SleepersAreWaiting
<1>1. IInv => SleepersAreWaiting
  BY DEF IInv
<1> QED BY <1>1, Invariant, PTL

\* One notify_one() per item and per slot is enough: no wakeup is lost.
THEOREM WakeupsSuffice == Spec => []NoLostWakeup
<1>1. IInv => NoLostWakeup
  BY DEF IInv
<1> QED BY <1>1, Invariant, PTL

\* Items leave the queue in the order they were accepted, each exactly once.
THEOREM FirstInFirstOut == Spec => []FIFO
<1>1. IInv => FIFO
  BY DEF IInv
<1> QED BY <1>1, Invariant, PTL

\* Once the queue is shut down and drained it stays so.
THEOREM DrainedStaysDrained == Spec => DrainedIsFinal
<1>1. [Next]_vars =>
        [done_ /\ queue_ = <<>> => done_' /\ queue_' = <<>> /\ accepted' = accepted]_vars
  <2> SUFFICES ASSUME [Next]_vars, done_, queue_ = <<>>
               PROVE  done_' /\ queue_' = <<>> /\ accepted' = accepted
    OBVIOUS
  <2>1. ASSUME NEW p \in Producers, ProducerStep(p)
        PROVE  done_' /\ queue_' = <<>> /\ accepted' = accepted
    BY <2>1 DEF ProducerStep, CallPush, Push, PushAccepted, PushReturnsFalse, PushRefused, PushBlocks,
                PushWait, ProducerExit, queueVars
  <2>2. ASSUME NEW c \in Consumers, ConsumerStep(c) \/ ConsumerThrows(c)
        PROVE  done_' /\ queue_' = <<>> /\ accepted' = accepted
    BY <2>2 DEF ConsumerStep, CallPop, Pop, PopItem, PopReturnsNull, PopNull, PopBlocks, PopWait,
                ConsumerThrows, Shutdown, queueVars
  <2>3. ASSUME NEW t \in Threads, Wakeup(t)
        PROVE  done_' /\ queue_' = <<>> /\ accepted' = accepted
    BY <2>3 DEF Wakeup, SpuriousWakeup
  <2>4. CASE OwnerShutdown \/ UNCHANGED vars
    BY <2>4 DEF OwnerShutdown, Shutdown, vars
  <2> QED BY <2>1, <2>2, <2>3, <2>4 DEF Next
<1> QED BY <1>1, PTL DEF Spec, DrainedIsFinal

\* Every step of the queue and its clients is a step of the channel, or none:
\* mutex, condition variables and wakeups do not show.
THEOREM ImplementsChannel == Spec => Ch!Init /\ [][Ch!Next]_(Ch!vars)
<1>1. Init => Ch!Init
  BY DEF Init, QueueInit, Ch!Init, Threads
<1>2. ASSUME IInv, [Next]_vars PROVE [Ch!Next]_(Ch!vars)
  <2> USE DEF Ch!Next, Ch!vars, Ch!EndSend, Ch!EndReceive, Ch!Move, Move, queueVars
  <2>l. /\ Len(queue_) \in Nat /\ Len(received) \in Nat
        /\ Len(accepted) = Len(received) + Len(queue_)
        /\ queue_ # <<>> => /\ Len(queue_) > 0
                            /\ accepted[Len(received) + 1] = Head(queue_)
    <3>1. queue_ \in Seq(ItemOf) /\ received \in Seq(ItemOf) /\ accepted = received \o queue_
      BY <1>2 DEF IInv, TypeOK, FIFO
    <3> QED BY <3>1
  <2>1. ASSUME NEW p \in Producers, ProducerStep(p) PROVE [Ch!Next]_(Ch!vars)
    <3>1. CASE CallPush(p)
      BY <3>1 DEF CallPush, Ch!BeginSend
    <3>2. CASE Push(p)
      <4>1. Ch!Send(p)
        <5>1. offered'[p] = offered[p] + 1
          BY <3>2, <1>2 DEF Push, IInv, TypeOK
        <5> QED BY <3>2, <5>1, <2>l DEF Push, PushAccepted, Ch!Send
      <4> QED BY <4>1
    <3>3. CASE PushReturnsFalse(p)
      BY <3>3 DEF PushReturnsFalse, PushRefused, Ch!SendRefused
    <3>4. CASE PushBlocks(p)
      BY <3>4 DEF PushBlocks, PushWait
    <3>5. CASE ProducerExit(p)
      BY <3>5 DEF ProducerExit, Ch!Leave
    <3> QED BY <2>1, <3>1, <3>2, <3>3, <3>4, <3>5 DEF ProducerStep
  <2>2. ASSUME NEW c \in Consumers, ConsumerStep(c) \/ ConsumerThrows(c) PROVE [Ch!Next]_(Ch!vars)
    <3>1. CASE CallPop(c)
      BY <3>1 DEF CallPop, Ch!BeginReceive
    <3>2. CASE Pop(c)
      <4>1. Ch!Receive(c)
        BY <3>2, <2>l DEF Pop, PopItem, Ch!Receive
      <4> QED BY <4>1
    <3>3. CASE PopReturnsNull(c)
      <4>1. Ch!ReceiveNothing(c)
        <5>1. queue_ = <<>> /\ Len(queue_) = 0
          BY <3>3 DEF PopReturnsNull, PopNull
        <5> QED BY <3>3, <5>1, <2>l DEF PopReturnsNull, PopNull, Ch!ReceiveNothing
      <4> QED BY <4>1
    <3>4. CASE PopBlocks(c)
      BY <3>4 DEF PopBlocks, PopWait
    <3>5. CASE ConsumerThrows(c)
      BY <3>5 DEF ConsumerThrows, Shutdown, Ch!Abandon
    <3> QED BY <2>2, <3>1, <3>2, <3>3, <3>4, <3>5 DEF ConsumerStep
  <2>3. ASSUME NEW t \in Threads, Wakeup(t) PROVE [Ch!Next]_(Ch!vars)
    BY <2>3 DEF Wakeup, SpuriousWakeup
  <2>4. CASE OwnerShutdown
    BY <2>4 DEF OwnerShutdown, Shutdown, Ch!Close
  <2>5. CASE UNCHANGED vars
    BY <2>5 DEF vars
  <2> QED BY <1>2, <2>1, <2>2, <2>3, <2>4, <2>5 DEF Next
<1> QED BY <1>1, <1>2, Invariant, PTL DEF Spec
=============================================================================
