------------------------------- MODULE Channel -------------------------------
(***************************************************************************)
(* What a work queue promises its users: a bounded channel that delivers   *)
(* items in the order in which they were accepted and that can be closed.  *)
(* A send or a receive takes effect in one step, and there is no queue, no *)
(* mutex and no condition variable: the channel is the sequence of items   *)
(* accepted so far and the sequence of items received so far.              *)
(***************************************************************************)
EXTENDS Naturals, Sequences

CONSTANTS
  Producers, Consumers,   \* the threads
  PerProducer,            \* items each producer offers
  Capacity                \* items accepted but not yet received, at most

VARIABLES
  call,       \* per thread: "idle", in "push", in "pop", or "exited"
  offered,    \* per producer: how many of its items it has offered
  accepted,   \* the items accepted, in order
  received,   \* the items received, in order
  closed      \* has the channel been closed?

vars == <<call, offered, accepted, received, closed>>

Init ==
  /\ call = [t \in Producers \cup Consumers |-> "idle"]
  /\ offered = [p \in Producers |-> 0]
  /\ accepted = <<>>
  /\ received = <<>>
  /\ closed = FALSE

Move(t, from, to) ==
  /\ call[t] = from
  /\ call' = [call EXCEPT ![t] = to]

BeginSend(p) ==
  /\ offered[p] < PerProducer
  /\ Move(p, "idle", "push")
  /\ UNCHANGED <<offered, accepted, received, closed>>

Send(p) ==
  /\ ~closed
  /\ Len(accepted) - Len(received) < Capacity
  /\ Move(p, "push", "idle")
  /\ offered' = [offered EXCEPT ![p] = @ + 1]
  /\ accepted' = Append(accepted, <<p, offered'[p]>>)
  /\ UNCHANGED <<received, closed>>

SendRefused(p) ==
  /\ closed
  /\ Move(p, "push", "idle")
  /\ offered' = [offered EXCEPT ![p] = @ + 1]
  /\ UNCHANGED <<accepted, received, closed>>

Leave(p) ==
  /\ offered[p] = PerProducer
  /\ Move(p, "idle", "exited")
  /\ UNCHANGED <<offered, accepted, received, closed>>

BeginReceive(c) ==
  /\ Move(c, "idle", "pop")
  /\ UNCHANGED <<offered, accepted, received, closed>>

Receive(c) ==
  /\ Len(received) < Len(accepted)
  /\ Move(c, "pop", "idle")
  /\ received' = Append(received, accepted[Len(received) + 1])
  /\ UNCHANGED <<offered, accepted, closed>>

\* The channel is closed and everything accepted has been received.
ReceiveNothing(c) ==
  /\ closed
  /\ Len(received) = Len(accepted)
  /\ Move(c, "pop", "exited")
  /\ UNCHANGED <<offered, accepted, received, closed>>

\* A consumer gives up, and closes the channel for everyone.
Abandon(c) ==
  /\ Move(c, "idle", "exited")
  /\ closed' = TRUE
  /\ UNCHANGED <<offered, accepted, received>>

\* The producers are finished, and the channel is closed.
Close ==
  /\ \A p \in Producers : call[p] = "exited"
  /\ closed' = TRUE
  /\ UNCHANGED <<call, offered, accepted, received>>

EndSend == \E p \in Producers : Send(p) \/ SendRefused(p)
EndReceive == \E c \in Consumers : Receive(c) \/ ReceiveNothing(c)

Next ==
  \/ \E p \in Producers : BeginSend(p) \/ Leave(p)
  \/ \E c \in Consumers : BeginReceive(c) \/ Abandon(c)
  \/ EndSend
  \/ EndReceive
  \/ Close

(***************************************************************************)
(* No send and no receive that could return is left pending for ever.      *)
(***************************************************************************)
Spec ==
  /\ Init /\ [][Next]_vars
  /\ WF_vars(EndSend)
  /\ WF_vars(EndReceive)
=============================================================================
