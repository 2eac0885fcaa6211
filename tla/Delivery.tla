------------------------------ MODULE Delivery ------------------------------
(***************************************************************************)
(* What send() of a producer promises, without threads, locks, links and   *)
(* handlers: a permit admits one message into a queue, and messages leave  *)
(* the queue in order, each once.  MessageProducerImpl implements it.      *)
(***************************************************************************)
EXTENDS Naturals, Sequences

CONSTANTS
  Senders,   \* the threads that send
  Numbers    \* each thread numbers its messages

VARIABLES
  permit,    \* may one message be sent?
  queue,     \* messages accepted
  delivered  \* messages that reached the sender, in order

vars == <<permit, queue, delivered>>

Init ==
  /\ permit = FALSE
  /\ queue = <<>>
  /\ delivered = <<>>

(* on_sendable.                                                            *)
Raise == permit' = TRUE /\ UNCHANGED <<queue, delivered>>

(* The message is newer than every one its thread has sent.                *)
Newer(t, n) ==
  LET sent == delivered \o queue
  IN  \A i \in DOMAIN sent : sent[i][1] = t => sent[i][2] < n

(* send() uses the permit up.                                              *)
Accept(t, n) ==
  /\ permit
  /\ permit' = FALSE
  /\ Newer(t, n)
  /\ queue' = Append(queue, <<t, n>>)
  /\ UNCHANGED delivered

(* A send() that meets a closed producer uses it up in vain.               *)
Waste == permit /\ permit' = FALSE /\ UNCHANGED <<queue, delivered>>

(* The container's thread.                                                 *)
Hand ==
  /\ queue # <<>>
  /\ delivered' = Append(delivered, Head(queue))
  /\ queue' = Tail(queue)
  /\ UNCHANGED permit

Next ==
  \/ Raise
  \/ \E t \in Senders, n \in Numbers : Accept(t, n)
  \/ Waste
  \/ Hand

Spec == Init /\ [][Next]_vars

=============================================================================
