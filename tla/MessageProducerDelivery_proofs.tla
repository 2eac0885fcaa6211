------------------- MODULE MessageProducerDelivery_proofs -------------------
(***************************************************************************)
(* The messages of a MessageProducerImpl, for every number of threads and  *)
(* every bound: what send() accepts reaches the sender once and in order,  *)
(* and every step of the producer is a step of Delivery.                   *)
(*                                                                         *)
(* The messages wait in a queue of lambdas of other kinds.  The first part *)
(* proves what adding to such a queue and taking from it do to the         *)
(* messages in it; that is an induction over the queue, made from the fact *)
(* that a set of natural numbers has a least element.                      *)
(***************************************************************************)
EXTENDS MessageProducerImpl_proofs, WellFoundedInduction, SequenceTheorems

-----------------------------------------------------------------------------
(* Induction over the natural numbers, for a set instead of a predicate.   *)

(* A set of natural numbers has a least element.                           *)
LEMMA LeastNumber ==
  ASSUME NEW T, T \subseteq Nat, T # {}
  PROVE  \E n \in T : \A k \in T : n <= k
<1> DEFINE R == OpToRel(<, Nat)
<1>1. IsWellFoundedOn(R, Nat)
  BY NatLessThanWellFounded
<1>2. PICK n \in T : \A k \in T : <<k, n>> \notin R
  <2> HIDE DEF R
  <2> QED
    BY <1>1, WFMin
<1>3. \A k \in T : ~(k < n)
  BY <1>2 DEF OpToRel
<1> QED
  BY <1>3

(* A set with 0 and with the successor of each of its numbers has all.     *)
LEMMA InductionOnSet ==
  ASSUME NEW T, 0 \in T, \A n \in Nat : n \in T => n + 1 \in T
  PROVE  Nat \subseteq T
<1> SUFFICES ASSUME Nat \ T # {}
             PROVE  FALSE
  OBVIOUS
<1>1. PICK n \in Nat \ T : \A k \in Nat \ T : n <= k
  BY LeastNumber
<1>2. n # 0 /\ n - 1 \in Nat
  BY <1>1
<1>3. n - 1 \in T
  BY <1>1, <1>2
<1> QED
  BY <1>1, <1>2, <1>3

-----------------------------------------------------------------------------
(* The messages of a queue.                                                *)

Message(w) == <<w.by, w.n>>

(* The messages among the first i lambdas of q, given those among fewer.   *)
NextOf(first, q, i) ==
  IF i = 0 THEN <<>>
  ELSE IF q[i].kind = "send" THEN Append(first[i - 1], Message(q[i]))
  ELSE first[i - 1]

(* first gives, for each i up to n, the messages among the first i lambdas. *)
Gives(first, q, n) == first = [i \in 0..n |-> NextOf(first, q, i)]

(* There is such a function ...                                            *)
LEMMA GivesExists ==
  ASSUME NEW q
  PROVE  \A n \in Nat : \E first : Gives(first, q, n)
<1> DEFINE T == {n \in Nat : \E first : Gives(first, q, n)}
<1>1. 0 \in T
  <2> DEFINE first == [i \in 0..0 |-> <<>>]
  <2>1. Gives(first, q, 0)
    BY DEF Gives, NextOf
  <2> QED
    BY <2>1
<1>2. ASSUME NEW n \in Nat, n \in T
      PROVE  n + 1 \in T
  <2>1. PICK first : Gives(first, q, n)
    BY <1>2
  <2> DEFINE more == [i \in 0..(n + 1) |->
                        IF i = n + 1 THEN NextOf(first, q, n + 1) ELSE first[i]]
  <2>2. ASSUME NEW i \in 0..(n + 1)
        PROVE  more[i] = NextOf(more, q, i)
    <3>1. i # 0 => more[i - 1] = first[i - 1]
      OBVIOUS
    <3>2. NextOf(more, q, i) = NextOf(first, q, i)
      BY <3>1 DEF NextOf
    <3>3. i # n + 1 => first[i] = NextOf(first, q, i)
      BY <2>1 DEF Gives
    <3> QED
      BY <3>2, <3>3
  <2>3. Gives(more, q, n + 1)
    BY <2>2 DEF Gives
  <2> QED
    BY <2>3
<1>3. Nat \subseteq T
  <2> HIDE DEF T
  <2> QED
    BY <1>1, <1>2, InductionOnSet
<1> QED
  BY <1>3

(* ... and MessagesOf takes its last value.                                *)
LEMMA MessagesGiven ==
  ASSUME NEW q \in Seq(Work)
  PROVE  \E first : Gives(first, q, Len(q)) /\ MessagesOf(q) = first[Len(q)]
<1> DEFINE F == CHOOSE first : Gives(first, q, Len(q))
<1>1. Gives(F, q, Len(q))
  BY GivesExists
<1>2. MessagesOf(q) = F[Len(q)]
  BY DEF MessagesOf, Gives, NextOf, Message
<1> QED
  BY <1>1, <1>2

(* What the function gives are messages.                                   *)
LEMMA GivesMessages ==
  ASSUME NEW q \in Seq(Work), NEW first, Gives(first, q, Len(q))
  PROVE  \A i \in 0..Len(q) : first[i] \in Seq(Messages)
<1> DEFINE T == {i \in Nat : i <= Len(q) => first[i] \in Seq(Messages)}
<1>0. Len(q) \in Nat /\ \A i \in 1..Len(q) : q[i] \in Work
  OBVIOUS
<1>1. \A i \in 0..Len(q) : first[i] = NextOf(first, q, i)
  BY DEF Gives
<1>2. 0 \in T
  <2>1. first[0] = <<>>
    BY <1>0, <1>1 DEF NextOf
  <2>2. <<>> \in Seq(Messages)
    OBVIOUS
  <2> QED
    BY <2>1, <2>2
<1>3. ASSUME NEW i \in Nat, i \in T
      PROVE  i + 1 \in T
  <2> SUFFICES ASSUME i + 1 <= Len(q)
               PROVE  first[i + 1] \in Seq(Messages)
    OBVIOUS
  <2>1. first[i] \in Seq(Messages)
    BY <1>0, <1>3
  <2>2. q[i + 1] \in Work
    BY <1>0
  <2>3. Message(q[i + 1]) \in Messages
    BY <2>2 DEF Work, Message, Messages
  <2>4. i + 1 \in 0..Len(q) /\ i + 1 # 0 /\ (i + 1) - 1 = i
    BY <1>0
  <2>5. first[i + 1] = first[i] \/ first[i + 1] = Append(first[i], Message(q[i + 1]))
    BY <1>1, <2>4 DEF NextOf
  <2> HIDE DEF T
  <2> QED
    BY <2>1, <2>3, <2>5, AppendProperties
<1>4. Nat \subseteq T
  <2> HIDE DEF T
  <2> QED
    BY <1>2, <1>3, InductionOnSet
<1> QED
  BY <1>4

(* A queue and the same queue with one lambda more give the same messages  *)
(* for what they share.                                                    *)
LEMMA GivesAgree ==
  ASSUME NEW q, NEW p, NEW n \in Nat, NEW f, NEW g,
         Gives(f, q, n), Gives(g, p, n + 1), \A i \in 1..n : q[i] = p[i]
  PROVE  f[n] = g[n]
<1> DEFINE T == {i \in Nat : i <= n => f[i] = g[i]}
<1>1. /\ \A i \in 0..n : f[i] = NextOf(f, q, i)
      /\ \A i \in 0..n : g[i] = NextOf(g, p, i)
  BY DEF Gives
<1>2. 0 \in T
  BY <1>1 DEF NextOf
<1>3. ASSUME NEW i \in Nat, i \in T
      PROVE  i + 1 \in T
  <2> SUFFICES ASSUME i + 1 <= n
               PROVE  f[i + 1] = g[i + 1]
    OBVIOUS
  <2>1. f[i] = g[i] /\ q[i + 1] = p[i + 1]
    BY <1>3
  <2>2. /\ f[i + 1] = NextOf(f, q, i + 1) /\ g[i + 1] = NextOf(g, p, i + 1)
        /\ (i + 1) - 1 = i /\ i + 1 # 0
    BY <1>1
  <2> QED
    BY <2>1, <2>2 DEF NextOf
<1>4. Nat \subseteq T
  <2> HIDE DEF T
  <2> QED
    BY <1>2, <1>3, InductionOnSet
<1> QED
  BY <1>4

(* The messages of an empty queue, and of any queue.                       *)
LEMMA MessagesTyped ==
  /\ MessagesOf(<<>>) = <<>>
  /\ \A q \in Seq(Work) : MessagesOf(q) \in Seq(Messages)
<1>1. MessagesOf(<<>>) = <<>>
  <2>1. <<>> \in Seq(Work) /\ Len(<<>>) = 0
    OBVIOUS
  <2>2. PICK first : Gives(first, <<>>, 0) /\ MessagesOf(<<>>) = first[0]
    BY <2>1, MessagesGiven
  <2> QED
    BY <2>2 DEF Gives, NextOf
<1>2. ASSUME NEW q \in Seq(Work)
      PROVE  MessagesOf(q) \in Seq(Messages)
  <2>1. PICK first : Gives(first, q, Len(q)) /\ MessagesOf(q) = first[Len(q)]
    BY MessagesGiven
  <2> QED
    BY <2>1, GivesMessages
<1> QED
  BY <1>1, <1>2

(* Appending to the second of two sequences appends to their concatenation. *)
LEMMA AppendToSecond ==
  ASSUME NEW s, s \in Seq(Messages), NEW q, q \in Seq(Messages), NEW m \in Messages
  PROVE  Append(s \o q, m) = s \o Append(q, m)
OBVIOUS

(* A lambda added to the queue adds its message, if it has one, at the end. *)
LEMMA MessagesAppend ==
  ASSUME NEW q \in Seq(Work), NEW w \in Work
  PROVE  MessagesOf(Append(q, w)) =
           IF w.kind = "send" THEN Append(MessagesOf(q), Message(w)) ELSE MessagesOf(q)
<1> DEFINE p == Append(q, w)
           n == Len(q)
<1>1. /\ p \in Seq(Work) /\ n \in Nat /\ Len(p) = n + 1
      /\ p[n + 1] = w /\ \A i \in 1..n : q[i] = p[i]
  OBVIOUS
<1>2. PICK f : Gives(f, q, n) /\ MessagesOf(q) = f[n]
  BY MessagesGiven
<1>3. PICK g : Gives(g, p, n + 1) /\ MessagesOf(p) = g[n + 1]
  BY <1>1, MessagesGiven
<1> HIDE DEF p, n
<1>4. f[n] = g[n]
  BY <1>1, <1>2, <1>3, GivesAgree
<1>5. g[n + 1] = NextOf(g, p, n + 1) /\ (n + 1) - 1 = n /\ n + 1 # 0
  <2>1. n + 1 \in 0..(n + 1)
    BY <1>1
  <2>2. g[n + 1] = NextOf(g, p, n + 1)
    BY <1>3, <2>1 DEF Gives
  <2> QED
    BY <1>1, <2>2
<1>6. MessagesOf(p) = IF w.kind = "send" THEN Append(MessagesOf(q), Message(w))
                                         ELSE MessagesOf(q)
  BY <1>1, <1>2, <1>3, <1>4, <1>5 DEF NextOf
<1> QED
  BY <1>6 DEF p

(* The lambda at the head of the queue has the first message, or none.     *)
LEMMA MessagesTail ==
  ASSUME NEW q \in Seq(Work), q # <<>>
  PROVE  MessagesOf(q) = (IF Head(q).kind = "send" THEN <<Message(Head(q))>> ELSE <<>>)
                           \o MessagesOf(Tail(q))
<1> DEFINE p == Tail(q)
           n == Len(p)
           h == IF Head(q).kind = "send" THEN <<Message(Head(q))>> ELSE <<>>
<1>1. /\ p \in Seq(Work) /\ n \in Nat /\ Len(q) = n + 1
      /\ \A i \in 1..n : p[i] = q[i + 1]
      /\ Head(q) = q[1] /\ Head(q) \in Work
  OBVIOUS
<1>2. h \in Seq(Messages)
  <2>1. Message(Head(q)) \in Messages
    BY <1>1 DEF Work, Message, Messages
  <2> QED
    BY <2>1
<1> HIDE DEF p
<1>3. PICK f : Gives(f, q, n + 1) /\ MessagesOf(q) = f[n + 1]
  BY <1>1, MessagesGiven
<1>4. PICK g : Gives(g, p, n) /\ MessagesOf(p) = g[n]
  BY <1>1, MessagesGiven
<1>5. \A i \in 0..n : g[i] \in Seq(Messages)
  BY <1>1, <1>4, GivesMessages
<1> HIDE DEF n
<1>6. /\ \A i \in 0..(n + 1) : f[i] = NextOf(f, q, i)
      /\ \A i \in 0..n : g[i] = NextOf(g, p, i)
  BY <1>3, <1>4 DEF Gives
<1> DEFINE T == {i \in Nat : i <= n => f[i + 1] = h \o g[i]}
<1>7. 0 \in T
  <2>1. 0 \in 0..n /\ 0 \in 0..(n + 1) /\ 1 \in 0..(n + 1) /\ 1 # 0 /\ 1 - 1 = 0 /\ 0 + 1 = 1
    BY <1>1
  <2>2. f[0] = <<>> /\ g[0] = <<>>
    BY <1>6, <2>1 DEF NextOf
  <2>3. f[1] = NextOf(f, q, 1)
    BY <1>6, <2>1
  <2>4. f[1] = h
    <3>1. CASE Head(q).kind = "send"
      <4>1. f[1] = Append(<<>>, Message(Head(q)))
        BY <1>1, <2>1, <2>2, <2>3, <3>1 DEF NextOf
      <4> QED
        BY <3>1, <4>1
    <3>2. CASE Head(q).kind # "send"
      BY <1>1, <2>1, <2>2, <2>3, <3>2 DEF NextOf
    <3> QED
      BY <3>1, <3>2
  <2> HIDE DEF h
  <2>5. h \o <<>> = h
    BY <1>2, ConcatEmptySeq
  <2> QED
    BY <2>1, <2>2, <2>4, <2>5
<1> HIDE DEF h
<1>8. ASSUME NEW i \in Nat, i \in T
      PROVE  i + 1 \in T
  <2> SUFFICES ASSUME i + 1 <= n
               PROVE  f[(i + 1) + 1] = h \o g[i + 1]
    OBVIOUS
  <2>0. i \in 0..n /\ i + 1 \in 0..n /\ i + 1 \in 1..n /\ (i + 1) + 1 \in 0..(n + 1)
    BY <1>1
  <2>1. f[i + 1] = h \o g[i] /\ g[i] \in Seq(Messages)
    BY <1>5, <1>8, <2>0
  <2>2. /\ f[(i + 1) + 1] = NextOf(f, q, (i + 1) + 1)
        /\ g[i + 1] = NextOf(g, p, i + 1)
        /\ p[i + 1] = q[(i + 1) + 1]
    BY <1>1, <1>6, <2>0
  <2>3. ((i + 1) + 1) - 1 = i + 1 /\ (i + 1) - 1 = i /\ i + 1 # 0 /\ (i + 1) + 1 # 0
    OBVIOUS
  <2> HIDE DEF T
  <2>4. CASE p[i + 1].kind = "send"
    <3>1. p[i + 1] \in Work
      BY <1>1, <2>0
    <3>2. Message(p[i + 1]) \in Messages
      BY <3>1 DEF Work, Message, Messages
    <3>3. /\ f[(i + 1) + 1] = Append(h \o g[i], Message(p[i + 1]))
          /\ g[i + 1] = Append(g[i], Message(p[i + 1]))
      BY <2>1, <2>2, <2>3, <2>4 DEF NextOf
    <3>4. Append(h \o g[i], Message(p[i + 1])) = h \o Append(g[i], Message(p[i + 1]))
      BY <1>2, <2>1, <3>2, AppendToSecond
    <3> QED
      BY <2>1, <3>2, <3>3, <3>4
  <2>5. CASE p[i + 1].kind # "send"
    BY <2>1, <2>2, <2>3, <2>5 DEF NextOf
  <2> QED
    BY <2>4, <2>5
<1>9. Nat \subseteq T
  <2> HIDE DEF T
  <2> QED
    BY <1>7, <1>8, InductionOnSet
<1>10. MessagesOf(q) = h \o MessagesOf(p)
  BY <1>1, <1>3, <1>4, <1>9
<1> QED
  BY <1>10 DEF h, p

-----------------------------------------------------------------------------
(* What the steps do to the messages.  All but two kinds leave them alone: *)
(* SendEnqueue accepts one, RunSend hands one over.                        *)

Leaves == UNCHANGED <<QueuedMessages, accepted, executed>>

(* A lambda of another kind joins the queue.                               *)
LEMMA AddLeaves ==
  ASSUME TypeOK, NEW t \in Threads, NEW kind \in Kinds, kind # "send", Add(t, kind, 0)
  PROVE  QueuedMessages' = QueuedMessages
<1> DEFINE w == [kind |-> kind, by |-> t, n |-> 0]
<1>1. workQueue' = Append(workQueue, w) /\ workQueue \in Seq(Work) /\ w.kind # "send"
  BY DEF Add, TypeOK
<1>2. w \in Work
  BY DEF Work
<1> HIDE DEF w
<1>3. MessagesOf(Append(workQueue, w)) = MessagesOf(workQueue)
  BY <1>1, <1>2, MessagesAppend
<1> QED
  BY <1>1, <1>3 DEF QueuedMessages

(* A lambda of another kind is run.                                        *)
LEMMA RunLeaves ==
  ASSUME TypeOK, NEW kind, kind # "send", Run(kind)
  PROVE  QueuedMessages' = QueuedMessages
<1>1. /\ workQueue \in Seq(Work) /\ workQueue # <<>> /\ Head(workQueue).kind # "send"
      /\ workQueue' = Tail(workQueue)
  BY DEF Run, TypeOK
<1>2. MessagesOf(workQueue) = <<>> \o MessagesOf(Tail(workQueue))
  BY <1>1, MessagesTail
<1>3. MessagesOf(Tail(workQueue)) \in Seq(Messages)
  <2>1. Tail(workQueue) \in Seq(Work)
    BY <1>1
  <2> QED
    BY <2>1, MessagesTyped
<1>4. <<>> \o MessagesOf(Tail(workQueue)) = MessagesOf(Tail(workQueue))
  BY <1>3, ConcatEmptySeq
<1> QED
  BY <1>1, <1>2, <1>4 DEF QueuedMessages

(* The queue as it was.                                                    *)
LEMMA SameQueue ==
  ASSUME workQueue' = workQueue
  PROVE  QueuedMessages' = QueuedMessages
BY DEF QueuedMessages

(* The steps of a thread.                                                  *)
LEMMA ThreadLeaves ==
  ASSUME TypeOK, NEW t \in Threads, ThreadStep(t) \/ ThreadCall(t)
  PROVE  SendEnqueue(t) \/ (Leaves /\ mCanSend' = mCanSend)
<1> USE DEF Leaves
<1>1. CASE constructor(t)
  <2>1. UNCHANGED <<accepted, executed, mCanSend>>
    BY <1>1 DEF constructor, own, history
  <2>2. CASE Add(t, "open", 0)
    BY <2>1, <2>2, AddLeaves DEF Kinds
  <2>3. CASE UNCHANGED workQueue
    BY <2>1, <2>3, SameQueue
  <2> QED
    BY <1>1, <2>2, <2>3 DEF constructor, Construct
<1>2. CASE close(t)
  <2>1. UNCHANGED <<accepted, executed, mCanSend>>
    BY <1>2 DEF close, own, history
  <2>2. CASE TestQueue(t, "closeQueue", "closeLock") \/ Return(t)
    BY <2>1, <2>2, SameQueue DEF TestQueue, Return, proton
  <2>3. CASE LockAndAdd(t, "closeLock", "close")
    <3>1. CASE Add(t, "close", 0)
      BY <2>1, <3>1, AddLeaves DEF Kinds
    <3>2. CASE UNCHANGED workQueue
      BY <2>1, <3>2, SameQueue
    <3> QED
      BY <2>3, <3>1, <3>2 DEF LockAndAdd, AddOrCrash
  <2> QED
    BY <1>2, <2>2, <2>3 DEF close, CloseStep
<1>3. CASE SendEnter(t) \/ wait(t)
  BY <1>3, SameQueue DEF SendEnter, wait, WaitStep, proton, own, history
<1>4. CASE CallSend(t) \/ callClose(t) \/ (Spurious(t) /\ UNCHANGED own)
  BY <1>4, SameQueue DEF CallSend, callClose, CallClose, Spurious, proton, own, history
<1> QED
  BY <1>1, <1>2, <1>3, <1>4 DEF ThreadStep, ThreadCall

(* The lambdas, the handlers and the broker.                               *)
LEMMA ContainerLeaves ==
  ASSUME TypeOK, ContainerStep \/ Environment
  PROVE  RunSend \/ (Leaves /\ (mCanSend' = mCanSend \/ mCanSend' = TRUE))
<1> USE DEF Leaves
<1>1. CASE (RunOpen \/ RunClose) /\ UNCHANGED own
  <2>1. UNCHANGED <<accepted, executed, mCanSend>>
    BY <1>1 DEF own, history
  <2>2. Run("open") \/ Run("close")
    BY <1>1 DEF RunOpen, RunClose
  <2> QED
    BY <2>1, <2>2, RunLeaves
<1>2. CASE on_sender_closed \/ on_sender_close \/ on_sender_open
  BY <1>2, SameQueue DEF on_sender_closed, on_sender_close, on_sender_open, OnCloseState,
                         OnClose, OnOpen, OnOpenThrows, own, history
<1>3. CASE NotifyCv \/ NotifySendable
  BY <1>3, SameQueue DEF NotifyCv, NotifySendable, Notify, own, history
<1>4. ASSUME NEW grant \in 0..MaxGrant, BrokerFlow(grant)
      PROVE  Leaves /\ (mCanSend' = mCanSend \/ mCanSend' = TRUE)
  BY <1>4, SameQueue DEF BrokerFlow, OnSendable
<1>5. CASE Transmit
  BY <1>5, SameQueue DEF Transmit, OnSendable
<1>6. CASE Disconnect \/ (TransportClose /\ UNCHANGED own)
  BY <1>6, SameQueue DEF Disconnect, Reconnect, TransportClose, own, history
<1> QED
  BY <1>1, <1>2, <1>3, <1>4, <1>5, <1>6 DEF ContainerStep, Environment

(* send() puts its message at the end of those accepted and, with them, of *)
(* those queued; without a queue pointer it does neither.                  *)
LEMMA EnqueueAccepts ==
  ASSUME TypeOK, NEW t \in Threads, SendEnqueue(t)
  PROVE  /\ executed' = executed
         /\ \/ /\ accepted' = Append(accepted, <<t, sends[t]>>)
               /\ QueuedMessages' = Append(QueuedMessages, <<t, sends[t]>>)
            \/ Leaves
<1> DEFINE w == [kind |-> "send", by |-> t, n |-> sends[t]]
<1>1. executed' = executed /\ workQueue \in Seq(Work) /\ sends[t] \in Nat
  BY DEF SendEnqueue, TypeOK
<1>2. CASE ~mWorkQueue
  BY <1>1, <1>2, SameQueue DEF SendEnqueue, AddOrCrash, Leaves
<1>3. CASE mWorkQueue
  <2>1. /\ accepted' = Append(accepted, <<t, sends[t]>>)
        /\ workQueue' = Append(workQueue, w)
    BY <1>3 DEF SendEnqueue, AddOrCrash, Add
  <2>2. w \in Work /\ w.kind = "send" /\ Message(w) = <<t, sends[t]>>
    BY <1>1 DEF Work, Kinds, Message
  <2> HIDE DEF w
  <2>3. MessagesOf(Append(workQueue, w)) = Append(MessagesOf(workQueue), Message(w))
    BY <1>1, <2>2, MessagesAppend
  <2> QED
    BY <1>1, <2>1, <2>2, <2>3 DEF QueuedMessages
<1> QED
  BY <1>2, <1>3

(* The lambda of send() moves the first of the messages queued.            *)
LEMMA RunSendHands ==
  ASSUME TypeOK, RunSend
  PROVE  /\ QueuedMessages # <<>>
         /\ executed' = Append(executed, Head(QueuedMessages))
         /\ QueuedMessages' = Tail(QueuedMessages)
         /\ accepted' = accepted /\ mCanSend' = mCanSend
<1> DEFINE w == Head(workQueue)
           p == Tail(workQueue)
<1>1. /\ workQueue \in Seq(Work) /\ workQueue # <<>> /\ w.kind = "send" /\ w \in Work
      /\ workQueue' = p /\ p \in Seq(Work) /\ executed' = Append(executed, Message(w))
      /\ accepted' = accepted /\ mCanSend' = mCanSend
  BY DEF RunSend, Run, TypeOK, Message
<1>2. MessagesOf(workQueue) = <<Message(w)>> \o MessagesOf(p)
  BY <1>1, MessagesTail
<1> HIDE DEF w, p
<1>3. Message(w) \in Messages
  BY <1>1 DEF Work, Messages, Message
<1>4. MessagesOf(p) \in Seq(Messages)
  BY <1>1, MessagesTyped
<1> DEFINE m == Message(w)
           rest == MessagesOf(p)
<1> HIDE DEF m, rest
<1>5. /\ m \in Messages /\ rest \in Seq(Messages)
      /\ QueuedMessages = <<m>> \o rest /\ QueuedMessages' = rest
      /\ executed' = Append(executed, m)
  BY <1>1, <1>2, <1>3, <1>4 DEF QueuedMessages, m, rest
<1>6. <<m>> \o rest # <<>> /\ Head(<<m>> \o rest) = m /\ Tail(<<m>> \o rest) = rest
  BY <1>5
<1> QED
  BY <1>1, <1>5, <1>6

-----------------------------------------------------------------------------
(* The order of acceptance.  It is the order of the queue because send()   *)
(* appends to both; for one thread it is the order of its calls because    *)
(* the number of a call that has not been accepted yet is greater than all *)
(* of that thread that have, which takes an account of the calls.          *)

Sending(t) == pc[t] # "idle" /\ op[t] = "send"

(* A thread in send() is one that may, in a call that was counted.         *)
SendsCounted ==
  \A t \in Threads :
    /\ sends[t] <= MaxSends
    /\ Sending(t) => t \in Senders /\ sends[t] >= 1

(* What a thread has had accepted comes from its calls so far, and not yet *)
(* from the one it is in.                                                  *)
AllBefore ==
  \A i \in DOMAIN accepted : \A t \in Threads :
    accepted[i][1] = t => /\ accepted[i][2] <= sends[t]
                          /\ Sending(t) => accepted[i][2] < sends[t]

InCallOrder ==
  \A i, j \in DOMAIN accepted :
    i < j /\ accepted[i][1] = accepted[j][1] => accepted[i][2] < accepted[j][2]

CallsInv == SendsCounted /\ AllBefore /\ InCallOrder

(* A step after which no further thread is in send() and all else is as it *)
(* was.                                                                    *)
LEMMA CallsMove ==
  ASSUME CallsInv, \A t \in Threads : Sending(t)' => Sending(t),
         UNCHANGED <<sends, accepted>>
  PROVE  CallsInv'
<1> USE DEF CallsInv
<1>1. SendsCounted'
  BY DEF SendsCounted
<1>2. AllBefore'
  BY DEF AllBefore
<1>3. InCallOrder'
  BY DEF InCallOrder
<1> QED
  BY <1>1, <1>2, <1>3

(* A thread that was not idle goes on.                                     *)
LEMMA GoesOn ==
  ASSUME pc \in [Threads -> Labels], NEW t \in Threads, pc[t] # "idle", NEW l,
         Goto(t, l), op' = op
  PROVE  \A u \in Threads : Sending(u)' => Sending(u)
BY DEF Goto, Sending

(* The call is counted.                                                    *)
LEMMA CallsCall ==
  ASSUME TypeOK, CallsInv, NEW t \in Threads, CallSend(t)
  PROVE  CallsInv'
<1>1. /\ t \in Senders /\ sends[t] < MaxSends /\ pc[t] = "idle"
      /\ op' = [op EXCEPT ![t] = "send"] /\ pc' = [pc EXCEPT ![t] = "sendLock"]
      /\ sends' = [sends EXCEPT ![t] = @ + 1] /\ accepted' = accepted
  BY DEF CallSend, Begin, Goto, history
<1>2. /\ \A u \in Threads : sends[u] \in Nat
      /\ DOMAIN sends = Threads
      /\ \A i \in DOMAIN accepted : accepted[i][2] \in Nat
  BY DEF TypeOK, Messages
<1>3. sends'[t] = sends[t] + 1 /\ \A u \in Threads : u # t => sends'[u] = sends[u]
  BY <1>1, <1>2
<1>4. \A u \in Threads : u # t => (Sending(u)' <=> Sending(u))
  BY <1>1 DEF Sending, TypeOK
<1>5. SendsCounted'
  BY <1>1, <1>2, <1>3, <1>4, ProducerAssumption DEF SendsCounted, CallsInv
<1>6. AllBefore'
  <2> SUFFICES ASSUME NEW i \in DOMAIN accepted, NEW u \in Threads, accepted[i][1] = u
               PROVE  /\ accepted[i][2] <= sends'[u]
                      /\ Sending(u)' => accepted[i][2] < sends'[u]
    BY <1>1 DEF AllBefore
  <2>1. /\ accepted[i][2] <= sends[u] /\ accepted[i][2] \in Nat /\ sends[u] \in Nat
        /\ Sending(u) => accepted[i][2] < sends[u]
    BY <1>2 DEF AllBefore, CallsInv
  <2>2. CASE u = t
    BY <1>3, <2>1, <2>2
  <2>3. CASE u # t
    BY <1>3, <1>4, <2>1, <2>3
  <2> QED
    BY <2>2, <2>3
<1>7. InCallOrder'
  BY <1>1 DEF InCallOrder, CallsInv
<1> QED
  BY <1>5, <1>6, <1>7 DEF CallsInv

(* The call's message is newer than all before it of the same thread.      *)
LEMMA CallsEnqueue ==
  ASSUME TypeOK, CallsInv, NEW t \in Threads, SendEnqueue(t)
  PROVE  CallsInv'
<1>1. /\ pc[t] = "ready" /\ pc' = [pc EXCEPT ![t] = "idle"] /\ op[t] = "send" /\ op' = op
      /\ sends' = sends
      /\ accepted' = Append(accepted, <<t, sends[t]>>) \/ accepted' = accepted
  BY DEF SendEnqueue, Unlock, Goto
<1>2. Sending(t) /\ ~Sending(t)' /\ \A u \in Threads : Sending(u)' => Sending(u)
  BY <1>1 DEF Sending, TypeOK
<1>3. CASE accepted' = accepted
  BY <1>1, <1>2, <1>3, CallsMove
<1>4. CASE accepted' = Append(accepted, <<t, sends[t]>>)
  <2> DEFINE n == Len(accepted)
  <2>1. /\ DOMAIN accepted = 1..n /\ DOMAIN accepted' = 1..(n + 1) /\ n \in Nat
        /\ \A i \in 1..n : accepted'[i] = accepted[i]
        /\ accepted'[n + 1] = <<t, sends[t]>>
    BY <1>4 DEF TypeOK
  <2>2. \A i \in 1..n : accepted[i][2] \in Nat /\ accepted[i][1] \in Threads
    BY DEF TypeOK, Messages
  <2>3. sends[t] \in Nat
    BY DEF TypeOK
  <2> HIDE DEF n
  <2>4. \A i \in 1..n : accepted[i][1] = t => accepted[i][2] < sends[t]
    BY <1>2, <2>1 DEF AllBefore, CallsInv
  <2>5. SendsCounted'
    BY <1>1, <1>2 DEF SendsCounted, CallsInv
  <2>6. AllBefore'
    <3> SUFFICES ASSUME NEW i \in 1..(n + 1), NEW u \in Threads, accepted'[i][1] = u
                 PROVE  /\ accepted'[i][2] <= sends[u]
                        /\ Sending(u)' => accepted'[i][2] < sends[u]
      BY <1>1, <2>1 DEF AllBefore
    <3>1. CASE i = n + 1
      BY <1>2, <2>1, <2>3, <3>1
    <3>2. CASE i # n + 1
      <4>1. i \in 1..n
        BY <2>1, <3>2
      <4> QED
        BY <1>2, <2>1, <4>1 DEF AllBefore, CallsInv
    <3> QED
      BY <3>1, <3>2
  <2>7. InCallOrder'
    <3> SUFFICES ASSUME NEW i \in 1..(n + 1), NEW j \in 1..(n + 1), i < j,
                        accepted'[i][1] = accepted'[j][1]
                 PROVE  accepted'[i][2] < accepted'[j][2]
      BY <2>1 DEF InCallOrder
    <3>1. i \in 1..n /\ accepted'[i] = accepted[i]
      BY <2>1
    <3>2. CASE j = n + 1
      BY <2>1, <2>4, <3>1, <3>2
    <3>3. CASE j # n + 1
      <4>1. j \in 1..n /\ accepted'[j] = accepted[j]
        BY <2>1, <3>3
      <4> QED
        BY <2>1, <3>1, <4>1 DEF InCallOrder, CallsInv
    <3> QED
      BY <3>2, <3>3
  <2> QED
    BY <2>5, <2>6, <2>7 DEF CallsInv
<1> QED
  BY <1>1, <1>3, <1>4

(* Every step of a thread keeps the account of the calls.                  *)
LEMMA CallsThread ==
  ASSUME TypeOK, CallsInv, NEW t \in Threads, ThreadStep(t) \/ ThreadCall(t)
  PROVE  CallsInv'
<1>0. pc \in [Threads -> Labels] /\ op \in [Threads -> {"none", "ctor", "send", "close", "dtor"}]
  BY DEF TypeOK
<1>1. CASE constructor(t)
  <2>1. /\ pc[t] # "idle" /\ (\E l \in {"check", "idle"} : Goto(t, l)) /\ op' = op
        /\ UNCHANGED <<sends, accepted>>
    BY <1>1 DEF constructor, Construct, Lock, own, history
  <2> QED
    BY <1>0, <2>1, GoesOn, CallsMove
<1>2. CASE SendEnter(t)
  <2>1. /\ pc[t] # "idle" /\ (\E l \in {"check", "idle"} : Goto(t, l)) /\ op' = op
        /\ UNCHANGED <<sends, accepted>>
    BY <1>2 DEF SendEnter, Lock, own, history
  <2> QED
    BY <1>0, <2>1, GoesOn, CallsMove
<1>3. CASE SendEnqueue(t)
  BY <1>3, CallsEnqueue
<1>4. CASE close(t)
  <2>1. UNCHANGED <<sends, accepted>>
    BY <1>4 DEF close, own, history
  <2>2. /\ pc[t] # "idle" /\ op' = op
        /\ \E l \in {"check", "idle", "closeLock"} : Goto(t, l)
    BY <1>4 DEF close, CloseStep, TestQueue, LockAndAdd, Return, Lock, Unlock, calls
  <2> QED
    BY <1>0, <2>1, <2>2, GoesOn, CallsMove
<1>5. CASE wait(t)
  <2>1. UNCHANGED <<sends, accepted>>
    BY <1>5 DEF wait, own, history
  <2>2. /\ pc[t] # "idle" /\ op' = op
        /\ \E l \in {"ready", "block", "blocked", "check"} : Goto(t, l)
    BY <1>5 DEF wait, WaitStep, WaitCheck, WaitBlock, WaitRelock, Lock, Unlock, calls
  <2> QED
    BY <1>0, <2>1, <2>2, GoesOn, CallsMove
<1>6. CASE CallSend(t)
  BY <1>6, CallsCall
<1>7. CASE callClose(t)
  <2>1. PICK what \in Closing : CallClose(t, what)
    BY <1>7 DEF callClose
  <2>2. /\ op' = [op EXCEPT ![t] = what] /\ what # "send"
        /\ \E l : Goto(t, l)
    BY <2>1 DEF CallClose, Begin, Closing
  <2>3. \A u \in Threads : Sending(u)' => Sending(u)
    BY <1>0, <2>2 DEF Goto, Sending
  <2>4. UNCHANGED <<sends, accepted>>
    BY <1>7 DEF callClose, own, history
  <2> QED
    BY <2>3, <2>4, CallsMove
<1>8. CASE Spurious(t) /\ UNCHANGED own
  <2>1. /\ pc[t] # "idle" /\ Goto(t, "relock") /\ op' = op /\ UNCHANGED <<sends, accepted>>
    BY <1>8 DEF Spurious, SpuriousWakeup, calls, own, history
  <2> QED
    BY <1>0, <2>1, GoesOn, CallsMove
<1> QED
  BY <1>1, <1>2, <1>3, <1>4, <1>5, <1>6, <1>7, <1>8 DEF ThreadStep, ThreadCall

(* So does every lambda and every handler: notify_one at most wakes a      *)
(* thread that sleeps in its operation.                                    *)
LEMMA CallsContainer ==
  ASSUME TypeOK, CallsInv, ContainerStep \/ Environment
  PROVE  CallsInv'
<1>0. pc \in [Threads -> Labels]
  BY DEF TypeOK
<1>1. CASE NotifyCv \/ NotifySendable
  <2>1. op' = op /\ UNCHANGED <<sends, accepted>>
    BY <1>1 DEF NotifyCv, NotifySendable, Notify, calls, own, history
  <2>2. UNCHANGED pc \/ \E t \in Threads : pc[t] # "idle" /\ Goto(t, "relock")
    BY <1>1 DEF NotifyCv, NotifySendable, Notify, NotifyOne, CvWaiters, SendableWaiters
  <2>3. CASE UNCHANGED pc
    BY <2>1, <2>3, CallsMove DEF Sending
  <2>4. ASSUME NEW t \in Threads, pc[t] # "idle", Goto(t, "relock")
        PROVE  CallsInv'
    BY <1>0, <2>1, <2>4, GoesOn, CallsMove
  <2> QED
    BY <2>2, <2>3, <2>4
<1>2. CASE ContainerStep /\ ~(NotifyCv \/ NotifySendable)
  <2>1. UNCHANGED <<pc, op, sends, accepted>>
    BY <1>2 DEF ContainerStep, RunOpen, RunClose, RunSend, Run, on_sender_closed,
                OnCloseState, threads, calls, own, history
  <2> QED
    BY <2>1, CallsMove DEF Sending
<1>3. CASE Environment
  <2>1. UNCHANGED <<pc, op, sends, accepted>>
    BY <1>3 DEF Environment, on_sender_open, OnOpen, OnOpenThrows, on_sender_close, OnClose,
                BrokerFlow, Transmit, Disconnect, Reconnect, TransportClose, threads, calls,
                own, history
  <2> QED
    BY <2>1, CallsMove DEF Sending
<1> QED
  BY <1>1, <1>2, <1>3

-----------------------------------------------------------------------------
(* What has been accepted is what has reached the sender and what is       *)
(* queued for it.                                                          *)

AllAccounted == accepted = executed \o QueuedMessages

DeliveryInv == TypeOK /\ SendInv /\ CallsInv /\ AllAccounted

(* A message moves from the head of one sequence to the end of another.    *)
LEMMA MoveHead ==
  ASSUME NEW s, s \in Seq(Messages), NEW q, q \in Seq(Messages), q # <<>>
  PROVE  Append(s, Head(q)) \o Tail(q) = s \o q
<1>1. q = <<Head(q)>> \o Tail(q) /\ Head(q) \in Messages /\ Tail(q) \in Seq(Messages)
  OBVIOUS
<1>2. Append(s, Head(q)) = s \o <<Head(q)>>
  BY <1>1
<1>3. (s \o <<Head(q)>>) \o Tail(q) = s \o (<<Head(q)>> \o Tail(q))
  BY <1>1
<1> QED
  BY <1>1, <1>2, <1>3

(* The types of the message sequences.                                     *)
LEMMA MessageTypes ==
  ASSUME TypeOK
  PROVE  executed \in Seq(Messages) /\ accepted \in Seq(Messages)
         /\ QueuedMessages \in Seq(Messages)
<1>1. workQueue \in Seq(Work)
  BY DEF TypeOK
<1>2. MessagesOf(workQueue) \in Seq(Messages)
  BY <1>1, MessagesTyped
<1> QED
  BY <1>2 DEF TypeOK, QueuedMessages

(* No step loses, repeats or overtakes a message.                          *)
LEMMA AllAccountedKept ==
  ASSUME TypeOK, AllAccounted, Next
  PROVE  AllAccounted'
<1> USE DEF AllAccounted
<1>1. CASE Leaves
  BY <1>1 DEF Leaves
<1>2. ASSUME NEW t \in Threads, SendEnqueue(t)
      PROVE  AllAccounted'
  <2>1. CASE Leaves
    BY <1>1, <2>1
  <2>2. CASE /\ accepted' = Append(accepted, <<t, sends[t]>>)
             /\ QueuedMessages' = Append(QueuedMessages, <<t, sends[t]>>)
             /\ executed' = executed
    <3>1. <<t, sends[t]>> \in Messages
      BY DEF TypeOK, Messages
    <3>2. Append(executed \o QueuedMessages, <<t, sends[t]>>)
            = executed \o Append(QueuedMessages, <<t, sends[t]>>)
      BY <3>1, AppendToSecond, MessageTypes
    <3> QED
      BY <2>2, <3>2
  <2> QED
    BY <1>2, <2>1, <2>2, EnqueueAccepts
<1>3. CASE RunSend
  <2>1. Append(executed, Head(QueuedMessages)) \o Tail(QueuedMessages)
          = executed \o QueuedMessages
    BY <1>3, RunSendHands, MessageTypes, MoveHead
  <2> QED
    BY <1>3, <2>1, RunSendHands
<1> QED
  BY <1>1, <1>2, <1>3, ThreadLeaves, ContainerLeaves DEF Next

(* The whole invariant is inductive, with TypeOK and SendInv known to hold. *)
LEMMA DeliveryInvariant == Spec => []DeliveryInv
<1>1. Init /\ TypeOK => SendInv
  BY DEF Init, EndpointInit, SendInv, TypeOK, MutexHeld, HoldsLabels, ReadyCanSend,
         OneMessagePerSendable
<1>2. Init /\ TypeOK => CallsInv /\ AllAccounted
  <2> SUFFICES ASSUME Init, TypeOK
               PROVE  CallsInv /\ AllAccounted
    OBVIOUS
  <2>1. workQueue = <<>> /\ accepted = <<>> /\ executed = <<>>
    BY DEF Init, EndpointInit
  <2>2. QueuedMessages = <<>>
    BY <2>1, MessagesTyped DEF QueuedMessages
  <2>3. SendsCounted
    <3>1. /\ op = [t \in Threads |-> IF t = Creator THEN "ctor" ELSE "none"]
          /\ sends = [t \in Threads |-> 0]
      BY DEF Init, EndpointInit
    <3>2. \A t \in Threads : sends[t] = 0 /\ op[t] # "send"
      BY <3>1
    <3>3. \A t \in Threads : ~Sending(t)
      BY <3>2 DEF Sending
    <3>4. 0 <= MaxSends
      BY ProducerAssumption
    <3> QED
      BY <3>2, <3>3, <3>4 DEF SendsCounted
  <2>4. AllBefore /\ InCallOrder
    BY <2>1 DEF AllBefore, InCallOrder
  <2>5. <<>> \o <<>> = <<>>
    BY ConcatEmptySeq, MessageTypes, <2>1
  <2> QED
    BY <2>1, <2>2, <2>3, <2>4, <2>5 DEF CallsInv, AllAccounted
<1>3. SendInv /\ TypeOK' /\ [Next]_vars => SendInv'
  <2> SUFFICES ASSUME SendInv, TypeOK', [Next]_vars
               PROVE  SendInv'
    OBVIOUS
  <2>1. CASE Next
    BY <2>1, SendInvThread, SendInvContainer DEF Next
  <2>2. CASE UNCHANGED vars
    BY <2>2, SendInvIdle DEF vars, endpoint, threads, calls, own, history
  <2> QED
    BY <2>1, <2>2
<1>4. TypeOK /\ CallsInv /\ AllAccounted /\ [Next]_vars => CallsInv' /\ AllAccounted'
  <2> SUFFICES ASSUME TypeOK, CallsInv, AllAccounted, [Next]_vars
               PROVE  CallsInv' /\ AllAccounted'
    OBVIOUS
  <2>1. CASE Next
    BY <2>1, CallsThread, CallsContainer, AllAccountedKept DEF Next
  <2>2. CASE UNCHANGED vars
    <3>1. UNCHANGED <<pc, op, workQueue, sends, accepted, executed>>
      BY <2>2 DEF vars, endpoint, threads, calls, proton, own, history
    <3> QED
      BY <3>1, CallsMove DEF Sending, AllAccounted, QueuedMessages
  <2> QED
    BY <2>1, <2>2
<1>5. TypeOK /\ SendInv /\ CallsInv /\ AllAccounted => DeliveryInv
  BY DEF DeliveryInv
<1> QED
  BY <1>1, <1>2, <1>3, <1>4, <1>5, TypeCorrect, PTL DEF Spec

(* What send() accepted reaches the sender once and in the order of        *)
(* acceptance, and for each thread that is the order of its calls, however *)
(* many threads send and whatever closes or reconnects meanwhile.          *)
THEOREM AcceptedReachesSenderInOrder == Spec => []AcceptedInOrder
<1>1. DeliveryInv => AcceptedInOrder
  BY DEF DeliveryInv, AllAccounted, CallsInv, InCallOrder, AcceptedInOrder
<1> QED
  BY <1>1, DeliveryInvariant, PTL

-----------------------------------------------------------------------------
(* The producer implements Delivery, one step for a step or a stutter.     *)

(* send() accepts as Accept does: ReadyCanSend gives the permit, AllBefore *)
(* says that the message is the newest of its thread.                      *)
LEMMA EnqueueImplementsAccept ==
  ASSUME DeliveryInv, NEW t \in Threads, SendEnqueue(t)
  PROVE  D!Next
<1>1. /\ pc[t] = "ready" /\ op[t] = "send" /\ mCanSend' = FALSE
  BY DEF SendEnqueue, Unlock, TakeSendable
<1>2. mCanSend
  BY <1>1 DEF DeliveryInv, SendInv, ReadyCanSend
<1>3. CASE Leaves
  BY <1>1, <1>2, <1>3 DEF Leaves, D!Next, D!Waste
<1>4. CASE /\ accepted' = Append(accepted, <<t, sends[t]>>)
           /\ QueuedMessages' = Append(QueuedMessages, <<t, sends[t]>>)
           /\ executed' = executed
  <2>1. Sending(t)
    BY <1>1 DEF Sending
  <2>2. t \in Senders /\ sends[t] \in 1..MaxSends
    BY <2>1 DEF DeliveryInv, CallsInv, SendsCounted, TypeOK
  <2>3. D!Newer(t, sends[t])
    BY <2>1 DEF D!Newer, DeliveryInv, CallsInv, AllBefore, AllAccounted
  <2>4. D!Accept(t, sends[t])
    BY <1>1, <1>2, <1>4, <2>3 DEF D!Accept
  <2> QED
    BY <2>2, <2>4 DEF D!Next
<1> QED
  BY <1>3, <1>4, EnqueueAccepts DEF DeliveryInv

(* Every step of the producer is a step of Delivery or leaves its          *)
(* variables alone.                                                        *)
LEMMA StepsImplementDelivery ==
  ASSUME DeliveryInv, [Next]_vars
  PROVE  [D!Next]_D!vars
<1>0. TypeOK
  BY DEF DeliveryInv
<1>1. CASE Leaves /\ mCanSend' = mCanSend
  BY <1>1 DEF Leaves, D!vars
<1>2. CASE Leaves /\ mCanSend' = TRUE
  BY <1>2 DEF Leaves, D!Next, D!Raise
<1>3. ASSUME NEW t \in Threads, SendEnqueue(t)
      PROVE  D!Next
  BY <1>3, EnqueueImplementsAccept
<1>4. CASE RunSend
  BY <1>0, <1>4, RunSendHands DEF D!Next, D!Hand
<1>5. CASE UNCHANGED vars
  <2>1. UNCHANGED <<workQueue, accepted, executed, mCanSend>>
    BY <1>5 DEF vars, endpoint, proton, own, history
  <2> QED
    BY <1>1, <2>1, SameQueue DEF Leaves
<1>6. CASE Next
  BY <1>0, <1>1, <1>2, <1>3, <1>4, <1>6, ThreadLeaves, ContainerLeaves DEF Next
<1> QED
  BY <1>5, <1>6

(* The producer implements Delivery: with any number of threads in send()  *)
(* and in close(), the mutex and the handlers that ignore it together make *)
(* send() an atomic "take the permit and queue the message".               *)
THEOREM ProducerImplementsDelivery == Spec => ImplementsDelivery
<1>1. Init => D!Init
  <2> SUFFICES ASSUME Init
               PROVE  D!Init
    OBVIOUS
  <2>1. workQueue = <<>> /\ executed = <<>> /\ mCanSend = FALSE
    BY DEF Init, EndpointInit
  <2>2. QueuedMessages = <<>>
    BY <2>1, MessagesTyped DEF QueuedMessages
  <2> QED
    BY <2>1, <2>2 DEF D!Init
<1>2. DeliveryInv /\ [Next]_vars => [D!Next]_D!vars
  BY StepsImplementDelivery
<1> QED
  BY <1>1, <1>2, DeliveryInvariant, PTL DEF Spec, ImplementsDelivery, D!Spec

=============================================================================
