------------------------ MODULE MessageProducerImpl ------------------------
(***************************************************************************)
(* cms::amqp::MessageProducerImpl: an Endpoint whose threads call send(),  *)
(* which waits for on_sendable to raise mCanSend and hands one message to  *)
(* the container's thread.                                                 *)
(***************************************************************************)
EXTENDS Endpoint

CONSTANTS
  Senders,     \* the threads that call send()
  MaxSends,    \* bound: calls of send() per thread
  MaxFlows,    \* bound: flow frames the broker sends
  MaxGrant     \* bound: credit granted by one flow frame

ASSUME ProducerAssumption ==
  /\ Senders \subseteq Threads
  /\ MaxSends \in Nat
  /\ MaxFlows \in Nat
  /\ MaxGrant \in Nat

VARIABLES
  mCanSend,
  sends,       \* calls of send() each thread has made
  credit,      \* pn_link_credit: granted and not yet used
  buffered,    \* messages given to the link and not yet on the wire
  flows,       \* flow frames received so far
  sendables,   \* history: calls of on_sendable
  accepted,    \* history: messages in the order send() enqueued them
  executed     \* history: messages in the order they reached the sender

flow    == <<credit, buffered, flows>>
history == <<sendables, accepted, executed>>
own     == <<mCanSend, sends, flow, history>>
vars    == <<endpoint, own>>

Messages == Threads \X Nat

(* The threads that wait on mCv, and those that wait on mSendable.         *)
CvWaiters       == {t \in Threads : op[t] # "send"}
SendableWaiters == {t \in Threads : op[t] = "send"}

Init ==
  /\ EndpointInit
  /\ mCanSend = FALSE
  /\ sends = [t \in Threads |-> 0]
  /\ credit = 0
  /\ buffered = 0
  /\ flows = 0
  /\ sendables = 0
  /\ accepted = <<>>
  /\ executed = <<>>

-----------------------------------------------------------------------------
(* send()                                                                  *)

(* The message is cloned before the lock is taken.                         *)
CallSend(t) ==
  /\ t \in Senders
  /\ sends[t] < MaxSends
  /\ Begin(t, "send", "sendLock")
  /\ Ends(t, "none")
  /\ sends' = [sends EXCEPT ![t] = @ + 1]
  /\ UNCHANGED <<mMutex, fields, life, fault, proton, mCanSend, flow, history>>

(* Under the lock the headers are set, for which createCMSDestination may  *)
(* throw, and mWorkQueue is tested, which throws when it is null.          *)
SendEnter(t) ==
  /\ mMutex = NoThread
  /\ \/ /\ mWorkQueue
        /\ Lock(t, "sendLock", "check")
        /\ UNCHANGED ret
     \/ /\ pc[t] = "sendLock"
        /\ Goto(t, "idle")
        /\ Ends(t, "CMSException")
        /\ UNCHANGED mMutex
  /\ UNCHANGED <<fields, op, life, fault, proton, own>>

(* Mutant of TakeSendable: the flag is left raised for the next sender.    *)
LeaveSendable == UNCHANGED mCanSend

(* mCanSend = false                                                        *)
TakeSendable == mCanSend' = FALSE

(* After the wait: mCanSend is cleared and mWorkQueue is dereferenced; the *)
(* wait released the mutex, so the pointer tested on entry may be null.    *)
SendEnqueue(t) ==
  /\ op[t] = "send"
  /\ Unlock(t, "ready", "idle")
  /\ TakeSendable
  /\ AddOrCrash(t, "send", sends[t])
  /\ accepted' = IF mWorkQueue THEN Append(accepted, <<t, sends[t]>>)
                               ELSE accepted
  /\ Ends(t, "returned")
  /\ UNCHANGED <<fields, op, life, container, link, drops, sends, flow,
                 sendables, executed>>

-----------------------------------------------------------------------------
(* The container's thread.                                                 *)

(* Mutant of RunSend: the lambda waits for credit of its own.              *)
RunSendWithCredit ==
  /\ credit > 0
  /\ Run("send")
  /\ executed' = Append(executed, <<Head(workQueue).by, Head(workQueue).n>>)
  /\ credit' = credit - 1
  /\ buffered' = buffered + 1
  /\ UNCHANGED <<container, link, mCanSend, sends, flows, sendables, accepted>>

(* The lambda of send(): a closed link takes the message nowhere.          *)
RunSend ==
  /\ Run("send")
  /\ executed' = Append(executed, <<Head(workQueue).by, Head(workQueue).n>>)
  /\ \/ /\ link \in {"attaching", "attached"}
        /\ credit' = credit - 1
        /\ buffered' = buffered + 1
     \/ /\ link \in {"closing", "closed"}
        /\ UNCHANGED <<credit, buffered>>
  /\ UNCHANGED <<container, link, mCanSend, sends, flows, sendables, accepted>>

(* on_sendable: Proton calls it when a flow event finds credit left.       *)
OnSendable(left) ==
  IF left > 0
  THEN /\ mCanSend' = TRUE
       /\ sendables' = sendables + 1
       /\ container' = "notifySendable"
  ELSE UNCHANGED <<mCanSend, sendables, container>>

(* Mutant of NotifySendable: on_sendable notifies the other variable.      *)
NotifyWrongCv == Notify("notifySendable", CvWaiters) /\ UNCHANGED own

(* mSendable.notify_one(), the last statement of on_sendable.              *)
NotifySendable == Notify("notifySendable", SendableWaiters) /\ UNCHANGED own

(* Mutant of NotifyCv: the handlers notify the other variable.             *)
NotifySendersOnly == Notify("notifyCv", SendableWaiters) /\ UNCHANGED own

(* mCv.notify_one(), the last statement of the other handlers.             *)
NotifyCv == Notify("notifyCv", CvWaiters) /\ UNCHANGED own

(* A flow frame of the broker; it may grant nothing new.                   *)
BrokerFlow(grant) ==
  /\ Handles
  /\ link = "attached"
  /\ flows < MaxFlows
  /\ flows' = flows + 1
  /\ credit' = credit + grant
  /\ OnSendable(credit + grant)
  /\ UNCHANGED <<threads, fields, calls, fault, workQueue, link, drops,
                 sends, buffered, accepted, executed>>

(* A buffered message goes out on credit of its own, which is a flow event *)
(* for the sender again.                                                   *)
Transmit ==
  /\ Handles
  /\ link = "attached"
  /\ buffered > 0
  /\ credit + buffered > 0
  /\ buffered' = buffered - 1
  /\ OnSendable(credit)
  /\ UNCHANGED <<threads, fields, calls, fault, workQueue, link, drops,
                 sends, credit, flows, accepted, executed>>

(* A link that attaches again has no credit.                               *)
Disconnect ==
  /\ Reconnect
  /\ credit' = 0
  /\ buffered' = 0
  /\ UNCHANGED <<mCanSend, sends, flows, history>>

-----------------------------------------------------------------------------
(* The Endpoint's part, which leaves the producer's own variables alone.   *)

constructor(t) == Construct(t) /\ UNCHANGED own

close(t) ==
  /\ CloseStep(t) \/ (op[t] # "send" /\ Return(t))
  /\ UNCHANGED own

(* Mutant of wait: send() waits for mState, as close() does.               *)
waitForState(t) ==
  /\ WaitStep(t, IF op[t] = "send" THEN mState # "UNNINITIALIZED"
                                   ELSE LinkPredicate(t))
  /\ UNCHANGED own

wait(t) ==
  /\ WaitStep(t, IF op[t] = "send" THEN mCanSend ELSE LinkPredicate(t))
  /\ UNCHANGED own

callClose(t) ==
  /\ \E what \in Closing : CallClose(t, what)
  /\ UNCHANGED own

on_sender_open == (OnOpen \/ OnOpenThrows) /\ UNCHANGED own

on_sender_close == OnClose /\ UNCHANGED own

(* Mutant of on_sender_closed: the state the consumer's detach sets.       *)
on_sender_detached ==
  /\ fault = "none"
  /\ container = "setClosed"
  /\ mState' = "DETATCHED"
  /\ container' = "notifyCv"
  /\ UNCHANGED <<threads, mWorkQueue, calls, fault, workQueue, link, drops,
                 own>>

on_sender_closed == OnCloseState /\ UNCHANGED own

-----------------------------------------------------------------------------
ThreadStep(t) ==
  /\ fault = "none"
  /\ \/ constructor(t)
     \/ SendEnter(t)
     \/ SendEnqueue(t)
     \/ close(t)
     \/ wait(t)

ThreadCall(t) ==
  /\ fault = "none"
  /\ \/ CallSend(t)
     \/ callClose(t)
     \/ Spurious(t) /\ UNCHANGED own

ContainerStep ==
  \/ (RunOpen \/ RunClose) /\ UNCHANGED own
  \/ RunSend
  \/ on_sender_closed
  \/ NotifyCv
  \/ NotifySendable

Environment ==
  \/ on_sender_open
  \/ on_sender_close
  \/ \E grant \in 0..MaxGrant : BrokerFlow(grant)
  \/ Transmit
  \/ Disconnect
  \/ TransportClose /\ UNCHANGED own

Next ==
  \/ \E t \in Threads : ThreadStep(t) \/ ThreadCall(t)
  \/ ContainerStep
  \/ Environment

Spec == Init /\ [][Next]_vars

(* A thread that can take a step of its operation takes it, and so does    *)
(* the container's thread.  Taking the mutex is strongly fair: a mutex     *)
(* that is released again and again is eventually handed to each thread    *)
(* waiting for it.  Nothing obliges the application to call, the broker to *)
(* answer or a sleeping thread to wake up by itself.                       *)
Fairness ==
  /\ \A t \in Threads : SF_vars(ThreadStep(t))
  /\ WF_vars(ContainerStep)

FairSpec == Spec /\ Fairness

-----------------------------------------------------------------------------
(* Properties.                                                             *)

Labels ==
  MonitorLabels \cup {"ctor", "idle", "sendLock", "closeQueue", "closeLock"}

(* The type invariant; unlike a consumer, a producer is never DETATCHED.   *)
TypeOK ==
  /\ mState \in ClientState \ {"DETATCHED"}
  /\ mWorkQueue \in BOOLEAN
  /\ mCanSend \in BOOLEAN
  /\ mMutex \in Threads \cup {NoThread}
  /\ pc \in [Threads -> Labels]
  /\ op \in [Threads -> {"none", "ctor", "send", "close", "dtor"}]
  /\ ret \in [Threads -> {"none", "returned", "CMSException"}]
  /\ sends \in [Threads -> Nat]
  /\ life \in Lives
  /\ fault \in Faults
  /\ workQueue \in Seq(Work)
  /\ container \in {"loop", "setClosed", "notifyCv", "notifySendable", "dead"}
  /\ link \in LinkStates \ {"detached"}
  /\ drops \in Nat
  /\ credit \in Int
  /\ buffered \in Nat
  /\ flows \in Nat
  /\ sendables \in Nat
  /\ accepted \in Seq(Messages)
  /\ executed \in Seq(Messages)

(* send() hands over at most one message per call of on_sendable, whatever *)
(* threads race for the flag and although on_sendable sets it without the  *)
(* mutex: the messages accepted, and the one that a raised mCanSend still  *)
(* allows, never outnumber the callbacks.                                  *)
OneMessagePerSendable ==
  Len(accepted) + (IF mCanSend THEN 1 ELSE 0) <= sendables

(* The messages among the lambdas of a queue, in the queue's order.        *)
MessagesOf(q) ==
  LET first[n \in 0..Len(q)] ==
        IF n = 0 THEN <<>>
        ELSE IF q[n].kind = "send" THEN Append(first[n - 1], <<q[n].by, q[n].n>>)
        ELSE first[n - 1]
  IN  first[Len(q)]

(* The messages queued for the container's thread.                         *)
QueuedMessages == MessagesOf(workQueue)

(* What send() accepted reaches the sender once and in the order of        *)
(* acceptance, and for each thread that is the order of its calls, across  *)
(* reconnects, a racing close() and the end of the container.              *)
AcceptedInOrder ==
  /\ accepted = executed \o QueuedMessages
  /\ \A i, j \in DOMAIN accepted :
       i < j /\ accepted[i][1] = accepted[j][1]
         => accepted[i][2] < accepted[j][2]

(* on_sendable has raised mCanSend and finds the only sender asleep in     *)
(* send(): its message is accepted, or the null dereference that a         *)
(* concurrent close leaves behind ends the process.                        *)
SleepingSenderReturns ==
  \A t \in Threads :
    (/\ pc[t] = "blocked"
     /\ op[t] = "send"
     /\ mCanSend
     /\ container = "notifySendable")
      ~> (pc[t] = "idle" \/ fault # "none")

(* The abstract producer this one implements.                              *)
D == INSTANCE Delivery WITH
       Numbers <- 1..MaxSends,
       permit <- mCanSend,
       queue <- QueuedMessages,
       delivered <- executed

(* Every step of the threads, the handlers and the environment is a step   *)
(* of Delivery or leaves its variables alone: send() never accepts without *)
(* mCanSend, although on_sendable sets it and on_sender_close clears the   *)
(* queue pointer without the mutex; nothing is accepted twice, overtaken   *)
(* or taken back.                                                          *)
ImplementsDelivery == D!Spec

(* What send() accepted reaches the sender: the lambda waits neither for   *)
(* credit nor for a link, and only the end of the container or of the      *)
(* process strands it.                                                     *)
AcceptedIsExecuted ==
  (QueuedMessages # <<>>)
      ~> (QueuedMessages = <<>> \/ container = "dead" \/ fault # "none")

=============================================================================
