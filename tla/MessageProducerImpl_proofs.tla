--------------------- MODULE MessageProducerImpl_proofs ---------------------
(***************************************************************************)
(* Theorems about MessageProducerImpl, for every number of threads and     *)
(* every bound.                                                            *)
(***************************************************************************)
EXTENDS MessageProducerImpl, Endpoint_proofs

-----------------------------------------------------------------------------
(* Type correctness.                                                       *)

(* A thread goes to a label.                                               *)
LEMMA GotoKeepsLabels ==
  ASSUME pc \in [Threads -> Labels], NEW t \in Threads, NEW l \in Labels, Goto(t, l)
  PROVE  pc' \in [Threads -> Labels]
BY DEF Goto

(* The steps of the application's threads keep the types.                  *)
LEMMA ThreadKeepsTypes ==
  ASSUME TypeOK, NEW t \in Threads, ThreadStep(t) \/ ThreadCall(t)
  PROVE  TypeOK'
<1> USE DEF TypeOK
<1>0. /\ MonitorLabels \subseteq Labels
      /\ {"ctor", "idle", "sendLock", "closeQueue", "closeLock"} \subseteq Labels
  BY DEF Labels
<1>1. CASE constructor(t)
  <2>1. workQueue' \in Seq(Work)
    BY <1>1, AddAppends DEF constructor, Construct, Kinds
  <2>2. pc' \in [Threads -> Labels]
    BY <1>0, <1>1, GotoKeepsLabels DEF constructor, Construct, Lock, MonitorLabels
  <2> QED
    BY <1>1, <2>1, <2>2 DEF constructor, Construct, Lock, own, flow, history, fields, Ends,
                       Lives
<1>2. CASE SendEnter(t)
  <2>1. pc' \in [Threads -> Labels]
    BY <1>0, <1>2, GotoKeepsLabels DEF SendEnter, Lock, MonitorLabels
  <2> QED
    BY <1>2, <2>1 DEF SendEnter, Lock, Ends, own, flow, history, fields, proton
<1>3. CASE SendEnqueue(t)
  <2>1. workQueue' \in Seq(Work)
    <3>1. sends[t] \in Nat /\ "send" \in Kinds
      BY DEF Kinds
    <3> QED
      BY <1>3, <3>1, AddAppends DEF SendEnqueue, AddOrCrash
  <2>2. pc' \in [Threads -> Labels]
    BY <1>0, <1>3, GotoKeepsLabels DEF SendEnqueue, Unlock
  <2>3. accepted' \in Seq(Messages)
    BY <1>3 DEF SendEnqueue, Messages
  <2>4. ret' \in [Threads -> {"none", "returned", "CMSException"}] /\ fault' \in Faults
    BY <1>3 DEF SendEnqueue, Ends, AddOrCrash, Faults
  <2>5. /\ mMutex' = NoThread /\ mCanSend' = FALSE
        /\ UNCHANGED <<fields, op, life, container, link, drops, sends, flow, sendables,
                       executed>>
    BY <1>3 DEF SendEnqueue, Unlock, TakeSendable
  <2> QED
    BY <2>1, <2>2, <2>3, <2>4, <2>5 DEF fields, flow
<1>4. CASE close(t)
  <2>0. UNCHANGED own
    BY <1>4 DEF close
  <2>1. CASE TestQueue(t, "closeQueue", "closeLock")
    <3>1. pc' \in [Threads -> Labels]
      BY <1>0, <2>1, GotoKeepsLabels DEF TestQueue
    <3>2. ret' \in [Threads -> {"none", "returned", "CMSException"}] /\ fault' \in Faults
      BY <2>1 DEF TestQueue, Ends, Faults
    <3>3. UNCHANGED <<mMutex, fields, op, life, proton>>
      BY <2>1 DEF TestQueue
    <3> QED
      BY <2>0, <3>1, <3>2, <3>3 DEF fields, proton, own, flow, history
  <2>2. CASE LockAndAdd(t, "closeLock", "close")
    <3>1. workQueue' \in Seq(Work)
      BY <2>2, AddAppends DEF LockAndAdd, AddOrCrash, Kinds
    <3>2. pc' \in [Threads -> Labels]
      BY <1>0, <2>2, GotoKeepsLabels DEF LockAndAdd, Lock, MonitorLabels
    <3>3. fault' \in Faults /\ mMutex' = t /\ UNCHANGED <<fields, calls, container, link, drops>>
      BY <2>2 DEF LockAndAdd, Lock, AddOrCrash, Faults
    <3> QED
      BY <2>0, <3>1, <3>2, <3>3 DEF fields, calls, own, flow, history
  <2>3. CASE Return(t)
    <3>1. pc' \in [Threads -> Labels]
      BY <1>0, <2>3, GotoKeepsLabels DEF Return, Unlock
    <3>2. life' \in {"alive", "destroyed", life}
      BY <2>3 DEF Return
    <3> QED
      BY <2>0, <2>3, <3>1, <3>2 DEF Return, Unlock, Ends, Lives, fields, proton, own, flow, history
  <2> QED
    BY <1>4, <2>1, <2>2, <2>3 DEF close, CloseStep
<1>5. CASE wait(t)
  <2>1. pc' \in [Threads -> Labels] /\ mMutex' \in Threads \cup {NoThread}
    BY <1>0, <1>5, GotoKeepsLabels DEF wait, WaitStep, WaitCheck, WaitBlock, WaitRelock,
                                       Lock, Unlock, MonitorLabels
  <2> QED
    BY <1>5, <2>1 DEF wait, WaitStep, fields, calls, proton, own, flow, history
<1>6. CASE CallSend(t)
  <2>1. pc' \in [Threads -> Labels]
    BY <1>0, <1>6, GotoKeepsLabels DEF CallSend, Begin
  <2>2. /\ op' \in [Threads -> {"none", "ctor", "send", "close", "dtor"}]
        /\ ret' \in [Threads -> {"none", "returned", "CMSException"}]
        /\ sends' \in [Threads -> Nat]
    BY <1>6 DEF CallSend, Begin, Ends
  <2>3. UNCHANGED <<mMutex, fields, life, fault, proton, mCanSend, flow, history>>
    BY <1>6 DEF CallSend
  <2> QED
    BY <2>1, <2>2, <2>3 DEF fields, proton, flow, history
<1>7. CASE callClose(t)
  <2>1. PICK what \in Closing : CallClose(t, what)
    BY <1>7 DEF callClose
  <2>2. pc' \in [Threads -> Labels]
    BY <1>0, <2>1, GotoKeepsLabels DEF CallClose, Begin
  <2>3. /\ op' \in [Threads -> {"none", "ctor", "send", "close", "dtor"}]
        /\ ret' \in [Threads -> {"none", "returned", "CMSException"}]
    BY <2>1 DEF CallClose, Begin, Ends, Closing
  <2>4. life' \in Lives /\ UNCHANGED <<mMutex, fields, fault, proton>>
    BY <2>1 DEF CallClose, Lives
  <2> QED
    BY <1>7, <2>2, <2>3, <2>4 DEF callClose, fields, proton, own, flow, history
<1>8. CASE Spurious(t) /\ UNCHANGED own
  <2>1. pc' \in [Threads -> Labels]
    BY <1>0, <1>8, GotoKeepsLabels DEF Spurious, SpuriousWakeup, MonitorLabels
  <2> QED
    BY <1>8, <2>1 DEF Spurious, SpuriousWakeup, fields, calls, proton, own, flow, history
<1> QED
  BY <1>1, <1>2, <1>3, <1>4, <1>5, <1>6, <1>7, <1>8 DEF ThreadStep, ThreadCall

(* notify_one keeps the types, whoever waits.                              *)
LEMMA NotifyKeepsTypes ==
  ASSUME TypeOK, NEW at, NEW waiters \in SUBSET Threads, Notify(at, waiters), UNCHANGED own
  PROVE  TypeOK'
<1> USE DEF TypeOK
<1>1. pc' \in [Threads -> Labels]
  <2>1. "relock" \in Labels
    BY DEF Labels, MonitorLabels
  <2> QED
    BY <2>1, GotoKeepsLabels DEF Notify, NotifyOne
<1>2. /\ mMutex' = mMutex /\ container' = "loop" /\ fault' \in Faults
      /\ UNCHANGED <<fields, calls, workQueue, link, drops>>
  BY DEF Notify, NotifyOne, Faults
<1> QED
  BY <1>1, <1>2 DEF fields, calls, own, flow, history

(* on_sendable keeps the types of what it writes.                          *)
LEMMA SendableTypes ==
  ASSUME mCanSend \in BOOLEAN, sendables \in Nat, NEW left, OnSendable(left),
         container \in {"loop", "setClosed", "notifyCv", "notifySendable", "dead"}
  PROVE  /\ mCanSend' \in BOOLEAN
         /\ sendables' \in Nat
         /\ container' \in {"loop", "setClosed", "notifyCv", "notifySendable", "dead"}
<1>1. CASE left > 0
  BY <1>1 DEF OnSendable
<1>2. CASE ~(left > 0)
  BY <1>2 DEF OnSendable
<1> QED
  BY <1>1, <1>2

(* So do the lambdas and the handlers.                                     *)
LEMMA ContainerKeepsTypes ==
  ASSUME TypeOK, ContainerStep \/ Environment
  PROVE  TypeOK'
<1>5. CASE NotifyCv
  <2>1. CvWaiters \in SUBSET Threads
    BY DEF CvWaiters
  <2> QED
    BY <1>5, <2>1, NotifyKeepsTypes DEF NotifyCv
<1>6. CASE NotifySendable
  <2>1. SendableWaiters \in SUBSET Threads
    BY DEF SendableWaiters
  <2> QED
    BY <1>6, <2>1, NotifyKeepsTypes DEF NotifySendable
<1> USE DEF TypeOK, own, flow, history, threads, fields, calls, ClientState, Faults, LinkStates
<1>1. CASE RunOpen /\ UNCHANGED own
  BY <1>1 DEF RunOpen, Run, Handles
<1>2. CASE RunClose /\ UNCHANGED own
  BY <1>2 DEF RunClose, Run, Handles
<1>3. CASE RunSend
  <2>1. Head(workQueue) \in Work /\ workQueue' \in Seq(Work)
    BY <1>3 DEF RunSend, Run
  <2>2. executed' \in Seq(Messages)
    BY <1>3, <2>1 DEF RunSend, Messages, Work
  <2> QED
    BY <1>3, <2>1, <2>2 DEF RunSend, Run, Handles
<1>4. CASE on_sender_closed
  BY <1>4 DEF on_sender_closed, OnCloseState
<1>7. CASE on_sender_open
  BY <1>7 DEF on_sender_open, OnOpen, OnOpenThrows
<1>8. CASE on_sender_close
  BY <1>8 DEF on_sender_close, OnClose
<1>9. ASSUME NEW grant \in 0..MaxGrant, BrokerFlow(grant)
      PROVE  TypeOK'
  <2>1. /\ mCanSend' \in BOOLEAN /\ sendables' \in Nat
        /\ container' \in {"loop", "setClosed", "notifyCv", "notifySendable", "dead"}
    BY <1>9, SendableTypes DEF BrokerFlow
  <2>2. credit' \in Int /\ flows' \in Nat
    BY <1>9, ProducerAssumption DEF BrokerFlow
  <2>3. UNCHANGED <<threads, fields, calls, fault, workQueue, link, drops, sends, buffered,
                    accepted, executed>>
    BY <1>9 DEF BrokerFlow
  <2> QED
    BY <2>1, <2>2, <2>3
<1>10. CASE Transmit
  <2>1. /\ mCanSend' \in BOOLEAN /\ sendables' \in Nat
        /\ container' \in {"loop", "setClosed", "notifyCv", "notifySendable", "dead"}
    BY <1>10, SendableTypes DEF Transmit
  <2>2. buffered' \in Nat
    BY <1>10 DEF Transmit
  <2>3. UNCHANGED <<threads, fields, calls, fault, workQueue, link, drops, sends, credit,
                    flows, accepted, executed>>
    BY <1>10 DEF Transmit
  <2> QED
    BY <2>1, <2>2, <2>3
<1>11. CASE Disconnect
  BY <1>11 DEF Disconnect, Reconnect
<1>12. CASE TransportClose /\ UNCHANGED own
  BY <1>12 DEF TransportClose
<1> QED
  BY <1>1, <1>2, <1>3, <1>4, <1>5, <1>6, <1>7, <1>8, <1>9, <1>10, <1>11, <1>12
     DEF ContainerStep, Environment

(* Every variable keeps its type, and a producer is never DETATCHED.       *)
THEOREM TypeCorrect == Spec => []TypeOK
<1>1. Init => TypeOK
  <2> SUFFICES ASSUME Init PROVE TypeOK
    OBVIOUS
  <2>1. pc \in [Threads -> Labels]
    BY DEF Init, EndpointInit, Labels
  <2>2. /\ op \in [Threads -> {"none", "ctor", "send", "close", "dtor"}]
        /\ ret \in [Threads -> {"none", "returned", "CMSException"}]
        /\ sends \in [Threads -> Nat]
    BY DEF Init, EndpointInit
  <2>3. workQueue \in Seq(Work) /\ accepted \in Seq(Messages) /\ executed \in Seq(Messages)
    BY DEF Init, EndpointInit
  <2>4. /\ mState \in ClientState \ {"DETATCHED"}
        /\ mMutex \in Threads \cup {NoThread}
        /\ life \in Lives /\ fault \in Faults
        /\ container \in {"loop", "setClosed", "notifyCv", "notifySendable", "dead"}
        /\ link \in LinkStates \ {"detached"}
    BY DEF Init, EndpointInit, ClientState, Lives, Faults, LinkStates
  <2>5. mWorkQueue \in BOOLEAN /\ mCanSend \in BOOLEAN
    BY DEF Init, EndpointInit
  <2>6. /\ drops \in Nat /\ credit \in Int /\ buffered \in Nat
        /\ flows \in Nat /\ sendables \in Nat
    BY DEF Init, EndpointInit
  <2> QED
    BY <2>1, <2>2, <2>3, <2>4, <2>5, <2>6 DEF TypeOK
<1>2. TypeOK /\ [Next]_vars => TypeOK'
  <2> SUFFICES ASSUME TypeOK, [Next]_vars
               PROVE  TypeOK'
    OBVIOUS
  <2>1. CASE Next
    BY <2>1, ThreadKeepsTypes, ContainerKeepsTypes DEF Next
  <2>2. CASE UNCHANGED vars
    BY <2>2 DEF TypeOK, vars, endpoint, threads, fields, calls, proton, own, flow,
                history
  <2> QED
    BY <2>1, <2>2
<1> QED
  BY <1>1, <1>2, PTL DEF Spec

-----------------------------------------------------------------------------
(* One message per call of on_sendable.  The invariant is not inductive:   *)
(* SendEnqueue appends a message without a look at mCanSend.  It may,      *)
(* because the thread saw the flag raised with the mutex held, and only    *)
(* a thread that holds the mutex lowers it.                                *)

(* At these labels a thread owns the mutex.                                *)
MutexHeld == \A t \in Threads : pc[t] \in HoldsLabels => mMutex = t

(* A sender that passed its wait still finds the flag raised.              *)
ReadyCanSend == \A t \in Threads : pc[t] = "ready" /\ op[t] = "send" => mCanSend

SendInv == TypeOK /\ MutexHeld /\ ReadyCanSend /\ OneMessagePerSendable

(* A step that leaves the mutex, the flag and the history alone and brings *)
(* no thread to a label that holds the mutex.                              *)
LEMMA SendInvMove ==
  ASSUME SendInv, TypeOK', NEW t \in Threads, NEW l \in Labels \ HoldsLabels,
         Goto(t, l) \/ UNCHANGED pc,
         op' = op \/ pc[t] # "ready", \A u \in Threads : u # t => op'[u] = op[u],
         UNCHANGED <<mMutex, mCanSend, sendables, accepted>>
  PROVE  SendInv'
<1> USE DEF SendInv, TypeOK
<1>1. MutexHeld'
  BY DEF MutexHeld, Goto
<1>2. ReadyCanSend'
  BY DEF ReadyCanSend, Goto, HoldsLabels
<1>3. OneMessagePerSendable'
  BY DEF OneMessagePerSendable
<1> QED
  BY <1>1, <1>2, <1>3

(* Taking the free mutex.                                                  *)
LEMMA SendInvLock ==
  ASSUME SendInv, TypeOK', NEW t \in Threads, NEW from,
         Lock(t, from, "check"), UNCHANGED <<op, mCanSend, sendables, accepted>>
  PROVE  SendInv'
<1> USE DEF SendInv, TypeOK, Lock, Goto
<1>1. MutexHeld'
  BY NoThreadAssumption DEF MutexHeld
<1>2. ReadyCanSend'
  BY DEF ReadyCanSend
<1>3. OneMessagePerSendable'
  BY DEF OneMessagePerSendable
<1> QED
  BY <1>1, <1>2, <1>3

(* Releasing it.                                                           *)
LEMMA SendInvUnlock ==
  ASSUME SendInv, TypeOK', NEW t \in Threads, NEW from \in HoldsLabels,
         NEW to \in Labels \ HoldsLabels,
         Unlock(t, from, to), UNCHANGED <<op, mCanSend, sendables, accepted>>
  PROVE  SendInv'
<1> USE DEF SendInv, TypeOK, Unlock, Goto
<1>1. MutexHeld'
  BY DEF MutexHeld
<1>2. ReadyCanSend'
  BY DEF ReadyCanSend, HoldsLabels
<1>3. OneMessagePerSendable'
  BY DEF OneMessagePerSendable
<1> QED
  BY <1>1, <1>2, <1>3

(* The wait of send() reads the flag with the mutex held.                  *)
LEMMA SendInvCheck ==
  ASSUME SendInv, TypeOK', NEW t \in Threads, NEW predicate,
         op[t] = "send" /\ predicate => mCanSend,
         WaitCheck(t, predicate), UNCHANGED <<op, mCanSend, sendables, accepted>>
  PROVE  SendInv'
<1> USE DEF SendInv, TypeOK, WaitCheck, Goto
<1>1. MutexHeld'
  BY DEF MutexHeld, HoldsLabels
<1>2. ReadyCanSend'
  BY DEF ReadyCanSend
<1>3. OneMessagePerSendable'
  BY DEF OneMessagePerSendable
<1> QED
  BY <1>1, <1>2, <1>3

(* The message is enqueued and the flag lowered, in one hold of the mutex: *)
(* no other thread is past its wait.                                       *)
LEMMA SendInvEnqueue ==
  ASSUME SendInv, TypeOK', NEW t \in Threads, SendEnqueue(t)
  PROVE  SendInv'
<1> USE DEF SendInv, TypeOK, SendEnqueue, Unlock, Goto, TakeSendable
<1>1. MutexHeld'
  BY DEF MutexHeld, HoldsLabels
<1>2. \A u \in Threads : u # t => pc[u] # "ready"
  BY DEF MutexHeld, HoldsLabels
<1>3. ReadyCanSend'
  BY <1>2 DEF ReadyCanSend
<1>4. mCanSend
  BY DEF ReadyCanSend
<1>5. Len(accepted') <= Len(accepted) + 1
  BY DEF Messages
<1>6. OneMessagePerSendable'
  BY <1>4, <1>5 DEF OneMessagePerSendable
<1> QED
  BY <1>1, <1>3, <1>6

(* on_sendable raises the flag and is counted.                             *)
LEMMA SendInvSendable ==
  ASSUME SendInv, TypeOK', NEW left, OnSendable(left),
         UNCHANGED <<mMutex, pc, op, accepted>>
  PROVE  SendInv'
<1> USE DEF SendInv, TypeOK, OnSendable
<1>1. MutexHeld'
  BY DEF MutexHeld
<1>2. ReadyCanSend'
  BY DEF ReadyCanSend
<1>3. OneMessagePerSendable'
  <2>1. CASE left > 0
    BY <2>1 DEF OneMessagePerSendable
  <2>2. CASE ~(left > 0)
    BY <2>2 DEF OneMessagePerSendable
  <2> QED
    BY <2>1, <2>2
<1> QED
  BY <1>1, <1>2, <1>3

(* Every step of a thread preserves the strengthened invariant.            *)
LEMMA SendInvThread ==
  ASSUME SendInv, TypeOK', NEW t \in Threads, ThreadStep(t) \/ ThreadCall(t)
  PROVE  SendInv'
<1>0. {"idle", "sendLock", "closeQueue", "closeLock", "blocked", "relock"}
        \subseteq Labels \ HoldsLabels
  BY DEF Labels, MonitorLabels, HoldsLabels
<1>1. CASE constructor(t)
  <2>1. UNCHANGED <<op, mCanSend, sendables, accepted>>
    BY <1>1 DEF constructor, Construct, own, history
  <2>2. CASE Lock(t, "ctor", "check")
    BY <2>1, <2>2, SendInvLock
  <2>3. CASE Goto(t, "idle") /\ UNCHANGED mMutex
    BY <1>0, <2>1, <2>3, SendInvMove
  <2> QED
    BY <1>1, <2>2, <2>3 DEF constructor, Construct
<1>2. CASE SendEnter(t)
  <2>1. UNCHANGED <<op, mCanSend, sendables, accepted>>
    BY <1>2 DEF SendEnter, own, history
  <2>2. CASE Lock(t, "sendLock", "check")
    BY <2>1, <2>2, SendInvLock
  <2>3. CASE Goto(t, "idle") /\ UNCHANGED mMutex
    BY <1>0, <2>1, <2>3, SendInvMove
  <2> QED
    BY <1>2, <2>2, <2>3 DEF SendEnter
<1>3. CASE SendEnqueue(t)
  BY <1>3, SendInvEnqueue
<1>4. CASE close(t)
  <2>1. UNCHANGED <<op, mCanSend, sendables, accepted>>
    BY <1>4 DEF close, CloseStep, TestQueue, LockAndAdd, Return, calls, own, history
  <2>2. CASE TestQueue(t, "closeQueue", "closeLock")
    <3>1. Goto(t, "closeLock") \/ Goto(t, "idle")
      BY <2>2 DEF TestQueue
    <3>2. UNCHANGED mMutex
      BY <2>2 DEF TestQueue
    <3> QED
      BY <1>0, <2>1, <3>1, <3>2, SendInvMove
  <2>3. CASE LockAndAdd(t, "closeLock", "close")
    <3>1. Lock(t, "closeLock", "check")
      BY <2>3 DEF LockAndAdd
    <3> QED
      BY <2>1, <3>1, SendInvLock
  <2>4. CASE Return(t)
    <3>1. Unlock(t, "ready", "idle") /\ "ready" \in HoldsLabels
      BY <2>4 DEF Return, HoldsLabels
    <3> QED
      BY <1>0, <2>1, <3>1, SendInvUnlock
  <2> QED
    BY <1>4, <2>2, <2>3, <2>4 DEF close, CloseStep
<1>5. CASE wait(t)
  <2>1. UNCHANGED <<op, mCanSend, sendables, accepted>>
    BY <1>5 DEF wait, WaitStep, calls, own, history
  <2> DEFINE predicate == IF op[t] = "send" THEN mCanSend ELSE LinkPredicate(t)
  <2>2. CASE WaitCheck(t, predicate)
    BY <2>1, <2>2, SendInvCheck
  <2>3. CASE WaitBlock(t)
    <3>1. Unlock(t, "block", "blocked") /\ "block" \in HoldsLabels
      BY <2>3 DEF WaitBlock, HoldsLabels
    <3> QED
      BY <1>0, <2>1, <3>1, SendInvUnlock
  <2>4. CASE WaitRelock(t)
    BY <2>1, <2>4, SendInvLock DEF WaitRelock
  <2> QED
    BY <1>5, <2>2, <2>3, <2>4 DEF wait, WaitStep
<1>6. CASE CallSend(t)
  <2>1. /\ Goto(t, "sendLock") /\ pc[t] # "ready"
        /\ \A u \in Threads : u # t => op'[u] = op[u]
    BY <1>6 DEF CallSend, Begin, SendInv, TypeOK
  <2>2. UNCHANGED <<mMutex, mCanSend, sendables, accepted>>
    BY <1>6 DEF CallSend, history
  <2> QED
    BY <1>0, <2>1, <2>2, SendInvMove
<1>7. CASE callClose(t)
  <2>1. /\ Goto(t, "idle") \/ Goto(t, "closeQueue")
        /\ pc[t] # "ready"
        /\ \A u \in Threads : u # t => op'[u] = op[u]
    BY <1>7 DEF callClose, CallClose, Begin, SendInv, TypeOK
  <2>2. UNCHANGED <<mMutex, mCanSend, sendables, accepted>>
    BY <1>7 DEF callClose, CallClose, own, history
  <2> QED
    BY <1>0, <2>1, <2>2, SendInvMove
<1>8. CASE Spurious(t) /\ UNCHANGED own
  <2>1. Goto(t, "relock") /\ UNCHANGED <<mMutex, op, mCanSend, sendables, accepted>>
    BY <1>8 DEF Spurious, SpuriousWakeup, calls, own, history
  <2> QED
    BY <1>0, <2>1, SendInvMove
<1> QED
  BY <1>1, <1>2, <1>3, <1>4, <1>5, <1>6, <1>7, <1>8 DEF ThreadStep, ThreadCall

(* A step of the container's thread that touches neither mutex nor flag.   *)
LEMMA SendInvIdle ==
  ASSUME SendInv, TypeOK', UNCHANGED <<mMutex, pc, op, mCanSend, sendables, accepted>>
  PROVE  SendInv'
BY DEF SendInv, TypeOK, MutexHeld, ReadyCanSend, OneMessagePerSendable

(* notify_one brings a sleeping thread to "relock".                        *)
LEMMA SendInvNotify ==
  ASSUME SendInv, TypeOK', NEW at, NEW waiters \in SUBSET Threads, Notify(at, waiters),
         UNCHANGED own
  PROVE  SendInv'
<1>1. UNCHANGED <<mMutex, op, mCanSend, sendables, accepted>>
  BY DEF Notify, NotifyOne, calls, own, history
<1>2. CASE UNCHANGED pc
  BY <1>1, <1>2, SendInvIdle
<1>3. ASSUME NEW t \in waiters, Goto(t, "relock")
      PROVE  SendInv'
  <2>1. "relock" \in Labels \ HoldsLabels
    BY DEF Labels, MonitorLabels, HoldsLabels
  <2> QED
    BY <1>1, <1>3, <2>1, SendInvMove
<1> QED
  BY <1>2, <1>3 DEF Notify, NotifyOne

(* So does every lambda and every handler.                                 *)
LEMMA SendInvContainer ==
  ASSUME SendInv, TypeOK', ContainerStep \/ Environment
  PROVE  SendInv'
<1>1. CASE NotifyCv
  BY <1>1, SendInvNotify DEF NotifyCv, CvWaiters
<1>2. CASE NotifySendable
  BY <1>2, SendInvNotify DEF NotifySendable, SendableWaiters
<1>3. ASSUME NEW grant \in 0..MaxGrant, BrokerFlow(grant)
      PROVE  SendInv'
  BY <1>3, SendInvSendable DEF BrokerFlow, threads, calls
<1>4. CASE Transmit
  BY <1>4, SendInvSendable DEF Transmit, threads, calls
<1>5. CASE (RunOpen \/ RunClose) /\ UNCHANGED own
  BY <1>5, SendInvIdle DEF RunOpen, RunClose, Run, threads, calls, own, history
<1>6. CASE RunSend
  BY <1>6, SendInvIdle DEF RunSend, Run, threads, calls
<1>7. CASE on_sender_closed \/ on_sender_close \/ on_sender_open
  BY <1>7, SendInvIdle
     DEF on_sender_closed, on_sender_close, on_sender_open, OnCloseState, OnClose, OnOpen,
         OnOpenThrows, threads, calls, own, history
<1>8. CASE Disconnect \/ (TransportClose /\ UNCHANGED own)
  BY <1>8, SendInvIdle
     DEF Disconnect, Reconnect, TransportClose, threads, calls, own, history
<1> QED
  BY <1>1, <1>2, <1>3, <1>4, <1>5, <1>6, <1>7, <1>8 DEF ContainerStep, Environment

(* send() hands over at most one message per call of on_sendable, whatever *)
(* the number of sending threads.                                          *)
THEOREM OneMessagePerSendableHolds == Spec => []OneMessagePerSendable
<1>1. Init /\ TypeOK => SendInv
  BY DEF Init, EndpointInit, SendInv, TypeOK, MutexHeld, HoldsLabels, ReadyCanSend,
         OneMessagePerSendable
<1>2. SendInv /\ TypeOK' /\ [Next]_vars => SendInv'
  <2> SUFFICES ASSUME SendInv, TypeOK', [Next]_vars
               PROVE  SendInv'
    OBVIOUS
  <2>1. CASE Next
    BY <2>1, SendInvThread, SendInvContainer DEF Next
  <2>2. CASE UNCHANGED vars
    BY <2>2, SendInvIdle DEF vars, endpoint, threads, calls, own, history
  <2> QED
    BY <2>1, <2>2
<1>3. SendInv => OneMessagePerSendable
  BY DEF SendInv
<1> QED
  BY <1>1, <1>2, <1>3, TypeCorrect, PTL DEF Spec

-----------------------------------------------------------------------------
(* close() and the link: the producer's steps as steps of an Endpoint.     *)

(* Every step of a thread preserves the Endpoint's invariant.              *)
LEMMA EndpointInvThread ==
  ASSUME TypeOK, EndpointInv, NEW t \in Threads, ThreadStep(t) \/ ThreadCall(t)
  PROVE  EndpointInv'
<1>1. CASE constructor(t)
  BY <1>1, ConstructStep DEF constructor
<1>2. CASE SendEnter(t)
  <2>1. /\ pc[t] = "sendLock"
        /\ UNCHANGED <<mState, mWorkQueue, op, life, workQueue, container, link>>
    BY <1>2 DEF SendEnter, Lock, fields, proton
  <2>2. CASE Goto(t, "check") /\ ret' = ret
    BY <2>1, <2>2, ThreadMoves
  <2>3. CASE Goto(t, "idle") /\ Ends(t, "CMSException")
    BY <2>1, <2>3, ThreadMoves
  <2> QED
    BY <1>2, <2>2, <2>3 DEF SendEnter, Lock
<1>3. CASE SendEnqueue(t)
  <2>1. /\ pc[t] = "ready" /\ Goto(t, "idle")
        /\ AddOrCrash(t, "send", sends[t])
        /\ Ends(t, "returned")
        /\ UNCHANGED <<fields, op, life, container, link>>
    BY <1>3 DEF SendEnqueue, Unlock
  <2>2. op[t] \notin Closing /\ sends[t] \in Nat /\ "send" \in Kinds
    BY <1>3 DEF SendEnqueue, Closing, Kinds, TypeOK
  <2> QED
    BY <2>1, <2>2, AddStep
<1>4. CASE close(t)
  BY <1>4, CloseStepStep, ReturnStep DEF close
<1>5. CASE wait(t)
  <2> DEFINE predicate == IF op[t] = "send" THEN mCanSend ELSE LinkPredicate(t)
  <2>1. op[t] \in Closing /\ predicate => mState = "CLOSED"
    BY DEF Closing, LinkPredicate
  <2>2. WaitStep(t, predicate)
    BY <1>5 DEF wait
  <2> HIDE DEF predicate
  <2> QED
    BY <2>1, <2>2, WaitStepStep
<1>6. CASE CallSend(t)
  <2>1. Begin(t, "send", "sendLock") /\ Ends(t, "none") /\ UNCHANGED <<fields, life, proton>>
    BY <1>6 DEF CallSend
  <2> QED
    BY <2>1, CallStep DEF Closing
<1>7. CASE callClose(t)
  BY <1>7, CallCloseStep DEF callClose
<1>8. CASE Spurious(t) /\ UNCHANGED own
  BY <1>8, SpuriousStep
<1> QED
  BY <1>1, <1>2, <1>3, <1>4, <1>5, <1>6, <1>7, <1>8 DEF ThreadStep, ThreadCall

(* So does every lambda and every handler.                                 *)
LEMMA EndpointInvContainer ==
  ASSUME EndpointInv, ContainerStep \/ Environment
  PROVE  EndpointInv'
<1>1. CASE NotifyCv
  BY <1>1, NotifyStep DEF NotifyCv, CvWaiters
<1>2. CASE NotifySendable
  BY <1>2, NotifyStep DEF NotifySendable, SendableWaiters
<1>3. ASSUME NEW grant \in 0..MaxGrant, BrokerFlow(grant)
      PROVE  EndpointInv'
  BY <1>3, HandlerStep DEF BrokerFlow, OnSendable, Handles, threads, fields, calls
<1>4. CASE Transmit
  BY <1>4, HandlerStep DEF Transmit, OnSendable, Handles, threads, fields, calls
<1>5. CASE (RunOpen \/ RunClose) /\ UNCHANGED own
  BY <1>5, RunOpenStep, RunCloseStep
<1>6. CASE RunSend
  <2>1. Run("send") /\ link' = link /\ container' = container /\ container = "loop"
    BY <1>6 DEF RunSend, Run, Handles
  <2> QED
    BY <2>1, RunStep
<1>7. CASE on_sender_closed \/ on_sender_close
  BY <1>7, OnCloseStep DEF on_sender_closed, on_sender_close
<1>8. CASE on_sender_open
  BY <1>8, OnOpenStep DEF on_sender_open
<1>9. CASE Disconnect \/ (TransportClose /\ UNCHANGED own)
  BY <1>9, ReconnectStep, TransportCloseStep DEF Disconnect
<1> QED
  BY <1>1, <1>2, <1>3, <1>4, <1>5, <1>6, <1>7, <1>8, <1>9 DEF ContainerStep, Environment

(* A close() of the producer that returned normally means that the peer    *)
(* confirmed it and that neither the link nor the work queue comes back.   *)
THEOREM ClosedProducerStaysClosed == Spec => []ReturnedCloseIsClosed
<1>1. Init => EndpointInv
  BY EndpointInitial DEF Init
<1>2. TypeOK /\ EndpointInv /\ [Next]_vars => EndpointInv'
  <2> SUFFICES ASSUME TypeOK, EndpointInv, [Next]_vars
               PROVE  EndpointInv'
    OBVIOUS
  <2>1. CASE Next
    BY <2>1, EndpointInvThread, EndpointInvContainer DEF Next
  <2>2. CASE UNCHANGED vars
    BY <2>2 DEF vars, endpoint, threads, fields, calls, proton, EndpointInv, EndpointTypes,
                ConstructorFirst, OpenedOnce, ClosedForGood
  <2> QED
    BY <2>1, <2>2
<1> QED
  BY <1>1, <1>2, InvImpliesClosed, TypeCorrect, PTL DEF Spec

=============================================================================
