--------------------- MODULE MessageConsumerImpl_proofs ---------------------
(***************************************************************************)
(* Theorems about MessageConsumerImpl, for every number of threads, every  *)
(* window and every bound.                                                 *)
(***************************************************************************)
EXTENDS MessageConsumerImpl, Endpoint_proofs, FiniteSetTheorems

-----------------------------------------------------------------------------
(* Type correctness.  The credit stays a natural number because on_message *)
(* needs credit and, during a drain, returns none of it.                   *)

Operations == {"none", "ctor", "start", "stop", "close", "dtor"}
Outcomes   == {"none", "returned", "CMSException"}

(* A thread goes to a label.                                               *)
LEMMA GotoKeepsLabels ==
  ASSUME pc \in [Threads -> Labels], NEW t \in Threads, NEW l \in Labels, Goto(t, l)
  PROVE  pc' \in [Threads -> Labels]
BY DEF Goto

(* The steps of the application's threads keep the types.                  *)
LEMMA ThreadKeepsTypes ==
  ASSUME TypeOK, NEW t \in Threads, ThreadStep(t) \/ ThreadCall(t)
  PROVE  TypeOK'
<1> USE DEF TypeOK
<1>0. /\ MonitorLabels \subseteq Labels
      /\ {"ctor", "idle", "startQueue", "startAdd", "startState", "stopQueue", "stopLock",
          "closeQueue", "closeLock"} \subseteq Labels
  BY DEF Labels
<1>1. CASE constructor(t)
  <2>1. workQueue' \in Seq(Work)
    BY <1>1, AddAppends DEF constructor, Construct, Kinds
  <2>2. pc' \in [Threads -> Labels]
    BY <1>0, <1>1, GotoKeepsLabels DEF constructor, Construct, Lock, MonitorLabels
  <2> QED
    BY <1>1, <2>1, <2>2 DEF constructor, Construct, Lock, own, flow, fields, Ends, Lives
<1>2. ASSUME NEW from \in Labels, NEW to \in Labels, TestQueue(t, from, to), UNCHANGED own
      PROVE  TypeOK'
  <2>1. pc' \in [Threads -> Labels]
    BY <1>0, <1>2, GotoKeepsLabels DEF TestQueue
  <2>2. ret' \in [Threads -> Outcomes] /\ fault' \in Faults
    BY <1>2 DEF TestQueue, Ends, Faults, Outcomes
  <2>3. UNCHANGED <<mMutex, fields, op, life, proton>>
    BY <1>2 DEF TestQueue
  <2> QED
    BY <1>2, <2>1, <2>2, <2>3 DEF fields, proton, own, flow, Outcomes
<1>3. ASSUME NEW from \in Labels, NEW kind \in Kinds, LockAndAdd(t, from, kind), UNCHANGED own
      PROVE  TypeOK'
  <2>1. workQueue' \in Seq(Work)
    BY <1>3, AddAppends DEF LockAndAdd, AddOrCrash
  <2>2. pc' \in [Threads -> Labels]
    BY <1>0, <1>3, GotoKeepsLabels DEF LockAndAdd, Lock, MonitorLabels
  <2>3. fault' \in Faults /\ mMutex' = t /\ UNCHANGED <<fields, calls, container, link, drops>>
    BY <1>3 DEF LockAndAdd, Lock, AddOrCrash, Faults
  <2> QED
    BY <1>3, <2>1, <2>2, <2>3 DEF fields, calls, own, flow
<1>4. CASE start(t)
  <2>1. CASE TestQueue(t, "startQueue", "startAdd")
    BY <1>0, <1>2, <1>4, <2>1 DEF start
  <2>2. CASE /\ pc[t] = "startAdd" /\ Goto(t, "startState")
             /\ AddOrCrash(t, "add_credit", 0)
             /\ UNCHANGED <<mMutex, fields, calls, container, link, drops>>
    <3>1. workQueue' \in Seq(Work)
      BY <2>2, AddAppends DEF AddOrCrash, Kinds
    <3>2. pc' \in [Threads -> Labels] /\ fault' \in Faults
      BY <1>0, <2>2, GotoKeepsLabels DEF AddOrCrash, Faults
    <3> QED
      BY <1>4, <2>2, <3>1, <3>2 DEF start, fields, calls, own, flow
  <2>3. CASE /\ pc[t] = "startState" /\ Goto(t, "idle") /\ Ends(t, "returned")
             /\ mState' = "STARTED"
             /\ UNCHANGED <<mMutex, mWorkQueue, op, life, fault, proton>>
    <3>1. pc' \in [Threads -> Labels] /\ ret' \in [Threads -> Outcomes]
      BY <1>0, <2>3, GotoKeepsLabels DEF Ends, Outcomes
    <3> QED
      BY <1>4, <2>3, <3>1 DEF start, ClientState, proton, own, flow, Outcomes
  <2> QED
    BY <1>4, <2>1, <2>2, <2>3 DEF start
<1>5. CASE stop(t)
  BY <1>0, <1>2, <1>3, <1>5 DEF stop, Kinds
<1>6. CASE close(t)
  <2>1. CASE CloseStep(t)
    BY <1>0, <1>2, <1>3, <1>6, <2>1 DEF close, CloseStep, Kinds
  <2>2. CASE Return(t)
    <3>1. pc' \in [Threads -> Labels]
      BY <1>0, <2>2, GotoKeepsLabels DEF Return, Unlock
    <3>2. life' \in {"alive", "destroyed", life}
      BY <2>2 DEF Return
    <3> QED
      BY <1>6, <2>2, <3>1, <3>2 DEF close, Return, Unlock, Ends, Lives, fields, proton, own, flow
  <2> QED
    BY <1>6, <2>1, <2>2 DEF close
<1>7. CASE wait(t)
  <2>1. pc' \in [Threads -> Labels] /\ mMutex' \in Threads \cup {NoThread}
    BY <1>0, <1>7, GotoKeepsLabels DEF wait, WaitStep, WaitCheck, WaitBlock, WaitRelock,
                                       Lock, Unlock, MonitorLabels
  <2> QED
    BY <1>7, <2>1 DEF wait, WaitStep, fields, calls, proton, own, flow
<1>8. ASSUME NEW what \in {"start", "stop"}, NEW label \in Labels, Call(t, what, label)
      PROVE  TypeOK'
  <2>1. pc' \in [Threads -> Labels]
    BY <1>8, GotoKeepsLabels DEF Call, Begin
  <2>2. /\ op' \in [Threads -> Operations]
        /\ ret' \in [Threads -> Outcomes]
        /\ made' \in [Threads -> Nat]
    BY <1>8 DEF Call, Begin, Ends, Operations, Outcomes
  <2>3. UNCHANGED <<mMutex, fields, life, fault, proton, flow>>
    BY <1>8 DEF Call
  <2> QED
    BY <2>1, <2>2, <2>3 DEF fields, proton, flow, Operations, Outcomes
<1>9. CASE callClose(t)
  <2>1. PICK what \in Closing : CallClose(t, what)
    BY <1>9 DEF callClose
  <2>2. pc' \in [Threads -> Labels]
    BY <1>0, <2>1, GotoKeepsLabels DEF CallClose, Begin
  <2>3. op' \in [Threads -> Operations] /\ ret' \in [Threads -> Outcomes]
    BY <2>1 DEF CallClose, Begin, Ends, Closing, Operations, Outcomes
  <2>4. life' \in Lives /\ UNCHANGED <<mMutex, fields, fault, proton>>
    BY <2>1 DEF CallClose, Lives
  <2> QED
    BY <1>9, <2>2, <2>3, <2>4 DEF callClose, fields, proton, own, flow, Operations, Outcomes
<1>10. CASE Spurious(t) /\ UNCHANGED own
  <2>1. pc' \in [Threads -> Labels]
    BY <1>0, <1>10, GotoKeepsLabels DEF Spurious, SpuriousWakeup, MonitorLabels
  <2> QED
    BY <1>10, <2>1 DEF Spurious, SpuriousWakeup, fields, calls, proton, own, flow
<1> QED
  BY <1>0, <1>1, <1>4, <1>5, <1>6, <1>7, <1>8, <1>9, <1>10 DEF ThreadStep, ThreadCall

(* So do the lambdas and the handlers.                                     *)
LEMMA ContainerKeepsTypes ==
  ASSUME TypeOK, ContainerStep \/ Environment
  PROVE  TypeOK'
<1>1. CASE NotifyCv
  <2>1. pc' \in [Threads -> Labels]
    <3>1. "relock" \in Labels
      BY DEF Labels, MonitorLabels
    <3> QED
      BY <1>1, <3>1, GotoKeepsLabels DEF NotifyCv, Notify, NotifyOne, TypeOK
  <2> QED
    BY <1>1, <2>1 DEF NotifyCv, Notify, NotifyOne, TypeOK, Faults, fields, calls, own, flow
<1> USE ConsumerAssumption
    DEF TypeOK, own, flow, threads, fields, calls, ClientState, Faults, LinkStates
<1>2. CASE RunOpen /\ UNCHANGED own
  BY <1>2 DEF RunOpen, Run, Handles
<1>3. CASE RunClose /\ UNCHANGED own
  BY <1>3 DEF RunClose, Run, Handles
<1>4. CASE RunAddCredit
  <2>1. credit' \in Nat /\ pending' \in Nat
    BY <1>4 DEF RunAddCredit, AddCredit
  <2> QED
    BY <1>4, <2>1 DEF RunAddCredit, Run, Handles
<1>5. CASE RunDrain
  BY <1>5 DEF RunDrain, Run, Handles
<1>6. CASE on_receiver_closed
  BY <1>6 DEF on_receiver_closed, OnCloseState
<1>7. CASE on_receiver_open
  BY <1>7 DEF on_receiver_open, OnOpen, OnOpenThrows
<1>8. CASE on_receiver_close
  BY <1>8 DEF on_receiver_close, OnClose
<1>9. CASE on_receiver_detach
  BY <1>9 DEF on_receiver_detach
<1>10. CASE on_receiver_drain_finish
  BY <1>10 DEF on_receiver_drain_finish
<1>11. CASE on_message
  <2>1. credit' \in Nat
    BY <1>11 DEF on_message, Replenish
  <2> QED
    BY <1>11, <2>1 DEF on_message, Replenish, endpoint, proton
<1>12. CASE Disconnect
  <2>1. draining' \in BOOLEAN
    BY <1>12, Zenon DEF Disconnect
  <2>2. drops' \in Nat
    BY <1>12 DEF Disconnect, Reconnect
  <2>3. /\ link' = "attaching" /\ credit' = 0 /\ pending' = 0
        /\ UNCHANGED <<threads, fields, calls, fault, workQueue, container, made, messages>>
    BY <1>12 DEF Disconnect, Reconnect
  <2> QED
    BY <2>1, <2>2, <2>3
<1>13. CASE TransportClose /\ UNCHANGED own
  BY <1>13 DEF TransportClose
<1> QED
  BY <1>1, <1>2, <1>3, <1>4, <1>5, <1>6, <1>7, <1>8, <1>9, <1>10, <1>11, <1>12, <1>13
     DEF ContainerStep, Environment

(* Every variable keeps its type; credit and pending are never negative.   *)
THEOREM TypeCorrect == Spec => []TypeOK
<1>1. Init => TypeOK
  <2> SUFFICES ASSUME Init PROVE TypeOK
    OBVIOUS
  <2>1. pc \in [Threads -> Labels]
    BY DEF Init, EndpointInit, Labels
  <2>2. /\ op \in [Threads -> Operations]
        /\ ret \in [Threads -> Outcomes]
        /\ made \in [Threads -> Nat]
    BY DEF Init, EndpointInit, Operations, Outcomes
  <2>3. workQueue \in Seq(Work)
    BY DEF Init, EndpointInit
  <2>4. mState \in ClientState /\ life \in Lives /\ fault \in Faults /\ link \in LinkStates
    BY DEF Init, EndpointInit, ClientState, Lives, Faults, LinkStates
  <2> QED
    BY <2>1, <2>2, <2>3, <2>4 DEF Init, EndpointInit, TypeOK, Operations, Outcomes
<1>2. TypeOK /\ [Next]_vars => TypeOK'
  <2> SUFFICES ASSUME TypeOK, [Next]_vars
               PROVE  TypeOK'
    OBVIOUS
  <2>1. CASE Next
    BY <2>1, ThreadKeepsTypes, ContainerKeepsTypes DEF Next
  <2>2. CASE UNCHANGED vars
    BY <2>2 DEF TypeOK, vars, endpoint, threads, fields, calls, proton, own, flow
  <2> QED
    BY <2>1, <2>2
<1> QED
  BY <1>1, <1>2, PTL DEF Spec

-----------------------------------------------------------------------------
(* close() and the link: the consumer's steps as steps of an Endpoint.     *)
(* start() may write STARTED over CLOSED, so the argument is about the     *)
(* link and the queue pointer, never about mState alone.                   *)

(* At the labels of start() a thread is in start(): what it returns is not *)
(* a close().                                                              *)
InStart ==
  \A t \in Threads : pc[t] \in {"startQueue", "startAdd", "startState"} => op[t] = "start"

ConsumerInv == EndpointInv /\ InStart

(* Every step of a thread preserves the Endpoint's invariant.              *)
LEMMA EndpointInvThread ==
  ASSUME ConsumerInv, NEW t \in Threads, ThreadStep(t) \/ ThreadCall(t)
  PROVE  EndpointInv'
<1> USE DEF ConsumerInv
<1>1. CASE constructor(t)
  BY <1>1, ConstructStep DEF constructor
<1>2. CASE start(t)
  <2>1. CASE TestQueue(t, "startQueue", "startAdd")
    BY <2>1, TestQueueStep
  <2>2. CASE /\ pc[t] = "startAdd" /\ Goto(t, "startState")
             /\ AddOrCrash(t, "add_credit", 0)
             /\ UNCHANGED <<mMutex, fields, calls, container, link, drops>>
    <3>1. UNCHANGED <<fields, op, life, container, link>> /\ ret' = ret
      BY <2>2 DEF calls
    <3> QED
      BY <2>2, <3>1, AddStep DEF Kinds
  <2>3. CASE /\ pc[t] = "startState" /\ Goto(t, "idle") /\ Ends(t, "returned")
             /\ mState' = "STARTED" /\ op[t] \notin Closing
             /\ UNCHANGED <<mMutex, mWorkQueue, op, life, fault, proton>>
    <3>1. UNCHANGED <<mWorkQueue, op, life, workQueue, container, link>>
      BY <2>3 DEF proton
    <3> QED
      BY <2>3, <3>1, ThreadMoves
  <2>4. pc[t] = "startState" => op[t] \notin Closing
    BY DEF InStart, Closing
  <2> QED
    BY <1>2, <2>1, <2>2, <2>3, <2>4 DEF start
<1>3. CASE stop(t)
  <2>1. CASE TestQueue(t, "stopQueue", "stopLock")
    BY <2>1, TestQueueStep
  <2>2. CASE LockAndAdd(t, "stopLock", "drain")
    BY <2>2, LockAndAddStep DEF Kinds
  <2> QED
    BY <1>3, <2>1, <2>2 DEF stop
<1>4. CASE close(t)
  BY <1>4, CloseStepStep, ReturnStep DEF close
<1>5. CASE wait(t)
  <2> DEFINE predicate == IF op[t] = "stop" THEN mState = "STOPPED" ELSE LinkPredicate(t)
  <2>1. op[t] \in Closing /\ predicate => mState = "CLOSED"
    BY DEF Closing, LinkPredicate
  <2>2. WaitStep(t, predicate)
    BY <1>5 DEF wait
  <2> HIDE DEF predicate
  <2> QED
    BY <2>1, <2>2, WaitStepStep
<1>6. ASSUME NEW what \in {"start", "stop"}, NEW label \in {"startQueue", "stopQueue"},
             Call(t, what, label)
      PROVE  EndpointInv'
  <2>1. Begin(t, what, label) /\ Ends(t, "none") /\ UNCHANGED <<fields, life, proton>>
    BY <1>6 DEF Call
  <2> QED
    BY <2>1, CallStep DEF Closing
<1>7. CASE callClose(t)
  BY <1>7, CallCloseStep DEF callClose
<1>8. CASE Spurious(t) /\ UNCHANGED own
  BY <1>8, SpuriousStep
<1> QED
  BY <1>1, <1>2, <1>3, <1>4, <1>5, <1>6, <1>7, <1>8 DEF ThreadStep, ThreadCall

(* So does every lambda and every handler.                                 *)
LEMMA EndpointInvContainer ==
  ASSUME EndpointInv, ContainerStep \/ Environment
  PROVE  EndpointInv'
<1>1. CASE NotifyCv
  BY <1>1, NotifyStep DEF NotifyCv
<1>2. CASE (RunOpen \/ RunClose) /\ UNCHANGED own
  BY <1>2, RunOpenStep, RunCloseStep
<1>3. CASE RunAddCredit
  <2>1. Run("add_credit") /\ link' = link /\ container' = container /\ container = "loop"
    BY <1>3 DEF RunAddCredit, Run, Handles
  <2> QED
    BY <2>1, RunStep
<1>4. CASE RunDrain
  <2>1. Run("drain") /\ link' = link /\ container' \in {"loop", "drainThrew"}
    BY <1>4 DEF RunDrain, Run, Handles
  <2> QED
    BY <2>1, RunStep
<1>5. CASE on_receiver_closed \/ on_receiver_close
  BY <1>5, OnCloseStep DEF on_receiver_closed, on_receiver_close
<1>6. CASE on_receiver_open
  BY <1>6, OnOpenStep DEF on_receiver_open
<1>7. CASE on_receiver_detach \/ on_receiver_drain_finish
  BY <1>7, HandlerStep
     DEF on_receiver_detach, on_receiver_drain_finish, Handles, threads, calls
<1>8. CASE on_message
  BY <1>8, HandlerStep DEF on_message, Handles, endpoint, threads, fields, calls, proton
<1>9. CASE Disconnect \/ (TransportClose /\ UNCHANGED own)
  BY <1>9, ReconnectStep, TransportCloseStep DEF Disconnect
<1> QED
  BY <1>1, <1>2, <1>3, <1>4, <1>5, <1>6, <1>7, <1>8, <1>9 DEF ContainerStep, Environment

(* A thread leaves start() where it entered it.                            *)
LEMMA InStartThread ==
  ASSUME ConsumerInv, NEW t \in Threads, ThreadStep(t) \/ ThreadCall(t)
  PROVE  InStart'
<1> USE DEF ConsumerInv, EndpointInv, EndpointTypes, InStart, Goto
<1>1. CASE constructor(t)
  BY <1>1 DEF constructor, Construct, Lock
<1>2. CASE start(t)
  BY <1>2 DEF start, TestQueue, calls
<1>3. CASE stop(t)
  BY <1>3 DEF stop, TestQueue, LockAndAdd, Lock, calls
<1>4. CASE close(t)
  BY <1>4 DEF close, CloseStep, TestQueue, LockAndAdd, Lock, Return, Unlock, calls
<1>5. CASE wait(t)
  BY <1>5 DEF wait, WaitStep, WaitCheck, WaitBlock, WaitRelock, Lock, Unlock, calls
<1>6. CASE Call(t, "start", "startQueue") \/ Call(t, "stop", "stopQueue")
  BY <1>6 DEF Call, Begin
<1>7. CASE callClose(t)
  BY <1>7 DEF callClose, CallClose, Begin
<1>8. CASE Spurious(t) /\ UNCHANGED own
  BY <1>8 DEF Spurious, SpuriousWakeup, calls
<1> QED
  BY <1>1, <1>2, <1>3, <1>4, <1>5, <1>6, <1>7, <1>8 DEF ThreadStep, ThreadCall

(* The container's thread moves no thread but a sleeping one.              *)
LEMMA InStartContainer ==
  ASSUME ConsumerInv, ContainerStep \/ Environment
  PROVE  InStart'
<1> USE DEF ConsumerInv, EndpointInv, EndpointTypes, InStart
<1>1. CASE NotifyCv
  <2>1. op' = op
    BY <1>1 DEF NotifyCv, Notify, calls
  <2>2. CASE UNCHANGED pc
    BY <2>1, <2>2
  <2>3. ASSUME NEW t \in Threads, Goto(t, "relock")
        PROVE  InStart'
    BY <2>1, <2>3 DEF Goto
  <2> QED
    BY <1>1, <2>2, <2>3 DEF NotifyCv, Notify, NotifyOne
<1>2. CASE UNCHANGED <<pc, op>>
  BY <1>2
<1>3. ContainerStep \/ Environment => NotifyCv \/ UNCHANGED <<pc, op>>
  BY DEF ContainerStep, Environment, RunOpen, RunClose, RunAddCredit, RunDrain, Run,
         on_receiver_closed, OnCloseState, on_receiver_open, OnOpen, OnOpenThrows,
         on_receiver_close, OnClose, on_receiver_detach, on_receiver_drain_finish,
         on_message, Disconnect, Reconnect, TransportClose, endpoint, threads, calls
<1> QED
  BY <1>1, <1>2, <1>3

(* Both hold in every state.                                               *)
LEMMA ConsumerInvariant == Spec => []ConsumerInv
<1>1. Init => ConsumerInv
  <2> SUFFICES ASSUME Init PROVE InStart
    BY EndpointInitial DEF Init, ConsumerInv
  <2> QED
    BY DEF Init, EndpointInit, InStart
<1>2. ConsumerInv /\ [Next]_vars => ConsumerInv'
  <2> SUFFICES ASSUME ConsumerInv, [Next]_vars
               PROVE  ConsumerInv'
    OBVIOUS
  <2>1. CASE Next
    BY <2>1, EndpointInvThread, EndpointInvContainer, InStartThread, InStartContainer
       DEF Next, ConsumerInv
  <2>2. CASE UNCHANGED vars
    BY <2>2 DEF vars, endpoint, threads, fields, calls, proton, ConsumerInv, EndpointInv,
                EndpointTypes, ConstructorFirst, OpenedOnce, ClosedForGood, InStart
  <2> QED
    BY <2>1, <2>2
<1> QED
  BY <1>1, <1>2, PTL DEF Spec

(* A close() of the consumer that returned normally means that the peer    *)
(* confirmed it and that neither the link nor the work queue comes back,   *)
(* although start() may overwrite CLOSED.                                  *)
THEOREM ClosedConsumerStaysClosed == Spec => []ReturnedCloseIsClosed
<1>1. ConsumerInv => ReturnedCloseIsClosed
  BY InvImpliesClosed DEF ConsumerInv
<1> QED
  BY <1>1, ConsumerInvariant, PTL

-----------------------------------------------------------------------------
(* The credit of a MessageConsumerImpl, for every number of threads, every *)
(* window and every bound, when one thread s calls start() and stop() in   *)
(* turns, as the session does under its mutex.                             *)
(*                                                                         *)
(* The argument: a window of credit is out, or on its way, only between an *)
(* add_credit of start() and the end of the drain of the next stop().  It  *)
(* rests on stop() never finding the consumer STOPPED before its drain has *)
(* run, which mState alone does not say: the link may have closed, and the *)
(* queue pointer then makes start() and stop() throw.                      *)

(* The invariant.                                                          *)

StartLabels == {"startQueue", "startAdd", "startState"}

(* Where the lambdas of start() and of stop() wait in the queue.           *)
Windows == Queued("add_credit")
Drains  == Queued("drain")

NoCredit == credit = 0 /\ Windows = {}
NoDrain  == ~draining /\ Drains = {}

(* Operations are called on a constructed object, whose state is           *)
(* initialized, and whose queue pointer is null only when the link closed. *)
Constructed ==
  /\ mState = "UNNINITIALIZED" => life \in {"constructing", "failed"}
  /\ \A t \in Threads :
       /\ op[t] = "ctor" /\ pc[t] = "ready" => mState # "UNNINITIALIZED"
       /\ op[t] \notin {"none", "ctor"} \/ made[t] # 0
            => life \notin {"constructing", "failed"}
       /\ life = "failed" => pc[t] = "idle"
  /\ ~mWorkQueue => link = "closed" \/ life = "failed" \/ pc[Creator] = "ctor"

(* Only s starts and stops, and made tells which of the two comes next.    *)
Turns(s) ==
  /\ \A t \in Threads :
       /\ t # s => op[t] \notin {"start", "stop"}
       /\ pc[t] \in StopLabels => op[t] = "stop"
       /\ pc[t] \in {"closeQueue", "closeLock"} => op[t] \in Closing
  /\ op[s] = "start" => pc[s] \in StartLabels \cup {"idle"} /\ made[s] % 2 = 1
  /\ op[s] = "stop" => made[s] % 2 = 0

(* One window at most, one drain at most, and the drain behind the window. *)
Order ==
  /\ pending = 0
  /\ credit <= Window
  /\ Windows # {} => credit = 0 /\ ~draining
  /\ Drains # {} => ~draining
  /\ \A i, j \in Windows : i = j
  /\ \A i, j \in Drains : i = j
  /\ \A i \in Windows, j \in Drains : i < j

(* Which parts of the way of a window are possible where s is.             *)
Flow(s) ==
  /\ ~Waits(s) => NoDrain
  /\ ~Started(s) /\ ~Waits(s) => NoCredit \/ link = "closed"
  /\ Started(s) /\ pc[s] # "startState" => mState # "STOPPED" \/ link = "closed"
  /\ Waits(s) /\ mState = "STOPPED" /\ fault = "none" => NoCredit /\ NoDrain
  /\ op[s] = "stop" /\ (pc[s] = "ready" \/ ret[s] = "returned") => NoCredit

(* Until the first reconnect, the credit of a start() reaches the link.    *)
Reaches(s) ==
  drops = 0 =>
    /\ link \in {"none", "attaching"} => mState = "UNNINITIALIZED"
    /\ pc[s] = "startState" /\ fault = "none" /\ link = "attached"
         => credit > 0 \/ Windows # {}
    /\ mState = "STARTED" /\ link = "attached"
         => credit > 0 \/ Windows # {} \/ draining

FlowInv(s) ==
  /\ TypeOK
  /\ ConsumerInv
  /\ Constructed
  /\ Turns(s)
  /\ Order
  /\ Flow(s)
  /\ Reaches(s)

-----------------------------------------------------------------------------
(* The queue.                                                              *)

(* The positions of a kind of lambda are positions of the queue.           *)
LEMMA Positions ==
  ASSUME workQueue \in Seq(Work)
  PROVE  /\ Len(workQueue) \in Nat
         /\ Windows \subseteq 1..Len(workQueue)
         /\ Drains \subseteq 1..Len(workQueue)
BY DEF Windows, Drains, Queued

(* add() puts a lambda behind all the others.                              *)
LEMMA AddQueues ==
  ASSUME workQueue \in Seq(Work), NEW t \in Threads, NEW kind \in Kinds, Add(t, kind, 0)
  PROVE  /\ kind # "add_credit" => Windows' = Windows
         /\ kind # "drain" => Drains' = Drains
         /\ kind = "add_credit" => Windows' = Windows \cup {Len(workQueue) + 1}
         /\ kind = "drain" => Drains' = Drains \cup {Len(workQueue) + 1}
<1>1. /\ Len(workQueue) \in Nat
      /\ DOMAIN workQueue = 1..Len(workQueue)
      /\ DOMAIN workQueue' = 1..(Len(workQueue) + 1)
      /\ \A i \in 1..Len(workQueue) : workQueue'[i] = workQueue[i]
      /\ workQueue'[Len(workQueue) + 1].kind = kind
  BY AddAppends
<1> DEFINE n == Len(workQueue)
<1>2. ASSUME NEW k
      PROVE  {i \in 1..(n + 1) : workQueue'[i].kind = k}
               = {i \in 1..n : workQueue[i].kind = k}
                   \cup (IF k = kind THEN {n + 1} ELSE {})
  BY <1>1
<1> QED
  BY <1>1, <1>2 DEF Windows, Drains, Queued

(* The container's thread takes the first lambda, the others move up.      *)
LEMMA RunQueues ==
  ASSUME workQueue \in Seq(Work), NEW kind, Run(kind)
  PROVE  /\ \A i \in Windows' : i \in Nat \ {0} /\ i + 1 \in Windows
         /\ \A i \in Drains' : i \in Nat \ {0} /\ i + 1 \in Drains
         /\ kind # "add_credit" /\ Windows # {} => Windows' # {}
         /\ kind = "add_credit" <=> 1 \in Windows
         /\ kind = "drain" <=> 1 \in Drains
<1>1. /\ workQueue # <<>>
      /\ workQueue' = Tail(workQueue)
      /\ workQueue[1].kind = kind
  BY DEF Run
<1>2. /\ Len(workQueue) \in Nat \ {0}
      /\ DOMAIN workQueue = 1..Len(workQueue)
      /\ DOMAIN workQueue' = 1..(Len(workQueue) - 1)
      /\ \A i \in 1..(Len(workQueue) - 1) : workQueue'[i] = workQueue[i + 1]
  BY <1>1
<1>3. /\ \A i \in Windows' : i \in Nat \ {0} /\ i + 1 \in Windows
      /\ \A i \in Drains' : i \in Nat \ {0} /\ i + 1 \in Drains
  BY <1>2 DEF Windows, Drains, Queued
<1>4. ASSUME kind # "add_credit", Windows # {}
      PROVE  Windows' # {}
  <2>1. PICK i \in 1..Len(workQueue) : workQueue[i].kind = "add_credit"
    BY <1>2, <1>4 DEF Windows, Queued
  <2>2. i # 1
    BY <1>1, <1>4, <2>1
  <2>3. i - 1 \in 1..(Len(workQueue) - 1) /\ workQueue'[i - 1] = workQueue[i]
    BY <1>2, <2>1, <2>2
  <2>4. i - 1 \in Windows'
    BY <1>2, <2>1, <2>3 DEF Windows, Queued
  <2> QED
    BY <2>4
<1> QED
  BY <1>1, <1>2, <1>3, <1>4 DEF Windows, Drains, Queued

-----------------------------------------------------------------------------
(* Constructed and Turns.                                                  *)

(* The steps of the application's threads.                                 *)
LEMMA ConstructedThread ==
  ASSUME TypeOK, ConsumerInv, Constructed,
         NEW t \in Threads, ThreadStep(t) \/ ThreadCall(t)
  PROVE  Constructed'
<1> USE EndpointAssumption DEF TypeOK, ConsumerInv, Constructed, Goto, Ends
<1>0. /\ \A u \in Threads : pc[u] = "ctor" => u = Creator
      /\ pc[Creator] = "ctor" =>
           life = "constructing" /\ \A u \in Threads \ {Creator} : pc[u] = "idle"
  BY DEF EndpointInv, ConstructorFirst
<1>1. CASE constructor(t)
  BY <1>0, <1>1 DEF constructor, Construct, Lock, fields, own
<1>2. ASSUME NEW from, NEW to, from \notin {"idle", "ctor"}, to # "ready",
             TestQueue(t, from, to), UNCHANGED own
      PROVE  Constructed'
  BY <1>0, <1>2 DEF TestQueue, fields, own, proton
<1>3. ASSUME NEW from, NEW kind, from \notin {"idle", "ctor"},
             LockAndAdd(t, from, kind), UNCHANGED own
      PROVE  Constructed'
  BY <1>0, <1>3 DEF LockAndAdd, Lock, fields, calls, own
<1>4. CASE start(t)
  <2>1. CASE TestQueue(t, "startQueue", "startAdd")
    BY <1>2, <1>4, <2>1 DEF start
  <2>2. CASE /\ pc[t] = "startAdd" /\ Goto(t, "startState")
             /\ UNCHANGED <<mMutex, fields, calls, container, link, drops>>
    BY <1>0, <1>4, <2>2 DEF start, fields, calls, own
  <2>3. CASE /\ pc[t] = "startState" /\ Goto(t, "idle") /\ mState' = "STARTED"
             /\ UNCHANGED <<mMutex, mWorkQueue, op, life, fault, proton>>
    BY <1>0, <1>4, <2>3 DEF start, proton, own
  <2> QED
    BY <1>4, <2>1, <2>2, <2>3 DEF start
<1>5. CASE stop(t)
  BY <1>2, <1>3, <1>5 DEF stop
<1>6. CASE close(t)
  <2>1. CASE CloseStep(t)
    BY <1>2, <1>3, <1>6, <2>1 DEF close, CloseStep
  <2>2. CASE Return(t)
    BY <1>0, <1>6, <2>2 DEF close, Return, Unlock, fields, proton, own
  <2> QED
    BY <1>6, <2>1, <2>2 DEF close
<1>7. CASE wait(t)
  BY <1>0, <1>7 DEF wait, WaitStep, WaitCheck, WaitBlock, WaitRelock, Lock, Unlock,
                    LinkPredicate, fields, calls, proton, own
<1>8. ASSUME NEW what \in {"start", "stop"}, NEW label, label \notin {"ready", "ctor"},
             Call(t, what, label)
      PROVE  Constructed'
  BY <1>0, <1>8 DEF Call, Begin, fields, proton
<1>9. CASE callClose(t)
  BY <1>0, <1>9 DEF callClose, CallClose, Begin, Closing, fields, proton, own
<1>10. CASE Spurious(t) /\ UNCHANGED own
  BY <1>0, <1>10 DEF Spurious, SpuriousWakeup, fields, calls, proton, own
<1> QED
  BY <1>1, <1>4, <1>5, <1>6, <1>7, <1>8, <1>9, <1>10 DEF ThreadStep, ThreadCall

(* The lambdas and the handlers: on_receiver_open leaves UNNINITIALIZED,   *)
(* on_receiver_close clears the pointer as it closes the link.             *)
LEMMA ConstructedContainer ==
  ASSUME TypeOK, ConsumerInv, Constructed, ContainerStep \/ Environment
  PROVE  Constructed'
<1> USE EndpointAssumption DEF TypeOK, ConsumerInv, Constructed
<1>1. CASE NotifyCv
  BY <1>1 DEF NotifyCv, Notify, NotifyOne, Goto, fields, calls, own
<1>2. CASE RunOpen /\ UNCHANGED own
  <2>1. link = "none"
    BY <1>2 DEF RunOpen, Run, EndpointInv, OpenedOnce, Handles
  <2> QED
    BY <1>2, <2>1 DEF RunOpen, Run, threads, fields, calls, own
<1> USE DEF threads, fields, calls, proton, endpoint, own
<1>3. CASE RunClose /\ UNCHANGED own
  BY <1>3 DEF RunClose, Run
<1>4. CASE RunAddCredit \/ RunDrain
  BY <1>4 DEF RunAddCredit, RunDrain, Run
<1>5. CASE on_receiver_closed
  BY <1>5 DEF on_receiver_closed, OnCloseState
<1>6. CASE on_receiver_open
  BY <1>6 DEF on_receiver_open, OnOpen, OnOpenThrows
<1>7. CASE on_receiver_close
  BY <1>7 DEF on_receiver_close, OnClose
<1>8. CASE on_receiver_detach \/ on_receiver_drain_finish \/ on_message
  BY <1>8 DEF on_receiver_detach, on_receiver_drain_finish, on_message
<1>9. CASE Disconnect \/ (TransportClose /\ UNCHANGED own)
  BY <1>9 DEF Disconnect, Reconnect, TransportClose
<1> QED
  BY <1>1, <1>2, <1>3, <1>4, <1>5, <1>6, <1>7, <1>8, <1>9 DEF ContainerStep, Environment

(* A call of start() or stop() changes the parity of made.                 *)
LEMMA Parity ==
  \A n \in Nat : /\ n % 2 = 0 => (n + 1) % 2 = 1
                 /\ n % 2 # 0 => (n + 1) % 2 = 0
OBVIOUS

(* The steps of the application's threads.                                 *)
LEMMA TurnsThread ==
  ASSUME Alternate, NEW s \in Threads, Starters = {s},
         TypeOK, ConsumerInv, Constructed, Turns(s),
         NEW t \in Threads, ThreadStep(t) \/ ThreadCall(t)
  PROVE  Turns(s)'
<1> USE DEF TypeOK, ConsumerInv, InStart, Turns, Goto, StartLabels, StopLabels, Closing
<1>1. CASE constructor(t)
  <2>1. life = "constructing" \/ pc'[t] = "idle"
    BY <1>1 DEF constructor, Construct, EndpointInv, ConstructorFirst, Lock
  <2> QED
    BY <1>1, <2>1 DEF constructor, Construct, Lock, Constructed, own
<1>2. ASSUME NEW from, NEW to, <<from, to>> \in {<<"startQueue", "startAdd">>,
               <<"stopQueue", "stopLock">>, <<"closeQueue", "closeLock">>},
             TestQueue(t, from, to), UNCHANGED own
      PROVE  Turns(s)'
  BY <1>2 DEF TestQueue, own
<1>3. ASSUME NEW kind, NEW from \in {"stopLock", "closeLock"},
             LockAndAdd(t, from, kind), UNCHANGED own
      PROVE  Turns(s)'
  BY <1>3 DEF LockAndAdd, Lock, calls, own
<1>4. CASE start(t)
  BY <1>2, <1>4 DEF start, calls, own
<1>5. CASE stop(t)
  BY <1>2, <1>3, <1>5 DEF stop
<1>6. CASE close(t)
  <2>1. CASE Return(t)
    BY <1>6, <2>1 DEF close, Return, Unlock, own
  <2> QED
    BY <1>2, <1>3, <1>6, <2>1 DEF close, CloseStep
<1>7. CASE wait(t)
  BY <1>7 DEF wait, WaitStep, WaitCheck, WaitBlock, WaitRelock, Lock, Unlock, calls, own
<1>8. CASE Call(t, "start", "startQueue")
  <2>1. t = s /\ made[s] % 2 = 0
    BY <1>8 DEF Call, InTurn
  <2>2. made'[s] % 2 = 1
    BY <1>8, <2>1, Parity DEF Call
  <2> QED
    BY <1>8, <2>1, <2>2 DEF Call, Begin
<1>9. CASE Call(t, "stop", "stopQueue")
  <2>1. t = s /\ made[s] % 2 # 0
    BY <1>9 DEF Call, InTurn
  <2>2. made'[s] % 2 = 0
    BY <1>9, <2>1, Parity DEF Call
  <2> QED
    BY <1>9, <2>1, <2>2 DEF Call, Begin
<1>10. CASE callClose(t)
  <2>1. PICK what \in {"close", "dtor"} : CallClose(t, what)
    BY <1>10 DEF callClose
  <2>2. PICK label \in {"idle", "closeQueue"} : Begin(t, what, label)
    BY <2>1 DEF CallClose
  <2>3. op' = [op EXCEPT ![t] = what] /\ pc' = [pc EXCEPT ![t] = label] /\ made' = made
    BY <1>10, <2>2 DEF callClose, Begin, own
  <2> QED
    BY <2>3
<1>11. CASE Spurious(t) /\ UNCHANGED own
  BY <1>11 DEF Spurious, SpuriousWakeup, calls, own
<1> QED
  BY <1>1, <1>4, <1>5, <1>6, <1>7, <1>8, <1>9, <1>10, <1>11 DEF ThreadStep, ThreadCall

(* The container's thread wakes a thread up and calls no operation.        *)
LEMMA ContainerWakes ==
  ASSUME ContainerStep \/ Environment
  PROVE  /\ UNCHANGED <<op, ret, life, made>>
         /\ \/ UNCHANGED pc
            \/ \E t \in Threads : pc[t] = "blocked" /\ Goto(t, "relock")
<1>1. CASE NotifyCv
  BY <1>1 DEF NotifyCv, Notify, NotifyOne, calls, own
<1>2. ContainerStep \/ Environment => NotifyCv \/ UNCHANGED <<pc, op, ret, life, made>>
  BY DEF ContainerStep, Environment, RunOpen, RunClose, RunAddCredit, RunDrain, Run,
         on_receiver_closed, OnCloseState, on_receiver_open, OnOpen, OnOpenThrows,
         on_receiver_close, OnClose, on_receiver_detach, on_receiver_drain_finish,
         on_message, Disconnect, Reconnect, TransportClose, endpoint, threads, calls, own
<1> QED
  BY <1>1, <1>2

(* So whose turn it is stays the same.                                     *)
LEMMA TurnsContainer ==
  ASSUME NEW s \in Threads, TypeOK, ConsumerInv, Turns(s), ContainerStep \/ Environment
  PROVE  Turns(s)'
BY ContainerWakes DEF TypeOK, Turns, Goto, StartLabels, StopLabels

-----------------------------------------------------------------------------
(* Order, Flow and Reaches: the steps of the application's threads.        *)

(* What the operations other than start() and stop() leave alone.          *)
Quiet ==
  /\ UNCHANGED <<own, mState, mWorkQueue, link, drops>>
  /\ Windows' = Windows
  /\ Drains' = Drains
  /\ fault' = "none" => fault = "none"

(* A lambda of another kind neither starts nor drains.                     *)
LEMMA QuietAdd ==
  ASSUME workQueue \in Seq(Work), NEW t \in Threads, NEW kind \in {"open", "close"},
         AddOrCrash(t, kind, 0) \/ Add(t, kind, 0)
  PROVE  Windows' = Windows /\ Drains' = Drains
<1>1. CASE Add(t, kind, 0)
  BY <1>1, AddQueues DEF Kinds
<1>2. CASE UNCHANGED workQueue
  BY <1>2 DEF Windows, Drains, Queued
<1> QED
  BY <1>1, <1>2 DEF AddOrCrash

(* The constructor, close(), the destructor and every wait are quiet, and  *)
(* so is a start() or stop() that throws.                                  *)
LEMMA QuietSteps ==
  ASSUME TypeOK, NEW t \in Threads, fault = "none",
         \/ constructor(t)
         \/ close(t)
         \/ wait(t)
         \/ callClose(t)
         \/ Spurious(t) /\ UNCHANGED own
         \/ \E from, to : TestQueue(t, from, to) /\ UNCHANGED own
  PROVE  Quiet
<1> USE DEF TypeOK, Quiet, fields, calls, proton
<1>1. ASSUME UNCHANGED workQueue
      PROVE  Windows' = Windows /\ Drains' = Drains
  BY <1>1 DEF Windows, Drains, Queued
<1>2. CASE constructor(t)
  BY <1>1, <1>2, QuietAdd DEF constructor, Construct
<1>3. CASE \E from, to : TestQueue(t, from, to) /\ UNCHANGED own
  BY <1>1, <1>3 DEF TestQueue
<1>4. CASE close(t)
  <2>1. CASE LockAndAdd(t, "closeLock", "close")
    BY <1>4, <2>1, QuietAdd DEF close, LockAndAdd
  <2>2. CASE Return(t)
    BY <1>1, <1>4, <2>2 DEF close, Return
  <2> QED
    BY <1>3, <1>4, <2>1, <2>2 DEF close, CloseStep
<1>5. CASE wait(t)
  BY <1>1, <1>5 DEF wait, WaitStep
<1>6. CASE callClose(t)
  BY <1>1, <1>6 DEF callClose, CallClose
<1>7. CASE Spurious(t) /\ UNCHANGED own
  BY <1>1, <1>7 DEF Spurious
<1> QED
  BY <1>2, <1>3, <1>4, <1>5, <1>6, <1>7

(* So are all steps of the threads that neither start nor stop.            *)
LEMMA OthersQuiet ==
  ASSUME NEW s \in Threads, Starters = {s}, TypeOK, ConsumerInv, Turns(s),
         NEW t \in Threads \ {s}, ThreadStep(t) \/ ThreadCall(t)
  PROVE  /\ Quiet
         /\ op'[s] = op[s] /\ pc'[s] = pc[s] /\ ret'[s] = ret[s]
<1> USE DEF TypeOK
<1>1. ~start(t)
  BY DEF start, TestQueue, ConsumerInv, InStart, Turns
<1>2. ~stop(t)
  BY DEF stop, TestQueue, LockAndAdd, Lock, Turns, StopLabels
<1>3. ~Call(t, "start", "startQueue") /\ ~Call(t, "stop", "stopQueue")
  BY DEF Call
<1>4. Quiet
  BY <1>1, <1>2, <1>3, QuietSteps DEF ThreadStep, ThreadCall
<1> USE DEF Goto, Ends, calls
<1>5. CASE constructor(t) \/ close(t)
  BY <1>4, <1>5 DEF constructor, Construct, close, CloseStep, TestQueue, LockAndAdd, Return,
              Lock, Unlock
<1>6. CASE wait(t) \/ Spurious(t)
  BY <1>4, <1>6 DEF wait, WaitStep, WaitCheck, WaitBlock, WaitRelock, Lock, Unlock, Spurious,
              SpuriousWakeup
<1>7. CASE callClose(t)
  BY <1>4, <1>7 DEF callClose, CallClose, Begin
<1> QED
  BY <1>1, <1>2, <1>3, <1>4, <1>5, <1>6, <1>7 DEF ThreadStep, ThreadCall

(* A quiet step keeps the order of the queue.                              *)
LEMMA QuietOrder ==
  ASSUME Order, Quiet
  PROVE  Order'
BY DEF Order, Quiet, own, flow

(* And, when s stays where it is, everything else.                         *)
LEMMA QuietKeeps ==
  ASSUME NEW s \in Threads, Order, Flow(s), Reaches(s), Quiet,
         op'[s] = op[s], pc'[s] = pc[s], ret'[s] = ret[s]
  PROVE  Order' /\ Flow(s)' /\ Reaches(s)'
BY QuietOrder
   DEF Flow, Reaches, Quiet, Waits, Started, NoCredit, NoDrain, own, flow

(* s in the constructor, in close(), or asleep.                            *)
LEMMA OwnQuietKeeps ==
  ASSUME NEW s \in Threads, FlowInv(s), fault = "none",
         \/ constructor(s)
         \/ close(s)
         \/ wait(s)
         \/ callClose(s)
         \/ Spurious(s) /\ UNCHANGED own
  PROVE  Order' /\ Flow(s)' /\ Reaches(s)'
<1> USE DEF FlowInv
<1>1. Quiet
  BY QuietSteps
<1>2. Order'
  BY <1>1, QuietOrder
<1>3. /\ made' = made /\ mState' = mState /\ link' = link /\ drops' = drops
      /\ credit' = credit /\ draining' = draining
      /\ Windows' = Windows /\ Drains' = Drains
  BY <1>1 DEF Quiet, own, flow
<1>4. pc \in [Threads -> Labels] /\ DOMAIN op = Threads /\ DOMAIN ret = Threads
  BY DEF TypeOK
<1> USE <1>3, <1>4 DEF Flow, Reaches, Waits, Started, NoCredit, NoDrain, Goto, Ends, calls,
        StopLabels, WaitLabels
<1>5. CASE constructor(s)
  BY <1>2, <1>5 DEF constructor, Construct, Lock, Constructed, Turns, ConsumerInv, EndpointInv,
                    ConstructorFirst
<1>6. CASE close(s)
  <2>1. CASE TestQueue(s, "closeQueue", "closeLock")
    BY <1>2, <2>1 DEF TestQueue, Turns
  <2>2. CASE LockAndAdd(s, "closeLock", "close")
    BY <1>2, <2>2 DEF LockAndAdd, Lock, Turns, Closing
  <2>3. CASE Return(s)
    BY <1>2, <2>3 DEF Return, Unlock, Turns
  <2> QED
    BY <1>6, <2>1, <2>2, <2>3 DEF close, CloseStep
<1>7. CASE wait(s)
  BY <1>2, <1>7 DEF wait, WaitStep, WaitCheck, WaitBlock, WaitRelock, Lock, Unlock, Turns
<1>8. CASE callClose(s)
  BY <1>2, <1>8 DEF callClose, CallClose, Begin, Turns, Closing
<1>9. CASE Spurious(s)
  BY <1>2, <1>9 DEF Spurious, SpuriousWakeup
<1> QED
  BY <1>5, <1>6, <1>7, <1>8, <1>9

(* s calls start() or stop().                                              *)
LEMMA CallKeeps ==
  ASSUME NEW s \in Threads, FlowInv(s), Alternate,
         Call(s, "start", "startQueue") \/ Call(s, "stop", "stopQueue")
  PROVE  Order' /\ Flow(s)' /\ Reaches(s)'
<1> USE DEF FlowInv
<1>1. pc \in [Threads -> Labels] /\ DOMAIN op = Threads /\ DOMAIN ret = Threads
      /\ made \in [Threads -> Nat]
  BY DEF TypeOK
<1>2. /\ UNCHANGED <<mState, link, drops, credit, draining, pending, fault>>
      /\ Windows' = Windows /\ Drains' = Drains
  BY DEF Call, fields, proton, flow, Windows, Drains, Queued
<1>3. Order'
  BY <1>2 DEF Order
<1> USE DEF Flow, Reaches, Waits, Started, NoCredit, NoDrain, Goto, Ends, StopLabels, WaitLabels
<1>4. CASE Call(s, "start", "startQueue")
  <2>1. made[s] % 2 = 0 /\ pc[s] = "idle"
    BY <1>4 DEF Call, InTurn, Begin
  <2>2. /\ pc'[s] = "startQueue" /\ op'[s] = "start" /\ ret'[s] = "none"
    BY <1>1, <1>4 DEF Call, Begin
  <2> QED
    BY <1>2, <1>3, <2>1, <2>2
<1>5. CASE Call(s, "stop", "stopQueue")
  <2>1. made[s] % 2 # 0 /\ pc[s] = "idle" /\ made[s] \in Nat
    BY <1>1, <1>5 DEF Call, InTurn, Begin
  <2>2. /\ pc'[s] = "stopQueue" /\ op'[s] = "stop" /\ ret'[s] = "none"
    BY <1>1, <1>5 DEF Call, Begin
  <2>3. made[s] % 2 = 1
    BY <2>1
  <2> QED
    BY <1>2, <1>3, <2>1, <2>2, <2>3
<1> QED
  BY <1>4, <1>5

(* A null pointer that start() or stop() meets means that the link closed. *)
LEMMA NullMeansClosed ==
  ASSUME NEW t \in Threads, Constructed, op[t] \notin {"none", "ctor"}, ~mWorkQueue,
         ConsumerInv
  PROVE  link = "closed"
BY EndpointAssumption DEF Constructed, ConsumerInv, EndpointInv, ConstructorFirst

(* start(): its window is queued when the last one is drained.             *)
LEMMA StartKeeps ==
  ASSUME NEW s \in Threads, FlowInv(s), fault = "none", start(s)
  PROVE  Order' /\ Flow(s)' /\ Reaches(s)'
<1> USE DEF FlowInv
<1>1. pc \in [Threads -> Labels] /\ DOMAIN op = Threads /\ DOMAIN ret = Threads
      /\ workQueue \in Seq(Work) /\ credit \in Nat
  BY DEF TypeOK
<1>2. UNCHANGED <<made, credit, draining, pending>>
  BY DEF start, own, flow
<1>3. op[s] = "start" /\ op' = op /\ made[s] % 2 = 1
  BY DEF start, TestQueue, calls, ConsumerInv, InStart, Turns
<1>4. ~mWorkQueue => link = "closed"
  BY <1>3, NullMeansClosed
<1>5. NoDrain
  BY <1>3 DEF Flow, Waits
<1> USE DEF Waits, Started, NoCredit, NoDrain, Goto, Ends, StopLabels, WaitLabels
<1>6. CASE TestQueue(s, "startQueue", "startAdd")
  <2>1. Quiet
    BY <1>6, QuietSteps DEF start
  <2>2. /\ UNCHANGED <<mState, link, drops>> /\ Windows' = Windows /\ Drains' = Drains
        /\ pc[s] = "startQueue"
        /\ pc'[s] = IF mWorkQueue THEN "startAdd" ELSE "idle"
    BY <1>1, <1>6, <2>1 DEF TestQueue, Quiet
  <2>3. Order'
    BY <2>1, QuietOrder
  <2>4. Flow(s)'
    BY <1>2, <1>3, <1>4, <1>5, <2>2 DEF Flow
  <2>5. Reaches(s)'
    BY <1>2, <2>2 DEF Reaches
  <2> QED
    BY <2>3, <2>4, <2>5
<1>7. CASE /\ pc[s] = "startAdd" /\ Goto(s, "startState")
           /\ AddOrCrash(s, "add_credit", 0)
           /\ UNCHANGED <<mMutex, fields, calls, container, link, drops>>
  <2>1. UNCHANGED <<mState, link, drops>> /\ pc'[s] = "startState"
    BY <1>1, <1>7 DEF fields
  <2>2. CASE mWorkQueue
    <3>1. link # "closed"
      BY <2>2 DEF ConsumerInv, EndpointInv, ClosedForGood
    <3>2. NoCredit
      BY <1>3, <1>7, <3>1 DEF Flow
    <3>3. Windows' = {Len(workQueue) + 1} /\ Drains' = Drains
      BY <1>1, <1>7, <2>2, <3>2, AddQueues DEF AddOrCrash, Kinds
    <3>4. Order'
      BY <1>2, <1>5, <3>2, <3>3 DEF Order
    <3>5. Flow(s)'
      BY <1>2, <1>3, <1>5, <2>1, <3>3 DEF Flow
    <3>6. Reaches(s)'
      BY <1>2, <2>1, <3>3 DEF Reaches
    <3> QED
      BY <3>4, <3>5, <3>6
  <2>3. CASE ~mWorkQueue
    <3>1. fault' # "none" /\ Windows' = Windows /\ Drains' = Drains
      BY <1>7, <2>3 DEF AddOrCrash, Windows, Drains, Queued
    <3>2. Order'
      BY <1>2, <3>1 DEF Order
    <3>3. Flow(s)'
      BY <1>2, <1>3, <1>4, <1>5, <2>1, <2>3, <3>1 DEF Flow
    <3>4. Reaches(s)'
      BY <1>2, <2>1, <3>1 DEF Reaches
    <3> QED
      BY <3>2, <3>3, <3>4
  <2> QED
    BY <2>2, <2>3
<1>8. CASE /\ pc[s] = "startState" /\ Goto(s, "idle") /\ Ends(s, "returned")
           /\ mState' = "STARTED"
           /\ UNCHANGED <<mMutex, mWorkQueue, op, life, fault, proton>>
  <2>1. UNCHANGED <<link, drops>> /\ Windows' = Windows /\ Drains' = Drains /\ pc'[s] = "idle"
    BY <1>1, <1>8 DEF proton, Windows, Drains, Queued
  <2>2. Order'
    BY <1>2, <2>1 DEF Order
  <2>3. Flow(s)'
    BY <1>2, <1>3, <1>5, <1>8, <2>1 DEF Flow
  <2>4. mState # "UNNINITIALIZED"
    BY <1>3 DEF Constructed
  <2>5. Reaches(s)'
    BY <1>2, <1>8, <2>1, <2>4 DEF Reaches
  <2> QED
    BY <2>2, <2>3, <2>5
<1> QED
  BY <1>6, <1>7, <1>8 DEF start

(* stop(): its drain is queued behind the window it is to drain.  That the *)
(* consumer is not STOPPED yet is what keeps the wait from passing early.  *)
LEMMA StopKeeps ==
  ASSUME NEW s \in Threads, FlowInv(s), fault = "none", stop(s)
  PROVE  Order' /\ Flow(s)' /\ Reaches(s)'
<1> USE DEF FlowInv
<1>1. pc \in [Threads -> Labels] /\ DOMAIN op = Threads /\ DOMAIN ret = Threads
      /\ workQueue \in Seq(Work)
  BY DEF TypeOK
<1>2. UNCHANGED <<made, credit, draining, pending>>
  BY DEF stop, own, flow
<1>3. op[s] = "stop" /\ op' = op /\ made[s] % 2 = 0
  BY DEF stop, TestQueue, LockAndAdd, Lock, calls, Turns, StopLabels
<1>4. ~mWorkQueue => link = "closed"
  BY <1>3, NullMeansClosed
<1> USE DEF Waits, Started, NoCredit, NoDrain, Goto, Ends, StopLabels, WaitLabels
<1>5. CASE TestQueue(s, "stopQueue", "stopLock")
  <2>1. Quiet
    BY <1>5, QuietSteps DEF stop
  <2>2. /\ UNCHANGED <<mState, link, drops>> /\ Windows' = Windows /\ Drains' = Drains
        /\ pc[s] = "stopQueue"
        /\ pc'[s] = IF mWorkQueue THEN "stopLock" ELSE "idle"
    BY <1>1, <1>5, <2>1 DEF TestQueue, Quiet
  <2>3. Order'
    BY <2>1, QuietOrder
  <2>4. mWorkQueue \/ ret'[s] = "CMSException"
    BY <1>1, <1>5 DEF TestQueue
  <2>5. mWorkQueue => ret'[s] = ret[s]
    BY <1>5 DEF TestQueue
  <2>6. Flow(s)'
    BY <1>2, <1>3, <1>4, <2>2, <2>4, <2>5 DEF Flow
  <2>7. Reaches(s)'
    BY <1>2, <2>2 DEF Reaches
  <2> QED
    BY <2>3, <2>6, <2>7
<1>6. CASE LockAndAdd(s, "stopLock", "drain")
  <2>1. UNCHANGED <<mState, link, drops, ret>> /\ pc[s] = "stopLock" /\ pc'[s] = "check"
    BY <1>1, <1>6 DEF LockAndAdd, Lock, fields, calls
  <2>2. NoDrain
    BY <2>1 DEF Flow
  <2>3. mState # "STOPPED" \/ link = "closed"
    BY <2>1 DEF Flow
  <2>4. /\ Windows' = Windows
        /\ mWorkQueue => Drains' = {Len(workQueue) + 1}
        /\ ~mWorkQueue => Drains' = Drains /\ fault' # "none"
    <3>1. CASE mWorkQueue
      BY <1>1, <1>6, <2>2, <3>1, AddQueues DEF LockAndAdd, AddOrCrash, Kinds
    <3>2. CASE ~mWorkQueue
      BY <1>6, <3>2 DEF LockAndAdd, AddOrCrash, Windows, Drains, Queued
    <3> QED
      BY <3>1, <3>2
  <2>5. Order'
    <3>1. Windows \subseteq 1..Len(workQueue) /\ Len(workQueue) \in Nat
      BY <1>1, Positions
    <3>2. \A i \in Windows : i < Len(workQueue) + 1
      BY <3>1
    <3> QED
      BY <1>2, <2>2, <2>4, <3>2 DEF Order
  <2>6. Flow(s)'
    <3>1. mWorkQueue => link # "closed"
      BY DEF ConsumerInv, EndpointInv, ClosedForGood
    <3> QED
      BY <1>2, <1>3, <2>1, <2>3, <2>4, <3>1 DEF Flow
  <2>7. Reaches(s)'
    BY <1>2, <2>1, <2>4 DEF Reaches
  <2> QED
    BY <2>5, <2>6, <2>7
<1> QED
  BY <1>5, <1>6 DEF stop

(* All together: the threads' steps.                                       *)
LEMMA FlowThread ==
  ASSUME Alternate, NEW s \in Threads, Starters = {s}, FlowInv(s),
         NEW t \in Threads, ThreadStep(t) \/ ThreadCall(t)
  PROVE  Order' /\ Flow(s)' /\ Reaches(s)'
<1>1. fault = "none"
  BY DEF ThreadStep, ThreadCall
<1>2. CASE t # s
  BY <1>2, OthersQuiet, QuietKeeps DEF FlowInv
<1>3. CASE t = s
  BY <1>1, <1>3, OwnQuietKeeps, CallKeeps, StartKeeps, StopKeeps DEF ThreadStep, ThreadCall
<1> QED
  BY <1>2, <1>3

-----------------------------------------------------------------------------
(* Order, Flow and Reaches: the lambdas and the handlers.                  *)

(* s may wake up, which changes nothing that Flow and Reaches speak of.    *)
LEMMA StaysWhereItIs ==
  ASSUME NEW s \in Threads, TypeOK, ContainerStep \/ Environment
  PROVE  /\ op'[s] = op[s] /\ ret'[s] = ret[s] /\ made' = made
         /\ Waits(s)' = Waits(s)
         /\ Started(s)' = Started(s)
         /\ \A label : label \notin {"blocked", "relock"} =>
              (pc'[s] = label <=> pc[s] = label)
<1>1. UNCHANGED <<op, ret, made>>
  BY ContainerWakes
<1>2. pc'[s] = pc[s] \/ (pc[s] = "blocked" /\ pc'[s] = "relock")
  BY ContainerWakes DEF TypeOK, Goto
<1> QED
  BY <1>1, <1>2 DEF Waits, Started, StopLabels, WaitLabels

(* add_credit: the window reaches the link, unless the link is going.      *)
LEMMA RunAddCreditKeeps ==
  ASSUME NEW s \in Threads, FlowInv(s), RunAddCredit
  PROVE  Order' /\ Flow(s)' /\ Reaches(s)'
<1> USE DEF FlowInv
<1>1. /\ op'[s] = op[s] /\ ret'[s] = ret[s] /\ made' = made /\ pc' = pc
      /\ UNCHANGED <<mState, link, drops, draining>>
      /\ Waits(s)' = Waits(s) /\ Started(s)' = Started(s)
      /\ fault = "none"
  BY StaysWhereItIs DEF ContainerStep, RunAddCredit, Run, Handles, threads, fields
<1>2. /\ \A i \in Windows' : i \in Nat \ {0} /\ i + 1 \in Windows
      /\ \A i \in Drains' : i \in Nat \ {0} /\ i + 1 \in Drains
      /\ 1 \in Windows
  BY RunQueues DEF TypeOK, RunAddCredit
<1>3. Windows \subseteq Nat /\ Drains \subseteq Nat
  BY Positions DEF TypeOK
<1>4. credit = 0 /\ ~draining /\ pending = 0
  BY <1>2 DEF Order
<1>5. Windows' = {} /\ (Drains = {} => Drains' = {})
  <2>1. \A i \in Windows' : i + 1 = 1 /\ i \in Nat \ {0}
    BY <1>2 DEF Order
  <2> QED
    BY <1>2, <2>1
<1>6. /\ pending' = 0 /\ credit' \in {0, Window}
      /\ link = "attached" => credit' = Window
      /\ link = "closed" => credit' = 0
  BY <1>4, ConsumerAssumption DEF RunAddCredit, AddCredit
<1>7. Window \in Nat /\ Window > 0
  BY ConsumerAssumption
<1>8. Order'
  <2>1. \A i, j \in Drains' : i = j
    BY <1>2, <1>3 DEF Order
  <2> QED
    BY <1>1, <1>4, <1>5, <1>6, <1>7, <2>1 DEF Order
<1>9. Flow(s)'
  BY <1>1, <1>2, <1>4, <1>5, <1>6 DEF Flow, NoCredit, NoDrain
<1>10. Reaches(s)'
  BY <1>1, <1>6, <1>7 DEF Reaches
<1> QED
  BY <1>8, <1>9, <1>10

(* drain: s waits in stop(), and no window is left in the queue.           *)
LEMMA RunDrainKeeps ==
  ASSUME NEW s \in Threads, FlowInv(s), RunDrain
  PROVE  Order' /\ Flow(s)' /\ Reaches(s)'
<1> USE DEF FlowInv
<1>1. /\ op'[s] = op[s] /\ ret'[s] = ret[s] /\ made' = made /\ pc' = pc
      /\ UNCHANGED <<mState, link, drops, credit, pending>>
      /\ Waits(s)' = Waits(s) /\ Started(s)' = Started(s)
      /\ fault = "none" /\ draining'
  BY StaysWhereItIs DEF ContainerStep, RunDrain, Run, Handles, threads, fields
<1>2. /\ \A i \in Windows' : i \in Nat \ {0} /\ i + 1 \in Windows
      /\ \A i \in Drains' : i \in Nat \ {0} /\ i + 1 \in Drains
      /\ 1 \in Drains
  BY RunQueues DEF TypeOK, RunDrain
<1>3. Windows \subseteq Nat \ {0}
  BY Positions DEF TypeOK
<1>4. Windows = {}
  <2>1. \A i \in Windows : i < 1
    BY <1>2 DEF Order
  <2> QED
    BY <1>3, <2>1
<1>5. Drains' = {}
  <2>1. \A i \in Drains' : i + 1 = 1 /\ i \in Nat \ {0}
    BY <1>2 DEF Order
  <2> QED
    BY <2>1
<1>6. Windows' = {}
  BY <1>2, <1>4
<1>7. Order'
  BY <1>1, <1>5, <1>6 DEF Order
<1>8. Flow(s)'
  BY <1>1, <1>2, <1>4, <1>6 DEF Flow, NoCredit, NoDrain
<1>9. Reaches(s)'
  BY <1>1, <1>4, <1>6 DEF Reaches
<1> QED
  BY <1>7, <1>8, <1>9

(* The lambdas that open and close the link move the others up.            *)
LEMMA RunLinkKeeps ==
  ASSUME NEW s \in Threads, FlowInv(s), RunOpen \/ RunClose, UNCHANGED own
  PROVE  Order' /\ Flow(s)' /\ Reaches(s)'
<1> USE DEF FlowInv
<1>1. /\ op'[s] = op[s] /\ ret'[s] = ret[s] /\ made' = made /\ pc' = pc
      /\ UNCHANGED <<mState, drops, credit, draining, pending>>
      /\ Waits(s)' = Waits(s) /\ Started(s)' = Started(s)
      /\ fault = "none"
  BY StaysWhereItIs
     DEF ContainerStep, RunOpen, RunClose, Run, Handles, threads, fields, own, flow
<1>2. PICK kind \in {"open", "close"} : Run(kind)
  BY DEF RunOpen, RunClose
<1>3. /\ \A i \in Windows' : i \in Nat \ {0} /\ i + 1 \in Windows
      /\ \A i \in Drains' : i \in Nat \ {0} /\ i + 1 \in Drains
      /\ Windows # {} => Windows' # {}
  BY <1>2, RunQueues DEF TypeOK
<1>4. Windows \subseteq Nat /\ Drains \subseteq Nat
  BY Positions DEF TypeOK
<1>5. /\ link = "closed" => link' = "closed"
      /\ link' = "attaching" => link = "none"
      /\ link' \notin {"none", "attached"}
  BY DEF RunOpen, RunClose, Run, EndpointInv, ConsumerInv, OpenedOnce, Handles
<1>6. Order'
  <2>1. \A i, j \in Drains' : i = j
    BY <1>3, <1>4 DEF Order
  <2>2. \A i, j \in Windows' : i = j
    BY <1>3, <1>4 DEF Order
  <2>3. \A i \in Windows', j \in Drains' : i < j
    BY <1>3, <1>4 DEF Order
  <2> QED
    BY <1>1, <1>3, <2>1, <2>2, <2>3 DEF Order
<1>7. Flow(s)'
  <2>1. (Windows = {} => Windows' = {}) /\ (Drains = {} => Drains' = {})
    BY <1>3
  <2> QED
    BY <1>1, <1>5, <2>1 DEF Flow, NoCredit, NoDrain
<1>8. Reaches(s)'
  BY <1>1, <1>5 DEF Reaches
<1> QED
  BY <1>6, <1>7, <1>8

(* The handlers leave the queue alone.                                     *)
LEMMA HandlersKeepQueue ==
  ASSUME Environment \/ on_receiver_closed \/ NotifyCv
  PROVE  Windows' = Windows /\ Drains' = Drains
BY DEF Environment, on_receiver_closed, OnCloseState, NotifyCv, Notify, on_receiver_open,
       OnOpen, OnOpenThrows, on_receiver_close, OnClose, on_receiver_detach,
       on_receiver_drain_finish, on_message, Disconnect, Reconnect, TransportClose,
       endpoint, proton, Windows, Drains, Queued

(* on_receiver_drain_finish: s waits, and its drain has taken the window.  *)
LEMMA DrainFinishKeeps ==
  ASSUME NEW s \in Threads, FlowInv(s), on_receiver_drain_finish
  PROVE  Order' /\ Flow(s)' /\ Reaches(s)'
<1> USE DEF FlowInv
<1>1. /\ op'[s] = op[s] /\ ret'[s] = ret[s] /\ made' = made /\ pc' = pc
      /\ UNCHANGED <<link, drops>>
      /\ Waits(s)' = Waits(s) /\ Started(s)' = Started(s)
      /\ fault = "none" /\ draining /\ ~draining' /\ mState' = "STOPPED"
      /\ pending' = 0 /\ credit' = pending /\ link = "attached"
  BY StaysWhereItIs DEF Environment, on_receiver_drain_finish, Handles, threads
<1>2. Windows' = Windows /\ Drains' = Drains
  BY HandlersKeepQueue DEF Environment
<1>3. Windows = {} /\ Drains = {} /\ pending = 0
  BY <1>1 DEF Order
<1>4. Waits(s) /\ ~Started(s)
  <2>1. Waits(s)
    BY <1>1 DEF Flow, NoDrain
  <2> QED
    BY <2>1 DEF Waits, Started, Turns, StopLabels, WaitLabels
<1>5. Order'
  BY <1>1, <1>2, <1>3, ConsumerAssumption DEF Order
<1>6. Flow(s)'
  BY <1>1, <1>2, <1>3, <1>4 DEF Flow, NoCredit, NoDrain
<1>7. Reaches(s)'
  BY <1>1, <1>2, <1>4 DEF Reaches, Waits, WaitLabels
<1> QED
  BY <1>5, <1>6, <1>7

(* on_message: the credit of the message is returned, unless a drain is on. *)
LEMMA MessageKeeps ==
  ASSUME NEW s \in Threads, FlowInv(s), on_message
  PROVE  Order' /\ Flow(s)' /\ Reaches(s)'
<1> USE DEF FlowInv
<1>1. /\ op'[s] = op[s] /\ ret'[s] = ret[s] /\ made' = made /\ pc' = pc
      /\ UNCHANGED <<link, drops, mState, fault, draining, pending>>
      /\ Waits(s)' = Waits(s) /\ Started(s)' = Started(s)
      /\ link = "attached" /\ credit > 0 /\ credit \in Nat
      /\ credit' = IF draining THEN credit - 1 ELSE credit
  BY StaysWhereItIs
     DEF Environment, on_message, Replenish, endpoint, threads, fields, proton, TypeOK
<1>2. Windows' = Windows /\ Drains' = Drains
  BY HandlersKeepQueue DEF Environment
<1>3. Order'
  BY <1>1, <1>2, ConsumerAssumption DEF Order
<1>4. Flow(s)'
  BY <1>1, <1>2 DEF Flow, NoCredit, NoDrain
<1>5. Reaches(s)'
  <2>1. pc[s] = "startState" => ~draining
    BY DEF Flow, NoDrain, Waits, WaitLabels
  <2> QED
    BY <1>1, <1>2, <2>1 DEF Reaches
<1> QED
  BY <1>3, <1>4, <1>5

(* The handlers that write neither the credit nor the drain, and the loss  *)
(* of the transport, which takes both.                                     *)
LEMMA OtherHandlersKeep ==
  ASSUME NEW s \in Threads, FlowInv(s),
         \/ NotifyCv
         \/ on_receiver_closed
         \/ on_receiver_open
         \/ on_receiver_close
         \/ on_receiver_detach
         \/ Disconnect
         \/ TransportClose /\ UNCHANGED own
  PROVE  Order' /\ Flow(s)' /\ Reaches(s)'
<1> USE DEF FlowInv
<1>1. /\ op'[s] = op[s] /\ ret'[s] = ret[s] /\ made' = made
      /\ Waits(s)' = Waits(s) /\ Started(s)' = Started(s)
      /\ pc'[s] = "startState" <=> pc[s] = "startState"
      /\ pc'[s] = "ready" <=> pc[s] = "ready"
  BY StaysWhereItIs DEF Environment, ContainerStep
<1>2. Windows' = Windows /\ Drains' = Drains
  BY HandlersKeepQueue DEF Environment
<1>3. pending' = 0 /\ (credit' = credit \/ credit' = 0) /\ (draining' => draining)
  <2>1. CASE Disconnect
    <3>1. draining' => draining
      BY <2>1, Zenon DEF Disconnect
    <3> QED
      BY <2>1, <3>1 DEF Disconnect
  <2>2. CASE UNCHANGED own
    BY <2>2 DEF own, flow, Order
  <2> QED
    BY <2>1, <2>2 DEF NotifyCv, on_receiver_closed, on_receiver_open, on_receiver_close,
                      on_receiver_detach
<1>4. /\ fault' = "none" => fault = "none"
      /\ mState' = "STOPPED" => mState \in {"STOPPED", "UNNINITIALIZED"}
      /\ link = "closed" => link' = "closed"
  BY DEF NotifyCv, Notify, on_receiver_closed, OnCloseState, on_receiver_open, OnOpen,
         OnOpenThrows, on_receiver_close, OnClose, on_receiver_detach, Disconnect,
         Reconnect, TransportClose, Handles, fields
<1>5. mState = "UNNINITIALIZED" => op[s] \notin {"start", "stop"} /\ made[s] = 0
  BY DEF Constructed
<1>6. Order'
  BY <1>2, <1>3, ConsumerAssumption DEF Order, TypeOK
<1>7. Flow(s)'
  <2>1. Started(s) => made[s] # 0 \/ op[s] = "stop"
    BY DEF Started, Turns
  <2> QED
    BY <1>1, <1>2, <1>3, <1>4, <1>5, <2>1 DEF Flow, NoCredit, NoDrain, Waits
<1>8. ASSUME drops' = 0
      PROVE  /\ drops = 0 /\ credit' = credit /\ draining' = draining
             /\ \/ /\ mState' = mState /\ link' = link
                \/ link' \notin {"none", "attaching", "attached"}
                \/ /\ link = "attaching" /\ link' = "attached"
                   /\ mState = "UNNINITIALIZED" /\ mState' = "STOPPED"
  <2>0. drops \in Nat /\ (Disconnect => drops' = drops + 1)
    BY DEF Disconnect, Reconnect, TypeOK
  <2>1. ~Disconnect /\ drops = 0
    BY <1>8, <2>0 DEF NotifyCv, Notify, on_receiver_closed, OnCloseState, on_receiver_open,
                      OnOpen, OnOpenThrows, on_receiver_close, OnClose, on_receiver_detach,
                      TransportClose
  <2>2. credit' = credit /\ draining' = draining
    BY <2>1 DEF NotifyCv, on_receiver_closed, on_receiver_open, on_receiver_close,
                on_receiver_detach, own, flow
  <2>3. CASE OnOpen
    <3>1. link = "attaching"
      BY <2>3 DEF OnOpen
    <3>2. mState = "UNNINITIALIZED"
      BY <2>1, <3>1 DEF Reaches
    <3> QED
      BY <2>1, <2>2, <2>3, <3>1, <3>2 DEF OnOpen
  <2>4. CASE on_receiver_closed
    <3>1. link = "closed" /\ link' = link
      BY <2>4 DEF on_receiver_closed, OnCloseState, ConsumerInv, EndpointInv, ClosedForGood
    <3> QED
      BY <2>1, <2>2, <3>1
  <2> QED
    BY <2>1, <2>2, <2>3, <2>4
       DEF NotifyCv, Notify, on_receiver_open, OnOpenThrows, on_receiver_close, OnClose,
           on_receiver_detach, TransportClose, fields
<1>9. Reaches(s)'
  <2>1. pc[s] = "startState" => op[s] = "start"
    BY DEF ConsumerInv, InStart
  <2> QED
    BY <1>1, <1>2, <1>4, <1>5, <1>8, <2>1 DEF Reaches
<1> QED
  BY <1>6, <1>7, <1>9

(* All together: the container's steps.                                    *)
LEMMA FlowContainer ==
  ASSUME NEW s \in Threads, FlowInv(s), ContainerStep \/ Environment
  PROVE  Order' /\ Flow(s)' /\ Reaches(s)'
BY RunAddCreditKeeps, RunDrainKeeps, RunLinkKeeps, DrainFinishKeeps, MessageKeeps,
   OtherHandlersKeep
   DEF ContainerStep, Environment

-----------------------------------------------------------------------------
(* The theorems.                                                           *)

(* Nothing has been started yet.                                           *)
LEMMA FlowInitial ==
  ASSUME NEW s \in Threads, Init
  PROVE  Constructed /\ Turns(s) /\ Order /\ Flow(s) /\ Reaches(s)
<1> USE EndpointAssumption, ConsumerAssumption DEF Init, EndpointInit
<1>1. Windows = {} /\ Drains = {}
  BY DEF Windows, Drains, Queued
<1>2. Constructed
  BY DEF Constructed
<1>3. Turns(s)
  BY DEF Turns, StopLabels
<1>4. Order
  BY <1>1 DEF Order
<1>5. Flow(s)
  BY <1>1 DEF Flow, Waits, Started, NoCredit, NoDrain, StopLabels
<1>6. Reaches(s)
  BY DEF Reaches
<1> QED
  BY <1>2, <1>3, <1>4, <1>5, <1>6

(* FlowInv is an invariant.                                                *)
LEMMA FlowInvariant ==
  ASSUME Alternate, NEW s \in Threads, Starters = {s}
  PROVE  Spec => []FlowInv(s)
<1>1. Init => Constructed /\ Turns(s) /\ Order /\ Flow(s) /\ Reaches(s)
  BY FlowInitial
<1>2. FlowInv(s) /\ [Next]_vars => (Constructed /\ Turns(s) /\ Order /\ Flow(s) /\ Reaches(s))'
  <2> SUFFICES ASSUME FlowInv(s), [Next]_vars
               PROVE  /\ Constructed' /\ Turns(s)'
                      /\ Order' /\ Flow(s)' /\ Reaches(s)'
    OBVIOUS
  <2>1. ASSUME NEW t \in Threads, ThreadStep(t) \/ ThreadCall(t)
        PROVE  /\ Constructed' /\ Turns(s)'
               /\ Order' /\ Flow(s)' /\ Reaches(s)'
    BY <2>1, ConstructedThread, TurnsThread, FlowThread DEF FlowInv
  <2>2. CASE ContainerStep \/ Environment
    BY <2>2, ConstructedContainer, TurnsContainer, FlowContainer DEF FlowInv
  <2>3. CASE UNCHANGED vars
    <3> USE <2>3 DEF vars, endpoint, threads, fields, calls, proton, own, flow
    <3>1. Windows' = Windows /\ Drains' = Drains
      BY DEF Windows, Drains, Queued
    <3>2. Constructed' /\ Turns(s)'
      BY DEF FlowInv, Constructed, Turns
    <3>3. Order' /\ Flow(s)' /\ Reaches(s)'
      BY <3>1 DEF FlowInv, Order, Flow, Reaches, Waits, Started, NoCredit, NoDrain
    <3> QED
      BY <3>2, <3>3
  <2> QED
    BY <2>1, <2>2, <2>3 DEF Next
<1>3. Spec => []TypeOK
  BY TypeCorrect
<1>4. Spec => []ConsumerInv
  BY ConsumerInvariant
<1> QED
  BY <1>1, <1>2, <1>3, <1>4, PTL DEF Spec, FlowInv

(* A stop() that returned normally has halted the consumer: until its      *)
(* thread calls start() again, the link has no credit, none waits for the  *)
(* end of a drain and none is queued, whatever the broker, the transport   *)
(* and the threads that close the consumer do.                             *)
THEOREM StopHaltsTheConsumer ==
  ASSUME Alternate, NEW s \in Threads, Starters = {s}
  PROVE  Spec => []StopHalts
<1>1. FlowInv(s) => StopHalts
  BY DEF FlowInv, Turns, Flow, Order, StopHalts, NoCredit, Windows
<1> QED
  BY <1>1, FlowInvariant, PTL

(* No sequence of starts, stops, drains, messages and reconnects gives the *)
(* broker more than one window of credit.                                  *)
THEOREM OneWindowAtMost ==
  ASSUME Alternate, NEW s \in Threads, Starters = {s}
  PROVE  Spec => []AtMostOneWindow
<1>1. FlowInv(s) => AtMostOneWindow
  BY ConsumerAssumption DEF FlowInv, Order, AtMostOneWindow, Windows, TypeOK
<1> QED
  BY <1>1, FlowInvariant, PTL

(* A started consumer at rest on a link that never reconnected can receive. *)
THEOREM StartedConsumerHasCredit ==
  ASSUME Alternate, NEW s \in Threads, Starters = {s}
  PROVE  Spec => []StartedHasCredit
<1>1. FlowInv(s) => StartedHasCredit
  <2> SUFFICES ASSUME FlowInv(s), Quiescent, drops = 0, mState = "STARTED",
                      link = "attached", ~draining
               PROVE  credit > 0
    BY DEF StartedHasCredit
  <2>1. Windows = {}
    BY DEF Quiescent, Windows, Queued
  <2> QED
    BY <2>1 DEF FlowInv, Reaches
<1> QED
  BY <1>1, FlowInvariant, PTL


-----------------------------------------------------------------------------
(* The refinement: with one starter the consumer implements Credit.        *)

(* One window at most is on its way.                                       *)
LEMMA WindowSum ==
  ASSUME NEW windows, \A i, j \in windows : i = j
  PROVE  Window * Cardinality(windows) = IF windows = {} THEN 0 ELSE Window
<1>1. CASE windows = {}
  <2>1. Cardinality(windows) = 0
    BY <1>1, FS_EmptySet
  <2> QED
    BY <1>1, <2>1, ConsumerAssumption
<1>2. CASE windows # {}
  <2>1. PICK i \in windows : windows = {i}
    BY <1>2
  <2>2. Cardinality(windows) = 1
    BY <2>1, FS_Singleton
  <2> QED
    BY <1>2, <2>2, ConsumerAssumption
<1> QED
  BY <1>1, <1>2

(* So this much credit is out, before a step and after it.                 *)
LEMMA CreditBefore ==
  ASSUME Order, TypeOK
  PROVE  CreditOut = IF link = "closed" THEN 0
                     ELSE IF Windows = {} THEN credit ELSE Window
<1>1. Window * Cardinality(Windows) = IF Windows = {} THEN 0 ELSE Window
  BY WindowSum DEF Order
<1>2. CreditOut = IF link = "closed" THEN 0
                  ELSE credit + pending + Window * Cardinality(Windows)
  BY DEF CreditOut, Windows
<1>3. pending = 0 /\ credit \in Nat /\ (Windows # {} => credit = 0)
  BY DEF Order, TypeOK
<1> QED
  BY <1>1, <1>2, <1>3, ConsumerAssumption

LEMMA CreditAfter ==
  ASSUME Order', TypeOK'
  PROVE  CreditOut' = IF link' = "closed" THEN 0
                      ELSE IF Windows' = {} THEN credit' ELSE Window
<1>1. Window * Cardinality(Windows') = IF Windows' = {} THEN 0 ELSE Window
  BY WindowSum DEF Order
<1>2. CreditOut' = IF link' = "closed" THEN 0
                   ELSE credit' + pending' + Window * Cardinality(Windows')
  BY DEF CreditOut, Windows
<1>3. pending' = 0 /\ credit' \in Nat /\ (Windows' # {} => credit' = 0)
  BY DEF Order, TypeOK
<1> QED
  BY <1>1, <1>2, <1>3, ConsumerAssumption

LEMMA PhaseOfStarter ==
  ASSUME NEW s, Starters = {s}
  PROVE  /\ Phase = IF Waits(s) THEN "halting"
                    ELSE IF Started(s) THEN "flowing" ELSE "halted"
         /\ Phase' = IF Waits(s)' THEN "halting"
                     ELSE IF Started(s)' THEN "flowing" ELSE "halted"
BY DEF Phase

(* A quiet step changes at most the phase.                                 *)
LEMMA QuietCredit ==
  ASSUME Quiet
  PROVE  CreditOut' = CreditOut /\ messages' = messages
BY DEF Quiet, CreditOut, Windows, own, flow

(* And not even that, where s neither enters nor leaves start() or stop(). *)
LEMMA QuietStutters ==
  ASSUME NEW s, Starters = {s}, Quiet,
         Waits(s)' = Waits(s), Started(s)' = Started(s)
  PROVE  UNCHANGED C!vars
BY PhaseOfStarter, QuietCredit DEF C!vars

(* While nothing is started and nothing waits, no credit is out.           *)
LEMMA HaltedIsEmpty ==
  ASSUME NEW s \in Threads, FlowInv(s), ~Started(s), ~Waits(s)
  PROVE  CreditOut = 0
BY CreditBefore DEF FlowInv, Flow, NoCredit


(* s in the constructor, in close(), or waiting: only stop() that finds    *)
(* its drain finished changes the phase.                                   *)
LEMMA OwnQuietCredit ==
  ASSUME NEW s \in Threads, Starters = {s}, FlowInv(s), fault = "none",
         \/ constructor(s)
         \/ close(s)
         \/ wait(s)
         \/ callClose(s)
         \/ Spurious(s) /\ UNCHANGED own
  PROVE  UNCHANGED C!vars \/ C!Halt
<1> USE DEF FlowInv
<1>1. Quiet
  BY QuietSteps
<1>2. made' = made
  BY <1>1 DEF Quiet, own
<1>3. pc \in [Threads -> Labels] /\ DOMAIN op = Threads
  BY DEF TypeOK
<1>4. CASE Waits(s)' = Waits(s) /\ Started(s)' = Started(s)
  BY <1>1, <1>4, QuietStutters
<1> USE <1>2, <1>3 DEF Waits, Started, Goto, StopLabels, WaitLabels
<1>5. CASE constructor(s)
  <2>1. Waits(s)' = Waits(s) /\ Started(s)' = Started(s)
    BY <1>5 DEF constructor, Construct, Lock, Constructed, Turns, ConsumerInv, EndpointInv,
                ConstructorFirst
  <2> QED
    BY <1>4, <2>1
<1>6. CASE close(s)
  <2>1. CASE TestQueue(s, "closeQueue", "closeLock")
    BY <1>4, <2>1 DEF TestQueue, Turns
  <2>2. CASE LockAndAdd(s, "closeLock", "close")
    BY <1>4, <2>2 DEF LockAndAdd, Lock, calls, Turns, Closing
  <2>3. CASE Return(s)
    BY <1>4, <2>3 DEF Return, Unlock, Turns
  <2> QED
    BY <1>6, <2>1, <2>2, <2>3 DEF close, CloseStep
<1>7. CASE wait(s)
  <2>1. op'[s] = op[s]
    BY <1>7 DEF wait, WaitStep, calls
  <2>2. CASE pc'[s] \in WaitLabels
    <3>1. pc[s] \in WaitLabels
      BY <1>7 DEF wait, WaitStep, WaitCheck, WaitBlock, WaitRelock, Lock, Unlock
    <3> QED
      BY <1>4, <2>1, <2>2, <3>1
  <2>3. CASE op[s] # "stop"
    <3>1. /\ pc[s] \notin {"startQueue", "startAdd"} \cup StopLabels
          /\ pc'[s] \notin {"startQueue", "startAdd"} \cup StopLabels
      BY <1>7 DEF wait, WaitStep, WaitCheck, WaitBlock, WaitRelock, Lock, Unlock
    <3> QED
      BY <1>4, <2>1, <2>3, <3>1
  <2>4. CASE op[s] = "stop" /\ pc'[s] \notin WaitLabels
    <3>1. pc[s] = "check" /\ pc'[s] = "ready" /\ mState = "STOPPED"
      BY <1>7, <2>4 DEF wait, WaitStep, WaitCheck, WaitBlock, WaitRelock, Lock, Unlock
    <3>2. Waits(s) /\ ~Waits(s)' /\ ~Started(s)'
      BY <2>1, <2>4, <3>1 DEF Turns
    <3>3. Phase = "halting" /\ Phase' = "halted"
      BY <3>2, PhaseOfStarter
    <3>4. NoCredit
      BY <3>1, <3>2 DEF Flow
    <3>5. CreditOut = 0
      BY <3>4, CreditBefore DEF NoCredit
    <3> QED
      BY <1>1, <3>3, <3>5, QuietCredit DEF C!Halt
  <2> QED
    BY <2>2, <2>3, <2>4
<1>8. CASE callClose(s)
  <2>1. Waits(s)' = Waits(s) /\ Started(s)' = Started(s)
    BY <1>8 DEF callClose, CallClose, Begin, Turns, Closing
  <2> QED
    BY <1>4, <2>1
<1>9. CASE Spurious(s)
  <2>1. Waits(s)' = Waits(s) /\ Started(s)' = Started(s)
    BY <1>9 DEF Spurious, SpuriousWakeup, calls
  <2> QED
    BY <1>4, <2>1
<1> QED
  BY <1>5, <1>6, <1>7, <1>8, <1>9

(* A call of start() or stop() does nothing yet.                           *)
LEMMA CallCredit ==
  ASSUME NEW s \in Threads, Starters = {s}, FlowInv(s), Alternate,
         Call(s, "start", "startQueue") \/ Call(s, "stop", "stopQueue")
  PROVE  UNCHANGED C!vars
<1>1. pc \in [Threads -> Labels] /\ DOMAIN op = Threads /\ made \in [Threads -> Nat]
  BY DEF FlowInv, TypeOK
<1>2. /\ pc[s] = "idle" /\ UNCHANGED <<credit, pending, messages, link, workQueue>>
      /\ made'[s] = made[s] + 1 /\ made[s] \in Nat
  BY <1>1 DEF Call, Begin, proton, flow
<1>3. CreditOut' = CreditOut
  BY <1>2 DEF CreditOut, Queued
<1>4. Waits(s)' = Waits(s) /\ Started(s)' = Started(s)
  <2> USE DEF Waits, Started, StopLabels, WaitLabels, Goto
  <2>1. CASE Call(s, "start", "startQueue")
    <3>1. made[s] % 2 = 0 /\ pc'[s] = "startQueue" /\ op'[s] = "start"
      BY <1>1, <2>1 DEF Call, InTurn, Begin
    <3> QED
      BY <1>2, <3>1
  <2>2. CASE Call(s, "stop", "stopQueue")
    <3>1. made[s] % 2 # 0 /\ pc'[s] = "stopQueue" /\ op'[s] = "stop"
      BY <1>1, <2>2 DEF Call, InTurn, Begin
    <3>2. made[s] % 2 = 1
      BY <1>2, <3>1
    <3> QED
      BY <1>2, <3>1, <3>2
  <2> QED
    BY <2>1, <2>2
<1> QED
  BY <1>2, <1>3, <1>4, PhaseOfStarter DEF C!vars


(* start(): it lets a window out at its add_credit, or nothing if it finds *)
(* the link closed.                                                        *)
LEMMA StartCredit ==
  ASSUME NEW s \in Threads, Starters = {s}, FlowInv(s), Order', TypeOK',
         fault = "none", start(s)
  PROVE  UNCHANGED C!vars \/ C!Start
<1> USE DEF FlowInv
<1>1. pc \in [Threads -> Labels] /\ workQueue \in Seq(Work)
  BY DEF TypeOK
<1>2. UNCHANGED <<made, credit, pending, messages>>
  BY DEF start, own, flow
<1>3. op[s] = "start" /\ op' = op /\ made[s] % 2 = 1 /\ ~Waits(s) /\ ~Waits(s)'
  BY DEF start, TestQueue, calls, ConsumerInv, InStart, Turns, Waits
<1>4. ~mWorkQueue => link = "closed"
  BY <1>3, NullMeansClosed
<1> USE DEF Started, Goto, StopLabels
<1>5. CASE TestQueue(s, "startQueue", "startAdd")
  <2>1. Quiet
    BY <1>5, QuietSteps DEF start
  <2>2. /\ pc[s] = "startQueue" /\ ~Started(s)
        /\ pc'[s] = IF mWorkQueue THEN "startAdd" ELSE "idle"
    BY <1>1, <1>5 DEF TestQueue
  <2>3. CASE mWorkQueue
    <3>1. Waits(s)' = Waits(s) /\ Started(s)' = Started(s)
      BY <1>3, <2>2, <2>3 DEF Waits, WaitLabels
    <3> QED
      BY <2>1, <3>1, QuietStutters
  <2>4. CASE ~mWorkQueue
    <3>1. Started(s)'
      BY <1>2, <1>3, <2>2, <2>4
    <3>2. CreditOut = 0
      BY <1>3, <2>2, HaltedIsEmpty
    <3> QED
      BY <1>3, <2>1, <2>2, <3>1, <3>2, PhaseOfStarter, QuietCredit DEF C!Start
  <2> QED
    BY <2>3, <2>4
<1>6. CASE /\ pc[s] = "startAdd" /\ Goto(s, "startState")
           /\ AddOrCrash(s, "add_credit", 0)
           /\ UNCHANGED <<mMutex, fields, calls, container, link, drops>>
  <2>1. ~Started(s) /\ Started(s)' /\ link' = link
    BY <1>1, <1>2, <1>3, <1>6
  <2>2. CreditOut = 0
    BY <1>3, <2>1, HaltedIsEmpty
  <2>3. CreditOut' \in {0, Window}
    <3>1. CASE mWorkQueue
      <4>1. Windows' # {}
        BY <1>1, <1>6, <3>1, AddQueues DEF AddOrCrash, Kinds
      <4> QED
        BY <4>1, CreditAfter
    <3>2. CASE ~mWorkQueue
      BY <1>4, <2>1, <3>2, CreditAfter
    <3> QED
      BY <3>1, <3>2
  <2> QED
    BY <1>2, <1>3, <2>1, <2>2, <2>3, PhaseOfStarter DEF C!Start
<1>7. CASE /\ pc[s] = "startState" /\ Goto(s, "idle") /\ Ends(s, "returned")
           /\ mState' = "STARTED"
           /\ UNCHANGED <<mMutex, mWorkQueue, op, life, fault, proton>>
  <2>1. Started(s)' = Started(s)
    BY <1>1, <1>2, <1>3, <1>7
  <2>2. CreditOut' = CreditOut
    BY <1>2, <1>7 DEF CreditOut, Queued, proton
  <2> QED
    BY <1>2, <1>3, <2>1, <2>2, PhaseOfStarter DEF C!vars
<1> QED
  BY <1>5, <1>6, <1>7 DEF start

(* stop(): it queues its drain, or throws because the link is closed.      *)
LEMMA StopCredit ==
  ASSUME NEW s \in Threads, Starters = {s}, FlowInv(s), Order', TypeOK',
         fault = "none", stop(s)
  PROVE  UNCHANGED C!vars \/ C!Stop \/ C!Halt
<1> USE DEF FlowInv
<1>1. pc \in [Threads -> Labels] /\ workQueue \in Seq(Work)
  BY DEF TypeOK
<1>2. UNCHANGED <<made, credit, pending, messages>>
  BY DEF stop, own, flow
<1>3. /\ op[s] = "stop" /\ op' = op /\ made[s] % 2 = 0
      /\ pc[s] \in StopLabels /\ Started(s) /\ ~Waits(s)
  BY DEF stop, TestQueue, LockAndAdd, Lock, calls, Turns, StopLabels, WaitLabels, Waits, Started
<1>4. ~mWorkQueue => link = "closed"
  BY <1>3, NullMeansClosed
<1> USE DEF Goto, StopLabels, WaitLabels
<1>5. CASE TestQueue(s, "stopQueue", "stopLock")
  <2>1. Quiet
    BY <1>5, QuietSteps DEF stop
  <2>2. /\ pc'[s] = IF mWorkQueue THEN "stopLock" ELSE "idle"
        /\ ~Waits(s)'
    BY <1>1, <1>5 DEF TestQueue, Waits
  <2>3. CASE mWorkQueue
    <3>1. pc'[s] \in StopLabels /\ pc'[s] \notin WaitLabels
      BY <2>2, <2>3
    <3>2. Waits(s)' = Waits(s) /\ Started(s)' = Started(s)
      BY <1>3, <3>1 DEF Waits, Started
    <3> QED
      BY <2>1, <3>2, QuietStutters
  <2>4. CASE ~mWorkQueue
    <3>1. ~Started(s)'
      BY <1>2, <1>3, <2>2, <2>4 DEF Started
    <3>2. CreditOut = 0
      BY <1>4, <2>4, CreditBefore
    <3> QED
      BY <1>3, <2>1, <2>2, <3>1, <3>2, PhaseOfStarter, QuietCredit DEF C!Halt
  <2> QED
    BY <2>3, <2>4
<1>6. CASE LockAndAdd(s, "stopLock", "drain")
  <2>1. link' = link /\ Waits(s)'
    BY <1>1, <1>3, <1>6 DEF LockAndAdd, Lock, Waits
  <2>2. Windows' = Windows
    <3>1. CASE mWorkQueue
      BY <1>1, <1>6, <3>1, AddQueues DEF LockAndAdd, AddOrCrash, Kinds
    <3>2. CASE ~mWorkQueue
      BY <1>6, <3>2 DEF LockAndAdd, AddOrCrash, Windows, Queued
    <3> QED
      BY <3>1, <3>2
  <2>3. CreditOut' = CreditOut
    BY <1>2, <2>1, <2>2, CreditBefore, CreditAfter
  <2> QED
    BY <1>2, <1>3, <2>1, <2>3, PhaseOfStarter DEF C!Stop
<1> QED
  BY <1>5, <1>6 DEF stop

(* The steps of the application's threads.                                 *)
LEMMA ThreadImplementsCredit ==
  ASSUME Alternate, NEW s \in Threads, Starters = {s}, FlowInv(s), Order', TypeOK',
         NEW t \in Threads, ThreadStep(t) \/ ThreadCall(t)
  PROVE  [C!Next]_C!vars
<1>1. CASE t # s
  <2>1. Quiet /\ op'[s] = op[s] /\ pc'[s] = pc[s]
    BY <1>1, OthersQuiet DEF FlowInv
  <2>2. Waits(s)' = Waits(s) /\ Started(s)' = Started(s)
    BY <2>1 DEF Quiet, Waits, Started, own
  <2> QED
    BY <2>1, <2>2, QuietStutters
<1>2. CASE t = s
  <2>1. fault = "none"
    BY DEF ThreadStep, ThreadCall
  <2> QED
    BY <1>2, <2>1, OwnQuietCredit, CallCredit, StartCredit, StopCredit
       DEF ThreadStep, ThreadCall, C!Next
<1> QED
  BY <1>1, <1>2

(* A step of the container that takes the credit, or leaves it.            *)
LEMMA ContainerExpires ==
  ASSUME NEW s \in Threads, Starters = {s}, FlowInv(s), ContainerStep \/ Environment,
         messages' = messages, CreditOut' \in {0, CreditOut}
  PROVE  [C!Next]_C!vars
<1>1. Phase' = Phase
  BY StaysWhereItIs, PhaseOfStarter DEF FlowInv
<1> QED
  BY <1>1 DEF C!Next, C!Expire, C!vars

(* The lambdas.                                                            *)
LEMMA LambdasKeepCredit ==
  ASSUME NEW s \in Threads, FlowInv(s), Order', TypeOK',
         \/ RunAddCredit
         \/ RunDrain
         \/ (RunOpen \/ RunClose) /\ UNCHANGED own
  PROVE  messages' = messages /\ CreditOut' \in {0, CreditOut}
<1> USE DEF FlowInv
<1>1. workQueue \in Seq(Work) /\ Window \in Nat
  BY ConsumerAssumption DEF TypeOK
<1>2. CASE RunAddCredit
  <2>1. Run("add_credit") /\ messages' = messages /\ link' = link
    BY <1>2 DEF RunAddCredit
  <2>2. 1 \in Windows
    BY <1>1, <2>1, RunQueues
  <2>3. Windows' = {}
    <3> SUFFICES ASSUME NEW i \in Windows'
                 PROVE  FALSE
      OBVIOUS
    <3>1. i \in Nat \ {0} /\ i + 1 \in Windows
      BY <1>1, <2>1, RunQueues
    <3>2. i + 1 = 1
      BY <2>2, <3>1 DEF Order
    <3> QED
      BY <3>1, <3>2
  <2>4. credit = 0 /\ ~draining
    BY <2>2 DEF Order
  <2>5. credit' \in {0, Window}
    BY <1>1, <1>2, <2>4 DEF RunAddCredit, AddCredit
  <2> QED
    BY <2>1, <2>2, <2>3, <2>5, CreditBefore, CreditAfter
<1>3. ASSUME NEW kind, Run(kind), kind # "add_credit",
             UNCHANGED <<credit, messages>>, link' = "closed" <=> link = "closed"
      PROVE  messages' = messages /\ CreditOut' = CreditOut
  <2>1. Windows' = {} <=> Windows = {}
    BY <1>1, <1>3, RunQueues
  <2> QED
    BY <1>3, <2>1, CreditBefore, CreditAfter
<1>4. CASE RunDrain
  BY <1>3, <1>4 DEF RunDrain
<1>5. CASE (RunOpen \/ RunClose) /\ UNCHANGED own
  <2>1. UNCHANGED <<credit, messages>>
    BY <1>5 DEF own, flow
  <2>2. CASE RunOpen
    <3>1. link = "none"
      BY <2>2 DEF RunOpen, Run, ConsumerInv, EndpointInv, OpenedOnce, Handles
    <3> QED
      BY <1>3, <2>1, <2>2, <3>1 DEF RunOpen
  <2>3. CASE RunClose
    BY <1>3, <2>1, <2>3 DEF RunClose
  <2> QED
    BY <1>5, <2>2, <2>3
<1> QED
  BY <1>2, <1>4, <1>5

(* The handlers that deliver nothing.                                      *)
LEMMA HandlersKeepCredit ==
  ASSUME NEW s \in Threads, FlowInv(s), Order', TypeOK',
         \/ NotifyCv
         \/ on_receiver_closed
         \/ on_receiver_open
         \/ on_receiver_close
         \/ on_receiver_detach
         \/ on_receiver_drain_finish
         \/ Disconnect
         \/ TransportClose /\ UNCHANGED own
  PROVE  messages' = messages /\ CreditOut' \in {0, CreditOut}
<1> USE DEF FlowInv
<1>1. Windows' = Windows
  BY HandlersKeepQueue DEF Environment
<1>2. messages' = messages /\ credit' \in {credit, 0}
  <2>1. CASE UNCHANGED own
    BY <2>1 DEF own, flow
  <2> QED
    BY <2>1 DEF NotifyCv, on_receiver_closed, on_receiver_open, on_receiver_close,
                on_receiver_detach, on_receiver_drain_finish, Disconnect, Order
<1>3. link = "closed" => link' = "closed"
  BY DEF NotifyCv, Notify, on_receiver_closed, OnCloseState, on_receiver_open, OnOpen,
         OnOpenThrows, on_receiver_close, OnClose, on_receiver_detach,
         on_receiver_drain_finish, Disconnect, Reconnect, TransportClose
<1> QED
  BY <1>1, <1>2, <1>3, CreditBefore, CreditAfter

(* on_message: there is credit, so s has started, or its stop() waits.     *)
LEMMA MessageDelivers ==
  ASSUME NEW s \in Threads, Starters = {s}, FlowInv(s), Order', TypeOK', on_message
  PROVE  C!Deliver
<1> USE DEF FlowInv
<1>1. /\ link = "attached" /\ credit > 0 /\ messages' = messages + 1
      /\ credit' = IF draining THEN credit - 1 ELSE credit
      /\ link' = link /\ credit \in Nat
  BY DEF on_message, Replenish, endpoint, proton, TypeOK
<1>2. Windows = {} /\ Windows' = {}
  <2>1. Windows' = Windows
    BY HandlersKeepQueue DEF Environment
  <2>2. Windows = {}
    BY <1>1 DEF Order
  <2> QED
    BY <2>1, <2>2
<1>3. CreditOut = credit /\ CreditOut' = credit'
  BY <1>1, <1>2, CreditBefore, CreditAfter
<1>4. Phase' = Phase
  BY StaysWhereItIs, PhaseOfStarter DEF Environment
<1>5. draining => Phase = "halting"
  BY PhaseOfStarter DEF Flow, NoDrain
<1> QED
  BY <1>1, <1>3, <1>4, <1>5 DEF C!Deliver

(* Every step of the consumer is a step of Credit or leaves its variables  *)
(* alone.                                                                  *)
LEMMA StepsImplementCredit ==
  ASSUME Alternate, NEW s \in Threads, Starters = {s}, FlowInv(s), FlowInv(s)', [Next]_vars
  PROVE  [C!Next]_C!vars
<1>1. Order' /\ TypeOK'
  BY DEF FlowInv
<1>2. ASSUME NEW t \in Threads, ThreadStep(t) \/ ThreadCall(t)
      PROVE  [C!Next]_C!vars
  BY <1>1, <1>2, ThreadImplementsCredit
<1>3. CASE on_message
  BY <1>1, <1>3, MessageDelivers DEF C!Next
<1>4. CASE ContainerStep
  BY <1>1, <1>4, LambdasKeepCredit, HandlersKeepCredit, ContainerExpires DEF ContainerStep
<1>5. CASE Environment /\ ~on_message
  BY <1>1, <1>5, HandlersKeepCredit, ContainerExpires DEF Environment
<1>6. CASE UNCHANGED vars
  <2>1. Phase' = Phase
    BY <1>6 DEF vars, endpoint, threads, calls, own, Phase, Waits, Started
  <2>2. CreditOut' = CreditOut /\ messages' = messages
    BY <1>6 DEF vars, endpoint, proton, own, flow, CreditOut, Queued
  <2> QED
    BY <2>1, <2>2 DEF C!vars
<1> QED
  BY <1>2, <1>3, <1>4, <1>5, <1>6 DEF Next

(* The consumer implements Credit, for any number of threads that close    *)
(* it, any window and any broker: its start() and stop(), which only queue *)
(* lambdas and wait, are the atomic steps of an on and off switch.         *)
THEOREM ConsumerImplementsCredit ==
  ASSUME Alternate, NEW s \in Threads, Starters = {s}
  PROVE  Spec => ImplementsCredit
<1>1. Init => C!Init
  <2> SUFFICES ASSUME Init
               PROVE  C!Init
    OBVIOUS
  <2>1. /\ workQueue = <<>> /\ credit = 0 /\ pending = 0 /\ messages = 0
        /\ ~Waits(s) /\ ~Started(s)
    BY EndpointAssumption DEF Init, EndpointInit, Waits, Started, StopLabels, WaitLabels
  <2>2. Queued("add_credit") = {}
    BY <2>1 DEF Queued
  <2>3. CreditOut = 0
    <3>1. Window * Cardinality(Queued("add_credit")) = 0
      BY <2>2, WindowSum
    <3> QED
      BY <2>1, <3>1 DEF CreditOut
  <2> QED
    BY <2>1, <2>3, PhaseOfStarter DEF C!Init
<1>2. FlowInv(s) /\ FlowInv(s)' /\ [Next]_vars => [C!Next]_C!vars
  BY StepsImplementCredit
<1> QED
  BY <1>1, <1>2, FlowInvariant, PTL DEF Spec, ImplementsCredit, C!Spec

=============================================================================
