-------------------------- MODULE Endpoint_proofs --------------------------
(***************************************************************************)
(* What the steps of an Endpoint preserve, for every number of threads and *)
(* every bound: the facts that both the producer's and the consumer's      *)
(* proofs of ReturnedCloseIsClosed rest on.                                *)
(*                                                                         *)
(* The argument: a link is opened by one lambda only, the constructor's,   *)
(* which runs before anything else.  So a closed link stays closed, and    *)
(* with it the null work queue.  A close() that returns has seen CLOSED,   *)
(* which on_*_close writes after it closed the link.                       *)
(***************************************************************************)
EXTENDS Endpoint, TLAPS

(* What the proofs need of the variables' types.                           *)
EndpointTypes ==
  /\ DOMAIN pc = Threads
  /\ DOMAIN op = Threads
  /\ DOMAIN ret = Threads
  /\ mWorkQueue \in BOOLEAN
  /\ workQueue \in Seq(Work)

(* Until the constructor has queued its lambda, nothing else happens.      *)
ConstructorFirst ==
  /\ \A t \in Threads : pc[t] = "ctor" => t = Creator
  /\ pc[Creator] = "ctor" =>
       /\ life = "constructing"
       /\ link = "none"
       /\ workQueue = <<>>
       /\ \A t \in Threads \ {Creator} : pc[t] = "idle"

(* The lambda that opens the link is the first one, on a link that never   *)
(* was.                                                                    *)
OpenedOnce ==
  \A i \in DOMAIN workQueue :
    workQueue[i].kind = "open" => i = 1 /\ link = "none"

(* What is known of a link that on_*_close has closed.                     *)
ClosedForGood ==
  /\ link = "closed" => ~mWorkQueue
  /\ mState = "CLOSED" \/ container = "setClosed" => link = "closed"
  /\ \A t \in Threads :
       op[t] \in Closing /\ (pc[t] = "ready" \/ ret[t] = "returned")
         => link = "closed"

EndpointInv ==
  /\ EndpointTypes
  /\ ConstructorFirst
  /\ OpenedOnce
  /\ ClosedForGood

-----------------------------------------------------------------------------
(* The initial state of an Endpoint satisfies the invariant.               *)
LEMMA EndpointInitial == EndpointInit => EndpointInv
BY EndpointAssumption
   DEF EndpointInit, EndpointInv, EndpointTypes, ConstructorFirst, OpenedOnce,
       ClosedForGood, Work, Kinds, Closing

(* What mWorkQueue->add does to the queue.                                 *)
LEMMA AddAppends ==
  ASSUME workQueue \in Seq(Work), NEW t \in Threads, NEW kind \in Kinds,
         NEW n \in Nat, Add(t, kind, n)
  PROVE  /\ workQueue' \in Seq(Work)
         /\ DOMAIN workQueue' = 1..(Len(workQueue) + 1)
         /\ \A i \in DOMAIN workQueue : workQueue'[i] = workQueue[i]
         /\ workQueue'[Len(workQueue) + 1].kind = kind
<1> DEFINE w == [kind |-> kind, by |-> t, n |-> n]
<1>1. w \in Work /\ w.kind = kind
  BY DEF Work
<1>2. workQueue' = Append(workQueue, w)
  BY DEF Add
<1> HIDE DEF w
<1> QED
  BY <1>1, <1>2

(* The constructor's first step puts the one lambda that opens the link    *)
(* into an empty queue.                                                    *)
LEMMA ConstructStep ==
  ASSUME EndpointInv, NEW t \in Threads, Construct(t)
  PROVE  EndpointInv'
<1> USE EndpointAssumption DEF EndpointInv, EndpointTypes, Construct, Lock, Goto,
        Ends, fields
<1>1. t = Creator /\ workQueue = <<>> /\ link = "none"
  BY DEF ConstructorFirst
<1>2. /\ workQueue' \in Seq(Work)
      /\ DOMAIN workQueue' \subseteq {1}
  <2>1. CASE Add(t, "open", 0)
    BY <1>1, <2>1, AddAppends DEF Kinds
  <2>2. CASE UNCHANGED workQueue
    BY <1>1, <2>2
  <2> QED
    BY <2>1, <2>2
<1>3. EndpointTypes'
  BY <1>2
<1>4. ConstructorFirst'
  BY <1>1 DEF ConstructorFirst
<1>5. OpenedOnce'
  BY <1>1, <1>2 DEF OpenedOnce
<1>6. ClosedForGood'
  BY <1>1 DEF ClosedForGood, Closing
<1> QED
  BY <1>3, <1>4, <1>5, <1>6

(* A thread moves on inside an operation: it tests a pointer, throws, goes *)
(* to sleep, wakes up.  It neither queues a lambda nor passes its wait.    *)
LEMMA ThreadMoves ==
  ASSUME EndpointInv, NEW t \in Threads, NEW to,
         pc[t] \notin {"ctor", "idle"}, to \notin {"ctor", "ready"}, Goto(t, to),
         \/ ret' = ret
         \/ Ends(t, "CMSException")
         \/ op[t] \notin Closing /\ Ends(t, "returned"),
         mState' = mState \/ mState' # "CLOSED",
         UNCHANGED <<mWorkQueue, op, life, workQueue, container, link>>
  PROVE  EndpointInv'
<1> USE EndpointAssumption DEF EndpointInv, EndpointTypes, Goto, Ends
<1>1. EndpointTypes'
  OBVIOUS
<1>2. pc[Creator] # "ctor"
  BY DEF ConstructorFirst
<1>3. ConstructorFirst'
  BY <1>2 DEF ConstructorFirst
<1>4. OpenedOnce'
  BY DEF OpenedOnce
<1>5. ClosedForGood'
  BY DEF ClosedForGood, Closing
<1> QED
  BY <1>1, <1>3, <1>4, <1>5

(* A thread queues a lambda other than the one that opens the link.        *)
LEMMA AddStep ==
  ASSUME EndpointInv, NEW t \in Threads, NEW to, NEW kind \in Kinds, NEW n \in Nat,
         pc[t] \notin {"ctor", "idle"}, to \notin {"ctor", "ready"}, Goto(t, to),
         kind # "open", AddOrCrash(t, kind, n),
         ret' = ret \/ (op[t] \notin Closing /\ Ends(t, "returned")),
         UNCHANGED <<fields, op, life, container, link>>
  PROVE  EndpointInv'
<1> USE EndpointAssumption DEF EndpointInv, EndpointTypes, Goto, Ends, AddOrCrash,
        fields
<1>1. workQueue' \in Seq(Work) /\ OpenedOnce'
  <2>1. CASE Add(t, kind, n)
    BY <2>1, AddAppends DEF OpenedOnce
  <2>2. CASE UNCHANGED workQueue
    BY <2>2 DEF OpenedOnce
  <2> QED
    BY <2>1, <2>2
<1>2. EndpointTypes'
  BY <1>1
<1>3. pc[Creator] # "ctor"
  BY DEF ConstructorFirst
<1>4. ConstructorFirst'
  BY <1>3 DEF ConstructorFirst
<1>5. ClosedForGood'
  BY DEF ClosedForGood, Closing
<1> QED
  BY <1>1, <1>2, <1>4, <1>5

(* A thread calls an operation other than close().                         *)
LEMMA CallStep ==
  ASSUME EndpointInv, NEW t \in Threads, NEW what, NEW label,
         what \notin Closing, label # "ctor", Begin(t, what, label),
         Ends(t, "none"), UNCHANGED <<fields, life, proton>>
  PROVE  EndpointInv'
<1> USE EndpointAssumption DEF EndpointInv, EndpointTypes, Begin, Goto, Ends,
        fields, proton
<1>1. EndpointTypes'
  OBVIOUS
<1>2. pc[Creator] # "ctor"
  BY DEF ConstructorFirst
<1>3. ConstructorFirst'
  BY <1>2 DEF ConstructorFirst
<1>4. OpenedOnce'
  BY DEF OpenedOnce
<1>5. ClosedForGood'
  BY DEF ClosedForGood, Closing
<1> QED
  BY <1>1, <1>3, <1>4, <1>5

(* close() on a CLOSED object returns at once, on a closed link.           *)
LEMMA CallCloseStep ==
  ASSUME EndpointInv, NEW t \in Threads, NEW what \in Closing, CallClose(t, what)
  PROVE  EndpointInv'
<1> USE EndpointAssumption DEF EndpointInv, EndpointTypes, CallClose, Begin, Goto,
        Ends, fields, proton
<1>1. EndpointTypes'
  OBVIOUS
<1>2. pc[Creator] # "ctor"
  BY DEF ConstructorFirst
<1>3. ConstructorFirst'
  BY <1>2 DEF ConstructorFirst
<1>4. OpenedOnce'
  BY DEF OpenedOnce
<1>5. ClosedForGood'
  BY DEF ClosedForGood, Closing
<1> QED
  BY <1>1, <1>3, <1>4, <1>5

(* if (mWorkQueue) ... else throw, in any operation.                       *)
LEMMA TestQueueStep ==
  ASSUME EndpointInv, NEW t \in Threads, NEW from, NEW to,
         from \notin {"ctor", "idle"}, to \notin {"ctor", "ready"},
         TestQueue(t, from, to)
  PROVE  EndpointInv'
<1>1. /\ pc[t] = from
      /\ UNCHANGED <<mState, mWorkQueue, op, life, workQueue, container, link>>
  BY DEF TestQueue, fields, proton
<1>2. CASE Goto(t, to) /\ ret' = ret
  BY <1>1, <1>2, ThreadMoves
<1>3. CASE Goto(t, "idle") /\ Ends(t, "CMSException")
  BY <1>1, <1>3, ThreadMoves
<1> QED
  BY <1>2, <1>3 DEF TestQueue

(* The lock is taken and a lambda is queued.                               *)
LEMMA LockAndAddStep ==
  ASSUME EndpointInv, NEW t \in Threads, NEW from, NEW kind \in Kinds,
         from \notin {"ctor", "idle"}, kind # "open", LockAndAdd(t, from, kind)
  PROVE  EndpointInv'
<1>1. /\ pc[t] = from
      /\ Goto(t, "check")
      /\ AddOrCrash(t, kind, 0)
      /\ UNCHANGED <<fields, op, life, ret, container, link>>
  BY DEF LockAndAdd, Lock, calls
<1> QED
  BY <1>1, AddStep

(* close() asks for a close of the link.                                   *)
LEMMA CloseStepStep ==
  ASSUME EndpointInv, NEW t \in Threads, CloseStep(t)
  PROVE  EndpointInv'
<1>1. CASE TestQueue(t, "closeQueue", "closeLock")
  BY <1>1, TestQueueStep
<1>2. CASE LockAndAdd(t, "closeLock", "close")
  BY <1>2, LockAndAddStep DEF Kinds
<1> QED
  BY <1>1, <1>2 DEF CloseStep

(* cv.wait: a thread in close() passes its wait only when it sees CLOSED.  *)
LEMMA WaitStepStep ==
  ASSUME EndpointInv, NEW t \in Threads, NEW predicate, WaitStep(t, predicate),
         op[t] \in Closing /\ predicate => mState = "CLOSED"
  PROVE  EndpointInv'
<1>1. UNCHANGED <<mState, mWorkQueue, op, ret, life, workQueue, container, link>>
  BY DEF WaitStep, fields, calls, proton
<1>2. CASE WaitCheck(t, predicate)
  <2> USE EndpointAssumption DEF EndpointInv, EndpointTypes, WaitCheck, Goto
  <2>1. EndpointTypes'
    BY <1>1, <1>2
  <2>2. pc[Creator] # "ctor"
    BY <1>2 DEF ConstructorFirst
  <2>3. ConstructorFirst'
    BY <1>1, <1>2, <2>2 DEF ConstructorFirst
  <2>4. OpenedOnce'
    BY <1>1 DEF OpenedOnce
  <2>5. ClosedForGood'
    BY <1>1, <1>2 DEF ClosedForGood
  <2> QED
    BY <2>1, <2>3, <2>4, <2>5
<1>3. CASE WaitBlock(t)
  <2>1. pc[t] = "block" /\ Goto(t, "blocked")
    BY <1>3 DEF WaitBlock, Unlock
  <2> QED
    BY <1>1, <2>1, ThreadMoves
<1>4. CASE WaitRelock(t)
  <2>1. pc[t] = "relock" /\ Goto(t, "check")
    BY <1>4 DEF WaitRelock, Lock
  <2> QED
    BY <1>1, <2>1, ThreadMoves
<1> QED
  BY <1>2, <1>3, <1>4 DEF WaitStep

(* A spurious wakeup.                                                      *)
LEMMA SpuriousStep ==
  ASSUME EndpointInv, NEW t \in Threads, Spurious(t)
  PROVE  EndpointInv'
<1>1. /\ pc[t] = "blocked"
      /\ Goto(t, "relock")
      /\ UNCHANGED <<mState, mWorkQueue, op, ret, life, workQueue, container, link>>
  BY DEF Spurious, SpuriousWakeup, fields, calls, proton
<1> QED
  BY <1>1, ThreadMoves

(* An operation that passed its wait returns.                              *)
LEMMA ReturnStep ==
  ASSUME EndpointInv, NEW t \in Threads, Return(t)
  PROVE  EndpointInv'
<1> USE EndpointAssumption DEF EndpointInv, EndpointTypes, Return, Unlock, Goto,
        Ends, fields, proton
<1>1. EndpointTypes'
  OBVIOUS
<1>2. pc[Creator] # "ctor"
  BY DEF ConstructorFirst
<1>3. ConstructorFirst'
  BY <1>2 DEF ConstructorFirst
<1>4. OpenedOnce'
  BY DEF OpenedOnce
<1>5. ClosedForGood'
  BY DEF ClosedForGood, Closing
<1> QED
  BY <1>1, <1>3, <1>4, <1>5

(* The container's thread runs the next lambda.  The first one opens the   *)
(* link; any other leaves a closed link closed.                            *)
LEMMA RunStep ==
  ASSUME EndpointInv, NEW kind, Run(kind), container' # "setClosed",
         \/ kind = "open" /\ link' # "closed"
         \/ kind # "open" /\ (link' = link \/ (link # "closed" /\ link' # "closed"))
  PROVE  EndpointInv'
<1> USE EndpointAssumption DEF EndpointInv, EndpointTypes
<1>1. /\ workQueue # <<>> /\ workQueue[1].kind = kind
      /\ workQueue' = Tail(workQueue)
      /\ container = "loop"
      /\ UNCHANGED <<mMutex, pc, mState, mWorkQueue, op, ret, life>>
  BY DEF Run, Handles, threads, fields, calls
<1>2. /\ workQueue' \in Seq(Work)
      /\ \A i \in DOMAIN workQueue' : i + 1 \in DOMAIN workQueue /\ i + 1 # 1
                                      /\ workQueue'[i] = workQueue[i + 1]
  BY <1>1
<1>3. kind = "open" => link = "none"
  BY <1>1 DEF OpenedOnce
<1>4. EndpointTypes'
  BY <1>1, <1>2
<1>5. ConstructorFirst'
  BY <1>1 DEF ConstructorFirst
<1>6. OpenedOnce'
  BY <1>2 DEF OpenedOnce
<1>7. ClosedForGood'
  BY <1>1, <1>3 DEF ClosedForGood
<1> QED
  BY <1>4, <1>5, <1>6, <1>7

(* The lambda of the constructor opens the link.                           *)
LEMMA RunOpenStep == ASSUME EndpointInv, RunOpen PROVE EndpointInv'
BY RunStep DEF RunOpen, Run, Handles

(* The lambda of close() leaves a closed link closed.                      *)
LEMMA RunCloseStep == ASSUME EndpointInv, RunClose PROVE EndpointInv'
BY RunStep DEF RunClose, Run, Handles

(* A handler other than on_*_close: it neither closes the link nor touches *)
(* a closed one.                                                           *)
LEMMA HandlerStep ==
  ASSUME EndpointInv, container' # "setClosed",
         link' = link \/ (link \notin {"none", "closed"} /\ link' \notin {"none", "closed"}),
         mWorkQueue' = mWorkQueue \/ (mWorkQueue' \in BOOLEAN /\ link' # "closed"),
         mState' = mState \/ mState' # "CLOSED",
         UNCHANGED <<pc, op, ret, life, workQueue>>
  PROVE  EndpointInv'
<1> USE DEF EndpointInv, EndpointTypes
<1>1. EndpointTypes'
  OBVIOUS
<1>2. ConstructorFirst'
  BY DEF ConstructorFirst
<1>3. OpenedOnce'
  <2> SUFFICES ASSUME NEW i \in DOMAIN workQueue, workQueue[i].kind = "open"
               PROVE  i = 1 /\ link' = "none"
    BY DEF OpenedOnce
  <2> QED
    BY DEF OpenedOnce
<1>4. ClosedForGood'
  BY DEF ClosedForGood
<1> QED
  BY <1>1, <1>2, <1>3, <1>4

(* on_*_open, whether createCMSDestination throws or not.                  *)
LEMMA OnOpenStep == ASSUME EndpointInv, OnOpen \/ OnOpenThrows PROVE EndpointInv'
BY HandlerStep DEF OnOpen, OnOpenThrows, threads, calls

(* A reconnect finds the link attached.                                    *)
LEMMA ReconnectStep == ASSUME EndpointInv, Reconnect PROVE EndpointInv'
BY HandlerStep DEF Reconnect, Handles, threads, fields, calls

(* The end of the transport leaves everything as it is.                    *)
LEMMA TransportCloseStep == ASSUME EndpointInv, TransportClose PROVE EndpointInv'
BY HandlerStep DEF TransportClose, threads, fields, calls

(* on_*_close: the link and the queue pointer, then the state.             *)
LEMMA OnCloseStep == ASSUME EndpointInv, OnClose \/ OnCloseState PROVE EndpointInv'
<1> USE DEF EndpointInv, EndpointTypes, OnClose, OnCloseState, threads, calls
<1>1. EndpointTypes'
  OBVIOUS
<1>2. ConstructorFirst'
  BY DEF ConstructorFirst, ClosedForGood
<1>3. OpenedOnce'
  BY DEF OpenedOnce, ClosedForGood
<1>4. ClosedForGood'
  BY DEF ClosedForGood
<1> QED
  BY <1>1, <1>2, <1>3, <1>4

(* notify_one moves one sleeping thread, which is in no constructor.       *)
LEMMA NotifyStep ==
  ASSUME EndpointInv, NEW at, NEW waiters \in SUBSET Threads, Notify(at, waiters)
  PROVE  EndpointInv'
<1> USE EndpointAssumption DEF EndpointInv, EndpointTypes
<1>1. /\ container' = "loop"
      /\ UNCHANGED <<mState, mWorkQueue, op, ret, life, workQueue, link>>
  BY DEF Notify, fields, calls
<1>2. CASE UNCHANGED pc
  BY <1>1, <1>2, HandlerStep
<1>3. ASSUME NEW t \in waiters, pc[t] = "blocked", Goto(t, "relock")
      PROVE  EndpointInv'
  <2> USE <1>1, <1>3 DEF Goto
  <2>1. EndpointTypes'
    OBVIOUS
  <2>2. ConstructorFirst'
    BY DEF ConstructorFirst
  <2>3. OpenedOnce'
    BY DEF OpenedOnce
  <2>4. ClosedForGood'
    BY DEF ClosedForGood
  <2> QED
    BY <2>1, <2>2, <2>3, <2>4
<1> QED
  BY <1>2, <1>3 DEF Notify, NotifyOne

(* The invariant is what ReturnedCloseIsClosed needs.                      *)
LEMMA InvImpliesClosed == EndpointInv => ReturnedCloseIsClosed
BY DEF EndpointInv, ClosedForGood, ReturnedCloseIsClosed

=============================================================================
