------------------------ MODULE MessageConsumerImpl ------------------------
(***************************************************************************)
(* cms::amqp::MessageConsumerImpl: an Endpoint whose threads call start()  *)
(* and stop().  Messages flow while the link has credit: start() adds a    *)
(* window of credit, on_message returns what each message used, and stop() *)
(* drains the link and waits for on_receiver_drain_finish.                 *)
(***************************************************************************)
EXTENDS Endpoint, FiniteSets

CONSTANTS
  Starters,    \* the threads that call start() and stop()
  Alternate,   \* does a thread call start() and stop() in turns?
  Window,      \* the credit start() adds (10 in the code)
  MaxCalls,    \* bound: calls of start() and stop() per thread
  MaxMessages  \* bound: messages the broker has for this consumer

ASSUME ConsumerAssumption ==
  /\ Starters \subseteq Threads
  /\ Alternate \in BOOLEAN
  /\ Window \in Nat \ {0}
  /\ MaxCalls \in Nat
  /\ MaxMessages \in Nat

VARIABLES
  made,        \* calls of start() and stop() each thread has made
  credit,      \* the link's credit
  draining,    \* is a drain in progress on the link?
  pending,     \* credit added during the drain, the link gets it at its end
  messages     \* calls of on_message so far

flow == <<credit, draining, pending, messages>>
own  == <<made, flow>>
vars == <<endpoint, own>>

Init ==
  /\ EndpointInit
  /\ made = [t \in Threads |-> 0]
  /\ credit = 0
  /\ draining = FALSE
  /\ pending = 0
  /\ messages = 0

-----------------------------------------------------------------------------
(* start() and stop()                                                      *)

(* start() and stop() in turns, beginning with start(), when Alternate.    *)
InTurn(t, what) ==
  Alternate => what = IF made[t] % 2 = 0 THEN "start" ELSE "stop"

Call(t, what, label) ==
  /\ t \in Starters
  /\ made[t] < MaxCalls
  /\ InTurn(t, what)
  /\ Begin(t, what, label)
  /\ Ends(t, "none")
  /\ made' = [made EXCEPT ![t] = @ + 1]
  /\ UNCHANGED <<mMutex, fields, life, fault, proton, flow>>

(* start() takes no lock: it tests the queue, queues add_credit(10) and    *)
(* sets STARTED without a look at the state it replaces.                   *)
start(t) ==
  /\ \/ TestQueue(t, "startQueue", "startAdd")
     \/ /\ pc[t] = "startAdd"
        /\ Goto(t, "startState")
        /\ AddOrCrash(t, "add_credit", 0)
        /\ UNCHANGED <<mMutex, fields, calls, container, link, drops>>
     \/ /\ pc[t] = "startState"
        /\ Goto(t, "idle")
        /\ Ends(t, "returned")
        /\ mState' = "STARTED"
        /\ UNCHANGED <<mMutex, mWorkQueue, op, life, fault, proton>>
  /\ UNCHANGED own

stop(t) ==
  /\ \/ TestQueue(t, "stopQueue", "stopLock")
     \/ LockAndAdd(t, "stopLock", "drain")
  /\ UNCHANGED own

-----------------------------------------------------------------------------
(* The container's thread.                                                 *)

(* receiver::add_credit(c): credit added during a drain has to wait.       *)
AddCredit(c) ==
  IF draining THEN pending' = pending + c /\ UNCHANGED credit
              ELSE credit' = credit + c /\ UNCHANGED pending

RunAddCredit ==
  /\ Run("add_credit")
  /\ \/ /\ link \in {"attaching", "attached"}
        /\ AddCredit(Window)
     \/ /\ link \in {"detached", "closing", "closed"}
        /\ UNCHANGED <<credit, pending>>
  /\ UNCHANGED <<container, link, made, draining, messages>>

(* receiver::drain(): a second drain during the first throws, and the      *)
(* exception leaves container::run().                                      *)
RunDrain ==
  /\ Run("drain")
  /\ draining' = TRUE
  /\ container' = IF draining THEN "drainThrew" ELSE container
  /\ UNCHANGED <<link, made, credit, pending, messages>>

(* on_receiver_drain_finish: the broker has used up or returned the credit *)
(* (Proton reports a drain without credit at once).                        *)
on_receiver_drain_finish ==
  /\ Handles
  /\ link = "attached"
  /\ draining
  /\ draining' = FALSE
  /\ credit' = pending
  /\ pending' = 0
  /\ mState' = "STOPPED"
  /\ container' = "notifyCv"
  /\ UNCHANGED <<threads, mWorkQueue, calls, fault, workQueue, link, drops,
                 made, messages>>

(* Mutant of Replenish: the credit is returned during a drain as well.     *)
ReplenishAlways ==
  IF draining THEN pending' = pending + 1 /\ credit' = credit - 1
              ELSE UNCHANGED <<credit, pending>>

(* Mutant of Replenish: no credit is ever returned.                        *)
ReplenishNever == credit' = credit - 1 /\ UNCHANGED pending

(* Mutant of Replenish: more credit is returned than the message used.     *)
ReplenishExtra ==
  /\ credit' = IF draining THEN credit - 1 ELSE credit + 1
  /\ UNCHANGED pending

(* Mutant of Replenish: a drain takes the credit of the next message too.  *)
ReplenishTwice ==
  /\ credit' = IF draining THEN credit - 2 ELSE credit
  /\ UNCHANGED pending

(* A message used one credit; on_message adds one unless a drain is on.    *)
Replenish ==
  /\ credit' = IF draining THEN credit - 1 ELSE credit
  /\ UNCHANGED pending

(* on_message: credit is topped up, then the listener is called.           *)
on_message ==
  /\ Handles
  /\ link = "attached"
  /\ credit > 0
  /\ messages < MaxMessages
  /\ messages' = messages + 1
  /\ Replenish
  /\ UNCHANGED <<endpoint, made, draining>>

(* on_receiver_detach: the broker lets go of the link without closing it.  *)
on_receiver_detach ==
  /\ Handles
  /\ link = "attached"
  /\ link' = "detached"
  /\ mState' = "DETATCHED"
  /\ container' = "notifyCv"
  /\ UNCHANGED <<threads, mWorkQueue, calls, fault, workQueue, drops, own>>

(* The link attaches again without credit; whether Proton still counts a   *)
(* drain that was in progress is not specified.                            *)
Disconnect ==
  /\ Reconnect
  /\ credit' = 0
  /\ pending' = 0
  /\ draining' \in {draining, FALSE}
  /\ UNCHANGED <<made, messages>>

-----------------------------------------------------------------------------
(* The Endpoint's part, which leaves the consumer's own variables alone.   *)

constructor(t) == Construct(t) /\ UNCHANGED own

close(t) == (CloseStep(t) \/ Return(t)) /\ UNCHANGED own

(* Mutant of wait: stop() waits for the end of the link.                   *)
waitForClose(t) == WaitStep(t, LinkPredicate(t)) /\ UNCHANGED own

(* Mutant of wait: stop() does not wait for the end of its drain.          *)
waitForNothing(t) ==
  WaitStep(t, op[t] = "stop" \/ LinkPredicate(t)) /\ UNCHANGED own

wait(t) ==
  /\ WaitStep(t, IF op[t] = "stop" THEN mState = "STOPPED"
                                   ELSE LinkPredicate(t))
  /\ UNCHANGED own

callClose(t) ==
  /\ \E what \in Closing : CallClose(t, what)
  /\ UNCHANGED own

on_receiver_open == (OnOpen \/ OnOpenThrows) /\ UNCHANGED own

on_receiver_close == OnClose /\ UNCHANGED own

on_receiver_closed == OnCloseState /\ UNCHANGED own

(* Mutant of NotifyCv: the notification is forgotten.                      *)
NotifyNobody == Notify("notifyCv", {}) /\ UNCHANGED own

(* Every waiting thread waits on mCv, whatever it waits for.               *)
NotifyCv == Notify("notifyCv", Threads) /\ UNCHANGED own

-----------------------------------------------------------------------------
ThreadStep(t) ==
  /\ fault = "none"
  /\ \/ constructor(t)
     \/ start(t)
     \/ stop(t)
     \/ close(t)
     \/ wait(t)

ThreadCall(t) ==
  /\ fault = "none"
  /\ \/ Call(t, "start", "startQueue")
     \/ Call(t, "stop", "stopQueue")
     \/ callClose(t)
     \/ Spurious(t) /\ UNCHANGED own

ContainerStep ==
  \/ (RunOpen \/ RunClose) /\ UNCHANGED own
  \/ RunAddCredit
  \/ RunDrain
  \/ on_receiver_closed
  \/ NotifyCv

Environment ==
  \/ on_receiver_open
  \/ on_receiver_close
  \/ on_receiver_detach
  \/ on_receiver_drain_finish
  \/ on_message
  \/ Disconnect
  \/ TransportClose /\ UNCHANGED own

Next ==
  \/ \E t \in Threads : ThreadStep(t) \/ ThreadCall(t)
  \/ ContainerStep
  \/ Environment

Spec == Init /\ [][Next]_vars

(* As for the producer; the broker also answers a drain.                   *)
Fairness ==
  /\ \A t \in Threads : SF_vars(ThreadStep(t))
  /\ WF_vars(ContainerStep)
  /\ WF_vars(on_receiver_drain_finish)

FairSpec == Spec /\ Fairness

-----------------------------------------------------------------------------
(* Properties.                                                             *)

Labels ==
  MonitorLabels \cup {"ctor", "idle", "startQueue", "startAdd", "startState",
                     "stopQueue", "stopLock", "closeQueue", "closeLock"}

TypeOK ==
  /\ mState \in ClientState
  /\ mWorkQueue \in BOOLEAN
  /\ mMutex \in Threads \cup {NoThread}
  /\ pc \in [Threads -> Labels]
  /\ op \in [Threads -> {"none", "ctor", "start", "stop", "close", "dtor"}]
  /\ ret \in [Threads -> {"none", "returned", "CMSException"}]
  /\ made \in [Threads -> Nat]
  /\ life \in Lives
  /\ fault \in Faults
  /\ workQueue \in Seq(Work)
  /\ container \in {"loop", "setClosed", "notifyCv", "dead", "drainThrew"}
  /\ link \in LinkStates
  /\ drops \in Nat
  /\ credit \in Nat
  /\ draining \in BOOLEAN
  /\ pending \in Nat
  /\ messages \in Nat

(* The lambdas of one kind that wait for the container's thread.           *)
Queued(kind) == {i \in DOMAIN workQueue : workQueue[i].kind = kind}

(* When stop() has returned normally, and until its thread calls start()   *)
(* again, no credit is left from which a message could still be delivered. *)
StopHalts ==
  \A t \in Threads :
    op[t] = "stop" /\ ret[t] = "returned"
      => credit = 0 /\ pending = 0 /\ Queued("add_credit") = {}

(* A thread that starts and stops in turns never has more than one window  *)
(* of credit out: a new window is queued only when the old one is drained. *)
AtMostOneWindow ==
  /\ credit + pending <= Window
  /\ \A i, j \in Queued("add_credit") : i = j /\ credit + pending = 0

(* No call is in progress, no lambda is queued and no handler runs.        *)
Quiescent ==
  /\ fault = "none"
  /\ life = "alive"
  /\ container = "loop"
  /\ workQueue = <<>>
  /\ \A t \in Threads : pc[t] = "idle"

(* Until the first reconnect, a STARTED consumer at rest on an attached    *)
(* link has credit, so that the broker can deliver to it.  A reconnect     *)
(* makes the consumer STARTED but adds no credit.                          *)
StartedHasCredit ==
  Quiescent /\ drops = 0 /\ mState = "STARTED" /\ link = "attached" /\ ~draining
    => credit > 0

StopLabels == {"stopQueue", "stopLock"}
WaitLabels == {"check", "block", "blocked", "relock"}

(* stop() has queued its drain and waits.                                  *)
Waits(t) == op[t] = "stop" /\ pc[t] \in WaitLabels

(* From the add_credit of start() to the drain of the next stop().  A      *)
(* start() that threw counts: it found the link closed.                    *)
Started(t) ==
  \/ made[t] % 2 = 1 /\ pc[t] \notin {"startQueue", "startAdd"}
  \/ pc[t] \in StopLabels

(* For the thread that starts and stops, one of Starters.                  *)
Phase ==
  IF \E t \in Starters : Waits(t) THEN "halting"
  ELSE IF \E t \in Starters : Started(t) THEN "flowing"
  ELSE "halted"

(* All credit that the link has or is going to get.                        *)
CreditOut ==
  IF link = "closed" THEN 0
  ELSE credit + pending + Window * Cardinality(Queued("add_credit"))

(* The abstract consumer this one implements.                              *)
C == INSTANCE Credit WITH
       phase <- Phase,
       credit <- CreditOut,
       delivered <- messages

(* For one thread that starts and stops in turns, every step of the        *)
(* threads, the handlers and the environment is a step of Credit or leaves *)
(* its variables alone: from the return of stop() to the next start() not  *)
(* a message arrives, credit is let out only when none is, and it never    *)
(* grows while stop() waits, although start() and stop() only queue        *)
(* lambdas and the broker's messages, drains and detaches, a reconnect and *)
(* a close() of another thread come in between.                            *)
ImplementsCredit == C!Spec

(* on_receiver_drain_finish has made the consumer STOPPED and finds t      *)
(* asleep in stop().                                                       *)
DrainedWhileAsleep(t) ==
  /\ pc[t] = "blocked"
  /\ op[t] = "stop"
  /\ mState = "STOPPED"
  /\ container = "notifyCv"

(* stop() then returns, whatever other threads do in the consumer, unless  *)
(* a later handler (a detach or a close of the link) overwrites STOPPED    *)
(* before the thread looks.  mCv is shared with close() and notify_one     *)
(* wakes one thread: the code loses this when another thread falls asleep  *)
(* in close() before the notification.                                     *)
SleepingStopperReturns ==
  \A t \in Threads :
    DrainedWhileAsleep(t)
      ~> (pc[t] = "idle" \/ mState # "STOPPED" \/ fault # "none")

(* Does another thread sleep on mCv, for its own wait?                     *)
SharesCv(t) == \E u \in Threads \ {t} : pc[u] = "blocked"

(* What the code does guarantee: alone on mCv, the stopper returns.        *)
LoneStopperReturns ==
  \A t \in Threads :
    DrainedWhileAsleep(t)
      ~> (pc[t] = "idle" \/ mState # "STOPPED" \/ fault # "none" \/ SharesCv(t))

(* And so does the closer that on_receiver_close finds asleep, unless      *)
(* another thread's start() replaces CLOSED before it looks.               *)
LoneCloserReturns ==
  \A t \in Threads :
    (/\ pc[t] = "blocked"
     /\ op[t] \in Closing
     /\ mState = "CLOSED"
     /\ container = "notifyCv")
      ~> (pc[t] = "idle" \/ mState # "CLOSED" \/ fault # "none" \/ SharesCv(t))

=============================================================================
