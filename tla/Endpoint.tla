------------------------------ MODULE Endpoint ------------------------------
(***************************************************************************)
(* What MessageConsumerImpl and MessageProducerImpl have in common, line   *)
(* for line: the constructor that asks the container's thread to open an   *)
(* AMQP link and waits for the answer, close() and the destructor, and the *)
(* handlers on_*_open and on_*_close.                                      *)
(*                                                                         *)
(* The application's threads take mMutex; the handlers never do.  They     *)
(* write mState and mWorkQueue while an application thread may be          *)
(* anywhere, so a handler is a sequence of steps, one per field it writes, *)
(* and each read of a field by an application thread is a step too.        *)
(***************************************************************************)
EXTENDS Monitor, Integers, Sequences

CONSTANTS
  Creator,     \* the thread that runs the constructor
  Closers,     \* the threads that call close() or the destructor
  MaxDrops     \* bound: times the transport is lost and reconnected

ASSUME EndpointAssumption ==
  /\ Creator \in Threads
  /\ Closers \subseteq Threads
  /\ MaxDrops \in Nat

VARIABLES
  mState,      \* the context's StateMachine
  mWorkQueue,  \* is the context's mWorkQueue non-null?
  op,          \* the operation each thread is in, or was in last
  ret,         \* how that operation ended
  life,        \* of the object
  fault,       \* what ended the process
  workQueue,   \* the lambdas waiting for the container's thread
  container,   \* where the container's thread is
  link,        \* the AMQP link
  drops        \* transports lost so far

fields  == <<mState, mWorkQueue>>
calls   == <<op, ret, life>>
proton  == <<workQueue, container, link, drops>>
threads == <<mMutex, pc>>
endpoint == <<threads, fields, calls, fault, proton>>

ClientState == {"UNNINITIALIZED", "STARTED", "STOPPED", "CLOSED", "DETATCHED"}
Faults      == {"none", "nullDereference", "useAfterFree", "terminate"}
Lives       == {"constructing", "failed", "alive", "dying", "destroyed"}
LinkStates  == {"none", "attaching", "attached", "detached", "closing",
                "closed"}
Closing     == {"close", "dtor"}

(* A lambda: what it does, the thread that queued it and, for a send, the  *)
(* number of that thread's message.                                        *)
Kinds == {"open", "add_credit", "drain", "send", "close"}
Work  == [kind : Kinds, by : Threads, n : Nat]

EndpointInit ==
  /\ mState = "UNNINITIALIZED"
  /\ mWorkQueue \in BOOLEAN            \* copied from the session's context
  /\ mMutex = NoThread
  /\ pc = [t \in Threads |-> IF t = Creator THEN "ctor" ELSE "idle"]
  /\ op = [t \in Threads |-> IF t = Creator THEN "ctor" ELSE "none"]
  /\ ret = [t \in Threads |-> "none"]
  /\ life = "constructing"
  /\ fault = "none"
  /\ workQueue = <<>>
  /\ container = "loop"
  /\ link = "none"
  /\ drops = 0

-----------------------------------------------------------------------------
(* The application's threads.                                              *)

(* Mutant of Add: the newest lambda runs first.                            *)
AddInFront(t, kind, n) ==
  workQueue' = <<[kind |-> kind, by |-> t, n |-> n]>> \o workQueue

(* mWorkQueue->add(lambda).                                                *)
Add(t, kind, n) ==
  workQueue' = Append(workQueue, [kind |-> kind, by |-> t, n |-> n])

(* The pointer is read again, to be dereferenced.                          *)
AddOrCrash(t, kind, n) ==
  \/ /\ mWorkQueue
     /\ Add(t, kind, n)
     /\ UNCHANGED fault
  \/ /\ ~mWorkQueue
     /\ fault' = "nullDereference"
     /\ UNCHANGED workQueue

Ends(t, how) == ret' = [ret EXCEPT ![t] = how]

(* A thread calls an operation of the constructed object.                  *)
Begin(t, what, label) ==
  /\ pc[t] = "idle"
  /\ life = "alive"
  /\ op' = [op EXCEPT ![t] = what]
  /\ Goto(t, label)

(* The constructor; it throws when the session has no work queue.          *)
Construct(t) ==
  /\ \/ /\ mWorkQueue
        /\ Lock(t, "ctor", "check")
        /\ Add(t, "open", 0)
        /\ UNCHANGED <<ret, life>>
     \/ /\ ~mWorkQueue
        /\ pc[t] = "ctor"
        /\ Goto(t, "idle")
        /\ Ends(t, "CMSException")
        /\ life' = "failed"
        /\ UNCHANGED <<mMutex, workQueue>>
  /\ UNCHANGED <<fields, op, fault, container, link, drops>>

(* if (mContext.mWorkQueue) ... else throw CMSException, without the lock. *)
(* An exception that leaves a destructor terminates the process.           *)
TestQueue(t, from, to) ==
  /\ pc[t] = from
  /\ \/ /\ mWorkQueue
        /\ Goto(t, to)
        /\ UNCHANGED <<ret, fault>>
     \/ /\ ~mWorkQueue
        /\ Goto(t, "idle")
        /\ Ends(t, "CMSException")
        /\ fault' = IF op[t] = "dtor" THEN "terminate" ELSE fault
  /\ UNCHANGED <<mMutex, fields, op, life, proton>>

(* The lock is taken and a lambda is queued whose effect is waited for.    *)
LockAndAdd(t, from, kind) ==
  /\ Lock(t, from, "check")
  /\ AddOrCrash(t, kind, 0)
  /\ UNCHANGED <<fields, calls, container, link, drops>>

(* close(), or the destructor, which calls it when no other thread uses    *)
(* the object any more.  A CLOSED object is left alone.                    *)
CallClose(t, what) ==
  /\ t \in Closers
  /\ what = "dtor" => \A u \in Threads : pc[u] = "idle"
  /\ \/ /\ mState = "CLOSED"
        /\ Begin(t, what, "idle")
        /\ Ends(t, "returned")
        /\ life' = IF what = "dtor" THEN "destroyed" ELSE life
     \/ /\ mState # "CLOSED"
        /\ Begin(t, what, "closeQueue")
        /\ Ends(t, "none")
        /\ life' = IF what = "dtor" THEN "dying" ELSE life
  /\ UNCHANGED <<mMutex, fields, fault, proton>>

CloseStep(t) ==
  \/ TestQueue(t, "closeQueue", "closeLock")
  \/ LockAndAdd(t, "closeLock", "close")

(* Mutant of LinkPredicate: close() waits for what the constructor waits.  *)
AnyStatePredicate(t) == mState # "UNNINITIALIZED"

(* What the constructor, close() and the destructor wait for.              *)
LinkPredicate(t) ==
  IF op[t] = "ctor" THEN mState # "UNNINITIALIZED" ELSE mState = "CLOSED"

WaitStep(t, predicate) ==
  /\ WaitCheck(t, predicate) \/ WaitBlock(t) \/ WaitRelock(t)
  /\ UNCHANGED <<fields, calls, fault, proton>>

Spurious(t) ==
  /\ SpuriousWakeup(t)
  /\ UNCHANGED <<fields, calls, fault, proton>>

(* An operation that only waited returns.                                  *)
Return(t) ==
  /\ Unlock(t, "ready", "idle")
  /\ Ends(t, "returned")
  /\ life' = CASE op[t] = "ctor" -> "alive"
               [] op[t] = "dtor" -> "destroyed"
               [] OTHER          -> life
  /\ UNCHANGED <<fields, op, fault, proton>>

-----------------------------------------------------------------------------
(* The container's thread.  It runs the queued lambdas one by one and      *)
(* calls the handlers; an exception that leaves either ends it.            *)

Handles == fault = "none" /\ container = "loop"

(* The next lambda; every lambda captures this.                            *)
Run(kind) ==
  /\ Handles
  /\ workQueue # <<>>
  /\ Head(workQueue).kind = kind
  /\ workQueue' = Tail(workQueue)
  /\ fault' = IF life = "destroyed" THEN "useAfterFree" ELSE fault
  /\ UNCHANGED <<threads, fields, calls, drops>>

(* mSession.open_sender or open_receiver                                   *)
RunOpen ==
  /\ Run("open")
  /\ link' = "attaching"
  /\ UNCHANGED container

(* mSender.close() or mReceiver.close(); a closed link stays closed.       *)
RunClose ==
  /\ Run("close")
  /\ link' = IF link = "closed" THEN link ELSE "closing"
  /\ UNCHANGED container

(* on_*_open, for the first attach and for every reconnect.                *)
OnOpen ==
  /\ Handles
  /\ link = "attaching"
  /\ link' = "attached"
  /\ mWorkQueue' = TRUE
  /\ mState' = IF mState = "UNNINITIALIZED" THEN "STOPPED" ELSE "STARTED"
  /\ container' = "notifyCv"
  /\ UNCHANGED <<threads, calls, fault, workQueue, drops>>

(* createCMSDestination throws for an attach whose address it cannot name: *)
(* the exception leaves the handler, and container::run() with it.         *)
OnOpenThrows ==
  /\ Handles
  /\ link = "attaching"
  /\ mWorkQueue' = TRUE
  /\ container' = "dead"
  /\ UNCHANGED <<threads, mState, calls, fault, workQueue, link, drops>>

(* on_*_close, after our close or because the broker closed the link: the  *)
(* queue pointer goes first, the state and the notification follow.        *)
OnClose ==
  /\ Handles
  /\ link \in {"attached", "closing"}
  /\ link' = "closed"
  /\ mWorkQueue' = FALSE
  /\ container' = "setClosed"
  /\ UNCHANGED <<threads, mState, calls, fault, workQueue, drops>>

OnCloseState ==
  /\ fault = "none"
  /\ container = "setClosed"
  /\ mState' = "CLOSED"
  /\ container' = "notifyCv"
  /\ UNCHANGED <<threads, mWorkQueue, calls, fault, workQueue, link, drops>>

(* notify_one(), the last statement of a handler.                          *)
Notify(at, waiters) ==
  /\ fault = "none"
  /\ container = at
  /\ NotifyOne(waiters)
  /\ container' = "loop"
  /\ fault' = IF life = "destroyed" THEN "useAfterFree" ELSE fault
  /\ UNCHANGED <<fields, calls, workQueue, link, drops>>

(* The transport is lost and Proton reconnects: the link attaches again.   *)
Reconnect ==
  /\ Handles
  /\ link = "attached"
  /\ drops < MaxDrops
  /\ drops' = drops + 1
  /\ link' = "attaching"
  /\ UNCHANGED <<threads, fields, calls, fault, workQueue, container>>

(* The transport is lost for good: no lambda and no handler runs again.    *)
TransportClose ==
  /\ Handles
  /\ link # "none"
  /\ container' = "dead"
  /\ UNCHANGED <<threads, fields, calls, fault, workQueue, link, drops>>

-----------------------------------------------------------------------------
(* Properties of both.                                                     *)

(* A close() that returned normally means that the peer confirmed it and   *)
(* that the work queue is gone for good: no handler reopens the link.      *)
ReturnedCloseIsClosed ==
  \A t \in Threads :
    op[t] \in Closing /\ ret[t] = "returned" => link = "closed" /\ ~mWorkQueue

(* on_*_close has made the object CLOSED and finds a thread asleep in      *)
(* close(): it is notified, takes the mutex and returns, whatever the      *)
(* other threads and spurious wakeups do.  notify_one wakes one thread:    *)
(* with two threads asleep in close() the second one stays.                *)
SleepingCloserReturns ==
  \A t \in Threads :
    (/\ pc[t] = "blocked"
     /\ op[t] \in Closing
     /\ mState = "CLOSED"
     /\ container = "notifyCv")
      ~> (pc[t] = "idle" \/ fault # "none")

(* A thread that is inside close() when the object has become CLOSED       *)
(* returns.  The code loses the notification when on_*_close runs between  *)
(* the thread's test of the predicate and its going to sleep.              *)
CloseReturnsOnceClosed ==
  \A t \in Threads :
    (pc[t] # "idle" /\ op[t] \in Closing /\ mState = "CLOSED")
      ~> (pc[t] = "idle" \/ fault # "none")

=============================================================================
