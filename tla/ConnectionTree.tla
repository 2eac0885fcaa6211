--------------------------- MODULE ConnectionTree ---------------------------
(***************************************************************************)
(* ConnectionImpl and SessionImpl, as CMSConnection and CMSSession drive   *)
(* them: a connection holds weak pointers to its sessions, a session to    *)
(* its consumers and producers, and start(), stop() and close() of a       *)
(* parent call the same operation of every child that is still alive.      *)
(*                                                                         *)
(* A thread's todo is what is left of its call: <<step, object>> pairs.  A *)
(* call on a parent unfolds into the calls on its children followed by its *)
(* own last statements, and an exception drops whatever is left.           *)
(*                                                                         *)
(* Consumers and producers are reduced to what the cascade sees of them,   *)
(* their state and their work queue; Endpoint has their inside.  So are    *)
(* the waits: a thread leaves one when its predicate holds.  That no       *)
(* notification is lost or goes to the wrong thread is not examined here   *)
(* but in Endpoint.                                                        *)
(***************************************************************************)
EXTENDS Integers, Sequences, Functions

CONSTANTS
  Threads, NoThread,
  Conn,        \* the connection
  Sessions, Consumers, Producers,
  NoObject,
  Opener,      \* the thread that creates the objects
  Starters,    \* the threads that call start() and stop()
  Closers,     \* the threads that close and destroy
  SetupFirst,  \* is everything created before the first other call?
  MaxCalls,    \* bound: calls other than creations, and unasked events
  MaxFaults    \* bound: what the broker and the network do unasked

Endpoints == Consumers \cup Producers
Objects   == {Conn} \cup Sessions \cup Endpoints
Parents   == {Conn} \cup Sessions

ASSUME TreeAssumption ==
  /\ NoThread \notin Threads
  /\ NoObject \notin Objects
  /\ Conn \notin Sessions \cup Endpoints
  /\ Sessions \cap Endpoints = {}
  /\ Consumers \cap Producers = {}
  /\ Opener \in Threads
  /\ Starters \subseteq Threads
  /\ Closers \subseteq Threads
  /\ SetupFirst \in BOOLEAN
  /\ MaxCalls \in Nat
  /\ MaxFaults \in Nat

VARIABLES
  mState,      \* of every object
  mWorkQueue,  \* is the object's work queue non-null?
  mMutex,      \* the owner of the mutex of a parent
  mSessions,   \* the connection's weak pointers
  mConsumers,  \* those of each session
  mProducers,
  alive,       \* the objects whose weak pointers can be locked
  parent,      \* the object an object was created from
  todo,        \* what is left of each thread's call
  op,          \* each thread's current or last call
  ret,         \* how it ended
  calls,       \* calls so far
  fault,       \* what ended the process
  peer,        \* the AMQP connection, sessions and links
  drains,      \* drains queued or in progress on each consumer's link
  asked,       \* history: parents whose close lambda was queued
  handling,    \* the object whose close handler is half done
  container,   \* where the container's thread is
  faults       \* unasked events so far

fields   == <<mState, mWorkQueue>>
pointers == <<mSessions, mConsumers, mProducers, alive, parent>>
call     == <<todo, op, ret>>
proton   == <<peer, drains, handling, container, faults>>
vars     == <<fields, mMutex, pointers, call, calls, fault, proton, asked>>

ClientState == {"UNNINITIALIZED", "STARTED", "STOPPED", "CLOSED"}
Steps == {"start", "stop", "close", "lock", "addClose", "awaitOpen",
          "awaitStopped", "awaitClosed", "setStarted", "setStopped",
          "register"}

(* ConnectionFactory has called ConnectionImpl's constructor, which waits. *)
Init ==
  /\ mState = [o \in Objects |-> "UNNINITIALIZED"]
  /\ mWorkQueue = [o \in Objects |-> FALSE]
  /\ mMutex = [o \in Parents |-> NoThread]
  /\ mSessions = <<>>
  /\ mConsumers = [s \in Sessions |-> <<>>]
  /\ mProducers = [s \in Sessions |-> <<>>]
  /\ alive = {Conn}
  /\ parent = [o \in Objects |-> NoObject]
  /\ todo = [t \in Threads |->
               IF t = Opener THEN << <<"awaitOpen", Conn>> >> ELSE <<>>]
  /\ op = [t \in Threads |-> <<"create", Conn>>]
  /\ ret = [t \in Threads |-> "none"]
  /\ calls = 0
  /\ fault = "none"
  /\ peer = [o \in Objects |-> IF o = Conn THEN "opening" ELSE "none"]
  /\ drains = [c \in Consumers |-> 0]
  /\ asked = {}
  /\ handling = NoObject
  /\ container = "loop"
  /\ faults = 0

-----------------------------------------------------------------------------
(* How a call unfolds.                                                     *)

OnEach(step, children) == [i \in DOMAIN children |-> <<step, children[i]>>]

(* The children that start() and stop() visit.                             *)
Started(o) == IF o = Conn THEN mSessions ELSE mConsumers[o]

(* Mutant of Closed: close() of a session forgets its producers.           *)
ConsumersOnly(o) == IF o = Conn THEN mSessions ELSE mConsumers[o]

(* The children that close() visits: the consumers, then the producers.    *)
Closed(o) == IF o = Conn THEN mSessions ELSE mConsumers[o] \o mProducers[o]

Start(o) ==
  IF o \in Parents
  THEN OnEach("start", Started(o)) \o << <<"setStarted", o>> >>
  ELSE << <<"setStarted", o>> >>

Stop(o) ==
  IF o \in Parents
  THEN OnEach("stop", Started(o)) \o << <<"setStopped", o>> >>
  ELSE << <<"awaitStopped", o>> >>

(* The part of a parent's close() under its lock.                          *)
CloseLocked(o) ==
  OnEach("close", Closed(o)) \o << <<"addClose", o>>, <<"awaitClosed", o>> >>

(* Mutant of Throws: a closed endpoint lets every call through.            *)
OnlyConnectionThrows(step, o) ==
  step = "start" /\ o = Conn /\ mState[o] = "CLOSED"

(* start() of a closed connection throws, and so do start(), stop() and    *)
(* close() of an endpoint without a work queue (close() not when CLOSED).  *)
Throws(step, o) ==
  \/ step = "start" /\ o = Conn /\ mState[o] = "CLOSED"
  \/ step \in {"start", "stop"} /\ o \in Endpoints /\ ~mWorkQueue[o]
  \/ step = "close" /\ o \in Endpoints /\ ~mWorkQueue[o]
                    /\ mState[o] # "CLOSED"

(* Mutant of NothingToClose: what is stopped is taken to be closed.        *)
StoppedIsClosed(o) == mState[o] \in {"STOPPED", "CLOSED"}

(* close() of a parent without a work queue, or of a CLOSED endpoint, does *)
(* nothing.                                                                *)
NothingToClose(o) ==
  IF o \in Parents THEN ~mWorkQueue[o] ELSE mState[o] = "CLOSED"

Unfolded(step, o) ==
  CASE step = "start" -> Start(o)
    [] step = "stop" -> Stop(o)
    [] step = "close" ->
         IF NothingToClose(o) THEN <<>>
         ELSE IF o \in Parents THEN << <<"lock", o>> >>
         ELSE << <<"awaitClosed", o>> >>

-----------------------------------------------------------------------------
(* The application's threads.                                              *)

Continue(t, steps) ==
  /\ todo' = [todo EXCEPT ![t] = steps \o Tail(@)]
  /\ ret' = IF todo'[t] = <<>> THEN [ret EXCEPT ![t] = "returned"] ELSE ret
  /\ UNCHANGED op

(* Mutant of Unlocked: the locks are kept, as without std::unique_lock.    *)
StillLocked(t) == mMutex

(* The mutexes when t leaves the scopes it is in.                          *)
Unlocked(t) ==
  [o \in Parents |-> IF mMutex[o] = t THEN NoThread ELSE mMutex[o]]

(* An exception leaves the whole call.  A destructor must not throw.       *)
Throw(t) ==
  /\ todo' = [todo EXCEPT ![t] = <<>>]
  /\ ret' = [ret EXCEPT ![t] = "CMSException"]
  /\ mMutex' = Unlocked(t)
  /\ fault' = IF op[t][1] = "destroy" THEN "terminate" ELSE fault
  /\ UNCHANGED op

(* What a call does to the link of an endpoint before it waits.            *)
Request(step, o) ==
  /\ drains' = IF step = "stop" /\ o \in Consumers
               THEN [drains EXCEPT ![o] = @ + 1] ELSE drains
  /\ peer' = IF step = "close" /\ o \in Endpoints /\ ~NothingToClose(o)
                /\ peer[o] \in {"opening", "open"}
             THEN [peer EXCEPT ![o] = "closing"] ELSE peer

(* The next call of the cascade; an expired child is passed over.          *)
Call(t, step, o) ==
  /\ \/ /\ o \notin alive
        /\ Continue(t, <<>>)
        /\ UNCHANGED <<mMutex, fault, peer, drains>>
     \/ /\ o \in alive
        /\ Throws(step, o)
        /\ Throw(t)
        /\ UNCHANGED <<peer, drains>>
     \/ /\ o \in alive
        /\ ~Throws(step, o)
        /\ Continue(t, Unfolded(step, o))
        /\ Request(step, o)
        /\ UNCHANGED <<mMutex, fault>>
  /\ UNCHANGED <<fields, pointers, calls, handling, container, faults, asked>>

LockParent(t, o) ==
  /\ mMutex[o] = NoThread
  /\ mMutex' = [mMutex EXCEPT ![o] = t]
  /\ Continue(t, CloseLocked(o))
  /\ UNCHANGED <<fields, pointers, calls, fault, proton, asked>>

(* The queue was copied before the loop, so that it is never null here;    *)
(* the wait that follows releases the mutex.                               *)
AddClose(t, o) ==
  /\ asked' = asked \cup {o}
  /\ peer' = IF peer[o] \in {"opening", "open"}
             THEN [peer EXCEPT ![o] = "closing"] ELSE peer
  /\ mMutex' = [mMutex EXCEPT ![o] = NoThread]
  /\ Continue(t, <<>>)
  /\ UNCHANGED <<fields, pointers, calls, fault, drains, handling, container,
                 faults>>

Await(t, step, o) ==
  /\ CASE step = "awaitOpen"    -> mState[o] # "UNNINITIALIZED"
       [] step = "awaitStopped" -> mState[o] = "STOPPED"
       [] step = "awaitClosed"  -> mState[o] = "CLOSED"
  /\ step = "awaitClosed" /\ o \in Parents => mMutex[o] = NoThread
  /\ Continue(t, <<>>)
  /\ UNCHANGED <<fields, mMutex, pointers, calls, fault, proton, asked>>

(* The last statement of start() and of a parent's stop(): whatever the    *)
(* state has become meanwhile is overwritten.                              *)
SetState(t, step, o) ==
  /\ mState' = [mState EXCEPT
                  ![o] = IF step = "setStarted" THEN "STARTED" ELSE "STOPPED"]
  /\ Continue(t, <<>>)
  /\ UNCHANGED <<mWorkQueue, mMutex, pointers, calls, fault, proton, asked>>

(* Is u in the middle of a loop over o's children?                         *)
Iterating(u, o) ==
  \E i \in DOMAIN todo[u] \ {1} :
    todo[u][i] \in {"setStarted", "setStopped", "addClose"} \X {o}

(* addSession, addConsumer, addProducer: push_back without a lock, which   *)
(* invalidates the iterators of a loop that another thread is in.          *)
Register(t, o) ==
  LET p == parent[o] IN
  /\ mSessions' = IF o \in Sessions THEN Append(mSessions, o) ELSE mSessions
  /\ mConsumers' = IF o \in Consumers
                   THEN [mConsumers EXCEPT ![p] = Append(@, o)]
                   ELSE mConsumers
  /\ mProducers' = IF o \in Producers
                   THEN [mProducers EXCEPT ![p] = Append(@, o)]
                   ELSE mProducers
  /\ fault' \in IF \E u \in Threads : Iterating(u, p)
                THEN {"none", "dataRace"} ELSE {"none"}
  /\ Continue(t, <<>>)
  /\ UNCHANGED <<fields, mMutex, alive, parent, calls, proton, asked>>

ThreadStep(t) ==
  /\ fault = "none"
  /\ todo[t] # <<>>
  /\ LET step == Head(todo[t])[1]
         o    == Head(todo[t])[2]
     IN  \/ step \in {"start", "stop", "close"} /\ Call(t, step, o)
         \/ step = "lock" /\ LockParent(t, o)
         \/ step = "addClose" /\ AddClose(t, o)
         \/ /\ step \in {"awaitOpen", "awaitStopped", "awaitClosed"}
            /\ Await(t, step, o)
         \/ step \in {"setStarted", "setStopped"} /\ SetState(t, step, o)
         \/ step = "register" /\ Register(t, o)

(* The application calls an operation.                                     *)
Begin(t, what, o, steps) ==
  /\ fault = "none"
  /\ todo[t] = <<>>
  /\ todo' = [todo EXCEPT ![t] = steps]
  /\ op' = [op EXCEPT ![t] = <<what, o>>]
  /\ ret' = [ret EXCEPT ![t] = IF steps = <<>> THEN "returned" ELSE "none"]

(* An object that the application holds a pointer to.                      *)
Held(o) ==
  /\ o \in alive
  /\ ~\E u \in Threads : todo[u] # <<>> /\ op[u] = <<"create", o>>

(* The constructor of the Impl object copies the parent's queue, throws    *)
(* when it is null, and waits for the open handler; then the object is     *)
(* registered.                                                             *)
Create(t, o, p, checked) ==
  /\ t = Opener
  /\ SetupFirst => calls = 0
  /\ Held(p)
  /\ peer[o] = "none"
  /\ IF checked /\ mWorkQueue[p]
     THEN /\ Begin(t, "create", o, << <<"awaitOpen", o>>, <<"register", o>> >>)
          /\ alive' = alive \cup {o}
          /\ parent' = [parent EXCEPT ![o] = p]
          /\ mWorkQueue' = [mWorkQueue EXCEPT ![o] = TRUE]
          /\ peer' = [peer EXCEPT ![o] = "opening"]
     ELSE /\ fault = "none" /\ todo[t] = <<>>
          /\ op' = [op EXCEPT ![t] = <<"create", o>>]
          /\ ret' = [ret EXCEPT ![t] = "CMSException"]
          /\ UNCHANGED <<todo, alive, parent, mWorkQueue, peer>>
  /\ UNCHANGED <<mState, mMutex, mSessions, mConsumers, mProducers, calls,
                 fault, drains, handling, container, faults, asked>>

(* check() of a session throws when it is CLOSED.                          *)
check(s) == mState[s] # "CLOSED"

createSession(t, s)     == Create(t, s, Conn, TRUE)
createConsumer(t, c, s) == Create(t, c, s, check(s))
createProducer(t, p, s) == Create(t, p, s, check(s))

(* One more call that is not a creation.                                   *)
Counted ==
  /\ SetupFirst =>
       ~\E u \in Threads : todo[u] # <<>> /\ op[u][1] = "create"
  /\ calls + faults < MaxCalls
  /\ calls' = calls + 1

(* start() and stop() of the connection, a session or a consumer.          *)
StartStop(t, what, o) ==
  /\ t \in Starters
  /\ Held(o)
  /\ Counted
  /\ Begin(t, what, o, << <<what, o>> >>)
  /\ UNCHANGED <<fields, mMutex, pointers, fault, proton, asked>>

CloseObject(t, o) ==
  /\ t \in Closers
  /\ Held(o)
  /\ Counted
  /\ Begin(t, "close", o, << <<"close", o>> >>)
  /\ UNCHANGED <<fields, mMutex, pointers, fault, proton, asked>>

(* Is another thread in a call of o, or holding the pointer it locked?     *)
InUse(t, o) ==
  \E u \in Threads \ {t} :
    /\ todo[u] # <<>>
    /\ \/ op[u][2] = o
       \/ \E i \in DOMAIN todo[u] :
            /\ todo[u][i][2] = o
            /\ todo[u][i][1] \notin {"start", "stop", "close"}

(* The application gives up an object: the weak pointers to it expire and  *)
(* the destructor calls close().                                           *)
Destroy(t, o) ==
  /\ t \in Closers
  /\ Held(o) /\ ~InUse(t, o)
  /\ Counted
  /\ alive' = alive \ {o}
  /\ Begin(t, "destroy", o,
           IF Throws("close", o) THEN <<>> ELSE Unfolded("close", o))
  /\ fault' = IF Throws("close", o) THEN "terminate" ELSE "none"
  /\ Request("close", o)
  /\ UNCHANGED <<fields, mMutex, mSessions, mConsumers, mProducers, parent,
                 handling, container, faults, asked>>

(* The calls that the facades forward.  A session's commit(), rollback()   *)
(* and recover() only log.                                                 *)
ConnectionCalls(t) ==
  \/ StartStop(t, "start", Conn) \/ StartStop(t, "stop", Conn)
  \/ CloseObject(t, Conn) \/ Destroy(t, Conn)

SessionCalls(t, s) ==
  \/ StartStop(t, "start", s) \/ StartStop(t, "stop", s)
  \/ CloseObject(t, s) \/ Destroy(t, s)

ConsumerCalls(t, c) ==
  \/ StartStop(t, "start", c) \/ StartStop(t, "stop", c)
  \/ CloseObject(t, c) \/ Destroy(t, c)

ProducerCalls(t, p) == CloseObject(t, p) \/ Destroy(t, p)

-----------------------------------------------------------------------------
(* The container's thread.                                                 *)

Handles == fault = "none" /\ container = "loop" /\ handling = NoObject

(* The broker's frames for an object need its session and its connection.  *)
Reachable(o) ==
  /\ o # Conn => peer[Conn] \in {"open", "closing"}
  /\ o \in Endpoints => peer[parent[o]] \in {"open", "closing"}

(* on_session_open, on_sender_open and on_receiver_open take what is not   *)
(* the first open for a restart.                                           *)
OpenedState(o) ==
  IF mState[o] = "UNNINITIALIZED" THEN "STOPPED" ELSE "STARTED"

(* on_connection_open always sets STOPPED.                                 *)
OnOpen(o) ==
  /\ Handles
  /\ peer[o] = "opening"
  /\ Reachable(o)
  /\ peer' = [peer EXCEPT ![o] = "open"]
  /\ mWorkQueue' = [mWorkQueue EXCEPT ![o] = TRUE]
  /\ mState' = [mState EXCEPT
                  ![o] = IF o = Conn THEN "STOPPED" ELSE OpenedState(o)]
  /\ UNCHANGED <<mMutex, pointers, call, calls, fault, drains, handling,
                 container, faults, asked>>

(* An event nobody asked for.                                              *)
Unasked ==
  /\ faults < MaxFaults
  /\ calls + faults < MaxCalls
  /\ faults' = faults + 1

(* on_transport_close and on_session_close write CLOSED first, on_*_close  *)
(* of the endpoints clear the queue first.  For the connection it is the   *)
(* transport that closes, after the close it was asked for or for good.    *)
OnClose(o) ==
  /\ Handles
  /\ \/ peer[o] = "closing" /\ Reachable(o) /\ UNCHANGED faults
     \/ /\ Unasked
        /\ IF o = Conn THEN peer[o] \in {"opening", "open"}
                       ELSE peer[o] = "open" /\ Reachable(o)
  /\ peer' = [peer EXCEPT ![o] = "closed"]
  /\ handling' = o
  /\ mState' = IF o \in Parents THEN [mState EXCEPT ![o] = "CLOSED"]
                                ELSE mState
  /\ mWorkQueue' = IF o \in Parents THEN mWorkQueue
                                    ELSE [mWorkQueue EXCEPT ![o] = FALSE]
  /\ UNCHANGED <<mMutex, pointers, call, calls, fault, drains, container,
                 asked>>

(* The second of the two assignments.                                      *)
OnCloseEnd ==
  /\ fault = "none"
  /\ handling # NoObject
  /\ \/ /\ handling \in Parents
        /\ mWorkQueue' = [mWorkQueue EXCEPT ![handling] = FALSE]
        /\ UNCHANGED mState
     \/ /\ handling \in Endpoints
        /\ mState' = [mState EXCEPT ![handling] = "CLOSED"]
        /\ UNCHANGED mWorkQueue
  /\ handling' = NoObject
  /\ UNCHANGED <<mMutex, pointers, call, calls, fault, peer, drains,
                 container, faults, asked>>

(* Mutant of Draining: a finish is reported for a drain nobody asked for.  *)
AnyTime(c) == TRUE

Draining(c) == drains[c] > 0

(* on_receiver_drain_finish                                                *)
DrainFinish(c) ==
  /\ Handles
  /\ peer[c] = "open" /\ Reachable(c)
  /\ Draining(c)
  /\ drains' = [drains EXCEPT ![c] = @ - 1]
  /\ mState' = [mState EXCEPT ![c] = "STOPPED"]
  /\ UNCHANGED <<mWorkQueue, mMutex, pointers, call, calls, fault, peer,
                 handling, container, faults, asked>>

(* A drain during a drain throws and ends the container's thread.          *)
DrainThrows(c) ==
  /\ Handles
  /\ drains[c] > 1
  /\ container' = "dead"
  /\ UNCHANGED <<fields, mMutex, pointers, call, calls, fault, peer, drains,
                 handling, faults, asked>>

(* The transport is lost and Proton reconnects: what was open opens again. *)
Reconnect ==
  /\ Handles
  /\ Unasked
  /\ peer[Conn] = "open"
  /\ peer' = [o \in Objects |-> IF peer[o] = "open" THEN "opening" ELSE peer[o]]
  /\ UNCHANGED <<fields, mMutex, pointers, call, calls, fault, drains,
                 handling, container, asked>>

ContainerStep ==
  \/ OnCloseEnd
  \/ \E o \in Objects : OnOpen(o)
  \/ \E c \in Consumers : DrainFinish(c) \/ DrainThrows(c)

Next ==
  \/ \E t \in Threads :
       \/ ThreadStep(t)
       \/ ConnectionCalls(t)
       \/ \E s \in Sessions : createSession(t, s) \/ SessionCalls(t, s)
       \/ \E c \in Consumers :
            ConsumerCalls(t, c) \/ \E s \in Sessions : createConsumer(t, c, s)
       \/ \E p \in Producers :
            ProducerCalls(t, p) \/ \E s \in Sessions : createProducer(t, p, s)
  \/ ContainerStep
  \/ \E o \in Objects : OnClose(o)
  \/ Reconnect

Spec == Init /\ [][Next]_vars

(* The threads and the container run, a free mutex is eventually obtained, *)
(* and the broker answers a close.                                         *)
Fairness ==
  /\ \A t \in Threads : SF_vars(ThreadStep(t))
  /\ WF_vars(ContainerStep)
  /\ \A o \in Objects : WF_vars(peer[o] = "closing" /\ OnClose(o))

FairSpec == Spec /\ Fairness

-----------------------------------------------------------------------------
(* Properties.                                                             *)

TypeOK ==
  /\ mState \in [Objects -> ClientState]
  /\ mWorkQueue \in [Objects -> BOOLEAN]
  /\ mMutex \in [Parents -> Threads \cup {NoThread}]
  /\ mSessions \in Seq(Sessions)
  /\ mConsumers \in [Sessions -> Seq(Consumers)]
  /\ mProducers \in [Sessions -> Seq(Producers)]
  /\ alive \subseteq Objects
  /\ parent \in [Objects -> Parents \cup {NoObject}]
  /\ todo \in [Threads -> Seq(Steps \X Objects)]
  /\ op \in [Threads -> {"create", "start", "stop", "close", "destroy"}
                         \X Objects]
  /\ ret \in [Threads -> {"none", "returned", "CMSException"}]
  /\ calls \in 0..MaxCalls
  /\ fault \in {"none", "terminate", "dataRace"}
  /\ peer \in [Objects -> {"none", "opening", "open", "closing", "closed"}]
  /\ drains \in [Consumers -> Nat]
  /\ asked \subseteq Parents
  /\ handling \in Objects \cup {NoObject}
  /\ container \in {"loop", "dead"}
  /\ faults \in 0..MaxFaults

(* The children of o that the application still holds.                     *)
LiveChildren(o) ==
  {child \in alive \ {Conn} :
     /\ parent[child] = o
     /\ \/ child \in Range(mSessions)
        \/ o \in Sessions /\ child \in Range(mConsumers[o])
        \/ o \in Sessions /\ child \in Range(mProducers[o])}

(* close() of a parent asks the broker to close it only when the broker    *)
(* has confirmed the close of all its live children: no exception,         *)
(* reconnect, unasked close or second closer lets a session end before its *)
(* links, or a connection before its sessions.                             *)
ChildrenCloseFirst ==
  \A o \in asked : \A child \in LiveChildren(o) : peer[child] = "closed"

Closing(t) == todo[t] # <<>> /\ op[t][1] = "close"

(* A call ended, or the process, or the connection to the broker suffered. *)
Ended(t) ==
  todo[t] = <<>> \/ fault # "none" \/ container = "dead" \/ faults > 0

(* Has start() or stop() overwritten the CLOSED of a close handler?        *)
Overwritten ==
  \E o \in Objects :
    peer[o] = "closed" /\ handling # o /\ mState[o] # "CLOSED"

(* Was a parent closed over an object that is not closed?  close() passes  *)
(* over a child whose destructor has begun, and which then waits in vain.  *)
Stranded ==
  \E o \in Objects \ {Conn} :
    /\ peer[o] \in {"opening", "open", "closing"}
    /\ "closed" \in {peer[Conn], peer[parent[o]]}

(* But for these two cases a close() ends, with an exception or without:   *)
(* the mutexes of the connection and its sessions never lock concurrent    *)
(* closers and destructors out, which enter the tree at any object, and no *)
(* call waits for what another one has closed.                             *)
ClosersEnd ==
  \A t \in Threads : Closing(t) ~> (Ended(t) \/ Overwritten \/ Stranded)

(* close() of a connection that returned has closed every session that the *)
(* application still holds.  After on_transport_close the connection has   *)
(* no queue: close() then returns at once and leaves its sessions open.    *)
ConnectionCloseClosesSessions ==
  \A t \in Threads :
    op[t] = <<"close", Conn>> /\ ret[t] = "returned" /\ todo[t] = <<>>
      => \A s \in LiveChildren(Conn) : ~mWorkQueue[s]

=============================================================================
