-------------------------- MODULE DevelopmentTest --------------------------
(***************************************************************************)
(* The integration test of the life cycle, Examples/tests, and the example *)
(* programs beside it: one thread creates, starts, stops, closes and       *)
(* deletes the objects of a ConnectionTree in prescribed orders, and says  *)
(* after each test what must have happened.  The test needs a broker; here *)
(* it runs against every interleaving with the container's thread.         *)
(*                                                                         *)
(* A statement of a test is a pair <<what, object>>.  produceMessages()    *)
(* starts a thread of its own, but the test joins it before its next call  *)
(* on an object, so that its statements stand in the test's own thread.    *)
(***************************************************************************)
EXTENDS ConnectionTree, SequencesExt

CONSTANTS
  Batch,       \* bound: messages that produceMessages() sends (15 in the code)
  mSession, session2, session3,           \* the sessions of the tests
  mConsumer, consumer2,                   \* their consumers
  mProducer, producer2,                   \* their producers
  MaxKeys,     \* bound: commands that are given to the example receiver
  Producer(_)  \* the producer of the n-th produceMessages()

Main == Opener

VARIABLES
  script,      \* the tests still to run
  body,        \* the statements left of the first of them
  failed,      \* the tests whose result was not success
  outbox,      \* messages each producer's link still has to transfer
  stored,      \* messages in the broker's queue
  credit,      \* has mConsumer's link credit?
  pending,     \* was credit added during a drain?
  mMessagesCount  \* what MyMessageListener has counted

flow     == <<outbox, stored, credit, pending, mMessagesCount>>
testing  == <<script, body, failed>>
testVars == <<vars, flow, testing>>

-----------------------------------------------------------------------------
(* The tests.  A test succeeds when the calls of its try block return, or  *)
(* when one throws, or when the listener has counted n messages.           *)

Test(name, statements, success) ==
  [name |-> name, body |-> statements, success |-> success]

ReturnsNormally  == [what |-> "returns", count |-> 0]
ThrowsException == [what |-> "throws", count |-> 0]
Count(n)         == [what |-> "counts", count |-> n]

initialize ==
  << <<"create", mSession>>,
     <<"createDestination", mSession>>, <<"create", mProducer>>,
     <<"createDestination", mSession>>, <<"create", mConsumer>> >>

reinitialize ==
  << <<"destroy", Conn>>, <<"destroy", mSession>>, <<"destroy", mConsumer>>,
     <<"destroy", mProducer>> >>

produceMessages(n) ==
  << <<"create", Producer(n)>> >>
  \o FlattenSeq([i \in 1..Batch |->
                   << <<"createMessage", mSession>>, <<"send", Producer(n)>> >>])
  \o << <<"close", Producer(n)>>, <<"destroy", Producer(n)>> >>

setExpectedCount == << <<"setExpectedCount", mConsumer>> >>
sleep_for        == << <<"sleep", mConsumer>> >>

(* A stop() of o, then messages that must not be consumed.                 *)
Stopped(name, o, n) ==
  Test(name, << <<"stop", o>> >> \o setExpectedCount \o produceMessages(n),
       Count(0))

(* A start() of o, by which all messages sent meanwhile are consumed.      *)
Restarted(name, o) ==
  Test(name, setExpectedCount \o << <<"start", o>> >> \o sleep_for,
       Count(Batch))

test1 ==
  Test("test1", setExpectedCount \o produceMessages(1) \o sleep_for, Count(0))
test2  == Restarted("test2", Conn)
test3  == Stopped("test3", Conn, 2)
test4  == Restarted("test4", mSession)
test5  == Stopped("test5", Conn, 3)
test6  == Restarted("test6", mConsumer)
test7  == Stopped("test7", Conn, 4)
test8  == Restarted("test8", Conn)
test9  == Stopped("test9", mSession, 5)
test10 == Restarted("test10", Conn)
test11 == Stopped("test11", mConsumer, 6)
test12 == Restarted("test12", mSession)
test13 == Stopped("test13", mSession, 7)
test14 == Restarted("test14", mConsumer)
test15 == Stopped("test15", mSession, 8)
test16 == Restarted("test16", mConsumer)
test17 == Stopped("test17", mConsumer, 9)

test18 ==
  Test("test18", << <<"stop", Conn>>, <<"create", session2>>,
                    <<"destroy", session2>> >>, ReturnsNormally)
test19 ==
  Test("test19", << <<"start", Conn>>, <<"create", session3>>,
                    <<"destroy", session3>> >>, ReturnsNormally)
test20 == Test("test20", << <<"close", mConsumer>> >>, ReturnsNormally)
test21 == Test("test21", << <<"close", mConsumer>> >>, ReturnsNormally)
test22 == Test("test22", << <<"start", mConsumer>> >>, ThrowsException)
test23 == Test("test23", << <<"stop", mConsumer>> >>, ThrowsException)
test24 == Test("test24", << <<"close", mSession>> >>, ReturnsNormally)
test25 == Test("test25", << <<"close", mSession>> >>, ReturnsNormally)
test26 == Test("test26", << <<"start", mSession>> >>, ThrowsException)
test27 == Test("test27", << <<"create", consumer2>> >>, ThrowsException)
test28 == Test("test28", << <<"create", producer2>> >>, ThrowsException)
test29 == Test("test29", << <<"createMessage", mSession>> >>, ThrowsException)
test30 == Test("test30", << <<"createDestination", mSession>> >>, ThrowsException)

test31 ==
  Test("test31", << <<"createMessage", mSession>>, <<"close", Conn>>,
                    <<"send", mProducer>> >>, ThrowsException)
test32 ==
  Test("test32", << <<"createMessage", mSession>>, <<"close", mSession>>,
                    <<"send", mProducer>> >>, ThrowsException)
test33 ==
  Test("test33", << <<"createMessage", mSession>>, <<"close", mProducer>>,
                    <<"send", mProducer>> >>, ThrowsException)

(* destructionCombination1 to 24: the orders in which the four objects are *)
(* deleted.                                                                *)
destructionCombinations1to8 ==
  { <<Conn, mSession, mConsumer, mProducer>>,
    <<Conn, mSession, mProducer, mConsumer>>,
    <<Conn, mConsumer, mSession, mProducer>>,
    <<Conn, mConsumer, mProducer, mSession>>,
    <<mProducer, mConsumer, mSession, Conn>>,
    <<Conn, mProducer, mSession, mConsumer>>,
    <<Conn, mProducer, mConsumer, mSession>>,
    <<mSession, Conn, mConsumer, mProducer>> }

destructionCombinations9to16 ==
  { <<mSession, Conn, mProducer, mConsumer>>,
    <<mSession, mConsumer, Conn, mProducer>>,
    <<mSession, mConsumer, mProducer, Conn>>,
    <<mSession, mProducer, Conn, mConsumer>>,
    <<mSession, mProducer, mConsumer, Conn>>,
    <<mConsumer, Conn, mSession, mProducer>>,
    <<mConsumer, Conn, mProducer, mSession>>,
    <<mConsumer, mSession, Conn, mProducer>> }

destructionCombinations17to24 ==
  { <<mConsumer, mSession, mProducer, Conn>>,
    <<mConsumer, mProducer, Conn, mSession>>,
    <<mConsumer, mProducer, mSession, Conn>>,
    <<mProducer, Conn, mSession, mConsumer>>,
    <<mProducer, Conn, mConsumer, mSession>>,
    <<mProducer, mSession, Conn, mConsumer>>,
    <<mProducer, mSession, mConsumer, Conn>>,
    <<mProducer, mConsumer, Conn, mSession>> }

Combinations ==
  destructionCombinations1to8 \cup destructionCombinations9to16
    \cup destructionCombinations17to24

Script(tests) ==
  << Test("initialize", initialize, ReturnsNormally) >> \o tests
  \o << Test("reinitialize", reinitialize, ReturnsNormally) >>

Destruction(order) ==
  << Test("initialize", initialize, ReturnsNormally),
     Test("destruction", [i \in 1..4 |-> <<"destroy", order[i]>>],
          ReturnsNormally) >>

(* What main() runs on one set of objects, the tests it has commented out  *)
(* included.                                                               *)
mainScripts ==
  { Script(<< test1, test2, test3, test4, test5, test6, test7, test8, test9,
              test10, test11, test12, test13, test14, test15, test16, test17,
              test18, test19, test20, test21, test22, test23, test24, test25,
              test26, test27, test28, test29, test30 >>),
    Script(<< test31 >>), Script(<< test32 >>), Script(<< test33 >>) }
  \cup { Destruction(order) : order \in Combinations }

-----------------------------------------------------------------------------
(* The example programs.                                                   *)

(* The receiver does what it is told from the keyboard until it is told to *)
(* leave, and its pointers then delete what they point to.  The container  *)
(* gets idle between two keys.  An exception ends the program: the start() *)
(* or stop() of anything after a close() of anything, as either reaches    *)
(* the consumer.                                                           *)
receiver(keys) ==
  << Test("receiver",
          << <<"create", mSession>>, <<"createDestination", mSession>>,
             <<"create", mConsumer>> >>
          \o FlattenSeq([i \in DOMAIN keys |-> << keys[i] >> \o sleep_for])
          \o << <<"destroy", mConsumer>>, <<"destroy", mSession>>,
                <<"destroy", Conn>> >>,
          IF \E i, j \in DOMAIN keys :
               i < j /\ keys[i][1] = "close" /\ keys[j][1] # "close"
          THEN ThrowsException ELSE ReturnsNormally) >>

Keys == {"start", "stop", "close"} \X {Conn, mSession, mConsumer}

(* The sender never deletes anything.                                      *)
sender ==
  << Test("sender",
          << <<"create", mSession>>, <<"createDestination", mSession>>,
             <<"create", mProducer>> >>
          \o FlattenSeq([i \in 1..Batch |->
                          << <<"createMessage", mSession>>, <<"send", mProducer>> >>])
          \o << <<"exit", Conn>> >>,
          ReturnsNormally) >>

(* The thread sender deletes its connection only.                          *)
process ==
  << <<"create", mSession>>, <<"createDestination", mSession>>,
     <<"create", mProducer>> >>

SendMessage == << <<"createMessage", mSession>>, <<"send", mProducer>> >>

MessageProcessor ==
  << Test("MessageProcessor",
          process \o FlattenSeq([i \in 1..Batch |-> SendMessage])
          \o << <<"destroy", Conn>> >>,
          ReturnsNormally) >>

Examples ==
  { sender, MessageProcessor }
  \cup { receiver(keys) : keys \in UNION {[1..n -> Keys] : n \in 0..MaxKeys} }

-----------------------------------------------------------------------------
(* The test's thread.                                                      *)

TestInit ==
  /\ Init
  /\ script \in mainScripts \cup Examples
  /\ body = Head(script).body
  /\ failed = {}
  /\ outbox = [p \in Producers |-> 0]
  /\ stored = 0
  /\ credit = FALSE
  /\ pending = FALSE
  /\ mMessagesCount = 0

Threw == ret[Main] = "CMSException"

Idle == fault = "none" /\ todo[Main] = <<>> /\ script # <<>>

(* A statement that ends at once, with or without an exception.            *)
Immediately(throws) ==
  /\ ret' = [ret EXCEPT
                ![Main] = IF throws THEN "CMSException" ELSE "returned"]
  /\ UNCHANGED <<fields, mMutex, pointers, todo, op, calls, fault, proton,
                 asked>>

(* createTextMessage and createBytesMessage begin with check().            *)
createMessage(s) == Immediately(~check(s)) /\ UNCHANGED flow

(* So do createTopic, createQueue and those of temporary ones.             *)
createDestination(s) == Immediately(~check(s)) /\ UNCHANGED flow

(* MessageProducerImpl::send on an open producer, which gets the credit it *)
(* waits for.                                                              *)
Send(p) ==
  /\ Immediately(~mWorkQueue[p])
  /\ outbox' = IF mWorkQueue[p] THEN [outbox EXCEPT ![p] = @ + 1] ELSE outbox
  /\ UNCHANGED <<stored, credit, pending, mMessagesCount>>

SetExpectedCount ==
  /\ Immediately(FALSE)
  /\ mMessagesCount' = 0
  /\ UNCHANGED <<outbox, stored, credit, pending>>

(* The broker and the container have nothing left to do.                   *)
Quiet ==
  /\ handling = NoObject
  /\ \A o \in Objects : peer[o] \notin {"opening", "closing"}
  /\ \A c \in Consumers : drains[c] = 0
  /\ \A p \in Producers : outbox[p] = 0
  /\ ~(credit /\ stored > 0)

(* Five seconds are taken to be enough for them.                           *)
Sleep == Quiet /\ Immediately(FALSE) /\ UNCHANGED flow

(* At the end of the program the container is stopped.                     *)
Exit ==
  /\ peer' = [o \in Objects |-> IF peer[o] = "none" THEN "none" ELSE "closed"]
  /\ outbox' = [p \in Producers |-> 0]
  /\ ret' = [ret EXCEPT ![Main] = "returned"]
  /\ UNCHANGED <<fields, mMutex, pointers, todo, op, calls, fault, drains,
                 handling, container, faults, asked>>
  /\ UNCHANGED <<stored, credit, pending, mMessagesCount>>

CreateObject(o) ==
  \/ o \in Sessions /\ createSession(Main, o)
  \/ o \in Consumers /\ createConsumer(Main, o, mSession)
  \/ o \in Producers /\ createProducer(Main, o, mSession)

Statement(what, o) ==
  \/ what = "create" /\ CreateObject(o) /\ UNCHANGED flow
  \/ what \in {"start", "stop"} /\ StartStop(Main, what, o) /\ UNCHANGED flow
  \/ what = "close" /\ CloseObject(Main, o) /\ UNCHANGED flow
  \/ what = "destroy" /\ Destroy(Main, o) /\ UNCHANGED flow
  \/ what = "createMessage" /\ createMessage(o)
  \/ what = "createDestination" /\ createDestination(o)
  \/ what = "send" /\ Send(o)
  \/ what = "setExpectedCount" /\ SetExpectedCount
  \/ what = "sleep" /\ Sleep
  \/ what = "exit" /\ Exit

NextStatement ==
  /\ Idle
  /\ body # <<>> /\ ~Threw
  /\ Statement(Head(body)[1], Head(body)[2])
  /\ body' = Tail(body)
  /\ UNCHANGED <<script, failed>>

Success ==
  LET expected == Head(script).success IN
  CASE expected.what = "returns" -> ~Threw
    [] expected.what = "throws"  -> Threw
    [] expected.what = "counts"  -> ~Threw /\ mMessagesCount = expected.count

(* The end of a test, reached by its last statement or by an exception.    *)
setResult ==
  /\ Idle
  /\ body = <<>> \/ Threw
  /\ failed' = IF Success THEN failed ELSE failed \cup {Head(script).name}
  /\ script' = Tail(script)
  /\ body' = IF script' = <<>> THEN <<>> ELSE Head(script').body
  /\ Immediately(Threw /\ script' = <<>>)
  /\ UNCHANGED flow

(* A step of a call.  The consumer's start() adds credit, which has to     *)
(* wait for the end of a drain.                                            *)
CallStep ==
  /\ ThreadStep(Main)
  /\ LET starts == Head(todo[Main]) = <<"setStarted", mConsumer>>
         drain  == drains[mConsumer] > 0
     IN  /\ credit' = (credit \/ (starts /\ ~drain))
         /\ pending' = (pending \/ (starts /\ drain))
  /\ UNCHANGED <<outbox, stored, mMessagesCount, testing>>

-----------------------------------------------------------------------------
(* The container's thread and the broker.                                  *)

Open(o) == OnOpen(o) /\ UNCHANGED <<flow, testing>>

CloseEnd == OnCloseEnd /\ UNCHANGED <<flow, testing>>

Drained(c) ==
  /\ DrainFinish(c)
  /\ credit' = IF c = mConsumer THEN pending ELSE credit
  /\ pending' = IF c = mConsumer THEN FALSE ELSE pending
  /\ UNCHANGED <<outbox, stored, mMessagesCount, testing>>

(* The close of a link comes after what the link had to transfer.          *)
Close(o) ==
  /\ o \in Producers => outbox[o] = 0
  /\ OnClose(o)
  /\ credit' = IF o = mConsumer THEN FALSE ELSE credit
  /\ UNCHANGED <<outbox, stored, pending, mMessagesCount, testing>>

(* The broker stores a message for the consumer's queue.                   *)
Transfer(p) ==
  /\ outbox[p] > 0
  /\ peer[p] \in {"open", "closing"} /\ Reachable(p)
  /\ outbox' = [outbox EXCEPT ![p] = @ - 1]
  /\ stored' = stored + 1
  /\ UNCHANGED <<vars, credit, pending, mMessagesCount, testing>>

(* on_message and MyMessageListener::onMessage.                            *)
onMessage ==
  /\ Handles
  /\ peer[mConsumer] = "open" /\ Reachable(mConsumer)
  /\ credit /\ stored > 0
  /\ stored' = stored - 1
  /\ mMessagesCount' = mMessagesCount + 1
  /\ UNCHANGED <<vars, outbox, credit, pending, testing>>

Broker ==
  \/ CloseEnd
  \/ \E o \in Objects : Open(o) \/ Close(o)
  \/ \E c \in Consumers : Drained(c)
  \/ \E p \in Producers : Transfer(p)
  \/ onMessage

TestNext == NextStatement \/ setResult \/ CallStep \/ Broker

(* The test's thread, the container and the broker keep running.           *)
TestSpec ==
  /\ TestInit
  /\ [][TestNext]_testVars
  /\ WF_testVars(NextStatement \/ setResult \/ CallStep)
  /\ WF_testVars(Broker)

-----------------------------------------------------------------------------
(* Properties.                                                             *)

(* Whatever the interleaving with the container's thread, every test of    *)
(* the suite has the result it expects, and every example ends as it does: *)
(* messages are consumed exactly when some level of the tree started the   *)
(* consumer last, operations on closed objects throw, and no others do,    *)
(* and no destructor throws.                                               *)
TestsSucceed == failed = {} /\ fault = "none"

(* Whatever was created is closed at the broker when its script ends, but  *)
(* by an exception: in whichever order the objects are deleted, no session *)
(* or link is left behind.                                                 *)
NothingLeftOpen ==
  script = <<>> /\ ~Threw => \A o \in Objects : peer[o] \in {"none", "closed"}

(* Every script ends: no stop(), close() or destructor waits for ever, in  *)
(* whichever order the objects of the tree are closed and deleted.         *)
ScriptsEnd == <>(script = <<>>)

=============================================================================
