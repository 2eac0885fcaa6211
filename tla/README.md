# stonex-cms-amqp: a TLA+ model

`stonex-cms-amqp` implements the CMS messaging interface (the C++ cousin of JMS,
vendored from ActiveMQ-CPP) on top of Qpid Proton, an AMQP 1.0 client. This
directory models the life cycle of connections, sessions, consumers and producers, where
threads, callbacks and a broker meet; messages on their way from an application
over AMQP to another one; and the broker URLs and factories that connections are
made with. TLC checks the models on small instances;
TLAPS proves the safety results for every value of the constants, the scripts of the
repository's own tests excepted.

Paths below are relative to `src/stonex-cms-amqp/stonex-cms-amqp-lib/`; `cpp/`
stands for `stonex-cms-amqp-cpp/` and `cms/` for `activemq-cpp/src/main/cms/`.

## 1. Inventory

### How the system works

One process has one Proton container, run by one thread of its own
(`cpp/ProtonCppLibrary.cpp`): the *container's thread*. The application's
threads never touch a Proton object. They put a lambda into a *work queue*
(`mWorkQueue->add`), which the container's thread executes in order, and wait on
a condition variable until a *handler* (`on_...`), called by the container's
thread too, has changed the state of the object. The application's threads take
the object's `mMutex`; the handlers never do. That asymmetry is where most
of the difficult behaviour comes from: a handler may write `mState`,
`mWorkQueue` or `mCanSend`, and call `notify_one`, between any two steps of a
thread that holds the mutex.

### Components

| component | state | operations | talks to | correct when |
|---|---|---|---|---|
| `MessageProducerImpl` | `mState`, `mWorkQueue`, `mCanSend`, `mCv`, `mSendable`, the sender; default mode, priority, time to live | constructor, `send`, `close`, destructor, setters; `on_sendable`, `on_sender_open`, `on_sender_close` | work queue, sender link, messages | one message per `on_sendable`; what `send` accepted reaches the sender once, in order and as it was; every wait ends; a returned `close` is final |
| `MessageConsumerImpl` | `mState`, `mWorkQueue`, `mCv`, the receiver and its credit, the listener | constructor, `start`, `stop`, `close`, destructor, `setMessageListener`; `on_message`, `on_receiver_open/close/detach/drain_finish` | work queue, receiver link, the listener, messages | nothing is delivered after `stop` returned; never more than one window of credit; a started consumer can receive |
| `SessionImpl`, `CMSSession` | `mState`, `mWorkQueue`, weak pointers to consumers and producers | constructor, `start`, `stop`, `close`, destructor, `create*`, `check`, handlers | its children; the connection | children close before it; `start` and `stop` reach all of them |
| `ConnectionImpl`, `CMSConnection` | the same, weak pointers to sessions | the same, `on_connection_open`, `on_transport_close` | its sessions; reconnect of Proton | the same for the tree; concurrent use is allowed |
| `StateMachine` (`cpp/ClientState.h`) | one of UNNINITIALIZED, STARTED, STOPPED, CLOSED, DETATCHED | `setState`, `checkState` | all of the above | no transition is checked: any state may follow any other |
| `ProtonCppLibrary` | the container and its thread | singleton, run | every connection | an exception that leaves a handler or lambda ends the thread that serves every connection |
| `AMQPCMSMessageConverter` | none | destinations, message identifiers, headers, properties to AMQP and back | messages, producer, consumer | conversions are inverses; what it cannot name it refuses |
| `CMSMessage`, `CMSTextMessage`, `CMSBytesMessage` | an AMQP message, shared or owned; destination and reply-to; for bytes a body and a read position | header, property and body access, `clone`, `clearBody`, `clearProperties`, `reset`, `acknowledge` | `send`, the listener | what was written is read back, once and never beyond the end; a clone is the message; what is received is what was sent |
| `URIParser` | the options of the URL parsed last | `parseURI` | the factory | every legal URL and option is found, in whatever order |
| `CMSConnectionFactory`, `ConnectionFactoryImpl`, contexts | the parsed URL | construction, `createConnection`, `setExceptionListener` | parser, connections | every connection has the URL's options and its own credentials |
| `CMSMessageProducer`, `CMSMessageConsumer`, ... | a pointer | forward a call and log it | the Impl classes | no logic |
| the `cms` interface | none | vendored headers | | its comments say what a provider promises |
| Qpid Proton | external | work queue, links, credit, drain, reconnect | | modelled from the way the code uses it |
| unit tests, `Examples/tests` | | gtest suites; an integration test that needs a broker | all of the above | the tests pass |

### What is hard in it

* *Interleavings.* A handler runs between a thread's test of a predicate and its
  going to sleep (lost wakeup); two operations wait on the same condition
  variable for different states and `notify_one` wakes either; a pointer is
  tested before a wait and dereferenced after it; `start` and `stop` overwrite
  the CLOSED a closer waits for.
* *Order.* Lambdas of several threads share a queue; a drain asked for by one
  `stop` may be answered during another; a close may run before a message.
* *Failure.* The broker closes or detaches a link unasked, the transport drops
  and Proton reconnects (with new links and without credit), the transport ends
  for good, a handler throws and takes the container's thread with it, one child
  of a session throws in the middle of a loop over all of them.
* *Lifetime.* Every lambda captures `this`; weak pointers expire before the
  destructor's own `close` has run.

* *Conversion.* A message is cloned, stamped, converted and queued by one thread
  and sent by another; identifiers carry their AMQP type in a textual prefix;
  objects share or own their AMQP message depending on their class; a read
  position is moved, kept or reset by a dozen functions.
* *Parsing.* The options of a URL are split by a recursion that looks back for one
  separator and forward for another, and leave their mark in an object that is
  used again.

`PROJECT.json` lists each of these under "hazards" with the line where it bites.

## 2. Modules

| module | models | state and actions |
|---|---|---|
| `Monitor` | `mMutex` and the condition variables, as `std::unique_lock` and `cv.wait(lk, predicate)` use them | `mMutex`, `pc`; the wait is check -> block -> (sleep) -> relock -> check, spurious wakeups included |
| `Endpoint` (extends `Monitor`) | what producer and consumer share line for line: constructor, `close`, destructor, `on_*_open`, `on_*_close`, work queue, link, reconnect | one variable per field; a handler that writes two fields takes two steps (`OnClose`, `OnCloseState`) and its `notify_one` is a third (`Notify`); a null dereference, a use of a destroyed object or an exception out of a destructor ends the process (`fault`) |
| `MessageProducerImpl` (extends `Endpoint`) | the life cycle in `cpp/MessageProducerImpl.cpp` | `send` is CallSend, SendEnter (lock, headers, queue test), the wait on `mSendable`, SendEnqueue (`mCanSend = false`, `add`); Proton's credit and its flow events decide when `on_sendable` runs |
| `Delivery` | what a producer promises: a permit admits one message into a queue that is handed over in order | `permit`, `queue`, `delivered`; `MessageProducerImpl` implements it (`ImplementsDelivery`) |
| `MessageConsumerImpl` (extends `Endpoint`) | the life cycle in `cpp/MessageConsumerImpl.cpp` | `start` is test, `add`, write of STARTED, each a step; `stop` queues a drain and waits; `on_message` returns the credit used unless a drain is on |
| `Credit` | what a consumer promises: `start` lets a window of credit out, `stop` lets it run down, no message arrives between the return of `stop` and the next `start` | `phase`, `credit`, `delivered`; `MessageConsumerImpl` implements it (`ImplementsCredit`) |
| `ConnectionTree` | `cpp/ConnectionImpl.cpp`, `cpp/SessionImpl.cpp`, the creating functions of `API/CMSSession.cpp` and `API/CMSConnection.cpp` | each thread has a list of what is left of its call: a call on a parent unfolds into the calls on its children and its own last statements, an exception drops the rest and releases the locks; the sessions' vectors, the weak pointers (`alive`), the AMQP objects (`peer`) |
| `AMQPCMSMessageConverter` | the class of that name and the destination classes | operators: an AMQP message is a record, a setter maps it to a new one |
| `CMSMessageClasses` (extends the converter) | `API/CMSMessage.cpp`, `CMSTextMessage.cpp`, `CMSBytesMessage.cpp`; `from_cms_message` and the constructor `on_message` chooses | operators on objects: constructors, copies, headers, properties, bodies |
| `Messages` (extends `CMSMessageClasses`) | the application's messages, `send()` up to the work queue, the container, `on_message` and the listener; creation in `CMSSession`; link configuration in `ProducerContext`, `ConsumerContext` | a heap of AMQP messages that objects refer to, the producer's settings, the work queue, the wire; one action per call |
| `BytesMessage` | the body and the read position of `CMSBytesMessage` | one action per kind of read and write, and `reset`, `clearBody`, `setBodyBytes`, `getBodyBytes`, `clone`, sending, receiving |
| `URIParser` | `API/URIParser.cpp` | operators: the segments `getOptionsString` finds, in the order it applies them, and what `updateOption` stores |
| `ConnectionFactory` (extends `URIParser`) | `API/CMSConnectionFactory.cpp`, `cpp/FactoryContext.cpp`, `cpp/ConnectionContext.cpp`, `cpp/ConnectionFactoryImpl.cpp` | the parser, the factory made last, the connections; one action per call |
| `UnitTests` | the gtest suites of messages, converter and URLs | each test is a sequence of statements that run on the model above |
| `DevelopmentTest` (extends `ConnectionTree`) | `Examples/tests`: 33 tests in 4 scripts, and 24 orders of deletion; `Examples/sender`, `Examples/thread-sender`, and `Examples/receiver` under every sequence of up to `MaxKeys` commands | the statements of the scripts call the actions of `ConnectionTree`; the broker's queue, credit and the listener's counter |
| `MC*` | the instances for TLC | |
| `Endpoint_proofs`, `MessageProducerImpl_proofs`, `MessageProducerDelivery_proofs`, `MessageConsumerImpl_proofs`, `ConnectionTree_proofs`, `BytesMessage_proofs`, `Messages_proofs`, `ConnectionFactory_proofs` | theorems and proofs | |

`MessageProducerImpl` and `MessageConsumerImpl` are compositions of an
`Endpoint` with their own part: each action of `Endpoint` appears in them
conjoined with what it leaves alone of their variables. `ConnectionTree` looks
at endpoints from above and keeps only their state and queue; a thread leaves a
wait there whenever its predicate holds. Whether a notification can be lost on the way is
what `Endpoint` is about. That idealisation adds no behaviour a reader should
worry about in the safety results (every exit from a wait does see its
predicate), and it makes the liveness results `ClosersEnd` and `ScriptsEnd`
statements about locks and waiting order only. `Messages` in turn takes the life cycle and
the credit for granted and looks at what is in the messages.

Definitions whose comment begins with "Mutant of" are plausible mistakes in the
code. No specification uses them: each is there to show that some property
would notice it.

### How code is abstracted

* In the life-cycle modules a message is the pair of its thread and that thread's
  call number; destinations, headers and listeners are left to `Messages`.
* A lambda is a record of its kind, its thread and its message.
* `createCMSDestination`, which may throw inside `on_*_open`, is a choice: the
  handler completes (OnOpen) or leaves through the exception (OnOpenThrows).
* Reconnects: Proton opens the link again if it was attached; the new link has
  no credit. Whether a drain in progress survives is not specified by
  Proton, and the model has both.
* `int` credit never comes near its limits (a window is 10), so it is not given
  a width. The producer's credit is an integer, not a natural: the code sends
  without credit when `on_sendable` and a reconnect cross, and Proton buffers.
* Texts are sequences of tokens. What the C++ library makes of one (`std::stoul`,
  hexadecimal digits, `std::stoi`) is a constant, `Reading` or `Number`, given
  by the instance; the prefixes of identifiers are tokens of their own, so that
  the escape and the regular expressions of the converter are modelled by what
  they do. The numeric limits `ULongMax`, `MinInt`, `MaxInt` are constants too.
* A byte of a bytes message carries the number of the write it stems from and its place
  in it, and a read beyond the end returns a byte `Garbage`.
* A URL is the sequence of its segments (`&`), each a sequence of words (`.`).
  What is undefined behaviour there is an outcome of its own. The code
  recurses once per segment; the model states in which order that applies the
  segments (`Applied`) and folds them with a recursive function.
* The classes in `API/` forward the calls of the application to the Impl classes.
  `ConnectionCalls`, `SessionCalls`, `ConsumerCalls` and `ProducerCalls` say which
  calls each of them lets through, and `check` what `CMSSession` tests first.

## 3. Runs

`CHECK_DEADLOCK FALSE` stands in every cfg: the application may stop calling, and a
thread that waits for a broker that never answers is a state the real program
can be in. In `messages` and the runs after it the bounds end every behaviour.

### Runs that pass

| run | instance | states | shows |
|---|---|---|---|
| `producer_safety` | 2 threads that send (2 messages each) and close, 2 flow frames, 1 reconnect | 5.0 million | `OneMessagePerSendable`, `AcceptedInOrder`, `ReturnedCloseIsClosed`, `ImplementsDelivery` |
| `producer_progress` | 1 sender, 1 closer, 2 messages, 2 flow frames granting up to 2, 1 reconnect | 152 thousand | `SleepingCloserReturns`, `SleepingSenderReturns`, `AcceptedIsExecuted` |
| `consumer` | 1 thread that starts and stops in turns (4 calls), 2 that close, a window of 3, 3 messages, 1 reconnect | 248 thousand | `StopHalts`, `AtMostOneWindow`, `StartedHasCredit`, `ReturnedCloseIsClosed`, `LoneStopperReturns`, `LoneCloserReturns`, `ImplementsCredit` |
| `tree_close` | a connection, a session, a consumer, a producer; 2 threads; everything is created first, then 3 calls of start, stop, close or destroy on any object, one of which may give way to an unasked close or reconnect | 309 thousand | `ChildrenCloseFirst`, `ClosersEnd` |
| `messages` | 2 objects, 4 calls, 2 sends, up to 3 AMQP messages; 6 messages of other clients | 4.1 million | `SentAsSet`, `ReceivedAsSent`, `FreshIds`, `ReplyCorrelates`, `OwnMessagesReadable` |
| `bytes_message` | 2 objects, 2 writes, 3 reads, 3 other calls; values of 1, 4 and 8 bytes | 1.9 million | `FollowedReadsReturnWrites`, `EOFAtTheEnd`, `PositionAtNextValue`, `BodyIsWhatWasWritten` |
| `factory` | 94 URLs, 3 calls, every combination of user, password and client id | 110 thousand | `OptionsTakeEffect`, `ThrowsForBadNumbersOnly`, `ConnectionsConfigured` |
| `unit_tests` | the tests of the repository that are not disabled | 1032 | `ExpectationsMet` |
| `development_tests` | 28 scripts of the test, 9 of its tests sending 15 messages each, and 93 of the examples, 91 of them the receiver under up to 2 commands | 12 thousand | `TestsSucceed`, `NothingLeftOpen`, `ScriptsEnd` |

What they say in words:

* `OneMessagePerSendable`: although `on_sendable` raises `mCanSend` without the
  mutex and several threads race for it, no more messages are accepted than
  there were callbacks.
* `AcceptedInOrder`: what `send` accepted is executed or still queued, in the
  order of acceptance, and for each thread in the order of its calls.
* `AcceptedIsExecuted`: the queue of accepted messages gets empty again, whatever
  the link has become, unless the container's thread or the process ended.
* `ImplementsDelivery`: under the mapping `permit <- mCanSend`, `queue <-` the send
  lambdas of the work queue, `delivered <-` the messages executed, each step of
  the producer is a step of `Delivery` or leaves it alone.
* `SleepingCloserReturns`, `SleepingSenderReturns`: who is asleep in the producer
  when its handler is about to notify leaves its operation.
* `LoneStopperReturns`, `LoneCloserReturns`: the same of the consumer, for a thread
  that has `mCv` to itself. With another thread asleep on it this is false: see
  `consumer_wrong_wakeup` below.
* `ReturnedCloseIsClosed`: after a `close` that returned normally the link is
  closed and the queue gone, whatever handlers, lambdas, reconnects, a second
  `close` or (in the consumer) a late `start` do.
* `StopHalts`: after `stop` returned there is no credit on the link, none waiting
  for a drain to end and none in the queue. It holds for a thread that starts
  and stops in turns.
* `AtMostOneWindow`: under the same discipline two windows never add up.
* `ImplementsCredit`: under it too, and the mapping `phase <-` where the starter is
  (`Phase`), `credit <-` what the link has, has waiting behind a drain or has queued
  (`CreditOut`, nothing on a closed link), `delivered <- messages`, each step of the
  consumer is a step of `Credit` or leaves it alone: `start` and `stop`, which only
  queue lambdas, are the atomic steps of a switch.
* `StartedHasCredit`: a STARTED consumer at rest can receive; until the first
  reconnect, after which it cannot.
* `ChildrenCloseFirst`: the close of a session or connection is asked for only
  when the broker has confirmed the close of every child still alive.
* `ClosersEnd`: concurrent closers, at any object of the tree, are never locked
  out by the mutexes; the two ways a `close` can wait for ever (its CLOSED was
  overwritten; an object whose destructor had begun was passed over and
  stranded) are named in the property.
* `SentAsSet`: what the container's thread sends is the message as it was when
  `send` was called, with the settings of that call. Of an expiration or a timestamp
  that it already held nothing is said (see below).
* `ReceivedAsSent`: the listener's message equals the one sent, as far as the
  object and its AMQP message agreed (after `clearBody` they do not) and its
  destinations have an address. It bears the destination given to `send`, or the
  producer's, unless the message held one of its own (see below).
* `FreshIds`: a message sent without an id goes out under one that no earlier message
  had, or without one where ids are disabled.
* `ReplyCorrelates`: the id of a request, of whatever AMQP type, comes back as
  the correlation id of the answer.
* `OwnMessagesReadable`: no message that the library sent makes the receiving
  constructor throw or dereference null.
* `FollowedReadsReturnWrites`, `EOFAtTheEnd`, `PositionAtNextValue`: for a reader who
  reads with the types of the writer, through `reset`, clones, later writes and
  transfers. A ghost of each object remembers what such a reader may expect.
  `EOFAtTheEnd` is about messages that `cms/BytesMessage.h` lets one read: `reset` or
  received, and not written to since (the ghost `readable`).
* `BodyIsWhatWasWritten`: bodies are whole values in the order of writing.
* `OptionsTakeEffect`: an option is found in whatever order and company it stands,
  and keeps its default if absent, also in a parser that was used before.
* `ThrowsForBadNumbersOnly`, `ConnectionsConfigured`: see their comments.
* `ExpectationsMet`: every assertion of the unit tests. It is a check of the
  model against the code as much as of the code: the assertions passed there.
* `TestsSucceed`: every test has its expected result under every interleaving; no
  destructor throws. `NothingLeftOpen`: at the end of a script every session
  and link ever opened is closed, in all 24 orders of deletion. `ScriptsEnd`: no
  script waits for ever.

### Runs that find the code and its documents apart

| run | property | what happens |
|---|---|---|
| `producer_lost_wakeup` | `CloseReturnsOnceClosed` | `on_sender_close` writes CLOSED and notifies, without the mutex, between the closer's test and its sleep: `close` never returns |
| `consumer_wrong_wakeup` | `SleepingStopperReturns` | `stop` and `close` of two threads sleep on the same `mCv`; the one notification of `on_receiver_drain_finish` goes to the closer, and `stop` sleeps on although the consumer is STOPPED |
| `connection_close` | `ConnectionCloseClosesSessions` | after the final `on_transport_close`, `close` of the connection does nothing |

Other behaviour of the same kind that the models exhibit, without a run of its own.
First, where `cms/Message.h` and `cms/BytesMessage.h` promise something else; the
properties are stated so that they ask for nothing these documents rule out:

* The destination that a message holds wins over the one given to `send` and over the
  producer's (`cpp/MessageProducerImpl.cpp:107`); `cms/Message.h:499-501` has it
  ignored by `send` and replaced.
* An id that a message holds, set by the application, received, or left by an earlier
  send of a `CMSMessage` or its clone, is sent again (`cpp/MessageProducerImpl.h:107`);
  `cms/Message.h:566-571` has every sent message get an id of its own. With ids
  disabled it is sent too, where lines 586-588 have none.
* A time to live of zero leaves an older expiration in place, and a disabled
  timestamp an older timestamp (`cpp/AMQPCMSMessageConverter.cpp:882`,
  `cpp/MessageProducerImpl.cpp:268-276`); `cms/Message.h:534-535` and 724-728 have zero.
* `CMSBytesMessage` has no read-only and no write-only mode: it reads a message that was
  never `reset` and writes to one that was, where `cms/BytesMessage.h:48-62` has
  `MessageNotReadableException` and `MessageNotWriteableException`.

Then the rest:

* `send` with a destination, a message and a callback, and nothing else, is an empty
  function (`cpp/MessageProducerImpl.h:60`): the message is dropped and the callback
  never called. `getDisableMessageID` of the public class calls itself without end
  (`"endlessRecursion"`). `writeUTF` writes nothing, `readUTF` returns an empty string.
* A `send` that waits for credit is not woken by a close (`cpp/MessageProducerImpl.cpp:131`
  has a TO DO for it); a message queued behind a close is reported as sent.
* `stop` on a STOPPED consumer returns with its drain outstanding, which may answer
  the `stop` after the next `start` (without the alternation of `consumer`);
  two drains at once throw on the container's thread (`container = "drainThrew"`).
* After a reconnect a consumer is STARTED and has no credit; a consumer created
  after `start` of its connection stays STOPPED.
* `start` or `stop` of a connection overwrites the CLOSED another thread waits for.
* `send`, `stop` and `close` may dereference the queue pointer that a close handler
  has cleared (`"nullDereference"`); a closer may return and destroy the object
  before `on_*_close` notifies it (`"useAfterFree"`); the destructor may meet the
  gap between "queue cleared" and "CLOSED" and throw (`"terminate"`); creating a
  session while another thread walks `mSessions` is a data race (`"dataRace"`).
* The clone of a `CMSMessage` shares its AMQP message with the original; that of a
  `CMSBytesMessage` forgets the reply-to; `clearBody` clears headers, properties
  and message type as well; `CMSTextMessage::setText` does nothing.
* An AMQP string id that begins with one of the prefixes gains one on each
  answer.
* A received reply-to of the type temporary topic dereferences null; an octet-stream
  message whose body is not binary throws out of `on_message`.
* `readBytes` copies past the end of the body, or of a vector that is shorter than the
  rest (the outcome `"undefined"`, after which nothing is modelled); `readString`
  takes all the rest and leaves the position where it was.
* A URL without an address, an empty option segment or a single word after `cms.`
  is undefined behaviour; a bad number throws `std::invalid_argument`, not a
  `CMSException`; a value that contains a dot is lost.

### Bounds

The constants `MaxSends`, `MaxFlows`, `MaxGrant`, `MaxDrops`, `MaxCalls`,
`MaxMessages`, `MaxFaults`, `MaxRefs`, `MaxWrites`, `MaxReads` bound how often the
environment acts; nothing else is
bounded. Two threads are enough for every race here: each hazard is between one
thread and the container's thread, or between two threads and it. Two messages
per sender give an order to get wrong; four calls are start-stop-start-stop, the
shortest history in which a stale drain can answer the wrong `stop`; a window of
3 exceeds what one message and its replacement can hide; one reconnect is what
separates "first open" from "open again", the only distinction `on_*_open`
makes. In `ConnectionTree` an unasked close or reconnect counts as one of the
`MaxCalls`: three of them are two closers and a third party, or two closers and one
fault that falls into any gap between them.

In `messages` four calls and two sends are enough to make a message, change it,
send it, and change or answer it again while the first copy is queued; three AMQP
messages are an original, a clone and one in the queue. The objects are
interchangeable (symmetry). In `bytes_message` three reads exceed two writes, so that the
end is met, and three other calls are a transfer (send, receive) and one more.
`factory` takes every option segment by itself, seven of them in all pairs and
three in all triples; three calls are a parser or factory used again.
In `development_tests` `MaxCalls` exceeds the calls of the longest script and `Batch` is
the code's 15; `MaxKeys` = 2 commands are enough for one object to be closed and any
other, or itself, to be started, stopped or closed after it.

### Fairness

`FairSpec` adds strong fairness for the steps of each thread inside an
operation, weak fairness for what the container's thread has already begun
(queued lambdas, the rest of a handler), and weak fairness for the broker's
answer to a drain and, in `ConnectionTree`, to an open or a close. The operating
system's scheduler justifies the first two: a runnable thread runs, and a mutex that is
released again and again is eventually handed to each thread waiting for it,
which is why this one is strong. A drain without credit is answered by Proton
itself. Nothing makes the application call, the broker grant credit or
close a link, or a sleeping thread wake by itself; so a progress property
is stated from the moment its handler runs. `TestSpec` assumes that the test's
thread goes on and that the broker, as in the test's own set-up, answers and stores.

## 4. Proofs

Each theorem holds for every value of the constants that satisfies the modules'
assumptions, which TLC evaluates in the runs: `NoThreadAssumption`,
`EndpointAssumption`, `ProducerAssumption`, `ConsumerAssumption` and
`TreeAssumption` (the sets of threads are subsets of `Threads`, the kinds of
objects are disjoint, bounds are naturals, the window is positive),
`BytesAssumption` (a value has at least one byte), `NumberAssumption` and
`FactoryAssumption` (what `std::stoi` reads is an integer, URLs are sequences of
segments of words, the mark of an option that is not set is no credential),
`ConverterAssumption` and
`MessagesAssumption` (the kinds of the constants), `InterfaceAssumption` (what an
application can pass to a setter: text where the interface has a string, a pointer
to one of the four destination classes or null where it has a destination) and
`IdsAssumption` (the ids that applications and other clients give are legal AMQP
identifiers and none is one the generator will make; the generator's texts are
distinct and none is a type prefix: they are random UUIDs). `Threads` may be
any set, infinite too, and so may the sets of objects.

| module | theorem | says |
|---|---|---|
| `MessageProducerImpl_proofs` | `TypeCorrect` | `Spec => []TypeOK` |
| | `OneMessagePerSendableHolds` | `Spec => []OneMessagePerSendable` |
| | `ClosedProducerStaysClosed` | `Spec => []ReturnedCloseIsClosed` |
| `MessageProducerDelivery_proofs` | `AcceptedReachesSenderInOrder` | `Spec => []AcceptedInOrder` |
| | `ProducerImplementsDelivery` | `Spec => ImplementsDelivery` |
| `MessageConsumerImpl_proofs` | `TypeCorrect` | `Spec => []TypeOK` |
| | `ClosedConsumerStaysClosed` | `Spec => []ReturnedCloseIsClosed` |
| | `StopHaltsTheConsumer` | `Spec => []StopHalts`, for one alternating starter |
| | `OneWindowAtMost` | `Spec => []AtMostOneWindow`, likewise |
| | `StartedConsumerHasCredit` | `Spec => []StartedHasCredit`, likewise |
| | `ConsumerImplementsCredit` | `Spec => ImplementsCredit`, likewise |
| `ConnectionTree_proofs` | `TypeCorrect` | `Spec => []TypeOK` |
| | `ChildrenAreClosedFirst` | `Spec => []ChildrenCloseFirst`, if the tree is set up first |
| `BytesMessage_proofs` | `TypeCorrect` | `Spec => []TypeOK` |
| | `TypedReadsReturnWrites` | `Spec => []FollowedReadsReturnWrites` |
| | `EOFMeansTheEnd` | `Spec => []EOFAtTheEnd` |
| | `PositionFollowsValues` | `Spec => []PositionAtNextValue` |
| | `BodyHoldsWrites` | `Spec => []BodyIsWhatWasWritten` |
| `Messages_proofs` | `TypeCorrect` | `Spec => []TypeOK` |
| | `SentAsItWasSet` | `Spec => []SentAsSet` |
| | `WhatArrives` | `Spec => []ReceivedAsSent` |
| | `AnswersCorrelate` | `Spec => []ReplyCorrelates` |
| | `OwnMessagesCanBeRead` | `Spec => []OwnMessagesReadable` |
| | `IdsAreFresh` | `Spec => []FreshIds` |
| `ConnectionFactory_proofs` | `TypeCorrect` | `Spec => []TypeOK` |
| | `EveryOptionTakesEffect` | `Spec => []OptionsTakeEffect` |
| | `OnlyBadNumbersThrow` | `Spec => []ThrowsForBadNumbersOnly` |
| | `ConnectionsAreConfigured` | `Spec => []ConnectionsConfigured` |

*One message per callback.* The bound is not inductive by itself: a thread takes the
flag in SendEnqueue, but it saw it raised several steps earlier. The
strengthening `SendInv` adds that a thread at a label inside the critical
section owns the mutex (`MutexHeld`), so that at most one thread is between the
test and the enqueue, and that a sender past its wait still finds the flag raised
(`ReadyCanSend`): only the owner of the mutex ever lowers it.

*Accepted in order, and the refinement.* The queue that `Delivery` sees is the
send lambdas of the work queue (`QueuedMessages`, a recursive function of the
queue). Its value after an append and after a tail are lemmas proved by
induction over the length, in the form of a least counterexample, since the
library's induction theorems cannot be instantiated. `AllAccounted` says that the
messages accepted are the ones executed followed by the ones queued; `CallsInv`
relates each thread's calls to what it had accepted, so that its messages come
in the order of its calls. With it every step of the producer maps to `Raise`,
`Accept`, `Waste` or `Hand` of `Delivery`, or leaves its three variables alone.

*A returned close is final.* `EndpointInv` (in `Endpoint_proofs`) is proved once
for both classes: each action of `Endpoint` has a lemma, and so has each shape
of step the two modules add (a thread moves, a lambda is queued or run, a handler
neither closes nor reopens the link). Its parts are `ConstructorFirst` (no
operation before the constructor is done), `OpenedOnce` (the lambda that opens
the link is queued at most once, in front of everything) and `ClosedForGood`
(CLOSED, or a thread past its wait in `close`, implies a closed link and no
queue, and a closed link is never attached again). The property alone is not inductive
because a lambda that opens the link might still be queued. The consumer needs
`InStart` besides: a thread at a label of `start` is in `start`, so that it is no
closer whose return its STARTED could contradict.

*Credit.* The four theorems about credit assume what the run has: one thread `s` calls
`start` and `stop`, in turns (`Alternate`, `Starters = {s}`); any number of threads
close. With two starters `StopHalts` is false, as the drain of one `stop` may answer the
other. The invariant follows a window of credit on its way: it is out, or in the
queue as an `add_credit` lambda, only between a `start` and the end of the drain
of the next `stop`; there is one window and one drain at most, and the drain stands
behind the window (`Order`). What makes it inductive is that `stop` never finds the
consumer STOPPED before its own drain has run, unless the link closed, and then the
queue pointer makes both calls throw.

*The refinement of Credit* needs no further invariant. A thread other than `s`, and each step of `s`
that only waits or closes, leaves `Phase` and `CreditOut` alone; the `add` of `start`
lets a window out when none is, because `Order` holds before the step and after it
(`StartCredit`); the `add` of `stop` changes the phase, and its
wait ends without credit (`Flow`). A lambda moves credit from the queue to the link or,
when the link has gone, drops it; a handler leaves it or takes it all;
a message that arrives during a drain takes one, and during a drain `s` waits.

*Children first.* `ChildrenCloseFirst` speaks of the moment a close is asked for, but
the parent looked at its children several steps earlier. The invariant relates
what is left of a thread's call to the tree: in front of the parent's own close each
child still alive has its close ahead in the list, or is confirmed closed
(`ChildrenFirst`); a closed state means a confirmed close while nothing reopens
(`Confirmed`); the children do not change any more (`SetupDone`). The theorem
assumes `SetupFirst` (all objects are created before the first is closed): without
it TLC finds a session that is closed while another thread registers a new
consumer with it, behind the iteration.

*Bytes.* The ghost of an object remembers the values behind the body and the place of a
reader who follows their types. `Sound` says that body, position and ghost belong
together, and `After` is the lemma they all use: the body behind the value that is
read next is what the ghost still expects. That values are not empty is needed: an
empty one would let the end of the body be met in front of it.

*Messages.* `SentAsSet` is about aliasing: between `send` and the container's thread the
application goes on to change its objects, and only because the queued clone has an
AMQP message of its own do these changes not reach it. The invariant
`MessagesInv` says that no object of the application holds the AMQP message of a
queued text or bytes message, and that two objects that hold the same one are plain
`CMSMessage`s (`Unshared`; a plain `CMSMessage` shares it with its clones, see section 3,
and the properties leave those out). What is queued or on the wire satisfies
`Promised`, a relation between the AMQP message and the call of `send`: it is as it was
set (`AsSet`), it decodes to the object that was sent (`Arrives`), it has the id the
code gives it (`WithId`), and its correlation id is the one of the request (`Answers`).
These say what the code does in the cases too of which the properties say nothing.
Replacing the copy in `clone` by a shared reference makes the proof of the send and
clone steps fail.

*What arrives.* That decoding undoes encoding is proved of each conversion: the type of a
destination comes back from its JMS annotation or, without one, from the link's
capabilities (`LinkOK` of both links), an identifier from the string it is printed as, and
each setter leaves the fields it does not name alone (`SameBut`). The invariant relates each
object to its AMQP message (`ObjectOK`): the destination, reply-to and body of a
coherent object are in both.

*Fresh ids.* Numbering the ids is not enough. An id that `send` generated is also written
into the message it queues, and through a received message it comes back into the
application, which may print it and set it as the correlation id of the answer, or
pass the message on with the id it had. `FreshInv` says where a generated id can
be: one not yet generated is nowhere (`Unissued`); one in a queued message that
`send` named is in that AMQP message only, and has not gone out (`Awaiting`); two
entries of the queue do not share that message (`Apart`); and so the one that goes out
was not among the earlier ones (`GivenFresh`). `IdsAssumption` is needed for this only,
and for identifiers to be printable; without it an application could guess the id.

*URLs.* The parser applies the segments of a URL in an order of its own and stops at the first
exception. `SegmentApplies` says what one segment does: it sets at most one option, the
one `GivesTo` names, or ends the parse for a bad number of that option or as
undefined behaviour. `AllSegments` carries this over all of them: each option has the
value of a segment applied that gives it, or what it began with if none does (`MadeBy`).
It is an induction, in the form of a least counterexample again; that the recursive
function exists is proved first (`AfterExists`). That the order leaves no segment out
unless it meets an empty one, at which the parse is undefined, is `NoneLeftOut`. The
invariant `FactoryInv` then says that the parser holds what `parseURI` makes of its
last URL alone, the factory what it was made of, and that each connection is one of
the shapes that `connect` gives it (`Made`); `AddressesUsed` adds that a broker
address is never empty.

What only TLC checks, and why:

* every liveness property (`SleepingCloserReturns`, `SleepingSenderReturns`,
  `AcceptedIsExecuted`, `LoneStopperReturns`, `LoneCloserReturns`, `ClosersEnd`,
  `ScriptsEnd`): fairness and ENABLED are beyond the prover;
* `UnitTests` (`ExpectationsMet`) and `DevelopmentTest` (`TestsSucceed`,
  `NothingLeftOpen`), whose results are those of the text of each script: there is no
  constant to generalize, and TLC runs them all.

No module of the project declares a `RECURSIVE` operator. A result about a recursive
function is proved where a property needs it, by a least counterexample.

## 5. Not modelled

* A listener that calls back into the library, above all `close` from a listener,
  which waits on the container's thread for that thread.
* Selectors, durable and named subscriptions beyond the link's capabilities;
  the call of the asynchronous send callback; exception listeners beyond their storage.
* `commit`, `rollback`, `recover`, `unsubscribe` and the functions that log or
  throw "not implemented" (`writeBytes` from a pointer among them); connection metadata.
* Map, stream and object messages, which the library does not have.
* The facades in `API/` as far as they only log; the vendored headers.
* The command lines of the example programs, and the package test, which only uses
  the library, with a broker.
* The Windows-only crash dump in `ProtonCppLibrary`.

## 6. Plan

1. Done: the life cycle (`Monitor` to `ConnectionTree`), the abstract `Delivery`
   and `Credit` and the refinements of both, messages and their conversion, URLs
   and factories, the repository's own tests and examples as scripts; the proofs of
   section 4.
2. Done: the proofs of every safety property of `Messages`, and those of the URL and
   its connections; with them each safety property of a run that passes is proved,
   but for the two modules of scripts.
3. The listener that closes, in `MessageConsumerImpl`.
