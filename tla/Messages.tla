----------------------------- MODULE Messages -----------------------------
(***************************************************************************)
(* The way of a message: an application makes messages, sets them, clones  *)
(* them and sends them through a producer; the container's thread gives    *)
(* them to the sender later; a consumer turns what arrives into messages   *)
(* again, which the application answers, passes on or deletes.  How send() *)
(* waits for credit is the matter of MessageProducerImpl.                  *)
(*                                                                         *)
(* Objects hold their AMQP message by reference (std::shared_ptr): heap    *)
(* maps references to AMQP messages, and an object's mMessage is a         *)
(* reference.                                                              *)
(***************************************************************************)
EXTENDS CMSMessageClasses

CONSTANTS
  Objects,      \* the names the application has for its messages
  Edits,        \* <<header, value>>: what the application sets
  Payloads,     \* bodies
  Targets,      \* destinations producers are created for
  Sources,      \* destinations consumers are created for
  Parameters,   \* destinations passed to send(), nullptr among them
  Foreign,      \* AMQP messages of other clients: a sequence
  SharedNames,  \* queue names of the form VirtualTopic.x::Consumer.y
  DynamicName,  \* the name the broker gives a dynamic node
  Uuids,        \* what the generator returns: a sequence of texts
  Explicit,     \* <<destination, mode, priority, time to live>> passed to send()
  Settings,     \* <<member, value>>: what the producer is set to
  MaxRefs,      \* bound: AMQP messages alive at a time
  MaxCalls,     \* bound: calls the application makes
  MaxSends      \* bound: messages sent

ASSUME MessagesAssumption ==
  /\ nullptr \in Parameters /\ nullptr \notin Targets \cup Sources
  /\ MaxRefs \in Nat /\ MaxCalls \in Nat /\ MaxSends \in Nat
  /\ Uuids \in Seq(STRING)

(* A pointer to one of the four destination classes, or null.              *)
IsPointer(d) == d = nullptr \/ \E i \in DOMAIN DestinationTypes : d.type = DestinationTypes[i]

(* What the signatures of the interface promise, and the precondition of   *)
(* setCMSReplyTo: a destination that is not null.                          *)
ASSUME InterfaceAssumption ==
  /\ \A e \in Edits : /\ e[1] \in Headers
                      /\ e[1] \in {"Destination", "ReplyTo"} => IsPointer(e[2])
                      /\ e[1] = "ReplyTo" => e[2] # nullptr
  /\ \A d \in Targets \cup Sources \cup Parameters : IsPointer(d)
  /\ \A a \in Explicit : IsPointer(a[1]) /\ a[3] \in Int
  /\ \A s \in Settings : s[1] = "mPriority" => s[2] \in Int
  /\ \A i \in DOMAIN Foreign : DOMAIN Foreign[i] = DOMAIN EmptyMessage

IsText(s) == s \in Seq({s[i] : i \in DOMAIN s}) \ {<<>>}

(* The identifiers of AMQP; the texts of the instance hold what the        *)
(* library prints of one.                                                  *)
LegalId(id) ==
  /\ id.type \in {"NULL", "STRING", "UUID", "BINARY", "ULONG"}
  /\ id.type = "STRING" => IsText(id.value)
  /\ id.type = "UUID" =>
       \E t \in Texts : Reading[t].hex = id.value /\ Reading[t].uuid
  /\ id.type = "BINARY" =>
       \E t \in Texts : Reading[t].hex = id.value /\ Reading[t].printed /\ ~Reading[t].uuid
  /\ id.type = "ULONG" =>
       \E t \in Texts : Reading[t].ulong = id.value /\ Reading[t].printed

(* The ids that applications and other clients give to messages.           *)
GivenIds ==
  {MessageIdOf(e[2]) : e \in {f \in Edits : f[1] = "MessageID"}}
    \cup {Foreign[i].id : i \in DOMAIN Foreign}

(* A generated text is none of the words that stand for a type; it is      *)
(* unique, as far as a random 128-bit number is.                           *)
ASSUME IdsAssumption ==
  /\ \A id \in GivenIds : Threw(id) \/ LegalId(id)
  /\ \A i \in DOMAIN Foreign : ~Threw(Foreign[i].id)
  /\ \A i \in DOMAIN Uuids :
       /\ Uuids[i] \notin TypePrefixes \cup {"AMQP_NO_PREFIX"}
       /\ \A j \in DOMAIN Uuids : Uuids[i] = Uuids[j] => i = j
       /\ \A id \in GivenIds : id.type = "STRING" => id.value # <<"ID:", Uuids[i]>>

VARIABLES
  heap,         \* the AMQP messages
  objects,      \* the application's messages
  producer,     \* the settings of MessageProducerImpl
  sender,       \* the link of the producer
  receiver,     \* the link of the consumer
  listener,     \* has the consumer a message listener?
  workQueue,    \* sends waiting for the container's thread
  wire,         \* what went out and was not yet taken by the consumer
  sends,        \* messages sent so far
  used,         \* history: the string ids of messages that went out
  ids,          \* message ids generated so far
  calls,        \* calls of the application so far
  now,          \* the clock
  fault         \* what ended the process or the container's thread

links   == <<sender, receiver>>
network == <<workQueue, wire, sends, used, ids>>
vars    == <<heap, objects, producer, links, listener, network, calls, now, fault>>

NoObject == [class |-> "none"]
Refs     == 1..MaxRefs

Live == {o \in Objects : objects[o] # NoObject}
Used == {objects[o].mMessage : o \in Live} \cup
        {workQueue[i].mess : i \in DOMAIN workQueue}

(* std::make_shared<proton::message>; the reference must be free.          *)
NewRef == CHOOSE r \in Refs : r \notin Used

(* One more call of the application.                                       *)
Call == calls < MaxCalls /\ calls' = calls + 1

Load(o) == [objects[o] EXCEPT !.mMessage = heap[@]]

-----------------------------------------------------------------------------
(* createProducer and createConsumer: what they ask of the broker.         *)

Options(address, capabilities, dynamic) ==
  [address |-> address, capabilities |-> capabilities, dynamic |-> dynamic]

ProducerConfig(d) ==
  CASE d.type = "null"  -> Options("", <<QUEUE_CAPABILITY>>, FALSE)
    [] d.type = "QUEUE" -> Options(d.name, <<QUEUE_CAPABILITY>>, FALSE)
    [] d.type = "TOPIC" -> Options(d.name, <<TOPIC_CAPABILITY>>, FALSE)
    [] d.type = "TEMPORARY_QUEUE" ->
         Options(d.name, <<TEMPORARY_QUEUE_CAPABILITY, "delete-on-close">>,
                 d.name = "")
    [] d.type = "TEMPORARY_TOPIC" ->
         Options(d.name, <<TEMPORARY_TOPIC_CAPABILITY, "delete-on-close">>, TRUE)

(* A selector, a subscription name and durability never get here: the      *)
(* members that hold them stay as they are constructed.                    *)
ConsumerConfig(d) ==
  CASE d.type = "QUEUE" ->
         Options(d.name, IF d.name \in SharedNames
                         THEN <<QUEUE_CAPABILITY, "shared">>
                         ELSE <<QUEUE_CAPABILITY>>, FALSE)
    [] d.type = "TOPIC" -> Options(d.name, <<TOPIC_CAPABILITY>>, FALSE)
    [] d.type = "TEMPORARY_QUEUE" ->
         Options(d.name, <<TEMPORARY_QUEUE_CAPABILITY, "delete-on-close">>, TRUE)
    [] d.type = "TEMPORARY_TOPIC" ->
         Options(d.name, <<TEMPORARY_TOPIC_CAPABILITY, "delete-on-close">>, TRUE)

(* The broker names a dynamic node and confirms the capabilities.          *)
Attach(options) ==
  [address |-> IF options.dynamic THEN DynamicName ELSE options.address,
   capabilities |-> options.capabilities]

createProducer(d) == Attach(ProducerConfig(d))
createConsumer(d) == Attach(ConsumerConfig(d))

(* MessageProducerImpl's members.                                          *)
DefaultSettings ==
  [mDeliveryMode |-> PERSISTENT, mPriority |-> 4, mTTL |-> 0,
   mMessageIdDisabed |-> FALSE, mTimestampDisabed |-> FALSE]

Init ==
  /\ heap = [r \in Refs |-> EmptyMessage]
  /\ objects = [o \in Objects |-> NoObject]
  /\ producer = DefaultSettings
  /\ sender \in {createProducer(d) : d \in Targets}
  /\ receiver \in {createConsumer(d) : d \in Sources}
  /\ listener \in BOOLEAN
  /\ workQueue = <<>>
  /\ \/ wire = <<>>
     \/ \E i \in DOMAIN Foreign : wire = <<[m |-> Foreign[i], sent |-> [own |-> FALSE]]>>
  /\ sends = 0
  /\ used = {}
  /\ ids = 0
  /\ calls = 0
  /\ now = 1
  /\ fault = "none"

-----------------------------------------------------------------------------
(* The application's messages.                                             *)

(* A new object with an AMQP message of its own.  request is a ghost: the  *)
(* id of the message it answers.                                           *)
Allocate(o, object, request) ==
  /\ objects[o] = NoObject
  /\ Refs # Used
  /\ heap' = [heap EXCEPT ![NewRef] = object.mMessage]
  /\ objects' = [objects EXCEPT ![o] =
       [x \in DOMAIN object \cup {"request"} |->
          IF x = "request" THEN request
          ELSE IF x = "mMessage" THEN NewRef ELSE object[x]]]

(* createTextMessage(text) and createBytesMessage(bytes) of the session;   *)
(* the other create functions for messages throw.  A CMSMessage is made    *)
(* by its constructor.                                                     *)
Created(payload) ==
  {newCMSMessage, newCMSTextMessage(payload), newCMSBytesMessage(payload)}

Create(o) ==
  /\ Call
  /\ \E payload \in Payloads : \E object \in Created(payload) :
       Allocate(o, object, NoId)
  /\ UNCHANGED <<producer, links, listener, network, now, fault>>

(* A member function changes the object and, through the reference, the    *)
(* AMQP message.                                                           *)
Store(o, object) ==
  /\ heap' = [heap EXCEPT ![objects[o].mMessage] = object.mMessage]
  /\ objects' = [objects EXCEPT ![o] = [object EXCEPT !.mMessage = objects[o].mMessage]]

Edit(o, object) ==
  /\ Call
  /\ Store(o, object)
  /\ UNCHANGED <<producer, links, listener, network, now, fault>>

SetHeader(o) ==
  \E e \in Edits :
    Edit(o, set(e[1], e[2], now,
                IF e[1] = "CorrelationID" THEN [Load(o) EXCEPT !.request = NoId]
                                          ELSE Load(o)))

SetProperty(o) == Edit(o, setProperty("INT", "p", 1, Load(o)))

ClearProperties(o) == Edit(o, clearProperties(Load(o)))

ClearBody(o) == Edit(o, [clearBody(Load(o)) EXCEPT !.request = NoId])

(* Mutant of CloneRef: every class shares, as CMSMessage does.             *)
SharedRef(o) == objects[o].mMessage

(* The AMQP message of a clone: CMSMessage hands its own to the copy.      *)
CloneRef(o) == IF objects[o].class = "CMSMessage" THEN objects[o].mMessage ELSE NewRef

Clone(o, p) ==
  /\ Call
  /\ objects[p] = NoObject
  /\ Refs # Used
  /\ heap' = [heap EXCEPT ![CloneRef(o)] = heap[objects[o].mMessage]]
  /\ objects' = [objects EXCEPT ![p] = [clone(objects[o]) EXCEPT !.mMessage = CloneRef(o)]]
  /\ UNCHANGED <<producer, links, listener, network, now, fault>>

(* The last shared_ptr to an AMQP message deletes it.                      *)
Release == heap' = [r \in Refs |-> IF r \in Used' THEN heap[r] ELSE EmptyMessage]

Delete(o) ==
  /\ Call
  /\ objects' = [objects EXCEPT ![o] = NoObject]
  /\ UNCHANGED workQueue
  /\ Release
  /\ UNCHANGED <<producer, links, listener, wire, sends, used, ids, now, fault>>

(* A delivery that was copied can be accepted at any time; one that is     *)
(* missing, or was the argument of a handler that has returned, cannot.    *)
acknowledge(o) ==
  /\ Call
  /\ objects[o].class # "CMSMessage"
  /\ objects[o].mMessageDelivery # "copied"
  /\ fault' = "badPointer"
  /\ UNCHANGED <<heap, objects, producer, links, listener, network, now>>

-----------------------------------------------------------------------------
(* The producer.                                                           *)

(* One of the setters.                                                     *)
Setting(name) ==
  /\ Call
  /\ \E s \in Settings : s[1] = name /\ producer' = [producer EXCEPT ![name] = s[2]]
  /\ UNCHANGED <<heap, objects, links, listener, network, now, fault>>

(* A mode that is neither is refused.                                      *)
setDeliveryMode == Setting("mDeliveryMode")
setPriority     == Setting("mPriority")
setTimeToLive   == Setting("mTTL")
setDisableMessageID        == Setting("mMessageIdDisabed")
setDisableMessageTimeStamp == Setting("mTimestampDisabed")

(* The getter of the public class calls itself: the process ends.          *)
getDisableMessageID ==
  /\ Call
  /\ fault' = "endlessRecursion"
  /\ UNCHANGED <<heap, objects, producer, links, listener, network, now>>

(* Mutant of NewId: the generator is asked once only.                      *)
FirstId == <<"ID:", Uuids[1]>>

NewId == <<"ID:", Uuids[ids + 1]>>

(* Does mMessageIdSetter generate an id for the message?                   *)
NeedsId(o) == ~producer.mMessageIdDisabed /\ get("MessageID", o) = <<>>

mMessageIdSetter(o) == IF NeedsId(o) THEN set("MessageID", NewId, now, o) ELSE o

mTimestampSetter(o) ==
  IF producer.mTimestampDisabed THEN o ELSE set("Timestamp", now, now, o)

(* The destination of the message wins over the parameter of send(), and   *)
(* that one over the producer's own.                                       *)
Routed(o, destination) ==
  CASE get("Destination", o) # nullptr -> o
    [] get("Destination", o) = nullptr /\ destination # nullptr ->
         set("Destination", destination, now, o)
    [] OTHER -> set("Destination", LinkDestination(sender), now, o)

(* The statements of send() up to from_cms_message, on the clone.          *)
Stamped(o, destination, mode, priority, ttl) ==
  LET marked == set("Priority", priority, now, set("DeliveryMode", mode, now, o))
      routed == Routed(marked, destination)
      dated  == set("Expiration", ttl, now, routed)
  IN  mTimestampSetter(mMessageIdSetter(dated))

(* send(), with a destination or without; all overloads without a mode, a  *)
(* priority and a time to live but one pass the producer's.  The lambda    *)
(* holds the AMQP message of the clone, the clone itself is deleted.       *)
Send(o, destination, mode, priority, ttl) ==
  LET mess == from_cms_message(Stamped(clone(Load(o)), destination, mode, priority, ttl))
  IN  /\ Call
      /\ sends < MaxSends
      /\ Refs # Used
      /\ sends' = sends + 1
      /\ NeedsId(Load(o)) => ids < Len(Uuids)
      /\ ids' = IF NeedsId(Load(o)) THEN ids + 1 ELSE ids
      /\ heap' = [heap EXCEPT ![CloneRef(o)] = mess]
      /\ workQueue' = Append(workQueue,
           [mess |-> CloneRef(o),
            sent |-> [own |-> TRUE, o |-> Load(o), destination |-> destination,
                      mode |-> mode, priority |-> priority, ttl |-> ttl,
                      at |-> now, by |-> producer]])
      /\ UNCHANGED <<objects, producer, links, listener, wire, used, now, fault>>

SendAsConfigured(o) ==
  \E d \in Parameters :
    Send(o, d, producer.mDeliveryMode, producer.mPriority, producer.mTTL)

SendExplicitly(o) ==
  \E a \in Explicit : Send(o, a[1], a[2], a[3], a[4])

(* send(destination, message, callback) has an empty body: the message is  *)
(* dropped, and the callback never called.                                 *)
SendWithCallback ==
  /\ Call
  /\ UNCHANGED <<heap, objects, producer, links, listener, network, now, fault>>

StringIdOf(m) == IF m.id.type = "STRING" THEN {m.id.value} ELSE {}

(* The lambda of send() on the container's thread.                         *)
Transmit ==
  /\ workQueue # <<>>
  /\ LET m == heap[Head(workQueue).mess]
     IN  /\ wire' = Append(wire, [m |-> m, sent |-> Head(workQueue).sent,
                                 earlier |-> used])
         /\ used' = used \cup StringIdOf(m)
  /\ workQueue' = Tail(workQueue)
  /\ UNCHANGED objects
  /\ Release
  /\ UNCHANGED <<producer, links, listener, sends, ids, calls, now, fault>>

-----------------------------------------------------------------------------
(* The consumer.                                                           *)

setMessageListener ==
  /\ Call
  /\ listener' = ~listener
  /\ UNCHANGED <<heap, objects, producer, links, network, now, fault>>

(* on_message: without a listener the new message is deleted at once.      *)
on_message ==
  /\ wire # <<>>
  /\ wire' = Tail(wire)
  /\ LET m == Head(wire).m
     IN  \/ /\ Unreadable(m)
            /\ fault' = "container"
            /\ UNCHANGED <<heap, objects>>
         \/ /\ ~Unreadable(m) /\ ~listener
            /\ UNCHANGED <<heap, objects, fault>>
         \/ /\ ~Unreadable(m) /\ listener
            /\ \E o \in Objects : Allocate(o, received(m, receiver), NoId)
            /\ UNCHANGED fault
  /\ UNCHANGED <<producer, links, listener, workQueue, sends, used, ids, calls, now>>

(* The application answers a message: a text message with its id as the    *)
(* correlation id, to its reply-to.  The setter may throw for the id.      *)
Reply(o, p) ==
  LET id     == get("MessageID", Load(o))
      answer == set("CorrelationID", id, now, newCMSTextMessage(<<"answer">>))
  IN  /\ Call
      /\ objects[o].mMessageDelivery \in {"copied", "borrowed"}
      /\ id # <<>>
      /\ ~Threw(CorrelationIdOf(id))
      /\ Allocate(p, set("Destination", get("ReplyTo", Load(o)), now, answer),
                  Load(o).mMessage.id)
      /\ UNCHANGED <<producer, links, listener, network, now, fault>>

(* The application lets time pass.                                         *)
Tick ==
  /\ Call
  /\ now' = now + 1
  /\ UNCHANGED <<heap, objects, producer, links, listener, network, fault>>

-----------------------------------------------------------------------------
Application(o) ==
  \/ SetHeader(o)
  \/ SetProperty(o)
  \/ ClearProperties(o)
  \/ ClearBody(o)
  \/ \E p \in Objects : Clone(o, p) \/ Reply(o, p)
  \/ Delete(o)
  \/ acknowledge(o)
  \/ SendAsConfigured(o)
  \/ SendExplicitly(o)
  \/ SendWithCallback

Producer ==
  \/ setDeliveryMode
  \/ setPriority
  \/ setTimeToLive
  \/ setDisableMessageID
  \/ setDisableMessageTimeStamp
  \/ getDisableMessageID

Next ==
  /\ fault = "none"
  /\ \/ \E o \in Objects : Create(o)
     \/ \E o \in Live : Application(o)
     \/ Producer
     \/ setMessageListener
     \/ Transmit
     \/ on_message
     \/ Tick

Spec == Init /\ [][Next]_vars

-----------------------------------------------------------------------------
(* Properties.                                                             *)

(* The type invariant: every object and every queued send has an AMQP      *)
(* message, and only bytes messages have bytes.                            *)
TypeOK ==
  /\ DOMAIN heap = Refs
  /\ \A r \in Refs : DOMAIN heap[r] = DOMAIN EmptyMessage
  /\ \A o \in Live :
       /\ objects[o].class \in Classes
       /\ objects[o].mMessage \in Refs
       /\ objects[o].mMessageBody # <<>> => objects[o].class = "CMSBytesMessage"
       /\ objects[o].mMessageDelivery \in {"null", "uninitialised", "copied", "borrowed"}
  /\ \A i \in DOMAIN workQueue : workQueue[i].mess \in Refs
  /\ sends \in 0..MaxSends
  /\ ids \in 0..Len(Uuids)
  /\ fault \in {"none", "badPointer", "container", "endlessRecursion"}

SameId(a, b) == a.type = b.type /\ a.value = b.value

(* What this library's text and bytes messages put on the wire.  A         *)
(* CMSMessage is left out: its clone is the message itself.                *)
Own == {i \in DOMAIN wire : wire[i].sent.own /\ wire[i].sent.o.class # "CMSMessage"}

(* A text or bytes message goes out as it was when send() was called, with *)
(* the mode, priority, time to live and timestamp of that call, whatever   *)
(* the application does to it, to its clones or to the producer before the *)
(* container's thread gets to it.  One without a time to live does not     *)
(* expire, and one without a timestamp has none.  An expiration or a       *)
(* timestamp of an earlier send or of the application survives in the      *)
(* message, where cms/Message.h has zero: nothing is promised for these.   *)
SentAsSet ==
  \A i \in Own :
    LET m == wire[i].m
        s == wire[i].sent
        before == s.o.mMessage
    IN  /\ \A f \in {"reply_to", "subject", "properties", "group_id",
                      "content_type", "delivery_count"} : m[f] = before[f]
        /\ SameId(m.correlation_id, before.correlation_id)
        /\ m.body.value = IF s.o.class = "CMSBytesMessage" THEN s.o.mMessageBody
                                                           ELSE getText(s.o)
        /\ m.durable = (s.mode = PERSISTENT)
        /\ m.priority \in 0..9 /\ (s.priority \in 0..9 => m.priority = s.priority)
        /\ s.ttl > 0 => m.ttl = s.ttl /\ m.expiry_time = s.at + s.ttl
        /\ s.ttl = 0 /\ before.ttl = 0 /\ before.expiry_time = 0
             => m.ttl = 0 /\ m.expiry_time = 0
        /\ ~s.by.mTimestampDisabed => m.creation_time = s.at
        /\ s.by.mTimestampDisabed /\ before.creation_time = 0
             => m.creation_time = 0

(* The object and its AMQP message agree on the destinations, and the type *)
(* of the message is still in its annotations: clearBody() destroys both,  *)
(* and the clone of a bytes message has lost its reply-to.                 *)
Coherent(o) ==
  /\ X_OPT_JMS_MESSAGE_TYPE \in DOMAIN o.mMessage.annotations
  /\ o.mMessage.address = o.mDestination.name
  /\ o.mMessage.reply_to = o.mReplyTo.name

(* A temporary topic has no address, and a temporary queue that no link    *)
(* has named has none either.                                              *)
Addressed(d) == d.type # "TEMPORARY_TOPIC" /\ d.name # ""

(* The destination that send() was given, else the producer's.             *)
Wanted(s) ==
  IF s.destination # nullptr THEN s.destination ELSE LinkDestination(sender)

(* The consumer sees the message that was sent: its class, body, type,     *)
(* correlation id, properties and redelivery flag, the destination it was  *)
(* sent to and the one to reply to, as far as these have an address.  A    *)
(* destination that the message itself holds is to be ignored by send(),   *)
(* which however prefers it: nothing is promised for such a message.       *)
ReceivedAsSent ==
  \A i \in Own :
    LET s == wire[i].sent
        r == received(wire[i].m, receiver)
    IN  Coherent(s.o) =>
          /\ r.class = s.o.class
          /\ r.mMessageBody = s.o.mMessageBody
          /\ \A h \in {"CorrelationID", "Type", "Redelivered"} :
               get(h, r) = get(h, s.o)
          /\ getPropertyNames(r.mMessage) = getPropertyNames(s.o.mMessage)
          /\ s.o.mDestination = nullptr /\ Addressed(Wanted(s))
               => equals(get("Destination", r), Wanted(s))
          /\ Addressed(s.o.mReplyTo) => equals(get("ReplyTo", r), s.o.mReplyTo)

(* A message goes out under an id that no message sent before has, or,     *)
(* where ids are disabled, without one.  An id that the message already    *)
(* has, from the application, an earlier send or the sender it came from,  *)
(* should be replaced and is not: nothing is promised for such a message.  *)
FreshIds ==
  \A j \in Own :
    wire[j].sent.o.mMessage.id.type = "NULL" =>
      IF wire[j].sent.by.mMessageIdDisabed
      THEN wire[j].m.id.type = "NULL"
      ELSE /\ wire[j].m.id.type = "STRING"
           /\ wire[j].m.id.value \notin wire[j].earlier

(* An answer carries the AMQP id of the message it answers, type and all,  *)
(* so that its sender recognises it.  Strings that the library escapes or  *)
(* marks are left out: setAMQPCorrelationID keeps the escape.              *)
ReplyCorrelates ==
  \A i \in Own :
    LET request == wire[i].sent.o.request
    IN  request.type # "NULL" /\
        (request.type = "STRING" =>
           Head(request.value) = "ID:" /\ ~HasTypePrefix(request.value))
          => SameId(wire[i].m.correlation_id, request)

(* No message of this library's classes ends the container's thread or the *)
(* process of the consumer, cleared, cloned, answered or passed on as it   *)
(* may be: only what other clients send does.                              *)
OwnMessagesReadable ==
  \A i \in DOMAIN wire : wire[i].sent.own => ~Unreadable(wire[i].m)

=============================================================================
