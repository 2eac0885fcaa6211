--------------------------- MODULE Messages_proofs ---------------------------
(***************************************************************************)
(* The way of a message, for every set of objects, edits, destinations and *)
(* settings and every bound: the type invariant of Messages, that a text   *)
(* or bytes message goes out as it was when send() was called, that the    *)
(* consumer sees what was sent and answers to it correlate, that this      *)
(* library's messages can be read, and that a generated id is a fresh one. *)
(*                                                                         *)
(* The first part says of the setters and conversions what they change and *)
(* undo; the second who else can reach an AMQP message that waits for the  *)
(* container's thread; the third who bears a generated id.                 *)
(***************************************************************************)
EXTENDS Messages, SequenceTheorems, TLAPS

-----------------------------------------------------------------------------
(* AMQP messages and the setters of AMQPCMSMessageConverter.               *)

Fields == DOMAIN EmptyMessage

LEMMA FieldsAre ==
  Fields = {"id", "correlation_id", "address", "reply_to", "annotations",
            "durable", "priority", "ttl", "expiry_time", "creation_time",
            "delivery_count", "subject", "properties", "group_id",
            "group_sequence", "content_type", "body"}
BY DEF Fields, EmptyMessage

(* n has the fields of m, and the same in them but for those of fs.        *)
SameBut(fs, m, n) ==
  /\ DOMAIN n = Fields
  /\ \A f \in Fields \ fs : n[f] = m[f]

LEMMA SameButTwice ==
  ASSUME NEW fs, NEW gs, NEW l, NEW m, NEW n, SameBut(fs, l, m), SameBut(gs, m, n)
  PROVE  SameBut(fs \cup gs, l, n)
BY DEF SameBut

(* A reply-to whose type a receiver reads from the annotation is not a     *)
(* temporary topic: for that one it would dereference null.                *)
NoNull(m) ==
  m.reply_to # "" =>
    annotationsToDestinationType(m.annotations, X_OPT_JMS_REPLY_TO) # "TEMPORARY_TOPIC"

(* What can be decoded, and its id printed.                                *)
Intact(m) == NoNull(m) /\ LegalId(m.id)

(* Bytes are announced only where there are bytes.                         *)
PlainBody(m) == m.content_type = OCTET_STREAM => m.body.type = "BINARY"

LEMMA ReadableMeans ==
  ASSUME NEW m
  PROVE  ~Unreadable(m) <=> NoNull(m) /\ PlainBody(m)
<1> DEFINE type == annotationsToDestinationType(m.annotations, X_OPT_JMS_REPLY_TO)
<1>1. type \in {"QUEUE", "TOPIC", "TEMPORARY_QUEUE", "TEMPORARY_TOPIC", "thrown"}
  BY DEF annotationsToDestinationType, JMSTypeToDestinationType, DestinationTypes
<1>2. createCMSReplyToUsingMessageDestination(m) =
        CASE m.reply_to = "" -> nullptr
          [] m.reply_to # "" /\ type = "thrown" -> InvalidDestination
          [] m.reply_to # "" /\ type = "TEMPORARY_TOPIC" -> NullDereference
          [] OTHER -> Destination(type, m.reply_to)
  BY DEF createCMSReplyToUsingMessageDestination
<1>3. /\ nullptr # NullDereference /\ InvalidDestination # NullDereference
      /\ \A t, name : t # "thrown" => Destination(t, name) # NullDereference
  <2>1. nullptr.type # NullDereference.type
    BY DEF nullptr, NullDereference
  <2>2. InvalidDestination.name # NullDereference.name
    BY DEF InvalidDestination, NullDereference
  <2>3. \A t, name : Destination(t, name).type = t /\ NullDereference.type = "thrown"
    BY DEF Destination, NullDereference
  <2> QED
    BY <2>1, <2>2, <2>3
<1> HIDE DEF type
<1>4. createCMSReplyToUsingMessageDestination(m) = NullDereference
        <=> m.reply_to # "" /\ type = "TEMPORARY_TOPIC"
  BY <1>2, <1>3
<1> QED
  BY <1>4 DEF Unreadable, NoNull, PlainBody, type

(* What each header's setter may change.                                   *)
FieldsOf(header) ==
  CASE header = "CorrelationID" -> {"correlation_id"}
    [] header = "DeliveryMode"  -> {"durable"}
    [] header = "Destination"   -> {"address", "annotations"}
    [] header = "Expiration"    -> {"ttl", "expiry_time"}
    [] header = "MessageID"     -> {"id"}
    [] header = "Priority"      -> {"priority"}
    [] header = "Redelivered"   -> {"delivery_count"}
    [] header = "ReplyTo"       -> {"reply_to", "annotations"}
    [] header = "Timestamp"     -> {"creation_time"}
    [] header = "Type"          -> {"subject"}

LEMMA EncodedFields ==
  ASSUME NEW header \in Headers, NEW value, NEW t, NEW m, DOMAIN m = Fields
  PROVE  SameBut(FieldsOf(header), m, Encoded(header, value, t, m))
<1>1. CASE header = "CorrelationID"
  BY <1>1, FieldsAre DEF SameBut, FieldsOf, Encoded, setAMQPCorrelationID
<1>2. CASE header = "DeliveryMode"
  BY <1>2, FieldsAre DEF SameBut, FieldsOf, Encoded, setAMQPDeliveryMode
<1>3. CASE header = "Destination"
  BY <1>3, FieldsAre DEF SameBut, FieldsOf, Encoded, setAMQPDestination
<1>4. CASE header = "Expiration"
  BY <1>4, FieldsAre DEF SameBut, FieldsOf, Encoded, setAMQPExpiration
<1>5. CASE header = "MessageID"
  BY <1>5, FieldsAre DEF SameBut, FieldsOf, Encoded, setAMQPMessageID
<1>6. CASE header = "Priority"
  BY <1>6, FieldsAre DEF SameBut, FieldsOf, Encoded, setAMQPPriority
<1>7. CASE header = "Redelivered"
  BY <1>7, FieldsAre DEF SameBut, FieldsOf, Encoded, setAMQPRedelivered
<1>8. CASE header = "ReplyTo"
  BY <1>8, FieldsAre DEF SameBut, FieldsOf, Encoded, setAMQPReplyTo
<1>9. CASE header = "Timestamp"
  BY <1>9, FieldsAre DEF SameBut, FieldsOf, Encoded, setAMQPTimestamp
<1>10. CASE header = "Type"
  BY <1>10, FieldsAre DEF SameBut, FieldsOf, Encoded, setAMQPType
<1> QED
  BY <1>1, <1>2, <1>3, <1>4, <1>5, <1>6, <1>7, <1>8, <1>9, <1>10 DEF Headers

-----------------------------------------------------------------------------
(* Destinations: what a setter writes, a receiver reads.                   *)

IsType(type) == \E i \in DOMAIN DestinationTypes : type = DestinationTypes[i]

LEMMA TypesAre ==
  ASSUME NEW type
  PROVE  IsType(type) <=> type \in {"QUEUE", "TOPIC", "TEMPORARY_QUEUE", "TEMPORARY_TOPIC"}
<1>1. DOMAIN DestinationTypes = 1..4
  BY DEF DestinationTypes
<1> QED
  BY <1>1 DEF IsType, DestinationTypes

LEMMA PointerIs ==
  ASSUME NEW d
  PROVE  IsPointer(d) <=> d = nullptr \/ IsType(d.type)
BY DEF IsPointer, IsType

LEMMA TypeReadBack ==
  ASSUME NEW type, IsType(type)
  PROVE  JMSTypeToDestinationType(destinationTypeToJMSType(type)) = type
<1> DEFINE k == CHOOSE i \in DOMAIN DestinationTypes : DestinationTypes[i] = type
<1>1. k \in DOMAIN DestinationTypes /\ DestinationTypes[k] = type
  BY DEF IsType
<1>2. destinationTypeToJMSType(type) = k - 1
  BY DEF destinationTypeToJMSType
<1> HIDE DEF k
<1>3. k \in 1..4
  BY <1>1 DEF DestinationTypes
<1>4. k - 1 \in 0..3 /\ k - 1 + 1 = k
  BY <1>3
<1> QED
  BY <1>1, <1>2, <1>4 DEF JMSTypeToDestinationType

(* The annotation says that type.                                          *)
Announces(annotations, key, type) ==
  /\ key \in DOMAIN annotations
  /\ annotations[key] = ByteAnnotation(destinationTypeToJMSType(type))

LEMMA PutAnnounces ==
  ASSUME NEW annotations, NEW key, NEW type
  PROVE  Announces(Put(annotations, key, ByteAnnotation(destinationTypeToJMSType(type))),
                   key, type)
BY DEF Announces, Put

LEMMA AnnouncedIsRead ==
  ASSUME NEW annotations, NEW key, NEW type, IsType(type), Announces(annotations, key, type)
  PROVE  annotationsToDestinationType(annotations, key) = type
<1>1. annotationsToDestinationType(annotations, key)
      = JMSTypeToDestinationType(destinationTypeToJMSType(type))
  BY DEF Announces, annotationsToDestinationType, ByteAnnotation
<1> QED
  BY <1>1, TypeReadBack

(* What is read is one of the four types, or nothing.                      *)
LEMMA ReadTypes ==
  ASSUME NEW annotations, NEW key
  PROVE  LET type == annotationsToDestinationType(annotations, key)
         IN  type = "thrown" \/ IsType(type)
BY TypesAre DEF annotationsToDestinationType, JMSTypeToDestinationType, DestinationTypes

(* The two annotations and the one of the message's type do not meet.      *)
LEMMA PutElsewhere ==
  ASSUME NEW annotations, NEW key, NEW value, NEW other, other # key
  PROVE  LET after == Put(annotations, key, value)
         IN  /\ other \in DOMAIN after <=> other \in DOMAIN annotations
             /\ annotationsToDestinationType(after, other)
                = annotationsToDestinationType(annotations, other)
<1> DEFINE after == Put(annotations, key, value)
<1>1. /\ other \in DOMAIN after <=> other \in DOMAIN annotations
      /\ other \in DOMAIN annotations => after[other] = annotations[other]
  BY DEF Put
<1> HIDE DEF after
<1>2. annotationsToDestinationType(after, other)
      = annotationsToDestinationType(annotations, other)
  BY <1>1 DEF annotationsToDestinationType
<1> QED
  BY <1>1, <1>2 DEF after

LEMMA KeysDiffer ==
  /\ X_OPT_JMS_DEST # X_OPT_JMS_REPLY_TO
  /\ X_OPT_JMS_DEST # X_OPT_JMS_MESSAGE_TYPE
  /\ X_OPT_JMS_REPLY_TO # X_OPT_JMS_MESSAGE_TYPE
BY DEF X_OPT_JMS_DEST, X_OPT_JMS_REPLY_TO, X_OPT_JMS_MESSAGE_TYPE

(* Where a message that arrives through the link seems to have been sent.  *)
Arrived(m, link) ==
  ValidOr(createCMSDestination(m), ValidOr(LinkDestination(link), nullptr))

(* The broker confirmed a capability that names a type.                    *)
LinkOK(link) == IsType(capabilityToDestinationType(link.capabilities))

LEMMA InvalidIs ==
  ASSUME NEW type, NEW name, IsType(type)
  PROVE  /\ Destination(type, name) # InvalidDestination
         /\ Destination(type, name) # nullptr
         /\ Destination(type, name).type = type /\ Destination(type, name).name = name
<1>1. Destination(type, name).type = type /\ Destination(type, name).name = name
  BY DEF Destination
<1>2. InvalidDestination.type = "thrown" /\ nullptr.type = "null"
  BY DEF InvalidDestination, nullptr
<1>3. type # "thrown" /\ type # "null"
  BY TypesAre
<1> QED
  BY <1>1, <1>2, <1>3

LEMMA LinkIs ==
  ASSUME NEW link, LinkOK(link)
  PROVE  /\ IsType(LinkDestination(link).type)
         /\ ValidOr(LinkDestination(link), nullptr) = LinkDestination(link)
<1> DEFINE type == capabilityToDestinationType(link.capabilities)
<1>1. IsType(type) /\ type # "thrown"
  BY TypesAre DEF LinkOK
<1>2. LinkDestination(link) = Destination(type, link.address)
  BY <1>1 DEF LinkDestination, createCMSDestination_link
<1> HIDE DEF type
<1> QED
  BY <1>1, <1>2, InvalidIs DEF ValidOr

LEMMA ArrivedIs ==
  ASSUME NEW m, NEW link, LinkOK(link)
  PROVE  IsPointer(Arrived(m, link))
<1> DEFINE type == annotationsToDestinationType(m.annotations, X_OPT_JMS_DEST)
<1>1. type = "thrown" \/ IsType(type)
  BY ReadTypes
<1>2. createCMSDestination(m) = IF m.address = "" \/ type = "thrown"
                                THEN InvalidDestination ELSE Destination(type, m.address)
  BY DEF createCMSDestination
<1> HIDE DEF type
<1>3. CASE m.address = "" \/ type = "thrown"
  BY <1>2, <1>3, LinkIs, PointerIs DEF Arrived, ValidOr
<1>4. CASE ~(m.address = "" \/ type = "thrown")
  <2>1. createCMSDestination(m) = Destination(type, m.address) /\ IsType(type)
    BY <1>1, <1>2, <1>4
  <2> QED
    BY <2>1, InvalidIs, PointerIs DEF Arrived, ValidOr
<1> QED
  BY <1>3, <1>4

(* An address and its type arrive.                                         *)
LEMMA AddressArrives ==
  ASSUME NEW d, IsType(d.type), Addressed(d), NEW m, NEW link, m.address = d.name,
         Announces(m.annotations, X_OPT_JMS_DEST, d.type)
  PROVE  equals(Arrived(m, link), d)
<1>1. annotationsToDestinationType(m.annotations, X_OPT_JMS_DEST) = d.type
  BY AnnouncedIsRead
<1>2. d.type # "thrown" /\ m.address # ""
  BY TypesAre DEF Addressed
<1>3. createCMSDestination(m) = Destination(d.type, m.address)
  BY <1>1, <1>2 DEF createCMSDestination
<1> QED
  BY <1>3, InvalidIs DEF Arrived, ValidOr, equals

LEMMA ReplyToArrives ==
  ASSUME NEW d, IsType(d.type), Addressed(d), NEW m, m.reply_to = d.name,
         Announces(m.annotations, X_OPT_JMS_REPLY_TO, d.type)
  PROVE  equals(decodedReplyTo(m), d)
<1>1. annotationsToDestinationType(m.annotations, X_OPT_JMS_REPLY_TO) = d.type
  BY AnnouncedIsRead
<1>2. d.type # "thrown" /\ d.type # "TEMPORARY_TOPIC" /\ m.reply_to # ""
  BY TypesAre DEF Addressed
<1>3. createCMSReplyToUsingMessageDestination(m) = Destination(d.type, m.reply_to)
  BY <1>1, <1>2 DEF createCMSReplyToUsingMessageDestination
<1> QED
  BY <1>3, InvalidIs DEF decodedReplyTo, ValidOr, equals

LEMMA DecodedReplyToIs ==
  ASSUME NEW m, NoNull(m)
  PROVE  IsPointer(decodedReplyTo(m))
<1> DEFINE type == annotationsToDestinationType(m.annotations, X_OPT_JMS_REPLY_TO)
<1>1. type = "thrown" \/ IsType(type)
  BY ReadTypes
<1>2. createCMSReplyToUsingMessageDestination(m) =
        CASE m.reply_to = "" -> nullptr
          [] m.reply_to # "" /\ type = "thrown" -> InvalidDestination
          [] m.reply_to # "" /\ type = "TEMPORARY_TOPIC" -> NullDereference
          [] OTHER -> Destination(type, m.reply_to)
  BY DEF createCMSReplyToUsingMessageDestination
<1>3. m.reply_to # "" => type # "TEMPORARY_TOPIC"
  BY DEF NoNull
<1> HIDE DEF type
<1>4. decodedReplyTo(m) = nullptr \/ (IsType(type) /\ decodedReplyTo(m) = Destination(type, m.reply_to))
  BY <1>1, <1>2, <1>3 DEF decodedReplyTo, ValidOr
<1> QED
  BY <1>4, InvalidIs, PointerIs

(* What may be passed to the setters.                                      *)
Passable(header, value) ==
  /\ header \in Headers
  /\ header = "Destination" => IsPointer(value)
  /\ header = "ReplyTo" => IsType(value.type)
  /\ header = "MessageID" => Threw(MessageIdOf(value)) \/ LegalId(MessageIdOf(value))

(* No setter makes a message that the consumer cannot read of one that it  *)
(* can: the reply-to of a temporary topic has no address.                  *)
LEMMA EncodedReadable ==
  ASSUME NEW header, NEW value, Passable(header, value), NEW t, NEW m, DOMAIN m = Fields
  PROVE  LET n == Encoded(header, value, t, m)
         IN  /\ Intact(m) => Intact(n)
             /\ PlainBody(m) => PlainBody(n)
<1>0. header \in Headers /\ (header = "ReplyTo" => IsType(value.type))
  BY DEF Passable
<1> DEFINE n == Encoded(header, value, t, m)
<1>1. SameBut(FieldsOf(header), m, n)
  BY <1>0, EncodedFields
<1>2. n.content_type = m.content_type /\ n.body = m.body
  BY <1>0, <1>1, FieldsAre DEF SameBut, FieldsOf, Headers
<1>3. ASSUME NoNull(m)
      PROVE  NoNull(n)
  <2>1. CASE header \notin {"ReplyTo", "Destination"}
    <3>1. "reply_to" \notin FieldsOf(header) /\ "annotations" \notin FieldsOf(header)
      BY <1>0, <2>1 DEF FieldsOf, Headers
    <3>2. n.reply_to = m.reply_to /\ n.annotations = m.annotations
      BY <1>1, <3>1, FieldsAre DEF SameBut
    <3> HIDE DEF n
    <3> QED
      BY <1>3, <3>2 DEF NoNull
  <2>2. CASE header = "Destination"
    <3>1. n = setAMQPDestination(value, m)
      BY <2>2 DEF Encoded
    <3> HIDE DEF n
    <3>2. n.reply_to = m.reply_to
      BY <3>1, FieldsAre DEF setAMQPDestination
    <3>3. /\ X_OPT_JMS_REPLY_TO \in DOMAIN n.annotations
               <=> X_OPT_JMS_REPLY_TO \in DOMAIN m.annotations
          /\ X_OPT_JMS_REPLY_TO \in DOMAIN n.annotations
               => n.annotations[X_OPT_JMS_REPLY_TO] = m.annotations[X_OPT_JMS_REPLY_TO]
      BY <3>1, FieldsAre
         DEF setAMQPDestination, Put, X_OPT_JMS_REPLY_TO, X_OPT_JMS_DEST
    <3>4. annotationsToDestinationType(n.annotations, X_OPT_JMS_REPLY_TO)
          = annotationsToDestinationType(m.annotations, X_OPT_JMS_REPLY_TO)
      BY <3>3 DEF annotationsToDestinationType
    <3> QED
      BY <1>3, <3>2, <3>4 DEF NoNull
  <2>3. CASE header = "ReplyTo"
    <3>1. n = setAMQPReplyTo(value, m)
      BY <2>3 DEF Encoded
    <3> HIDE DEF n
    <3>2. /\ n.reply_to = destinationToAddress(value)
          /\ X_OPT_JMS_REPLY_TO \in DOMAIN n.annotations
          /\ n.annotations[X_OPT_JMS_REPLY_TO]
               = ByteAnnotation(destinationTypeToJMSType(value.type))
      BY <3>1, FieldsAre DEF setAMQPReplyTo, Put
    <3>3. CASE value.type = "TEMPORARY_TOPIC"
      BY <3>2, <3>3 DEF NoNull, destinationToAddress
    <3>4. CASE value.type # "TEMPORARY_TOPIC"
      <4>1. Announces(n.annotations, X_OPT_JMS_REPLY_TO, value.type)
        BY <3>2 DEF Announces
      <4> QED
        BY <1>0, <2>3, <3>4, <4>1, AnnouncedIsRead DEF NoNull
    <3> QED
      BY <3>3, <3>4
  <2> QED
    BY <2>1, <2>2, <2>3
<1>4. PlainBody(m) => PlainBody(n)
  <2> HIDE DEF n
  <2> QED
    BY <1>2 DEF PlainBody
<1>5. ASSUME LegalId(m.id)
      PROVE  LegalId(n.id)
  <2>1. CASE header = "MessageID"
    <3>1. n = setAMQPMessageID(value, m)
      BY <2>1 DEF Encoded
    <3>2. n.id = m.id \/ (~Threw(MessageIdOf(value)) /\ n.id = MessageIdOf(value))
      BY <3>1, FieldsAre DEF setAMQPMessageID
    <3> QED
      BY <1>5, <2>1, <3>2 DEF Passable
  <2>2. CASE header # "MessageID"
    <3>1. "id" \notin FieldsOf(header)
      BY <1>0, <2>2 DEF FieldsOf, Headers
    <3>2. n.id = m.id
      BY <1>1, <3>1, FieldsAre DEF SameBut
    <3> HIDE DEF n
    <3> QED
      BY <1>5, <3>2
  <2> QED
    BY <2>1, <2>2
<1> HIDE DEF n
<1> QED
  BY <1>3, <1>4, <1>5 DEF n, Intact

-----------------------------------------------------------------------------
(* Objects with their AMQP message by value.                               *)

ObjectFields ==
  {"class", "mMessage", "mDestination", "mReplyTo", "mMessageBody",
   "mMessageDelivery", "request"}

IsObject(o) ==
  /\ DOMAIN o = ObjectFields
  /\ o.class \in Classes
  /\ o.mMessageBody # <<>> => o.class = "CMSBytesMessage"
  /\ o.mMessageDelivery \in {"null", "uninitialised", "copied", "borrowed"}
  /\ IsPointer(o.mDestination) /\ IsPointer(o.mReplyTo)

(* The AMQP message of an object, and whether it may be read as it is: a   *)
(* bytes message writes its bytes into it only when it is sent.            *)
IsMessage(o) ==
  /\ DOMAIN o.mMessage = Fields
  /\ Intact(o.mMessage)
  /\ o.class # "CMSBytesMessage" => PlainBody(o.mMessage)

(* n is o with another AMQP message and other destinations.                *)
Alike(o, n) ==
  /\ IsObject(n)
  /\ n.class = o.class /\ n.mMessageBody = o.mMessageBody

(* n is o with that header set, whatever else a constructor leaves out.    *)
SetTo(header, value, t, o, n) ==
  /\ n.class = o.class /\ n.mMessageBody = o.mMessageBody
  /\ n.mMessageDelivery = o.mMessageDelivery
  /\ n.mMessage = Encoded(header, value, t, o.mMessage)
  /\ n.mDestination = IF header = "Destination" THEN value ELSE o.mDestination
  /\ n.mReplyTo = IF header = "ReplyTo" THEN value ELSE o.mReplyTo

LEMMA SetIs ==
  ASSUME NEW header, NEW value, Passable(header, value), NEW t, NEW o, IsObject(o)
  PROVE  LET n == set(header, value, t, o)
         IN  Alike(o, n) /\ SetTo(header, value, t, o, n) /\ n.request = o.request
<1>1. set(header, value, t, o) = CMSMessage_set(header, value, t, o)
  BY DEF IsObject, Classes, set, CMSTextMessage_set, CMSBytesMessage_set
<1> DEFINE n == CMSMessage_set(header, value, t, o)
<1>2. DOMAIN n = ObjectFields /\ SetTo(header, value, t, o, n) /\ n.request = o.request
  BY DEF IsObject, ObjectFields, CMSMessage_set, SetTo
<1> HIDE DEF n
<1>3. IsPointer(n.mDestination) /\ IsPointer(n.mReplyTo)
  BY <1>2, PointerIs DEF SetTo, Passable, IsObject
<1>4. Alike(o, n)
  BY <1>2, <1>3 DEF IsObject, Alike, SetTo
<1> QED
  BY <1>1, <1>2, <1>4 DEF n

(* The same, and that the message can still be read.                       *)
Sets(header, value, t, o, n) ==
  /\ Alike(o, n) /\ IsMessage(n)
  /\ SetTo(header, value, t, o, n) /\ n.request = o.request
  /\ SameBut(FieldsOf(header), o.mMessage, n.mMessage)

LEMMA SetSafe ==
  ASSUME NEW header, NEW value, Passable(header, value), NEW t, NEW o,
         IsObject(o), IsMessage(o)
  PROVE  Sets(header, value, t, o, set(header, value, t, o))
<1> DEFINE n == set(header, value, t, o)
           m == Encoded(header, value, t, o.mMessage)
<1>0. header \in Headers /\ (header = "ReplyTo" => IsType(value.type))
  BY DEF Passable
<1>1. Alike(o, n) /\ SetTo(header, value, t, o, n) /\ n.request = o.request
  BY SetIs
<1>2. SameBut(FieldsOf(header), o.mMessage, m)
  BY <1>0, EncodedFields DEF IsMessage
<1>3. (Intact(o.mMessage) => Intact(m)) /\ (PlainBody(o.mMessage) => PlainBody(m))
  BY EncodedReadable DEF IsMessage
<1>4. n.mMessage = m
  BY <1>1 DEF SetTo
<1> HIDE DEF n, m
<1>5. IsMessage(n)
  BY <1>1, <1>2, <1>3, <1>4 DEF IsMessage, Alike, SameBut
<1> QED
  BY <1>1, <1>2, <1>4, <1>5 DEF n, m, Sets

(* What a text or bytes message keeps of its destinations and its type, as *)
(* far as object and AMQP message still agree on the address: decoding     *)
(* gives the object's own again.  link is the consumer's.                  *)
Ours(o, link) ==
  /\ X_OPT_JMS_MESSAGE_TYPE \in DOMAIN o.mMessage.annotations =>
       (o.class = "CMSBytesMessage" <=> o.mMessage.content_type = OCTET_STREAM)
  /\ o.mMessage.address = o.mDestination.name /\ Addressed(o.mDestination) =>
       equals(Arrived(o.mMessage, link), o.mDestination)
  /\ o.mMessage.reply_to = o.mReplyTo.name /\ Addressed(o.mReplyTo) =>
       equals(decodedReplyTo(o.mMessage), o.mReplyTo)

(* Arrived and decodedReplyTo look at four fields only.                    *)
LEMMA DecodedAlike ==
  ASSUME NEW m, NEW n, NEW link
  PROVE  /\ /\ n.address = m.address
            /\ annotationsToDestinationType(n.annotations, X_OPT_JMS_DEST)
               = annotationsToDestinationType(m.annotations, X_OPT_JMS_DEST)
            => Arrived(n, link) = Arrived(m, link)
         /\ /\ n.reply_to = m.reply_to
            /\ annotationsToDestinationType(n.annotations, X_OPT_JMS_REPLY_TO)
               = annotationsToDestinationType(m.annotations, X_OPT_JMS_REPLY_TO)
            => decodedReplyTo(n) = decodedReplyTo(m)
BY DEF Arrived, createCMSDestination, decodedReplyTo, createCMSReplyToUsingMessageDestination

LEMMA NullHasNoAddress == ~Addressed(nullptr) /\ ~IsType(nullptr.type)
BY TypesAre DEF Addressed, nullptr

LEMMA SetOurs ==
  ASSUME NEW header, NEW value, Passable(header, value), NEW t, NEW o, NEW n, NEW link,
         DOMAIN o.mMessage = Fields, Ours(o, link), SetTo(header, value, t, o, n)
  PROVE  Ours(n, link)
<1> DEFINE m == o.mMessage
           k == n.mMessage
<1>1. k = Encoded(header, value, t, m)
  BY DEF SetTo
<1>2. SameBut(FieldsOf(header), m, k)
  BY <1>1, EncodedFields DEF Passable
<1>3. CASE header \notin {"Destination", "ReplyTo"}
  <2>1. /\ k.address = m.address /\ k.reply_to = m.reply_to
        /\ k.annotations = m.annotations /\ k.content_type = m.content_type
    BY <1>2, <1>3, FieldsAre DEF SameBut, FieldsOf, Passable, Headers
  <2>2. n.class = o.class /\ n.mDestination = o.mDestination /\ n.mReplyTo = o.mReplyTo
    BY <1>3 DEF SetTo
  <2>3. Arrived(k, link) = Arrived(m, link) /\ decodedReplyTo(k) = decodedReplyTo(m)
    BY <2>1, DecodedAlike
  <2> QED
    BY <2>1, <2>2, <2>3 DEF Ours
<1>4. CASE header = "Destination"
  <2>1. n.class = o.class /\ n.mDestination = value /\ n.mReplyTo = o.mReplyTo
    BY <1>4 DEF SetTo
  <2>2. k = setAMQPDestination(value, m)
    BY <1>1, <1>4 DEF Encoded
  <2>3. CASE value = nullptr
    <3>1. k = m
      BY <2>2, <2>3 DEF setAMQPDestination
    <3> QED
      BY <2>1, <2>3, <3>1, NullHasNoAddress DEF Ours
  <2>4. CASE value # nullptr
    <3>1. IsType(value.type)
      BY <1>4, <2>4, PointerIs DEF Passable
    <3>2. /\ k.address = destinationToAddress(value)
          /\ k.annotations = Put(m.annotations, X_OPT_JMS_DEST,
                                 ByteAnnotation(destinationTypeToJMSType(value.type)))
          /\ k.reply_to = m.reply_to /\ k.content_type = m.content_type
      BY <2>2, <2>4, FieldsAre DEF setAMQPDestination
    <3>3. Announces(k.annotations, X_OPT_JMS_DEST, value.type)
      BY <3>2, PutAnnounces
    <3>4. /\ X_OPT_JMS_MESSAGE_TYPE \in DOMAIN k.annotations
               <=> X_OPT_JMS_MESSAGE_TYPE \in DOMAIN m.annotations
          /\ annotationsToDestinationType(k.annotations, X_OPT_JMS_REPLY_TO)
             = annotationsToDestinationType(m.annotations, X_OPT_JMS_REPLY_TO)
      BY <3>2, PutElsewhere, KeysDiffer
    <3>5. decodedReplyTo(k) = decodedReplyTo(m)
      BY <3>2, <3>4, DecodedAlike
    <3>6. k.address = value.name /\ Addressed(value) => equals(Arrived(k, link), value)
      BY <3>1, <3>3, AddressArrives
    <3> QED
      BY <2>1, <3>2, <3>4, <3>5, <3>6 DEF Ours
  <2> QED
    BY <2>3, <2>4
<1>5. CASE header = "ReplyTo"
  <2>1. n.class = o.class /\ n.mDestination = o.mDestination /\ n.mReplyTo = value
    BY <1>5 DEF SetTo
  <2>2. k = setAMQPReplyTo(value, m)
    BY <1>1, <1>5 DEF Encoded
  <2>3. IsType(value.type)
    BY <1>5 DEF Passable
  <2>4. /\ k.reply_to = destinationToAddress(value)
        /\ k.annotations = Put(m.annotations, X_OPT_JMS_REPLY_TO,
                               ByteAnnotation(destinationTypeToJMSType(value.type)))
        /\ k.address = m.address /\ k.content_type = m.content_type
    BY <2>2, FieldsAre DEF setAMQPReplyTo
  <2>5. Announces(k.annotations, X_OPT_JMS_REPLY_TO, value.type)
    BY <2>4, PutAnnounces
  <2>6. /\ X_OPT_JMS_MESSAGE_TYPE \in DOMAIN k.annotations
             <=> X_OPT_JMS_MESSAGE_TYPE \in DOMAIN m.annotations
        /\ annotationsToDestinationType(k.annotations, X_OPT_JMS_DEST)
           = annotationsToDestinationType(m.annotations, X_OPT_JMS_DEST)
    BY <2>4, PutElsewhere, KeysDiffer
  <2>7. Arrived(k, link) = Arrived(m, link)
    BY <2>4, <2>6, DecodedAlike
  <2>8. k.reply_to = value.name /\ Addressed(value) => equals(decodedReplyTo(k), value)
    BY <2>3, <2>5, ReplyToArrives
  <2> QED
    BY <2>1, <2>4, <2>6, <2>7, <2>8 DEF Ours
<1> QED
  BY <1>3, <1>4, <1>5

-----------------------------------------------------------------------------
(* What send() makes of a message.                                         *)

(* m is what a text or bytes message looked like when send() was called.   *)
(* This says what the code does, of an expiration and a timestamp of an    *)
(* earlier send as well: more than SentAsSet promises.                     *)
AsSet(m, s) ==
  LET before == s.o.mMessage
  IN  /\ \A f \in {"reply_to", "subject", "properties", "group_id",
                   "content_type", "delivery_count"} : m[f] = before[f]
      /\ SameId(m.correlation_id, before.correlation_id)
      /\ m.body.value = (IF s.o.class = "CMSBytesMessage" THEN s.o.mMessageBody
                                                          ELSE getText(s.o))
      /\ m.durable = (s.mode = PERSISTENT)
      /\ m.priority \in 0..9 /\ (s.priority \in 0..9 => m.priority = s.priority)
      /\ IF s.ttl > 0 THEN m.ttl = s.ttl /\ m.expiry_time = s.at + s.ttl
                      ELSE m.ttl = before.ttl /\ m.expiry_time = before.expiry_time
      /\ m.creation_time = IF s.by.mTimestampDisabed THEN before.creation_time
                                                     ELSE s.at

(* std::abs and std::min bring every int into the range of priorities, the *)
(* smallest one included: its byte is zero.                                *)
LEMMA PriorityInRange ==
  ASSUME NEW p \in Int
  PROVE  /\ Min(Abs(p), 9) % 256 \in 0..9
         /\ p \in 0..9 => Min(Abs(p), 9) % 256 = p
<1>1. MinInt \in Int /\ MinInt < 0 /\ MinInt % 256 = 0
  BY ConverterAssumption DEF ConverterAssumption
<1>2. CASE p = MinInt
  <2>1. Min(Abs(p), 9) = MinInt
    BY <1>1, <1>2 DEF Min, Abs
  <2> QED
    BY <1>1, <1>2, <2>1
<1>3. CASE p # MinInt
  <2>1. Min(Abs(p), 9) \in 0..9 /\ (p \in 0..9 => Min(Abs(p), 9) = p)
    BY <1>1, <1>3 DEF Min, Abs
  <2>2. \A k \in 0..9 : k % 256 = k
    OBVIOUS
  <2> QED
    BY <2>1, <2>2
<1> QED
  BY <1>2, <1>3

(* The clone has the class, the bytes and the AMQP message of the original.*)
LEMMA CloneSafe ==
  ASSUME NEW o, IsObject(o)
  PROVE  /\ Alike(o, clone(o)) /\ clone(o).mMessage = o.mMessage
         /\ clone(o).mDestination = o.mDestination /\ clone(o).request = o.request
         /\ clone(o).mReplyTo \in {o.mReplyTo, nullptr}
<1> DEFINE n == clone(o)
<1>1. /\ DOMAIN n = ObjectFields
      /\ n.class = o.class /\ n.mMessageBody = o.mMessageBody
      /\ n.mMessageDelivery \in {o.mMessageDelivery, "null"}
      /\ n.mMessage = o.mMessage /\ n.mDestination = o.mDestination
      /\ n.mReplyTo \in {o.mReplyTo, nullptr} /\ n.request = o.request
  BY DEF IsObject, Classes, ObjectFields, clone, copyCMSMessage, copyCMSTextMessage,
         copyCMSBytesMessage
<1> HIDE DEF n
<1>2. IsPointer(nullptr)
  BY DEF IsPointer
<1>3. IsObject(n)
  BY <1>1, <1>2 DEF IsObject
<1> QED
  BY <1>1, <1>3 DEF n, Alike

LEMMA CloneOurs ==
  ASSUME NEW o, NEW n, NEW link, Ours(o, link), n.class = o.class,
         n.mMessage = o.mMessage, n.mDestination = o.mDestination,
         n.mReplyTo \in {o.mReplyTo, nullptr}
  PROVE  Ours(n, link)
BY NullHasNoAddress DEF Ours

(* The message of an object that has a destination keeps it; another gets  *)
(* the parameter, or else the link's.                                      *)
RoutedTo(before, own, d, other, m) ==
  LET x == IF d # nullptr THEN d ELSE other
  IN  IF own # nullptr
      THEN m.address = before.address /\ m.annotations = before.annotations
      ELSE /\ IsType(x.type)
           /\ m.address = destinationToAddress(x)
           /\ m.annotations = Put(before.annotations, X_OPT_JMS_DEST,
                                  ByteAnnotation(destinationTypeToJMSType(x.type)))

LEMMA NewIdIs ==
  ASSUME ids \in Nat, ids < Len(Uuids)
  PROVE  /\ MessageIdOf(NewId) = [type |-> "STRING", value |-> NewId]
         /\ ~Threw(MessageIdOf(NewId)) /\ LegalId(MessageIdOf(NewId))
<1> DEFINE u == Uuids[ids + 1]
<1>1. u \notin TypePrefixes /\ u # "AMQP_NO_PREFIX"
  BY MessagesAssumption, IdsAssumption DEF MessagesAssumption, IdsAssumption
<1>2. NewId = <<"ID:", u>>
  BY DEF NewId
<1> HIDE DEF u
<1>3. NewId # <<"ID:", "AMQP_NO_PREFIX">> /\ ~HasTypePrefix(NewId)
  BY <1>1, <1>2 DEF HasTypePrefix
<1>4. prefixToType(NewId) = [type |-> "STRING", value |-> NewId]
  BY <1>3 DEF prefixToType
<1>5. MessageIdOf(NewId) = [type |-> "STRING", value |-> NewId]
  BY <1>4 DEF MessageIdOf
<1>6. IsText(NewId)
  <2>1. ASSUME NEW S, NEW x \in S, NEW y \in S
        PROVE  <<x, y>> \in Seq(S) \ {<<>>}
    OBVIOUS
  <2>2. NewId \in Seq({NewId[i] : i \in DOMAIN NewId}) \ {<<>>}
    BY <1>2, <2>1
  <2> QED
    BY <2>2 DEF IsText
<1> QED
  BY <1>5, <1>6 DEF Threw, LegalId

(* Whether an id is needed is seen of the id.                              *)
LEMMA NeedsIdAlike ==
  ASSUME NEW o, NEW n, o.class \in Classes, n.class \in Classes,
         n.mMessage.id = o.mMessage.id
  PROVE  NeedsId(n) <=> NeedsId(o)
<1>1. /\ get("MessageID", o) = getCMSMessageID(o.mMessage)
      /\ get("MessageID", n) = getCMSMessageID(n.mMessage)
  BY DEF Classes, get, CMSMessage_get, CMSTextMessage_get, CMSBytesMessage_get
<1>2. getCMSMessageID(n.mMessage) = getCMSMessageID(o.mMessage)
  BY DEF getCMSMessageID
<1> QED
  BY <1>1, <1>2 DEF NeedsId

(* After each of the statements of send() that stamp the clone: what was   *)
(* stamped so far, and that the rest is as it was.                         *)
LEMMA StampedFields ==
  ASSUME NEW o, IsObject(o), IsMessage(o), NEW d, IsPointer(d), NEW mode, NEW p, NEW ttl,
         LinkOK(sender), ids \in Nat, NeedsId(o) => ids < Len(Uuids)
  PROVE  LET n == Stamped(clone(o), d, mode, p, ttl)
             m == n.mMessage
             before == o.mMessage
         IN  /\ Alike(o, n) /\ IsMessage(n)
             /\ SameBut({"durable", "priority", "address", "annotations", "ttl",
                         "expiry_time", "id", "creation_time"}, before, m)
             /\ m.durable = (mode = PERSISTENT)
             /\ m.priority = Min(Abs(p), 9) % 256
             /\ IF ttl > 0 THEN m.ttl = ttl /\ m.expiry_time = now + ttl
                           ELSE m.ttl = before.ttl /\ m.expiry_time = before.expiry_time
             /\ m.creation_time = IF producer.mTimestampDisabed
                                  THEN before.creation_time ELSE now
             /\ m.id = IF NeedsId(o) THEN [type |-> "STRING", value |-> NewId]
                                     ELSE before.id
             /\ RoutedTo(before, o.mDestination, d, LinkDestination(sender), m)
<1> DEFINE o0 == clone(o)
           o1 == set("DeliveryMode", mode, now, o0)
           o2 == set("Priority", p, now, o1)
           o3 == Routed(o2, d)
           o4 == set("Expiration", ttl, now, o3)
           o5 == mMessageIdSetter(o4)
           o6 == mTimestampSetter(o5)
<1>0. Stamped(clone(o), d, mode, p, ttl) = o6
  BY DEF Stamped
<1>h. ASSUME NEW x
      PROVE  /\ Passable("DeliveryMode", x) /\ Passable("Priority", x)
             /\ Passable("Expiration", x) /\ Passable("Timestamp", x)
             /\ LegalId(MessageIdOf(x)) => Passable("MessageID", x)
             /\ IsPointer(x) => Passable("Destination", x)
  BY DEF Headers, Passable
<1>f. /\ FieldsOf("DeliveryMode") = {"durable"} /\ FieldsOf("Priority") = {"priority"}
      /\ FieldsOf("Destination") = {"address", "annotations"}
      /\ FieldsOf("Expiration") = {"ttl", "expiry_time"}
      /\ FieldsOf("MessageID") = {"id"} /\ FieldsOf("Timestamp") = {"creation_time"}
  BY DEF FieldsOf
<1>1. /\ IsObject(o0) /\ IsMessage(o0) /\ Alike(o, o0) /\ o0.mMessage = o.mMessage
      /\ o0.mDestination = o.mDestination
  BY CloneSafe DEF IsMessage, Alike
<1> HIDE DEF o0
<1>2. /\ Alike(o0, o1) /\ IsMessage(o1) /\ IsObject(o1)
      /\ SameBut({"durable"}, o0.mMessage, o1.mMessage)
      /\ o1.mMessage.durable = (mode = PERSISTENT) /\ o1.mDestination = o0.mDestination
  <2>1. Sets("DeliveryMode", mode, now, o0, o1)
    BY <1>h, <1>1, SetSafe
  <2> HIDE DEF o1
  <2>2. o1.mMessage = setAMQPDeliveryMode(mode, o0.mMessage)
    BY <2>1 DEF Sets, SetTo, Encoded
  <2> QED
    BY <1>f, <1>1, <2>1, <2>2, FieldsAre DEF Sets, SetTo, setAMQPDeliveryMode, IsMessage, Alike
<1> HIDE DEF o1
<1>3. /\ Alike(o1, o2) /\ IsMessage(o2) /\ IsObject(o2)
      /\ SameBut({"priority"}, o1.mMessage, o2.mMessage)
      /\ o2.mMessage.priority = Min(Abs(p), 9) % 256 /\ o2.mDestination = o1.mDestination
  <2>1. Sets("Priority", p, now, o1, o2)
    BY <1>h, <1>2, SetSafe
  <2> HIDE DEF o2
  <2>2. o2.mMessage = setAMQPPriority(p, o1.mMessage)
    BY <2>1 DEF Sets, SetTo, Encoded
  <2> QED
    BY <1>f, <1>2, <2>1, <2>2, FieldsAre DEF Sets, SetTo, setAMQPPriority, IsMessage, Alike
<1> HIDE DEF o2
<1>4. /\ Alike(o2, o3) /\ IsMessage(o3) /\ IsObject(o3)
      /\ SameBut({"address", "annotations"}, o2.mMessage, o3.mMessage)
      /\ RoutedTo(o2.mMessage, o2.mDestination, d, LinkDestination(sender), o3.mMessage)
  <2> DEFINE x == IF d # nullptr THEN d ELSE LinkDestination(sender)
  <2>0. IsType(x.type) /\ IsPointer(x) /\ x # nullptr
    BY LinkIs, PointerIs, NullHasNoAddress
  <2>1. get("Destination", o2) = o2.mDestination
    BY <1>3 DEF IsObject, Classes, get, CMSMessage_get, CMSTextMessage_get,
                CMSBytesMessage_get
  <2>2. o3 = IF o2.mDestination # nullptr THEN o2 ELSE set("Destination", x, now, o2)
    BY <2>1 DEF Routed
  <2> HIDE DEF o3
  <2>3. CASE o2.mDestination # nullptr
    BY <1>3, <2>2, <2>3 DEF Alike, SameBut, IsMessage, RoutedTo
  <2>4. CASE o2.mDestination = nullptr
    <3> HIDE DEF x
    <3>1. Sets("Destination", x, now, o2, o3)
      BY <1>h, <1>3, <2>0, <2>2, <2>4, SetSafe
    <3>2. o3.mMessage = setAMQPDestination(x, o2.mMessage)
      BY <3>1 DEF Sets, SetTo, Encoded
    <3>3. /\ o3.mMessage.address = destinationToAddress(x)
          /\ o3.mMessage.annotations
               = Put(o2.mMessage.annotations, X_OPT_JMS_DEST,
                     ByteAnnotation(destinationTypeToJMSType(x.type)))
      BY <1>3, <2>0, <3>2, FieldsAre DEF setAMQPDestination, IsMessage
    <3>4. RoutedTo(o2.mMessage, o2.mDestination, d, LinkDestination(sender), o3.mMessage)
      BY <2>0, <2>4, <3>3 DEF x, RoutedTo
    <3> QED
      BY <1>f, <3>1, <3>4 DEF Alike, Sets
  <2> QED
    BY <2>3, <2>4
<1> HIDE DEF o3
<1>5. /\ Alike(o3, o4) /\ IsMessage(o4) /\ IsObject(o4)
      /\ SameBut({"ttl", "expiry_time"}, o3.mMessage, o4.mMessage)
      /\ IF ttl > 0 THEN o4.mMessage.ttl = ttl /\ o4.mMessage.expiry_time = now + ttl
                    ELSE /\ o4.mMessage.ttl = o3.mMessage.ttl
                         /\ o4.mMessage.expiry_time = o3.mMessage.expiry_time
  <2>1. Sets("Expiration", ttl, now, o3, o4)
    BY <1>h, <1>4, SetSafe
  <2> HIDE DEF o4
  <2>2. o4.mMessage = setAMQPExpiration(ttl, now, o3.mMessage)
    BY <2>1 DEF Sets, SetTo, Encoded
  <2> QED
    BY <1>f, <1>4, <2>1, <2>2, FieldsAre DEF Sets, setAMQPExpiration, IsMessage, Alike
<1> HIDE DEF o4
<1>6. /\ Alike(o4, o5) /\ IsMessage(o5) /\ IsObject(o5)
      /\ SameBut({"id"}, o4.mMessage, o5.mMessage)
      /\ o5.mMessage.id = IF NeedsId(o) THEN [type |-> "STRING", value |-> NewId]
                                        ELSE o.mMessage.id
  <2>1. o4.mMessage.id = o.mMessage.id
    BY <1>1, <1>2, <1>3, <1>4, <1>5, FieldsAre DEF SameBut
  <2>2. NeedsId(o4) <=> NeedsId(o)
    BY <1>5, <2>1, NeedsIdAlike DEF IsObject
  <2>3. CASE ~NeedsId(o)
    <3>1. o5 = o4
      BY <2>2, <2>3 DEF mMessageIdSetter
    <3> QED
      BY <1>5, <2>1, <2>3, <3>1 DEF Alike, SameBut, IsMessage
  <2>4. CASE NeedsId(o)
    <3>1. o5 = set("MessageID", NewId, now, o4)
      BY <2>2, <2>4 DEF mMessageIdSetter
    <3> HIDE DEF o5
    <3>2. Passable("MessageID", NewId)
      BY <1>h, <2>4, NewIdIs
    <3>3. Sets("MessageID", NewId, now, o4, o5)
      BY <1>5, <3>1, <3>2, SetSafe
    <3>4. o5.mMessage = setAMQPMessageID(NewId, o4.mMessage)
      BY <3>3 DEF Sets, SetTo, Encoded
    <3>5. o5.mMessage.id = [type |-> "STRING", value |-> NewId]
      BY <1>5, <2>4, <3>4, NewIdIs, FieldsAre DEF setAMQPMessageID, IsMessage
    <3> QED
      BY <1>f, <1>5, <2>4, <3>3, <3>5 DEF Alike, Sets
  <2> QED
    BY <2>3, <2>4
<1> HIDE DEF o5
<1>7. /\ Alike(o5, o6) /\ IsMessage(o6)
      /\ SameBut({"creation_time"}, o5.mMessage, o6.mMessage)
      /\ o6.mMessage.creation_time = IF producer.mTimestampDisabed
                                     THEN o5.mMessage.creation_time ELSE now
  <2>1. CASE producer.mTimestampDisabed
    <3>1. o6 = o5
      BY <2>1 DEF mTimestampSetter
    <3> QED
      BY <1>6, <2>1, <3>1 DEF Alike, SameBut, IsMessage
  <2>2. CASE ~producer.mTimestampDisabed
    <3>1. o6 = set("Timestamp", now, now, o5)
      BY <2>2 DEF mTimestampSetter
    <3> HIDE DEF o6
    <3>2. Sets("Timestamp", now, now, o5, o6)
      BY <1>h, <1>6, <3>1, SetSafe
    <3>3. o6.mMessage = setAMQPTimestamp(now, o5.mMessage)
      BY <3>2 DEF Sets, SetTo, Encoded
    <3> QED
      BY <1>f, <1>6, <2>2, <3>2, <3>3, FieldsAre DEF Sets, setAMQPTimestamp, IsMessage
  <2> QED
    BY <2>1, <2>2
<1> HIDE DEF o6
<1>8. Alike(o, o6)
  BY <1>1, <1>2, <1>3, <1>4, <1>5, <1>6, <1>7 DEF Alike
<1>9. /\ SameBut({"durable", "priority", "address", "annotations", "ttl",
                  "expiry_time", "id", "creation_time"}, o.mMessage, o6.mMessage)
      /\ o6.mMessage.durable = o1.mMessage.durable
      /\ o6.mMessage.priority = o2.mMessage.priority
      /\ o6.mMessage.ttl = o4.mMessage.ttl
      /\ o6.mMessage.expiry_time = o4.mMessage.expiry_time
      /\ o3.mMessage.ttl = o.mMessage.ttl
      /\ o3.mMessage.expiry_time = o.mMessage.expiry_time
      /\ o5.mMessage.creation_time = o.mMessage.creation_time
      /\ o6.mMessage.id = o5.mMessage.id
      /\ o6.mMessage.address = o3.mMessage.address
      /\ o6.mMessage.annotations = o3.mMessage.annotations
      /\ o2.mMessage.address = o.mMessage.address
      /\ o2.mMessage.annotations = o.mMessage.annotations
  BY <1>1, <1>2, <1>3, <1>4, <1>5, <1>6, <1>7, FieldsAre DEF SameBut
<1>10. RoutedTo(o.mMessage, o.mDestination, d, LinkDestination(sender), o6.mMessage)
  BY <1>1, <1>2, <1>3, <1>4, <1>9 DEF RoutedTo
<1> QED
  BY <1>0, <1>2, <1>3, <1>5, <1>6, <1>7, <1>8, <1>9, <1>10

(* The message that waits for the container's thread.                      *)
Sendable(m) == DOMAIN m = Fields /\ Intact(m) /\ PlainBody(m)

LEMMA SentSafe ==
  ASSUME NEW o, IsObject(o), IsMessage(o), NEW d, IsPointer(d), NEW mode, NEW p \in Int,
         NEW ttl, LinkOK(sender), ids \in Nat, NeedsId(o) => ids < Len(Uuids),
         NEW s, s.o = o, s.mode = mode, s.priority = p, s.ttl = ttl, s.at = now,
         s.by = producer,
         NEW m, m = from_cms_message(Stamped(clone(o), d, mode, p, ttl))
  PROVE  /\ Sendable(m) /\ AsSet(m, s)
         /\ RoutedTo(o.mMessage, o.mDestination, d, LinkDestination(sender), m)
         /\ m.id = IF NeedsId(o) THEN [type |-> "STRING", value |-> NewId]
                                 ELSE o.mMessage.id
<1> DEFINE n == Stamped(clone(o), d, mode, p, ttl)
           k == n.mMessage
           before == o.mMessage
<1>1. /\ Alike(o, n) /\ IsMessage(n)
      /\ SameBut({"durable", "priority", "address", "annotations", "ttl",
                  "expiry_time", "id", "creation_time"}, before, k)
      /\ k.durable = (mode = PERSISTENT)
      /\ k.priority = Min(Abs(p), 9) % 256
      /\ IF ttl > 0 THEN k.ttl = ttl /\ k.expiry_time = now + ttl
                    ELSE k.ttl = before.ttl /\ k.expiry_time = before.expiry_time
      /\ k.creation_time = IF producer.mTimestampDisabed
                           THEN before.creation_time ELSE now
      /\ k.id = IF NeedsId(o) THEN [type |-> "STRING", value |-> NewId] ELSE before.id
      /\ RoutedTo(before, o.mDestination, d, LinkDestination(sender), k)
  BY StampedFields
<1>2. m = IF n.class = "CMSBytesMessage" THEN [k EXCEPT !.body = Binary(n.mMessageBody)]
                                         ELSE k
  BY DEF from_cms_message
<1> HIDE DEF n
<1>3. /\ SameBut({"body"}, k, m)
      /\ n.class = "CMSBytesMessage" => m.body = Binary(n.mMessageBody)
      /\ n.class # "CMSBytesMessage" => m = k
  BY <1>1, <1>2, FieldsAre DEF SameBut, IsMessage
<1>4. Sendable(m)
  <2>1. /\ DOMAIN m = Fields /\ m.reply_to = k.reply_to /\ m.annotations = k.annotations
        /\ m.id = k.id
    BY <1>3, FieldsAre DEF SameBut
  <2>2. Intact(m)
    BY <1>1, <2>1 DEF IsMessage, Intact, NoNull
  <2>3. PlainBody(m)
    BY <1>1, <1>3 DEF IsMessage, PlainBody, Binary
  <2> QED
    BY <2>1, <2>2, <2>3 DEF Sendable
<1>5. /\ \A f \in {"reply_to", "subject", "properties", "group_id",
                   "content_type", "delivery_count", "correlation_id"} :
           m[f] = before[f]
      /\ m.durable = k.durable /\ m.priority = k.priority /\ m.ttl = k.ttl
      /\ m.expiry_time = k.expiry_time /\ m.creation_time = k.creation_time
      /\ m.address = k.address /\ m.annotations = k.annotations /\ m.id = k.id
      /\ k.body = before.body
  BY <1>1, <1>3, FieldsAre DEF SameBut
<1>6. m.body.value = IF o.class = "CMSBytesMessage" THEN o.mMessageBody ELSE getText(o)
  BY <1>1, <1>3, <1>5 DEF Alike, Binary, getText
<1>7. m.priority \in 0..9 /\ (p \in 0..9 => m.priority = p)
  BY <1>1, <1>5, PriorityInRange
<1>8. SameId(m.correlation_id, before.correlation_id)
  BY <1>5 DEF SameId
<1>9. AsSet(m, s)
  BY <1>1, <1>5, <1>6, <1>7, <1>8 DEF AsSet
<1>10. RoutedTo(before, o.mDestination, d, LinkDestination(sender), m)
  BY <1>1, <1>5 DEF RoutedTo
<1> QED
  BY <1>1, <1>4, <1>5, <1>9, <1>10

(* What the consumer on the link "to" makes of m.  The message's own       *)
(* destination is preferred to the parameter, of which ReceivedAsSent      *)
(* says nothing.                                                           *)
Arrives(m, s, from, to) ==
  LET r == received(m, to)
      wanted == CASE s.o.mDestination # nullptr -> s.o.mDestination
                  [] s.o.mDestination = nullptr /\ s.destination # nullptr -> s.destination
                  [] OTHER -> LinkDestination(from)
  IN  Coherent(s.o) =>
        /\ r.class = s.o.class
        /\ r.mMessageBody = s.o.mMessageBody
        /\ \A h \in {"CorrelationID", "Type", "Redelivered"} : get(h, r) = get(h, s.o)
        /\ getPropertyNames(r.mMessage) = getPropertyNames(s.o.mMessage)
        /\ Addressed(wanted) => equals(get("Destination", r), wanted)
        /\ Addressed(s.o.mReplyTo) => equals(get("ReplyTo", r), s.o.mReplyTo)

(* The ids that the generator gives.                                       *)
Generated == {[type |-> "STRING", value |-> <<"ID:", Uuids[k]>>] : k \in DOMAIN Uuids}

(* An id is generated where there is none, unless ids are disabled.        *)
WithId(m, s) ==
  IF s.o.mMessage.id.type # "NULL" \/ s.by.mMessageIdDisabed
  THEN m.id = s.o.mMessage.id
  ELSE m.id \in Generated

(* An identifier that an answer carries as it is.                          *)
Plain(id) ==
  /\ id.type # "NULL"
  /\ id.type = "STRING" => Head(id.value) = "ID:" /\ ~HasTypePrefix(id.value)

Answers(o) == Plain(o.request) => SameId(o.mMessage.correlation_id, o.request)

(* What a text or bytes message that was sent is to be.                    *)
Promised(m, s, from, to) ==
  AsSet(m, s) /\ Arrives(m, s, from, to) /\ WithId(m, s) /\ Answers(s.o)

LEMMA ReceivedIs ==
  ASSUME NEW m, NEW link
  PROVE  LET r == received(m, link)
         IN  /\ DOMAIN r = ObjectFields \ {"request"}
             /\ r.class = IF m.content_type = OCTET_STREAM THEN "CMSBytesMessage"
                                                           ELSE "CMSTextMessage"
             /\ r.mMessageBody = IF m.content_type = OCTET_STREAM THEN m.body.value
                                                                  ELSE <<>>
             /\ r.mMessageDelivery \in {"copied", "borrowed"}
             /\ r.mMessage = m
             /\ r.mDestination = Arrived(m, link)
             /\ r.mReplyTo = decodedReplyTo(m)
BY DEF received, receivedCMSTextMessage, receivedCMSBytesMessage, Object, ObjectFields,
       Arrived

LEMMA GetIs ==
  ASSUME NEW o, o.class \in Classes
  PROVE  /\ get("CorrelationID", o) = getCMSCorrelationID(o.mMessage)
         /\ get("Type", o) = getCMSType(o.mMessage)
         /\ get("Redelivered", o) = getCMSRedelivered(o.mMessage)
         /\ get("MessageID", o) = getCMSMessageID(o.mMessage)
         /\ get("Destination", o) = o.mDestination
         /\ get("ReplyTo", o) = o.mReplyTo
BY DEF Classes, get, CMSMessage_get, CMSTextMessage_get, CMSBytesMessage_get

LEMMA ArrivesSafe ==
  ASSUME NEW o, IsObject(o), o.class # "CMSMessage", NEW from, NEW to, Ours(o, to),
         NEW m, NEW s, s.o = o, AsSet(m, s),
         RoutedTo(o.mMessage, o.mDestination, s.destination, LinkDestination(from), m)
  PROVE  Arrives(m, s, from, to)
<1> SUFFICES ASSUME Coherent(o)
             PROVE  Arrives(m, s, from, to)
  BY DEF Arrives
<1> DEFINE r == received(m, to)
           before == o.mMessage
           x == IF s.destination # nullptr THEN s.destination ELSE LinkDestination(from)
           wanted == CASE s.o.mDestination # nullptr -> s.o.mDestination
                       [] s.o.mDestination = nullptr /\ s.destination # nullptr ->
                            s.destination
                       [] OTHER -> LinkDestination(from)
<1>1. /\ r.class = IF m.content_type = OCTET_STREAM THEN "CMSBytesMessage"
                                                    ELSE "CMSTextMessage"
      /\ r.mMessageBody = IF m.content_type = OCTET_STREAM THEN m.body.value ELSE <<>>
      /\ r.mMessage = m /\ r.mDestination = Arrived(m, to)
      /\ r.mReplyTo = decodedReplyTo(m)
  BY ReceivedIs
<1> HIDE DEF r
<1>2. /\ \A f \in {"reply_to", "subject", "properties", "group_id",
                   "content_type", "delivery_count"} : m[f] = before[f]
      /\ SameId(m.correlation_id, before.correlation_id)
      /\ o.class = "CMSBytesMessage" => m.body.value = o.mMessageBody
  BY DEF AsSet
<1>3. /\ X_OPT_JMS_MESSAGE_TYPE \in DOMAIN before.annotations
      /\ before.address = o.mDestination.name /\ before.reply_to = o.mReplyTo.name
  BY DEF Coherent
<1>4. o.class = "CMSBytesMessage" <=> m.content_type = OCTET_STREAM
  BY <1>2, <1>3 DEF Ours
<1>5. r.class = o.class /\ r.mMessageBody = o.mMessageBody
  BY <1>1, <1>2, <1>4 DEF IsObject, Classes
<1>6. r.class \in Classes /\ o.class \in Classes
  BY <1>5 DEF IsObject
<1>7. \A h \in {"CorrelationID", "Type", "Redelivered"} : get(h, r) = get(h, o)
  <2>1. getCMSCorrelationID(m) = getCMSCorrelationID(before)
    BY <1>2 DEF SameId, getCMSCorrelationID, PrintedId
  <2>2. getCMSType(m) = getCMSType(before) /\ getCMSRedelivered(m) = getCMSRedelivered(before)
    BY <1>2 DEF getCMSType, getCMSRedelivered
  <2> QED
    BY <1>1, <1>6, <2>1, <2>2, GetIs
<1>8. getPropertyNames(r.mMessage) = getPropertyNames(before)
  BY <1>1, <1>2 DEF getPropertyNames
<1>9. Addressed(wanted) => equals(r.mDestination, wanted)
  <2>1. CASE o.mDestination # nullptr
    <3>1. wanted = o.mDestination
      BY <2>1
    <3>2. m.address = before.address /\ m.annotations = before.annotations
      BY <2>1 DEF RoutedTo
    <3>3. Arrived(m, to) = Arrived(before, to)
      BY <3>2, DecodedAlike
    <3> QED
      BY <1>1, <1>3, <3>1, <3>3 DEF Ours
  <2>2. CASE o.mDestination = nullptr
    <3>1. wanted = x
      BY <2>2
    <3>2. /\ IsType(x.type) /\ m.address = destinationToAddress(x)
          /\ m.annotations = Put(before.annotations, X_OPT_JMS_DEST,
                                 ByteAnnotation(destinationTypeToJMSType(x.type)))
      BY <2>2 DEF RoutedTo
    <3> HIDE DEF x, wanted
    <3>3. Announces(m.annotations, X_OPT_JMS_DEST, x.type)
      BY <3>2, PutAnnounces
    <3>4. Addressed(x) => m.address = x.name
      BY <3>2 DEF Addressed, destinationToAddress
    <3>5. Addressed(x) => equals(Arrived(m, to), x)
      BY <3>2, <3>3, <3>4, AddressArrives
    <3> QED
      BY <1>1, <3>1, <3>5
  <2> QED
    BY <2>1, <2>2
<1>10. Addressed(o.mReplyTo) => equals(r.mReplyTo, o.mReplyTo)
  <2>1. annotationsToDestinationType(m.annotations, X_OPT_JMS_REPLY_TO)
        = annotationsToDestinationType(before.annotations, X_OPT_JMS_REPLY_TO)
    <3>1. \/ m.annotations = before.annotations
          \/ \E v : m.annotations = Put(before.annotations, X_OPT_JMS_DEST, v)
      BY DEF RoutedTo
    <3> QED
      BY <3>1, PutElsewhere, KeysDiffer
  <2>2. decodedReplyTo(m) = decodedReplyTo(before)
    BY <1>2, <2>1, DecodedAlike
  <2> QED
    BY <1>1, <1>3, <2>2 DEF Ours
<1>11. get("Destination", r) = r.mDestination /\ get("ReplyTo", r) = r.mReplyTo
  BY <1>6, GetIs
<1> QED
  BY <1>5, <1>7, <1>8, <1>9, <1>10, <1>11 DEF Arrives, r

-----------------------------------------------------------------------------
(* The inductive invariant.                                                *)

IsSeq(s) == \E S : s \in Seq(S)

LEMMA SeqAppend ==
  ASSUME NEW s, IsSeq(s), NEW x
  PROVE  /\ IsSeq(Append(s, x)) /\ DOMAIN Append(s, x) = DOMAIN s \cup {Len(s) + 1}
         /\ \A i \in DOMAIN s : Append(s, x)[i] = s[i]
         /\ Append(s, x)[Len(s) + 1] = x
<1>1. PICK S : s \in Seq(S)
  BY DEF IsSeq
<1> DEFINE T == S \cup {x}
<1>2. s \in Seq(T) /\ x \in T
  BY <1>1
<1> HIDE DEF T
<1>3. Append(s, x) \in Seq(T)
  BY <1>2
<1> QED
  BY <1>2, <1>3 DEF IsSeq

LEMMA SeqTail ==
  ASSUME NEW s, IsSeq(s), s # <<>>
  PROVE  /\ IsSeq(Tail(s)) /\ 1 \in DOMAIN s /\ Head(s) = s[1]
         /\ \A i \in DOMAIN Tail(s) : i + 1 \in DOMAIN s /\ Tail(s)[i] = s[i + 1]
<1>1. PICK S : s \in Seq(S)
  BY DEF IsSeq
<1>2. Tail(s) \in Seq(S)
  BY <1>1
<1> QED
  BY <1>1, <1>2 DEF IsSeq

(* Every AMQP message can be decoded.                                      *)
HeapOK == DOMAIN heap = Refs /\ \A r \in Refs : DOMAIN heap[r] = Fields /\ Intact(heap[r])

(* An object with its AMQP message by value; link is the consumer's.       *)
LoadedOK(o, link) ==
  /\ IsObject(o) /\ IsMessage(o)
  /\ o.class # "CMSMessage" => Ours(o, link) /\ Answers(o)

ObjectOK(o) ==
  /\ IsObject(objects[o])
  /\ objects[o].mMessage \in Refs
  /\ LoadedOK(Load(o), receiver)

(* Nobody shares the AMQP message of a text or bytes message.              *)
Unshared ==
  \A x, y \in Live :
    x # y /\ objects[x].mMessage = objects[y].mMessage => objects[x].class = "CMSMessage"

ObjectsOK == DOMAIN objects = Objects /\ Unshared /\ \A o \in Live : ObjectOK(o)

(* A text or bytes message that was sent and what it was then.             *)
OwnCopy(s) == s.own /\ s.o.class # "CMSMessage"

(* What waits is the producer's alone: no object holds the AMQP message of *)
(* the clone, so that nothing the application does can reach it.           *)
QueuedOK(w) ==
  /\ w.mess \in Refs
  /\ Sendable(heap[w.mess])
  /\ OwnCopy(w.sent) => /\ Promised(heap[w.mess], w.sent, sender, receiver)
                        /\ \A o \in Live : objects[o].mMessage # w.mess

QueueOK == IsSeq(workQueue) /\ \A i \in DOMAIN workQueue : QueuedOK(workQueue[i])

WiredOK(p) ==
  /\ DOMAIN p.m = Fields
  /\ LegalId(p.m.id)
  /\ p.sent.own => ~Unreadable(p.m)
  /\ OwnCopy(p.sent) => Promised(p.m, p.sent, sender, receiver)

WireOK == IsSeq(wire) /\ \A i \in DOMAIN wire : WiredOK(wire[i])

CountersOK ==
  /\ DOMAIN producer = DOMAIN DefaultSettings /\ producer.mPriority \in Int
  /\ sends \in 0..MaxSends
  /\ ids \in 0..Len(Uuids)
  /\ fault \in {"none", "badPointer", "container", "endlessRecursion"}
  /\ LinkOK(sender) /\ LinkOK(receiver)

MessagesInv == HeapOK /\ ObjectsOK /\ QueueOK /\ WireOK /\ CountersOK

-----------------------------------------------------------------------------
(* Objects and references.                                                 *)

(* The fields of an object with its AMQP message by value.                 *)
LEMMA LoadIs ==
  ASSUME NEW o, NEW m, DOMAIN o = ObjectFields
  PROVE  LET k == [o EXCEPT !.mMessage = m]
         IN  /\ DOMAIN k = ObjectFields /\ k.mMessage = m
             /\ \A f \in ObjectFields \ {"mMessage"} : k[f] = o[f]
BY DEF ObjectFields

LEMMA Loaded ==
  ASSUME MessagesInv, NEW o \in Live
  PROVE  /\ o \in Objects /\ LoadedOK(Load(o), receiver)
         /\ IsObject(Load(o)) /\ IsMessage(Load(o))
         /\ Load(o).class = objects[o].class
         /\ Load(o).mMessage = heap[objects[o].mMessage]
<1>1. o \in Objects /\ ObjectOK(o)
  BY DEF Live, MessagesInv, ObjectsOK
<1>2. DOMAIN objects[o] = ObjectFields
  BY <1>1 DEF ObjectOK, IsObject
<1>3. Load(o) = [objects[o] EXCEPT !.mMessage = heap[objects[o].mMessage]]
  BY DEF Load
<1>4. /\ Load(o).mMessage = heap[objects[o].mMessage]
      /\ Load(o).class = objects[o].class
  BY <1>2, <1>3, LoadIs DEF ObjectFields
<1> QED
  BY <1>1, <1>4 DEF ObjectOK, LoadedOK

(* std::make_shared gives a reference that nobody has.                     *)
Unheld(r) ==
  /\ r \in Refs
  /\ \A o \in Live : objects[o].mMessage # r
  /\ \A i \in DOMAIN workQueue : workQueue[i].mess # r

LEMMA NewRefUnheld ==
  ASSUME MessagesInv, Refs # Used
  PROVE  Unheld(NewRef)
<1>1. Used \subseteq Refs
  BY DEF Used, Live, MessagesInv, ObjectsOK, ObjectOK, QueueOK, QueuedOK
<1>2. NewRef \in Refs /\ NewRef \notin Used
  BY <1>1 DEF NewRef
<1> QED
  BY <1>2 DEF Used, Unheld

LEMMA EmptySendable == Sendable(EmptyMessage) /\ EmptyMessage.id = NoId
BY DEF Sendable, Fields, Intact, LegalId, NoNull, PlainBody, EmptyMessage, OCTET_STREAM, NoId

(* An object is its fields.                                                *)
LEMMA SameLoaded ==
  ASSUME NEW o, NEW n, NEW link, LoadedOK(o, link), DOMAIN n = ObjectFields,
         \A f \in ObjectFields : n[f] = o[f]
  PROVE  LoadedOK(n, link)
<1>1. /\ n.class = o.class /\ n.mMessage = o.mMessage /\ n.mMessageBody = o.mMessageBody
      /\ n.mMessageDelivery = o.mMessageDelivery /\ n.mDestination = o.mDestination
      /\ n.mReplyTo = o.mReplyTo /\ n.request = o.request
  BY DEF ObjectFields
<1> QED
  BY <1>1 DEF LoadedOK, IsObject, IsMessage, Ours, Answers

(* An object that is not touched, nor its AMQP message.                    *)
LEMMA ObjectKept ==
  ASSUME NEW o, ObjectOK(o), objects'[o] = objects[o],
         heap'[objects[o].mMessage] = heap[objects[o].mMessage], UNCHANGED receiver
  PROVE  ObjectOK(o)'
<1>1. Load(o)' = Load(o)
  BY DEF Load
<1>2. LoadedOK(Load(o)', receiver')
  BY <1>1 DEF ObjectOK
<1> QED
  BY <1>2 DEF ObjectOK

-----------------------------------------------------------------------------
(* The steps, by what they do to objects and references.                   *)

(* A setter: the AMQP message of one object changes.                       *)
LEMMA StoreSafe ==
  ASSUME MessagesInv, NEW o \in Live, NEW n, Edit(o, n),
         LoadedOK(n, receiver), n.class = objects[o].class,
         PlainBody(heap[objects[o].mMessage]) => PlainBody(n.mMessage)
  PROVE  MessagesInv'
<1> DEFINE ref == objects[o].mMessage
<1>0. /\ o \in Objects /\ ref \in Refs /\ DOMAIN heap = Refs /\ DOMAIN objects = Objects
      /\ IsObject(n) /\ DOMAIN n.mMessage = Fields /\ Intact(n.mMessage)
  BY DEF Live, MessagesInv, HeapOK, ObjectsOK, ObjectOK, LoadedOK, IsMessage
<1>1. /\ heap' = [heap EXCEPT ![ref] = n.mMessage]
      /\ objects' = [objects EXCEPT ![o] = [n EXCEPT !.mMessage = ref]]
      /\ UNCHANGED <<producer, sender, receiver, workQueue, wire, sends, ids, fault>>
  BY DEF Edit, Store, network, links
<1> HIDE DEF ref
<1>2. HeapOK'
  BY <1>0, <1>1 DEF MessagesInv, HeapOK
<1>3. \A r \in Refs : PlainBody(heap[r]) => PlainBody(heap'[r])
  BY <1>0, <1>1 DEF ref
<1>4. /\ IsObject(objects'[o]) /\ objects'[o].mMessage = ref
      /\ objects'[o].class = objects[o].class
      /\ LoadedOK(Load(o)', receiver')
  <2>1. objects'[o] = [n EXCEPT !.mMessage = ref] /\ heap'[ref] = n.mMessage
    BY <1>0, <1>1
  <2>2. DOMAIN n = ObjectFields
    BY <1>0 DEF IsObject
  <2>3. /\ DOMAIN objects'[o] = ObjectFields /\ objects'[o].mMessage = ref
        /\ \A f \in ObjectFields \ {"mMessage"} : objects'[o][f] = n[f]
    BY <2>1, <2>2, LoadIs
  <2>4. IsObject(objects'[o]) /\ objects'[o].class = objects[o].class
    BY <1>0, <2>3 DEF IsObject, ObjectFields
  <2>5. Load(o)' = [objects'[o] EXCEPT !.mMessage = n.mMessage]
    BY <2>1, <2>3 DEF Load
  <2>6. /\ DOMAIN Load(o)' = ObjectFields /\ Load(o)'.mMessage = n.mMessage
        /\ \A f \in ObjectFields \ {"mMessage"} : Load(o)'[f] = n[f]
    BY <2>3, <2>5, LoadIs
  <2>7. LoadedOK(Load(o)', receiver)
    BY <2>6, SameLoaded DEF ObjectFields
  <2> QED
    BY <1>1, <2>3, <2>4, <2>7
<1>5. \A x \in Objects \ {o} : objects'[x] = objects[x]
  BY <1>0, <1>1
<1>6. \A x \in Live' : x \in Live /\ objects'[x].mMessage = objects[x].mMessage
                       /\ objects'[x].class = objects[x].class
  BY <1>4, <1>5 DEF Live, ref
<1>7. ObjectsOK'
  <2>1. DOMAIN objects' = Objects /\ Unshared'
    <3>1. Unshared
      BY DEF MessagesInv, ObjectsOK
    <3> QED
      BY <1>0, <1>1, <1>6, <3>1 DEF Unshared
  <2>2. ASSUME NEW x \in Live'
        PROVE  ObjectOK(x)'
    <3>1. x \in Live /\ ObjectOK(x)
      BY <1>6 DEF MessagesInv, ObjectsOK
    <3>2. CASE x = o
      BY <1>0, <1>4, <3>2 DEF ObjectOK
    <3>3. CASE x # o /\ objects[x].mMessage # ref
      <4>1. objects'[x] = objects[x] /\ x \in Objects
        BY <1>5, <3>1, <3>3 DEF Live
      <4>2. heap'[objects[x].mMessage] = heap[objects[x].mMessage]
        BY <1>0, <1>1, <3>1, <3>3 DEF ObjectOK
      <4> QED
        BY <1>1, <3>1, <4>1, <4>2, ObjectKept
    <3>4. CASE x # o /\ objects[x].mMessage = ref
      <4>1. objects'[x] = objects[x] /\ x \in Objects
        BY <1>5, <3>1, <3>4 DEF Live
      <4>2. objects[x].class = "CMSMessage"
        BY <3>1, <3>4 DEF MessagesInv, ObjectsOK, Unshared, ref
      <4>3. Load(x)' = [objects[x] EXCEPT !.mMessage = n.mMessage]
        BY <1>0, <1>1, <3>4, <4>1 DEF Load
      <4>4. IsObject(objects[x]) /\ DOMAIN objects[x] = ObjectFields
        BY <3>1 DEF ObjectOK, IsObject
      <4>5. /\ DOMAIN Load(x)' = ObjectFields /\ Load(x)'.mMessage = n.mMessage
            /\ \A f \in ObjectFields \ {"mMessage"} : Load(x)'[f] = objects[x][f]
        BY <4>3, <4>4, LoadIs
      <4>6. IsObject(Load(x)')
        BY <4>4, <4>5 DEF IsObject, ObjectFields
      <4>7. PlainBody(heap[ref])
        <5>1. Load(x).mMessage = heap[ref] /\ Load(x).class = "CMSMessage"
          BY <3>1, <3>4, <4>2, Loaded
        <5> QED
          BY <3>1, <5>1 DEF ObjectOK, LoadedOK, IsMessage
      <4>8. LoadedOK(Load(x)', receiver')
        BY <1>0, <1>1, <4>2, <4>5, <4>6, <4>7 DEF LoadedOK, IsMessage, ref, ObjectFields
      <4> QED
        BY <3>1, <4>1, <4>8 DEF ObjectOK
    <3> QED
      BY <3>2, <3>3, <3>4
  <2> QED
    BY <2>1, <2>2 DEF ObjectsOK
<1>8. QueueOK'
  <2>1. ASSUME NEW i \in DOMAIN workQueue
        PROVE  QueuedOK(workQueue[i])'
    <3>1. QueuedOK(workQueue[i])
      BY DEF MessagesInv, QueueOK
    <3>2. workQueue'[i] = workQueue[i]
      BY <1>1
    <3>3. Sendable(heap'[workQueue[i].mess])
      BY <1>2, <1>3, <3>1 DEF HeapOK, QueuedOK, Sendable
    <3>4. ASSUME OwnCopy(workQueue[i].sent)
          PROVE  /\ heap'[workQueue[i].mess] = heap[workQueue[i].mess]
                 /\ \A x \in Live' : objects'[x].mMessage # workQueue[i].mess
      BY <1>0, <1>1, <1>6, <3>1, <3>4 DEF QueuedOK, ref
    <3> QED
      BY <1>1, <3>1, <3>2, <3>3, <3>4 DEF QueuedOK, OwnCopy
  <2> QED
    BY <1>1, <2>1 DEF QueueOK, MessagesInv
<1>9. WireOK' /\ CountersOK'
  BY <1>1 DEF MessagesInv, WireOK, WiredOK, OwnCopy, CountersOK
<1> QED
  BY <1>2, <1>7, <1>8, <1>9 DEF MessagesInv

(* A new object takes a reference: one that nobody has, or, the clone of a *)
(* CMSMessage, that of another CMSMessage.                                 *)
LEMMA TakeRef ==
  ASSUME HeapOK, ObjectsOK, QueueOK, NEW o \in Objects, objects[o] = NoObject,
         NEW ref \in Refs,
         \/ Unheld(ref)
         \/ /\ \E x \in Live : objects[x].mMessage = ref
            /\ \A x \in Live : objects[x].mMessage = ref => objects[x].class = "CMSMessage"
            /\ objects'[o].class = "CMSMessage"
            /\ heap'[ref] = heap[ref],
         heap' = [heap EXCEPT ![ref] = heap'[ref]],
         objects' = [objects EXCEPT ![o] = objects'[o]],
         IsObject(objects'[o]), objects'[o].mMessage = ref,
         LoadedOK([objects'[o] EXCEPT !.mMessage = heap'[ref]], receiver),
         UNCHANGED <<workQueue, sender, receiver>>
  PROVE  HeapOK' /\ ObjectsOK' /\ QueueOK'
<1> DEFINE k == [objects'[o] EXCEPT !.mMessage = heap'[ref]]
<1>k. LoadedOK(k, receiver) /\ k.mMessage = heap'[ref]
  BY LoadIs DEF IsObject
<1>l. Load(o)' = k
  BY DEF Load
<1> HIDE DEF k
<1>0. /\ DOMAIN heap = Refs /\ DOMAIN objects = Objects
      /\ DOMAIN heap'[ref] = Fields /\ Intact(heap'[ref])
  BY <1>k DEF HeapOK, ObjectsOK, LoadedOK, IsMessage
<1>1. HeapOK'
  BY <1>0 DEF HeapOK
<1>2. \A r \in Refs \ {ref} : heap'[r] = heap[r]
  BY <1>0
<1>3. \A x \in Objects \ {o} : objects'[x] = objects[x]
  BY <1>0
<1>4. o \notin Live /\ \A x \in Live' \ {o} : x \in Live /\ objects'[x] = objects[x]
  BY <1>3 DEF Live
<1>5. \A x \in Live : heap'[objects[x].mMessage] = heap[objects[x].mMessage]
  BY <1>2 DEF Unheld, ObjectsOK, ObjectOK
<1>6. ObjectsOK'
  <2>1. DOMAIN objects' = Objects
    BY <1>0
  <2>2. ASSUME NEW x \in Live'
        PROVE  ObjectOK(x)'
    <3>1. CASE x = o
      BY <1>k, <1>l, <3>1 DEF ObjectOK
    <3>2. CASE x # o
      <4>1. x \in Live /\ ObjectOK(x) /\ objects'[x] = objects[x]
        BY <1>4, <3>2 DEF ObjectsOK
      <4> QED
        BY <1>5, <4>1, ObjectKept
    <3> QED
      BY <3>1, <3>2
  <2>3. Unshared'
    <3> SUFFICES ASSUME NEW x \in Live', NEW y \in Live', x # y,
                        objects'[x].mMessage = objects'[y].mMessage
                 PROVE  objects'[x].class = "CMSMessage"
      BY DEF Unshared
    <3>1. CASE x # o /\ y # o
      BY <1>4, <3>1 DEF ObjectsOK, Unshared
    <3>2. CASE x = o
      <4>1. y \in Live /\ objects[y].mMessage = ref
        BY <1>4, <3>2
      <4> QED
        BY <3>2, <4>1 DEF Unheld
    <3>3. CASE y = o
      <4>1. x \in Live /\ objects[x].mMessage = ref /\ objects'[x] = objects[x]
        BY <1>4, <3>3
      <4> QED
        BY <4>1 DEF Unheld
    <3> QED
      BY <3>1, <3>2, <3>3
  <2> QED
    BY <2>1, <2>2, <2>3 DEF ObjectsOK
<1>7. QueueOK'
  <2>1. ASSUME NEW i \in DOMAIN workQueue
        PROVE  QueuedOK(workQueue[i])'
    <3>1. QueuedOK(workQueue[i]) /\ workQueue'[i] = workQueue[i]
      BY DEF QueueOK
    <3>2. heap'[workQueue[i].mess] = heap[workQueue[i].mess]
      BY <1>2, <3>1 DEF Unheld, QueuedOK
    <3>3. ASSUME OwnCopy(workQueue[i].sent), NEW x \in Live'
          PROVE  objects'[x].mMessage # workQueue[i].mess
      <4>1. \A y \in Live : objects[y].mMessage # workQueue[i].mess
        BY <3>1, <3>3 DEF QueuedOK
      <4>2. CASE x = o
        BY <4>1, <4>2 DEF Unheld
      <4>3. CASE x # o
        BY <1>4, <4>1, <4>3
      <4> QED
        BY <4>2, <4>3
    <3> QED
      BY <3>1, <3>2, <3>3 DEF QueuedOK, OwnCopy
  <2> QED
    BY <2>1 DEF QueueOK
<1> QED
  BY <1>1, <1>6, <1>7

-----------------------------------------------------------------------------
(* What is left alone.                                                     *)

LEMMA WireKept ==
  ASSUME MessagesInv, UNCHANGED <<wire, links>>
  PROVE  WireOK'
<1>1. UNCHANGED <<sender, receiver, wire>>
  BY DEF links
<1> QED
  BY <1>1 DEF MessagesInv, WireOK, WiredOK, OwnCopy

LEMMA CountersKept ==
  ASSUME MessagesInv, UNCHANGED <<producer, links, sends, ids, fault>>
  PROVE  CountersOK'
<1>1. UNCHANGED <<sender, receiver>>
  BY DEF links
<1> QED
  BY <1>1 DEF MessagesInv, CountersOK

LEMMA HeldKept ==
  ASSUME MessagesInv, UNCHANGED <<heap, objects, links, workQueue>>
  PROVE  HeapOK' /\ ObjectsOK' /\ QueueOK'
<1>0. UNCHANGED <<sender, receiver>>
  BY DEF links
<1>1. HeapOK'
  BY DEF MessagesInv, HeapOK
<1>2. Live' = Live
  BY DEF Live
<1>3. ObjectsOK'
  <2>1. \A o \in Live : ObjectOK(o)'
    BY <1>0, ObjectKept DEF MessagesInv, ObjectsOK
  <2> QED
    BY <1>2, <2>1 DEF MessagesInv, ObjectsOK, Unshared
<1>4. ASSUME NEW i \in DOMAIN workQueue
      PROVE  QueuedOK(workQueue[i])'
  <2>1. QueuedOK(workQueue[i])
    BY DEF MessagesInv, QueueOK
  <2> QED
    BY <1>0, <1>2, <2>1 DEF QueuedOK, OwnCopy
<1>5. QueueOK'
  BY <1>4 DEF MessagesInv, QueueOK
<1> QED
  BY <1>1, <1>3, <1>5

LEMMA NothingChanges ==
  ASSUME MessagesInv, UNCHANGED vars
  PROVE  MessagesInv'
<1>1. UNCHANGED <<heap, objects, producer, links, workQueue, wire, sends, ids, fault>>
  BY DEF vars, network
<1> QED
  BY <1>1, WireKept, CountersKept, HeldKept DEF MessagesInv

-----------------------------------------------------------------------------
(* The setters of a message.                                               *)

(* What the application passes.                                            *)
LEMMA EditsPassable ==
  ASSUME NEW e \in Edits
  PROVE  Passable(e[1], e[2])
<1>1. /\ e[1] \in Headers
      /\ e[1] \in {"Destination", "ReplyTo"} => IsPointer(e[2])
      /\ e[1] = "ReplyTo" => e[2] # nullptr
  BY InterfaceAssumption DEF InterfaceAssumption
<1>2. e[1] = "MessageID" => Threw(MessageIdOf(e[2])) \/ LegalId(MessageIdOf(e[2]))
  <2>1. e[1] = "MessageID" => MessageIdOf(e[2]) \in GivenIds
    BY DEF GivenIds
  <2> QED
    BY <2>1, IdsAssumption DEF IdsAssumption
<1> QED
  BY <1>1, <1>2, PointerIs DEF Passable

(* The ghost of the request is given up with the correlation id.           *)
LEMMA SetAnswers ==
  ASSUME NEW header, NEW value, Passable(header, value), NEW t, NEW o, NEW n,
         DOMAIN o.mMessage = Fields, SetTo(header, value, t, o, n),
         n.request = o.request,
         IF header = "CorrelationID" THEN o.request = NoId ELSE Answers(o)
  PROVE  Answers(n)
<1>1. CASE header = "CorrelationID"
  BY <1>1 DEF Answers, Plain, NoId
<1>2. CASE header # "CorrelationID"
  <2>1. n.mMessage = Encoded(header, value, t, o.mMessage)
    BY DEF SetTo
  <2>2. SameBut(FieldsOf(header), o.mMessage, n.mMessage)
    BY <2>1, EncodedFields DEF Passable
  <2>3. n.mMessage.correlation_id = o.mMessage.correlation_id
    BY <1>2, <2>2, FieldsAre DEF SameBut, FieldsOf, Passable, Headers
  <2> QED
    BY <1>2, <2>3 DEF Answers
<1> QED
  BY <1>1, <1>2

LEMMA SetHeaderSafe ==
  ASSUME MessagesInv, NEW o \in Live, SetHeader(o)
  PROVE  MessagesInv'
<1>1. PICK e \in Edits :
        Edit(o, set(e[1], e[2], now,
                    IF e[1] = "CorrelationID" THEN [Load(o) EXCEPT !.request = NoId]
                                              ELSE Load(o)))
  BY DEF SetHeader
<1> DEFINE k == IF e[1] = "CorrelationID" THEN [Load(o) EXCEPT !.request = NoId]
                                          ELSE Load(o)
           n == set(e[1], e[2], now, k)
<1>2. /\ IsObject(Load(o)) /\ IsMessage(Load(o)) /\ LoadedOK(Load(o), receiver)
      /\ Load(o).class = objects[o].class
      /\ Load(o).mMessage = heap[objects[o].mMessage]
  BY Loaded
<1>3. /\ DOMAIN k = ObjectFields /\ k.class = Load(o).class
      /\ k.mMessage = Load(o).mMessage /\ k.mMessageBody = Load(o).mMessageBody
      /\ k.mMessageDelivery = Load(o).mMessageDelivery
      /\ k.mDestination = Load(o).mDestination /\ k.mReplyTo = Load(o).mReplyTo
      /\ k.request = IF e[1] = "CorrelationID" THEN NoId ELSE Load(o).request
  BY <1>2 DEF IsObject, ObjectFields
<1> HIDE DEF k
<1>4. IsObject(k) /\ IsMessage(k)
  BY <1>2, <1>3 DEF IsObject, IsMessage
<1>5. Passable(e[1], e[2])
  BY EditsPassable
<1>6. Sets(e[1], e[2], now, k, n)
  BY <1>4, <1>5, SetSafe
<1>7. PlainBody(k.mMessage) => PlainBody(Encoded(e[1], e[2], now, k.mMessage))
  BY <1>4, <1>5, EncodedReadable DEF IsMessage
<1>8. Edit(o, n)
  BY <1>1 DEF k
<1> HIDE DEF n
<1>9. /\ IsObject(n) /\ IsMessage(n) /\ n.class = objects[o].class
      /\ SetTo(e[1], e[2], now, k, n) /\ n.request = k.request
      /\ PlainBody(heap[objects[o].mMessage]) => PlainBody(n.mMessage)
  BY <1>2, <1>3, <1>6, <1>7 DEF Sets, SetTo, Alike
<1>10. ASSUME n.class # "CMSMessage"
       PROVE  Ours(n, receiver) /\ Answers(n)
  <2>1. Ours(k, receiver) /\ (e[1] # "CorrelationID" => Answers(k))
    BY <1>2, <1>3, <1>9, <1>10 DEF LoadedOK, Ours, Answers
  <2>2. DOMAIN k.mMessage = Fields
    BY <1>4 DEF IsMessage
  <2>3. Ours(n, receiver)
    BY <1>5, <1>9, <2>1, <2>2, SetOurs
  <2>4. Answers(n)
    BY <1>3, <1>5, <1>9, <2>1, <2>2, SetAnswers
  <2> QED
    BY <2>3, <2>4
<1>11. LoadedOK(n, receiver)
  BY <1>9, <1>10 DEF LoadedOK
<1> QED
  BY <1>8, <1>9, <1>11, StoreSafe

(* Nothing that is decoded or answered is in the properties.               *)
LEMMA PropertiesAside ==
  ASSUME NEW k, NEW n, LoadedOK(k, receiver), DOMAIN n = ObjectFields,
         \A f \in ObjectFields \ {"mMessage"} : n[f] = k[f],
         SameBut({"properties", "group_sequence", "group_id"}, k.mMessage, n.mMessage)
  PROVE  LoadedOK(n, receiver) /\ (PlainBody(k.mMessage) => PlainBody(n.mMessage))
<1>1. /\ DOMAIN n.mMessage = Fields
      /\ \A f \in {"reply_to", "annotations", "body", "content_type", "address", "id",
                   "correlation_id"} : n.mMessage[f] = k.mMessage[f]
  BY FieldsAre DEF SameBut
<1>2. /\ n.class = k.class /\ n.mMessageBody = k.mMessageBody
      /\ n.mMessageDelivery = k.mMessageDelivery /\ n.mDestination = k.mDestination
      /\ n.mReplyTo = k.mReplyTo /\ n.request = k.request
  BY DEF ObjectFields
<1>3. IsObject(n)
  BY <1>2 DEF LoadedOK, IsObject
<1>4. IsMessage(n)
  BY <1>1, <1>2 DEF LoadedOK, IsMessage, Intact, NoNull, PlainBody
<1>5. /\ Arrived(n.mMessage, receiver) = Arrived(k.mMessage, receiver)
      /\ decodedReplyTo(n.mMessage) = decodedReplyTo(k.mMessage)
  BY <1>1, DecodedAlike
<1>6. n.class # "CMSMessage" => Ours(n, receiver) /\ Answers(n)
  BY <1>1, <1>2, <1>5 DEF LoadedOK, Ours, Answers
<1> QED
  BY <1>1, <1>3, <1>4, <1>6 DEF LoadedOK, PlainBody

LEMMA SetPropertySafe ==
  ASSUME MessagesInv, NEW o \in Live, SetProperty(o)
  PROVE  MessagesInv'
<1> DEFINE k == Load(o)
           n == setProperty("INT", "p", 1, k)
           m == setAMQPProperty("INT", "p", 1, k.mMessage)
<1>1. Edit(o, n)
  BY DEF SetProperty
<1>2. /\ IsObject(k) /\ IsMessage(k) /\ LoadedOK(k, receiver)
      /\ k.class = objects[o].class /\ k.mMessage = heap[objects[o].mMessage]
  BY Loaded
<1> HIDE DEF k
<1>3. n = [k EXCEPT !.mMessage = m]
  BY <1>2 DEF IsObject, Classes, setProperty, CMSMessage_setProperty,
              CMSTextMessage_setProperty, CMSBytesMessage_setProperty
<1>4. SameBut({"properties", "group_sequence", "group_id"}, k.mMessage, m)
  BY <1>2, FieldsAre DEF IsMessage, SameBut, setAMQPProperty
<1> HIDE DEF n, m
<1>5. /\ DOMAIN n = ObjectFields /\ n.mMessage = m
      /\ \A f \in ObjectFields \ {"mMessage"} : n[f] = k[f]
  BY <1>2, <1>3, LoadIs DEF IsObject
<1>6. LoadedOK(n, receiver) /\ (PlainBody(k.mMessage) => PlainBody(n.mMessage))
  BY <1>2, <1>4, <1>5, PropertiesAside
<1>7. n.class = objects[o].class
  BY <1>2, <1>5 DEF ObjectFields
<1> QED
  BY <1>1, <1>2, <1>6, <1>7, StoreSafe

LEMMA ClearPropertiesSafe ==
  ASSUME MessagesInv, NEW o \in Live, ClearProperties(o)
  PROVE  MessagesInv'
<1> DEFINE k == Load(o)
           n == clearProperties(k)
           m == [k.mMessage EXCEPT !.properties = NoFields]
<1>1. Edit(o, n)
  BY DEF ClearProperties
<1>2. /\ IsObject(k) /\ IsMessage(k) /\ LoadedOK(k, receiver)
      /\ k.class = objects[o].class /\ k.mMessage = heap[objects[o].mMessage]
  BY Loaded
<1> HIDE DEF k
<1>3. n = [k EXCEPT !.mMessage = m]
  BY <1>2 DEF IsObject, ObjectFields, clearProperties
<1>4. SameBut({"properties", "group_sequence", "group_id"}, k.mMessage, m)
  BY <1>2, FieldsAre DEF IsMessage, SameBut
<1> HIDE DEF n, m
<1>5. /\ DOMAIN n = ObjectFields /\ n.mMessage = m
      /\ \A f \in ObjectFields \ {"mMessage"} : n[f] = k[f]
  BY <1>2, <1>3, LoadIs DEF IsObject
<1>6. LoadedOK(n, receiver) /\ (PlainBody(k.mMessage) => PlainBody(n.mMessage))
  BY <1>2, <1>4, <1>5, PropertiesAside
<1>7. n.class = objects[o].class
  BY <1>2, <1>5 DEF ObjectFields
<1> QED
  BY <1>1, <1>2, <1>6, <1>7, StoreSafe

LEMMA ClearBodySafe ==
  ASSUME MessagesInv, NEW o \in Live, ClearBody(o)
  PROVE  MessagesInv'
<1> DEFINE k == Load(o)
           n == [clearBody(k) EXCEPT !.request = NoId]
<1>1. Edit(o, n)
  BY DEF ClearBody
<1>2. IsObject(k) /\ k.class = objects[o].class
  BY Loaded
<1> HIDE DEF k
<1>3. /\ DOMAIN n = ObjectFields /\ n.class = k.class /\ n.mMessageBody = <<>>
      /\ n.mMessageDelivery = k.mMessageDelivery /\ n.mMessage = EmptyMessage
      /\ n.mDestination = k.mDestination /\ n.mReplyTo = k.mReplyTo
      /\ n.request = NoId
  BY <1>2 DEF IsObject, ObjectFields, clearBody
<1> HIDE DEF n
<1>4. IsObject(n)
  BY <1>2, <1>3 DEF IsObject
<1>5. IsMessage(n)
  BY <1>3, EmptySendable DEF IsMessage, Sendable
<1>6. /\ X_OPT_JMS_MESSAGE_TYPE \notin DOMAIN EmptyMessage.annotations
      /\ EmptyMessage.address = "" /\ EmptyMessage.reply_to = ""
  BY DEF EmptyMessage, NoFields
<1>7. Ours(n, receiver)
  BY <1>3, <1>6 DEF Ours, Addressed
<1>8. Answers(n)
  BY <1>3 DEF Answers, Plain, NoId
<1>9. LoadedOK(n, receiver) /\ PlainBody(n.mMessage)
  BY <1>3, <1>4, <1>5, <1>7, <1>8, EmptySendable DEF LoadedOK, Sendable
<1> QED
  BY <1>1, <1>2, <1>3, <1>9, StoreSafe

-----------------------------------------------------------------------------
(* New objects.                                                            *)

(* An object as a constructor makes it.                                    *)
IsFresh(o, link) ==
  /\ DOMAIN o = ObjectFields \ {"request"}
  /\ o.class \in Classes
  /\ o.mMessageBody # <<>> => o.class = "CMSBytesMessage"
  /\ o.mMessageDelivery \in {"null", "uninitialised", "copied", "borrowed"}
  /\ IsPointer(o.mDestination) /\ IsPointer(o.mReplyTo)
  /\ IsMessage(o)
  /\ o.class # "CMSMessage" => Ours(o, link)

LEMMA ConstructedFresh ==
  ASSUME NEW payload, NEW link
  PROVE  /\ IsFresh(newCMSMessage, link) /\ IsFresh(newCMSTextMessage(payload), link)
         /\ IsFresh(newCMSBytesMessage(payload), link)
<1>0. /\ DOMAIN DurableMessage = Fields /\ DurableMessage.reply_to = ""
      /\ DurableMessage.address = "" /\ DurableMessage.id = NoId
      /\ DurableMessage.content_type = "" /\ DurableMessage.annotations = NoFields
  BY FieldsAre DEF DurableMessage, EmptyMessage, Fields
<1>p. IsPointer(nullptr) /\ ~Addressed(nullptr)
  BY PointerIs, NullHasNoAddress
<1>i. ASSUME NEW m, DOMAIN m = Fields, m.reply_to = "", m.id = NoId
      PROVE  Intact(m)
  <2>1. NoId.type = "NULL"
    BY DEF NoId
  <2>2. m.id.type = "NULL"
    BY <1>i, <2>1
  <2>3. NoNull(m)
    BY <1>i DEF NoNull
  <2> QED
    BY <2>2, <2>3 DEF Intact, LegalId
<1>1. IsFresh(newCMSMessage, link)
  <2>1. Intact(DurableMessage)
    BY <1>0, <1>i
  <2> QED
    BY <1>0, <1>p, <2>1 DEF IsFresh, IsMessage, newCMSMessage, Object, ObjectFields, Classes,
              PlainBody, OCTET_STREAM
<1>2. IsFresh(newCMSTextMessage(payload), link)
  <2> DEFINE n == newCMSTextMessage(payload)
  <2>1. /\ DOMAIN n = ObjectFields \ {"request"} /\ n.class = "CMSTextMessage"
        /\ n.mMessageBody = <<>> /\ n.mMessageDelivery = "null"
        /\ n.mDestination = nullptr /\ n.mReplyTo = nullptr
        /\ n.mMessage = [DurableMessage EXCEPT
                           !.body = Text(payload),
                           !.annotations = Put(@, X_OPT_JMS_MESSAGE_TYPE, TEXT_MESSAGE)]
    BY DEF newCMSTextMessage, Object, ObjectFields
  <2> HIDE DEF n
  <2>2. /\ DOMAIN n.mMessage = Fields /\ n.mMessage.reply_to = ""
        /\ n.mMessage.content_type = "" /\ n.mMessage.id = NoId
    BY <1>0, <2>1, FieldsAre
  <2>3. Intact(n.mMessage)
    BY <1>i, <2>2
  <2>4. Ours(n, link)
    BY <1>p, <2>1, <2>2 DEF Ours, OCTET_STREAM
  <2>5. IsMessage(n)
    BY <2>2, <2>3 DEF IsMessage, PlainBody, OCTET_STREAM
  <2> QED
    BY <1>p, <2>1, <2>4, <2>5 DEF n, IsFresh, Classes
<1>3. IsFresh(newCMSBytesMessage(payload), link)
  <2> DEFINE n == newCMSBytesMessage(payload)
  <2>1. /\ DOMAIN n = ObjectFields \ {"request"} /\ n.class = "CMSBytesMessage"
        /\ n.mMessageDelivery = "uninitialised"
        /\ n.mDestination = nullptr /\ n.mReplyTo = nullptr
        /\ n.mMessage = [DurableMessage EXCEPT
                           !.annotations = Put(@, X_OPT_JMS_MESSAGE_TYPE, BYTES_MESSAGE),
                           !.content_type = OCTET_STREAM]
    BY DEF newCMSBytesMessage, setBodyBytes, emptyCMSBytesMessage, Object, ObjectFields
  <2> HIDE DEF n
  <2>2. /\ DOMAIN n.mMessage = Fields /\ n.mMessage.reply_to = ""
        /\ n.mMessage.content_type = OCTET_STREAM /\ n.mMessage.id = NoId
    BY <1>0, <2>1, FieldsAre
  <2>3. Intact(n.mMessage)
    BY <1>i, <2>2
  <2>4. Ours(n, link)
    BY <1>p, <2>1, <2>2 DEF Ours
  <2>5. IsMessage(n)
    BY <2>1, <2>2, <2>3 DEF IsMessage
  <2> QED
    BY <1>p, <2>1, <2>4, <2>5 DEF n, IsFresh, Classes
<1> QED
  BY <1>1, <1>2, <1>3

(* What arrives and can be read becomes a message that can be sent on.     *)
LEMMA ReceivedFresh ==
  ASSUME NEW m, DOMAIN m = Fields, LegalId(m.id), ~Unreadable(m), NEW link, LinkOK(link)
  PROVE  IsFresh(received(m, link), link)
<1>1. NoNull(m) /\ PlainBody(m)
  BY ReadableMeans
<1> DEFINE n == received(m, link)
<1>2. /\ DOMAIN n = ObjectFields \ {"request"} /\ n.mMessage = m
      /\ n.class = IF m.content_type = OCTET_STREAM THEN "CMSBytesMessage"
                                                    ELSE "CMSTextMessage"
      /\ n.mMessageBody = IF m.content_type = OCTET_STREAM THEN m.body.value ELSE <<>>
      /\ n.mMessageDelivery \in {"copied", "borrowed"}
      /\ n.mDestination = Arrived(m, link) /\ n.mReplyTo = decodedReplyTo(m)
  BY DEF received, receivedCMSTextMessage, receivedCMSBytesMessage, Object, ObjectFields,
         Arrived
<1> HIDE DEF n
<1>3. IsPointer(n.mDestination) /\ IsPointer(n.mReplyTo)
  BY <1>1, <1>2, ArrivedIs, DecodedReplyToIs
<1>4. Ours(n, link)
  BY <1>2 DEF Ours, equals
<1>5. IsMessage(n)
  BY <1>1, <1>2 DEF IsMessage, Intact
<1> QED
  BY <1>2, <1>3, <1>4, <1>5 DEF n, IsFresh, Classes

LEMMA SetFresh ==
  ASSUME NEW header, NEW value, Passable(header, value), NEW t, NEW o, NEW link,
         IsFresh(o, link)
  PROVE  LET n == set(header, value, t, o)
         IN  IsFresh(n, link) /\ SetTo(header, value, t, o, n)
<1>1. set(header, value, t, o) = CMSMessage_set(header, value, t, o)
  BY DEF IsFresh, Classes, set, CMSTextMessage_set, CMSBytesMessage_set
<1> DEFINE n == CMSMessage_set(header, value, t, o)
           m == Encoded(header, value, t, o.mMessage)
<1>2. DOMAIN n = ObjectFields \ {"request"} /\ SetTo(header, value, t, o, n)
  BY DEF IsFresh, ObjectFields, CMSMessage_set, SetTo
<1>3. SameBut(FieldsOf(header), o.mMessage, m)
  BY EncodedFields DEF IsFresh, IsMessage, Passable
<1>4. (Intact(o.mMessage) => Intact(m)) /\ (PlainBody(o.mMessage) => PlainBody(m))
  BY EncodedReadable DEF IsFresh, IsMessage
<1>m. n.mMessage = m /\ n.class = o.class
  BY <1>2 DEF SetTo
<1> HIDE DEF n, m
<1>5. IsPointer(n.mDestination) /\ IsPointer(n.mReplyTo)
  BY <1>2, PointerIs DEF SetTo, Passable, IsFresh
<1>6. IsMessage(n)
  BY <1>m, <1>3, <1>4 DEF IsFresh, IsMessage, SameBut
<1>7. n.class # "CMSMessage" => Ours(n, link)
  BY <1>2, <1>m, SetOurs DEF IsFresh, IsMessage
<1>8. IsFresh(n, link)
  BY <1>2, <1>5, <1>6, <1>7 DEF IsFresh, SetTo
<1> QED
  BY <1>1, <1>2, <1>8 DEF n

LEMMA AllocateSafe ==
  ASSUME MessagesInv, NEW o \in Objects, NEW object, IsFresh(object, receiver),
         NEW request, Plain(request) => SameId(object.mMessage.correlation_id, request),
         Allocate(o, object, request), UNCHANGED <<links, workQueue>>
  PROVE  HeapOK' /\ ObjectsOK' /\ QueueOK'
<1> DEFINE ref == NewRef
           n == [x \in DOMAIN object \cup {"request"} |->
                   IF x = "request" THEN request
                   ELSE IF x = "mMessage" THEN ref ELSE object[x]]
<1>1. /\ objects[o] = NoObject /\ Refs # Used
      /\ heap' = [heap EXCEPT ![ref] = object.mMessage]
      /\ objects' = [objects EXCEPT ![o] = n]
  BY DEF Allocate
<1>2. Unheld(ref) /\ ref \in Refs
  BY <1>1, NewRefUnheld DEF Unheld
<1> HIDE DEF ref
<1>3. /\ DOMAIN n = ObjectFields /\ n.mMessage = ref /\ n.request = request
      /\ n.class = object.class /\ n.mMessageBody = object.mMessageBody
      /\ n.mMessageDelivery = object.mMessageDelivery
      /\ n.mDestination = object.mDestination /\ n.mReplyTo = object.mReplyTo
  BY DEF IsFresh, ObjectFields
<1> HIDE DEF n
<1>4. DOMAIN heap = Refs /\ DOMAIN objects = Objects
  BY DEF MessagesInv, HeapOK, ObjectsOK
<1>5. heap'[ref] = object.mMessage /\ objects'[o] = n
  BY <1>1, <1>2, <1>4
<1>6. IsObject(n)
  BY <1>3 DEF IsFresh, IsObject
<1> DEFINE k == [n EXCEPT !.mMessage = object.mMessage]
<1>7. /\ DOMAIN k = ObjectFields /\ k.mMessage = object.mMessage
      /\ \A f \in ObjectFields \ {"mMessage"} : k[f] = n[f]
  BY <1>3, LoadIs
<1> HIDE DEF k
<1>8. LoadedOK(k, receiver)
  <2>1. /\ k.class = object.class /\ k.mMessageBody = object.mMessageBody
        /\ k.mMessageDelivery = object.mMessageDelivery
        /\ k.mDestination = object.mDestination /\ k.mReplyTo = object.mReplyTo
        /\ k.request = request
    BY <1>3, <1>7 DEF ObjectFields
  <2>2. IsObject(k)
    BY <1>7, <2>1 DEF IsObject, IsFresh
  <2>3. IsMessage(k)
    BY <1>7, <2>1 DEF IsMessage, IsFresh
  <2>4. k.class # "CMSMessage" => Ours(k, receiver)
    BY <1>7, <2>1 DEF Ours, IsFresh
  <2>5. Answers(k)
    BY <1>7, <2>1 DEF Answers
  <2> QED
    BY <2>2, <2>3, <2>4, <2>5 DEF LoadedOK
<1>9. LoadedOK([objects'[o] EXCEPT !.mMessage = heap'[ref]], receiver)
  BY <1>5, <1>8 DEF k
<1>10. /\ heap' = [heap EXCEPT ![ref] = heap'[ref]]
       /\ objects' = [objects EXCEPT ![o] = objects'[o]]
       /\ IsObject(objects'[o]) /\ objects'[o].mMessage = ref
       /\ UNCHANGED <<workQueue, sender, receiver>>
  BY <1>1, <1>3, <1>5, <1>6 DEF links
<1>11. HeapOK /\ ObjectsOK /\ QueueOK
  BY DEF MessagesInv
<1> QED
  BY <1>1, <1>2, <1>9, <1>10, <1>11, TakeRef

LEMMA CreateSafe ==
  ASSUME MessagesInv, NEW o \in Objects, Create(o)
  PROVE  MessagesInv'
<1>1. PICK payload \in Payloads : \E object \in Created(payload) : Allocate(o, object, NoId)
  BY DEF Create
<1>2. PICK object \in Created(payload) : Allocate(o, object, NoId)
  BY <1>1
<1>3. IsFresh(object, receiver)
  BY ConstructedFresh DEF Created
<1>4. UNCHANGED <<producer, links, workQueue, wire, sends, ids, fault>>
  BY DEF Create, network
<1>5. ~Plain(NoId)
  BY DEF Plain, NoId
<1> QED
  BY <1>2, <1>3, <1>4, <1>5, AllocateSafe, WireKept, CountersKept DEF MessagesInv

(* The id of a request comes back out of its printed form.                 *)
LEMMA RequestComesBack ==
  ASSUME NEW m, LegalId(m.id), Plain(m.id), ~Threw(CorrelationIdOf(getCMSMessageID(m)))
  PROVE  SameId(CorrelationIdOf(getCMSMessageID(m)), m.id)
<1> DEFINE s == getCMSMessageID(m)
<1>1. CASE m.id.type = "STRING"
  <2>1. s = m.id.value
    BY <1>1 DEF Plain, getCMSMessageID
  <2>2. ~HasTypePrefix(s)
    BY <1>1, <2>1 DEF Plain
  <2> HIDE DEF s
  <2>3. CASE s = <<"ID:", "AMQP_NO_PREFIX">>
    <3>1. prefixToType(s) = Throw("out_of_range")
      BY <2>3 DEF prefixToType
    <3>2. Threw(CorrelationIdOf(s))
      BY <3>1 DEF CorrelationIdOf, Throw, Threw
    <3> QED
      BY <3>2 DEF s
  <2>4. CASE s # <<"ID:", "AMQP_NO_PREFIX">>
    <3>1. prefixToType(s) = [type |-> "STRING", value |-> s]
      BY <2>2, <2>4 DEF prefixToType
    <3>2. CorrelationIdOf(s) = [type |-> "STRING", value |-> s]
      BY <3>1 DEF CorrelationIdOf
    <3> QED
      BY <1>1, <2>1, <3>2 DEF SameId, s
  <2> QED
    BY <2>3, <2>4
<1>p. ASSUME NEW prefix \in {"AMQP_UUID:", "AMQP_BINARY:", "AMQP_ULONG:"}, NEW t,
             s = <<"ID:", prefix, t>>
      PROVE  CorrelationIdOf(s) = TypedId(CASE prefix = "AMQP_BINARY:" -> "BINARY"
                                            [] prefix = "AMQP_UUID:" -> "UUID"
                                            [] prefix = "AMQP_ULONG:" -> "ULONG", t)
  <2> DEFINE type == CASE prefix = "AMQP_BINARY:" -> "BINARY"
                       [] prefix = "AMQP_UUID:" -> "UUID"
                       [] prefix = "AMQP_ULONG:" -> "ULONG"
  <2>1. /\ Len(s) = 3 /\ s[1] = "ID:" /\ s[2] = prefix /\ s[3] = t
        /\ s # <<"ID:", "AMQP_NO_PREFIX">> /\ SubSeq(s, 3, 3)[1] = s[3]
    <3> HIDE DEF s
    <3>1. Len(s) = 3 /\ s[1] = "ID:" /\ s[2] = prefix /\ s[3] = t
      BY <1>p
    <3>2. Len(<<"ID:", "AMQP_NO_PREFIX">>) = 2
      OBVIOUS
    <3>3. SubSeq(s, 3, 3)[1] = s[3]
      BY <3>1
    <3> QED
      BY <3>1, <3>2, <3>3
  <2> HIDE DEF s
  <2>2. HasTypePrefix(s)
    BY <2>1 DEF HasTypePrefix, TypePrefixes
  <2>3. prefixToType(s) = [type |-> type, value |-> SubSeq(s, 3, 3)]
    BY <2>1, <2>2 DEF prefixToType
  <2>4. type \in {"BINARY", "UUID", "ULONG"}
    OBVIOUS
  <2> HIDE DEF type
  <2> QED
    BY <2>1, <2>3, <2>4 DEF CorrelationIdOf, type
<1>2. CASE m.id.type = "UUID"
  <2> DEFINE t == UuidString(m.id.value)
  <2>1. s = <<"ID:", "AMQP_UUID:", t>>
    BY <1>2 DEF getCMSMessageID, PrintedId
  <2>2. t \in Texts /\ Reading[t].hex = m.id.value /\ Reading[t].uuid
    BY <1>2 DEF LegalId, UuidString
  <2> HIDE DEF t, s
  <2>3. CorrelationIdOf(s) = TypedId("UUID", t)
    BY <1>p, <2>1
  <2>4. CorrelationIdOf(s) = [type |-> "UUID", value |-> m.id.value]
    BY <2>2, <2>3 DEF TypedId, hexStringToArray
  <2> QED
    BY <1>2, <2>4 DEF s, SameId
<1>3. CASE m.id.type = "BINARY"
  <2> DEFINE t == binaryArrayToHexString(m.id.value)
  <2>1. s = <<"ID:", "AMQP_BINARY:", t>>
    BY <1>3 DEF getCMSMessageID, PrintedId
  <2>2. t \in Texts /\ Reading[t].hex = m.id.value
    BY <1>3 DEF LegalId, binaryArrayToHexString
  <2>s. ~Threw(CorrelationIdOf(s))
    OBVIOUS
  <2> HIDE DEF t, s
  <2>3. CorrelationIdOf(s) = TypedId("BINARY", t)
    BY <1>p, <2>1
  <2>4. CorrelationIdOf(s) = hexStringToBinaryArray(t)
    BY <2>3 DEF TypedId
  <2>5. Threw(hexStringToBinaryArray(t))
        \/ hexStringToBinaryArray(t) = [type |-> "BINARY", value |-> Reading[t].hex]
    BY DEF hexStringToBinaryArray, Threw, Throw
  <2> QED
    BY <1>3, <2>2, <2>s, <2>4, <2>5 DEF s, SameId
<1>4. CASE m.id.type = "ULONG"
  <2> DEFINE t == ULongString(m.id.value)
  <2>1. s = <<"ID:", "AMQP_ULONG:", t>>
    BY <1>4 DEF getCMSMessageID, PrintedId
  <2>2. t \in Texts /\ Reading[t].ulong = m.id.value
    BY <1>4 DEF LegalId, ULongString
  <2>s. ~Threw(CorrelationIdOf(s))
    OBVIOUS
  <2> HIDE DEF t, s
  <2>3. CorrelationIdOf(s) = TypedId("ULONG", t)
    BY <1>p, <2>1
  <2>4. CorrelationIdOf(s) = stoul(t)
    BY <2>3 DEF TypedId
  <2>5. Threw(stoul(t)) \/ stoul(t) = [type |-> "ULONG", value |-> Reading[t].ulong]
    BY DEF stoul, Threw, Throw
  <2> QED
    BY <1>4, <2>2, <2>s, <2>4, <2>5 DEF s, SameId
<1> QED
  BY <1>1, <1>2, <1>3, <1>4 DEF Plain, LegalId

LEMMA ReplySafe ==
  ASSUME MessagesInv, NEW o \in Live, NEW p \in Objects, Reply(o, p)
  PROVE  MessagesInv'
<1> DEFINE id     == get("MessageID", Load(o))
           text   == newCMSTextMessage(<<"answer">>)
           answer == set("CorrelationID", id, now, text)
           to     == get("ReplyTo", Load(o))
           object == set("Destination", to, now, answer)
           m      == Load(o).mMessage
<1>1. /\ Allocate(p, object, m.id) /\ ~Threw(CorrelationIdOf(id))
      /\ UNCHANGED <<producer, links, workQueue, wire, sends, ids, fault>>
  BY DEF Reply, network
<1>2. IsObject(Load(o)) /\ IsMessage(Load(o))
  BY Loaded
<1>3. id = getCMSMessageID(m) /\ to = Load(o).mReplyTo
  BY <1>2, GetIs DEF IsObject
<1>4. Passable("CorrelationID", id) /\ Passable("Destination", to)
  <2>1. IsPointer(to)
    BY <1>2, <1>3 DEF IsObject
  <2> QED
    BY <2>1 DEF Passable, Headers
<1>5. IsFresh(text, receiver)
  BY ConstructedFresh
<1> HIDE DEF text, id, to
<1>6. IsFresh(answer, receiver) /\ SetTo("CorrelationID", id, now, text, answer)
  BY <1>4, <1>5, SetFresh
<1> HIDE DEF answer
<1>7. IsFresh(object, receiver) /\ SetTo("Destination", to, now, answer, object)
  BY <1>4, <1>6, SetFresh
<1> HIDE DEF object
<1>8. answer.mMessage.correlation_id = CorrelationIdOf(id)
  <2>1. answer.mMessage = setAMQPCorrelationID(id, text.mMessage)
    BY <1>6 DEF SetTo, Encoded
  <2>2. DOMAIN text.mMessage = Fields
    BY <1>5 DEF IsFresh, IsMessage
  <2> QED
    BY <1>1, <2>1, <2>2, FieldsAre DEF setAMQPCorrelationID
<1>9. object.mMessage.correlation_id = answer.mMessage.correlation_id
  <2>1. DOMAIN answer.mMessage = Fields
    BY <1>6 DEF IsFresh, IsMessage
  <2>2. SameBut(FieldsOf("Destination"), answer.mMessage, object.mMessage)
    BY <1>7, <2>1, EncodedFields DEF SetTo, Headers
  <2> QED
    BY <2>2, FieldsAre DEF SameBut, FieldsOf
<1>10. Plain(m.id) => SameId(object.mMessage.correlation_id, m.id)
  <2>1. LegalId(m.id)
    BY <1>2 DEF IsMessage, Intact
  <2> HIDE DEF m
  <2> QED
    BY <1>1, <1>3, <1>8, <1>9, <2>1, RequestComesBack
<1> HIDE DEF m
<1>11. UNCHANGED <<links, workQueue>>
  BY <1>1
<1>12. HeapOK' /\ ObjectsOK' /\ QueueOK'
  BY <1>1, <1>7, <1>10, <1>11, AllocateSafe
<1> QED
  BY <1>1, <1>12, WireKept, CountersKept DEF MessagesInv

LEMMA CloneStepSafe ==
  ASSUME MessagesInv, NEW o \in Live, NEW p \in Objects, Clone(o, p)
  PROVE  MessagesInv'
<1> DEFINE ref == CloneRef(o)
           c   == clone(objects[o])
           n   == [c EXCEPT !.mMessage = ref]
           own == objects[o].mMessage
<1>0. /\ o \in Objects /\ ObjectOK(o) /\ DOMAIN heap = Refs /\ DOMAIN objects = Objects
      /\ Unshared
  BY DEF Live, MessagesInv, HeapOK, ObjectsOK
<1>1. /\ objects[p] = NoObject /\ Refs # Used
      /\ heap' = [heap EXCEPT ![ref] = heap[own]]
      /\ objects' = [objects EXCEPT ![p] = n]
      /\ UNCHANGED <<producer, links, workQueue, wire, sends, ids, fault>>
  BY DEF Clone, network
<1>l. UNCHANGED <<sender, receiver>>
  BY <1>1 DEF links
<1>2. /\ Alike(objects[o], c) /\ c.mDestination = objects[o].mDestination
      /\ c.request = objects[o].request /\ c.mReplyTo \in {objects[o].mReplyTo, nullptr}
  BY <1>0, CloneSafe DEF ObjectOK
<1> HIDE DEF c
<1>3. /\ DOMAIN n = ObjectFields /\ n.mMessage = ref
      /\ \A f \in ObjectFields \ {"mMessage"} : n[f] = c[f]
  BY <1>2, LoadIs DEF Alike, IsObject
<1> HIDE DEF n
<1>4. IsObject(n) /\ n.class = objects[o].class
  BY <1>2, <1>3 DEF Alike, IsObject, ObjectFields
<1>5. own \in Refs
  BY <1>0 DEF ObjectOK
<1>6. ref \in Refs /\ (Unheld(ref) \/ (ref = own /\ objects[o].class = "CMSMessage"))
  BY <1>1, <1>5, NewRefUnheld DEF CloneRef, Unheld
<1> HIDE DEF ref
<1>7. heap'[ref] = heap[own] /\ objects'[p] = n
  BY <1>0, <1>1, <1>6
<1>8. \/ Unheld(ref)
      \/ /\ \E x \in Live : objects[x].mMessage = ref
         /\ \A x \in Live : objects[x].mMessage = ref => objects[x].class = "CMSMessage"
         /\ objects'[p].class = "CMSMessage"
         /\ heap'[ref] = heap[ref]
  <2>1. ASSUME ref = own, objects[o].class = "CMSMessage"
        PROVE  \A x \in Live : objects[x].mMessage = ref => objects[x].class = "CMSMessage"
    BY <1>0, <2>1 DEF Unshared
  <2> QED
    BY <1>4, <1>6, <1>7, <2>1
<1> DEFINE k == [n EXCEPT !.mMessage = heap[own]]
<1>9. /\ DOMAIN k = ObjectFields /\ k.mMessage = heap[own]
      /\ \A f \in ObjectFields \ {"mMessage"} : k[f] = n[f]
  BY <1>3, LoadIs
<1> HIDE DEF k
<1>10. LoadedOK(k, receiver)
  <2> DEFINE l == Load(o)
  <2>1. LoadedOK(l, receiver) /\ l.mMessage = heap[own] /\ l.class = objects[o].class
    BY Loaded
  <2>2. \A f \in ObjectFields \ {"mMessage"} : l[f] = objects[o][f]
    BY <1>0, LoadIs DEF ObjectOK, IsObject, Load
  <2> HIDE DEF l
  <2>3. /\ k.class = l.class /\ k.mMessage = l.mMessage
        /\ k.mDestination = l.mDestination /\ k.mReplyTo \in {l.mReplyTo, nullptr}
        /\ k.request = l.request
    BY <1>2, <1>3, <1>4, <1>9, <2>1, <2>2 DEF ObjectFields
  <2>4. IsObject(k)
    BY <1>4, <1>9 DEF IsObject, ObjectFields
  <2>5. IsMessage(k)
    BY <2>1, <2>3 DEF LoadedOK, IsMessage
  <2>6. Ours(l, receiver) => Ours(k, receiver)
    BY <2>3, CloneOurs
  <2> QED
    BY <2>1, <2>3, <2>4, <2>5, <2>6 DEF LoadedOK, Answers
<1>11. LoadedOK([objects'[p] EXCEPT !.mMessage = heap'[ref]], receiver)
  BY <1>7, <1>10 DEF k
<1>12. HeapOK' /\ ObjectsOK' /\ QueueOK'
  <2>1. HeapOK /\ ObjectsOK /\ QueueOK
    BY DEF MessagesInv
  <2>2. /\ heap' = [heap EXCEPT ![ref] = heap'[ref]]
        /\ objects' = [objects EXCEPT ![p] = objects'[p]]
        /\ IsObject(objects'[p]) /\ objects'[p].mMessage = ref
        /\ UNCHANGED <<workQueue, sender, receiver>>
    BY <1>1, <1>l, <1>3, <1>4, <1>7
  <2> QED
    BY <1>1, <1>6, <1>8, <1>11, <2>1, <2>2, TakeRef
<1> QED
  BY <1>1, <1>12, WireKept, CountersKept DEF MessagesInv

-----------------------------------------------------------------------------
(* Deleted objects and sends that are done: what nobody holds is freed.    *)

LEMMA ReleaseSafe ==
  ASSUME MessagesInv, Release, DOMAIN objects' = Objects, UNCHANGED links,
         \A x \in Live' : x \in Live /\ objects'[x] = objects[x],
         IsSeq(workQueue'),
         \A i \in DOMAIN workQueue' : \E j \in DOMAIN workQueue : workQueue'[i] = workQueue[j]
  PROVE  HeapOK' /\ ObjectsOK' /\ QueueOK'
<1>0. UNCHANGED <<sender, receiver>>
  BY DEF links
<1>1. heap' = [r \in Refs |-> IF r \in Used' THEN heap[r] ELSE EmptyMessage]
  BY DEF Release
<1>2. DOMAIN EmptyMessage = Fields /\ Intact(EmptyMessage)
  BY EmptySendable DEF Sendable
<1>3. HeapOK'
  BY <1>1, <1>2 DEF MessagesInv, HeapOK
<1>4. \A x \in Live' : objects'[x].mMessage \in Used'
  BY DEF Used
<1>5. \A i \in DOMAIN workQueue' : workQueue'[i].mess \in Used'
  BY DEF Used
<1>6. ObjectsOK'
  <2>1. ASSUME NEW x \in Live'
        PROVE  ObjectOK(x)'
    <3>1. ObjectOK(x) /\ objects'[x] = objects[x]
      BY DEF MessagesInv, ObjectsOK
    <3>2. heap'[objects[x].mMessage] = heap[objects[x].mMessage]
      BY <1>1, <1>4, <3>1 DEF ObjectOK
    <3> QED
      BY <1>0, <3>1, <3>2, ObjectKept
  <2>2. Unshared'
    BY DEF MessagesInv, ObjectsOK, Unshared
  <2> QED
    BY <2>1, <2>2 DEF ObjectsOK
<1>7. ASSUME NEW i \in DOMAIN workQueue'
      PROVE  QueuedOK(workQueue[i])'
  <2>1. PICK j \in DOMAIN workQueue : workQueue'[i] = workQueue[j]
    OBVIOUS
  <2> DEFINE w == workQueue[j]
  <2>2. QueuedOK(w)
    BY DEF MessagesInv, QueueOK
  <2>3. workQueue'[i] = w
    BY <2>1
  <2> HIDE DEF w
  <2>4. heap'[w.mess] = heap[w.mess]
    BY <1>1, <1>5, <2>2, <2>3 DEF QueuedOK
  <2>5. OwnCopy(w.sent) => \A x \in Live' : objects'[x].mMessage # w.mess
    BY <2>2 DEF QueuedOK
  <2> QED
    BY <1>0, <2>2, <2>3, <2>4, <2>5 DEF QueuedOK, OwnCopy
<1>8. QueueOK'
  BY <1>7 DEF QueueOK
<1> QED
  BY <1>3, <1>6, <1>8

LEMMA DeleteSafe ==
  ASSUME MessagesInv, NEW o \in Live, Delete(o)
  PROVE  MessagesInv'
<1>1. /\ objects' = [objects EXCEPT ![o] = NoObject]
      /\ Release
      /\ UNCHANGED <<producer, links, workQueue, wire, sends, ids, fault>>
  BY DEF Delete
<1>2. o \in Objects /\ DOMAIN objects = Objects /\ IsSeq(workQueue)
  BY DEF Live, MessagesInv, ObjectsOK, QueueOK
<1>3. /\ DOMAIN objects' = Objects /\ objects'[o] = NoObject
      /\ \A x \in Objects \ {o} : objects'[x] = objects[x]
  BY <1>1, <1>2
<1>4. \A x \in Live' : x \in Live /\ objects'[x] = objects[x]
  BY <1>3 DEF Live
<1>5. HeapOK' /\ ObjectsOK' /\ QueueOK'
  BY <1>1, <1>2, <1>3, <1>4, ReleaseSafe
<1> QED
  BY <1>1, <1>5, WireKept, CountersKept DEF MessagesInv

LEMMA TransmitSafe ==
  ASSUME MessagesInv, Transmit
  PROVE  MessagesInv'
<1> DEFINE w == Head(workQueue)
           p == [m |-> heap[w.mess], sent |-> w.sent, earlier |-> used]
<1>1. /\ workQueue # <<>>
      /\ wire' = Append(wire, p)
      /\ workQueue' = Tail(workQueue)
      /\ Release
      /\ UNCHANGED <<objects, producer, links, sends, ids, fault>>
  BY DEF Transmit
<1>2. IsSeq(workQueue) /\ IsSeq(wire)
  BY DEF MessagesInv, QueueOK, WireOK
<1>3. /\ IsSeq(workQueue') /\ 1 \in DOMAIN workQueue /\ w = workQueue[1]
      /\ \A i \in DOMAIN workQueue' : i + 1 \in DOMAIN workQueue
                                      /\ workQueue'[i] = workQueue[i + 1]
  BY <1>1, <1>2, SeqTail
<1>4. QueuedOK(w)
  BY <1>3 DEF MessagesInv, QueueOK
<1>5. WiredOK(p)
  <2>1. Sendable(p.m) /\ p.sent = w.sent /\ p.m = heap[w.mess]
    BY <1>4 DEF QueuedOK
  <2> HIDE DEF p
  <2>2. ~Unreadable(p.m) /\ LegalId(p.m.id) /\ DOMAIN p.m = Fields
    BY <2>1, ReadableMeans DEF Sendable, Intact
  <2> QED
    BY <1>4, <2>1, <2>2 DEF WiredOK, QueuedOK
<1> HIDE DEF p, w
<1>6. WireOK'
  <2>1. /\ IsSeq(wire') /\ DOMAIN wire' = DOMAIN wire \cup {Len(wire) + 1}
        /\ \A i \in DOMAIN wire : wire'[i] = wire[i]
        /\ wire'[Len(wire) + 1] = p
    BY <1>1, <1>2, SeqAppend
  <2>2. \A i \in DOMAIN wire : WiredOK(wire[i])
    BY DEF MessagesInv, WireOK
  <2>3. \A i \in DOMAIN wire' : WiredOK(wire'[i])
    BY <1>5, <2>1, <2>2
  <2>4. UNCHANGED <<sender, receiver>>
    BY <1>1 DEF links
  <2> QED
    BY <2>1, <2>3, <2>4 DEF WireOK, WiredOK, OwnCopy
<1>7. HeapOK' /\ ObjectsOK' /\ QueueOK'
  <2>1. DOMAIN objects' = Objects /\ \A x \in Live' : x \in Live /\ objects'[x] = objects[x]
    BY <1>1 DEF Live, MessagesInv, ObjectsOK
  <2>2. \A i \in DOMAIN workQueue' : \E j \in DOMAIN workQueue : workQueue'[i] = workQueue[j]
    BY <1>3
  <2> QED
    BY <1>1, <1>3, <2>1, <2>2, ReleaseSafe
<1> QED
  BY <1>1, <1>6, <1>7, CountersKept DEF MessagesInv

-----------------------------------------------------------------------------
(* send()                                                                  *)

(* Only a message without an id prints none.                               *)
LEMMA PrintedNothing ==
  ASSUME NEW m, LegalId(m.id)
  PROVE  getCMSMessageID(m) = <<>> <=> m.id.type = "NULL"
<1>0. ASSUME NEW x, NEW y, NEW z
      PROVE  <<x, y, z>> # <<>>
  OBVIOUS
<1>1. CASE m.id.type = "NULL"
  BY <1>1 DEF getCMSMessageID, PrintedId
<1>2. CASE m.id.type \in {"UUID", "BINARY", "ULONG"}
  BY <1>0, <1>2 DEF getCMSMessageID, PrintedId
<1>3. CASE m.id.type = "STRING"
  <2> DEFINE v == m.id.value
             S == {v[i] : i \in DOMAIN v} \cup {"ID:", "AMQP_STRING:", "AMQP_NO_PREFIX:"}
  <2>1. v # <<>> /\ v \in Seq(S)
    BY <1>3 DEF LegalId, IsText
  <2>2. \/ getCMSMessageID(m) = <<"ID:", "AMQP_STRING:">> \o v
        \/ getCMSMessageID(m) = <<"ID:", "AMQP_NO_PREFIX:">> \o v
        \/ getCMSMessageID(m) = v
    BY <1>3 DEF getCMSMessageID
  <2>3. {"ID:", "AMQP_STRING:", "AMQP_NO_PREFIX:"} \subseteq S
    OBVIOUS
  <2> HIDE DEF v, S
  <2>4. ASSUME NEW x \in S, NEW y \in S
        PROVE  <<x, y>> \o v # <<>>
    <3>1. <<x, y>> \in Seq(S) /\ Len(<<x, y>>) = 2
      OBVIOUS
    <3>2. Len(<<x, y>> \o v) = 2 + Len(v) /\ Len(v) \in Nat
      BY <2>1, <3>1
    <3>3. Len(<<>>) = 0
      OBVIOUS
    <3> QED
      BY <3>2, <3>3
  <2> QED
    BY <1>3, <2>1, <2>2, <2>3, <2>4
<1> QED
  BY <1>1, <1>2, <1>3 DEF LegalId

(* A call of send() that is enabled: the AMQP message mess waits for the   *)
(* container's thread, s is the record of the call.                        *)
SendsAs(o, mess, s) ==
  /\ sends < MaxSends /\ Refs # Used /\ sends' = sends + 1
  /\ ids' = IF NeedsId(Load(o)) THEN ids + 1 ELSE ids
  /\ heap' = [heap EXCEPT ![CloneRef(o)] = mess]
  /\ workQueue' = Append(workQueue, [mess |-> CloneRef(o), sent |-> s])
  /\ UNCHANGED <<objects, producer, sender, receiver, wire, used, fault>>
  /\ s.own /\ s.o.class = objects[o].class
  /\ Sendable(mess) /\ (OwnCopy(s) => Promised(mess, s, sender, receiver))
  /\ NeedsId(Load(o)) <=> ~s.by.mMessageIdDisabed /\ s.o.mMessage.id.type = "NULL"
  /\ IF NeedsId(Load(o))
     THEN ids + 1 \in DOMAIN Uuids /\ mess.id = [type |-> "STRING", value |-> NewId]
     ELSE mess.id = heap[objects[o].mMessage].id

LEMMA SendMeans ==
  ASSUME MessagesInv, NEW o \in Live, NEW d, IsPointer(d), NEW mode, NEW p \in Int, NEW ttl,
         Send(o, d, mode, p, ttl)
  PROVE  \E mess, s : SendsAs(o, mess, s)
<1> DEFINE l    == Load(o)
           mess == from_cms_message(Stamped(clone(l), d, mode, p, ttl))
           s    == [own |-> TRUE, o |-> l, destination |-> d, mode |-> mode,
                    priority |-> p, ttl |-> ttl, at |-> now, by |-> producer]
<1>1. /\ sends < MaxSends /\ Refs # Used /\ sends' = sends + 1
      /\ NeedsId(l) => ids < Len(Uuids)
      /\ ids' = IF NeedsId(l) THEN ids + 1 ELSE ids
      /\ heap' = [heap EXCEPT ![CloneRef(o)] = mess]
      /\ workQueue' = Append(workQueue, [mess |-> CloneRef(o), sent |-> s])
      /\ UNCHANGED <<objects, producer, sender, receiver, wire, used, fault>>
  BY DEF Send, links
<1>2. /\ o \in Objects /\ IsObject(l) /\ IsMessage(l) /\ LoadedOK(l, receiver)
      /\ l.class = objects[o].class /\ l.mMessage = heap[objects[o].mMessage]
  BY Loaded
<1>c. /\ LinkOK(sender) /\ LinkOK(receiver) /\ ids \in 0..Len(Uuids) /\ ids \in Nat
      /\ Len(Uuids) \in Nat /\ DOMAIN Uuids = 1..Len(Uuids)
  BY MessagesAssumption DEF MessagesAssumption, MessagesInv, CountersOK
<1>s. /\ s.own /\ s.o = l /\ s.destination = d /\ s.mode = mode /\ s.priority = p
      /\ s.ttl = ttl /\ s.at = now /\ s.by = producer
  OBVIOUS
<1> HIDE DEF l, s
<1>3. /\ Sendable(mess) /\ AsSet(mess, s)
      /\ RoutedTo(l.mMessage, l.mDestination, d, LinkDestination(sender), mess)
      /\ mess.id = IF NeedsId(l) THEN [type |-> "STRING", value |-> NewId]
                                 ELSE l.mMessage.id
  BY <1>1, <1>2, <1>c, <1>s, SentSafe
<1> HIDE DEF mess
<1>n. NeedsId(l) <=> ~producer.mMessageIdDisabed /\ l.mMessage.id.type = "NULL"
  <2>1. LegalId(l.mMessage.id)
    BY <1>2 DEF IsMessage, Intact
  <2> QED
    BY <1>2, <2>1, PrintedNothing, GetIs DEF NeedsId, IsObject
<1>m. NeedsId(l) => ids + 1 \in DOMAIN Uuids
  BY <1>1, <1>c
<1>i. WithId(mess, s)
  <2>1. NeedsId(l) => mess.id \in Generated
    BY <1>3, <1>m DEF Generated, NewId
  <2> QED
    BY <1>3, <1>n, <1>s, <2>1 DEF WithId
<1>p. OwnCopy(s) => Promised(mess, s, sender, receiver)
  <2> SUFFICES ASSUME l.class # "CMSMessage"
               PROVE  Promised(mess, s, sender, receiver)
    BY <1>s DEF OwnCopy
  <2>1. Ours(l, receiver) /\ Answers(s.o)
    BY <1>2, <1>s DEF LoadedOK
  <2>2. Arrives(mess, s, sender, receiver)
    BY <1>2, <1>3, <1>s, <2>1, ArrivesSafe
  <2> QED
    BY <1>3, <1>i, <2>1, <2>2 DEF Promised
<1>4. SendsAs(o, mess, s)
  BY <1>1, <1>2, <1>3, <1>m, <1>n, <1>p, <1>s DEF SendsAs, l
<1> QED
  BY <1>4

LEMMA SendSafe ==
  ASSUME MessagesInv, NEW o \in Live, NEW d, IsPointer(d), NEW mode, NEW p \in Int, NEW ttl,
         Send(o, d, mode, p, ttl)
  PROVE  MessagesInv'
<1> PICK mess, s : SendsAs(o, mess, s)
  BY SendMeans
<1> DEFINE ref == CloneRef(o)
           w   == [mess |-> ref, sent |-> s]
<1>1. /\ sends < MaxSends /\ Refs # Used /\ sends' = sends + 1
      /\ ids' \in 0..Len(Uuids)
      /\ heap' = [heap EXCEPT ![ref] = mess]
      /\ workQueue' = Append(workQueue, w)
      /\ UNCHANGED <<objects, producer, sender, receiver, wire, fault>>
  <2>1. ids \in 0..Len(Uuids) /\ Len(Uuids) \in Nat /\ DOMAIN Uuids = 1..Len(Uuids)
    BY MessagesAssumption DEF MessagesAssumption, MessagesInv, CountersOK
  <2> QED
    BY <2>1 DEF SendsAs
<1>w. w.mess = ref /\ w.sent = s
  OBVIOUS
<1>3. Sendable(mess) /\ (OwnCopy(s) => Promised(mess, s, sender, receiver))
  BY DEF SendsAs
<1> HIDE DEF w
<1>4. Unheld(NewRef)
  BY <1>1, NewRefUnheld DEF Unheld
<1>5. ref \in Refs /\ (objects[o].class # "CMSMessage" => Unheld(ref))
  BY <1>4 DEF CloneRef, Unheld, Live, MessagesInv, ObjectsOK, ObjectOK
<1>6. \/ Unheld(ref)
      \/ /\ \E x \in Live : objects[x].mMessage = ref
         /\ \A x \in Live : objects[x].mMessage = ref => objects[x].class = "CMSMessage"
  <2>1. CASE objects[o].class = "CMSMessage"
    BY <2>1 DEF CloneRef, MessagesInv, ObjectsOK, Unshared
  <2>2. CASE objects[o].class # "CMSMessage"
    BY <1>5, <2>2
  <2> QED
    BY <2>1, <2>2
<1>7. s.o.class = objects[o].class
  BY DEF SendsAs
<1> HIDE DEF ref
<1>8. /\ heap'[ref] = mess /\ \A r \in Refs \ {ref} : heap'[r] = heap[r]
      /\ DOMAIN heap' = Refs
  BY <1>1, <1>5 DEF MessagesInv, HeapOK
<1>9. HeapOK'
  BY <1>3, <1>8 DEF MessagesInv, HeapOK, Sendable
<1>10. Live' = Live
  BY <1>1 DEF Live
<1>11. ObjectsOK'
  <2>1. ASSUME NEW x \in Live
        PROVE  ObjectOK(x)'
    <3>1. ObjectOK(x)
      BY DEF MessagesInv, ObjectsOK
    <3>2. CASE objects[x].mMessage # ref
      <4>1. heap'[objects[x].mMessage] = heap[objects[x].mMessage]
        BY <1>8, <3>1, <3>2 DEF ObjectOK
      <4> QED
        BY <1>1, <3>1, <4>1, ObjectKept
    <3>3. CASE objects[x].mMessage = ref
      <4>1. objects[x].class = "CMSMessage"
        BY <1>6, <3>3 DEF Unheld
      <4>2. Load(x)' = [objects[x] EXCEPT !.mMessage = mess]
        BY <1>1, <1>8, <3>3 DEF Load
      <4>3. IsObject(objects[x]) /\ DOMAIN objects[x] = ObjectFields
        BY <3>1 DEF ObjectOK, IsObject
      <4>4. /\ DOMAIN Load(x)' = ObjectFields /\ Load(x)'.mMessage = mess
            /\ \A f \in ObjectFields \ {"mMessage"} : Load(x)'[f] = objects[x][f]
        BY <4>2, <4>3, LoadIs
      <4>5. IsObject(Load(x)') /\ Load(x)'.class = "CMSMessage"
        BY <4>1, <4>3, <4>4 DEF IsObject, ObjectFields
      <4>6. LoadedOK(Load(x)', receiver')
        BY <1>3, <4>4, <4>5 DEF LoadedOK, IsMessage, Sendable
      <4> QED
        BY <1>1, <3>1, <4>6 DEF ObjectOK
    <3> QED
      BY <3>2, <3>3
  <2>2. Unshared'
    BY <1>1, <1>10 DEF MessagesInv, ObjectsOK, Unshared
  <2> QED
    BY <1>1, <1>10, <2>1, <2>2 DEF MessagesInv, ObjectsOK
<1>12. ASSUME NEW v, \/ QueuedOK(v) /\ \E i \in DOMAIN workQueue : v = workQueue[i]
                     \/ v = w
       PROVE  /\ v.mess \in Refs /\ Sendable(heap'[v.mess])
              /\ OwnCopy(v.sent) => /\ Promised(heap'[v.mess], v.sent, sender, receiver)
                                    /\ \A x \in Live : objects[x].mMessage # v.mess
  <2>1. CASE v = w
    <3>1. OwnCopy(s) => Unheld(ref)
      BY <1>5, <1>7 DEF OwnCopy
    <3> QED
      BY <1>3, <1>5, <1>w, <1>8, <2>1, <3>1 DEF Unheld
  <2>2. CASE QueuedOK(v) /\ v.mess # ref
    BY <1>8, <2>2 DEF QueuedOK
  <2>3. CASE /\ QueuedOK(v) /\ v.mess = ref
             /\ \E i \in DOMAIN workQueue : v = workQueue[i]
    <3>1. ~Unheld(ref)
      BY <2>3 DEF Unheld
    <3>2. ~OwnCopy(v.sent)
      BY <1>6, <2>3, <3>1 DEF QueuedOK
    <3> QED
      BY <1>3, <1>5, <1>8, <2>3, <3>2
  <2> QED
    BY <1>12, <2>1, <2>2, <2>3
<1>13. QueueOK'
  <2>1. IsSeq(workQueue)
    BY DEF MessagesInv, QueueOK
  <2>2. /\ IsSeq(workQueue') /\ DOMAIN workQueue' = DOMAIN workQueue \cup {Len(workQueue) + 1}
        /\ \A i \in DOMAIN workQueue : workQueue'[i] = workQueue[i]
        /\ workQueue'[Len(workQueue) + 1] = w
    BY <1>1, <2>1, SeqAppend
  <2>3. \A i \in DOMAIN workQueue : QueuedOK(workQueue[i])
    BY DEF MessagesInv, QueueOK
  <2>4. ASSUME NEW i \in DOMAIN workQueue'
        PROVE  QueuedOK(workQueue[i])'
    <3> DEFINE v == workQueue'[i]
    <3>1. \/ QueuedOK(v) /\ \E k \in DOMAIN workQueue : v = workQueue[k]
          \/ v = w
      BY <2>2, <2>3
    <3> HIDE DEF v
    <3>2. /\ v.mess \in Refs /\ Sendable(heap'[v.mess])
          /\ OwnCopy(v.sent) => /\ Promised(heap'[v.mess], v.sent, sender, receiver)
                                /\ \A x \in Live : objects[x].mMessage # v.mess
      BY <1>12, <3>1
    <3> QED
      BY <1>1, <1>10, <3>2 DEF v, QueuedOK, OwnCopy
  <2> QED
    BY <2>2, <2>4 DEF QueueOK
<1>14. CountersOK'
  BY <1>1, MessagesAssumption DEF MessagesAssumption, MessagesInv, CountersOK
<1>15. WireOK'
  BY <1>1 DEF MessagesInv, WireOK, WiredOK, OwnCopy
<1> QED
  BY <1>9, <1>11, <1>13, <1>14, <1>15 DEF MessagesInv

-----------------------------------------------------------------------------
(* The consumer, and the steps that leave the messages alone.              *)

LEMMA OnMessageSafe ==
  ASSUME MessagesInv, on_message
  PROVE  MessagesInv'
<1> DEFINE m == Head(wire).m
<1>1. /\ wire # <<>> /\ wire' = Tail(wire)
      /\ UNCHANGED <<producer, links, sender, receiver, workQueue, sends, ids>>
  BY DEF on_message, links
<1>2. /\ IsSeq(wire') /\ 1 \in DOMAIN wire /\ Head(wire) = wire[1]
      /\ \A i \in DOMAIN wire' : i + 1 \in DOMAIN wire /\ wire'[i] = wire[i + 1]
  BY <1>1, SeqTail DEF MessagesInv, WireOK
<1>3. \A i \in DOMAIN wire : WiredOK(wire[i])
  BY DEF MessagesInv, WireOK
<1>4. WireOK'
  BY <1>1, <1>2, <1>3 DEF WireOK, WiredOK, OwnCopy
<1>5. DOMAIN m = Fields /\ LegalId(m.id)
  BY <1>2, <1>3 DEF WiredOK
<1>6. \/ fault' = "container" /\ UNCHANGED <<heap, objects>>
      \/ UNCHANGED <<heap, objects, fault>>
      \/ /\ ~Unreadable(m) /\ UNCHANGED fault
         /\ \E o \in Objects : Allocate(o, received(m, receiver), NoId)
  BY DEF on_message
<1> HIDE DEF m
<1>7. fault' \in {"none", "badPointer", "container", "endlessRecursion"}
  BY <1>6 DEF MessagesInv, CountersOK
<1>8. CountersOK'
  BY <1>1, <1>7 DEF MessagesInv, CountersOK
<1>9. HeapOK' /\ ObjectsOK' /\ QueueOK'
  <2>1. CASE UNCHANGED <<heap, objects>>
    BY <1>1, <2>1, HeldKept
  <2>2. ASSUME ~Unreadable(m), NEW o \in Objects, Allocate(o, received(m, receiver), NoId)
        PROVE  HeapOK' /\ ObjectsOK' /\ QueueOK'
    <3>1. LinkOK(receiver)
      BY DEF MessagesInv, CountersOK
    <3>2. IsFresh(received(m, receiver), receiver)
      BY <1>5, <2>2, <3>1, ReceivedFresh
    <3>3. ~Plain(NoId)
      BY DEF Plain, NoId
    <3>4. UNCHANGED <<links, workQueue>>
      BY <1>1
    <3> QED
      BY <2>2, <3>2, <3>3, <3>4, AllocateSafe
  <2> QED
    BY <1>6, <2>1, <2>2
<1> QED
  BY <1>4, <1>8, <1>9 DEF MessagesInv

LEMMA SettingSafe ==
  ASSUME MessagesInv, NEW name \in DOMAIN DefaultSettings, Setting(name)
  PROVE  MessagesInv'
<1>1. PICK s \in Settings : s[1] = name /\ producer' = [producer EXCEPT ![name] = s[2]]
  BY DEF Setting
<1>2. UNCHANGED <<heap, objects, links, sender, receiver, workQueue, wire, sends, ids, fault>>
  BY DEF Setting, network, links
<1>3. DOMAIN producer' = DOMAIN DefaultSettings /\ producer'.mPriority \in Int
  BY <1>1, InterfaceAssumption
     DEF InterfaceAssumption, MessagesInv, CountersOK, DefaultSettings
<1>4. CountersOK'
  BY <1>2, <1>3 DEF MessagesInv, CountersOK
<1> QED
  BY <1>2, <1>4, HeldKept, WireKept DEF MessagesInv

LEMMA ProducerSafe ==
  ASSUME MessagesInv, Producer
  PROVE  MessagesInv'
<1>1. {"mDeliveryMode", "mPriority", "mTTL", "mMessageIdDisabed", "mTimestampDisabed"}
        \subseteq DOMAIN DefaultSettings
  BY DEF DefaultSettings
<1>2. CASE getDisableMessageID
  <2>1. /\ fault' = "endlessRecursion"
        /\ UNCHANGED <<heap, objects, producer, links, sender, receiver, workQueue, wire,
                       sends, ids>>
    BY <1>2 DEF getDisableMessageID, network, links
  <2>2. CountersOK'
    BY <2>1 DEF MessagesInv, CountersOK
  <2> QED
    BY <2>1, <2>2, HeldKept, WireKept DEF MessagesInv
<1> QED
  BY <1>1, <1>2, SettingSafe DEF Producer, setDeliveryMode, setPriority, setTimeToLive,
                           setDisableMessageID, setDisableMessageTimeStamp

LEMMA AcknowledgeSafe ==
  ASSUME MessagesInv, NEW o \in Live, acknowledge(o)
  PROVE  MessagesInv'
<1>1. /\ fault' = "badPointer"
      /\ UNCHANGED <<heap, objects, producer, links, sender, receiver, workQueue, wire,
                     sends, ids>>
  BY DEF acknowledge, network, links
<1>2. CountersOK'
  BY <1>1 DEF MessagesInv, CountersOK
<1> QED
  BY <1>1, <1>2, HeldKept, WireKept DEF MessagesInv

LEMMA ApplicationSafe ==
  ASSUME MessagesInv, NEW o \in Live, Application(o)
  PROVE  MessagesInv'
<1>1. CASE SetHeader(o)
  BY <1>1, SetHeaderSafe
<1>2. CASE SetProperty(o)
  BY <1>2, SetPropertySafe
<1>3. CASE ClearProperties(o)
  BY <1>3, ClearPropertiesSafe
<1>4. CASE ClearBody(o)
  BY <1>4, ClearBodySafe
<1>5. ASSUME NEW p \in Objects, Clone(o, p) \/ Reply(o, p)
      PROVE  MessagesInv'
  BY <1>5, CloneStepSafe, ReplySafe
<1>6. CASE Delete(o)
  BY <1>6, DeleteSafe
<1>7. CASE acknowledge(o)
  BY <1>7, AcknowledgeSafe
<1>8. CASE SendAsConfigured(o)
  <2>1. PICK d \in Parameters :
          Send(o, d, producer.mDeliveryMode, producer.mPriority, producer.mTTL)
    BY <1>8 DEF SendAsConfigured
  <2>2. producer.mPriority \in Int /\ IsPointer(d)
    BY InterfaceAssumption DEF InterfaceAssumption, MessagesInv, CountersOK
  <2> QED
    BY <2>1, <2>2, SendSafe
<1>9. CASE SendExplicitly(o)
  <2>1. PICK a \in Explicit : Send(o, a[1], a[2], a[3], a[4])
    BY <1>9 DEF SendExplicitly
  <2>2. a[3] \in Int /\ IsPointer(a[1])
    BY InterfaceAssumption DEF InterfaceAssumption
  <2> QED
    BY <2>1, <2>2, SendSafe
<1>10. CASE SendWithCallback
  <2>1. UNCHANGED <<heap, objects, producer, links, workQueue, wire, sends, ids, fault>>
    BY <1>10 DEF SendWithCallback, network
  <2> QED
    BY <2>1, HeldKept, WireKept, CountersKept DEF MessagesInv
<1> QED
  BY <1>1, <1>2, <1>3, <1>4, <1>5, <1>6, <1>7, <1>8, <1>9, <1>10 DEF Application

-----------------------------------------------------------------------------
(* The initial states and all steps.                                       *)

(* The first capability that is asked for is the one of the type.          *)
LEMMA FirstCapability ==
  ASSUME NEW c, IsSeq(c), c # <<>>, c[1] \in Capabilities
  PROVE  IsType(capabilityToDestinationType(c))
<1> DEFINE known == {i \in DOMAIN c : c[i] \in Capabilities}
           first == CHOOSE i \in known : \A j \in known : i <= j
<1>1. 1 \in known /\ \A i \in known : i \in Nat /\ 1 <= i
  <2>1. 1 \in DOMAIN c /\ \A i \in DOMAIN c : i \in Nat /\ 1 <= i
    BY DEF IsSeq
  <2> QED
    BY <2>1
<1>2. first = 1
  <2>1. \E i \in known : \A j \in known : i <= j
    BY <1>1
  <2>2. first \in known /\ \A j \in known : first <= j
    BY <2>1
  <2> HIDE DEF known, first
  <2> QED
    BY <1>1, <2>2
<1>3. capabilityToDestinationType(c)
      = CASE known = {} -> "thrown"
          [] known # {} /\ c[first] = QUEUE_CAPABILITY -> "QUEUE"
          [] known # {} /\ c[first] = TOPIC_CAPABILITY -> "TOPIC"
          [] known # {} /\ c[first] = TEMPORARY_QUEUE_CAPABILITY -> "TEMPORARY_QUEUE"
          [] known # {} /\ c[first] = TEMPORARY_TOPIC_CAPABILITY -> "TEMPORARY_TOPIC"
  BY DEF capabilityToDestinationType
<1>4. known # {}
  BY <1>1
<1> HIDE DEF known, first
<1> QED
  BY <1>2, <1>3, <1>4, TypesAre
     DEF Capabilities, QUEUE_CAPABILITY, TOPIC_CAPABILITY, TEMPORARY_QUEUE_CAPABILITY,
         TEMPORARY_TOPIC_CAPABILITY

LEMMA LinksOK ==
  ASSUME NEW d, IsPointer(d), d # nullptr
  PROVE  LinkOK(createProducer(d)) /\ LinkOK(createConsumer(d))
<1>0. d.type \in {"QUEUE", "TOPIC", "TEMPORARY_QUEUE", "TEMPORARY_TOPIC"}
  BY PointerIs, TypesAre
<1>1. ASSUME NEW x \in Capabilities, NEW y
      PROVE  /\ IsSeq(<<x>>) /\ <<x>> # <<>> /\ <<x>>[1] \in Capabilities
             /\ IsSeq(<<x, y>>) /\ <<x, y>> # <<>> /\ <<x, y>>[1] \in Capabilities
  <2>1. <<x>> \in Seq({x}) /\ <<x, y>> \in Seq({x, y})
    OBVIOUS
  <2> QED
    BY <2>1 DEF IsSeq
<1>2. ASSUME NEW x \in Capabilities, NEW y
      PROVE  /\ IsType(capabilityToDestinationType(<<x>>))
             /\ IsType(capabilityToDestinationType(<<x, y>>))
  BY <1>1, FirstCapability
<1>3. ASSUME NEW options, NEW x \in Capabilities, NEW y,
             options.capabilities \in {<<x>>, <<x, y>>}
      PROVE  LinkOK(Attach(options))
  BY <1>2, <1>3 DEF LinkOK, Attach
<1>4. /\ QUEUE_CAPABILITY \in Capabilities /\ TOPIC_CAPABILITY \in Capabilities
      /\ TEMPORARY_QUEUE_CAPABILITY \in Capabilities
      /\ TEMPORARY_TOPIC_CAPABILITY \in Capabilities
  BY DEF Capabilities
<1>5. /\ d.type = "QUEUE" => /\ ProducerConfig(d).capabilities = <<QUEUE_CAPABILITY>>
                             /\ ConsumerConfig(d).capabilities
                                  \in {<<QUEUE_CAPABILITY>>, <<QUEUE_CAPABILITY, "shared">>}
      /\ d.type = "TOPIC" => /\ ProducerConfig(d).capabilities = <<TOPIC_CAPABILITY>>
                             /\ ConsumerConfig(d).capabilities = <<TOPIC_CAPABILITY>>
      /\ d.type = "TEMPORARY_QUEUE" =>
           /\ ProducerConfig(d).capabilities
                = <<TEMPORARY_QUEUE_CAPABILITY, "delete-on-close">>
           /\ ConsumerConfig(d).capabilities
                = <<TEMPORARY_QUEUE_CAPABILITY, "delete-on-close">>
      /\ d.type = "TEMPORARY_TOPIC" =>
           /\ ProducerConfig(d).capabilities
                = <<TEMPORARY_TOPIC_CAPABILITY, "delete-on-close">>
           /\ ConsumerConfig(d).capabilities
                = <<TEMPORARY_TOPIC_CAPABILITY, "delete-on-close">>
  BY DEF ProducerConfig, ConsumerConfig, Options
<1>6. LinkOK(Attach(ProducerConfig(d))) /\ LinkOK(Attach(ConsumerConfig(d)))
  BY <1>0, <1>3, <1>4, <1>5
<1> QED
  BY <1>6 DEF createProducer, createConsumer

LEMMA InitMessages ==
  ASSUME Init
  PROVE  MessagesInv
<1>1. /\ heap = [r \in Refs |-> EmptyMessage]
      /\ objects = [o \in Objects |-> NoObject]
      /\ producer = DefaultSettings /\ workQueue = <<>>
      /\ sends = 0 /\ ids = 0 /\ fault = "none"
  BY DEF Init
<1>2. HeapOK
  BY <1>1, EmptySendable DEF HeapOK, Sendable
<1>3. ObjectsOK
  BY <1>1 DEF ObjectsOK, Live, Unshared
<1>4. QueueOK
  BY <1>1, EmptySeq DEF QueueOK, IsSeq
<1>5. WireOK
  <2>1. CASE wire = <<>>
    BY <2>1, EmptySeq DEF WireOK, IsSeq
  <2>2. ASSUME NEW i \in DOMAIN Foreign,
               wire = <<[m |-> Foreign[i], sent |-> [own |-> FALSE]]>>
        PROVE  WireOK
    <3> DEFINE p == [m |-> Foreign[i], sent |-> [own |-> FALSE]]
    <3>1. DOMAIN Foreign[i] = Fields
      BY InterfaceAssumption DEF InterfaceAssumption, Fields
    <3>2. LegalId(Foreign[i].id)
      <4>1. Foreign[i].id \in GivenIds
        BY DEF GivenIds
      <4> QED
        BY <4>1, IdsAssumption DEF IdsAssumption
    <3>3. WiredOK(p)
      BY <3>1, <3>2 DEF WiredOK, OwnCopy
    <3>4. wire = <<p>>
      BY <2>2
    <3> HIDE DEF p
    <3>5. wire \in Seq({p}) /\ DOMAIN wire = {1} /\ wire[1] = p
      BY <3>4
    <3> QED
      BY <3>3, <3>5 DEF WireOK, IsSeq
  <2> QED
    BY <2>1, <2>2 DEF Init
<1>6. CountersOK
  <2>1. LinkOK(sender) /\ LinkOK(receiver)
    <3>1. PICK d \in Targets : sender = createProducer(d)
      BY DEF Init
    <3>2. PICK e \in Sources : receiver = createConsumer(e)
      BY DEF Init
    <3>3. IsPointer(d) /\ d # nullptr /\ IsPointer(e) /\ e # nullptr
      BY InterfaceAssumption, MessagesAssumption DEF InterfaceAssumption, MessagesAssumption
    <3> QED
      BY <3>1, <3>2, <3>3, LinksOK
  <2> QED
    BY <1>1, <2>1, MessagesAssumption DEF MessagesAssumption, CountersOK, DefaultSettings
<1> QED
  BY <1>2, <1>3, <1>4, <1>5, <1>6 DEF MessagesInv

LEMMA NextMessages ==
  ASSUME MessagesInv, [Next]_vars
  PROVE  MessagesInv'
<1>1. ASSUME NEW o \in Objects, Create(o)
      PROVE  MessagesInv'
  BY <1>1, CreateSafe
<1>2. ASSUME NEW o \in Live, Application(o)
      PROVE  MessagesInv'
  BY <1>2, ApplicationSafe
<1>3. CASE Producer
  BY <1>3, ProducerSafe
<1>4. CASE setMessageListener \/ Tick
  <2>1. UNCHANGED <<heap, objects, producer, links, workQueue, wire, sends, ids, fault>>
    BY <1>4 DEF setMessageListener, Tick, network
  <2> QED
    BY <2>1, HeldKept, WireKept, CountersKept DEF MessagesInv
<1>5. CASE Transmit
  BY <1>5, TransmitSafe
<1>6. CASE on_message
  BY <1>6, OnMessageSafe
<1>7. CASE UNCHANGED vars
  BY <1>7, NothingChanges
<1> QED
  BY <1>1, <1>2, <1>3, <1>4, <1>5, <1>6, <1>7 DEF Next

LEMMA MessagesInvariant == Spec => []MessagesInv
BY InitMessages, NextMessages, PTL DEF Spec

-----------------------------------------------------------------------------
(* Every object and every queued send has an AMQP message with all its     *)
(* fields, whatever is cloned, shared, deleted or sent in between: a       *)
(* shared_ptr never leaves a member dangling.                              *)
THEOREM TypeCorrect == Spec => []TypeOK
<1>1. MessagesInv => TypeOK
  BY DEF MessagesInv, HeapOK, ObjectsOK, ObjectOK, IsObject, QueueOK, QueuedOK, CountersOK,
         TypeOK, Fields
<1> QED
  BY <1>1, MessagesInvariant, PTL

(* What send() made of a text or bytes message still holds when it goes    *)
(* out.                                                                    *)
LEMMA PromiseKept ==
  ASSUME MessagesInv, NEW i \in Own
  PROVE  /\ AsSet(wire[i].m, wire[i].sent)
         /\ Arrives(wire[i].m, wire[i].sent, sender, receiver)
         /\ WithId(wire[i].m, wire[i].sent) /\ Answers(wire[i].sent.o)
<1>1. i \in DOMAIN wire /\ OwnCopy(wire[i].sent)
  BY DEF Own, OwnCopy
<1> QED
  BY <1>1 DEF MessagesInv, WireOK, WiredOK, Promised

(* A text or bytes message goes out as it was when send() was called: the  *)
(* container's thread reads the AMQP message after send() has returned,    *)
(* and by then the application may have changed, cleared, cloned, deleted  *)
(* or sent the message again.  It cannot reach the one that waits.         *)
THEOREM SentAsItWasSet == Spec => []SentAsSet
<1>1. MessagesInv => SentAsSet
  BY PromiseKept DEF SentAsSet, AsSet
<1> QED
  BY <1>1, MessagesInvariant, PTL

(* The consumer sees the message that was sent, its class, its body and    *)
(* its headers, and the destinations as far as they have an address: what  *)
(* the setters encode, and the producer adds, is what a receiver decodes,  *)
(* and clones and queued sends keep the two in step.                       *)
THEOREM WhatArrives == Spec => []ReceivedAsSent
<1>1. MessagesInv => ReceivedAsSent
  <2> SUFFICES ASSUME MessagesInv, NEW i \in Own, Coherent(wire[i].sent.o)
               PROVE  LET s == wire[i].sent
                          r == received(wire[i].m, receiver)
                      IN  /\ r.class = s.o.class
                          /\ r.mMessageBody = s.o.mMessageBody
                          /\ \A h \in {"CorrelationID", "Type", "Redelivered"} :
                               get(h, r) = get(h, s.o)
                          /\ getPropertyNames(r.mMessage) = getPropertyNames(s.o.mMessage)
                          /\ s.o.mDestination = nullptr /\ Addressed(Wanted(s))
                               => equals(get("Destination", r), Wanted(s))
                          /\ Addressed(s.o.mReplyTo) => equals(get("ReplyTo", r), s.o.mReplyTo)
    BY DEF ReceivedAsSent
  <2>1. Arrives(wire[i].m, wire[i].sent, sender, receiver)
    BY PromiseKept
  <2> QED
    BY <2>1 DEF Arrives, Wanted
<1> QED
  BY <1>1, MessagesInvariant, PTL

(* An answer carries the AMQP id of the message it answers, of the type    *)
(* that it had: the id is printed into a CMS string and read back, and the *)
(* answer may be changed, cloned and sent on like any message.             *)
THEOREM AnswersCorrelate == Spec => []ReplyCorrelates
<1>1. MessagesInv => ReplyCorrelates
  <2> SUFFICES ASSUME MessagesInv, NEW i \in Own, Plain(wire[i].sent.o.request)
               PROVE  SameId(wire[i].m.correlation_id, wire[i].sent.o.request)
    BY DEF ReplyCorrelates, Plain
  <2>1. /\ SameId(wire[i].m.correlation_id, wire[i].sent.o.mMessage.correlation_id)
        /\ SameId(wire[i].sent.o.mMessage.correlation_id, wire[i].sent.o.request)
    BY PromiseKept DEF AsSet, Answers
  <2> QED
    BY <2>1 DEF SameId
<1> QED
  BY <1>1, MessagesInvariant, PTL

(* No message that this library's classes have made, or have taken from    *)
(* another client and passed on, ends the consumer's process or its        *)
(* container's thread.                                                     *)
THEOREM OwnMessagesCanBeRead == Spec => []OwnMessagesReadable
<1>1. MessagesInv => OwnMessagesReadable
  BY DEF MessagesInv, WireOK, WiredOK, OwnMessagesReadable
<1> QED
  BY <1>1, MessagesInvariant, PTL

-----------------------------------------------------------------------------
(* Generated ids.  An id that waits in the queue is carried by that one    *)
(* AMQP message only, and one that is still to be generated by none.       *)

GeneratedId(k) == <<"ID:", Uuids[k]>>
Bears(id, k)   == id.type = "STRING" /\ id.value = GeneratedId(k)

(* Of all AMQP messages at most those of refs bear the id k.               *)
OnlyAt(refs, k) ==
  /\ \A r \in Refs \ refs : ~Bears(heap[r].id, k)
  /\ \A j \in DOMAIN wire : ~Bears(wire[j].m.id, k)
  /\ GeneratedId(k) \notin used

(* send() has given the message an id.                                     *)
FreshlyNamed(s) ==
  OwnCopy(s) /\ s.o.mMessage.id.type = "NULL" /\ ~s.by.mMessageIdDisabed

Unissued == \A k \in DOMAIN Uuids : k > ids => OnlyAt({}, k)

Awaiting(w) ==
  FreshlyNamed(w.sent) =>
    \A k \in DOMAIN Uuids : Bears(heap[w.mess].id, k) => OnlyAt({w.mess}, k)

(* No other queued send has the AMQP message of a text or bytes message.   *)
Apart ==
  \A i, j \in DOMAIN workQueue :
    OwnCopy(workQueue[i].sent) /\ workQueue[i].mess = workQueue[j].mess => i = j

GivenFresh(p) == FreshlyNamed(p.sent) => p.m.id.value \notin p.earlier

FreshInv ==
  /\ Unissued
  /\ \A i \in DOMAIN workQueue : Awaiting(workQueue[i])
  /\ Apart
  /\ \A j \in DOMAIN wire : GivenFresh(wire[j])

LEMMA BearsOne ==
  ASSUME NEW id, NEW k \in DOMAIN Uuids, NEW l \in DOMAIN Uuids, Bears(id, k), Bears(id, l)
  PROVE  k = l
<1>1. \A x, y : <<"ID:", x>> = <<"ID:", y>> => x = y
  <2> SUFFICES ASSUME NEW x, NEW y, <<"ID:", x>> = <<"ID:", y>>
               PROVE  x = y
    OBVIOUS
  <2>1. <<"ID:", x>>[2] = <<"ID:", y>>[2]
    OBVIOUS
  <2> QED
    BY <2>1
<1>2. Uuids[k] = Uuids[l]
  BY <1>1 DEF Bears, GeneratedId
<1> QED
  BY <1>2, IdsAssumption DEF IdsAssumption

(* Neither the ids that applications and other clients give are generated, *)
(* nor is no id at all.                                                    *)
LEMMA GivenBearsNone ==
  ASSUME NEW id, id \in GivenIds \/ id = NoId, NEW k \in DOMAIN Uuids
  PROVE  ~Bears(id, k)
<1>1. CASE id \in GivenIds
  BY <1>1, IdsAssumption DEF IdsAssumption, Bears, GeneratedId
<1>2. CASE id = NoId
  <2>1. NoId.type # "STRING"
    BY DEF NoId
  <2> QED
    BY <1>2, <2>1 DEF Bears
<1> QED
  BY <1>1, <1>2

(* An id that an object or a message on the way has.                       *)
Seen(k) ==
  \/ \E x \in Live : Bears(heap[objects[x].mMessage].id, k)
  \/ \E j \in DOMAIN wire : Bears(wire[j].m.id, k)

(* No object can reach what waits for the container's thread.              *)
LEMMA OutOfReach ==
  ASSUME MessagesInv, NEW i \in DOMAIN workQueue, OwnCopy(workQueue[i].sent)
  PROVE  /\ workQueue[i].mess \in Refs
         /\ \A x \in Live : objects[x].mMessage \in Refs
                            /\ objects[x].mMessage # workQueue[i].mess
BY DEF MessagesInv, ObjectsOK, ObjectOK, QueueOK, QueuedOK

(* A step that hands on the ids of objects and of messages that arrive,    *)
(* but for those that wait.                                                *)
LEMMA FreshKept ==
  ASSUME MessagesInv, FreshInv, UNCHANGED <<workQueue, used, ids>>,
         \A i \in DOMAIN workQueue : OwnCopy(workQueue[i].sent) =>
           heap'[workQueue[i].mess].id = heap[workQueue[i].mess].id,
         \A j \in DOMAIN wire' : \E i \in DOMAIN wire : wire'[j] = wire[i],
         \A r \in Refs, k \in DOMAIN Uuids :
           Bears(heap'[r].id, k) => Bears(heap[r].id, k) \/ Seen(k)
  PROVE  FreshInv'
<1>1. ASSUME NEW k \in DOMAIN Uuids, OnlyAt({}, k)
      PROVE  OnlyAt({}, k)'
  <2>1. ~Seen(k)
    BY <1>1 DEF OnlyAt, Seen, MessagesInv, ObjectsOK, ObjectOK
  <2> QED
    BY <1>1, <2>1 DEF OnlyAt, GeneratedId, Bears
<1>2. Unissued'
  BY <1>1 DEF FreshInv, Unissued
<1>3. ASSUME NEW i \in DOMAIN workQueue, FreshlyNamed(workQueue[i].sent),
             NEW k \in DOMAIN Uuids, Bears(heap'[workQueue[i].mess].id, k)
      PROVE  OnlyAt({workQueue[i].mess}, k)'
  <2>1. OwnCopy(workQueue[i].sent)
    BY <1>3 DEF FreshlyNamed
  <2>2. OnlyAt({workQueue[i].mess}, k)
    BY <1>3, <2>1 DEF FreshInv, Awaiting
  <2>3. ~Seen(k)
    BY <2>1, <2>2, OutOfReach DEF OnlyAt, Seen
  <2> QED
    BY <2>2, <2>3 DEF OnlyAt, GeneratedId, Bears
<1>4. \A i \in DOMAIN workQueue' : Awaiting(workQueue[i])'
  BY <1>3 DEF Awaiting, FreshlyNamed, OwnCopy, Bears, GeneratedId
<1>5. Apart'
  BY DEF FreshInv, Apart, OwnCopy
<1>6. \A j \in DOMAIN wire' : GivenFresh(wire[j])'
  BY DEF FreshInv, GivenFresh, FreshlyNamed, OwnCopy
<1> QED
  BY <1>2, <1>4, <1>5, <1>6 DEF FreshInv

(* One AMQP message is written that does not wait.                         *)
LEMMA WrittenFresh ==
  ASSUME MessagesInv, FreshInv, UNCHANGED <<workQueue, used, ids>>,
         \A j \in DOMAIN wire' : \E i \in DOMAIN wire : wire'[j] = wire[i],
         NEW ref \in Refs, Unheld(ref) \/ \E x \in Live : objects[x].mMessage = ref,
         NEW m, heap' = [heap EXCEPT ![ref] = m],
         \A k \in DOMAIN Uuids : Bears(m.id, k) => Seen(k)
  PROVE  FreshInv'
<1>1. DOMAIN heap = Refs
  BY DEF MessagesInv, HeapOK
<1>2. heap'[ref] = m /\ \A r \in Refs \ {ref} : heap'[r] = heap[r]
  BY <1>1
<1>3. ASSUME NEW i \in DOMAIN workQueue, OwnCopy(workQueue[i].sent)
      PROVE  heap'[workQueue[i].mess].id = heap[workQueue[i].mess].id
  <2>1. workQueue[i].mess \in Refs /\ workQueue[i].mess # ref
    BY <1>3, OutOfReach DEF Unheld
  <2> QED
    BY <1>2, <2>1
<1>4. ASSUME NEW r \in Refs, NEW k \in DOMAIN Uuids, Bears(heap'[r].id, k)
      PROVE  Bears(heap[r].id, k) \/ Seen(k)
  BY <1>2, <1>4
<1> QED
  BY <1>3, <1>4, FreshKept

(* The setters.                                                            *)
LEMMA EditFresh ==
  ASSUME MessagesInv, FreshInv, NEW o \in Live, NEW n, Edit(o, n),
         \/ n.mMessage.id = heap[objects[o].mMessage].id
         \/ n.mMessage.id \in GivenIds \/ n.mMessage.id = NoId
  PROVE  FreshInv'
<1>1. /\ heap' = [heap EXCEPT ![objects[o].mMessage] = n.mMessage]
      /\ UNCHANGED <<workQueue, wire, used, ids>>
  BY DEF Edit, Store, network
<1>2. objects[o].mMessage \in Refs
  BY DEF MessagesInv, ObjectsOK, ObjectOK
<1>3. \A k \in DOMAIN Uuids : Bears(n.mMessage.id, k) => Seen(k)
  BY GivenBearsNone DEF Seen
<1> QED
  BY <1>1, <1>2, <1>3, WrittenFresh

LEMMA SetHeaderFresh ==
  ASSUME MessagesInv, FreshInv, NEW o \in Live, SetHeader(o)
  PROVE  FreshInv'
<1>1. PICK e \in Edits :
        Edit(o, set(e[1], e[2], now,
                    IF e[1] = "CorrelationID" THEN [Load(o) EXCEPT !.request = NoId]
                                              ELSE Load(o)))
  BY DEF SetHeader
<1> DEFINE k == IF e[1] = "CorrelationID" THEN [Load(o) EXCEPT !.request = NoId]
                                          ELSE Load(o)
           n == set(e[1], e[2], now, k)
<1>2. /\ IsObject(Load(o)) /\ IsMessage(Load(o))
      /\ Load(o).mMessage = heap[objects[o].mMessage]
  BY Loaded
<1>3. IsObject(k) /\ k.mMessage = Load(o).mMessage
  BY <1>2 DEF IsObject, ObjectFields
<1>4. Edit(o, n)
  BY <1>1
<1> HIDE DEF k
<1>5. Passable(e[1], e[2])
  BY EditsPassable
<1>6. SetTo(e[1], e[2], now, k, n)
  BY <1>3, <1>5, SetIs
<1> HIDE DEF n
<1>7. DOMAIN k.mMessage = Fields /\ n.mMessage = Encoded(e[1], e[2], now, k.mMessage)
  BY <1>2, <1>3, <1>6 DEF SetTo, IsMessage
<1>8. CASE e[1] = "MessageID"
  <2>1. n.mMessage = setAMQPMessageID(e[2], k.mMessage)
    BY <1>7, <1>8 DEF Encoded
  <2>2. n.mMessage.id = k.mMessage.id \/ n.mMessage.id = MessageIdOf(e[2])
    BY <1>7, <2>1, FieldsAre DEF setAMQPMessageID
  <2>3. MessageIdOf(e[2]) \in GivenIds
    BY <1>8 DEF GivenIds
  <2> QED
    BY <1>2, <1>3, <1>4, <2>2, <2>3, EditFresh
<1>9. CASE e[1] # "MessageID"
  <2>1. SameBut(FieldsOf(e[1]), k.mMessage, n.mMessage)
    BY <1>5, <1>7, EncodedFields DEF Passable
  <2>2. n.mMessage.id = k.mMessage.id
    BY <1>5, <1>9, <2>1, FieldsAre DEF SameBut, FieldsOf, Passable, Headers
  <2> QED
    BY <1>2, <1>3, <1>4, <2>2, EditFresh
<1> QED
  BY <1>8, <1>9

LEMMA EditsFresh ==
  ASSUME MessagesInv, FreshInv, NEW o \in Live,
         SetProperty(o) \/ ClearProperties(o) \/ ClearBody(o)
  PROVE  FreshInv'
<1> DEFINE k == Load(o)
<1>1. IsObject(k) /\ IsMessage(k) /\ k.mMessage = heap[objects[o].mMessage]
  BY Loaded
<1> HIDE DEF k
<1>2. CASE SetProperty(o)
  <2> DEFINE n == setProperty("INT", "p", 1, k)
  <2>1. Edit(o, n)
    BY <1>2 DEF SetProperty, k
  <2>2. n = [k EXCEPT !.mMessage = setAMQPProperty("INT", "p", 1, k.mMessage)]
    BY <1>1 DEF IsObject, Classes, setProperty, CMSMessage_setProperty,
                CMSTextMessage_setProperty, CMSBytesMessage_setProperty
  <2> HIDE DEF n
  <2>3. n.mMessage = setAMQPProperty("INT", "p", 1, k.mMessage)
    BY <1>1, <2>2 DEF IsObject, ObjectFields
  <2>4. n.mMessage.id = k.mMessage.id
    BY <1>1, <2>3, FieldsAre DEF IsMessage, setAMQPProperty
  <2> QED
    BY <1>1, <2>1, <2>4, EditFresh
<1>3. CASE ClearProperties(o)
  <2> DEFINE n == clearProperties(k)
  <2>1. Edit(o, n)
    BY <1>3 DEF ClearProperties, k
  <2>2. n = [k EXCEPT !.mMessage = [k.mMessage EXCEPT !.properties = NoFields]]
    BY <1>1 DEF IsObject, ObjectFields, clearProperties
  <2> HIDE DEF n
  <2>3. n.mMessage = [k.mMessage EXCEPT !.properties = NoFields]
    BY <1>1, <2>2 DEF IsObject, ObjectFields
  <2>4. n.mMessage.id = k.mMessage.id
    BY <1>1, <2>3, FieldsAre DEF IsMessage
  <2> QED
    BY <1>1, <2>1, <2>4, EditFresh
<1>4. CASE ClearBody(o)
  <2> DEFINE n == [clearBody(k) EXCEPT !.request = NoId]
  <2>1. Edit(o, n)
    BY <1>4 DEF ClearBody, k
  <2>2. n.mMessage = EmptyMessage
    BY <1>1 DEF IsObject, ObjectFields, clearBody
  <2> HIDE DEF n
  <2> QED
    BY <2>1, <2>2, EmptySendable, EditFresh
<1> QED
  BY <1>2, <1>3, <1>4

(* New objects: without an id, or with that of what arrives.               *)
LEMMA AllocateFresh ==
  ASSUME MessagesInv, FreshInv, NEW o, NEW object, NEW request, Allocate(o, object, request),
         UNCHANGED <<workQueue, used, ids>>,
         \A j \in DOMAIN wire' : \E i \in DOMAIN wire : wire'[j] = wire[i],
         \/ object.mMessage.id = NoId
         \/ \E j \in DOMAIN wire : object.mMessage.id = wire[j].m.id
  PROVE  FreshInv'
<1>1. Refs # Used /\ heap' = [heap EXCEPT ![NewRef] = object.mMessage]
  BY DEF Allocate
<1>2. Unheld(NewRef) /\ NewRef \in Refs
  BY <1>1, NewRefUnheld DEF Unheld
<1>3. \A k \in DOMAIN Uuids : Bears(object.mMessage.id, k) => Seen(k)
  BY GivenBearsNone DEF Seen
<1> QED
  BY <1>1, <1>2, <1>3, WrittenFresh

LEMMA CreateFresh ==
  ASSUME MessagesInv, FreshInv, NEW o \in Objects, Create(o)
  PROVE  FreshInv'
<1>1. PICK payload \in Payloads : \E object \in Created(payload) : Allocate(o, object, NoId)
  BY DEF Create
<1>2. PICK object \in Created(payload) : Allocate(o, object, NoId)
  BY <1>1
<1>3. object.mMessage.id = NoId
  <2>1. DurableMessage.id = NoId /\ DOMAIN DurableMessage = Fields
    BY FieldsAre DEF DurableMessage, EmptyMessage, Fields
  <2>2. /\ newCMSMessage.mMessage.id = NoId
        /\ newCMSTextMessage(payload).mMessage.id = NoId
        /\ newCMSBytesMessage(payload).mMessage.id = NoId
    BY <2>1, FieldsAre
       DEF newCMSMessage, newCMSTextMessage, newCMSBytesMessage, emptyCMSBytesMessage,
           setBodyBytes, Object
  <2> QED
    BY <2>2 DEF Created
<1>4. UNCHANGED <<workQueue, wire, used, ids>>
  BY DEF Create, network
<1> QED
  BY <1>2, <1>3, <1>4, AllocateFresh

LEMMA ReplyFresh ==
  ASSUME MessagesInv, FreshInv, NEW o \in Live, NEW p \in Objects, Reply(o, p)
  PROVE  FreshInv'
<1> DEFINE id     == get("MessageID", Load(o))
           text   == newCMSTextMessage(<<"answer">>)
           answer == set("CorrelationID", id, now, text)
           to     == get("ReplyTo", Load(o))
           object == set("Destination", to, now, answer)
<1>1. /\ Allocate(p, object, Load(o).mMessage.id)
      /\ UNCHANGED <<workQueue, wire, used, ids>>
  BY DEF Reply, network
<1>2. Passable("CorrelationID", id) /\ Passable("Destination", to)
  <2>1. IsObject(Load(o))
    BY Loaded
  <2>2. IsPointer(to)
    BY <2>1, GetIs DEF IsObject
  <2> QED
    BY <2>2 DEF Passable, Headers
<1>3. text.mMessage.id = NoId
  <2>1. DurableMessage.id = NoId /\ DOMAIN DurableMessage = Fields
    BY FieldsAre DEF DurableMessage, EmptyMessage, Fields
  <2> QED
    BY <2>1, FieldsAre DEF newCMSTextMessage, Object
<1>4. IsFresh(text, receiver)
  BY ConstructedFresh
<1> HIDE DEF text, id, to
<1>5. IsFresh(answer, receiver) /\ SetTo("CorrelationID", id, now, text, answer)
  BY <1>2, <1>4, SetFresh
<1> HIDE DEF answer
<1>6. SetTo("Destination", to, now, answer, object)
  BY <1>2, <1>5, SetFresh
<1> HIDE DEF object
<1>7. answer.mMessage.id = text.mMessage.id
  <2>1. SameBut(FieldsOf("CorrelationID"), text.mMessage, answer.mMessage)
    BY <1>2, <1>4, <1>5, EncodedFields DEF SetTo, IsFresh, IsMessage, Passable
  <2> QED
    BY <2>1, FieldsAre DEF SameBut, FieldsOf
<1>8. object.mMessage.id = answer.mMessage.id
  <2>1. SameBut(FieldsOf("Destination"), answer.mMessage, object.mMessage)
    BY <1>2, <1>5, <1>6, EncodedFields DEF SetTo, IsFresh, IsMessage, Passable
  <2> QED
    BY <2>1, FieldsAre DEF SameBut, FieldsOf
<1> QED
  BY <1>1, <1>3, <1>7, <1>8, AllocateFresh

LEMMA CloneFresh ==
  ASSUME MessagesInv, FreshInv, NEW o \in Live, NEW p \in Objects, Clone(o, p)
  PROVE  FreshInv'
<1> DEFINE own == objects[o].mMessage
<1>1. /\ Refs # Used
      /\ heap' = [heap EXCEPT ![CloneRef(o)] = heap[own]]
      /\ UNCHANGED <<workQueue, wire, used, ids>>
  BY DEF Clone, network
<1>2. Unheld(NewRef) /\ NewRef \in Refs /\ own \in Refs
  BY <1>1, NewRefUnheld DEF Unheld, MessagesInv, ObjectsOK, ObjectOK
<1>3. /\ CloneRef(o) \in Refs
      /\ Unheld(CloneRef(o)) \/ \E x \in Live : objects[x].mMessage = CloneRef(o)
  BY <1>2 DEF CloneRef
<1>4. \A k \in DOMAIN Uuids : Bears(heap[own].id, k) => Seen(k)
  BY DEF Seen
<1> QED
  BY <1>1, <1>3, <1>4, WrittenFresh

LEMMA OnMessageFresh ==
  ASSUME MessagesInv, FreshInv, on_message
  PROVE  FreshInv'
<1> DEFINE m == Head(wire).m
<1>1. /\ wire # <<>> /\ wire' = Tail(wire)
      /\ UNCHANGED <<workQueue, used, ids>>
  BY DEF on_message
<1>2. /\ 1 \in DOMAIN wire /\ Head(wire) = wire[1]
      /\ \A i \in DOMAIN wire' : i + 1 \in DOMAIN wire /\ wire'[i] = wire[i + 1]
  BY <1>1, SeqTail DEF MessagesInv, WireOK
<1>3. \A j \in DOMAIN wire' : \E i \in DOMAIN wire : wire'[j] = wire[i]
  BY <1>2
<1>4. \/ UNCHANGED heap
      \/ \E o \in Objects : Allocate(o, received(m, receiver), NoId)
  BY DEF on_message
<1>5. received(m, receiver).mMessage = m
  BY DEF received, receivedCMSTextMessage, receivedCMSBytesMessage, Object
<1>6. CASE UNCHANGED heap
  BY <1>1, <1>3, <1>6, FreshKept
<1>7. ASSUME NEW o \in Objects, Allocate(o, received(m, receiver), NoId)
      PROVE  FreshInv'
  BY <1>1, <1>2, <1>3, <1>5, <1>7, AllocateFresh
<1> QED
  BY <1>4, <1>6, <1>7

LEMMA DeleteFresh ==
  ASSUME MessagesInv, FreshInv, NEW o \in Live, Delete(o)
  PROVE  FreshInv'
<1>1. /\ heap' = [r \in Refs |-> IF r \in Used' THEN heap[r] ELSE EmptyMessage]
      /\ UNCHANGED <<workQueue, wire, used, ids>>
  BY DEF Delete, Release
<1>2. \A i \in DOMAIN workQueue : workQueue[i].mess \in Used'
  BY <1>1 DEF Used
<1>3. \A i \in DOMAIN workQueue : OwnCopy(workQueue[i].sent) =>
        heap'[workQueue[i].mess].id = heap[workQueue[i].mess].id
  BY <1>1, <1>2, OutOfReach
<1>4. \A r \in Refs, k \in DOMAIN Uuids : Bears(heap'[r].id, k) => Bears(heap[r].id, k)
  BY <1>1, EmptySendable, GivenBearsNone
<1>5. \A j \in DOMAIN wire' : \E i \in DOMAIN wire : wire'[j] = wire[i]
  BY <1>1
<1> QED
  BY <1>1, <1>3, <1>4, <1>5, FreshKept

(* What goes out bore an id that nothing else bore, on its way or gone.    *)
LEMMA TransmitFresh ==
  ASSUME MessagesInv, FreshInv, Transmit
  PROVE  FreshInv'
<1> DEFINE w == Head(workQueue)
           m == heap[w.mess]
           p == [m |-> m, sent |-> w.sent, earlier |-> used]
<1>1. /\ workQueue # <<>> /\ workQueue' = Tail(workQueue)
      /\ wire' = Append(wire, p)
      /\ used' = used \cup StringIdOf(m)
      /\ heap' = [r \in Refs |-> IF r \in Used' THEN heap[r] ELSE EmptyMessage]
      /\ UNCHANGED ids
  BY DEF Transmit, Release
<1>2. IsSeq(workQueue) /\ IsSeq(wire)
  BY DEF MessagesInv, QueueOK, WireOK
<1>3. /\ 1 \in DOMAIN workQueue /\ w = workQueue[1]
      /\ \A i \in DOMAIN workQueue' : i + 1 \in DOMAIN workQueue
                                      /\ workQueue'[i] = workQueue[i + 1]
  BY <1>1, <1>2, SeqTail
<1>4. /\ DOMAIN wire' = DOMAIN wire \cup {Len(wire) + 1}
      /\ \A i \in DOMAIN wire : wire'[i] = wire[i]
      /\ wire'[Len(wire) + 1] = p
  BY <1>1, <1>2, SeqAppend
<1>5. p.m = m /\ p.sent = w.sent /\ p.earlier = used /\ w.mess \in Refs
  BY <1>3 DEF MessagesInv, QueueOK, QueuedOK
<1>6. ASSUME NEW k, ~Bears(m.id, k), GeneratedId(k) \notin used
      PROVE  GeneratedId(k) \notin used'
  BY <1>1, <1>6 DEF Bears, StringIdOf
<1>7. \A r \in Refs, k \in DOMAIN Uuids : Bears(heap'[r].id, k) => Bears(heap[r].id, k)
  BY <1>1, EmptySendable, GivenBearsNone
<1>8. ASSUME NEW k \in DOMAIN Uuids, NEW refs, OnlyAt(refs, k), w.mess \notin refs
      PROVE  OnlyAt(refs, k)'
  <2>1. ~Bears(m.id, k)
    BY <1>5, <1>8 DEF OnlyAt
  <2> HIDE DEF p, m, w
  <2>2. GeneratedId(k) \notin used'
    BY <1>6, <1>8, <2>1 DEF OnlyAt
  <2> QED
    BY <1>4, <1>5, <1>7, <1>8, <2>1, <2>2 DEF OnlyAt, Bears, GeneratedId
<1>9. Unissued'
  BY <1>1, <1>8 DEF FreshInv, Unissued
<1>10. ASSUME NEW i \in DOMAIN workQueue'
       PROVE  Awaiting(workQueue[i])'
  <2>0. PICK v : v = workQueue[i + 1]
    OBVIOUS
  <2>1. i + 1 \in DOMAIN workQueue /\ workQueue'[i] = v /\ i \in Nat /\ i + 1 # 1
    <3>1. IsSeq(workQueue') => i \in Nat /\ i + 1 # 1
      BY DEF IsSeq
    <3> QED
      BY <1>1, <1>2, <1>3, <2>0, <3>1, SeqTail
  <2>2. Awaiting(v) /\ (OwnCopy(v.sent) => v.mess # w.mess)
    BY <1>3, <2>0, <2>1 DEF FreshInv, Apart
  <2>3. v.mess \in Refs
    BY <2>0, <2>1 DEF MessagesInv, QueueOK, QueuedOK
  <2> HIDE DEF w, m, p
  <2>4. ASSUME FreshlyNamed(v.sent), NEW k \in DOMAIN Uuids, Bears(heap'[v.mess].id, k)
        PROVE  OnlyAt({v.mess}, k)'
    <3>1. PICK refs : refs = {v.mess}
      OBVIOUS
    <3>2. OnlyAt({v.mess}, k)
      BY <1>7, <2>2, <2>3, <2>4 DEF Awaiting
    <3>3. OnlyAt(refs, k)
      BY <3>1, <3>2
    <3>4. w.mess \notin refs
      BY <2>2, <2>4, <3>1 DEF FreshlyNamed
    <3>5. OnlyAt(refs, k)'
      BY <1>8, <3>3, <3>4
    <3> QED
      BY <3>1, <3>5
  <2>5. ASSUME FreshlyNamed(v.sent), NEW k \in DOMAIN Uuids, Bears(heap'[v.mess].id, k)
        PROVE  OnlyAt({workQueue[i].mess}, k)'
    BY <2>1, <2>4, <2>5 DEF OnlyAt
  <2> QED
    BY <2>1, <2>5 DEF Awaiting, FreshlyNamed, OwnCopy, Bears, GeneratedId
<1>11. Apart'
  <2>1. ASSUME NEW i \in DOMAIN workQueue', NEW j \in DOMAIN workQueue',
               OwnCopy(workQueue'[i].sent), workQueue'[i].mess = workQueue'[j].mess
        PROVE  i = j
    <3>1. i + 1 = j + 1
      BY <1>3, <2>1 DEF FreshInv, Apart
    <3>2. IsSeq(workQueue') => i \in Nat /\ j \in Nat
      BY DEF IsSeq
    <3> QED
      BY <1>1, <1>2, <3>1, <3>2, SeqTail
  <2> QED
    BY <2>1 DEF Apart, OwnCopy
<1>12. \A j \in DOMAIN wire' : GivenFresh(wire[j])'
  <2>1. GivenFresh(p)
    <3> SUFFICES ASSUME FreshlyNamed(w.sent)
                 PROVE  m.id.value \notin used
      BY <1>5 DEF GivenFresh
    <3>1. QueuedOK(w) /\ Awaiting(w)
      BY <1>3 DEF MessagesInv, QueueOK, FreshInv
    <3>2. m.id \in Generated
      BY <3>1 DEF QueuedOK, FreshlyNamed, Promised, WithId
    <3>3. PICK k \in DOMAIN Uuids : m.id = [type |-> "STRING", value |-> <<"ID:", Uuids[k]>>]
      BY <3>2 DEF Generated
    <3>4. Bears(m.id, k) /\ m.id.value = GeneratedId(k)
      BY <3>3 DEF Bears, GeneratedId
    <3> QED
      BY <3>1, <3>4 DEF Awaiting, OnlyAt
  <2>2. \A j \in DOMAIN wire : GivenFresh(wire[j])
    BY DEF FreshInv
  <2> HIDE DEF p, w, m
  <2> QED
    BY <1>4, <2>1, <2>2 DEF GivenFresh, FreshlyNamed, OwnCopy
<1> QED
  BY <1>9, <1>10, <1>11, <1>12 DEF FreshInv

(* The next id that is generated is nowhere yet.                           *)
LEMMA SendFresh ==
  ASSUME MessagesInv, FreshInv, NEW o \in Live, NEW d, IsPointer(d), NEW mode, NEW p \in Int,
         NEW ttl, Send(o, d, mode, p, ttl)
  PROVE  FreshInv'
<1> PICK mess, s : SendsAs(o, mess, s)
  BY SendMeans
<1>0. PICK ref, w : ref = CloneRef(o) /\ w = [mess |-> ref, sent |-> s]
  OBVIOUS
<1> DEFINE own  == objects[o].mMessage
           next == NeedsId(Load(o))
<1>1. /\ Refs # Used /\ heap' = [heap EXCEPT ![ref] = mess]
      /\ workQueue' = Append(workQueue, w)
      /\ UNCHANGED <<wire, used>>
      /\ ids' = IF next THEN ids + 1 ELSE ids
      /\ FreshlyNamed(s) => next /\ objects[o].class # "CMSMessage"
      /\ IF next THEN ids + 1 \in DOMAIN Uuids /\ mess.id = [type |-> "STRING", value |-> NewId]
                 ELSE mess.id = heap[own].id
  BY <1>0 DEF SendsAs, FreshlyNamed, OwnCopy
<1>w. w.mess = ref /\ w.sent = s
  BY <1>0
<1> HIDE DEF next
<1>2. Unheld(NewRef) /\ own \in Refs
  BY <1>1, NewRefUnheld DEF MessagesInv, ObjectsOK, ObjectOK
<1>3. /\ ref \in Refs /\ (Unheld(ref) \/ ref = own)
      /\ objects[o].class # "CMSMessage" => Unheld(ref)
  BY <1>0, <1>2 DEF CloneRef, Unheld
<1>4. /\ heap'[ref] = mess /\ \A r \in Refs \ {ref} : heap'[r] = heap[r]
  BY <1>1, <1>3 DEF MessagesInv, HeapOK
<1>5. ids \in Nat /\ ids' \in Nat /\ ids' >= ids
  BY <1>1 DEF MessagesInv, CountersOK
<1>6. /\ IsSeq(workQueue) /\ DOMAIN workQueue' = DOMAIN workQueue \cup {Len(workQueue) + 1}
      /\ \A i \in DOMAIN workQueue : workQueue'[i] = workQueue[i]
      /\ workQueue'[Len(workQueue) + 1] = w
  BY <1>1, SeqAppend DEF MessagesInv, QueueOK
(* A text or bytes message that waits is not the one that is written.      *)
<1>7. \A i \in DOMAIN workQueue : OwnCopy(workQueue[i].sent) =>
        /\ workQueue[i].mess \in Refs /\ workQueue[i].mess # ref
        /\ workQueue[i].mess # own
  BY <1>3, OutOfReach DEF Unheld
<1>8. next => Bears(mess.id, ids + 1)
  BY <1>1 DEF Bears, GeneratedId, NewId
<1>9. ASSUME NEW k \in DOMAIN Uuids, Bears(mess.id, k)
      PROVE  IF next THEN k = ids + 1 ELSE Bears(heap[own].id, k)
  BY <1>1, <1>8, <1>9, BearsOne
<1>10. ASSUME NEW k \in DOMAIN Uuids, k > ids
       PROVE  OnlyAt({}, k)
  BY <1>10 DEF FreshInv, Unissued
<1>11. ASSUME NEW k \in DOMAIN Uuids, NEW refs, OnlyAt(refs, k),
              ref \in refs \/ ~Bears(mess.id, k)
       PROVE  OnlyAt(refs, k)'
  BY <1>1, <1>4, <1>11 DEF OnlyAt, Bears, GeneratedId
<1>12. Unissued'
  <2> SUFFICES ASSUME NEW k \in DOMAIN Uuids, k > ids'
               PROVE  OnlyAt({}, k)'
    BY DEF Unissued
  <2>1. k > ids /\ k \in Nat
    BY <1>5, MessagesAssumption DEF MessagesAssumption
  <2>2. OnlyAt({}, k)
    BY <1>10, <2>1
  <2>3. ~Bears(mess.id, k)
    BY <1>1, <1>2, <1>5, <1>9, <2>1, <2>2 DEF OnlyAt
  <2> QED
    BY <1>11, <2>2, <2>3
<1>13. ASSUME NEW i \in DOMAIN workQueue'
       PROVE  Awaiting(workQueue[i])'
  <2>1. CASE workQueue'[i] = w
    <3> SUFFICES ASSUME FreshlyNamed(s), NEW k \in DOMAIN Uuids, Bears(mess.id, k)
                 PROVE  OnlyAt({ref}, k)'
      BY <1>w, <1>4, <2>1 DEF Awaiting, FreshlyNamed, OwnCopy, Bears, GeneratedId, OnlyAt
    <3>1. k = ids + 1 /\ k > ids
      BY <1>1, <1>5, <1>9
    <3>2. OnlyAt({}, k)
      BY <1>10, <3>1
    <3>3. OnlyAt({ref}, k)
      BY <3>2 DEF OnlyAt
    <3> QED
      BY <1>11, <3>3
  <2>2. ASSUME i \in DOMAIN workQueue, FreshlyNamed(workQueue[i].sent),
               NEW k \in DOMAIN Uuids, Bears(heap'[workQueue[i].mess].id, k)
        PROVE  OnlyAt({workQueue[i].mess}, k)'
    <3>1. PICK refs : refs = {workQueue[i].mess}
      OBVIOUS
    <3>2. OwnCopy(workQueue[i].sent) /\ workQueue'[i] = workQueue[i]
      BY <1>6, <2>2 DEF FreshlyNamed
    <3>3. heap'[workQueue[i].mess] = heap[workQueue[i].mess]
      BY <1>4, <1>7, <2>2, <3>2
    <3>4. OnlyAt(refs, k)
      BY <2>2, <3>1, <3>3 DEF FreshInv, Awaiting
    <3>5. ~Bears(mess.id, k)
      <4>1. ~Bears(heap[own].id, k)
        BY <1>2, <1>7, <2>2, <3>1, <3>2, <3>4 DEF OnlyAt
      <4>2. k # ids + 1
        <5>1. OnlyAt({}, k) => ~Bears(heap[workQueue[i].mess].id, k)
          BY <1>7, <2>2, <3>2 DEF OnlyAt
        <5> QED
          BY <1>5, <1>10, <2>2, <3>3, <5>1
      <4> QED
        BY <1>9, <4>1, <4>2
    <3>6. OnlyAt(refs, k)'
      BY <1>11, <3>4, <3>5
    <3> QED
      BY <3>1, <3>2, <3>6 DEF OnlyAt
  <2>3. CASE i \in DOMAIN workQueue
    <3>1. workQueue'[i] = workQueue[i]
      BY <1>6, <2>3
    <3> QED
      BY <2>2, <2>3, <3>1 DEF Awaiting, FreshlyNamed, OwnCopy, Bears, GeneratedId, OnlyAt
  <2> QED
    BY <1>6, <2>1, <2>3
<1>14. Apart'
  <2>1. OwnCopy(s) => Unheld(ref)
    BY <1>3 DEF SendsAs, OwnCopy
  <2>2. ASSUME NEW i \in DOMAIN workQueue', NEW j \in DOMAIN workQueue',
               OwnCopy(workQueue'[i].sent), workQueue'[i].mess = workQueue'[j].mess
        PROVE  i = j
    <3>1. CASE i \in DOMAIN workQueue /\ j \in DOMAIN workQueue
      BY <1>6, <2>2, <3>1 DEF FreshInv, Apart
    <3>2. CASE i \in DOMAIN workQueue /\ j = Len(workQueue) + 1
      BY <1>6, <1>7, <1>w, <2>2, <3>2
    <3>3. CASE i = Len(workQueue) + 1 /\ j \in DOMAIN workQueue
      BY <1>6, <1>w, <2>1, <2>2, <3>3 DEF Unheld
    <3> QED
      BY <1>6, <3>1, <3>2, <3>3
  <2> QED
    BY <2>2 DEF Apart, OwnCopy
<1>15. \A j \in DOMAIN wire' : GivenFresh(wire[j])'
  BY <1>1 DEF FreshInv, GivenFresh, FreshlyNamed, OwnCopy
<1> QED
  BY <1>12, <1>13, <1>14, <1>15 DEF FreshInv

LEMMA InitFresh ==
  ASSUME Init
  PROVE  FreshInv
<1>1. /\ heap = [r \in Refs |-> EmptyMessage] /\ workQueue = <<>> /\ used = {}
      /\ \/ wire = <<>>
         \/ \E i \in DOMAIN Foreign : wire = <<[m |-> Foreign[i], sent |-> [own |-> FALSE]]>>
  BY DEF Init
<1>2. \A j \in DOMAIN wire : /\ \E i \in DOMAIN Foreign : wire[j].m = Foreign[i]
                             /\ ~wire[j].sent.own
  <2>1. CASE wire = <<>>
    BY <2>1
  <2>2. ASSUME NEW i \in DOMAIN Foreign,
               wire = <<[m |-> Foreign[i], sent |-> [own |-> FALSE]]>>
        PROVE  \A j \in DOMAIN wire : wire[j].m = Foreign[i] /\ ~wire[j].sent.own
    <3> DEFINE p == [m |-> Foreign[i], sent |-> [own |-> FALSE]]
    <3>1. p.m = Foreign[i] /\ ~p.sent.own
      OBVIOUS
    <3>2. wire = <<p>>
      BY <2>2
    <3> HIDE DEF p
    <3>3. \A j \in DOMAIN wire : wire[j] = p
      BY <3>2
    <3> QED
      BY <3>1, <3>3
  <2> QED
    BY <1>1, <2>1, <2>2
<1>3. \A i \in DOMAIN Foreign : Foreign[i].id \in GivenIds
  BY DEF GivenIds
<1>4. \A k \in DOMAIN Uuids : OnlyAt({}, k)
  BY <1>1, <1>2, <1>3, EmptySendable, GivenBearsNone DEF OnlyAt
<1> QED
  BY <1>1, <1>2, <1>4 DEF FreshInv, Unissued, Apart, GivenFresh, FreshlyNamed, OwnCopy

LEMMA ApplicationFresh ==
  ASSUME MessagesInv, FreshInv, NEW o \in Live, Application(o)
  PROVE  FreshInv'
<1>1. CASE SetHeader(o)
  BY <1>1, SetHeaderFresh
<1>2. CASE SetProperty(o) \/ ClearProperties(o) \/ ClearBody(o)
  BY <1>2, EditsFresh
<1>3. ASSUME NEW p \in Objects, Clone(o, p) \/ Reply(o, p)
      PROVE  FreshInv'
  BY <1>3, CloneFresh, ReplyFresh
<1>4. CASE Delete(o)
  BY <1>4, DeleteFresh
<1>5. CASE acknowledge(o)
  <2>1. UNCHANGED <<heap, workQueue, wire, used, ids>>
    BY <1>5 DEF acknowledge, network
  <2> QED
    BY <2>1, FreshKept
<1>6. CASE SendAsConfigured(o)
  <2>1. PICK d \in Parameters :
          Send(o, d, producer.mDeliveryMode, producer.mPriority, producer.mTTL)
    BY <1>6 DEF SendAsConfigured
  <2>2. producer.mPriority \in Int /\ IsPointer(d)
    BY InterfaceAssumption DEF InterfaceAssumption, MessagesInv, CountersOK
  <2> QED
    BY <2>1, <2>2, SendFresh
<1>7. CASE SendExplicitly(o)
  <2>1. PICK a \in Explicit : Send(o, a[1], a[2], a[3], a[4])
    BY <1>7 DEF SendExplicitly
  <2>2. a[3] \in Int /\ IsPointer(a[1])
    BY InterfaceAssumption DEF InterfaceAssumption
  <2> QED
    BY <2>1, <2>2, SendFresh
<1>8. CASE SendWithCallback
  <2>1. UNCHANGED <<heap, workQueue, wire, used, ids>>
    BY <1>8 DEF SendWithCallback, network
  <2> QED
    BY <2>1, FreshKept
<1> QED
  BY <1>1, <1>2, <1>3, <1>4, <1>5, <1>6, <1>7, <1>8 DEF Application

LEMMA NextFresh ==
  ASSUME MessagesInv, FreshInv, [Next]_vars
  PROVE  FreshInv'
<1>1. ASSUME NEW o \in Objects, Create(o)
      PROVE  FreshInv'
  BY <1>1, CreateFresh
<1>2. ASSUME NEW o \in Live, Application(o)
      PROVE  FreshInv'
  BY <1>2, ApplicationFresh
<1>3. CASE Producer \/ setMessageListener \/ Tick \/ UNCHANGED vars
  <2>1. UNCHANGED <<heap, workQueue, wire, used, ids>>
    BY <1>3 DEF Producer, setDeliveryMode, setPriority, setTimeToLive, setDisableMessageID,
                setDisableMessageTimeStamp, getDisableMessageID, Setting, setMessageListener,
                Tick, network, vars
  <2> QED
    BY <2>1, FreshKept
<1>4. CASE Transmit
  BY <1>4, TransmitFresh
<1>5. CASE on_message
  BY <1>5, OnMessageFresh
<1> QED
  BY <1>1, <1>2, <1>3, <1>4, <1>5 DEF Next

(* An id that send() generates is one that no message before had, although *)
(* the application may forward, clone and rename messages meanwhile, its   *)
(* own and those that came back; where ids are disabled it sends none.     *)
(* The theorem is about messages that had no id when they were sent.       *)
THEOREM IdsAreFresh == Spec => []FreshIds
<1>1. MessagesInv /\ FreshInv => FreshIds
  <2> SUFFICES ASSUME MessagesInv, FreshInv, NEW j \in Own,
                      wire[j].sent.o.mMessage.id.type = "NULL"
               PROVE  IF wire[j].sent.by.mMessageIdDisabed
                      THEN wire[j].m.id.type = "NULL"
                      ELSE /\ wire[j].m.id.type = "STRING"
                           /\ wire[j].m.id.value \notin wire[j].earlier
    BY DEF FreshIds
  <2>1. WithId(wire[j].m, wire[j].sent)
    BY PromiseKept
  <2>2. GivenFresh(wire[j]) /\ OwnCopy(wire[j].sent)
    BY DEF FreshInv, Own, OwnCopy
  <2>3. \A id \in Generated : id.type = "STRING"
    BY DEF Generated
  <2> QED
    BY <2>1, <2>2, <2>3 DEF WithId, GivenFresh, FreshlyNamed
<1>2. Init => FreshInv
  BY InitFresh
<1>3. MessagesInv /\ FreshInv /\ [Next]_vars => FreshInv'
  BY NextFresh
<1> QED
  BY <1>1, <1>2, <1>3, MessagesInvariant, PTL DEF Spec

=============================================================================
