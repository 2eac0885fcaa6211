------------------------- MODULE CMSMessageClasses -------------------------
(***************************************************************************)
(* CMSMessage, CMSTextMessage and CMSBytesMessage: an AMQP message, the    *)
(* destinations that were decoded from it or set, the delivery it arrived  *)
(* with and, in a bytes message, the bytes.  The getters and setters of    *)
(* the headers and properties forward to AMQPCMSMessageConverter.          *)
(*                                                                         *)
(* An object is a record here, its mMessage by value.  Which objects share *)
(* one AMQP message is the matter of Messages.                             *)
(***************************************************************************)
EXTENDS AMQPCMSMessageConverter

Classes == {"CMSMessage", "CMSTextMessage", "CMSBytesMessage"}

Headers == {"CorrelationID", "DeliveryMode", "Destination", "Expiration",
            "MessageID", "Priority", "Redelivered", "ReplyTo", "Timestamp",
            "Type"}

OCTET_STREAM == "application/octet-stream"
TEXT_MESSAGE  == ByteAnnotation(5)
BYTES_MESSAGE == ByteAnnotation(3)

(* The body's payload is a sequence, of characters or bytes.               *)
Text(s)   == [type |-> "STRING", value |-> s]
Binary(b) == [type |-> "BINARY", value |-> b]

(* The bytes constructors leave mMessageDelivery uninitialised.            *)
Object(class, m, destination, replyTo, bytes, delivery) ==
  [class |-> class, mMessage |-> m, mDestination |-> destination,
   mReplyTo |-> replyTo, mMessageBody |-> bytes, mMessageDelivery |-> delivery]

DurableMessage == [EmptyMessage EXCEPT !.durable = TRUE, !.priority = 4]

-----------------------------------------------------------------------------
(* Constructors.                                                           *)

newCMSMessage ==
  Object("CMSMessage", DurableMessage, nullptr, nullptr, <<>>, "null")

newCMSTextMessage(text) ==
  Object("CMSTextMessage",
         [DurableMessage EXCEPT
           !.body = Text(text),
           !.annotations = Put(@, X_OPT_JMS_MESSAGE_TYPE, TEXT_MESSAGE)],
         nullptr, nullptr, <<>>, "null")

emptyCMSBytesMessage ==
  Object("CMSBytesMessage",
         [DurableMessage EXCEPT
           !.annotations = Put(@, X_OPT_JMS_MESSAGE_TYPE, BYTES_MESSAGE),
           !.content_type = OCTET_STREAM],
         nullptr, nullptr, <<>>, "uninitialised")

setBodyBytes(bytes, o) == [o EXCEPT !.mMessageBody = bytes]

newCMSBytesMessage(bytes) == setBodyBytes(bytes, emptyCMSBytesMessage)

(* The copy constructors, which clone() calls.  A CMSMessage shares its    *)
(* AMQP message with its copy, the others have a copy of their own.  A     *)
(* text message's delivery is not copied, nor a bytes message's reply-to.  *)
copyCMSMessage(o)      == o
copyCMSTextMessage(o)  == [o EXCEPT !.mMessageDelivery = "null"]
copyCMSBytesMessage(o) == [o EXCEPT !.mReplyTo = nullptr]

clone(o) ==
  CASE o.class = "CMSMessage"      -> copyCMSMessage(o)
    [] o.class = "CMSTextMessage"  -> copyCMSTextMessage(o)
    [] o.class = "CMSBytesMessage" -> copyCMSBytesMessage(o)

-----------------------------------------------------------------------------
(* Constructors from an AMQP message.  A link is the address of its target *)
(* or source and the capabilities.                                         *)

ValidOr(d, e) == IF d = InvalidDestination THEN e ELSE d

LinkDestination(link) == createCMSDestination_link(link.capabilities, link.address)

(* Decoding it must not have dereferenced null: see Unreadable.            *)
decodedReplyTo(m) == ValidOr(createCMSReplyToUsingMessageDestination(m), nullptr)

(* Mutant of receivedCMSTextMessage: the body is taken over as bytes.      *)
ReceivedAsBytes(m, receiver) ==
  Object("CMSTextMessage", m, ValidOr(createCMSDestination(m), nullptr),
         decodedReplyTo(m), m.body.value, "copied")

receivedCMSTextMessage(m, receiver) ==
  Object("CMSTextMessage", m,
         ValidOr(createCMSDestination(m), ValidOr(LinkDestination(receiver), nullptr)),
         decodedReplyTo(m), <<>>, "copied")

(* The delivery is the handler's argument, kept by its address.            *)
receivedCMSBytesMessage(m, receiver) ==
  Object("CMSBytesMessage", m,
         ValidOr(createCMSDestination(m), ValidOr(LinkDestination(receiver), nullptr)),
         decodedReplyTo(m), m.body.value, "borrowed")

(* The process ends on a null reply-to; a body that is not binary makes    *)
(* the bytes constructor throw, out of the handler.                        *)
Unreadable(m) ==
  \/ createCMSReplyToUsingMessageDestination(m) = NullDereference
  \/ m.content_type = OCTET_STREAM /\ m.body.type # "BINARY"

(* A CMSMessage decodes by its setters, which encode once more.            *)
decodedCMSMessage(m) ==
  LET d == IF m.address = "" THEN nullptr
           ELSE ValidOr(createCMSDestination(m), nullptr)
      r == IF m.reply_to = "" THEN nullptr ELSE decodedReplyTo(m)
      n == setAMQPDestination(d, m)
  IN  Object("CMSMessage", IF r = nullptr THEN n ELSE setAMQPReplyTo(r, n),
             d, r, <<>>, "null")

(* With a sender or a receiver, whose address serves a message without one.*)
linkedCMSMessage(m, link) ==
  LET o == decodedCMSMessage(m)
      d == LinkDestination(link)
  IN  IF o.mMessage.address = "" /\ d # InvalidDestination
      THEN [o EXCEPT !.mMessage = setAMQPDestination(d, @), !.mDestination = d]
      ELSE o

-----------------------------------------------------------------------------
(* The headers.                                                            *)

CMSMessage_get(header, o) ==
  CASE header = "CorrelationID" -> getCMSCorrelationID(o.mMessage)
    [] header = "DeliveryMode"  -> getCMSDeliveryMode(o.mMessage)
    [] header = "Destination"   -> o.mDestination
    [] header = "Expiration"    -> getCMSExpiration(o.mMessage)
    [] header = "MessageID"     -> getCMSMessageID(o.mMessage)
    [] header = "Priority"      -> getCMSPriority(o.mMessage)
    [] header = "Redelivered"   -> getCMSRedelivered(o.mMessage)
    [] header = "ReplyTo"       -> o.mReplyTo
    [] header = "Timestamp"     -> getCMSTimestamp(o.mMessage)
    [] header = "Type"          -> getCMSType(o.mMessage)

(* The AMQP side of the setter; a null reply-to must not be set.           *)
Encoded(header, value, now, m) ==
  CASE header = "CorrelationID" -> setAMQPCorrelationID(value, m)
    [] header = "DeliveryMode"  -> setAMQPDeliveryMode(value, m)
    [] header = "Destination"   -> setAMQPDestination(value, m)
    [] header = "Expiration"    -> setAMQPExpiration(value, now, m)
    [] header = "MessageID"     -> setAMQPMessageID(value, m)
    [] header = "Priority"      -> setAMQPPriority(value, m)
    [] header = "Redelivered"   -> setAMQPRedelivered(value, m)
    [] header = "ReplyTo"       -> setAMQPReplyTo(value, m)
    [] header = "Timestamp"     -> setAMQPTimestamp(value, m)
    [] header = "Type"          -> setAMQPType(value, m)

CMSMessage_set(header, value, now, o) ==
  [o EXCEPT
    !.mMessage     = Encoded(header, value, now, @),
    !.mDestination = IF header = "Destination" THEN value ELSE @,
    !.mReplyTo     = IF header = "ReplyTo" THEN value ELSE @]

(* Text and bytes messages repeat these line by line.                      *)
CMSTextMessage_get(header, o)              == CMSMessage_get(header, o)
CMSTextMessage_set(header, value, now, o)  == CMSMessage_set(header, value, now, o)
CMSBytesMessage_get(header, o)             == CMSMessage_get(header, o)
CMSBytesMessage_set(header, value, now, o) == CMSMessage_set(header, value, now, o)

(* The virtual calls through cms::Message.                                 *)
get(header, o) ==
  CASE o.class = "CMSMessage"      -> CMSMessage_get(header, o)
    [] o.class = "CMSTextMessage"  -> CMSTextMessage_get(header, o)
    [] o.class = "CMSBytesMessage" -> CMSBytesMessage_get(header, o)

set(header, value, now, o) ==
  CASE o.class = "CMSMessage"      -> CMSMessage_set(header, value, now, o)
    [] o.class = "CMSTextMessage"  -> CMSTextMessage_set(header, value, now, o)
    [] o.class = "CMSBytesMessage" -> CMSBytesMessage_set(header, value, now, o)

-----------------------------------------------------------------------------
(* The properties and the body.                                            *)

CMSMessage_getProperty(type, name, o) == getCMSProperty(type, name, o.mMessage)
CMSMessage_setProperty(type, name, value, o) ==
  [o EXCEPT !.mMessage = setAMQPProperty(type, name, value, @)]

CMSTextMessage_getProperty(type, name, o) ==
  CMSMessage_getProperty(type, name, o)
CMSTextMessage_setProperty(type, name, value, o) ==
  CMSMessage_setProperty(type, name, value, o)
CMSBytesMessage_getProperty(type, name, o) ==
  CMSMessage_getProperty(type, name, o)
CMSBytesMessage_setProperty(type, name, value, o) ==
  CMSMessage_setProperty(type, name, value, o)

getProperty(type, name, o) ==
  CASE o.class = "CMSMessage"      -> CMSMessage_getProperty(type, name, o)
    [] o.class = "CMSTextMessage"  -> CMSTextMessage_getProperty(type, name, o)
    [] o.class = "CMSBytesMessage" -> CMSBytesMessage_getProperty(type, name, o)

setProperty(type, name, value, o) ==
  CASE o.class = "CMSMessage"      -> CMSMessage_setProperty(type, name, value, o)
    [] o.class = "CMSTextMessage"  -> CMSTextMessage_setProperty(type, name, value, o)
    [] o.class = "CMSBytesMessage" -> CMSBytesMessage_setProperty(type, name, value, o)

clearProperties(o) == [o EXCEPT !.mMessage.properties = NoFields]

(* proton::message::clear() makes the message empty, headers and all.      *)
clearBody(o) == [o EXCEPT !.mMessage = EmptyMessage, !.mMessageBody = <<>>]

(* setText() has an empty body.                                            *)
setText(text, o) == o
getText(o) == o.mMessage.body.value

(* Mutant of from_cms_message: the bytes stay with the object.             *)
WithoutBytes(o) == o.mMessage

(* What the producer takes of a message: a bytes message writes its body   *)
(* into the AMQP message first.                                            *)
from_cms_message(o) ==
  IF o.class = "CMSBytesMessage"
  THEN [o.mMessage EXCEPT !.body = Binary(o.mMessageBody)]
  ELSE o.mMessage

(* The message that on_message makes of an AMQP message.                   *)
received(m, receiver) ==
  IF m.content_type = OCTET_STREAM THEN receivedCMSBytesMessage(m, receiver)
                                   ELSE receivedCMSTextMessage(m, receiver)

=============================================================================
