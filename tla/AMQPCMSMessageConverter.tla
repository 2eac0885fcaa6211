---------------------- MODULE AMQPCMSMessageConverter ----------------------
(***************************************************************************)
(* cms::amqp::AMQPCMSMessageConverter: the functions between the headers   *)
(* of a CMS message and the fields of an AMQP message (proton::message).   *)
(*                                                                         *)
(* An AMQP message is a record.  An identifier of the CMS side is a string *)
(* such as "ID:AMQP_ULONG:42", here the sequence of its prefixes and the   *)
(* text after them, <<"ID:", "AMQP_ULONG:", "42">>; an identifier of the   *)
(* AMQP side is typed, [type |-> "ULONG", value |-> 42].  A function that  *)
(* throws returns Throw(what), a record of the same shape.                 *)
(***************************************************************************)
EXTENDS Integers, Sequences, FiniteSets, TLC

CONSTANTS
  Reading,   \* what the C++ library reads in a text: [Texts -> Readings]
  ULongMax,  \* the largest unsigned long
  MinInt     \* the smallest int

Texts == DOMAIN Reading

(* length: its characters; hex: the bytes it spells in hexadecimal;        *)
(* ulong: the number std::stoul finds; uuid: whether it has the form of a  *)
(* UUID; printed: whether it is the form in which the library prints what  *)
(* it reads (upper case, no leading zeros).                                *)
NotHex    == <<-1>>
NotNumber == -1
Readings  == [length : Nat, hex : Seq(-1..255), ulong : Int,
              uuid : BOOLEAN, printed : BOOLEAN]

ASSUME ConverterAssumption ==
  /\ \A t \in Texts : Reading[t] \in Readings
  /\ ULongMax \in Nat
  /\ MinInt \in Int /\ MinInt < 0 /\ MinInt % 256 = 0

Throw(what) == [type |-> "thrown", value |-> what]
Threw(x)    == x.type = "thrown"

-----------------------------------------------------------------------------
(* proton::message                                                         *)

NoId     == [type |-> "NULL", value |-> 0]
NoBody   == [type |-> "NULL", value |-> <<>>]
NoFields == [x \in {} |-> 0]

(* A default-constructed proton::message; address() and to() are one field.*)
EmptyMessage ==
  [id |-> NoId, correlation_id |-> NoId, address |-> "", reply_to |-> "",
   annotations |-> NoFields, durable |-> FALSE, priority |-> 4, ttl |-> 0,
   expiry_time |-> 0, creation_time |-> 0, delivery_count |-> 0,
   subject |-> "", properties |-> NoFields, group_id |-> "",
   group_sequence |-> 0, content_type |-> "", body |-> NoBody]

(* annotation_map::put and property map::put.                              *)
Put(map, key, value) ==
  [k \in DOMAIN map \cup {key} |-> IF k = key THEN value ELSE map[k]]

-----------------------------------------------------------------------------
(* Destinations.                                                           *)

QUEUE_CAPABILITY           == "queue"
TOPIC_CAPABILITY           == "topic"
TEMPORARY_QUEUE_CAPABILITY == "temporary-queue"
TEMPORARY_TOPIC_CAPABILITY == "temporary-topic"

X_OPT_JMS_DEST         == "x-opt-jms-dest"
X_OPT_JMS_REPLY_TO     == "x-opt-jms-reply-to"
X_OPT_JMS_MESSAGE_TYPE == "x-opt-jms-msg-type"

DestinationTypes == <<"QUEUE", "TOPIC", "TEMPORARY_QUEUE", "TEMPORARY_TOPIC">>

nullptr == [type |-> "null", name |-> ""]
InvalidDestination == [type |-> "thrown", name |-> "InvalidDestinationException"]
NullDereference    == [type |-> "thrown", name |-> "nullDereference"]

(* The four destination classes: a type and a name, which clone() copies.  *)
(* copy() and destroy() throw.  A temporary one is made without a name.    *)
Destination(type, name)   == [type |-> type, name |-> name]
CMSQueue(name)            == Destination("QUEUE", name)
CMSTopic(name)            == Destination("TOPIC", name)
CMSTemporaryQueue(name)   == Destination("TEMPORARY_QUEUE", name)
CMSTemporaryTopic(name)   == Destination("TEMPORARY_TOPIC", name)

(* equals(): the type first, then the name.                                *)
equals(d, e) == d.type = e.type /\ d.name = e.name

Capabilities == {QUEUE_CAPABILITY, TOPIC_CAPABILITY, TEMPORARY_QUEUE_CAPABILITY,
                 TEMPORARY_TOPIC_CAPABILITY}

(* The first capability of the link that is one of the four.               *)
capabilityToDestinationType(capabilities) ==
  LET known == {i \in DOMAIN capabilities : capabilities[i] \in Capabilities}
      first == CHOOSE i \in known : \A j \in known : i <= j
      capability == capabilities[first]
  IN  CASE known = {} -> "thrown"
        [] known # {} /\ capability = QUEUE_CAPABILITY -> "QUEUE"
        [] known # {} /\ capability = TOPIC_CAPABILITY -> "TOPIC"
        [] known # {} /\ capability = TEMPORARY_QUEUE_CAPABILITY -> "TEMPORARY_QUEUE"
        [] known # {} /\ capability = TEMPORARY_TOPIC_CAPABILITY -> "TEMPORARY_TOPIC"

(* Mutant of JMSTypeToDestinationType: the JMS types start at one.         *)
TypesFromOne(type) ==
  IF type \in 1..4 THEN DestinationTypes[type] ELSE "thrown"

JMSTypeToDestinationType(type) ==
  IF type \in 0..3 THEN DestinationTypes[type + 1] ELSE "thrown"

destinationTypeToJMSType(type) ==
  (CHOOSE i \in DOMAIN DestinationTypes : DestinationTypes[i] = type) - 1

(* The annotation is a byte, signed or unsigned, or it is refused.         *)
annotationsToDestinationType(annotations, key) ==
  IF key \in DOMAIN annotations /\ annotations[key].type \in {"BYTE", "UBYTE"}
  THEN JMSTypeToDestinationType(annotations[key].value)
  ELSE "thrown"

createCMSDestination_link(capabilities, address) ==
  LET type == capabilityToDestinationType(capabilities)
  IN  IF type = "thrown" THEN InvalidDestination
                         ELSE Destination(type, address)

createCMSDestination(m) ==
  LET type == annotationsToDestinationType(m.annotations, X_OPT_JMS_DEST)
  IN  IF m.address = "" \/ type = "thrown"
      THEN InvalidDestination
      ELSE Destination(type, m.address)

(* For a temporary topic no object is created and its name is set through  *)
(* the null pointer.                                                       *)
createCMSReplyToUsingMessageDestination(m) ==
  LET type == annotationsToDestinationType(m.annotations, X_OPT_JMS_REPLY_TO)
  IN  CASE m.reply_to = "" -> nullptr
        [] m.reply_to # "" /\ type = "thrown" -> InvalidDestination
        [] m.reply_to # "" /\ type = "TEMPORARY_TOPIC" -> NullDereference
        [] OTHER -> Destination(type, m.reply_to)

(* A temporary topic has no address.                                       *)
destinationToAddress(d) == IF d.type = "TEMPORARY_TOPIC" THEN "" ELSE d.name

ByteAnnotation(v) == [type |-> "BYTE", value |-> v]

(* A null destination changes nothing.                                     *)
setAMQPDestination(d, m) ==
  IF d = nullptr THEN m
  ELSE [m EXCEPT
         !.address = destinationToAddress(d),
         !.annotations = Put(@, X_OPT_JMS_DEST,
                             ByteAnnotation(destinationTypeToJMSType(d.type)))]

(* The pointer is dereferenced unchecked: d # nullptr is the caller's duty.*)
setAMQPReplyTo(d, m) ==
  [m EXCEPT
    !.reply_to = destinationToAddress(d),
    !.annotations = Put(@, X_OPT_JMS_REPLY_TO,
                        ByteAnnotation(destinationTypeToJMSType(d.type)))]

-----------------------------------------------------------------------------
(* Identifiers.                                                            *)

TypePrefixes ==
  {"AMQP_BINARY:", "AMQP_UUID:", "AMQP_ULONG:", "AMQP_NO_PREFIX:", "AMQP_STRING:"}

(* The regular expression ^ID:(AMQP_BINARY:|...)                           *)
HasTypePrefix(s) ==
  Len(s) > 1 /\ s[1] = "ID:" /\ s[2] \in TypePrefixes

(* The AMQP type that the prefix of s names, and the text after it.  The   *)
(* expression here has AMQP_NO_PREFIX without its colon: a string with     *)
(* that and no further colon is cut at position -1, which throws.          *)
prefixToType(s) ==
  LET TypeOf(prefix) ==
        CASE prefix = "AMQP_BINARY:" -> "BINARY"
          [] prefix = "AMQP_UUID:"   -> "UUID"
          [] prefix = "AMQP_ULONG:"  -> "ULONG"
          [] prefix \in {"AMQP_NO_PREFIX:", "AMQP_STRING:"} -> "STRING"
  IN  IF s = <<"ID:", "AMQP_NO_PREFIX">> THEN Throw("out_of_range")
      ELSE IF HasTypePrefix(s)
      THEN [type |-> TypeOf(s[2]), value |-> SubSeq(s, 3, Len(s))]
      ELSE [type |-> "STRING", value |-> s]

(* std::stoll reads a run of digits at once, into 64 bits with a sign.     *)
OverflowsLongLong(b) == Len(b) > 8 \/ (Len(b) = 8 /\ b[1] >= 128)

hexStringToArray(t) ==
  IF Reading[t].uuid THEN [type |-> "UUID", value |-> Reading[t].hex]
                     ELSE Throw("CMSException")

hexStringToBinaryArray(t) ==
  CASE Reading[t].length % 2 = 1 -> Throw("CMSException")
    [] Reading[t].length % 2 = 0 /\ Reading[t].hex = NotHex ->
         Throw("invalid_argument")
    [] Reading[t].length % 2 = 0 /\ OverflowsLongLong(Reading[t].hex) ->
         Throw("out_of_range")
    [] OTHER -> [type |-> "BINARY", value |-> Reading[t].hex]

stoul(t) ==
  CASE Reading[t].ulong = NotNumber -> Throw("invalid_argument")
    [] Reading[t].ulong > ULongMax -> Throw("out_of_range")
    [] OTHER -> [type |-> "ULONG", value |-> Reading[t].ulong]

(* The typed identifier after an "ID:AMQP_<type>:" prefix.                 *)
TypedId(type, t) ==
  CASE type = "UUID"   -> hexStringToArray(t)
    [] type = "BINARY" -> hexStringToBinaryArray(t)
    [] type = "ULONG"  -> stoul(t)

(* How the library prints a value that is not a string.                    *)
binaryArrayToHexString(b) ==
  CHOOSE t \in Texts : /\ Reading[t].hex = b
                       /\ Reading[t].printed
                       /\ ~Reading[t].uuid
UuidString(u) ==
  CHOOSE t \in Texts : Reading[t].hex = u /\ Reading[t].uuid
ULongString(n) ==
  CHOOSE t \in Texts : Reading[t].ulong = n /\ Reading[t].printed

PrintedId(id) ==
  CASE id.type = "UUID"   -> <<"ID:", "AMQP_UUID:", UuidString(id.value)>>
    [] id.type = "BINARY" -> <<"ID:", "AMQP_BINARY:",
                               binaryArrayToHexString(id.value)>>
    [] id.type = "ULONG"  -> <<"ID:", "AMQP_ULONG:", ULongString(id.value)>>
    [] OTHER              -> <<>>

(* A string that looks typed is escaped, and one without "ID:" is marked.  *)
getCMSMessageID(m) ==
  CASE m.id.type # "STRING" -> PrintedId(m.id)
    [] m.id.type = "STRING" /\ HasTypePrefix(m.id.value) ->
         <<"ID:", "AMQP_STRING:">> \o m.id.value
    [] m.id.type = "STRING" /\ Head(m.id.value) # "ID:" ->
         <<"ID:", "AMQP_NO_PREFIX:">> \o m.id.value
    [] OTHER -> m.id.value

(* The identifier that a CMS message id stands for: the escape and the     *)
(* mark are taken off a string again.                                      *)
MessageIdOf(s) ==
  LET p == prefixToType(s)
  IN  IF p.type \in {"thrown", "STRING"} THEN p ELSE TypedId(p.type, p.value[1])

(* An exception leaves the message as it was.                              *)
setAMQPMessageID(s, m) ==
  IF Threw(MessageIdOf(s)) THEN m ELSE [m EXCEPT !.id = MessageIdOf(s)]

(* The escape here is AMQP_AMQP_STRING, which prefixToType does not know.  *)
getCMSCorrelationID(m) ==
  CASE m.correlation_id.type # "STRING" -> PrintedId(m.correlation_id)
    [] m.correlation_id.type = "STRING" /\ HasTypePrefix(m.correlation_id.value) ->
         <<"ID:", "AMQP_AMQP_STRING:">> \o m.correlation_id.value
    [] OTHER -> m.correlation_id.value

(* Mutant of CorrelationIdOf: every correlation id is stored as a string.  *)
StringCorrelation(s) == [type |-> "STRING", value |-> s]

(* A string is stored whole, its prefix included.                          *)
CorrelationIdOf(s) ==
  LET p == prefixToType(s)
  IN  CASE p.type = "thrown" -> p
        [] p.type = "STRING" -> [type |-> "STRING", value |-> s]
        [] OTHER -> TypedId(p.type, p.value[1])

setAMQPCorrelationID(s, m) ==
  IF Threw(CorrelationIdOf(s)) THEN m
  ELSE [m EXCEPT !.correlation_id = CorrelationIdOf(s)]

-----------------------------------------------------------------------------
(* The other headers.                                                      *)

PERSISTENT     == 0
NON_PERSISTENT == 1

getCMSDeliveryMode(m)        == IF m.durable THEN PERSISTENT ELSE NON_PERSISTENT
setAMQPDeliveryMode(mode, m) == [m EXCEPT !.durable = (mode = PERSISTENT)]

(* std::abs of the smallest int is that int again.                         *)
Abs(n) == IF n < 0 /\ n # MinInt THEN -n ELSE n
Min(a, b) == IF a < b THEN a ELSE b

getCMSPriority(m)     == Min(m.priority, 9)
setAMQPPriority(p, m) == [m EXCEPT !.priority = Min(Abs(p), 9) % 256]

(* Mutant of getCMSExpiration: the expiry time even without a ttl.         *)
ExpiryAlone(m) == m.expiry_time

getCMSExpiration(m) == IF m.ttl > 0 THEN m.expiry_time ELSE 0

(* A time to live that is not positive leaves the one before in place.     *)
setAMQPExpiration(expireTime, now, m) ==
  IF expireTime > 0
  THEN [m EXCEPT !.ttl = expireTime, !.expiry_time = now + expireTime]
  ELSE m

getCMSRedelivered(m) == m.delivery_count > 0
setAMQPRedelivered(redelivered, m) ==
  [m EXCEPT !.delivery_count = IF redelivered THEN @ + 1 ELSE 0]

getCMSTimestamp(m)     == m.creation_time
setAMQPTimestamp(t, m) == [m EXCEPT !.creation_time = t]

getCMSType(m)        == m.subject
setAMQPType(type, m) == [m EXCEPT !.subject = type]

-----------------------------------------------------------------------------
(* Properties.                                                             *)

CMSXGroupID  == "CMSXGroupID"
CMSXGroupSeq == "CMSXGroupSeq"

getPropertyNames(m)     == DOMAIN m.properties
propertyExists(name, m) == name \in DOMAIN m.properties

(* The eight getters: proton::get<T> takes a value of the type T only.     *)
getCMSProperty(type, name, m) ==
  CASE ~propertyExists(name, m) -> Throw("CMSException")
    [] propertyExists(name, m) /\ m.properties[name].type # type ->
         Throw("MessageFormatException")
    [] OTHER -> m.properties[name]

(* The eight setters; a group is a field of the AMQP message, and no       *)
(* property that a getter would find.                                      *)
setAMQPProperty(type, name, value, m) ==
  CASE type = "INT" /\ name = CMSXGroupSeq ->
         [m EXCEPT !.group_sequence = value]
    [] type = "STRING" /\ name = CMSXGroupID -> [m EXCEPT !.group_id = value]
    [] OTHER ->
         [m EXCEPT !.properties = Put(@, name, [type |-> type, value |-> value])]

(* Of the AMQP types that CMS has no type for, decimals become floats, an  *)
(* unsigned byte a byte, and the rest is unknown.                          *)
type_id_to_ValueType(type) ==
  CASE type \in {"NULL", "BOOLEAN", "BYTE", "SHORT", "CHAR", "LONG", "FLOAT",
                 "DOUBLE", "STRING"} -> type
    [] type = "UBYTE" -> "BYTE"
    [] type = "INT" -> "INTEGER"
    [] type \in {"DECIMAL32", "DECIMAL64"} -> "FLOAT"
    [] type = "DECIMAL128" -> "DOUBLE"
    [] OTHER -> "UNKNOWN"

getPropertyValueType(name, m) ==
  type_id_to_ValueType(IF propertyExists(name, m) THEN m.properties[name].type
                                                  ELSE "NULL")

=============================================================================
