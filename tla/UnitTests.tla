----------------------------- MODULE UnitTests -----------------------------
(***************************************************************************)
(* The repository's unit tests of the messages, the converter and the      *)
(* broker URL, run against this model of them: a test is the sequence of   *)
(* its statements, which are run one by one on an object of its own.  What *)
(* the tests expect of the code the model must deliver.  Disabled and      *)
(* skipped tests are left out.                                             *)
(***************************************************************************)
EXTENDS CMSMessageClasses

CONSTANTS
  Number,  \* see URIParser
  MaxInt   \* the largest int

URI == INSTANCE URIParser

VARIABLES
  suite, test,  \* the test that runs
  class,        \* the parameter of a TEST_P
  step,         \* the statement that is next
  mUUT,         \* the object under test: a message, or a parser's parameters
  failed        \* has an expectation failed?

vars == <<suite, test, class, step, mUUT, failed>>

-----------------------------------------------------------------------------
(* Statements.                                                             *)

Set(header, value)         == [do |-> "set", header |-> header, value |-> value]
FromAMQP(m)                == [do |-> "fromAMQP", m |-> m]
SetProperty(type, n, v)    == [do |-> "setProperty", type |-> type, name |-> n, value |-> v]
ClearProperties            == [do |-> "clearProperties"]
ClearBody                  == [do |-> "clearBody"]
SetBodyBytes(bytes)        == [do |-> "setBodyBytes", bytes |-> bytes]
ParseURI(options)          == [do |-> "parseURI", options |-> options]

(* Expectations.                                                           *)
Get(header, value)         == [do |-> "get", header |-> header, value |-> value]
Equals(header, d, result)  == [do |-> "equals", header |-> header, d |-> d, result |-> result]
Alike(d, e, result)        == [do |-> "alike", d |-> d, e |-> e, result |-> result]
Refuses(header, value)     == [do |-> "refuses", header |-> header, value |-> value]
GetProperty(type, n, r)    == [do |-> "getProperty", type |-> type, name |-> n, result |-> r]
ValueType(n, type)         == [do |-> "valueType", name |-> n, type |-> type]
Exists(n, result)          == [do |-> "exists", name |-> n, result |-> result]
Names(names)               == [do |-> "names", names |-> names]
HasBody(result)            == [do |-> "hasBody", result |-> result]
Option(c, key, text)       == [do |-> "option", class |-> c, key |-> key, text |-> text]

(* The object after a statement.                                           *)
Done(s, o) ==
  CASE s.do = "set"             -> set(s.header, s.value, 0, o)
    [] s.do = "fromAMQP"        -> decodedCMSMessage(s.m)
    [] s.do = "setProperty"     -> setProperty(s.type, s.name, s.value, o)
    [] s.do = "clearProperties" -> clearProperties(o)
    [] s.do = "clearBody"       -> clearBody(o)
    [] s.do = "setBodyBytes"    -> setBodyBytes(s.bytes, o)
    [] s.do = "parseURI"        ->
         URI!parseURI([failover |-> FALSE, urls |-> <<"tcp">>, options |-> s.options])
    [] OTHER -> o

BodyOf(o) == IF o.class = "CMSBytesMessage" THEN o.mMessageBody ELSE getText(o)

(* Is the expectation met, when the statement is one?                      *)
Met(s, o) ==
  CASE s.do = "get"         -> get(s.header, o) = s.value
    [] s.do = "equals"      -> /\ get(s.header, o) # nullptr
                               /\ equals(get(s.header, o), s.d) = s.result
    [] s.do = "alike"       -> equals(s.d, s.e) = s.result
    [] s.do = "refuses"     -> Threw(IF s.header = "MessageID"
                                     THEN MessageIdOf(s.value)
                                     ELSE CorrelationIdOf(s.value))
    [] s.do = "getProperty" -> getProperty(s.type, s.name, o) = s.result
    [] s.do = "valueType"   -> getPropertyValueType(s.name, o.mMessage) = s.type
    [] s.do = "exists"      -> propertyExists(s.name, o.mMessage) = s.result
    [] s.do = "names"       -> getPropertyNames(o.mMessage) = s.names
    [] s.do = "hasBody"     -> (BodyOf(o) # <<>>) = s.result
    [] s.do = "option"      ->
         o[s.class][s.key] = IF s.key \in URI!Flags THEN s.text = "true"
                                                    ELSE Number[s.text]
    [] OTHER -> TRUE

-----------------------------------------------------------------------------
(* Message_JMS_AMQ_Mapping_UT.                                             *)

Received(m, header, value) == <<FromAMQP(m), Get(header, value)>>
Kept(header, value)        == <<Set(header, value), Get(header, value)>>
Refused(header, value)     == <<Refuses(header, value)>>

Id(type, value) == [type |-> type, value |-> value]
Uuid   == <<1, 2>>
Thirty == Reading["thirty"].hex

WithId(type, value)          == [EmptyMessage EXCEPT !.id = Id(type, value)]
WithCorrelation(type, value) == [EmptyMessage EXCEPT !.correlation_id = Id(type, value)]

AMQPMessageIDTests ==
  << Received(WithId("STRING", <<"ID:", "message-id">>), "MessageID", <<"ID:", "message-id">>),
     Received(WithId("STRING", <<"non-prefixed">>),
              "MessageID", <<"ID:", "AMQP_NO_PREFIX:", "non-prefixed">>),
     Received(WithId("UUID", Uuid), "MessageID", <<"ID:", "AMQP_UUID:", "uuid">>),
     Received(WithId("ULONG", 123456), "MessageID", <<"ID:", "AMQP_ULONG:", "123456">>),
     Received(WithId("BINARY", Thirty), "MessageID", <<"ID:", "AMQP_BINARY:", "thirty">>),
     Received(WithId("STRING", <<"ID:", "AMQP_ULONG:", "string-id">>), "MessageID",
              <<"ID:", "AMQP_STRING:", "ID:", "AMQP_ULONG:", "string-id">>),
     Received(WithCorrelation("STRING", <<"AMQP_ULONG:", "foo">>), "CorrelationID",
              <<"AMQP_ULONG:", "foo">>) >>

JMSMessageIDTests ==
  << Kept("MessageID", <<"ID:", "my-string-id">>),
     << Set("MessageID", <<"non-prefixed">>),
        Get("MessageID", <<"ID:", "AMQP_NO_PREFIX:", "non-prefixed">>) >>,
     Kept("MessageID", <<"ID:", "AMQP_BINARY:", "01ABCDEF0F3E">>),
     Kept("MessageID", <<"ID:", "AMQP_UUID:", "uuid">>),
     Kept("MessageID", <<"ID:", "AMQP_ULONG:", "12345678">>),
     Kept("MessageID", <<"ID:", "AMQP_NO_PREFIX:", "no-prefix-corrid">>),
     Kept("MessageID",
          <<"ID:", "AMQP_STRING:", "ID:", "AMQP_ULONG:", "string-prefix-corrid">>) >>

MessageIDErrorTests ==
  << Refused("MessageID", <<"ID:", "AMQP_UUID:", "123456">>),
     Refused("MessageID", <<"ID:", "AMQP_ULONG:", "corrid">>),
     Refused("MessageID", <<"ID:", "AMQP_BINARY:", "nonhexstring">>),
     Refused("MessageID", <<"ID:", "AMQP_BINARY:", "ab13f">>) >>

JMSCorrelationIDTests ==
  << Kept("CorrelationID", <<"application-specific">>),
     Kept("CorrelationID", <<"AMQP_ULONG:", "42">>),
     Kept("CorrelationID", <<"AMQP_ULONG:", "foo">>) >>

AMQPCorrelationIDTests ==
  << Received(WithCorrelation("STRING", <<"ID:", "string-corrID">>),
              "CorrelationID", <<"ID:", "string-corrID">>),
     Received(WithCorrelation("STRING", <<"application-specific">>),
              "CorrelationID", <<"application-specific">>),
     Received(WithCorrelation("UUID", Uuid), "CorrelationID", <<"ID:", "AMQP_UUID:", "uuid">>),
     Received(WithCorrelation("ULONG", 123456),
              "CorrelationID", <<"ID:", "AMQP_ULONG:", "123456">>),
     Received(WithCorrelation("BINARY", Thirty),
              "CorrelationID", <<"ID:", "AMQP_BINARY:", "thirty">>),
     Received(WithCorrelation("STRING", <<"ID:", "AMQP_ULONG:", "123456">>), "CorrelationID",
              <<"ID:", "AMQP_AMQP_STRING:", "ID:", "AMQP_ULONG:", "123456">>),
     Received(WithCorrelation("STRING", <<"AMQP_ULONG:", "foo">>),
              "CorrelationID", <<"AMQP_ULONG:", "foo">>) >>

CorrelationIDRoundTripTests ==
  << Kept("CorrelationID", <<"ID:", "my-string-id">>),
     Kept("CorrelationID", <<"non-prefixed">>),
     Kept("CorrelationID", <<"ID:", "AMQP_UUID:", "uuid">>),
     Kept("CorrelationID", <<"ID:", "AMQP_ULONG:", "123456">>),
     Received(WithCorrelation("BINARY", Thirty),
              "CorrelationID", <<"ID:", "AMQP_BINARY:", "thirty">>),
     << Set("CorrelationID", <<"ID:", "AMQP_STRING:", "string-correlation-id">>) >> >>

CorrelationIDErrorTests ==
  << Refused("CorrelationID", <<"ID:", "AMQP_UUID:", "123456">>),
     Refused("CorrelationID", <<"ID:", "AMQP_ULONG:", "corrid">>),
     Refused("CorrelationID", <<"ID:", "AMQP_BINARY:", "nonhexstring">>) >>

DeliveryModeTests ==
  << Received([EmptyMessage EXCEPT !.durable = TRUE], "DeliveryMode", PERSISTENT),
     Received([EmptyMessage EXCEPT !.durable = FALSE], "DeliveryMode", NON_PERSISTENT),
     Kept("DeliveryMode", PERSISTENT),
     Kept("DeliveryMode", NON_PERSISTENT) >>

TimestampTests == << Kept("Timestamp", 1) >>

UnsignedByte(n) == [type |-> "UBYTE", value |-> n]
To(address, key, n) ==
  [EmptyMessage EXCEPT !.address = address,
                       !.annotations = Put(@, key, UnsignedByte(n))]
ReplyingTo(address, n) ==
  [EmptyMessage EXCEPT !.reply_to = address,
                       !.annotations = Put(@, X_OPT_JMS_REPLY_TO, UnsignedByte(n))]

AMQPDestinationTests ==
  << Received(To("", X_OPT_JMS_DEST, 0), "Destination", nullptr),
     Received([EmptyMessage EXCEPT !.address = "test"], "Destination", nullptr),
     Received(EmptyMessage, "Destination", nullptr),
     << FromAMQP(To("test", X_OPT_JMS_DEST, 0)), Equals("Destination", CMSQueue("test"), TRUE) >>,
     Received(To("test", X_OPT_JMS_DEST, 5), "Destination", nullptr),
     << FromAMQP(To("test", X_OPT_JMS_DEST, 1)), Equals("Destination", CMSTopic("test"), TRUE) >> >>

EqualityTests ==
  << << Alike(CMSQueue("test"), CMSQueue("test"), TRUE) >>,
     << Alike(CMSTopic("test"), CMSTopic("test"), TRUE) >>,
     << Alike(CMSQueue("test"), CMSQueue("other"), FALSE) >>,
     << Alike(CMSTopic("test"), CMSTopic("other"), FALSE) >>,
     << Alike(CMSQueue("test"), CMSTopic("test"), FALSE) >>,
     << Alike(CMSTopic("test"), CMSQueue("test"), FALSE) >>,
     << Alike(CMSQueue("test"), CMSTopic("other"), FALSE) >>,
     << Alike(CMSTopic("test"), CMSQueue("other"), FALSE) >> >>

Compared(header, d, e, result) == << Set(header, d), Equals(header, e, result) >>

(* The seven tests that exist for the destination and for the reply-to.    *)
ComparedTests(header) ==
  << Compared(header, CMSQueue("test"), CMSQueue("test"), TRUE),
     Compared(header, CMSTopic("test"), CMSTopic("test"), TRUE),
     Compared(header, CMSQueue("test"), CMSQueue("compared"), FALSE),
     Compared(header, CMSQueue("test"), CMSTopic("test"), FALSE),
     Compared(header, CMSTopic("test"), CMSQueue("test"), FALSE),
     Compared(header, CMSQueue("test"), CMSTopic("compared"), FALSE),
     Compared(header, CMSTopic("test"), CMSQueue("compared"), FALSE) >>
DestinationTests == ComparedTests("Destination")
ReplyToTests     == ComparedTests("ReplyTo")

AMQPReplyToTests ==
  << << FromAMQP(ReplyingTo("test", 0)), Equals("ReplyTo", CMSQueue("test"), TRUE) >>,
     << FromAMQP(ReplyingTo("test", 1)), Equals("ReplyTo", CMSTopic("test"), TRUE) >>,
     Received([EmptyMessage EXCEPT !.reply_to = "test"], "ReplyTo", nullptr),
     Received(ReplyingTo("test", 5), "ReplyTo", nullptr) >>

ExpirationTests ==
  << Received([EmptyMessage EXCEPT !.expiry_time = 101, !.ttl = 100], "Expiration", 101),
     Received([EmptyMessage EXCEPT !.ttl = 100], "Expiration", 0),
     Received([EmptyMessage EXCEPT !.expiry_time = 101], "Expiration", 0),
     Received(EmptyMessage, "Expiration", 0) >>

PriorityTests ==
  << Received([EmptyMessage EXCEPT !.priority = 0], "Priority", 0),
     Received([EmptyMessage EXCEPT !.priority = 255], "Priority", 9),
     << Set("Priority", MinInt), Get("Priority", 0) >>,
     << Set("Priority", MaxInt), Get("Priority", 9) >> >>

RedeliveredTests ==
  << Received([EmptyMessage EXCEPT !.delivery_count = 3], "Redelivered", TRUE),
     Received(EmptyMessage, "Redelivered", FALSE),
     Kept("Redelivered", TRUE),
     Kept("Redelivered", FALSE) >>

TypeTests ==
  << Received([EmptyMessage EXCEPT !.subject = "subject"], "Type", "subject"),
     Received(EmptyMessage, "Type", ""),
     Kept("Type", "subject"),
     << Get("Type", "") >> >>

Value(type, v) == [type |-> type, value |-> v]

JMSXTests ==
  << << SetProperty("STRING", "JMSXGroupID", "Group-0"),
        GetProperty("STRING", "JMSXGroupID", Value("STRING", "Group-0")) >> >>

-----------------------------------------------------------------------------
(* MessageDefaultProperties_UT and Message_Properties_UT.                  *)

DefaultTests ==
  << << Get("ReplyTo", nullptr) >>, << Get("Type", "") >>,
     << Get("DeliveryMode", PERSISTENT) >>, << Get("Priority", 4) >>,
     << Get("MessageID", <<>>) >>, << Get("CorrelationID", <<>>) >>,
     << Get("Expiration", 0) >>, << Get("Redelivered", FALSE) >> >>

ExistsTests ==
  << << Exists("non_existing_property", FALSE) >>,
     << SetProperty("BOOLEAN", "existing_property", "min"),
        Exists("existing_property", TRUE) >> >>

Primitives == <<"BOOLEAN", "BYTE", "DOUBLE", "FLOAT", "INT", "LONG", "SHORT">>

(* One test per type: the extreme values are kept.                         *)
EdgeTests ==
  [i \in DOMAIN Primitives |->
     << SetProperty(Primitives[i], "max", "max"), SetProperty(Primitives[i], "min", "min"),
        GetProperty(Primitives[i], "max", Value(Primitives[i], "max")),
        GetProperty(Primitives[i], "min", Value(Primitives[i], "min")) >>] \o
  << << SetProperty("STRING", "string", "s"),
        GetProperty("STRING", "string", Value("STRING", "s")) >> >>

MissingTests ==
  [i \in DOMAIN Primitives |->
     << GetProperty(Primitives[i], "max", Throw("CMSException")) >>] \o
  [i \in DOMAIN Primitives |->
     << GetProperty(Primitives[i], "min", Throw("CMSException")) >>] \o
  << << GetProperty("STRING", "string", Throw("CMSException")) >> >>

(* What was set as one type is refused to the getters of the others.       *)
Converted(type, others) ==
  << SetProperty(type, "max", "max") >> \o
  [i \in DOMAIN others |->
     GetProperty(others[i], "max", Throw("MessageFormatException"))]

ConversionTests ==
  << Converted("BOOLEAN", <<"BYTE", "DOUBLE", "FLOAT", "INT", "LONG", "SHORT", "STRING">>),
     Converted("BYTE", <<"DOUBLE", "FLOAT", "INT", "LONG", "SHORT", "BOOLEAN", "STRING">>),
     Converted("DOUBLE", <<"SHORT", "FLOAT", "INT", "LONG", "BOOLEAN", "STRING">>),
     Converted("FLOAT", <<"DOUBLE", "SHORT", "INT", "LONG", "BOOLEAN", "STRING">>),
     Converted("INT", <<"DOUBLE", "FLOAT", "SHORT", "LONG", "BOOLEAN", "STRING">>) >>
LongConversionTests ==
  << Converted("LONG", <<"DOUBLE", "FLOAT", "INT", "SHORT", "BOOLEAN", "STRING">>),
     Converted("SHORT", <<"DOUBLE", "FLOAT", "INT", "LONG", "BYTE", "BOOLEAN", "STRING">>),
     Converted("STRING", <<"DOUBLE", "FLOAT", "INT", "LONG", "BYTE", "BOOLEAN", "SHORT">>) >>

ValueTypeTests ==
  LET Typed(type, as) == << SetProperty(type, "p", "max"), ValueType("p", as) >>
  IN  << Typed("BOOLEAN", "BOOLEAN"), Typed("BYTE", "BYTE"), Typed("SHORT", "SHORT"),
         Typed("INT", "INTEGER"), Typed("LONG", "LONG"), Typed("FLOAT", "FLOAT"),
         Typed("DOUBLE", "DOUBLE"), Typed("STRING", "STRING") >>

AllTypes == Append(Primitives, "STRING")
SetAll   == [i \in DOMAIN AllTypes |-> SetProperty(AllTypes[i], AllTypes[i], "v")]
AllNames == {AllTypes[i] : i \in DOMAIN AllTypes}

NamesTests == << Append(SetAll, Names(AllNames)) >>
ClearTests == << SetAll \o << Names(AllNames), ClearProperties, Names({}) >> >>

BytesBodyTests == << << SetBodyBytes(<<1, 2, 3, 4, 5>>), HasBody(TRUE), ClearBody, HasBody(FALSE) >> >>
TextBodyTests  == << << HasBody(TRUE), ClearBody, HasBody(FALSE) >> >>

-----------------------------------------------------------------------------
(* URIParser_UT: the options as <<group, key, text>>.                      *)

SocketOptions ==
  << <<"inputBufferSize", "1234">>, <<"outputBufferSize", "1234">>, <<"soLinger", "1234">>,
     <<"soKeepAlive", "true">>, <<"soReceiveBufferSize", "1234">>,
     <<"soSendBufferSize", "1234">>, <<"soConnectionTimeout", "1234">>,
     <<"tcpNoDelay", "false">> >>
TransportOptions ==
  << <<"commandTracingEnabled", "true">>, <<"responseCorrelator_MaxResponseWaitTime", "1234">>,
     <<"tcpTracingEnabled", "true">>, <<"useAsyncSend", "true">> >>
FailoverOptions ==
  << <<"backup", "true">>, <<"backupPoolSize", "1234">>, <<"initialReconnectDelay", "1234">>,
     <<"maxReconnectDelay", "1234">>, <<"randomize", "false">>,
     <<"startupMaxReconnectAttempts", "1234">>, <<"timeout", "1234">>,
     <<"useExpotentialBackOff", "false">> >>
LastOption         == << <<"maxReconnectAttempts", "1234">> >>
TransactionOptions == << <<"maxRedeliveryCount", "1234">> >>
ConnectionOptions ==
  << <<"sendTimeout", "1234">>, <<"producerWindowSize", "1234">>, <<"closeTimeout", "1234">>,
     <<"useAsyncSend", "true">>, <<"alwaysSyncSend", "true">>, <<"useCompression", "true">>,
     <<"dispatchAsync", "false">> >>
PrefetchOptions ==
  << <<"durableTopicPrefetch", "1234">>, <<"queueBrowserPrefetch", "1234">>,
     <<"queuePrefetch", "1234">>, <<"topicPrefetch", "1234">> >>
RedeliveryOptions ==
  << <<"backOffMultiplier", "1234">>, <<"collisionAvoidancePercent", "89">>,
     <<"initialRedeliveryDelay", "1234">>, <<"maximumRedeliveries", "1234">>,
     <<"useCollisionAvoidance", "true">>, <<"useExponentialBackOff", "true">> >>

Segments(group, options) ==
  [i \in DOMAIN options |->
     [j \in DOMAIN group |-> URI!Word(group[j], URI!None)] \o
     << URI!Word(options[i][1], options[i][2]) >>]
Expected(c, options) ==
  [i \in DOMAIN options |-> Option(c, options[i][1], options[i][2])]

(* Every option in a URL of its own.                                       *)
Single(c, group, options) ==
  [i \in DOMAIN options |->
     << ParseURI(<<Segments(group, options)[i]>>), Expected(c, options)[i] >>]

SocketTests      == Single("socketOptions", <<>>, SocketOptions)
TransportTests   == Single("transportOptions", <<"transport">>, TransportOptions)
FailoverTests    == Single("failoverOptrions", <<>>, FailoverOptions \o LastOption)
TransactionTests == Single("transactionOptions", <<"transaction">>, TransactionOptions)
ConnectionTests  == Single("connectionOptions", <<"connection">>, ConnectionOptions)
PrefetchTests    == Single("prefetchOptons", <<"cms", "Prefetch">>, PrefetchOptions)
RedeliveryTests  == Single("redeliveryOptions", <<"cms", "Redelivery">>, RedeliveryOptions)

(* All of them in one URL.                                                 *)
AllParametersTests ==
  << << ParseURI(Segments(<<>>, SocketOptions)
                 \o Segments(<<"transport">>, TransportOptions)
                 \o Segments(<<>>, FailoverOptions)
                 \o Segments(<<"transaction">>, TransactionOptions)
                 \o Segments(<<"connection">>, ConnectionOptions)
                 \o Segments(<<"cms", "Prefetch">>, PrefetchOptions)
                 \o Segments(<<"cms", "Redelivery">>, RedeliveryOptions)
                 \o Segments(<<>>, LastOption)) >>
     \o Expected("socketOptions", SocketOptions)
     \o Expected("transportOptions", TransportOptions)
     \o Expected("failoverOptrions", FailoverOptions \o LastOption)
     \o Expected("transactionOptions", TransactionOptions)
     \o Expected("connectionOptions", ConnectionOptions)
     \o Expected("prefetchOptons", PrefetchOptions)
     \o Expected("redeliveryOptions", RedeliveryOptions) >>

-----------------------------------------------------------------------------
(* Running them.                                                           *)

Suite(classes, tests) == [classes |-> classes, tests |-> tests]

Suites ==
  << Suite({"CMSMessage"},
       AMQPMessageIDTests \o JMSMessageIDTests \o MessageIDErrorTests
       \o JMSCorrelationIDTests \o AMQPCorrelationIDTests \o CorrelationIDRoundTripTests
       \o CorrelationIDErrorTests \o DeliveryModeTests \o TimestampTests
       \o AMQPDestinationTests \o EqualityTests \o DestinationTests \o AMQPReplyToTests
       \o ReplyToTests \o ExpirationTests \o PriorityTests \o RedeliveredTests
       \o TypeTests \o JMSXTests),
     Suite(Classes,
       DefaultTests \o ExistsTests \o EdgeTests \o MissingTests \o ConversionTests
       \o LongConversionTests \o ValueTypeTests \o NamesTests \o ClearTests),
     Suite({"CMSBytesMessage"}, BytesBodyTests),
     Suite({"CMSTextMessage"}, TextBodyTests),
     Suite({"URIParser"},
       SocketTests \o TransportTests \o FailoverTests \o TransactionTests \o ConnectionTests
       \o PrefetchTests \o RedeliveryTests \o AllParametersTests) >>

(* Every test has an object of its own: the generator of the parameters is *)
(* evaluated for each of them.                                             *)
Fixture(c) ==
  CASE c = "CMSMessage"      -> newCMSMessage
    [] c = "CMSTextMessage"  -> newCMSTextMessage(<<"message body">>)
    [] c = "CMSBytesMessage" -> emptyCMSBytesMessage
    [] c = "URIParser"       -> URI!Parameters

Init ==
  /\ suite \in DOMAIN Suites
  /\ test \in DOMAIN Suites[suite].tests
  /\ class \in Suites[suite].classes
  /\ step = 1
  /\ mUUT = Fixture(class)
  /\ failed = FALSE

Statement == Suites[suite].tests[test][step]

Run ==
  /\ step \in DOMAIN Suites[suite].tests[test]
  /\ failed' = (failed \/ ~Met(Statement, mUUT))
  /\ mUUT' = Done(Statement, mUUT)
  /\ step' = step + 1
  /\ UNCHANGED <<suite, test, class>>

Next == Run

Spec == Init /\ [][Next]_vars

-----------------------------------------------------------------------------
(* Properties.                                                             *)

(* Every test of the repository passes: what its authors expect of the     *)
(* ids, headers, properties, bodies and options, after every sequence of   *)
(* calls they thought of, is what the converter, the message classes and   *)
(* the parser do as they are modelled here.                                *)
ExpectationsMet == ~failed

=============================================================================
