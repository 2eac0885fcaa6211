---------------------------- MODULE MCMessages ----------------------------
(* A small instance of Messages.                                           *)
EXTENDS Messages

(* Three texts and what the library reads in them: a UUID, a number and a  *)
(* binary value of nine bytes, too long to be read back at once.           *)
MCReading ==
  "uuid" :> [length |-> 36, hex |-> <<1, 2>>, ulong |-> -1, uuid |-> TRUE, printed |-> TRUE]
  @@ "42" :> [length |-> 2, hex |-> <<66>>, ulong |-> 42, uuid |-> FALSE, printed |-> TRUE]
  @@ "nine" :> [length |-> 18, hex |-> <<9, 0, 0, 0, 0, 0, 0, 0, 0>>, ulong |-> -1,
                uuid |-> FALSE, printed |-> TRUE]

From(id) == [EmptyMessage EXCEPT !.id = id, !.body = Text(<<"x">>)]

(* Requests of other clients with ids of every type, a bytes message       *)
(* whose body is text, and a reply-to that is a temporary topic.           *)
MCForeign ==
  << From([type |-> "UUID", value |-> <<1, 2>>]),
     From([type |-> "ULONG", value |-> 42]),
     From([type |-> "BINARY", value |-> <<9, 0, 0, 0, 0, 0, 0, 0, 0>>]),
     From([type |-> "STRING", value |-> <<"ID:", "AMQP_ULONG:", "42">>]),
     [From(NoId) EXCEPT !.content_type = OCTET_STREAM],
     [From(NoId) EXCEPT !.reply_to = "tt",
                        !.annotations = Put(@, X_OPT_JMS_REPLY_TO, ByteAnnotation(3))] >>

MCTargets    == {CMSQueue("q"), CMSTemporaryQueue("")}
MCSources    == {CMSQueue("shared")}
MCParameters == {nullptr, CMSTopic("t")}

Symmetry == Permutations(Objects)

MCMinInt   == -256
MCPayloads == {<<"x">>}
MCUuids    == <<"u1", "u2">>

MCExplicit == {<<CMSTopic("t"), NON_PERSISTENT, 12, 2>>}
MCSettings ==
  { <<"mDeliveryMode", NON_PERSISTENT>>, <<"mPriority", 7>>, <<"mTTL", 3>>,
    <<"mMessageIdDisabed", TRUE>>, <<"mTimestampDisabed", TRUE>> }

MCEdits ==
  { <<"CorrelationID", <<"c">>>>, <<"Destination", CMSTemporaryTopic("tt")>>,
    <<"ReplyTo", CMSQueue("r")>>, <<"MessageID", <<"ID:", "mine">>>>,
    <<"Expiration", 1>>, <<"Type", "y">>, <<"Redelivered", TRUE>> }

=============================================================================
