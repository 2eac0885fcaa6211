------------------------ MODULE MCConnectionFactory ------------------------
(* A small instance of ConnectionFactory.                                  *)
EXTENDS ConnectionFactory

MCNumber == [t \in {"1", "2"} |-> IF t = "1" THEN 1 ELSE 2]

Option(key, value)         == <<Word(key, value)>>
Grouped(group, key, value) == <<Word(group, None), Word(key, value)>>
Policy(group, key, value)  ==
  <<Word("cms", None), Word(group, None), Word(key, value)>>

(* Options with and without a group, twice the same, a number that is      *)
(* none, a value with a dot, one that nobody knows, and nothing.           *)
Segments ==
  { Option("soLinger", "1"), Option("soLinger", "2"),
    Option("maxReconnectAttempts", "1"), Option("initialReconnectDelay", "2"),
    Option("timeout", "x"), Option("backup", "true"), Option("unknown", "1"),
    Grouped("transport", "useAsyncSend", "true"),
    Grouped("connection", "sendTimeout", "1"),
    Grouped("connection", "sendTimeout", "2"),
    Grouped("cms", "sendTimeout", "1"),
    Policy("Prefetch", "queuePrefetch", "1"),
    <<Word("cms", None), Word("Redelivery", None),
      Word("backOffMultiplier", "2"), Word("0", None)>>,
    <<>> }

(* Every segment alone, some in pairs, some in threes.   *)
Pairs ==
  { Option("soLinger", "1"), Option("maxReconnectAttempts", "1"),
    Option("timeout", "x"), Grouped("transport", "useAsyncSend", "true"),
    Grouped("connection", "sendTimeout", "2"),
    Policy("Prefetch", "queuePrefetch", "1"), <<>> }
Threes ==
  { Option("soLinger", "1"), Option("soLinger", "2"),
    Grouped("connection", "sendTimeout", "1") }

MCOptions ==
  {NoOptions} \cup [1..1 -> Segments] \cup [1..2 -> Pairs] \cup [1..3 -> Threes]

MCURLs ==
  {[failover |-> FALSE, urls |-> <<"a">>, options |-> o] : o \in MCOptions} \cup
  {[failover |-> TRUE, urls |-> u, options |-> <<Option("maxReconnectDelay", "2")>>] :
     u \in {<<"a", "b", "c">>, <<"a", "", "c">>}} \cup
  {[failover |-> FALSE, urls |-> <<"">>, options |-> NoOptions]}

=============================================================================
