----------------------------- MODULE URIParser -----------------------------
(***************************************************************************)
(* URIParser: the broker URL with its options.                             *)
(*                                                                         *)
(* A URL is [failover, urls, options]: tcp://a?x or failover:(a,b)?x.  The *)
(* options are the sequence of its segments between '&', a segment the     *)
(* sequence of its words between '.', a word [key, value] as it is split   *)
(* at '=', with the value None where there is no '='.  A value with a '.'  *)
(* in it is two words.  URLs without options have the options NoOptions.   *)
(***************************************************************************)
EXTENDS Integers, Sequences, SequencesExt

CONSTANTS
  Number    \* the texts that std::stoi reads, with what it reads in them

ASSUME NumberAssumption == Number \in [DOMAIN Number -> Int]

None      == "none"
NoOptions == <<>>
Word(key, value) == [key |-> key, value |-> value]

Words == [key : STRING, value : STRING]
URL   == [failover : BOOLEAN, urls : Seq(STRING), options : Seq(Seq(Words))]

-----------------------------------------------------------------------------
(* Parameters and their defaults.                                          *)

Socket ==
  [inputBufferSize |-> 10000, outputBufferSize |-> 10000, soLinger |-> 0,
   soKeepAlive |-> FALSE, soReceiveBufferSize |-> -1, soSendBufferSize |-> -1,
   soConnectionTimeout |-> -1, tcpNoDelay |-> TRUE]

TransportOptions ==
  [commandTracingEnabled |-> FALSE, tcpTracingEnabled |-> FALSE,
   useAsyncSend |-> FALSE, responseCorrelator_MaxResponseWaitTime |-> 3000]

Failover ==
  [initialReconnectDelay |-> 10, maxReconnectDelay |-> 30000,
   useExpotentialBackOff |-> TRUE, maxReconnectAttempts |-> 0,
   startupMaxReconnectAttempts |-> 0, randomize |-> TRUE, backup |-> FALSE,
   backupPoolSize |-> 1, timeout |-> -1]

TransactionOptions == [maxRedeliveryCount |-> 5]

Connection ==
  [sendTimeout |-> 0, producerWindowSize |-> 0, closeTimeout |-> 15000,
   useAsyncSend |-> FALSE, alwaysSyncSend |-> FALSE, useCompression |-> FALSE,
   dispatchAsync |-> TRUE]

Prefetch ==
  [durableTopicPrefetch |-> 100, queueBrowserPrefetch |-> 500,
   queuePrefetch |-> 1000, topicPrefetch |-> 65535]

Redelivery ==
  [backOffMultiplier |-> 5, collisionAvoidancePercent |-> 15,
   initialRedeliveryDelay |-> 1000, maximumRedeliveries |-> 6,
   useCollisionAvoidance |-> FALSE, useExponentialBackOff |-> FALSE]

(* outcome: an exception of std::stoi, or undefined behaviour, ends it.    *)
Parameters ==
  [url_vec |-> <<>>, outcome |-> "parsed",
   socketOptions |-> Socket, transportOptions |-> TransportOptions,
   failoverOptrions |-> Failover, transactionOptions |-> TransactionOptions,
   connectionOptions |-> Connection, prefetchOptons |-> Prefetch,
   redeliveryOptions |-> Redelivery]

(* The options of type bool; the others are numbers.                       *)
Flags ==
  {"soKeepAlive", "tcpNoDelay", "commandTracingEnabled", "tcpTracingEnabled",
   "useAsyncSend", "useExpotentialBackOff", "randomize", "backup",
   "alwaysSyncSend", "useCompression", "dispatchAsync",
   "useCollisionAvoidance", "useExponentialBackOff"}

-----------------------------------------------------------------------------
(* parameters.<class>.<key> = the value of the word, if it has a value.    *)
Assign(parameters, class, word) ==
  CASE \/ parameters.outcome # "parsed"
       \/ word.value = None
       \/ word.key \notin DOMAIN parameters[class] -> parameters
    [] OTHER ->
         CASE word.key \in Flags ->
                [parameters EXCEPT ![class][word.key] = (word.value = "true")]
           [] word.key \notin Flags /\ word.value \in DOMAIN Number ->
                [parameters EXCEPT ![class][word.key] = Number[word.value]]
           [] OTHER -> [parameters EXCEPT !.outcome = "threw"]

Undefined(parameters) ==
  [parameters EXCEPT !.outcome = IF @ = "parsed" THEN "undefined" ELSE @]

(* Mutant of updateOption: only the options of the socket are known.       *)
SocketOptionsOnly(parameters, word) == Assign(parameters, "socketOptions", word)

(* Mutant of updateOption: an option that nobody knows is refused.         *)
UnknownThrows(parameters, word) ==
  IF word.key \in DOMAIN Socket \cup DOMAIN Failover
  THEN Assign(parameters,
              IF word.key \in DOMAIN Socket THEN "socketOptions" ELSE "failoverOptrions",
              word)
  ELSE [parameters EXCEPT !.outcome = "threw"]

updateOption(parameters, word) ==
  Assign(parameters,
         IF word.key \in DOMAIN Socket THEN "socketOptions" ELSE "failoverOptrions",
         word)

(* The group is the words before the last '.'.  In the group "cms" alone   *)
(* the search for a further '.' starts behind the end of the string.       *)
updateOption_group(parameters, group, word) ==
  LET keys == [i \in DOMAIN group |-> group[i].key]
  IN  IF word.value # None /\ \A i \in DOMAIN group : group[i].value = None
      THEN CASE keys = <<"transport">>   -> Assign(parameters, "transportOptions", word)
             [] keys = <<"transaction">> -> Assign(parameters, "transactionOptions", word)
             [] keys = <<"connection">>  -> Assign(parameters, "connectionOptions", word)
             [] keys = <<"cms">> ->
                  Undefined(parameters)
             [] keys = <<"cms", "Prefetch">> -> Assign(parameters, "prefetchOptons", word)
             [] keys = <<"cms", "Redelivery">> ->
                  Assign(parameters, "redeliveryOptions", word)
             [] OTHER -> parameters
      ELSE parameters

(* One segment is applied.  An empty one moves an iterator before the      *)
(* beginning of the string.                                                *)
Segment(parameters, segment) ==
  CASE Len(segment) = 0 -> Undefined(parameters)
    [] Len(segment) = 1 -> updateOption(parameters, segment[1])
    [] OTHER -> updateOption_group(parameters, Front(segment), Last(segment))

(* The calls of getOptionsString nest, one per segment: before the first   *)
(* '.' a segment is applied and the next one looked at; from there on      *)
(* (compound) the rest is applied first.  The segments behind an empty one *)
(* are not looked at.  So they are applied in this order.                  *)
Applied(segments) ==
  LET empty  == {i \in DOMAIN segments : segments[i] = <<>>}
      last   == IF empty = {} THEN Len(segments) ELSE Min(empty)
      first  == Min({i \in 1..last : Len(segments[i]) > 1} \cup {last + 1})
  IN  [i \in 1..last |-> segments[IF i < first THEN i ELSE first + last - i]]

(* They are applied one after the other, until an exception.               *)
getOptionsString(parameters, segments) ==
  LET after[i \in 0..Len(segments)] ==
        IF i = 0 THEN parameters
        ELSE LET p == after[i - 1]
             IN  IF p.outcome = "parsed" THEN Segment(p, segments[i]) ELSE p
  IN  after[Len(segments)]

(* Mutant of UrlVector: an empty address is one of the addresses.          *)
AllAddresses(urls) == urls

(* The addresses up to an empty one.                                       *)
UrlVector(urls) ==
  SubSeq(urls, 1, Len(urls) - Cardinality({i \in DOMAIN urls :
                                \E j \in 1..i : urls[j] = ""}))

(* The scheme failover: and its parentheses are cut off.                   *)
parseURI(url) ==
  LET p == [Parameters EXCEPT !.url_vec = UrlVector(url.urls)]
  IN  IF url.options = NoOptions THEN p
      ELSE getOptionsString(p, Applied(url.options))

=============================================================================
