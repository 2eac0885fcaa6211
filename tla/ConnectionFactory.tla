------------------------- MODULE ConnectionFactory -------------------------
(***************************************************************************)
(* CMSConnectionFactory with its ConnectionFactoryImpl: the URL is parsed  *)
(* once, into a FactoryContext, and every connection is configured from a  *)
(* ConnectionContext made of that and of its own credentials.  A URIParser *)
(* is also an object of its own, which an application may use for several  *)
(* URLs.                                                                   *)
(***************************************************************************)
EXTENDS URIParser

CONSTANTS
  URLs,            \* broker URLs
  Users, Passwords, ClientIds,   \* "" is among each of them
  Listeners,       \* exception listeners
  MaxCalls         \* bound: calls of the application

ASSUME FactoryAssumption ==
  /\ URLs \subseteq URL
  /\ "" \in Users \cap Passwords \cap ClientIds
  /\ None \notin Users \cup Passwords \cup ClientIds
  /\ MaxCalls \in Nat

VARIABLES
  parser,       \* the parameters of the application's URIParser
  parsed,       \* ghost: the URL it parsed last
  factory,      \* the factory made last: its FactoryContext and listener
  connections,  \* the connections: the options given to the container
  fault,        \* an exception of the constructor, or undefined behaviour
  calls         \* calls so far

vars == <<parser, parsed, factory, connections, fault, calls>>

nullptr   == "nullptr"
NoURL     == [failover |-> FALSE, urls |-> <<>>, options |-> NoOptions]
NoFactory == [exists |-> FALSE]

Init ==
  /\ parser = Parameters
  /\ parsed = NoURL
  /\ factory = NoFactory
  /\ connections = <<>>
  /\ fault = "none"
  /\ calls = 0

Call == calls < MaxCalls /\ calls' = calls + 1

(* parseURI starts from the defaults; an exception leaves what has been    *)
(* set so far.                                                             *)
Parse(url) ==
  /\ Call
  /\ parser' = parseURI(url)
  /\ parsed' = url
  /\ UNCHANGED <<factory, connections, fault>>

(* The first address is the broker's, the others are for the failover.     *)
FactoryContext(url) ==
  LET p == parseURI(url)
  IN  [mBroker |-> Head(p.url_vec), mFailoverAddresses |-> Tail(p.url_vec),
       mParameters |-> p]

(* The address is taken before anybody has looked whether there is one;    *)
(* the check for an empty URL comes after that.                            *)
CMSConnectionFactory(url) ==
  /\ Call
  /\ LET p == parseURI(url)
     IN  CASE p.outcome # "parsed" ->
                fault' = p.outcome /\ factory' = NoFactory
           [] p.outcome = "parsed" /\ p.url_vec = <<>> ->
                fault' = "undefined" /\ factory' = NoFactory
           [] OTHER ->
                /\ fault' = "none"
                /\ factory' = [exists |-> TRUE, url |-> url,
                               mContext |-> FactoryContext(url),
                               mExceptionListener |-> nullptr]
  /\ UNCHANGED <<parser, parsed, connections>>

(* Mutant of ConnectionContext: the delays are swapped.                    *)
DelaysSwapped(context, user, password, clientId) ==
  [mPrimaryUrl |-> context.mBroker, mFailoverUrls |-> context.mFailoverAddresses,
   mUser |-> user, mPassword |-> password, mClientId |-> clientId,
   mInitialReconnectDelay |-> context.mParameters.failoverOptrions.maxReconnectDelay,
   mMaxReconnectDelay |-> context.mParameters.failoverOptrions.initialReconnectDelay,
   mMaxReconnectAttempts |-> context.mParameters.failoverOptrions.maxReconnectAttempts]

ConnectionContext(context, user, password, clientId) ==
  [mPrimaryUrl |-> context.mBroker, mFailoverUrls |-> context.mFailoverAddresses,
   mUser |-> user, mPassword |-> password, mClientId |-> clientId,
   mInitialReconnectDelay |-> context.mParameters.failoverOptrions.initialReconnectDelay,
   mMaxReconnectDelay |-> context.mParameters.failoverOptrions.maxReconnectDelay,
   mMaxReconnectAttempts |-> context.mParameters.failoverOptrions.maxReconnectAttempts]

(* proton::connection_options: what was not set is None.                   *)
config(c) ==
  LET named == c.mUser # "" /\ c.mPassword # ""
  IN  [user |-> IF named THEN c.mUser ELSE None,
       password |-> IF named THEN c.mPassword ELSE None,
       container_id |-> IF c.mClientId # "" THEN c.mClientId ELSE None,
       failover_urls |-> c.mFailoverUrls,
       delay |-> c.mInitialReconnectDelay, max_delay |-> c.mMaxReconnectDelay,
       max_attempts |-> c.mMaxReconnectAttempts]

(* The constructor of ConnectionImpl, without the wait for the broker.     *)
connect(user, password, clientId) ==
  LET c == ConnectionContext(factory.mContext, user, password, clientId)
  IN  /\ factory.exists
      /\ Call
      /\ connections' = Append(connections,
           [url |-> c.mPrimaryUrl, options |-> config(c),
            asked |-> [url |-> factory.url, user |-> user, password |-> password,
                       clientId |-> clientId]])
      /\ UNCHANGED <<parser, parsed, factory, fault>>

(* The overloads without credentials or client id pass empty strings.      *)
createConnection == connect("", "", "")
createConnection_user ==
  \E u \in Users, p \in Passwords : connect(u, p, "")
createConnection_clientId ==
  \E u \in Users, p \in Passwords, c \in ClientIds : connect(u, p, c)

setExceptionListener ==
  /\ Call
  /\ factory.exists
  /\ \E l \in Listeners : factory' = [factory EXCEPT !.mExceptionListener = l]
  /\ UNCHANGED <<parser, parsed, connections, fault>>

Next ==
  \/ \E url \in URLs : Parse(url) \/ CMSConnectionFactory(url)
  \/ createConnection
  \/ createConnection_user
  \/ createConnection_clientId
  \/ setExceptionListener

Spec == Init /\ [][Next]_vars

-----------------------------------------------------------------------------
(* Properties.                                                             *)

(* The type invariant.                                                     *)
TypeOK ==
  /\ DOMAIN parser = DOMAIN Parameters
  /\ parser.outcome \in {"parsed", "threw", "undefined"}
  /\ fault \in {"none", "threw", "undefined"}
  /\ factory.exists => factory.mContext.mBroker # ""
  /\ Len(connections) <= calls /\ calls <= MaxCalls

Classes == {"socketOptions", "transportOptions", "failoverOptrions",
            "transactionOptions", "connectionOptions", "prefetchOptons",
            "redeliveryOptions"}

(* The words before the option of a class.                                 *)
Prefix(class) ==
  CASE class \in {"socketOptions", "failoverOptrions"} -> <<>>
    [] class = "transportOptions"   -> <<"transport">>
    [] class = "transactionOptions" -> <<"transaction">>
    [] class = "connectionOptions"  -> <<"connection">>
    [] class = "prefetchOptons"     -> <<"cms", "Prefetch">>
    [] class = "redeliveryOptions"  -> <<"cms", "Redelivery">>

(* The values that the URL gives to an option.                             *)
Given(url, class, key) ==
  {Last(url.options[i]).value : i \in
     {j \in DOMAIN url.options :
        LET s == url.options[j]
        IN  /\ s # <<>>
            /\ Last(s).key = key /\ Last(s).value # None
            /\ [k \in DOMAIN Front(s) |-> Front(s)[k].key] = Prefix(class)
            /\ \A k \in DOMAIN Front(s) : Front(s)[k].value = None}}

(* Is value one that the URL gives to the option, or else its default?     *)
HasValue(url, class, key, value) ==
  LET given == Given(url, class, key)
  IN  IF given = {} THEN value = Parameters[class][key]
      ELSE \E text \in given :
             value = IF key \in Flags THEN text = "true" ELSE Number[text]

(* Whatever the parser has parsed before, or failed to parse, every option *)
(* that the URL gives has the value given, one of them if it is given more *)
(* than once, and every other option has its default: neither the order of *)
(* the options nor compound options among them hide one.                   *)
OptionsTakeEffect ==
  parser.outcome = "parsed" =>
    \A class \in Classes : \A key \in DOMAIN Parameters[class] :
      HasValue(parsed, class, key, parser[class][key])

(* An exception is thrown only for a number that is none.                  *)
ThrowsForBadNumbersOnly ==
  parser.outcome = "threw" =>
    \E class \in Classes : \E key \in DOMAIN Parameters[class] \ Flags :
      ~(Given(parsed, class, key) \subseteq DOMAIN Number)

(* Every connection goes to the first address of the URL its factory was   *)
(* made with and falls back to the others in order, with the reconnect     *)
(* options of that URL and with the credentials it was asked for, never    *)
(* with those of another connection or factory.  A user without a password *)
(* connects anonymously, and so does a password without a user.            *)
ConnectionsConfigured ==
  \A i \in DOMAIN connections :
    LET c == connections[i]
        a == c.asked
    IN  /\ <<c.url>> \o c.options.failover_urls = UrlVector(a.url.urls)
        /\ HasValue(a.url, "failoverOptrions", "initialReconnectDelay", c.options.delay)
        /\ HasValue(a.url, "failoverOptrions", "maxReconnectDelay", c.options.max_delay)
        /\ HasValue(a.url, "failoverOptrions", "maxReconnectAttempts",
                    c.options.max_attempts)
        /\ c.options.user # None => c.options.user = a.user /\ c.options.password = a.password
        /\ (c.options.user = None) = (a.user = "" \/ a.password = "")
        /\ (c.options.container_id = None) = (a.clientId = "")

=============================================================================
