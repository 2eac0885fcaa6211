---------------------- MODULE ConnectionFactory_proofs ----------------------
(***************************************************************************)
(* The broker URL, for every URL: what the parser makes of its options,    *)
(* and what becomes of it in the factory's connections.                    *)
(*                                                                         *)
(* The parser applies the segments of a URL one after the other, in an     *)
(* order that depends on them.  The first part says what one segment does; *)
(* the second is an induction over the segments; the third shows that the  *)
(* order leaves none of them out.  The last is about the factory.          *)
(***************************************************************************)
EXTENDS ConnectionFactory, FiniteSetTheorems, SequenceTheorems, TLAPS

-----------------------------------------------------------------------------
(* Parameters.                                                             *)

Outcomes == {"parsed", "threw", "undefined"}

(* p has the classes and options of Parameters, whatever their values.     *)
IsParameters(p) ==
  /\ DOMAIN p = DOMAIN Parameters
  /\ \A class \in Classes : DOMAIN p[class] = DOMAIN Parameters[class]
  /\ p.outcome \in Outcomes

LEMMA ParametersAre ==
  /\ DOMAIN Parameters = {"url_vec", "outcome"} \cup Classes
  /\ "url_vec" \notin Classes /\ "outcome" \notin Classes
  /\ IsParameters(Parameters) /\ Parameters.outcome = "parsed"
BY DEF Parameters, Classes, IsParameters, Outcomes

(* No option is known both to the socket and to the failover.              *)
LEMMA SocketOrFailover ==
  /\ Parameters["socketOptions"] = Socket
  /\ Parameters["failoverOptrions"] = Failover
  /\ DOMAIN Socket \cap DOMAIN Failover = {}
BY DEF Parameters, Socket, Failover

(* The value of an option that is given as a text.                         *)
ValueOf(key, text) == IF key \in Flags THEN text = "true" ELSE Number[text]

(* A parameter of p is replaced.                                           *)
Replaced(p, class, key, value) == [p EXCEPT ![class][key] = value]

LEMMA OneReplaced ==
  ASSUME NEW p, IsParameters(p), NEW class \in Classes,
         NEW key \in DOMAIN Parameters[class], NEW value,
         NEW q, q = Replaced(p, class, key, value)
  PROVE  /\ IsParameters(q)
         /\ q.url_vec = p.url_vec /\ q.outcome = p.outcome
         /\ \A c \in Classes : \A k \in DOMAIN Parameters[c] :
              q[c][k] = IF c = class /\ k = key THEN value ELSE p[c][k]
<1>1. /\ class \in DOMAIN p /\ "url_vec" \in DOMAIN p /\ "outcome" \in DOMAIN p
      /\ class # "url_vec" /\ class # "outcome" /\ Classes \subseteq DOMAIN p
  BY ParametersAre DEF IsParameters
<1>2. DOMAIN q = DOMAIN p /\ q.url_vec = p.url_vec /\ q.outcome = p.outcome
  BY <1>1 DEF Replaced
<1>3. \A c \in Classes : q[c] = IF c = class THEN [p[class] EXCEPT ![key] = value] ELSE p[c]
  BY <1>1 DEF Replaced
<1>4. key \in DOMAIN p[class]
  BY DEF IsParameters
<1>5. IsParameters(q)
  BY <1>2, <1>3 DEF IsParameters
<1>6. ASSUME NEW c \in Classes, NEW k \in DOMAIN Parameters[c]
      PROVE  q[c][k] = IF c = class /\ k = key THEN value ELSE p[c][k]
  BY <1>3, <1>4, <1>6 DEF IsParameters
<1> QED
  BY <1>2, <1>5, <1>6

(* The outcome of p is replaced.                                           *)
LEMMA OutcomeReplaced ==
  ASSUME NEW p, IsParameters(p), NEW outcome \in Outcomes
  PROVE  LET q == [p EXCEPT !.outcome = outcome]
         IN  IsParameters(q) /\ q.url_vec = p.url_vec /\ q.outcome = outcome
<1>1. "url_vec" \in DOMAIN p /\ "outcome" \in DOMAIN p
      /\ \A class \in Classes : class \in DOMAIN p /\ class # "outcome"
  BY ParametersAre DEF IsParameters
<1> QED
  BY <1>1 DEF IsParameters

(* What Assign makes of p, which an exception has not ended.               *)
Assigned(p, class, word, q) ==
  /\ IsParameters(q) /\ q.url_vec = p.url_vec
  /\ q.outcome \in {"parsed", "threw"}
  /\ q.outcome = "parsed" =>
       \A c \in Classes : \A k \in DOMAIN Parameters[c] :
         q[c][k] = IF c = class /\ k = word.key /\ word.value # None
                   THEN ValueOf(k, word.value) ELSE p[c][k]
  /\ q.outcome = "threw" =>
       /\ word.key \in DOMAIN Parameters[class] \ Flags
       /\ word.value # None /\ word.value \notin DOMAIN Number

LEMMA AssignDoes ==
  ASSUME NEW p, IsParameters(p), p.outcome = "parsed", NEW class \in Classes, NEW word
  PROVE  Assigned(p, class, word, Assign(p, class, word))
<1> DEFINE key  == word.key
           text == word.value
<1>q. PICK q : q = Assign(p, class, word)
  OBVIOUS
<1> SUFFICES Assigned(p, class, word, q)
  BY <1>q
<1>0. DOMAIN p[class] = DOMAIN Parameters[class]
  BY DEF IsParameters
<1>1. CASE text = None \/ key \notin DOMAIN p[class]
  <2>1. q = p
    BY <1>1, <1>q DEF Assign
  <2> QED
    BY <1>0, <1>1, <2>1 DEF Assigned
<1>2. CASE text # None /\ key \in DOMAIN p[class] /\ (key \in Flags \/ text \in DOMAIN Number)
  <2>1. PICK value : value = ValueOf(key, text)
    OBVIOUS
  <2>2. q = Replaced(p, class, key, value)
    BY <1>2, <1>q, <2>1 DEF Assign, ValueOf, Replaced
  <2>3. /\ IsParameters(q) /\ q.url_vec = p.url_vec /\ q.outcome = "parsed"
        /\ \A c \in Classes : \A k \in DOMAIN Parameters[c] :
             q[c][k] = IF c = class /\ k = key THEN value ELSE p[c][k]
    BY <1>0, <1>2, <2>2, OneReplaced
  <2> QED
    BY <1>2, <2>1, <2>3 DEF Assigned
<1>3. CASE text # None /\ key \in DOMAIN p[class] /\ key \notin Flags /\ text \notin DOMAIN Number
  <2>1. q = [p EXCEPT !.outcome = "threw"]
    BY <1>3, <1>q DEF Assign
  <2> QED
    BY <1>0, <1>3, <2>1, OutcomeReplaced DEF Assigned, Outcomes
<1> QED
  BY <1>1, <1>2, <1>3

-----------------------------------------------------------------------------
(* One segment.                                                            *)

Keys(words) == [i \in DOMAIN words |-> words[i].key]

(* The segment gives the option its last value, as Given says.             *)
GivesTo(s, class, key) ==
  /\ s # <<>>
  /\ Last(s).key = key /\ Last(s).value # None
  /\ Keys(Front(s)) = Prefix(class)
  /\ \A i \in DOMAIN Front(s) : Front(s)[i].value = None

(* What a segment makes of p.                                              *)
Applies(p, s, q) ==
  /\ IsParameters(q) /\ q.url_vec = p.url_vec
  /\ q.outcome = "parsed" =>
       /\ s # <<>>
       /\ \A c \in Classes : \A k \in DOMAIN Parameters[c] :
            q[c][k] = IF GivesTo(s, c, k) THEN ValueOf(k, Last(s).value) ELSE p[c][k]
  /\ q.outcome = "threw" =>
       \E c \in Classes : \E k \in DOMAIN Parameters[c] \ Flags :
         GivesTo(s, c, k) /\ Last(s).value \notin DOMAIN Number

(* A segment that is assigned to the class it names.                       *)
LEMMA AssignApplies ==
  ASSUME NEW p, IsParameters(p), p.outcome = "parsed", NEW s, s # <<>>,
         NEW class \in Classes,
         \A c \in Classes : \A k \in DOMAIN Parameters[c] :
           GivesTo(s, c, k) <=> c = class /\ k = Last(s).key /\ Last(s).value # None
  PROVE  Applies(p, s, Assign(p, class, Last(s)))
<1>1. PICK q : q = Assign(p, class, Last(s))
  OBVIOUS
<1>2. PICK word : word = Last(s)
  OBVIOUS
<1>3. Assigned(p, class, word, q)
  BY <1>1, <1>2, AssignDoes
<1>4. \A c \in Classes : \A k \in DOMAIN Parameters[c] :
        GivesTo(s, c, k) <=> c = class /\ k = word.key /\ word.value # None
  BY <1>2
<1>5. Applies(p, s, q)
  BY <1>2, <1>3, <1>4 DEF Assigned, Applies
<1> QED
  BY <1>1, <1>5

(* A segment that gives nothing and changes nothing.                       *)
LEMMA NothingApplies ==
  ASSUME NEW p, IsParameters(p), p.outcome = "parsed", NEW s, s # <<>>,
         \A c \in Classes : \A k \in DOMAIN Parameters[c] : ~GivesTo(s, c, k)
  PROVE  Applies(p, s, p)
BY DEF Applies

(* One from which the behaviour is undefined.                              *)
LEMMA UndefinedApplies ==
  ASSUME NEW p, IsParameters(p), p.outcome = "parsed", NEW s
  PROVE  Applies(p, s, Undefined(p))
<1>1. PICK q : q = [p EXCEPT !.outcome = "undefined"]
  OBVIOUS
<1>2. Undefined(p) = q
  BY <1>1 DEF Undefined
<1>3. IsParameters(q) /\ q.url_vec = p.url_vec /\ q.outcome = "undefined"
  BY <1>1, OutcomeReplaced DEF Outcomes
<1> QED
  BY <1>2, <1>3 DEF Applies

(* The groups in front of the options, told apart.                         *)
LEMMA PrefixesAre ==
  ASSUME NEW c \in Classes
  PROVE  /\ Prefix(c) = <<>> <=> c \in {"socketOptions", "failoverOptrions"}
         /\ Prefix(c) = <<"transport">> <=> c = "transportOptions"
         /\ Prefix(c) = <<"transaction">> <=> c = "transactionOptions"
         /\ Prefix(c) = <<"connection">> <=> c = "connectionOptions"
         /\ Prefix(c) # <<"cms">>
         /\ Prefix(c) = <<"cms", "Prefetch">> <=> c = "prefetchOptons"
         /\ Prefix(c) = <<"cms", "Redelivery">> <=> c = "redeliveryOptions"
         /\ Prefix(c) \in {<<>>, <<"transport">>, <<"transaction">>, <<"connection">>,
                           <<"cms", "Prefetch">>, <<"cms", "Redelivery">>}
BY DEF Prefix, Classes

(* A segment of one word.                                                  *)
LEMMA OptionApplies ==
  ASSUME NEW p, IsParameters(p), p.outcome = "parsed", NEW s \in Seq(Words), Len(s) = 1
  PROVE  Applies(p, s, Segment(p, s))
<1> DEFINE class == IF Last(s).key \in DOMAIN Socket THEN "socketOptions"
                                                     ELSE "failoverOptrions"
<1>1. s # <<>> /\ Last(s) = s[1] /\ Front(s) = <<>>
  BY SubSeqEmpty DEF Last, Front
<1>2. Segment(p, s) = Assign(p, class, Last(s))
  BY <1>1 DEF Segment, updateOption
<1>3. class \in Classes
  BY DEF Classes
<1>4. Keys(Front(s)) = <<>> /\ DOMAIN Front(s) = {}
  BY <1>1 DEF Keys
<1>5. ASSUME NEW c \in Classes, NEW k \in DOMAIN Parameters[c]
      PROVE  GivesTo(s, c, k) <=> c = class /\ k = Last(s).key /\ Last(s).value # None
  <2>1. GivesTo(s, c, k) <=> /\ k = Last(s).key /\ Last(s).value # None
                             /\ c \in {"socketOptions", "failoverOptrions"}
    BY <1>1, <1>4, PrefixesAre DEF GivesTo
  <2> QED
    BY <2>1, SocketOrFailover
<1> HIDE DEF class
<1> QED
  BY <1>1, <1>2, <1>3, <1>5, AssignApplies

(* A segment with a group in front of its option.                          *)
LEMMA GroupApplies ==
  ASSUME NEW p, IsParameters(p), p.outcome = "parsed", NEW s \in Seq(Words), Len(s) > 1
  PROVE  Applies(p, s, Segment(p, s))
<1> DEFINE word == Last(s)
           keys == Keys(Front(s))
<1>1. s # <<>> /\ Len(s) # 0 /\ Len(s) # 1 /\ keys # <<>>
  <2>1. Len(Front(s)) = Len(s) - 1 /\ Front(s) \in Seq(Words)
    BY SubSeqProperties DEF Front
  <2>2. DOMAIN keys = 1..(Len(s) - 1)
    BY <2>1 DEF Keys
  <2>3. 1 \in DOMAIN keys /\ s # <<>> /\ Len(s) # 0 /\ Len(s) # 1
    BY <2>2
  <2> HIDE DEF keys
  <2>4. keys # <<>>
    BY <2>3
  <2> QED
    BY <2>3, <2>4
<1>2. CASE ~(word.value # None /\ \A i \in DOMAIN Front(s) : Front(s)[i].value = None)
  <2>1. Segment(p, s) = p
    BY <1>1, <1>2 DEF Segment, updateOption_group
  <2>2. \A c, k : ~GivesTo(s, c, k)
    BY <1>2 DEF GivesTo
  <2> QED
    BY <1>1, <2>1, <2>2, NothingApplies
<1>3. CASE word.value # None /\ \A i \in DOMAIN Front(s) : Front(s)[i].value = None
  <2>1. Segment(p, s) =
          CASE keys = <<"transport">>   -> Assign(p, "transportOptions", word)
            [] keys = <<"transaction">> -> Assign(p, "transactionOptions", word)
            [] keys = <<"connection">>  -> Assign(p, "connectionOptions", word)
            [] keys = <<"cms">> -> Undefined(p)
            [] keys = <<"cms", "Prefetch">>   -> Assign(p, "prefetchOptons", word)
            [] keys = <<"cms", "Redelivery">> -> Assign(p, "redeliveryOptions", word)
            [] OTHER -> p
    BY <1>1, <1>3 DEF Segment, updateOption_group, Keys
  <2>2. \A c \in Classes : \A k \in DOMAIN Parameters[c] :
          GivesTo(s, c, k) <=> keys = Prefix(c) /\ k = word.key /\ word.value # None
    BY <1>1, <1>3 DEF GivesTo
  <2> HIDE DEF keys, word
  <2>3. ASSUME NEW class \in Classes, keys = Prefix(class), Segment(p, s) = Assign(p, class, word)
        PROVE  Applies(p, s, Segment(p, s))
    <3>1. \A c \in Classes : keys = Prefix(c) <=> c = class
      BY <1>1, <2>3, PrefixesAre
    <3> QED
      BY <1>1, <2>2, <2>3, <3>1, AssignApplies DEF word
  <2>4. CASE keys = <<"transport">>
    BY <2>1, <2>3, <2>4, PrefixesAre DEF Classes
  <2>5. CASE keys = <<"transaction">>
    BY <2>1, <2>3, <2>5, PrefixesAre DEF Classes
  <2>6. CASE keys = <<"connection">>
    BY <2>1, <2>3, <2>6, PrefixesAre DEF Classes
  <2>7. CASE keys = <<"cms", "Prefetch">>
    BY <2>1, <2>3, <2>7, PrefixesAre DEF Classes
  <2>8. CASE keys = <<"cms", "Redelivery">>
    BY <2>1, <2>3, <2>8, PrefixesAre DEF Classes
  <2>9. CASE keys = <<"cms">>
    BY <2>1, <2>9, UndefinedApplies
  <2>10. CASE keys \notin {<<"transport">>, <<"transaction">>, <<"connection">>, <<"cms">>,
                         <<"cms", "Prefetch">>, <<"cms", "Redelivery">>}
    <3>1. Segment(p, s) = p
      BY <2>1, <2>10
    <3>2. \A c \in Classes : keys # Prefix(c)
      BY <1>1, <2>10, PrefixesAre
    <3> QED
      BY <1>1, <2>2, <3>1, <3>2, NothingApplies
  <2> QED
    BY <2>4, <2>5, <2>6, <2>7, <2>8, <2>9, <2>10
<1> QED
  BY <1>2, <1>3

LEMMA SegmentApplies ==
  ASSUME NEW p, IsParameters(p), p.outcome = "parsed", NEW s \in Seq(Words)
  PROVE  Applies(p, s, Segment(p, s))
<1>1. CASE Len(s) = 0
  BY <1>1, UndefinedApplies DEF Segment
<1>2. CASE Len(s) = 1
  BY <1>2, OptionApplies
<1>3. CASE Len(s) > 1
  BY <1>3, GroupApplies
<1>4. \A n \in Nat : n = 0 \/ n = 1 \/ n > 1
  OBVIOUS
<1>5. Len(s) \in Nat
  BY LenProperties
<1> QED
  BY <1>1, <1>2, <1>3, <1>4, <1>5

-----------------------------------------------------------------------------
(* One segment after the other.                                            *)

(* A set of natural numbers has a least element.                           *)
LEMMA LeastNumber ==
  ASSUME NEW T, T \subseteq Nat, T # {}
  PROVE  Min(T) \in T /\ \A k \in T : Min(T) <= k
<1> DEFINE R == OpToRel(<, Nat)
<1>1. IsWellFoundedOn(R, Nat)
  BY NatLessThanWellFounded
<1>2. PICK n \in T : \A k \in T : <<k, n>> \notin R
  <2> HIDE DEF R
  <2> QED
    BY <1>1, WFMin
<1>3. \A k \in T : ~(k < n)
  BY <1>2 DEF OpToRel
<1>4. \A k \in T : n <= k
  BY <1>3
<1> QED
  BY <1>4 DEF Min

(* A set with 0 and with the successor of each of its numbers has all.     *)
LEMMA InductionOnSet ==
  ASSUME NEW T, 0 \in T, \A n \in Nat : n \in T => n + 1 \in T
  PROVE  Nat \subseteq T
<1> SUFFICES ASSUME Nat \ T # {}
             PROVE  FALSE
  OBVIOUS
<1>1. PICK n \in Nat \ T : \A k \in Nat \ T : n <= k
  BY LeastNumber
<1>2. n # 0 /\ n - 1 \in Nat
  BY <1>1
<1>3. n - 1 \in T
  BY <1>1, <1>2
<1> QED
  BY <1>1, <1>2, <1>3

(* What getOptionsString has after i segments, given what it had before.   *)
NextAfter(after, p, segments, i) ==
  IF i = 0 THEN p
  ELSE IF after[i - 1].outcome = "parsed" THEN Segment(after[i - 1], segments[i])
  ELSE after[i - 1]

IsAfter(after, p, segments, n) == after = [i \in 0..n |-> NextAfter(after, p, segments, i)]

(* There is such a function ...                                            *)
LEMMA AfterExists ==
  ASSUME NEW p, NEW segments
  PROVE  \A n \in Nat : \E after : IsAfter(after, p, segments, n)
<1> DEFINE T == {n \in Nat : \E after : IsAfter(after, p, segments, n)}
<1>1. 0 \in T
  <2> DEFINE after == [i \in 0..0 |-> p]
  <2>1. IsAfter(after, p, segments, 0)
    BY DEF IsAfter, NextAfter
  <2> QED
    BY <2>1
<1>2. ASSUME NEW n \in Nat, n \in T
      PROVE  n + 1 \in T
  <2>1. PICK after : IsAfter(after, p, segments, n)
    BY <1>2
  <2> DEFINE more == [i \in 0..(n + 1) |->
                        IF i = n + 1 THEN NextAfter(after, p, segments, n + 1) ELSE after[i]]
  <2>2. ASSUME NEW i \in 0..(n + 1)
        PROVE  more[i] = NextAfter(more, p, segments, i)
    <3>1. i # 0 => more[i - 1] = after[i - 1]
      OBVIOUS
    <3>2. NextAfter(more, p, segments, i) = NextAfter(after, p, segments, i)
      BY <3>1 DEF NextAfter
    <3>3. i # n + 1 => after[i] = NextAfter(after, p, segments, i)
      BY <2>1 DEF IsAfter
    <3> QED
      BY <3>2, <3>3
  <2>3. IsAfter(more, p, segments, n + 1)
    BY <2>2 DEF IsAfter
  <2> QED
    BY <2>3
<1>3. Nat \subseteq T
  <2> HIDE DEF T
  <2> QED
    BY <1>1, <1>2, InductionOnSet
<1> QED
  BY <1>3

(* ... and getOptionsString takes its last value.                          *)
LEMMA AfterTheLast ==
  ASSUME NEW p, NEW segments \in Seq(Seq(Words))
  PROVE  \E after : /\ IsAfter(after, p, segments, Len(segments))
                    /\ getOptionsString(p, segments) = after[Len(segments)]
<1> DEFINE F == CHOOSE after : IsAfter(after, p, segments, Len(segments))
<1>1. IsAfter(F, p, segments, Len(segments))
  BY AfterExists, LenProperties
<1>2. getOptionsString(p, segments) = F[Len(segments)]
  BY DEF getOptionsString, IsAfter, NextAfter
<1> QED
  BY <1>1, <1>2

(* An option has a value that one of the first i segments gives to it, or  *)
(* its default if none of them does.                                       *)
Decided(value, segments, i, class, key) ==
  \/ \E j \in 1..i : GivesTo(segments[j], class, key)
                     /\ value = ValueOf(key, Last(segments[j]).value)
  \/ /\ \A j \in 1..i : ~GivesTo(segments[j], class, key)
     /\ value = Parameters[class][key]

(* What the first i segments make of the defaults.                         *)
MadeBy(q, p, segments, i) ==
  /\ IsParameters(q) /\ q.url_vec = p.url_vec
  /\ q.outcome = "parsed" =>
       /\ \A j \in 1..i : segments[j] # <<>>
       /\ \A c \in Classes : \A k \in DOMAIN Parameters[c] : Decided(q[c][k], segments, i, c, k)
  /\ q.outcome = "threw" =>
       \E j \in 1..i : \E c \in Classes : \E k \in DOMAIN Parameters[c] \ Flags :
         GivesTo(segments[j], c, k) /\ Last(segments[j]).value \notin DOMAIN Number

(* A further segment.                                                      *)
LEMMA FurtherSegment ==
  ASSUME NEW p, NEW segments \in Seq(Seq(Words)), NEW i \in Nat, i + 1 <= Len(segments),
         NEW q, MadeBy(q, p, segments, i)
  PROVE  MadeBy(IF q.outcome = "parsed" THEN Segment(q, segments[i + 1]) ELSE q,
                   p, segments, i + 1)
<1>0. 1..i \subseteq 1..(i + 1) /\ i + 1 \in 1..(i + 1) /\ 1..(i + 1) = 1..i \cup {i + 1}
  OBVIOUS
<1>1. CASE q.outcome # "parsed"
  BY <1>0, <1>1 DEF MadeBy
<1>2. CASE q.outcome = "parsed"
  <2>1. PICK s \in Seq(Words) : s = segments[i + 1]
    OBVIOUS
  <2>2. PICK r : r = Segment(q, s)
    OBVIOUS
  <2>3. Applies(q, s, r)
    BY <1>2, <2>2, SegmentApplies DEF MadeBy
  <2>4. ASSUME r.outcome = "parsed", NEW c \in Classes, NEW k \in DOMAIN Parameters[c]
        PROVE  Decided(r[c][k], segments, i + 1, c, k)
    <3>1. r[c][k] = IF GivesTo(s, c, k) THEN ValueOf(k, Last(s).value) ELSE q[c][k]
      BY <2>3, <2>4 DEF Applies
    <3>2. Decided(q[c][k], segments, i, c, k)
      BY <1>2 DEF MadeBy
    <3>3. CASE GivesTo(s, c, k)
      BY <1>0, <2>1, <3>1, <3>3 DEF Decided
    <3>4. CASE ~GivesTo(s, c, k)
      BY <1>0, <2>1, <3>1, <3>2, <3>4 DEF Decided
    <3> QED
      BY <3>3, <3>4
  <2>5. r.outcome = "parsed" => \A j \in 1..(i + 1) : segments[j] # <<>>
    BY <1>0, <1>2, <2>1, <2>3 DEF Applies, MadeBy
  <2>6. r.outcome = "threw" =>
          \E j \in 1..(i + 1) : \E c \in Classes : \E k \in DOMAIN Parameters[c] \ Flags :
            GivesTo(segments[j], c, k) /\ Last(segments[j]).value \notin DOMAIN Number
    BY <1>0, <2>1, <2>3 DEF Applies
  <2>7. IsParameters(r) /\ r.url_vec = p.url_vec
    BY <2>3 DEF Applies, MadeBy
  <2>8. MadeBy(r, p, segments, i + 1)
    BY <2>4, <2>5, <2>6, <2>7 DEF MadeBy
  <2> QED
    BY <1>2, <2>1, <2>2, <2>8
<1> QED
  BY <1>1, <1>2

(* All of them.                                                            *)
LEMMA AllSegments ==
  ASSUME NEW p, NEW segments \in Seq(Seq(Words)), MadeBy(p, p, segments, 0)
  PROVE  MadeBy(getOptionsString(p, segments), p, segments, Len(segments))
<1>1. PICK after : /\ IsAfter(after, p, segments, Len(segments))
                   /\ getOptionsString(p, segments) = after[Len(segments)]
  BY AfterTheLast
<1>2. Len(segments) \in Nat /\ \A i \in 0..Len(segments) : after[i] = NextAfter(after, p, segments, i)
  BY <1>1, LenProperties DEF IsAfter
<1> DEFINE T == {i \in Nat : i <= Len(segments) => MadeBy(after[i], p, segments, i)}
<1>3. 0 \in T
  <2>1. after[0] = p
    BY <1>2 DEF NextAfter
  <2> QED
    BY <2>1
<1>4. ASSUME NEW i \in Nat, i \in T
      PROVE  i + 1 \in T
  <2> SUFFICES ASSUME i + 1 <= Len(segments)
               PROVE  MadeBy(after[i + 1], p, segments, i + 1)
    OBVIOUS
  <2>1. PICK q : q = after[i]
    OBVIOUS
  <2>2. MadeBy(q, p, segments, i)
    BY <1>2, <1>4, <2>1
  <2>3. i + 1 \in 0..Len(segments) /\ i + 1 # 0 /\ (i + 1) - 1 = i
    BY <1>2
  <2>4. after[i + 1] = IF q.outcome = "parsed" THEN Segment(q, segments[i + 1]) ELSE q
    BY <1>2, <2>1, <2>3 DEF NextAfter
  <2> QED
    BY <2>2, <2>4, FurtherSegment
<1>5. Len(segments) \in T
  <2> HIDE DEF T
  <2> QED
    BY <1>2, <1>3, <1>4, InductionOnSet
<1> QED
  BY <1>1, <1>2, <1>5

-----------------------------------------------------------------------------
(* The order of the segments.                                              *)

(* The segments that are applied are segments of the URL, and none is left *)
(* out but behind an empty one, which is applied.                          *)
LEMMA NoneLeftOut ==
  ASSUME NEW segments \in Seq(Seq(Words))
  PROVE  LET applied == Applied(segments)
         IN  /\ applied \in Seq(Seq(Words))
             /\ \A j \in 1..Len(applied) : \E i \in DOMAIN segments : applied[j] = segments[i]
             /\ (\A j \in 1..Len(applied) : applied[j] # <<>>) =>
                  \A i \in DOMAIN segments : \E j \in 1..Len(applied) : applied[j] = segments[i]
<1> DEFINE empty == {i \in DOMAIN segments : segments[i] = <<>>}
           last  == IF empty = {} THEN Len(segments) ELSE Min(empty)
           dotted == {i \in 1..last : Len(segments[i]) > 1} \cup {last + 1}
           first == Min(dotted)
           place(i) == IF i < first THEN i ELSE first + last - i
           applied == [i \in 1..last |-> segments[place(i)]]
<1>1. Applied(segments) = applied
  BY DEF Applied
<1>2. Len(segments) \in Nat /\ DOMAIN segments = 1..Len(segments)
      /\ \A i \in DOMAIN segments : segments[i] \in Seq(Words)
  BY LenProperties
<1>3. empty # {} => last \in empty
  <2>1. empty \subseteq Nat
    BY <1>2
  <2> QED
    BY <2>1, LeastNumber
<1>4. last \in 0..Len(segments)
  BY <1>2, <1>3
<1> HIDE DEF last
<1>5. first \in 1..(last + 1)
  <2>1. dotted \subseteq 1..(last + 1) /\ dotted # {}
    BY <1>4
  <2> HIDE DEF dotted
  <2>2. dotted \subseteq Nat
    BY <1>4, <2>1
  <2>3. first \in dotted
    BY <2>1, <2>2, LeastNumber
  <2> QED
    BY <2>1, <2>3
<1> HIDE DEF first
<1>6. \A i \in 1..last : place(i) \in 1..last /\ place(place(i)) \in 1..last
  BY <1>4, <1>5
(* Each place comes about.                                                 *)
<1>7. ASSUME NEW k \in 1..last
      PROVE  \E i \in 1..last : place(i) = k
  <2>1. CASE k < first
    BY <2>1
  <2>2. CASE k >= first
    <3>1. first + last - k \in 1..last /\ ~(first + last - k < first)
      BY <1>4, <1>5, <2>2
    <3>2. place(first + last - k) = k
      BY <1>4, <1>5, <3>1
    <3> QED
      BY <3>1, <3>2
  <2> QED
    BY <1>4, <1>5, <2>1, <2>2
<1> HIDE DEF place
<1>8. applied \in Seq(Seq(Words)) /\ Len(applied) = last
  <2>1. \A i \in 1..last : segments[place(i)] \in Seq(Words)
    BY <1>2, <1>4, <1>6
  <2>2. applied \in [1..last -> Seq(Words)] /\ last \in Nat
    BY <1>4, <2>1
  <2> HIDE DEF applied
  <2> QED
    BY <2>2
<1>9. ASSUME NEW j \in 1..last
      PROVE  \E i \in DOMAIN segments : applied[j] = segments[i]
  <2>1. PICK i : i = place(j)
    OBVIOUS
  <2>2. i \in DOMAIN segments
    BY <1>2, <1>4, <1>6, <2>1
  <2>3. applied[j] = segments[i]
    BY <2>1
  <2> QED
    BY <2>2, <2>3
<1>10. \A i \in 1..last : \E j \in 1..last : applied[j] = segments[i]
  BY <1>7
<1>11. ASSUME \A j \in 1..last : applied[j] # <<>>
       PROVE  last = Len(segments)
  <2>1. empty # {} => last \in 1..last /\ segments[last] = <<>>
    BY <1>2, <1>3
  <2>2. empty = {}
    BY <1>10, <1>11, <2>1
  <2> QED
    BY <2>2 DEF last
<1> HIDE DEF applied
<1> QED
  BY <1>1, <1>2, <1>8, <1>9, <1>10, <1>11

-----------------------------------------------------------------------------
(* The URL.                                                                *)

LEMMA GivenMeans ==
  ASSUME NEW url, NEW class, NEW key
  PROVE  Given(url, class, key) =
           {Last(url.options[i]).value :
              i \in {j \in DOMAIN url.options : GivesTo(url.options[j], class, key)}}
BY DEF Given, GivesTo, Keys

(* What the parser makes of a URL.                                         *)
LEMMA ParseMeans ==
  ASSUME NEW url \in URL
  PROVE  LET p == parseURI(url)
         IN  /\ IsParameters(p) /\ p.url_vec = UrlVector(url.urls)
             /\ p.outcome = "parsed" =>
                  \A class \in Classes : \A key \in DOMAIN Parameters[class] :
                    HasValue(url, class, key, p[class][key])
             /\ p.outcome = "threw" =>
                  \E class \in Classes : \E key \in DOMAIN Parameters[class] \ Flags :
                    ~(Given(url, class, key) \subseteq DOMAIN Number)
<1>1. PICK p0 : p0 = [Parameters EXCEPT !.url_vec = UrlVector(url.urls)]
  OBVIOUS
<1>2. /\ IsParameters(p0) /\ p0.outcome = "parsed" /\ p0.url_vec = UrlVector(url.urls)
      /\ \A class \in Classes : p0[class] = Parameters[class]
  BY <1>1, ParametersAre DEF IsParameters
<1>3. PICK options \in Seq(Seq(Words)) : options = url.options
  BY DEF URL
<1>4. CASE options = NoOptions
  <2>1. parseURI(url) = p0
    BY <1>1, <1>3, <1>4 DEF parseURI
  <2>2. \A class, key : Given(url, class, key) = {}
    <3>1. DOMAIN url.options = {}
      BY <1>3, <1>4 DEF NoOptions
    <3> QED
      BY <3>1, GivenMeans
  <2> QED
    BY <1>2, <2>1, <2>2 DEF HasValue
<1>5. CASE options # NoOptions
  <2>1. PICK p : p = parseURI(url)
    OBVIOUS
  <2>2. PICK applied : applied = Applied(options)
    OBVIOUS
  <2>3. p = getOptionsString(p0, applied)
    BY <1>1, <1>3, <1>5, <2>1, <2>2 DEF parseURI
  <2>4. /\ applied \in Seq(Seq(Words))
        /\ \A j \in 1..Len(applied) : \E i \in DOMAIN options : applied[j] = options[i]
        /\ (\A j \in 1..Len(applied) : applied[j] # <<>>) =>
             \A i \in DOMAIN options : \E j \in 1..Len(applied) : applied[j] = options[i]
    BY <2>2, NoneLeftOut
  <2>5. MadeBy(p0, p0, applied, 0)
    BY <1>2 DEF MadeBy, Decided
  <2>6. MadeBy(p, p0, applied, Len(applied))
    BY <2>3, <2>4, <2>5, AllSegments
  <2>7. ASSUME p.outcome = "parsed", NEW class \in Classes, NEW key \in DOMAIN Parameters[class]
        PROVE  HasValue(url, class, key, p[class][key])
    <3>1. PICK value : value = p[class][key]
      OBVIOUS
    <3>2. Decided(value, applied, Len(applied), class, key)
      BY <2>6, <2>7, <3>1 DEF MadeBy
    <3>3. \A i \in DOMAIN options : \E j \in 1..Len(applied) : applied[j] = options[i]
      BY <2>4, <2>6, <2>7 DEF MadeBy
    <3>4. PICK given : given = Given(url, class, key)
      OBVIOUS
    <3>5. given = {Last(options[i]).value :
                     i \in {j \in DOMAIN options : GivesTo(options[j], class, key)}}
      BY <1>3, <3>4, GivenMeans
    <3>6. CASE \E j \in 1..Len(applied) : GivesTo(applied[j], class, key)
                                           /\ value = ValueOf(key, Last(applied[j]).value)
      <4>1. PICK j \in 1..Len(applied) : GivesTo(applied[j], class, key)
                                         /\ value = ValueOf(key, Last(applied[j]).value)
        BY <3>6
      <4>2. PICK i \in DOMAIN options : applied[j] = options[i]
        BY <2>4
      <4>3. PICK text : text = Last(options[i]).value
        OBVIOUS
      <4>4. text \in given /\ value = ValueOf(key, text)
        BY <3>5, <4>1, <4>2, <4>3
      <4> QED
        BY <3>1, <3>4, <4>4 DEF HasValue, ValueOf
    <3>7. CASE /\ \A j \in 1..Len(applied) : ~GivesTo(applied[j], class, key)
               /\ value = Parameters[class][key]
      <4>1. given = {}
        BY <3>3, <3>5, <3>7
      <4> QED
        BY <3>1, <3>4, <3>7, <4>1 DEF HasValue
    <3> QED
      BY <3>2, <3>6, <3>7 DEF Decided
  <2>8. ASSUME p.outcome = "threw"
        PROVE  \E class \in Classes : \E key \in DOMAIN Parameters[class] \ Flags :
                 ~(Given(url, class, key) \subseteq DOMAIN Number)
    <3>0. PICK j \in 1..Len(applied), class \in Classes :
            \E key \in DOMAIN Parameters[class] \ Flags :
              GivesTo(applied[j], class, key) /\ Last(applied[j]).value \notin DOMAIN Number
      BY <2>6, <2>8 DEF MadeBy
    <3>1. PICK key \in DOMAIN Parameters[class] \ Flags :
            GivesTo(applied[j], class, key) /\ Last(applied[j]).value \notin DOMAIN Number
      BY <3>0
    <3>2. PICK i \in DOMAIN options : applied[j] = options[i]
      BY <2>4
    <3>3. Last(options[i]).value \in Given(url, class, key)
      BY <1>3, <3>1, <3>2, GivenMeans
    <3> QED
      BY <3>1, <3>2, <3>3
  <2> QED
    BY <1>2, <2>1, <2>6, <2>7, <2>8 DEF MadeBy
<1> QED
  BY <1>3, <1>4, <1>5


-----------------------------------------------------------------------------
(* The addresses.                                                          *)

LEMMA IntervalSize ==
  ASSUME NEW n \in Nat
  PROVE  IsFiniteSet(1..n) /\ Cardinality(1..n) = n
<1>1. 1 \in Int /\ n \in Int
  OBVIOUS
<1>2. IsFiniteSet(1..n) /\ Cardinality(1..n) = IF 1 > n THEN 0 ELSE n - 1 + 1
  BY <1>1, FS_Interval, Zenon
<1> QED
  BY <1>2

(* There is no empty one among the addresses that are used: the first one, *)
(* the broker's, is enough here.                                           *)
LEMMA AddressesUsed ==
  ASSUME NEW urls \in Seq(STRING)
  PROVE  /\ UrlVector(urls) \in Seq(STRING)
         /\ UrlVector(urls) # <<>> => Head(UrlVector(urls)) # ""
<1>1. PICK cut : cut = {i \in DOMAIN urls : \E j \in 1..i : urls[j] = ""}
  OBVIOUS
<1>2. Len(urls) \in Nat /\ DOMAIN urls = 1..Len(urls)
  BY LenProperties
<1>3. PICK all : all = 1..Len(urls)
  OBVIOUS
<1>4. /\ Cardinality(cut) \in Nat /\ Cardinality(cut) <= Len(urls)
      /\ cut = all => Cardinality(cut) = Len(urls)
  <2>1. IsFiniteSet(all) /\ Cardinality(all) = Len(urls)
    BY <1>2, <1>3, IntervalSize
  <2>2. cut \subseteq all
    BY <1>1, <1>2, <1>3
  <2>3. IsFiniteSet(cut) /\ Cardinality(cut) <= Cardinality(all)
    BY <2>1, <2>2, FS_Subset
  <2>4. Cardinality(cut) \in Nat
    BY <2>3, FS_CardinalityType
  <2> QED
    BY <2>1, <2>3, <2>4
<1>5. PICK n : n = Len(urls) - Cardinality(cut)
  OBVIOUS
<1>6. n \in 0..Len(urls)
  BY <1>2, <1>4, <1>5
<1>7. PICK used : used = SubSeq(urls, 1, n)
  OBVIOUS
<1>8. used = UrlVector(urls)
  BY <1>1, <1>5, <1>7 DEF UrlVector
<1>9. used \in Seq(STRING) /\ Len(used) = n /\ \A i \in 1..n : used[i] = urls[i]
  BY <1>2, <1>6, <1>7
<1>10. ASSUME used # <<>>
       PROVE  Head(used) # ""
  <2>1. n >= 1
    BY <1>6, <1>9, <1>10, EmptySeq
  <2>2. Head(used) = urls[1]
    BY <1>9, <2>1
  <2>3. ASSUME urls[1] = ""
        PROVE  FALSE
    <3>1. ASSUME NEW i \in 1..Len(urls)
          PROVE  i \in cut
      <4>1. 1 \in 1..i /\ i \in DOMAIN urls
        BY <1>2
      <4> QED
        BY <1>1, <2>3, <4>1
    <3>2. cut = all
      BY <1>1, <1>2, <1>3, <3>1
    <3> QED
      BY <1>2, <1>4, <1>5, <2>1, <3>2
  <2> QED
    BY <2>2, <2>3
<1> QED
  BY <1>8, <1>9, <1>10

LEMMA HeadAndTail ==
  ASSUME NEW S, NEW s \in Seq(S), s # <<>>
  PROVE  <<Head(s)>> \o Tail(s) = s
<1>1. Len(s) \in Nat \ {0}
  BY LenProperties, EmptySeq
<1>2. SubSeq(s, 1, Len(s)) = <<s[1]>> \o SubSeq(s, 2, Len(s))
  BY <1>1, SubSeqRecursiveFirst
<1>3. SubSeq(s, 1, Len(s)) = s
  BY SubSeqFull
<1>4. Head(s) = s[1] /\ Tail(s) = SubSeq(s, 2, Len(s))
  BY TailIsSubSeq
<1> QED
  BY <1>2, <1>3, <1>4


-----------------------------------------------------------------------------
(* The factory and its connections.                                        *)

(* A URL that a factory can be made of.                                    *)
Usable(url) == parseURI(url).outcome = "parsed" /\ parseURI(url).url_vec # <<>>

(* What connect makes of a factory's URL and of the credentials.           *)
Connected(url, user, password, clientId) ==
  LET c == ConnectionContext(FactoryContext(url), user, password, clientId)
  IN  [url |-> c.mPrimaryUrl, options |-> config(c),
       asked |-> [url |-> url, user |-> user, password |-> password,
                  clientId |-> clientId]]

Made == {Connected(r.url, r.user, r.password, r.clientId) :
           r \in {q \in [url : URLs, user : Users, password : Passwords,
                         clientId : ClientIds] : Usable(q.url)}}

FactoryOf(f) ==
  /\ {"exists", "url", "mContext", "mExceptionListener"} \subseteq DOMAIN f
  /\ f.exists = TRUE
  /\ f.url \in URLs /\ Usable(f.url) /\ f.mContext = FactoryContext(f.url)

(* The parser holds what parseURI makes of the last URL alone, the factory *)
(* what it was made of, and every connection is one of such a factory.     *)
FactoryInv ==
  /\ \/ parser = Parameters /\ parsed = NoURL
     \/ parsed \in URLs /\ parser = parseURI(parsed)
  /\ factory = NoFactory \/ FactoryOf(factory)
  /\ connections \in Seq(Made)
  /\ fault \in {"none", "threw", "undefined"}
  /\ calls \in 0..MaxCalls /\ Len(connections) <= calls

LEMMA ParsedURL ==
  ASSUME NEW url \in URLs
  PROVE  /\ url \in URL /\ IsParameters(parseURI(url))
         /\ parseURI(url).url_vec = UrlVector(url.urls)
BY FactoryAssumption, ParseMeans

LEMMA InitInv == Init => FactoryInv
<1>1. <<>> \in Seq(Made) /\ Len(<<>>) = 0
  BY EmptySeq
<1>2. MaxCalls \in Nat
  BY FactoryAssumption
<1>3. ASSUME Init
      PROVE  connections \in Seq(Made) /\ calls \in 0..MaxCalls /\ Len(connections) <= calls
  BY <1>1, <1>2, <1>3 DEF Init
<1> QED
  BY <1>3 DEF Init, FactoryInv

(* A connection that is asked for is one of Made.                          *)
LEMMA ConnectMakes ==
  ASSUME FactoryInv, NEW user \in Users, NEW password \in Passwords,
         NEW clientId \in ClientIds, connect(user, password, clientId)
  PROVE  FactoryInv'
<1>1. /\ factory.exists /\ calls < MaxCalls /\ calls' = calls + 1
      /\ UNCHANGED <<parser, parsed, factory, fault>>
  BY DEF connect, Call
<1>2. FactoryOf(factory)
  BY <1>1 DEF FactoryInv, NoFactory
<1>3. PICK c : c = Connected(factory.url, user, password, clientId)
  OBVIOUS
<1>4. connections' = Append(connections, c)
  BY <1>2, <1>3 DEF connect, Connected, FactoryOf
<1>5. c \in Made
  <2>1. PICK r : r = [url |-> factory.url, user |-> user, password |-> password,
                      clientId |-> clientId]
    OBVIOUS
  <2>2. r \in {q \in [url : URLs, user : Users, password : Passwords,
                      clientId : ClientIds] : Usable(q.url)}
    BY <1>2, <2>1 DEF FactoryOf
  <2>3. c = Connected(r.url, r.user, r.password, r.clientId)
    BY <1>3, <2>1
  <2> QED
    BY <2>2, <2>3 DEF Made
<1>6. connections' \in Seq(Made) /\ Len(connections') = Len(connections) + 1
  BY <1>4, <1>5, AppendProperties DEF FactoryInv
<1>7. Len(connections) \in Nat /\ MaxCalls \in Nat
  BY FactoryAssumption, LenProperties DEF FactoryInv
<1> QED
  BY <1>1, <1>6, <1>7 DEF FactoryInv

LEMMA FactoryMakes ==
  ASSUME FactoryInv, NEW url \in URLs, CMSConnectionFactory(url)
  PROVE  FactoryInv'
<1>1. PICK p : p = parseURI(url)
  OBVIOUS
<1>2. p.outcome \in {"parsed", "threw", "undefined"}
  BY <1>1, ParsedURL DEF IsParameters, Outcomes
<1>3. PICK context : context = FactoryContext(url)
  OBVIOUS
<1>4. \/ p.outcome # "parsed" /\ fault' = p.outcome /\ factory' = NoFactory
      \/ p.outcome = "parsed" /\ p.url_vec = <<>>
         /\ fault' = "undefined" /\ factory' = NoFactory
      \/ /\ p.outcome = "parsed" /\ p.url_vec # <<>> /\ fault' = "none"
         /\ factory' = [exists |-> TRUE, url |-> url, mContext |-> context,
                        mExceptionListener |-> nullptr]
  BY <1>1, <1>3 DEF CMSConnectionFactory
<1>5. /\ fault' \in {"none", "threw", "undefined"}
      /\ factory' = NoFactory \/ FactoryOf(factory')
  BY <1>1, <1>2, <1>3, <1>4 DEF FactoryOf, Usable
<1>6. /\ calls < MaxCalls /\ calls' = calls + 1
      /\ UNCHANGED <<parser, parsed, connections>>
  BY DEF CMSConnectionFactory, Call
<1>7. Len(connections) \in Nat /\ MaxCalls \in Nat
  BY FactoryAssumption, LenProperties DEF FactoryInv
<1> QED
  BY <1>5, <1>6, <1>7 DEF FactoryInv

LEMMA ParseKeeps ==
  ASSUME FactoryInv, NEW url \in URLs, Parse(url)
  PROVE  FactoryInv'
<1>1. Len(connections) \in Nat /\ MaxCalls \in Nat
  BY FactoryAssumption, LenProperties DEF FactoryInv
<1> QED
  BY <1>1 DEF FactoryInv, Parse, Call

LEMMA ListenerKeeps ==
  ASSUME FactoryInv, setExceptionListener
  PROVE  FactoryInv'
<1>1. /\ factory.exists /\ calls < MaxCalls /\ calls' = calls + 1
      /\ UNCHANGED <<parser, parsed, connections, fault>>
  BY DEF setExceptionListener, Call
<1>2. FactoryOf(factory)
  BY <1>1 DEF FactoryInv, NoFactory
<1>3. PICK l \in Listeners : factory' = [factory EXCEPT !.mExceptionListener = l]
  BY DEF setExceptionListener
<1>4. FactoryOf(factory')
  BY <1>2, <1>3 DEF FactoryOf
<1>5. Len(connections) \in Nat /\ MaxCalls \in Nat
  BY FactoryAssumption, LenProperties DEF FactoryInv
<1> QED
  BY <1>1, <1>4, <1>5 DEF FactoryInv

LEMMA NextInv == FactoryInv /\ [Next]_vars => FactoryInv'
<1> SUFFICES ASSUME FactoryInv, [Next]_vars
             PROVE  FactoryInv'
  OBVIOUS
<1>1. ASSUME NEW url \in URLs, Parse(url) \/ CMSConnectionFactory(url)
      PROVE  FactoryInv'
  BY <1>1, ParseKeeps, FactoryMakes
<1>2. "" \in Users /\ "" \in Passwords /\ "" \in ClientIds
  BY FactoryAssumption
<1>3. CASE createConnection
  BY <1>2, <1>3, ConnectMakes DEF createConnection
<1>4. CASE createConnection_user
  BY <1>2, <1>4, ConnectMakes DEF createConnection_user
<1>5. CASE createConnection_clientId
  BY <1>5, ConnectMakes DEF createConnection_clientId
<1>6. CASE setExceptionListener
  BY <1>6, ListenerKeeps
<1>7. CASE UNCHANGED vars
  BY <1>7 DEF vars, FactoryInv
<1> QED
  BY <1>1, <1>3, <1>4, <1>5, <1>6, <1>7 DEF Next

LEMMA Inductive == Spec => []FactoryInv
BY InitInv, NextInv, PTL DEF Spec


-----------------------------------------------------------------------------
(* What the invariant means.                                               *)

LEMMA FirstAddress ==
  ASSUME NEW url \in URLs, Usable(url)
  PROVE  /\ <<FactoryContext(url).mBroker>> \o FactoryContext(url).mFailoverAddresses
              = UrlVector(url.urls)
         /\ FactoryContext(url).mBroker # ""
<1>1. PICK v : v = UrlVector(url.urls)
  OBVIOUS
<1>2. parseURI(url).url_vec = v
  BY <1>1, ParsedURL
<1>3. url.urls \in Seq(STRING)
  BY ParsedURL DEF URL
<1>4. v \in Seq(STRING) /\ v # <<>> /\ Head(v) # ""
  BY <1>1, <1>2, <1>3, AddressesUsed DEF Usable
<1>5. <<Head(v)>> \o Tail(v) = v
  BY <1>4, HeadAndTail
<1> QED
  BY <1>1, <1>2, <1>4, <1>5 DEF FactoryContext

LEMMA Typed == FactoryInv => TypeOK
<1> SUFFICES ASSUME FactoryInv
             PROVE  TypeOK
  OBVIOUS
<1>1. IsParameters(parser)
  BY ParsedURL, ParametersAre DEF FactoryInv
<1>2. factory.exists => factory.mContext.mBroker # ""
  <2>1. CASE factory = NoFactory
    BY <2>1 DEF NoFactory
  <2>2. CASE FactoryOf(factory)
    BY <2>2, FirstAddress DEF FactoryOf
  <2> QED
    BY <2>1, <2>2 DEF FactoryInv
<1>3. Len(connections) <= calls /\ calls <= MaxCalls
  <2>1. calls \in 0..MaxCalls /\ Len(connections) <= calls
    BY DEF FactoryInv
  <2>2. MaxCalls \in Nat
    BY FactoryAssumption
  <2> QED
    BY <2>1, <2>2
<1> QED
  BY <1>1, <1>2, <1>3 DEF TypeOK, FactoryInv, IsParameters, Outcomes

(* The URL that has not been parsed yet gives no option.                   *)
LEMMA NoURLGivesNothing ==
  ASSUME NEW class, NEW key
  PROVE  HasValue(NoURL, class, key, Parameters[class][key])
<1>1. DOMAIN NoURL.options = {}
  BY DEF NoURL, NoOptions
<1>2. Given(NoURL, class, key) = {}
  BY <1>1, GivenMeans
<1> QED
  BY <1>2 DEF HasValue

LEMMA OptionsHold == FactoryInv => OptionsTakeEffect /\ ThrowsForBadNumbersOnly
<1>1. CASE parser = Parameters /\ parsed = NoURL
  <2>1. \A class, key : HasValue(parsed, class, key, parser[class][key])
    BY <1>1, NoURLGivesNothing
  <2>2. parser.outcome = "parsed"
    BY <1>1, ParametersAre
  <2> QED
    BY <2>1, <2>2 DEF OptionsTakeEffect, ThrowsForBadNumbersOnly
<1>2. CASE parsed \in URLs /\ parser = parseURI(parsed)
  <2>1. parsed \in URL
    BY <1>2, FactoryAssumption
  <2> QED
    BY <1>2, <2>1, ParseMeans DEF OptionsTakeEffect, ThrowsForBadNumbersOnly
<1> QED
  BY <1>1, <1>2 DEF FactoryInv

LEMMA FailoverOptions ==
  /\ "failoverOptrions" \in Classes
  /\ {"initialReconnectDelay", "maxReconnectDelay", "maxReconnectAttempts"}
       \subseteq DOMAIN Parameters["failoverOptrions"]
BY DEF Classes, Parameters, Failover

(* Is c configured as it was asked for?                                    *)
Configured(c) ==
  LET a == c.asked
  IN  /\ <<c.url>> \o c.options.failover_urls = UrlVector(a.url.urls)
      /\ HasValue(a.url, "failoverOptrions", "initialReconnectDelay", c.options.delay)
      /\ HasValue(a.url, "failoverOptrions", "maxReconnectDelay", c.options.max_delay)
      /\ HasValue(a.url, "failoverOptrions", "maxReconnectAttempts",
                  c.options.max_attempts)
      /\ c.options.user # None => c.options.user = a.user /\ c.options.password = a.password
      /\ (c.options.user = None) = (a.user = "" \/ a.password = "")
      /\ (c.options.container_id = None) = (a.clientId = "")

LEMMA MadeIsConfigured ==
  ASSUME NEW url \in URLs, Usable(url), NEW user \in Users,
         NEW password \in Passwords, NEW clientId \in ClientIds
  PROVE  Configured(Connected(url, user, password, clientId))
<1>1. PICK c : c = Connected(url, user, password, clientId)
  OBVIOUS
<1>2. PICK context : context = FactoryContext(url)
  OBVIOUS
<1>3. PICK p : p = parseURI(url)
  OBVIOUS
<1>4. /\ c.asked.url = url /\ c.asked.user = user /\ c.asked.password = password
      /\ c.asked.clientId = clientId
      /\ c.url = context.mBroker
      /\ c.options.failover_urls = context.mFailoverAddresses
      /\ c.options.delay = context.mParameters.failoverOptrions.initialReconnectDelay
      /\ c.options.max_delay = context.mParameters.failoverOptrions.maxReconnectDelay
      /\ c.options.max_attempts = context.mParameters.failoverOptrions.maxReconnectAttempts
      /\ c.options.user = IF user # "" /\ password # "" THEN user ELSE None
      /\ c.options.password = IF user # "" /\ password # "" THEN password ELSE None
      /\ c.options.container_id = IF clientId # "" THEN clientId ELSE None
  BY <1>1, <1>2 DEF Connected, config, ConnectionContext
<1>5. <<c.url>> \o c.options.failover_urls = UrlVector(c.asked.url.urls)
  BY <1>2, <1>4, FirstAddress
<1>6. context.mParameters = p
  BY <1>2, <1>3 DEF FactoryContext
<1>7. \A key \in DOMAIN Parameters["failoverOptrions"] :
        HasValue(url, "failoverOptrions", key, p.failoverOptrions[key])
  BY <1>3, FailoverOptions, ParsedURL, ParseMeans DEF Usable
<1>8. /\ HasValue(c.asked.url, "failoverOptrions", "initialReconnectDelay", c.options.delay)
      /\ HasValue(c.asked.url, "failoverOptrions", "maxReconnectDelay", c.options.max_delay)
      /\ HasValue(c.asked.url, "failoverOptrions", "maxReconnectAttempts",
                  c.options.max_attempts)
  BY <1>4, <1>6, <1>7, FailoverOptions
<1>9. user # None /\ password # None /\ clientId # None
  BY FactoryAssumption
<1>10. PICK o : o = c.options
  OBVIOUS
<1>11. PICK a : a = c.asked
  OBVIOUS
<1>12. /\ c.options.user # None =>
            c.options.user = c.asked.user /\ c.options.password = c.asked.password
       /\ (c.options.user = None) = (c.asked.user = "" \/ c.asked.password = "")
       /\ (c.options.container_id = None) = (c.asked.clientId = "")
  <2>1. /\ a.user = user /\ a.password = password /\ a.clientId = clientId
        /\ o.user = IF user # "" /\ password # "" THEN user ELSE None
        /\ o.password = IF user # "" /\ password # "" THEN password ELSE None
        /\ o.container_id = IF clientId # "" THEN clientId ELSE None
    BY <1>4, <1>10, <1>11
  <2>2. /\ o.user # None => o.user = a.user /\ o.password = a.password
        /\ (o.user = None) = (a.user = "" \/ a.password = "")
    BY <1>9, <2>1
  <2>3. (o.container_id = None) = (a.clientId = "")
    BY <1>9, <2>1
  <2> QED
    BY <1>10, <1>11, <2>2, <2>3
<1> QED
  BY <1>1, <1>5, <1>8, <1>12 DEF Configured

LEMMA ConfiguredHolds == FactoryInv => ConnectionsConfigured
<1> SUFFICES ASSUME FactoryInv, NEW i \in DOMAIN connections
             PROVE  Configured(connections[i])
  BY DEF ConnectionsConfigured, Configured
<1>1. connections[i] \in Made
  BY ElementOfSeq, LenProperties DEF FactoryInv
<1>2. PICK r \in {q \in [url : URLs, user : Users, password : Passwords,
                         clientId : ClientIds] : Usable(q.url)} :
        connections[i] = Connected(r.url, r.user, r.password, r.clientId)
  BY <1>1 DEF Made
<1> QED
  BY <1>2, MadeIsConfigured

(* The type invariant of the factory: parser, context and connections are  *)
(* of the shape the code gives them, and no factory has the empty broker   *)
(* address.                                                                *)
THEOREM TypeCorrect == Spec => []TypeOK
BY Inductive, Typed, PTL

(* Whatever URLs a URIParser has parsed before, and however the options of *)
(* the last one are ordered and grouped: each option that it gives has its *)
(* value and every other one its default.                                  *)
THEOREM EveryOptionTakesEffect == Spec => []OptionsTakeEffect
BY Inductive, OptionsHold, PTL

(* An exception of the parser is about a number that std::stoi cannot read *)
(* in the value of a numeric option: a text it does not know, a flag or an *)
(* unknown option never throws.                                            *)
THEOREM OnlyBadNumbersThrow == Spec => []ThrowsForBadNumbersOnly
BY Inductive, OptionsHold, PTL

(* Every connection has the broker, the failover addresses and reconnect   *)
(* options of the URL of its own factory and the credentials of its own    *)
(* call, for every URL, in any sequence of calls.                          *)
THEOREM ConnectionsAreConfigured == Spec => []ConnectionsConfigured
BY Inductive, ConfiguredHolds, PTL

=============================================================================
