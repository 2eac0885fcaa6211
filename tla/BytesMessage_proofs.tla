------------------------- MODULE BytesMessage_proofs -------------------------
(***************************************************************************)
(* The body of a CMSBytesMessage, for every set of objects, every set of   *)
(* lengths and every bound: what the properties of BytesMessage say of its *)
(* reads, its writes and its copies.                                       *)
(*                                                                         *)
(* The bytes of a sequence of values are concatenated one value after the  *)
(* other.  The first part proves what adding a value and taking the first  *)
(* one do to the bytes, by induction over the values; as in                *)
(* MessageProducerDelivery_proofs the induction comes from the fact that a *)
(* set of natural numbers has a least element.                             *)
(***************************************************************************)
EXTENDS BytesMessage, WellFoundedInduction, SequenceTheorems, TLAPS

-----------------------------------------------------------------------------
(* Induction over the natural numbers, for a set instead of a predicate.   *)

(* A set with 1 and with the successor of each of its numbers has all      *)
(* numbers from 1 on.                                                      *)
LEMMA InductionFromOne ==
  ASSUME NEW T, 1 \in T, \A n \in Nat \ {0} : n \in T => n + 1 \in T
  PROVE  Nat \ {0} \subseteq T
<1> DEFINE Others == (Nat \ {0}) \ T
           R == OpToRel(<, Nat)
<1> SUFFICES ASSUME Others # {}
             PROVE  FALSE
  OBVIOUS
<1>1. IsWellFoundedOn(R, Nat)
  BY NatLessThanWellFounded
<1>2. PICK n \in Others : \A k \in Others : <<k, n>> \notin R
  <2>1. Others \subseteq Nat
    OBVIOUS
  <2> HIDE DEF R, Others
  <2> QED
    BY <1>1, <2>1, WFMin
<1>3. \A k \in Others : ~(k < n)
  BY <1>2 DEF OpToRel
<1>4. n # 1 /\ n - 1 \in Nat \ {0}
  OBVIOUS
<1>5. n - 1 \in T
  BY <1>3, <1>4
<1> QED
  BY <1>4, <1>5

-----------------------------------------------------------------------------
(* The values of a body and their bytes.                                   *)

TypeNames == DOMAIN Size \cup {"byte", "string", "bytes"}

(* The bytes of the first n values written.                                *)
WrittenBytes(n) == (1..n) \X Nat

(* The values that consist of such bytes: none is empty.                   *)
Values(n) ==
  {v \in [type : TypeNames, bytes : Seq(WrittenBytes(n))] : v.bytes # <<>>}

(* The bytes of the first i values of vs, given those of fewer.            *)
NextOf(first, vs, i) ==
  IF i = 1 THEN vs[i].bytes ELSE first[i - 1] \o vs[i].bytes

Gives(first, vs, n) == first = [i \in 1..n |-> NextOf(first, vs, i)]

(* There is such a function ...                                            *)
LEMMA GivesExists ==
  ASSUME NEW vs
  PROVE  \A n \in Nat \ {0} : \E first : Gives(first, vs, n)
<1> DEFINE T == {n \in Nat \ {0} : \E first : Gives(first, vs, n)}
<1>1. 1 \in T
  <2> DEFINE first == [i \in 1..1 |-> vs[i].bytes]
  <2>1. Gives(first, vs, 1)
    BY DEF Gives, NextOf
  <2> QED
    BY <2>1
<1>2. ASSUME NEW n \in Nat \ {0}, n \in T
      PROVE  n + 1 \in T
  <2>1. PICK first : Gives(first, vs, n)
    BY <1>2
  <2> DEFINE more == [i \in 1..(n + 1) |->
                        IF i = n + 1 THEN NextOf(first, vs, n + 1) ELSE first[i]]
  <2>2. ASSUME NEW i \in 1..(n + 1)
        PROVE  more[i] = NextOf(more, vs, i)
    <3>1. i # 1 => more[i - 1] = first[i - 1]
      OBVIOUS
    <3>2. NextOf(more, vs, i) = NextOf(first, vs, i)
      BY <3>1 DEF NextOf
    <3>3. i # n + 1 => first[i] = NextOf(first, vs, i)
      BY <2>1 DEF Gives
    <3> QED
      BY <3>2, <3>3
  <2>3. Gives(more, vs, n + 1)
    BY <2>2 DEF Gives
  <2> QED
    BY <2>3
<1>3. Nat \ {0} \subseteq T
  <2> HIDE DEF T
  <2> QED
    BY <1>1, <1>2, InductionFromOne
<1> QED
  BY <1>3

(* ... and BytesOf takes its last value.                                   *)
LEMMA BytesGiven ==
  ASSUME NEW S, NEW vs \in Seq(S), vs # <<>>
  PROVE  \E first : Gives(first, vs, Len(vs)) /\ BytesOf(vs) = first[Len(vs)]
<1> DEFINE F == CHOOSE first : Gives(first, vs, Len(vs))
           chunks == [i \in DOMAIN vs |-> vs[i].bytes]
<1>0. Len(vs) \in Nat \ {0} /\ DOMAIN vs = 1..Len(vs)
  OBVIOUS
<1>1. Gives(F, vs, Len(vs))
  BY <1>0, GivesExists
<1>2. Len(chunks) = Len(vs)
  BY <1>0
<1>3. F = CHOOSE first : first = [i \in 1..Len(chunks) |->
              IF i = 1 THEN chunks[i] ELSE first[i - 1] \o chunks[i]]
  <2>1. ASSUME NEW first
        PROVE  [i \in 1..Len(vs) |-> NextOf(first, vs, i)]
               = [i \in 1..Len(chunks) |->
                    IF i = 1 THEN chunks[i] ELSE first[i - 1] \o chunks[i]]
    BY <1>0, <1>2 DEF NextOf
  <2> QED
    BY <2>1 DEF Gives
<1>4. BytesOf(vs) = F[Len(vs)]
  BY <1>0, <1>2, <1>3 DEF BytesOf, FlattenSeq
<1> QED
  BY <1>1, <1>4

(* What the function gives are bytes.                                      *)
LEMMA GivesBytes ==
  ASSUME NEW m \in Nat, NEW vs \in Seq(Values(m)), NEW first,
         Gives(first, vs, Len(vs))
  PROVE  \A i \in 1..Len(vs) : first[i] \in Seq(WrittenBytes(m))
<1> DEFINE B == WrittenBytes(m)
           T == {i \in Nat \ {0} : i <= Len(vs) => first[i] \in Seq(B)}
<1>0. Len(vs) \in Nat /\ \A i \in 1..Len(vs) : vs[i].bytes \in Seq(B)
  BY DEF Values
<1>1. \A i \in 1..Len(vs) : first[i] = NextOf(first, vs, i)
  BY DEF Gives
<1> HIDE DEF B
<1>2. 1 \in T
  BY <1>0, <1>1 DEF NextOf
<1>3. ASSUME NEW i \in Nat \ {0}, i \in T
      PROVE  i + 1 \in T
  <2> SUFFICES ASSUME i + 1 <= Len(vs)
               PROVE  first[i + 1] \in Seq(B)
    OBVIOUS
  <2>1. first[i] \in Seq(B)
    BY <1>0, <1>3
  <2>2. vs[i + 1].bytes \in Seq(B)
    BY <1>0
  <2>3. i + 1 \in 1..Len(vs) /\ i + 1 # 1 /\ (i + 1) - 1 = i
    BY <1>0
  <2>4. first[i + 1] = first[i] \o vs[i + 1].bytes
    BY <1>1, <2>3 DEF NextOf
  <2> QED
    BY <2>1, <2>2, <2>4, ConcatProperties
<1>4. Nat \ {0} \subseteq T
  <2> HIDE DEF T
  <2> QED
    BY <1>2, <1>3, InductionFromOne
<1> QED
  BY <1>0, <1>4 DEF B

(* Two sequences of values have the same bytes for what they share.        *)
LEMMA GivesAgree ==
  ASSUME NEW vs, NEW us, NEW n \in Nat \ {0}, NEW f, NEW g,
         Gives(f, vs, n), Gives(g, us, n + 1), \A i \in 1..n : vs[i] = us[i]
  PROVE  f[n] = g[n]
<1> DEFINE T == {i \in Nat \ {0} : i <= n => f[i] = g[i]}
<1>1. /\ \A i \in 1..n : f[i] = NextOf(f, vs, i)
      /\ \A i \in 1..n : g[i] = NextOf(g, us, i)
  BY DEF Gives
<1>2. 1 \in T
  BY <1>1 DEF NextOf
<1>3. ASSUME NEW i \in Nat \ {0}, i \in T
      PROVE  i + 1 \in T
  <2> SUFFICES ASSUME i + 1 <= n
               PROVE  f[i + 1] = g[i + 1]
    OBVIOUS
  <2>1. f[i] = g[i] /\ vs[i + 1] = us[i + 1]
    BY <1>3
  <2>2. /\ f[i + 1] = NextOf(f, vs, i + 1) /\ g[i + 1] = NextOf(g, us, i + 1)
        /\ (i + 1) - 1 = i /\ i + 1 # 1
    BY <1>1
  <2> QED
    BY <2>1, <2>2 DEF NextOf
<1>4. Nat \ {0} \subseteq T
  <2> HIDE DEF T
  <2> QED
    BY <1>2, <1>3, InductionFromOne
<1> QED
  BY <1>4

(* No values have no bytes, and the bytes of values are bytes written.     *)
LEMMA BytesTyped ==
  /\ BytesOf(<<>>) = <<>>
  /\ \A m \in Nat : \A vs \in Seq(Values(m)) : BytesOf(vs) \in Seq(WrittenBytes(m))
<1>1. BytesOf(<<>>) = <<>>
  <2>1. [i \in DOMAIN <<>> |-> <<>>[i].bytes] = <<>>
    OBVIOUS
  <2> QED
    BY <2>1 DEF BytesOf, FlattenSeq
<1>2. ASSUME NEW m \in Nat, NEW vs \in Seq(Values(m))
      PROVE  BytesOf(vs) \in Seq(WrittenBytes(m))
  <2>1. CASE vs = <<>>
    BY <1>1, <2>1, EmptySeq
  <2>2. CASE vs # <<>>
    <3>1. PICK first : Gives(first, vs, Len(vs)) /\ BytesOf(vs) = first[Len(vs)]
      BY <2>2, BytesGiven
    <3>2. Len(vs) \in 1..Len(vs)
      BY <2>2
    <3>3. \A i \in 1..Len(vs) : first[i] \in Seq(WrittenBytes(m))
      BY <3>1, GivesBytes
    <3> QED
      BY <3>1, <3>2, <3>3
  <2> QED
    BY <2>1, <2>2
<1> QED
  BY <1>1, <1>2

(* The bytes of one value.                                                 *)
LEMMA BytesOfOne ==
  ASSUME NEW m \in Nat, NEW v \in Values(m)
  PROVE  BytesOf(<<v>>) = v.bytes
<1> DEFINE vs == <<v>>
<1>1. vs \in Seq(Values(m)) /\ vs # <<>> /\ Len(vs) = 1 /\ vs[1] = v
  OBVIOUS
<1> HIDE DEF vs
<1>2. PICK first : Gives(first, vs, 1) /\ BytesOf(vs) = first[1]
  BY <1>1, BytesGiven
<1>3. first[1] = v.bytes
  BY <1>1, <1>2 DEF Gives, NextOf
<1> QED
  BY <1>2, <1>3 DEF vs

(* A value that is added adds its bytes at the end.                        *)
LEMMA BytesOfAppend ==
  ASSUME NEW m \in Nat, NEW vs \in Seq(Values(m)), NEW v \in Values(m)
  PROVE  BytesOf(Append(vs, v)) = BytesOf(vs) \o v.bytes
<1>0. v.bytes \in Seq(WrittenBytes(m))
  BY DEF Values
<1>1. CASE vs = <<>>
  <2>1. Append(vs, v) = <<v>>
    BY <1>1
  <2>2. <<>> \o v.bytes = v.bytes
    BY <1>0
  <2> QED
    BY <1>1, <2>1, <2>2, BytesOfOne, BytesTyped
<1>2. CASE vs # <<>>
  <2> DEFINE us == Append(vs, v)
             n == Len(vs)
  <2>1. /\ us \in Seq(Values(m)) /\ us # <<>> /\ Len(us) = n + 1
        /\ us[n + 1] = v /\ \A i \in 1..n : vs[i] = us[i]
        /\ n \in Nat \ {0} /\ n + 1 # 1 /\ (n + 1) - 1 = n
    BY <1>2
  <2> HIDE DEF us, n
  <2>2. PICK f : Gives(f, vs, n) /\ BytesOf(vs) = f[n]
    BY <1>2, BytesGiven DEF n
  <2>3. PICK g : Gives(g, us, n + 1) /\ BytesOf(us) = g[n + 1]
    BY <2>1, BytesGiven
  <2>4. f[n] = g[n]
    BY <2>1, <2>2, <2>3, GivesAgree
  <2>5. g[n + 1] = g[n] \o v.bytes
    <3>1. n + 1 \in 1..(n + 1)
      BY <2>1
    <3>2. g[n + 1] = NextOf(g, us, n + 1)
      BY <2>3, <3>1 DEF Gives
    <3> QED
      BY <2>1, <3>2 DEF NextOf
  <2> QED
    BY <2>2, <2>3, <2>4, <2>5 DEF us
<1> QED
  BY <1>1, <1>2

(* The bytes of the first value come first.                                *)
LEMMA BytesOfHead ==
  ASSUME NEW m \in Nat, NEW vs \in Seq(Values(m)), vs # <<>>
  PROVE  BytesOf(vs) = Head(vs).bytes \o BytesOf(Tail(vs))
<1> DEFINE B == WrittenBytes(m)
           h == Head(vs).bytes
           n == Len(vs)
<1>1. /\ n \in Nat \ {0} /\ \A i \in 1..n : vs[i] \in Values(m) /\ vs[i].bytes \in Seq(B)
      /\ h \in Seq(B) /\ vs[1].bytes = h
  BY DEF Values
<1>2. /\ Tail(vs) \in Seq(Values(m)) /\ Len(Tail(vs)) = n - 1
      /\ \A i \in 1..(n - 1) : Tail(vs)[i] = vs[i + 1]
  OBVIOUS
<1>3. PICK f : Gives(f, vs, n) /\ BytesOf(vs) = f[n]
  BY BytesGiven
<1>4. f[1] = h
  BY <1>1, <1>3 DEF Gives, NextOf
<1>5. CASE n = 1
  <2>1. Tail(vs) = <<>>
    <3>1. Tail(vs) \in Seq(Values(m)) /\ Len(Tail(vs)) = 0
      BY <1>2, <1>5
    <3> QED
      BY <3>1, EmptySeq
  <2>2. h \o <<>> = h
    BY <1>1
  <2> QED
    BY <1>3, <1>4, <1>5, <2>1, <2>2, BytesTyped
<1>6. CASE n # 1
  <2> DEFINE us == Tail(vs)
  <2>1. us # <<>> /\ n - 1 \in Nat \ {0}
    <3>1. n - 1 \in Nat \ {0} /\ Len(us) = n - 1
      BY <1>1, <1>2, <1>6
    <3> QED
      BY <3>1, EmptySeq
  <2>2. PICK g : Gives(g, us, n - 1) /\ BytesOf(us) = g[n - 1]
    BY <1>2, <2>1, BytesGiven
  <2>3. \A i \in 1..(n - 1) : g[i] \in Seq(B)
    BY <1>2, <2>2, GivesBytes
  <2>4. /\ \A i \in 1..n : f[i] = NextOf(f, vs, i)
        /\ \A i \in 1..(n - 1) : g[i] = NextOf(g, us, i)
    BY <1>3, <2>2 DEF Gives
  <2> DEFINE T == {i \in Nat \ {0} : i <= n - 1 => f[i + 1] = h \o g[i]}
  <2> HIDE DEF B, h, n, us
  <2>5. 1 \in T
    <3> SUFFICES ASSUME 1 <= n - 1
                 PROVE  f[2] = h \o g[1]
      OBVIOUS
    <3>1. 2 \in 1..n /\ 2 # 1 /\ 2 - 1 = 1 /\ 1 \in 1..(n - 1)
      BY <1>1
    <3>2. f[2] = f[1] \o vs[2].bytes
      BY <2>4, <3>1 DEF NextOf
    <3>3. g[1] = us[1].bytes /\ us[1] = vs[2]
      BY <1>2, <2>4, <3>1 DEF NextOf, us
    <3> QED
      BY <1>4, <3>2, <3>3
  <2>6. ASSUME NEW i \in Nat \ {0}, i \in T
        PROVE  i + 1 \in T
    <3> SUFFICES ASSUME i + 1 <= n - 1
                 PROVE  f[(i + 1) + 1] = h \o g[i + 1]
      OBVIOUS
    <3>1. /\ i + 1 \in 1..(n - 1) /\ (i + 1) + 1 \in 1..n /\ i \in 1..(n - 1)
          /\ i + 1 # 1 /\ (i + 1) + 1 # 1 /\ (i + 1) - 1 = i
          /\ ((i + 1) + 1) - 1 = i + 1
      BY <1>1
    <3>2. f[i + 1] = h \o g[i]
      BY <2>6, <3>1
    <3>3. f[(i + 1) + 1] = f[i + 1] \o vs[(i + 1) + 1].bytes
      BY <2>4, <3>1 DEF NextOf
    <3>4. g[i + 1] = g[i] \o vs[(i + 1) + 1].bytes
      BY <1>2, <2>4, <3>1 DEF NextOf, us
    <3>5. (h \o g[i]) \o vs[(i + 1) + 1].bytes = h \o (g[i] \o vs[(i + 1) + 1].bytes)
      <4>1. /\ h \in Seq(B) /\ g[i] \in Seq(B)
            /\ vs[(i + 1) + 1].bytes \in Seq(B)
        BY <1>1, <2>3, <3>1
      <4>2. ASSUME NEW x \in Seq(B), NEW y \in Seq(B)
            PROVE  (h \o x) \o y = h \o (x \o y)
        BY <4>1
      <4> QED
        BY <4>1, <4>2
    <3> QED
      BY <3>2, <3>3, <3>4, <3>5
  <2>7. Nat \ {0} \subseteq T
    <3> HIDE DEF T
    <3> QED
      BY <2>5, <2>6, InductionFromOne
  <2>8. f[n] = h \o g[n - 1]
    BY <1>1, <2>1, <2>7
  <2> QED
    BY <1>3, <2>2, <2>8 DEF h, us
<1> QED
  BY <1>5, <1>6

-----------------------------------------------------------------------------
(* The inductive invariant.                                                *)

(* What is behind position p of b.                                         *)
After(b, p) == SubSeq(b, p + 1, Len(b))

(* An object with body b, position p, the values w of its body, of which q *)
(* are still to be read by a reader who follows the types (f), after n     *)
(* values were written: the body has the bytes of its values, and what is  *)
(* behind the position those of the values to be read.  A reader who meets *)
(* the values needs to know which bytes come next, not how many.           *)
Sound(b, p, w, q, f, n) ==
  /\ b \in Seq(WrittenBytes(n))
  /\ w \in Seq(Values(n)) /\ q \in Seq(Values(n))
  /\ b = BytesOf(w)
  /\ f => p <= Len(b) /\ BytesOf(q) = After(b, p)

ObjectSound(o) ==
  Sound(body[o], read_position[o], written[o], pending[o], follows[o], writes)

(* A body on its way.                                                      *)
Sent(s, n) ==
  /\ s.bytes \in Seq(WrittenBytes(n))
  /\ s.written \in Seq(Values(n))
  /\ s.bytes = BytesOf(s.written)

(* The outcome of a read keeps its promise, in the mode that allows it and *)
(* in the other.                                                           *)
Kept(r) ==
  /\ r.kind \in {"nothing", "value", "EOF", "threw", "body", "undefined"}
  /\ r.promise \in {"value", "end", "none"}
  /\ r.promise = "value" => r.kind = "value" /\ r.bytes = r.expected
  /\ r.promise = "end" => r.kind = "EOF"
  /\ r.kind = "body" => r.bytes = r.expected

Shape ==
  /\ writes \in Nat
  /\ DOMAIN body = Objects
  /\ read_position \in [Objects -> Nat]
  /\ encoded \in [Objects -> BOOLEAN]
  /\ DOMAIN written = Objects /\ DOMAIN pending = Objects /\ DOMAIN follows = Objects

ObjectsSound == \A o \in Objects : Exists(o) => ObjectSound(o)
WireSound    == wire \in Seq([bytes : Seq(WrittenBytes(writes)), written : Seq(Values(writes))])
                /\ \A i \in DOMAIN wire : Sent(wire[i], writes)

BytesInv == Shape /\ ObjectsSound /\ WireSound /\ Kept(result)

-----------------------------------------------------------------------------
(* What is sound stays so when more values are written.                    *)

LEMMA SeqOfMore ==
  ASSUME NEW S, NEW T, S \subseteq T
  PROVE  Seq(S) \subseteq Seq(T)
OBVIOUS

LEMMA MoreValues ==
  ASSUME NEW n \in Nat, NEW m \in Nat, n <= m
  PROVE  /\ Seq(WrittenBytes(n)) \subseteq Seq(WrittenBytes(m))
         /\ Seq(Values(n)) \subseteq Seq(Values(m))
<1>1. WrittenBytes(n) \subseteq WrittenBytes(m)
  BY DEF WrittenBytes
<1>2. Seq(WrittenBytes(n)) \subseteq Seq(WrittenBytes(m))
  BY <1>1, SeqOfMore
<1>3. Values(n) \subseteq Values(m)
  BY <1>2 DEF Values
<1> QED
  BY <1>2, <1>3, SeqOfMore

LEMMA SoundMore ==
  ASSUME NEW n \in Nat, NEW m \in Nat, n <= m,
         NEW b, NEW p, NEW w, NEW q, NEW f, Sound(b, p, w, q, f, n)
  PROVE  Sound(b, p, w, q, f, m)
BY MoreValues DEF Sound

LEMMA SentMore ==
  ASSUME NEW n \in Nat, NEW m \in Nat, n <= m, NEW s, Sent(s, n)
  PROVE  Sent(s, m)
BY MoreValues DEF Sent

LEMMA WireMore ==
  ASSUME WireSound, writes \in Nat, writes' \in Nat, writes <= writes',
         UNCHANGED wire
  PROVE  WireSound'
<1>1. /\ Seq(WrittenBytes(writes)) \subseteq Seq(WrittenBytes(writes'))
      /\ Seq(Values(writes)) \subseteq Seq(Values(writes'))
  BY MoreValues
<1>2. [bytes : Seq(WrittenBytes(writes)), written : Seq(Values(writes))]
      \subseteq [bytes : Seq(WrittenBytes(writes')), written : Seq(Values(writes'))]
  BY <1>1
<1>3. wire \in Seq([bytes : Seq(WrittenBytes(writes')), written : Seq(Values(writes'))])
  BY <1>2, SeqOfMore DEF WireSound
<1>4. \A i \in DOMAIN wire : Sent(wire[i], writes')
  BY SentMore DEF WireSound
<1> QED
  BY <1>3, <1>4 DEF WireSound

(* A step of one object: if what it leaves of that object is sound, all    *)
(* objects are.                                                            *)
OthersKept(o) ==
  \A x \in Objects \ {o} :
    /\ body'[x] = body[x] /\ read_position'[x] = read_position[x]
    /\ written'[x] = written[x] /\ pending'[x] = pending[x]
    /\ follows'[x] = follows[x]

LEMMA StepOfOne ==
  ASSUME ObjectsSound, writes \in Nat, writes' \in Nat, writes <= writes',
         NEW o \in Objects, OthersKept(o),
         Sound(body'[o], read_position'[o], written'[o], pending'[o],
               follows'[o], writes')
  PROVE  ObjectsSound'
<1> SUFFICES ASSUME NEW x \in Objects, Exists(x)', x # o
             PROVE  ObjectSound(x)'
  BY DEF ObjectsSound, ObjectSound
<1>1. Exists(x)
  BY DEF Exists, Unused, OthersKept
<1>2. ObjectSound(x)
  BY <1>1 DEF ObjectsSound
<1>3. Sound(body[x], read_position[x], written[x], pending[x], follows[x], writes')
  BY <1>2, SoundMore DEF ObjectSound
<1> QED
  BY <1>3 DEF OthersKept, ObjectSound

-----------------------------------------------------------------------------
(* Writing, starting again and reading.                                    *)

LEMMA AfterProperties ==
  ASSUME NEW S, NEW b \in Seq(S), NEW p \in Nat, p <= Len(b)
  PROVE  /\ After(b, p) \in Seq(S) /\ Len(After(b, p)) = Len(b) - p
         /\ \A k \in 1..(Len(b) - p) : After(b, p)[k] = b[p + k]
BY DEF After

LEMMA AfterAppended ==
  ASSUME NEW S, NEW b \in Seq(S), NEW x \in Seq(S), NEW p \in Nat, p <= Len(b)
  PROVE  After(b \o x, p) = After(b, p) \o x
<1>1. b \o x \in Seq(S) /\ Len(b \o x) = Len(b) + Len(x) /\ p <= Len(b \o x)
  OBVIOUS
<1>2. /\ After(b \o x, p) \in Seq(S) /\ Len(After(b \o x, p)) = Len(b \o x) - p
      /\ \A k \in 1..(Len(b \o x) - p) : After(b \o x, p)[k] = (b \o x)[p + k]
  BY <1>1, AfterProperties
<1>3. /\ After(b, p) \in Seq(S) /\ Len(After(b, p)) = Len(b) - p
      /\ \A k \in 1..(Len(b) - p) : After(b, p)[k] = b[p + k]
  BY AfterProperties
<1> DEFINE a == After(b, p)
<1>4. /\ a \o x \in Seq(S)
      /\ Len(a \o x) = (Len(b) - p) + Len(x)
      /\ \A k \in 1..((Len(b) - p) + Len(x)) :
           (a \o x)[k] = IF k <= Len(b) - p THEN a[k] ELSE x[k - (Len(b) - p)]
  <2>1. a \in Seq(S) /\ Len(a) = Len(b) - p
    BY <1>3
  <2> HIDE DEF a
  <2> QED
    BY <2>1
<1>5. ASSUME NEW k \in 1..((Len(b) - p) + Len(x))
      PROVE  After(b \o x, p)[k] = (After(b, p) \o x)[k]
  <2>1. After(b \o x, p)[k] = (b \o x)[p + k]
    BY <1>1, <1>2
  <2>2. CASE k <= Len(b) - p
    <3>1. (b \o x)[p + k] = b[p + k]
      BY <2>2
    <3>2. (After(b, p) \o x)[k] = b[p + k]
      BY <1>3, <1>4, <2>2
    <3> QED
      BY <2>1, <3>1, <3>2
  <2>3. CASE ~(k <= Len(b) - p)
    <3>1. (b \o x)[p + k] = x[(p + k) - Len(b)]
      BY <2>3
    <3>2. (After(b, p) \o x)[k] = x[k - (Len(b) - p)]
      BY <1>4, <2>3
    <3>3. (p + k) - Len(b) = k - (Len(b) - p)
      OBVIOUS
    <3> QED
      BY <2>1, <3>1, <3>2, <3>3
  <2> QED
    BY <2>2, <2>3
<1>6. Len(After(b \o x, p)) = Len(After(b, p) \o x)
  BY <1>1, <1>2, <1>4
<1>7. \A k \in 1..Len(After(b \o x, p)) : After(b \o x, p)[k] = (After(b, p) \o x)[k]
  <2>1. Len(After(b \o x, p)) = (Len(b) - p) + Len(x)
    BY <1>1, <1>2
  <2> QED
    BY <1>5, <2>1
<1> QED
  BY <1>2, <1>4, <1>6, <1>7, SeqEqual

(* h comes first behind p, and t follows.                                  *)
Divides(b, p, h, t) ==
  /\ p + Len(h) <= Len(b)
  /\ h = [k \in 1..Len(h) |-> b[p + k]]
  /\ t = After(b, p + Len(h))

LEMMA AfterSplit ==
  ASSUME NEW S, NEW b \in Seq(S), NEW h \in Seq(S), NEW t \in Seq(S),
         NEW p \in Nat, p <= Len(b), After(b, p) = h \o t
  PROVE  Divides(b, p, h, t)
<1>1. /\ Len(h \o t) = Len(b) - p
      /\ \A k \in 1..(Len(b) - p) : (h \o t)[k] = b[p + k]
  <2>1. /\ Len(After(b, p)) = Len(b) - p
        /\ \A k \in 1..(Len(b) - p) : After(b, p)[k] = b[p + k]
    BY AfterProperties
  <2> QED
    BY <2>1
<1>2. /\ Len(h) \in Nat /\ Len(t) \in Nat /\ Len(b) \in Nat
      /\ Len(b) - p = Len(h) + Len(t)
  BY <1>1
<1> DEFINE P == p + Len(h)
<1>3. P \in Nat /\ P <= Len(b) /\ Len(b) - P = Len(t)
  BY <1>2
<1>4. /\ After(b, P) \in Seq(S) /\ Len(After(b, P)) = Len(t)
      /\ \A k \in 1..Len(t) : After(b, P)[k] = b[P + k]
  <2> HIDE DEF P
  <2> QED
    BY <1>3, AfterProperties
<1>5. ASSUME NEW k \in 1..Len(h)
      PROVE  h[k] = b[p + k]
  <2>1. (h \o t)[k] = h[k]
    OBVIOUS
  <2>2. k \in 1..(Len(b) - p)
    BY <1>2
  <2> QED
    BY <1>1, <2>1, <2>2
<1>6. ASSUME NEW k \in 1..Len(t)
      PROVE  t[k] = After(b, P)[k]
  <2>1. (h \o t)[Len(h) + k] = t[k]
    OBVIOUS
  <2>2. Len(h) + k \in 1..(Len(b) - p)
    BY <1>2
  <2>3. (h \o t)[Len(h) + k] = b[p + (Len(h) + k)]
    BY <1>1, <2>2
  <2>4. p + (Len(h) + k) = P + k
    BY <1>2
  <2> QED
    BY <1>4, <2>1, <2>3, <2>4
<1>7. t = After(b, P)
  <2> HIDE DEF P
  <2> QED
    BY <1>4, <1>6, SeqEqual
<1>8. h = [k \in 1..Len(h) |-> b[p + k]]
  BY <1>5
<1> QED
  BY <1>3, <1>7, <1>8 DEF Divides

LEMMA SoundWrite ==
  ASSUME NEW n \in Nat, NEW b, NEW p \in Nat, NEW w, NEW q, NEW f,
         Sound(b, p, w, q, f, n), NEW v \in Values(n)
  PROVE  Sound(b \o v.bytes, p, Append(w, v), Append(q, v), f, n)
<1> DEFINE x == v.bytes
           B == WrittenBytes(n)
<1>1. /\ b \in Seq(B) /\ x \in Seq(B)
      /\ w \in Seq(Values(n)) /\ q \in Seq(Values(n))
      /\ b = BytesOf(w)
  BY DEF Sound, Values
<1>2. BytesOf(Append(w, v)) = b \o x
  BY <1>1, BytesOfAppend
<1>3. BytesOf(Append(q, v)) = BytesOf(q) \o x
  BY <1>1, BytesOfAppend
<1>4. b \o x \in Seq(B) /\ Len(b \o x) = Len(b) + Len(x)
  BY <1>1
<1>5. p <= Len(b) => After(b \o x, p) = After(b, p) \o x
  BY <1>1, AfterAppended
<1>6. Append(w, v) \in Seq(Values(n)) /\ Append(q, v) \in Seq(Values(n))
  BY <1>1
<1>7. ASSUME f
      PROVE  p <= Len(b \o x) /\ BytesOf(Append(q, v)) = After(b \o x, p)
  <2>1. p <= Len(b) /\ BytesOf(q) = After(b, p)
    BY <1>7 DEF Sound
  <2>2. p <= Len(b \o x)
    BY <1>1, <1>4, <2>1
  <2> QED
    BY <1>3, <1>5, <2>1, <2>2
<1> QED
  BY <1>2, <1>4, <1>6, <1>7 DEF Sound

LEMMA SoundAtStart ==
  ASSUME NEW n \in Nat, NEW b \in Seq(WrittenBytes(n)), NEW w \in Seq(Values(n)),
         b = BytesOf(w)
  PROVE  Sound(b, 0, w, w, TRUE, n)
<1>1. After(b, 0) = b /\ 0 <= Len(b)
  BY DEF After
<1> QED
  BY <1>1 DEF Sound

(* Nothing is promised to a reader who does not follow.                    *)
LEMMA SoundAnywhere ==
  ASSUME NEW n, NEW b, NEW p, NEW w, NEW q, NEW f, NEW r,
         Sound(b, p, w, q, f, n)
  PROVE  Sound(b, r, w, q, FALSE, n)
BY DEF Sound

LEMMA SoundAtEnd ==
  ASSUME NEW n \in Nat, NEW b, NEW p \in Nat, NEW w, NEW q, NEW f,
         Sound(b, p, w, q, f, n), f, q = <<>>
  PROVE  p = Len(b) /\ b \in Seq(WrittenBytes(n))
<1>1. b \in Seq(WrittenBytes(n)) /\ p <= Len(b) /\ After(b, p) = <<>>
  BY BytesTyped DEF Sound
<1>2. Len(After(b, p)) = Len(b) - p
  BY <1>1, AfterProperties
<1> QED
  BY <1>1, <1>2

(* The value h comes next, and behind it the rest of q.                    *)
Comes(h, b, p, w, q, n) ==
  /\ b \in Seq(WrittenBytes(n)) /\ h \in Seq(WrittenBytes(n))
  /\ Len(h) > 0 /\ p + Len(h) <= Len(b)
  /\ h = [k \in 1..Len(h) |-> b[p + k]]
  /\ Sound(b, p + Len(h), w, Tail(q), TRUE, n)

LEMMA SoundRead ==
  ASSUME NEW n \in Nat, NEW b, NEW p \in Nat, NEW w, NEW q, NEW f,
         Sound(b, p, w, q, f, n), f, q # <<>>
  PROVE  Comes(Head(q).bytes, b, p, w, q, n)
<1> DEFINE h == Head(q).bytes
           t == BytesOf(Tail(q))
           B == WrittenBytes(n)
<1>1. /\ b \in Seq(B) /\ q \in Seq(Values(n)) /\ p <= Len(b)
      /\ Tail(q) \in Seq(Values(n)) /\ Head(q) \in Values(n)
  BY DEF Sound
<1>2. h \in Seq(B) /\ h # <<>> /\ t \in Seq(B)
  BY <1>1, BytesTyped DEF Values
<1>3. After(b, p) = h \o t
  BY <1>1, BytesOfHead DEF Sound
<1> HIDE DEF h, t, B
<1>4. Divides(b, p, h, t)
  <2>1. b \in Seq(B) /\ h \in Seq(B) /\ t \in Seq(B) /\ p <= Len(b)
    BY <1>1, <1>2
  <2> QED
    BY <1>3, <2>1, AfterSplit
<1>5. Len(h) \in Nat /\ Len(h) > 0
  BY <1>2, EmptySeq
<1>6. Sound(b, p + Len(h), w, Tail(q), TRUE, n)
  BY <1>1, <1>4 DEF Sound, t, Divides
<1>7. b \in Seq(WrittenBytes(n)) /\ h \in Seq(WrittenBytes(n))
  BY <1>1, <1>2 DEF B
<1>8. Comes(h, b, p, w, q, n)
  BY <1>4, <1>5, <1>6, <1>7 DEF Divides, Comes
<1> QED
  BY <1>8 DEF h

-----------------------------------------------------------------------------
(* The reads.                                                              *)

(* What a promise says of the values to be read.                           *)
LEMMA PromiseMeans ==
  ASSUME NEW o, NEW type, NEW n
  PROVE  /\ Promise(o, type, n) \in {"value", "end", "none"}
         /\ Promise(o, type, n) = "value" =>
              follows[o] /\ pending[o] # <<>> /\ Len(Head(pending[o]).bytes) = n
         /\ Promise(o, type, n) = "end" => follows[o] /\ pending[o] = <<>>
BY DEF Promise

(* What is left of the body, in bytes.                                     *)
LEMMA LeftOf ==
  ASSUME BytesInv, NEW o \in Objects, Exists(o)
  PROVE  /\ writes \in Nat /\ read_position[o] \in Nat
         /\ Len(body[o]) \in Nat /\ Left(o) \in Int
         /\ Sound(body[o], read_position[o], written[o], pending[o], follows[o], writes)
<1>1. /\ writes \in Nat /\ read_position[o] \in Nat
      /\ Sound(body[o], read_position[o], written[o], pending[o], follows[o], writes)
  BY DEF BytesInv, Shape, ObjectsSound, ObjectSound
<1>2. body[o] \in Seq(WrittenBytes(writes))
  BY <1>1 DEF Sound
<1> QED
  BY <1>1, <1>2 DEF Left

(* A promised value lies whole in what is left, and is not empty.          *)
Delivers(o, n) ==
  /\ n \in Nat /\ 0 < n /\ n <= Left(o)
  /\ Head(pending[o]).bytes = Bytes(o, n)
  /\ Sound(body[o], read_position[o] + n, written[o], Tail(pending[o]), TRUE, writes)

LEMMA ValueDelivered ==
  ASSUME BytesInv, NEW o \in Objects, Exists(o), NEW type, NEW n,
         Promise(o, type, n) = "value"
  PROVE  Delivers(o, n)
<1> DEFINE h == Head(pending[o]).bytes
<1>1. follows[o] /\ pending[o] # <<>> /\ Len(h) = n
  BY PromiseMeans
<1>2. Comes(h, body[o], read_position[o], written[o], pending[o], writes)
  BY <1>1, LeftOf, SoundRead
<1> HIDE DEF h
<1>3. n \in Nat /\ 0 < n /\ n <= Left(o)
  BY <1>1, <1>2, LeftOf DEF Left, Comes
<1>4. Bytes(o, n) = [k \in 1..n |-> body[o][read_position[o] + k]]
  BY <1>3, LeftOf DEF Bytes
<1>5. h = Bytes(o, n)
  BY <1>1, <1>2, <1>4 DEF Comes
<1>6. Sound(body[o], read_position[o] + n, written[o], Tail(pending[o]), TRUE, writes)
  BY <1>1, <1>2 DEF Comes
<1> QED
  BY <1>3, <1>5, <1>6 DEF Delivers, h

(* When the end is promised nothing is left.                               *)
LEMMA EndReached ==
  ASSUME BytesInv, NEW o \in Objects, Exists(o), NEW type, NEW n,
         Promise(o, type, n) = "end"
  PROVE  Left(o) = 0
<1>1. follows[o] /\ pending[o] = <<>>
  BY PromiseMeans
<1>2. read_position[o] = Len(body[o])
  BY <1>1, LeftOf, SoundAtEnd
<1> QED
  BY <1>2, LeftOf DEF Left

(* A read leaves the bodies and the wire alone.                            *)
LEMMA ReadFrame ==
  ASSUME BytesInv, Read
  PROVE  writes' = writes /\ writes' \in Nat /\ WireSound'
<1>1. UNCHANGED <<writes, wire>> /\ writes \in Nat
  BY DEF Read, BytesInv, Shape
<1> QED
  BY <1>1 DEF WireSound, BytesInv

(* A call that returns n bytes under its promise, or under none.           *)
LEMMA ReturnedSafe ==
  ASSUME BytesInv, NEW o \in Objects, Exists(o), Read,
         NEW type, NEW n \in Nat, NEW promise,
         promise = "none" \/ (promise = Promise(o, type, n) /\ Left(o) > 0),
         Returned(o, n, promise)
  PROVE  BytesInv'
<1>0. /\ writes \in Nat /\ read_position[o] \in Nat /\ DOMAIN body = Objects
      /\ read_position \in [Objects -> Nat] /\ DOMAIN written = Objects
      /\ DOMAIN pending = Objects /\ DOMAIN follows = Objects
      /\ Sound(body[o], read_position[o], written[o], pending[o], follows[o], writes)
  BY DEF BytesInv, Shape, ObjectsSound, ObjectSound
<1>1. /\ body' = body /\ written' = written /\ encoded' = encoded /\ writes' = writes
      /\ read_position' = [read_position EXCEPT ![o] = @ + n]
      /\ follows' = [follows EXCEPT ![o] = promise # "none"]
      /\ pending' = [pending EXCEPT ![o] = IF promise = "value" THEN Tail(@) ELSE @]
      /\ result' = [kind |-> "value", bytes |-> Bytes(o, n), promise |-> promise,
                    expected |-> IF promise = "value" THEN Head(pending[o]).bytes
                                                      ELSE <<>>,
                    readable |-> readable[o]]
  BY DEF Read, Returned, Outcome
<1>2. promise = "none" \/ (promise = "value" /\ promise = Promise(o, type, n))
  <2>1. ASSUME promise = Promise(o, type, n), Left(o) > 0
        PROVE  promise # "end"
    BY <2>1, EndReached
  <2> QED
    BY <2>1, PromiseMeans
<1>3. promise = "value" =>
        /\ Head(pending[o]).bytes = Bytes(o, n)
        /\ Sound(body[o], read_position[o] + n, written[o], Tail(pending[o]), TRUE, writes)
  BY <1>2, ValueDelivered DEF Delivers
<1>4. Kept(result')
  BY <1>1, <1>2, <1>3 DEF Kept
<1>5. Sound(body'[o], read_position'[o], written'[o], pending'[o], follows'[o], writes')
  <2>1. CASE promise = "none"
    <3>1. Sound(body[o], read_position[o] + n, written[o], pending[o], FALSE, writes)
      BY <1>0, SoundAnywhere
    <3>2. /\ read_position'[o] = read_position[o] + n /\ pending'[o] = pending[o]
          /\ follows'[o] = FALSE
      BY <1>0, <1>1, <2>1
    <3> QED
      BY <1>1, <3>1, <3>2
  <2>2. CASE promise = "value"
    <3>1. /\ read_position'[o] = read_position[o] + n
          /\ pending'[o] = Tail(pending[o]) /\ follows'[o] = TRUE
      BY <1>0, <1>1, <2>2
    <3> QED
      BY <1>1, <1>3, <2>2, <3>1
  <2> QED
    BY <1>2, <2>1, <2>2
<1>6. OthersKept(o)
  BY <1>0, <1>1 DEF OthersKept
<1>7. ObjectsSound'
  BY <1>0, <1>1, <1>5, <1>6, StepOfOne DEF BytesInv
<1>8. Shape'
  BY <1>0, <1>1 DEF Shape, BytesInv
<1> QED
  BY <1>4, <1>7, <1>8, ReadFrame DEF BytesInv

(* MessageEOFException when nothing is left.                               *)
LEMMA ThrewSafe ==
  ASSUME BytesInv, NEW o \in Objects, Exists(o), Read,
         NEW type, NEW n, Left(o) <= 0, ThrewEOF(o, Promise(o, type, n))
  PROVE  BytesInv'
<1> DEFINE promise == Promise(o, type, n)
<1>0. /\ writes \in Nat /\ read_position[o] \in Nat /\ DOMAIN body = Objects
      /\ DOMAIN written = Objects
      /\ DOMAIN pending = Objects /\ DOMAIN follows = Objects
      /\ Sound(body[o], read_position[o], written[o], pending[o], follows[o], writes)
  BY DEF BytesInv, Shape, ObjectsSound, ObjectSound
<1>1. promise \in {"end", "none"}
  <2>1. ASSUME promise = "value"
        PROVE  FALSE
    <3>1. Delivers(o, n)
      BY <2>1, ValueDelivered
    <3>2. Left(o) \in Int
      BY LeftOf
    <3> QED
      BY <3>1, <3>2 DEF Delivers
  <2> QED
    BY <2>1, PromiseMeans
<1>2. promise = "end" => follows[o]
  BY PromiseMeans
<1> HIDE DEF promise
<1>3. /\ body' = body /\ written' = written /\ encoded' = encoded /\ writes' = writes
      /\ read_position' = read_position
      /\ follows' = [follows EXCEPT ![o] = promise # "none"]
      /\ pending' = [pending EXCEPT ![o] = @]
      /\ result' = [kind |-> "EOF", bytes |-> <<>>, promise |-> promise,
                    expected |-> <<>>, readable |-> readable[o]]
  BY <1>1 DEF Read, ThrewEOF, Outcome, promise
<1>4. Kept(result')
  BY <1>1, <1>3 DEF Kept
<1>5. Sound(body[o], read_position[o], written[o], pending[o], promise # "none", writes)
  BY <1>0, <1>1, <1>2 DEF Sound
<1>6. OthersKept(o)
  BY <1>0, <1>3 DEF OthersKept
<1>7. follows'[o] = (promise # "none")
  BY <1>0, <1>3
<1>8. Sound(body'[o], read_position'[o], written'[o], pending'[o], follows'[o], writes')
  BY <1>3, <1>5, <1>7
<1>9. ObjectsSound'
  BY <1>0, <1>3, <1>6, <1>8, StepOfOne DEF BytesInv
<1>10. Shape'
  BY <1>0, <1>3 DEF Shape, BytesInv
<1> QED
  BY <1>4, <1>9, <1>10, ReadFrame DEF BytesInv

(* A call that reads nothing and of which nothing is promised.             *)
LEMMA UnpromisedSafe ==
  ASSUME BytesInv, NEW o \in Objects, Exists(o), Read, UNCHANGED read_position,
         NEW kind \in {"value", "undefined"}, Outcome(o, kind, <<>>, "none")
  PROVE  BytesInv'
<1>0. /\ writes \in Nat /\ read_position[o] \in Nat
      /\ DOMAIN body = Objects /\ DOMAIN written = Objects
      /\ DOMAIN pending = Objects /\ DOMAIN follows = Objects
      /\ Sound(body[o], read_position[o], written[o], pending[o], follows[o], writes)
  BY DEF BytesInv, Shape, ObjectsSound, ObjectSound
<1>1. /\ body' = body /\ written' = written /\ encoded' = encoded /\ writes' = writes
      /\ read_position' = read_position
      /\ follows' = [follows EXCEPT ![o] = FALSE]
      /\ pending' = [pending EXCEPT ![o] = @]
      /\ result' = [kind |-> kind, bytes |-> <<>>, promise |-> "none",
                    expected |-> <<>>, readable |-> readable[o]]
  BY DEF Read, Outcome
<1>2. Kept(result')
  BY <1>1 DEF Kept
<1>3. Sound(body[o], read_position[o], written[o], pending[o], FALSE, writes)
  BY <1>0, SoundAnywhere
<1>4. OthersKept(o)
  BY <1>0, <1>1 DEF OthersKept
<1>5. follows'[o] = FALSE /\ pending'[o] = pending[o]
  BY <1>0, <1>1
<1>6. Sound(body'[o], read_position'[o], written'[o], pending'[o], follows'[o], writes')
  BY <1>1, <1>3, <1>5
<1>7. ObjectsSound'
  <2>1. ObjectsSound /\ writes \in Nat /\ writes' \in Nat /\ writes <= writes'
    BY <1>0, <1>1 DEF BytesInv
  <2> QED
    BY <1>4, <1>6, <2>1, StepOfOne
<1>8. Shape'
  BY <1>0, <1>1 DEF Shape, BytesInv
<1> QED
  BY <1>2, <1>7, <1>8, ReadFrame DEF BytesInv

(* The string functions return what is left and leave the position.        *)
LEMMA ReadStringSafe ==
  ASSUME BytesInv, NEW o \in Objects, Exists(o), readString(o)
  PROVE  BytesInv'
<1> DEFINE promise == Promise(o, "string", Left(o))
<1>0. /\ writes \in Nat /\ DOMAIN body = Objects /\ DOMAIN follows = Objects
  BY DEF BytesInv, Shape
<1>1. promise \in {"value", "end", "none"}
  BY PromiseMeans
<1>2. promise = "value" => Left(o) > 0 /\ Head(pending[o]).bytes = Bytes(o, Left(o))
  <2>1. ASSUME promise = "value"
        PROVE  Delivers(o, Left(o))
    BY <2>1, ValueDelivered
  <2> HIDE DEF promise
  <2> QED
    BY <2>1 DEF Delivers
<1>3. promise = "end" => Left(o) = 0
  BY EndReached
<1>4. promise # "none" => follows[o]
  BY PromiseMeans
<1>5. /\ body' = body /\ written' = written /\ encoded' = encoded /\ writes' = writes
      /\ read_position' = read_position /\ pending' = pending /\ wire' = wire
      /\ follows' = [follows EXCEPT ![o] = promise # "none"]
      /\ result' = [kind |-> IF Left(o) > 0 THEN "value" ELSE "EOF",
                    bytes |-> IF Left(o) > 0 THEN Bytes(o, Left(o)) ELSE <<>>,
                    promise |-> promise,
                    expected |-> IF promise = "value" THEN Head(pending[o]).bytes
                                                      ELSE <<>>,
                    readable |-> readable[o]]
  BY DEF readString, Read
<1> HIDE DEF promise
<1>6. Kept(result')
  BY <1>1, <1>2, <1>3, <1>5 DEF Kept
<1>7. Sound(body[o], read_position[o], written[o], pending[o], promise # "none", writes)
  BY <1>1, <1>4, LeftOf DEF Sound
<1>8. OthersKept(o)
  BY <1>0, <1>5 DEF OthersKept
<1>9. follows'[o] = (promise # "none")
  BY <1>0, <1>5
<1>10. Sound(body'[o], read_position'[o], written'[o], pending'[o], follows'[o], writes')
  BY <1>5, <1>7, <1>9
<1>11. ObjectsSound'
  BY <1>0, <1>5, <1>8, <1>10, StepOfOne DEF BytesInv
<1>12. Shape'
  BY <1>0, <1>5 DEF Shape, BytesInv
<1>13. WireSound'
  BY <1>5 DEF WireSound, BytesInv
<1> QED
  BY <1>6, <1>11, <1>12, <1>13 DEF BytesInv

(* getBodyBytes() changes nothing.                                         *)
LEMMA GetBodySafe ==
  ASSUME BytesInv, NEW o \in Objects, Exists(o), getBodyBytes(o)
  PROVE  BytesInv'
<1>1. /\ UNCHANGED <<body, read_position, encoded, wire, written, pending, follows, writes>>
      /\ result' = [kind |-> IF body[o] # <<>> /\ encoded[o] THEN "body" ELSE "threw",
                    bytes |-> body[o], promise |-> "none",
                    expected |-> BytesOf(written[o]), readable |-> readable[o]]
  BY DEF getBodyBytes, Read
<1>2. body[o] = BytesOf(written[o])
  BY LeftOf DEF Sound
<1>3. Kept(result')
  BY <1>1, <1>2 DEF Kept
<1>4. Shape' /\ ObjectsSound' /\ WireSound'
  BY <1>1 DEF BytesInv, Shape, ObjectsSound, ObjectSound, Exists, WireSound
<1> QED
  BY <1>3, <1>4 DEF BytesInv

LEMMA ReadTypedSafe ==
  ASSUME BytesInv, NEW o \in Objects, Exists(o), NEW type, NEW n \in Nat,
         ReadTyped(o, type, n)
  PROVE  BytesInv'
<1>1. CASE Left(o) > 0
  <2>1. Read /\ Returned(o, n, Promise(o, type, n))
    BY <1>1 DEF ReadTyped
  <2> QED
    BY <1>1, <2>1, ReturnedSafe
<1>2. CASE ~(Left(o) > 0)
  <2>1. Read /\ ThrewEOF(o, Promise(o, type, n))
    BY <1>2 DEF ReadTyped
  <2>2. Left(o) <= 0
    BY <1>2, LeftOf
  <2> QED
    BY <2>1, <2>2, ThrewSafe
<1> QED
  BY <1>1, <1>2

(* The two functions that read into a buffer.                              *)
LEMMA ReadBytesSafe ==
  ASSUME BytesInv, NEW o \in Objects, Exists(o), readBytes(o) \/ readBytes_vector(o)
  PROVE  BytesInv'
<1>1. CASE readBytes_vector(o)
  <2> DEFINE promise == IF Left(o) = 0 THEN "none" ELSE Promise(o, "bytes", Left(o))
  <2>1. Read
    BY <1>1 DEF readBytes_vector
  <2>2. PICK n \in Buffers : IF Left(o) \in 0..n THEN Returned(o, Left(o), promise)
                                              ELSE Undefined(o)
    BY <1>1 DEF readBytes_vector
  <2>3. CASE Left(o) \in 0..n
    <3>1. Left(o) \in Nat /\ Returned(o, Left(o), promise)
      BY <2>2, <2>3
    <3>2. promise = "none" \/ (promise = Promise(o, "bytes", Left(o)) /\ Left(o) > 0)
      BY <3>1
    <3> HIDE DEF promise
    <3> QED
      BY <2>1, <3>1, <3>2, ReturnedSafe
  <2>4. CASE Left(o) \notin 0..n
    BY <2>1, <2>2, <2>4, UnpromisedSafe DEF Undefined
  <2> QED
    BY <2>3, <2>4
<1>2. CASE readBytes(o)
  <2>1. Read
    BY <1>2 DEF readBytes
  <2>2. PICK length \in Buffers :
          IF body[o] = <<>> \/ Left(o) < 0
          THEN ThrewEOF(o, Promise(o, "bytes", length))
          ELSE Returned(o, length, IF Left(o) = 0 THEN "none"
                                                  ELSE Promise(o, "bytes", length))
    BY <1>2 DEF readBytes
  <2>3. length \in Nat
    BY BytesAssumption DEF BytesAssumption
  <2>4. CASE body[o] = <<>> \/ Left(o) < 0
    <3>1. ThrewEOF(o, Promise(o, "bytes", length))
      BY <2>2, <2>4
    <3>2. Left(o) <= 0
      <4>1. CASE body[o] = <<>>
        <5>1. Len(body[o]) = 0
          BY <4>1
        <5> QED
          BY <5>1, LeftOf DEF Left
      <4>2. CASE Left(o) < 0
        BY <4>2, LeftOf
      <4> QED
        BY <2>4, <4>1, <4>2
    <3> QED
      BY <2>1, <3>1, <3>2, ThrewSafe
  <2>5. CASE ~(body[o] = <<>> \/ Left(o) < 0)
    <3> DEFINE promise == IF Left(o) = 0 THEN "none" ELSE Promise(o, "bytes", length)
    <3>1. Returned(o, length, promise)
      BY <2>2, <2>5
    <3>2. promise = "none" \/ (promise = Promise(o, "bytes", length) /\ Left(o) > 0)
      BY <2>5, LeftOf
    <3> HIDE DEF promise
    <3> QED
      BY <2>1, <2>3, <3>1, <3>2, ReturnedSafe
  <2> QED
    BY <2>4, <2>5
<1> QED
  BY <1>1, <1>2

-----------------------------------------------------------------------------
(* The writes, and what gives an object another body.                      *)

LEMMA NothingKept == Kept(Nothing)
BY DEF Kept, Nothing

(* A value that is written consists of bytes written, and is not empty.    *)
LEMMA ValueTyped ==
  ASSUME NEW n \in Nat \ {0}, NEW type \in TypeNames, NEW size \in Nat \ {0}
  PROVE  Value(n, type, size) \in Values(n)
<1> DEFINE x == [k \in 1..size |-> <<n, k>>]
<1>1. x \in [1..size -> WrittenBytes(n)]
  BY DEF WrittenBytes
<1>2. x \in Seq(WrittenBytes(n))
  BY <1>1
<1>3. Len(x) = size
  OBVIOUS
<1>4. x # <<>>
  BY <1>2, <1>3, EmptySeq
<1> HIDE DEF x
<1>5. [type |-> type, bytes |-> x] \in Values(n)
  BY <1>2, <1>4 DEF Values
<1> QED
  BY <1>5 DEF Value, x

LEMMA WriteSafe ==
  ASSUME BytesInv, NEW o \in Objects, Exists(o),
         NEW type \in TypeNames, NEW size \in Nat \ {0}, Write(o, type, size)
  PROVE  BytesInv'
<1> DEFINE v == Value(writes + 1, type, size)
<1>0. /\ writes \in Nat /\ read_position[o] \in Nat /\ DOMAIN body = Objects
      /\ DOMAIN written = Objects /\ DOMAIN pending = Objects
      /\ Sound(body[o], read_position[o], written[o], pending[o], follows[o], writes)
  BY DEF BytesInv, Shape, ObjectsSound, ObjectSound
<1>1. v \in Values(writes + 1)
  BY <1>0, ValueTyped
<1>2. /\ writes' = writes + 1
      /\ body' = [body EXCEPT ![o] = @ \o v.bytes]
      /\ written' = [written EXCEPT ![o] = Append(@, v)]
      /\ pending' = [pending EXCEPT ![o] = Append(@, v)]
      /\ result' = Nothing
      /\ UNCHANGED <<read_position, encoded, wire, follows>>
  BY DEF Write
<1> HIDE DEF v
<1>3. writes + 1 \in Nat /\ writes <= writes + 1
  BY <1>0
<1>4. Sound(body[o], read_position[o], written[o], pending[o], follows[o], writes + 1)
  BY <1>0, <1>3, SoundMore
<1>5. Sound(body[o] \o v.bytes, read_position[o], Append(written[o], v),
            Append(pending[o], v), follows[o], writes + 1)
  BY <1>0, <1>1, <1>3, <1>4, SoundWrite
<1>6. Sound(body'[o], read_position'[o], written'[o], pending'[o], follows'[o], writes')
  BY <1>0, <1>2, <1>5
<1>7. OthersKept(o)
  BY <1>0, <1>2 DEF OthersKept
<1>8. ObjectsSound'
  BY <1>0, <1>2, <1>3, <1>6, <1>7, StepOfOne DEF BytesInv
<1>9. Shape'
  BY <1>0, <1>2 DEF Shape, BytesInv
<1>10. WireSound'
  BY <1>0, <1>2, <1>3, WireMore DEF BytesInv
<1>11. Kept(result')
  BY <1>2, NothingKept
<1> QED
  BY <1>8, <1>9, <1>10, <1>11 DEF BytesInv

(* An object gets a body that consists of the values it is said to.        *)
LEMMA BecomesSafe ==
  ASSUME BytesInv, NEW o \in Objects, writes' \in Nat, writes <= writes',
         NEW b \in Seq(WrittenBytes(writes')), NEW vs \in Seq(Values(writes')),
         b = BytesOf(vs), NEW binary \in BOOLEAN, NEW mode,
         Becomes(o, b, vs, binary, mode)
  PROVE  Shape' /\ ObjectsSound'
<1>0. Shape /\ ObjectsSound /\ writes \in Nat
  BY DEF BytesInv, Shape
<1>1. /\ body' = [body EXCEPT ![o] = b]
      /\ read_position' = [read_position EXCEPT ![o] = 0]
      /\ encoded' = [encoded EXCEPT ![o] = binary]
      /\ written' = [written EXCEPT ![o] = vs]
      /\ pending' = [pending EXCEPT ![o] = vs]
      /\ follows' = [follows EXCEPT ![o] = TRUE]
  BY DEF Becomes
<1>2. Shape'
  BY <1>0, <1>1 DEF Shape
<1>3. Sound(b, 0, vs, vs, TRUE, writes')
  BY SoundAtStart
<1>4. Sound(body'[o], read_position'[o], written'[o], pending'[o], follows'[o], writes')
  BY <1>0, <1>1, <1>3 DEF Shape
<1>5. OthersKept(o)
  BY <1>0, <1>1 DEF OthersKept, Shape
<1> QED
  BY <1>0, <1>2, <1>4, <1>5, StepOfOne

LEMMA EmptyTyped ==
  ASSUME NEW n
  PROVE  <<>> \in Seq(WrittenBytes(n)) /\ <<>> \in Seq(Values(n))
BY EmptySeq

(* Construct, clearBody, reset and clone: no value is written and nothing  *)
(* is sent or received.                                                    *)
LEMMA CallSafe ==
  ASSUME BytesInv, NEW o \in Objects, Call, UNCHANGED <<wire, writes>>,
         NEW b \in Seq(WrittenBytes(writes)), NEW vs \in Seq(Values(writes)),
         b = BytesOf(vs), NEW binary \in BOOLEAN, NEW mode,
         Becomes(o, b, vs, binary, mode)
  PROVE  BytesInv'
<1>1. writes \in Nat /\ writes' = writes /\ writes <= writes'
  BY DEF BytesInv, Shape
<1>2. Shape' /\ ObjectsSound'
  BY <1>1, BecomesSafe
<1>3. WireSound'
  BY <1>1 DEF WireSound, BytesInv
<1>4. Kept(result')
  BY NothingKept DEF Call
<1> QED
  BY <1>2, <1>3, <1>4 DEF BytesInv

LEMMA SetBodySafe ==
  ASSUME BytesInv, NEW o \in Objects, setBodyBytes(o)
  PROVE  BytesInv'
<1>1. PICK n \in Strings :
        LET v == Value(writes + 1, "bytes", n)
        IN  Becomes(o, v.bytes, <<v>>, encoded[o], FALSE)
  BY DEF setBodyBytes
<1> DEFINE v == Value(writes + 1, "bytes", n)
<1>2. writes \in Nat /\ writes' = writes + 1 /\ wire' = wire /\ Call
  BY DEF BytesInv, Shape, setBodyBytes
<1>3. n \in Nat \ {0} /\ writes + 1 \in Nat \ {0}
  BY <1>2, BytesAssumption DEF BytesAssumption
<1>4. v \in Values(writes + 1)
  BY <1>3, ValueTyped DEF TypeNames
<1>5. Becomes(o, v.bytes, <<v>>, encoded[o], FALSE)
  BY <1>1
<1> HIDE DEF v
<1>6. v.bytes \in Seq(WrittenBytes(writes')) /\ <<v>> \in Seq(Values(writes'))
  BY <1>2, <1>4 DEF Values
<1>7. v.bytes = BytesOf(<<v>>)
  BY <1>3, <1>4, BytesOfOne
<1>8. encoded[o] \in BOOLEAN
  BY Zenon DEF BytesInv, Shape
<1>9. writes' \in Nat /\ writes <= writes'
  BY <1>2
<1>10. Shape' /\ ObjectsSound'
  BY <1>5, <1>6, <1>7, <1>8, <1>9, BecomesSafe
<1>11. WireSound'
  BY <1>2, <1>9, WireMore DEF BytesInv
<1>12. Kept(result')
  BY <1>2, NothingKept DEF Call
<1> QED
  BY <1>10, <1>11, <1>12 DEF BytesInv

-----------------------------------------------------------------------------
(* The way of a body.                                                      *)

(* What the wire carries.                                                  *)
Carried(n) == [bytes : Seq(WrittenBytes(n)), written : Seq(Values(n))]

LEMMA SendSafe ==
  ASSUME BytesInv, NEW o \in Objects, Exists(o), send(o)
  PROVE  BytesInv'
<1> DEFINE s == [bytes |-> body[o], written |-> written[o]]
<1>1. /\ wire' = Append(wire, s) /\ result' = Nothing
      /\ UNCHANGED <<body, read_position, encoded, written, pending, follows, writes>>
  BY DEF send, Call, ghosts
<1>2. Sent(s, writes) /\ s \in Carried(writes)
  BY LeftOf DEF Sound, Sent, Carried
<1>3. wire \in Seq(Carried(writes)) /\ \A i \in DOMAIN wire : Sent(wire[i], writes)
  BY DEF BytesInv, WireSound, Carried
<1> HIDE DEF s
<1>4. wire' \in Seq(Carried(writes)) /\ \A i \in DOMAIN wire' : Sent(wire'[i], writes)
  BY <1>1, <1>2, <1>3
<1>5. WireSound'
  BY <1>1, <1>4 DEF WireSound, Carried
<1>6. Shape' /\ ObjectsSound'
  BY <1>1 DEF BytesInv, Shape, ObjectsSound, ObjectSound, Exists
<1>7. Kept(result')
  BY <1>1, NothingKept
<1> QED
  BY <1>5, <1>6, <1>7 DEF BytesInv

LEMMA ReceiveSafe ==
  ASSUME BytesInv, NEW o \in Objects, receive(o)
  PROVE  BytesInv'
<1>1. /\ wire # <<>> /\ wire' = Tail(wire) /\ result' = Nothing /\ writes' = writes
      /\ Becomes(o, Head(wire).bytes, Head(wire).written, TRUE, TRUE)
  BY DEF receive, bounds
<1>2. wire \in Seq(Carried(writes)) /\ \A i \in DOMAIN wire : Sent(wire[i], writes)
  BY DEF BytesInv, WireSound, Carried
<1>3. Sent(Head(wire), writes)
  BY <1>1, <1>2
<1>4. wire' \in Seq(Carried(writes)) /\ \A i \in DOMAIN wire' : Sent(wire'[i], writes)
  BY <1>1, <1>2
<1>5. WireSound'
  BY <1>1, <1>4 DEF WireSound, Carried
<1>6. writes' \in Nat /\ writes <= writes'
  BY <1>1 DEF BytesInv, Shape
<1>7. Shape' /\ ObjectsSound'
  BY <1>1, <1>3, <1>6, BecomesSafe DEF Sent
<1>8. Kept(result')
  BY <1>1, NothingKept
<1> QED
  BY <1>5, <1>7, <1>8 DEF BytesInv

-----------------------------------------------------------------------------
(* The specification.                                                      *)

LEMMA InitBytes == Init => BytesInv
<1> SUFFICES ASSUME Init
             PROVE  BytesInv
  OBVIOUS
<1>1. Shape
  BY DEF Init, Shape, NoWrites
<1>2. ObjectsSound
  BY DEF Init, ObjectsSound, Exists
<1>3. WireSound
  <2>1. wire = <<>>
    BY DEF Init
  <2> QED
    BY <2>1 DEF WireSound
<1>4. Kept(result)
  BY NothingKept DEF Init
<1> QED
  BY <1>1, <1>2, <1>3, <1>4 DEF BytesInv

LEMMA StringsTyped ==
  /\ \A n \in Strings : n \in Nat \ {0}
  /\ \A type \in Types : type \in TypeNames /\ Size[type] \in Nat \ {0}
<1>1. \A n \in Strings : n \in Nat \ {0}
  BY BytesAssumption DEF BytesAssumption
<1>2. \A type \in DOMAIN Size : Size[type] \in Nat \ {0}
  BY DEF Size
<1> QED
  BY <1>1, <1>2, BytesAssumption DEF BytesAssumption, TypeNames

LEMMA WriterSafe ==
  ASSUME BytesInv, NEW o \in Objects, Exists(o), Writer(o)
  PROVE  BytesInv'
<1>0. "byte" \in TypeNames /\ "string" \in TypeNames /\ "bytes" \in TypeNames
      /\ 1 \in Nat \ {0}
  BY DEF TypeNames
<1>1. ASSUME NEW type \in Types, set(o, type)
      PROVE  BytesInv'
  <2>1. type \in TypeNames /\ Size[type] \in Nat \ {0}
    BY StringsTyped
  <2> QED
    BY <1>1, <2>1, WriteSafe DEF set
<1>2. CASE writeBoolean(o) \/ writeByte(o)
  BY <1>0, <1>2, WriteSafe DEF writeBoolean, writeByte
<1>3. CASE writeString(o)
  <2>1. PICK n \in Strings : Write(o, "string", n)
    BY <1>3 DEF writeString
  <2> QED
    BY <1>0, <2>1, StringsTyped, WriteSafe
<1>4. CASE writeBytes(o)
  <2>1. PICK n \in Strings : Write(o, "bytes", n)
    BY <1>4 DEF writeBytes
  <2> QED
    BY <1>0, <2>1, StringsTyped, WriteSafe
<1>5. CASE setBodyBytes(o)
  BY <1>5, SetBodySafe
<1>6. CASE clearBody(o)
  <2>1. Becomes(o, <<>>, <<>>, FALSE, FALSE) /\ Call /\ UNCHANGED <<wire, writes>>
    BY <1>6 DEF clearBody
  <2> QED
    BY <2>1, EmptyTyped, BytesTyped, CallSafe
<1>7. CASE writeUTF
  <2>1. /\ UNCHANGED <<body, read_position, encoded, wire, written, pending, follows, writes>>
        /\ result' = Nothing
    BY <1>7 DEF writeUTF, Call, ghosts
  <2>2. Shape' /\ ObjectsSound' /\ WireSound'
    BY <2>1 DEF BytesInv, Shape, ObjectsSound, ObjectSound, Exists, WireSound
  <2> QED
    BY <2>1, <2>2, NothingKept DEF BytesInv
<1> QED
  BY <1>1, <1>2, <1>3, <1>4, <1>5, <1>6, <1>7 DEF Writer

(* reset(o) and clone(o, p): the object, or the copy, is at the start.     *)
LEMMA CopySafe ==
  ASSUME BytesInv, NEW o \in Objects, Exists(o), NEW p \in Objects,
         Call, UNCHANGED <<wire, writes>>, NEW mode,
         Becomes(p, body[o], written[o], encoded[o], mode)
  PROVE  BytesInv'
<1>1. /\ body[o] \in Seq(WrittenBytes(writes)) /\ written[o] \in Seq(Values(writes))
      /\ body[o] = BytesOf(written[o])
  BY LeftOf DEF Sound
<1>2. encoded[o] \in BOOLEAN
  BY Zenon DEF BytesInv, Shape
<1> QED
  BY <1>1, <1>2, CallSafe

LEMMA ReaderSafe ==
  ASSUME BytesInv, NEW o \in Objects, Exists(o), Reader(o)
  PROVE  BytesInv'
<1>1. ASSUME NEW type \in Types, get(o, type)
      PROVE  BytesInv'
  <2>1. Size[type] \in Nat
    BY StringsTyped
  <2> QED
    BY <1>1, <2>1, ReadTypedSafe DEF get
<1>2. CASE readBoolean(o) \/ readByte(o)
  BY <1>2, ReadTypedSafe DEF readBoolean, readByte
<1>3. CASE readString(o)
  BY <1>3, ReadStringSafe
<1>4. CASE readBytes(o) \/ readBytes_vector(o)
  BY <1>4, ReadBytesSafe
<1>5. CASE getBodyBytes(o)
  BY <1>5, GetBodySafe
<1>6. CASE reset(o)
  <2>1. /\ Becomes(o, body[o], written[o], encoded[o], TRUE)
        /\ Call /\ UNCHANGED <<wire, writes>>
    BY <1>6 DEF reset
  <2> QED
    BY <2>1, CopySafe
<1>7. CASE readUTF(o)
  BY <1>7, UnpromisedSafe DEF readUTF
<1> QED
  BY <1>1, <1>2, <1>3, <1>4, <1>5, <1>6, <1>7 DEF Reader

LEMMA NextBytes ==
  ASSUME BytesInv, [Next]_vars
  PROVE  BytesInv'
<1>1. ASSUME NEW o \in Objects, Construct(o)
      PROVE  BytesInv'
  <2>1. Becomes(o, <<>>, <<>>, FALSE, FALSE) /\ Call /\ UNCHANGED <<wire, writes>>
    BY <1>1 DEF Construct
  <2> QED
    BY <2>1, EmptyTyped, BytesTyped, CallSafe
<1>2. ASSUME NEW o \in Objects, receive(o)
      PROVE  BytesInv'
  BY <1>2, ReceiveSafe
<1>3. ASSUME NEW o \in Objects, Exists(o), Writer(o)
      PROVE  BytesInv'
  BY <1>3, WriterSafe
<1>4. ASSUME NEW o \in Objects, Exists(o), Reader(o)
      PROVE  BytesInv'
  BY <1>4, ReaderSafe
<1>5. ASSUME NEW o \in Objects, Exists(o), send(o)
      PROVE  BytesInv'
  BY <1>5, SendSafe
<1>6. ASSUME NEW o \in Objects, Exists(o), NEW p \in Objects, clone(o, p)
      PROVE  BytesInv'
  <2>1. /\ Becomes(p, body[o], written[o], encoded[o], readable[o])
        /\ Call /\ UNCHANGED <<wire, writes>>
    BY <1>6 DEF clone
  <2> QED
    BY <1>6, <2>1, CopySafe
<1>7. CASE UNCHANGED vars
  BY <1>7 DEF vars, ghosts, bounds, BytesInv, Shape, ObjectsSound, ObjectSound,
              Exists, WireSound
<1> QED
  BY <1>1, <1>2, <1>3, <1>4, <1>5, <1>6, <1>7 DEF Next

LEMMA BytesInvariant == Spec => []BytesInv
<1>1. BytesInv /\ [Next]_vars => BytesInv'
  BY NextBytes
<1> QED
  BY InitBytes, <1>1, PTL DEF Spec

(* No object of a CMSBytesMessage is positioned before its body, and the   *)
(* bytes of a body are bytes of values that were written: no read and no   *)
(* copy brings in others.                                                  *)
THEOREM TypeCorrect == Spec => []TypeOK
<1>1. BytesInv => TypeOK
  <2> SUFFICES ASSUME BytesInv
               PROVE  TypeOK
    OBVIOUS
  <2>1. \A o \in Objects : read_position[o] \in Nat
    BY DEF BytesInv, Shape
  <2>2. \A o \in Objects : encoded[o] \in BOOLEAN
    BY Zenon DEF BytesInv, Shape
  <2>3. ASSUME NEW o \in Live, NEW i \in DOMAIN body[o]
        PROVE  body[o][i][1] \in 1..writes
    <3>1. body[o] \in Seq(WrittenBytes(writes))
      BY DEF Live, BytesInv, ObjectsSound, ObjectSound, Sound
    <3>2. body[o][i] \in WrittenBytes(writes)
      BY <3>1
    <3> QED
      BY <3>2 DEF WrittenBytes
  <2>4. /\ result.kind \in {"nothing", "value", "EOF", "threw", "body", "undefined"}
        /\ result.promise \in {"value", "end", "none"}
    BY DEF BytesInv, Kept
  <2> QED
    BY <2>1, <2>2, <2>3, <2>4 DEF TypeOK
<1> QED
  BY BytesInvariant, <1>1, PTL

(* Who reads with the types of the writer, in the writer's order, gets the *)
(* values written, byte for byte, from the object, from a clone or from    *)
(* what was received, whatever else was called in between.                 *)
THEOREM TypedReadsReturnWrites == Spec => []FollowedReadsReturnWrites
<1>1. BytesInv => FollowedReadsReturnWrites
  BY DEF BytesInv, Kept, FollowedReadsReturnWrites
<1> QED
  BY BytesInvariant, <1>1, PTL

(* The typed functions throw MessageEOFException for that reader when, and *)
(* only when, all values have been read, if the message was reset or       *)
(* received and not written to since.                                      *)
THEOREM EOFMeansTheEnd == Spec => []EOFAtTheEnd
<1>1. BytesInv => EOFAtTheEnd
  BY DEF BytesInv, Kept, EOFAtTheEnd
<1> QED
  BY BytesInvariant, <1>1, PTL

(* As long as the types are followed, read_position is where the first     *)
(* value not yet read begins.                                              *)
THEOREM PositionFollowsValues == Spec => []PositionAtNextValue
<1>1. BytesInv => PositionAtNextValue
  <2> SUFFICES ASSUME BytesInv, NEW o \in Live, follows[o]
               PROVE  read_position[o] + Len(BytesOf(pending[o])) = Len(body[o])
    BY DEF PositionAtNextValue
  <2>1. o \in Objects /\ Exists(o)
    BY DEF Live
  <2>2. /\ read_position[o] \in Nat
        /\ Sound(body[o], read_position[o], written[o], pending[o], follows[o], writes)
    BY <2>1, LeftOf
  <2>3. /\ body[o] \in Seq(WrittenBytes(writes)) /\ read_position[o] <= Len(body[o])
        /\ BytesOf(pending[o]) = After(body[o], read_position[o])
    BY <2>2 DEF Sound
  <2>4. Len(After(body[o], read_position[o])) = Len(body[o]) - read_position[o]
    BY <2>2, <2>3, AfterProperties
  <2> QED
    BY <2>2, <2>3, <2>4
<1> QED
  BY BytesInvariant, <1>1, PTL

(* A body has the bytes of the values written to it, whole and in order,   *)
(* in the object, in its clones, on the wire and behind getBodyBytes().    *)
THEOREM BodyHoldsWrites == Spec => []BodyIsWhatWasWritten
<1>1. BytesInv => BodyIsWhatWasWritten
  BY DEF BytesInv, ObjectsSound, ObjectSound, Sound, WireSound, Sent, Kept,
         Live, BodyIsWhatWasWritten
<1> QED
  BY BytesInvariant, <1>1, PTL

=============================================================================
