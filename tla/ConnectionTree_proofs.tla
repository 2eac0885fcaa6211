------------------------ MODULE ConnectionTree_proofs ------------------------
(***************************************************************************)
(* Theorems about ConnectionTree, for every number of threads, sessions,   *)
(* consumers and producers, every order of the calls and every bound.      *)
(***************************************************************************)
EXTENDS ConnectionTree, SequenceTheorems, TLAPS

-----------------------------------------------------------------------------
(* How todo changes: a call is replaced by what it unfolds into.           *)

Todo == Seq(Steps \X Objects)

(* r has the elements of s followed by those of q but for its head.        *)
Replaces(q, s, r) ==
  /\ r \in Todo /\ Len(s) \in Nat
  /\ \A i \in DOMAIN s : i \in DOMAIN r /\ r[i] = s[i] /\ i \in 1..Len(s)
  /\ \A j \in DOMAIN q \ {1} : j - 1 + Len(s) \in DOMAIN r /\ r[j - 1 + Len(s)] = q[j]
  /\ \A i \in DOMAIN r : i \in DOMAIN s \/ \E j \in DOMAIN q \ {1} : i = j - 1 + Len(s)

LEMMA Unfolding ==
  ASSUME NEW q, q \in Todo, q # <<>>, NEW s, s \in Todo
  PROVE  Replaces(q, s, s \o Tail(q))
<1> DEFINE S == Steps \X Objects
           r == s \o Tail(q)
<1>1. q \in Seq(S) /\ s \in Seq(S)
  BY DEF Todo
<1> HIDE DEF S
<1>2. /\ Len(q) \in Nat /\ Len(q) >= 1 /\ DOMAIN q = 1..Len(q)
      /\ Len(s) \in Nat /\ DOMAIN s = 1..Len(s)
      /\ Tail(q) \in Seq(S) /\ Len(Tail(q)) = Len(q) - 1
      /\ \A i \in 1..(Len(q) - 1) : Tail(q)[i] = q[i + 1]
  BY <1>1
<1>3. /\ r \in Seq(S) /\ DOMAIN r = 1..(Len(s) + Len(q) - 1)
      /\ \A i \in 1..Len(s) : r[i] = s[i]
      /\ \A i \in 1..(Len(q) - 1) : r[i + Len(s)] = Tail(q)[i]
  BY <1>1, <1>2
<1> HIDE DEF r
<1>4. \A i \in DOMAIN s : i \in DOMAIN r /\ r[i] = s[i] /\ i \in 1..Len(s)
  BY <1>2, <1>3
<1>5. ASSUME NEW j \in DOMAIN q \ {1}
      PROVE  j - 1 + Len(s) \in DOMAIN r /\ r[j - 1 + Len(s)] = q[j]
  <2>1. j - 1 \in 1..(Len(q) - 1) /\ (j - 1) + 1 = j
    BY <1>2
  <2> QED
    BY <1>2, <1>3, <2>1
<1>6. ASSUME NEW i \in DOMAIN r, i \notin DOMAIN s
      PROVE  \E j \in DOMAIN q \ {1} : i = j - 1 + Len(s)
  <2>1. i - Len(s) + 1 \in DOMAIN q \ {1}
    BY <1>2, <1>3, <1>6
  <2>2. i = (i - Len(s) + 1) - 1 + Len(s)
    BY <1>2, <1>3
  <2> QED
    BY <2>1, <2>2
<1>7. r \in Todo
  BY <1>3 DEF Todo, S
<1> QED
  BY <1>2, <1>4, <1>5, <1>6, <1>7 DEF r, Replaces

(* One call on each child.                                                 *)
LEMMA OnEachTypes ==
  ASSUME NEW step \in Steps, NEW children, children \in Seq(Objects)
  PROVE  /\ OnEach(step, children) \in Todo
         /\ DOMAIN OnEach(step, children) = DOMAIN children
         /\ \A i \in DOMAIN children : OnEach(step, children)[i] = <<step, children[i]>>
BY DEF OnEach, Todo

(* Only parents are locked and asked to close under their lock.            *)
ParentsOnly(q) ==
  \A i \in DOMAIN q : q[i][1] \in {"lock", "addClose"} => q[i][2] \in Parents

(* Unfolding keeps to it.                                                  *)
LEMMA UnfoldingParents ==
  ASSUME NEW q, q \in Todo, q # <<>>, NEW s, s \in Todo, ParentsOnly(q), ParentsOnly(s)
  PROVE  s \o Tail(q) \in Todo /\ ParentsOnly(s \o Tail(q))
<1> DEFINE r == s \o Tail(q)
<1>1. Replaces(q, s, r)
  BY Unfolding
<1> HIDE DEF r
<1>2. r \in Todo
  BY <1>1 DEF Replaces
<1>3. ParentsOnly(r)
  BY <1>1 DEF ParentsOnly, Replaces
<1> QED
  BY <1>2, <1>3 DEF r

(* A single step.                                                          *)
LEMMA OneStep ==
  ASSUME NEW step \in Steps, NEW o \in Objects, step \in {"lock", "addClose"} => o \in Parents
  PROVE  /\ << <<step, o>> >> \in Todo
         /\ DOMAIN << <<step, o>> >> = {1}
         /\ << <<step, o>> >>[1] = <<step, o>>
         /\ ParentsOnly(<< <<step, o>> >>)
<1>1. /\ DOMAIN << <<step, o>> >> = {1}
      /\ << <<step, o>> >>[1] = <<step, o>>
  OBVIOUS
<1>2. << <<step, o>> >> \in Todo
  BY DEF Todo
<1> QED
  BY <1>1, <1>2 DEF ParentsOnly

(* A sequence with one more element.                                       *)
LEMMA OneMore ==
  ASSUME NEW S, NEW s, s \in Seq(S), NEW x \in S, NEW r, r = s \o <<x>>
  PROVE  /\ r \in Seq(S) /\ Len(s) \in Nat /\ DOMAIN r = 1..(Len(s) + 1)
         /\ \A i \in 1..Len(s) : r[i] = s[i]
         /\ r[Len(s) + 1] = x
OBVIOUS

(* The calls on the children, then one step of the parent's own.           *)
LEMMA ChildrenThenOwn ==
  ASSUME NEW step \in Steps \ {"lock", "addClose"}, NEW children, children \in Seq(Objects),
         NEW last \in Steps, NEW o \in Objects, last \in {"lock", "addClose"} => o \in Parents
  PROVE  LET r == OnEach(step, children) \o << <<last, o>> >>
         IN  /\ r \in Todo /\ ParentsOnly(r) /\ Len(children) \in Nat
             /\ DOMAIN r = 1..(Len(children) + 1)
             /\ \A i \in 1..Len(children) : r[i] = <<step, children[i]>>
             /\ r[Len(children) + 1] = <<last, o>>
<1> DEFINE s == OnEach(step, children)
           r == s \o << <<last, o>> >>
           n == Len(children)
<1>1. s \in Todo /\ DOMAIN s = 1..n /\ \A i \in 1..n : s[i] = <<step, children[i]>>
  BY OnEachTypes
<1>2. n \in Nat
  OBVIOUS
<1>3. <<last, o>> \in Steps \X Objects
  OBVIOUS
<1> HIDE DEF s, n
<1>4. Len(s) = n
  BY <1>1, <1>2 DEF Todo
<1>5. /\ r \in Todo /\ DOMAIN r = 1..(n + 1)
      /\ \A i \in 1..n : r[i] = s[i]
      /\ r[n + 1] = <<last, o>>
  BY <1>1, <1>3, <1>4, OneMore DEF Todo
<1> HIDE DEF r
<1>6. \A i \in 1..n : r[i] = <<step, children[i]>>
  BY <1>1, <1>5
<1>7. ASSUME NEW i \in 1..(n + 1), r[i][1] \in {"lock", "addClose"}
      PROVE  r[i][2] \in Parents
  <2>1. CASE i \in 1..n
    BY <1>6, <1>7, <2>1
  <2>2. CASE i = n + 1
    BY <1>5, <1>7, <2>2
  <2> QED
    BY <1>2, <2>1, <2>2
<1>8. ParentsOnly(r)
  BY <1>5, <1>7 DEF ParentsOnly
<1> QED
  BY <1>2, <1>5, <1>6, <1>8 DEF r, n, s

(* A sequence with two more elements.                                      *)
LEMMA TwoMore ==
  ASSUME NEW S, NEW s, s \in Seq(S), NEW x \in S, NEW y \in S, NEW r, r = s \o <<x, y>>
  PROVE  /\ r \in Seq(S) /\ Len(s) \in Nat /\ DOMAIN r = 1..(Len(s) + 2)
         /\ \A i \in 1..Len(s) : r[i] = s[i]
         /\ r[Len(s) + 1] = x /\ r[Len(s) + 2] = y
OBVIOUS

(* A sequence of some objects is a sequence of objects.                    *)
LEMMA SeqOfMore ==
  ASSUME NEW S, NEW T, S \subseteq T, NEW s, s \in Seq(S)
  PROVE  s \in Seq(T)
OBVIOUS

(* The children that a call visits are objects.                            *)
LEMMA ChildrenAreObjects ==
  ASSUME TypeOK, NEW o \in Parents
  PROVE  Started(o) \in Seq(Objects) /\ Closed(o) \in Seq(Objects)
<1>1. CASE o = Conn
  <2>1. mSessions \in Seq(Sessions) /\ Sessions \subseteq Objects
    BY DEF TypeOK, Objects
  <2>2. mSessions \in Seq(Objects)
    BY <2>1, SeqOfMore
  <2> QED
    BY <1>1, <2>2 DEF Started, Closed
<1>2. CASE o # Conn
  <2>1. o \in Sessions
    BY <1>2 DEF Parents
  <2>2. /\ mConsumers[o] \in Seq(Consumers) /\ Consumers \subseteq Objects
        /\ mProducers[o] \in Seq(Producers) /\ Producers \subseteq Objects
    BY <2>1 DEF TypeOK, Objects, Endpoints
  <2>3. mConsumers[o] \in Seq(Objects) /\ mProducers[o] \in Seq(Objects)
    BY <2>2, SeqOfMore
  <2>4. mConsumers[o] \o mProducers[o] \in Seq(Objects)
    BY <2>3
  <2> QED
    BY <1>2, <2>3, <2>4 DEF Started, Closed
<1> QED
  BY <1>1, <1>2

(* What start(), stop() and close() unfold into: no call on a parent is    *)
(* asked to close without its lock.                                        *)
LEMMA UnfoldedTypes ==
  ASSUME TypeOK, NEW step \in {"start", "stop", "close"}, NEW o \in Objects
  PROVE  /\ Unfolded(step, o) \in Todo
         /\ ParentsOnly(Unfolded(step, o))
         /\ \A i \in DOMAIN Unfolded(step, o) :
              Unfolded(step, o)[i][1] \notin {"addClose", "register"}
<1> DEFINE Fine(r) == /\ r \in Todo
                      /\ ParentsOnly(r)
                      /\ \A i \in DOMAIN r : r[i][1] \notin {"addClose", "register"}
<1>1. ASSUME NEW last \in {"setStarted", "setStopped", "awaitStopped", "awaitClosed", "lock"},
             last = "lock" => o \in Parents
      PROVE  Fine(<< <<last, o>> >>)
  <2>1. last \in Steps
    BY DEF Steps
  <2> QED
    BY <1>1, <2>1, OneStep
<1>2. ASSUME NEW first \in {"start", "stop"}, NEW last \in {"setStarted", "setStopped"},
             o \in Parents
      PROVE  Fine(OnEach(first, Started(o)) \o << <<last, o>> >>)
  <2> DEFINE r == OnEach(first, Started(o)) \o << <<last, o>> >>
             n == Len(Started(o))
  <2>1. /\ first \in Steps \ {"lock", "addClose"} /\ last \in Steps
        /\ Started(o) \in Seq(Objects)
    BY <1>2, ChildrenAreObjects DEF Steps
  <2>2. /\ r \in Todo /\ ParentsOnly(r) /\ DOMAIN r = 1..(n + 1) /\ n \in Nat
        /\ \A i \in 1..n : r[i] = <<first, Started(o)[i]>>
        /\ r[n + 1] = <<last, o>>
    BY <2>1, ChildrenThenOwn
  <2> HIDE DEF r, n
  <2>3. ASSUME NEW i \in 1..(n + 1)
        PROVE  r[i][1] \notin {"addClose", "register"}
    <3>1. CASE i \in 1..n
      BY <2>2, <3>1
    <3>2. CASE i = n + 1
      BY <2>2, <3>2
    <3> QED
      BY <2>2, <3>1, <3>2
  <2>4. Fine(r)
    BY <2>2, <2>3
  <2> QED
    BY <2>4 DEF r
<1>3. Fine(<<>>)
  BY DEF Todo, ParentsOnly
<1>4. Fine(Unfolded(step, o))
  <2> HIDE DEF Fine
  <2>1. CASE step = "start"
    BY <1>1, <1>2, <2>1 DEF Unfolded, Start
  <2>2. CASE step = "stop"
    BY <1>1, <1>2, <2>2 DEF Unfolded, Stop
  <2>3. CASE step = "close"
    BY <1>1, <1>3, <2>3 DEF Unfolded
  <2> QED
    BY <2>1, <2>2, <2>3
<1> QED
  BY <1>4

(* What the locked part of close() does: every child is closed first.      *)
LEMMA CloseLockedTypes ==
  ASSUME TypeOK, NEW o \in Parents
  PROVE  LET n == Len(Closed(o))
             r == CloseLocked(o)
         IN  /\ r \in Todo /\ ParentsOnly(r) /\ n \in Nat /\ DOMAIN r = 1..(n + 2)
             /\ DOMAIN Closed(o) = 1..n
             /\ \A i \in 1..n : r[i] = <<"close", Closed(o)[i]>>
             /\ r[n + 1] = <<"addClose", o>>
             /\ r[n + 2] = <<"awaitClosed", o>>
<1> DEFINE kids == Closed(o)
           n == Len(kids)
           s == OnEach("close", kids)
           r == s \o << <<"addClose", o>>, <<"awaitClosed", o>> >>
<1>1. kids \in Seq(Objects) /\ o \in Objects
  BY ChildrenAreObjects DEF Parents, Objects
<1> HIDE DEF kids
<1>2. {"close", "addClose", "awaitClosed"} \subseteq Steps
  BY DEF Steps
<1>3. n \in Nat /\ DOMAIN kids = 1..n
  BY <1>1
<1>4. s \in Todo /\ DOMAIN s = 1..n /\ \A i \in 1..n : s[i] = <<"close", kids[i]>>
  BY <1>1, <1>2, <1>3, OnEachTypes
<1>5. <<"addClose", o>> \in Steps \X Objects /\ <<"awaitClosed", o>> \in Steps \X Objects
  BY <1>1, <1>2
<1> HIDE DEF s, n
<1>6. Len(s) = n
  BY <1>3, <1>4 DEF Todo
<1>7. /\ r \in Todo /\ DOMAIN r = 1..(n + 2)
      /\ \A i \in 1..n : r[i] = s[i]
      /\ r[n + 1] = <<"addClose", o>> /\ r[n + 2] = <<"awaitClosed", o>>
  BY <1>4, <1>5, <1>6, TwoMore DEF Todo
<1> HIDE DEF r
<1>8. \A i \in 1..n : r[i] = <<"close", kids[i]>>
  BY <1>4, <1>7
<1>9. ASSUME NEW i \in 1..(n + 2), r[i][1] \in {"lock", "addClose"}
      PROVE  r[i][2] \in Parents
  <2>1. CASE i \in 1..n
    BY <1>8, <1>9, <2>1
  <2>2. CASE i = n + 1
    BY <1>7, <2>2
  <2>3. CASE i = n + 2
    BY <1>7, <1>9, <2>3
  <2> QED
    BY <1>3, <2>1, <2>2, <2>3
<1>10. ParentsOnly(r)
  BY <1>7, <1>9 DEF ParentsOnly
<1>11. CloseLocked(o) = r
  BY DEF CloseLocked, r, s, kids
<1> QED
  BY <1>3, <1>7, <1>8, <1>10, <1>11 DEF n, kids

-----------------------------------------------------------------------------
(* Type correctness, with what the queue of steps promises.                *)

ParentSteps == \A t \in Threads : ParentsOnly(todo[t])

TypeInv == TypeOK /\ ParentSteps

(* A thread continues with other steps.                                    *)
LEMMA ContinueTypes ==
  ASSUME TypeInv, NEW t \in Threads, todo[t] # <<>>,
         NEW s, s \in Todo, ParentsOnly(s), Continue(t, s)
  PROVE  /\ todo' \in [Threads -> Todo] /\ ParentSteps'
         /\ todo'[t] = s \o Tail(todo[t]) /\ \A u \in Threads : u # t => todo'[u] = todo[u]
         /\ ret' \in [Threads -> {"none", "returned", "CMSException"}] /\ op' = op
<1> DEFINE q == todo[t]
           r == s \o Tail(q)
<1>1. q \in Todo /\ ParentsOnly(q) /\ todo \in [Threads -> Todo]
  BY DEF TypeInv, TypeOK, ParentSteps, Todo
<1>2. todo' = [todo EXCEPT ![t] = r]
  BY DEF Continue
<1>3. ret' \in [Threads -> {"none", "returned", "CMSException"}] /\ op' = op
  BY DEF Continue, TypeInv, TypeOK
<1>4. q # <<>>
  OBVIOUS
<1> HIDE DEF q
<1>5. r \in Todo /\ ParentsOnly(r)
  BY <1>1, <1>4, UnfoldingParents
<1> HIDE DEF r
<1>8. todo' \in [Threads -> Todo] /\ todo'[t] = r /\ \A u \in Threads : u # t => todo'[u] = todo[u]
  BY <1>1, <1>2, <1>5
<1>9. ParentSteps'
  <2> SUFFICES ASSUME NEW u \in Threads
               PROVE  ParentsOnly(todo'[u])
    BY DEF ParentSteps, ParentsOnly
  <2> QED
    BY <1>5, <1>8 DEF TypeInv, ParentSteps
<1> QED
  BY <1>3, <1>8, <1>9 DEF r, q

(* The step at hand.                                                       *)
LEMMA HeadTypes ==
  ASSUME TypeInv, NEW t \in Threads, todo[t] # <<>>
  PROVE  /\ Head(todo[t]) = todo[t][1] /\ 1 \in DOMAIN todo[t]
         /\ Head(todo[t])[1] \in Steps /\ Head(todo[t])[2] \in Objects
         /\ Head(todo[t])[1] \in {"lock", "addClose"} => Head(todo[t])[2] \in Parents
<1> DEFINE q == todo[t]
<1>1. q \in Seq(Steps \X Objects) /\ q # <<>> /\ ParentsOnly(q)
  BY DEF TypeInv, TypeOK, ParentSteps
<1> HIDE DEF q
<1>2. Head(q) = q[1] /\ 1 \in DOMAIN q /\ q[1] \in Steps \X Objects
  BY <1>1
<1>3. Head(q)[1] \in Steps /\ Head(q)[2] \in Objects
  BY <1>2
<1>4. Head(q)[1] \in {"lock", "addClose"} => Head(q)[2] \in Parents
  BY <1>1, <1>2 DEF ParentsOnly
<1> QED
  BY <1>2, <1>3, <1>4 DEF q

LEMMA NothingMore == <<>> \in Todo /\ ParentsOnly(<<>>)
BY DEF Todo, ParentsOnly

(* The calls of the cascade keep the types.                                *)
LEMMA CallTypes ==
  ASSUME TypeInv, NEW t \in Threads, todo[t] # <<>>, NEW step \in {"start", "stop", "close"},
         NEW o \in Objects, Call(t, step, o)
  PROVE  TypeInv'
<1>0. UNCHANGED <<fields, pointers, calls, handling, container, faults, asked>>
  BY DEF Call
<1>1. CASE Continue(t, <<>>) /\ UNCHANGED <<mMutex, fault, peer, drains>>
  BY <1>0, <1>1, ContinueTypes, NothingMore DEF TypeInv, TypeOK, fields, pointers, Todo
<1>2. CASE Throw(t) /\ UNCHANGED <<peer, drains>>
  <2>1. todo' \in [Threads -> Todo] /\ ParentSteps'
    BY <1>2, NothingMore DEF Throw, TypeInv, TypeOK, ParentSteps, ParentsOnly, Todo
  <2>2. /\ ret' \in [Threads -> {"none", "returned", "CMSException"}] /\ op' = op
        /\ fault' \in {"none", "terminate", "dataRace"}
    BY <1>2 DEF Throw, TypeInv, TypeOK
  <2>3. mMutex' \in [Parents -> Threads \cup {NoThread}]
    BY <1>2 DEF Throw, Unlocked, TypeInv, TypeOK
  <2> QED
    BY <1>0, <1>2, <2>1, <2>2, <2>3 DEF TypeInv, TypeOK, fields, pointers, Todo
<1>3. CASE /\ Continue(t, Unfolded(step, o)) /\ Request(step, o) /\ UNCHANGED <<mMutex, fault>>
  <2>1. /\ todo' \in [Threads -> Todo] /\ ParentSteps'
        /\ ret' \in [Threads -> {"none", "returned", "CMSException"}] /\ op' = op
    BY <1>3, ContinueTypes, UnfoldedTypes DEF TypeInv
  <2>2. /\ drains' \in [Consumers -> Nat]
        /\ peer' \in [Objects -> {"none", "opening", "open", "closing", "closed"}]
    BY <1>3 DEF Request, TypeInv, TypeOK
  <2> QED
    BY <1>0, <1>3, <2>1, <2>2 DEF TypeInv, TypeOK, fields, pointers, Todo
<1> QED
  BY <1>1, <1>2, <1>3 DEF Call

(* A child is added to those of a session.                                 *)
LEMMA ChildAdded ==
  ASSUME NEW S, NEW f, f \in [Sessions -> Seq(S)], NEW p, NEW o \in S
  PROVE  [f EXCEPT ![p] = Append(@, o)] \in [Sessions -> Seq(S)]
<1> DEFINE g == [f EXCEPT ![p] = Append(@, o)]
<1>1. ASSUME NEW s \in Sessions
      PROVE  g[s] \in Seq(S)
  <2>1. f[s] \in Seq(S)
    OBVIOUS
  <2>2. Append(f[s], o) \in Seq(S)
    BY <2>1
  <2>3. g[s] = f[s] \/ g[s] = Append(f[s], o)
    OBVIOUS
  <2> QED
    BY <2>1, <2>2, <2>3
<1> QED
  BY <1>1

(* So do the other steps of a call.                                        *)
LEMMA OwnStepTypes ==
  ASSUME TypeInv, NEW t \in Threads, todo[t] # <<>>, NEW o \in Objects, NEW step
  PROVE  /\ o \in Parents /\ LockParent(t, o) => TypeInv'
         /\ o \in Parents /\ AddClose(t, o) => TypeInv'
         /\ Await(t, step, o) => TypeInv'
         /\ step \in {"setStarted", "setStopped"} /\ SetState(t, step, o) => TypeInv'
         /\ Register(t, o) => TypeInv'
<1> DEFINE Continued == /\ todo' \in [Threads -> Todo] /\ ParentSteps'
                        /\ ret' \in [Threads -> {"none", "returned", "CMSException"}]
                        /\ op' = op
<1>1. Continue(t, <<>>) => Continued
  BY ContinueTypes, NothingMore
<1>2. ASSUME o \in Parents, LockParent(t, o)
      PROVE  TypeInv'
  <2>1. Continued
    BY <1>2, ContinueTypes, CloseLockedTypes DEF LockParent, TypeInv
  <2>2. mMutex' \in [Parents -> Threads \cup {NoThread}]
    BY <1>2 DEF LockParent, TypeInv, TypeOK
  <2> QED
    BY <1>2, <2>1, <2>2 DEF LockParent, TypeInv, TypeOK, fields, pointers, proton, Todo
<1>3. ASSUME o \in Parents, AddClose(t, o)
      PROVE  TypeInv'
  <2>1. Continued
    BY <1>1, <1>3 DEF AddClose
  <2>2. /\ mMutex' \in [Parents -> Threads \cup {NoThread}] /\ asked' \subseteq Parents
        /\ peer' \in [Objects -> {"none", "opening", "open", "closing", "closed"}]
    BY <1>3 DEF AddClose, TypeInv, TypeOK
  <2> QED
    BY <1>3, <2>1, <2>2 DEF AddClose, TypeInv, TypeOK, fields, pointers, Todo
<1>4. ASSUME Await(t, step, o)
      PROVE  TypeInv'
  <2>1. Continued
    BY <1>1, <1>4 DEF Await
  <2> QED
    BY <1>4, <2>1 DEF Await, TypeInv, TypeOK, fields, pointers, proton, Todo
<1>5. ASSUME step \in {"setStarted", "setStopped"}, SetState(t, step, o)
      PROVE  TypeInv'
  <2>1. Continued
    BY <1>1, <1>5 DEF SetState
  <2>2. mState' \in [Objects -> ClientState]
    BY <1>5 DEF SetState, TypeInv, TypeOK, ClientState
  <2> QED
    BY <1>5, <2>1, <2>2 DEF SetState, TypeInv, TypeOK, pointers, proton, Todo
<1>6. ASSUME Register(t, o)
      PROVE  TypeInv'
  <2>1. Continued
    BY <1>1, <1>6 DEF Register
  <2>2. mSessions' \in Seq(Sessions)
    BY <1>6 DEF Register, TypeInv, TypeOK
  <2>3. mConsumers' \in [Sessions -> Seq(Consumers)]
    <3>1. mConsumers \in [Sessions -> Seq(Consumers)]
      BY DEF TypeInv, TypeOK
    <3>2. o \in Consumers => [mConsumers EXCEPT ![parent[o]] = Append(@, o)]
                               \in [Sessions -> Seq(Consumers)]
      BY <3>1, ChildAdded
    <3> QED
      BY <1>6, <3>1, <3>2 DEF Register
  <2>4. mProducers' \in [Sessions -> Seq(Producers)]
    <3>1. mProducers \in [Sessions -> Seq(Producers)]
      BY DEF TypeInv, TypeOK
    <3>2. o \in Producers => [mProducers EXCEPT ![parent[o]] = Append(@, o)]
                               \in [Sessions -> Seq(Producers)]
      BY <3>1, ChildAdded
    <3> QED
      BY <1>6, <3>1, <3>2 DEF Register
  <2>5. fault' \in {"none", "terminate", "dataRace"}
    BY <1>6 DEF Register
  <2> QED
    BY <1>6, <2>1, <2>2, <2>3, <2>4, <2>5
       DEF Register, TypeInv, TypeOK, fields, proton, Todo
<1> QED
  BY <1>2, <1>3, <1>4, <1>5, <1>6

LEMMA ThreadStepTypes ==
  ASSUME TypeInv, NEW t \in Threads, ThreadStep(t)
  PROVE  TypeInv'
<1> DEFINE step == Head(todo[t])[1]
           o    == Head(todo[t])[2]
<1>1. todo[t] # <<>>
  BY DEF ThreadStep
<1>2. step \in Steps /\ o \in Objects /\ (step \in {"lock", "addClose"} => o \in Parents)
  BY <1>1, HeadTypes
<1>3. \/ step \in {"start", "stop", "close"} /\ Call(t, step, o)
      \/ step = "lock" /\ LockParent(t, o)
      \/ step = "addClose" /\ AddClose(t, o)
      \/ Await(t, step, o)
      \/ step \in {"setStarted", "setStopped"} /\ SetState(t, step, o)
      \/ Register(t, o)
  BY DEF ThreadStep
<1> HIDE DEF step, o
<1> QED
  BY <1>1, <1>2, <1>3, CallTypes, OwnStepTypes

(* A call begins.                                                          *)
LEMMA BeginTypes ==
  ASSUME TypeInv, NEW t \in Threads, NEW what \in {"create", "start", "stop", "close", "destroy"},
         NEW o \in Objects, NEW s, s \in Todo, ParentsOnly(s), Begin(t, what, o, s)
  PROVE  /\ todo' \in [Threads -> Todo] /\ ParentSteps'
         /\ op' \in [Threads -> {"create", "start", "stop", "close", "destroy"} \X Objects]
         /\ ret' \in [Threads -> {"none", "returned", "CMSException"}]
<1>1. todo \in [Threads -> Todo] /\ todo' = [todo EXCEPT ![t] = s]
  BY DEF Begin, TypeInv, TypeOK, Todo
<1>2. todo' \in [Threads -> Todo] /\ todo'[t] = s /\ \A u \in Threads : u # t => todo'[u] = todo[u]
  BY <1>1
<1>3. ParentSteps'
  <2> SUFFICES ASSUME NEW u \in Threads
               PROVE  ParentsOnly(todo'[u])
    BY DEF ParentSteps, ParentsOnly
  <2> QED
    BY <1>2 DEF TypeInv, ParentSteps
<1>4. op' \in [Threads -> {"create", "start", "stop", "close", "destroy"} \X Objects]
  BY DEF Begin, TypeInv, TypeOK
<1>5. ret' \in [Threads -> {"none", "returned", "CMSException"}]
  BY DEF Begin, TypeInv, TypeOK
<1> QED
  BY <1>2, <1>3, <1>4, <1>5

(* So does every creation.                                                 *)
LEMMA CreateTypes ==
  ASSUME TypeInv, NEW t \in Threads, NEW o \in Objects, NEW p \in Parents, NEW checked,
         Create(t, o, p, checked)
  PROVE  TypeInv'
<1>1. UNCHANGED <<mState, mMutex, mSessions, mConsumers, mProducers, calls, fault, drains,
                  handling, container, faults, asked>>
  BY DEF Create
<1>2. CASE checked /\ mWorkQueue[p]
  <2> DEFINE s == << <<"awaitOpen", o>>, <<"register", o>> >>
  <2>1. Begin(t, "create", o, s)
    BY <1>2 DEF Create
  <2>2. s \in Todo /\ ParentsOnly(s)
    BY DEF Todo, Steps, ParentsOnly
  <2> HIDE DEF s
  <2>3. /\ todo' \in [Threads -> Todo] /\ ParentSteps'
        /\ op' \in [Threads -> {"create", "start", "stop", "close", "destroy"} \X Objects]
        /\ ret' \in [Threads -> {"none", "returned", "CMSException"}]
    BY <2>1, <2>2, BeginTypes
  <2>4. /\ alive' \subseteq Objects
        /\ parent' \in [Objects -> Parents \cup {NoObject}]
        /\ mWorkQueue' \in [Objects -> BOOLEAN]
        /\ peer' \in [Objects -> {"none", "opening", "open", "closing", "closed"}]
    <3>1. /\ alive' = alive \cup {o}
          /\ parent' = [parent EXCEPT ![o] = p]
          /\ mWorkQueue' = [mWorkQueue EXCEPT ![o] = TRUE]
          /\ peer' = [peer EXCEPT ![o] = "opening"]
      BY <1>2 DEF Create
    <3> QED
      BY <3>1 DEF TypeInv, TypeOK
  <2> QED
    BY <1>1, <2>3, <2>4 DEF TypeInv, TypeOK, Todo
<1>3. CASE ~(checked /\ mWorkQueue[p])
  <2>1. /\ op' \in [Threads -> {"create", "start", "stop", "close", "destroy"} \X Objects]
        /\ ret' \in [Threads -> {"none", "returned", "CMSException"}]
    <3>1. /\ op' = [op EXCEPT ![t] = <<"create", o>>]
          /\ ret' = [ret EXCEPT ![t] = "CMSException"]
      BY <1>3 DEF Create
    <3> QED
      BY <3>1 DEF TypeInv, TypeOK
  <2>2. UNCHANGED <<todo, alive, parent, mWorkQueue, peer>>
    BY <1>3 DEF Create
  <2> QED
    BY <1>1, <2>1, <2>2 DEF TypeInv, TypeOK, ParentSteps
<1> QED
  BY <1>2, <1>3

(* ... every other call of the application ...                             *)
LEMMA CallsTypes ==
  ASSUME TypeInv, NEW t \in Threads, NEW what \in {"start", "stop"}, NEW o \in Objects,
         StartStop(t, what, o) \/ CloseObject(t, o) \/ Destroy(t, o)
  PROVE  TypeInv'
<1>1. calls' \in 0..MaxCalls
  <2>1. calls + faults < MaxCalls /\ calls' = calls + 1 /\ calls \in Nat /\ faults \in Nat
        /\ MaxCalls \in Nat
    BY TreeAssumption DEF StartStop, CloseObject, Destroy, Counted, TypeInv, TypeOK
  <2> QED
    BY <2>1
<1>2. ASSUME NEW step \in {"start", "stop", "close"}
      PROVE  << <<step, o>> >> \in Todo /\ ParentsOnly(<< <<step, o>> >>)
  <2>1. step \in Steps
    BY DEF Steps
  <2> QED
    BY <2>1, OneStep
<1>3. CASE StartStop(t, what, o)
  <2>1. Begin(t, what, o, << <<what, o>> >>)
    BY <1>3 DEF StartStop
  <2>2. /\ todo' \in [Threads -> Todo] /\ ParentSteps'
        /\ op' \in [Threads -> {"create", "start", "stop", "close", "destroy"} \X Objects]
        /\ ret' \in [Threads -> {"none", "returned", "CMSException"}]
    BY <1>2, <2>1, BeginTypes
  <2> QED
    BY <1>1, <1>3, <2>2 DEF StartStop, TypeInv, TypeOK, fields, pointers, proton, Todo
<1>4. CASE CloseObject(t, o)
  <2>1. Begin(t, "close", o, << <<"close", o>> >>)
    BY <1>4 DEF CloseObject
  <2>2. /\ todo' \in [Threads -> Todo] /\ ParentSteps'
        /\ op' \in [Threads -> {"create", "start", "stop", "close", "destroy"} \X Objects]
        /\ ret' \in [Threads -> {"none", "returned", "CMSException"}]
    BY <1>2, <2>1, BeginTypes
  <2> QED
    BY <1>1, <1>4, <2>2 DEF CloseObject, TypeInv, TypeOK, fields, pointers, proton, Todo
<1>5. CASE Destroy(t, o)
  <2> DEFINE s == IF Throws("close", o) THEN <<>> ELSE Unfolded("close", o)
  <2>1. s \in Todo /\ ParentsOnly(s)
    <3>1. Unfolded("close", o) \in Todo /\ ParentsOnly(Unfolded("close", o))
      BY UnfoldedTypes DEF TypeInv
    <3> QED
      BY <3>1, NothingMore
  <2>2. Begin(t, "destroy", o, s)
    BY <1>5 DEF Destroy
  <2> HIDE DEF s
  <2>3. /\ todo' \in [Threads -> Todo] /\ ParentSteps'
        /\ op' \in [Threads -> {"create", "start", "stop", "close", "destroy"} \X Objects]
        /\ ret' \in [Threads -> {"none", "returned", "CMSException"}]
    BY <2>1, <2>2, BeginTypes
  <2>4. /\ alive' \subseteq Objects
        /\ fault' \in {"none", "terminate", "dataRace"}
        /\ drains' \in [Consumers -> Nat]
        /\ peer' \in [Objects -> {"none", "opening", "open", "closing", "closed"}]
    BY <1>5 DEF Destroy, Request, TypeInv, TypeOK
  <2>5. UNCHANGED <<fields, mMutex, mSessions, mConsumers, mProducers, parent, handling,
                    container, faults, asked>>
    BY <1>5 DEF Destroy
  <2> QED
    BY <1>1, <2>3, <2>4, <2>5 DEF TypeInv, TypeOK, fields, Todo
<1> QED
  BY <1>3, <1>4, <1>5

(* ... and every handler and event.                                        *)
LEMMA ContainerTypes ==
  ASSUME TypeInv,
         \/ ContainerStep
         \/ \E o \in Objects : OnClose(o)
         \/ Reconnect
  PROVE  TypeInv'
<1> DEFINE PeerStates == {"none", "opening", "open", "closing", "closed"}
<1>0. faults' = faults \/ Unasked => faults' \in 0..MaxFaults
  BY TreeAssumption DEF Unasked, TypeInv, TypeOK
<1>1. ASSUME NEW o \in Objects, OnOpen(o)
      PROVE  TypeInv'
  <2>1. /\ peer' \in [Objects -> PeerStates]
        /\ mWorkQueue' \in [Objects -> BOOLEAN]
        /\ mState' \in [Objects -> ClientState]
    BY <1>1 DEF OnOpen, OpenedState, TypeInv, TypeOK, ClientState
  <2> QED
    BY <1>1, <2>1 DEF OnOpen, TypeInv, TypeOK, pointers, call, ParentSteps
<1>2. ASSUME NEW o \in Objects, OnClose(o)
      PROVE  TypeInv'
  <2>1. /\ peer' \in [Objects -> PeerStates]
        /\ mWorkQueue' \in [Objects -> BOOLEAN]
        /\ mState' \in [Objects -> ClientState]
    BY <1>2 DEF OnClose, TypeInv, TypeOK, ClientState
  <2>2. faults' \in 0..MaxFaults
    BY <1>0, <1>2 DEF OnClose
  <2> QED
    BY <1>2, <2>1, <2>2 DEF OnClose, TypeInv, TypeOK, pointers, call, ParentSteps
<1>3. CASE Reconnect
  <2>1. peer' \in [Objects -> PeerStates]
    BY <1>3 DEF Reconnect, TypeInv, TypeOK
  <2>2. faults' \in 0..MaxFaults
    BY <1>0, <1>3 DEF Reconnect
  <2> QED
    BY <1>3, <2>1, <2>2 DEF Reconnect, TypeInv, TypeOK, fields, pointers, call, ParentSteps
<1>4. CASE OnCloseEnd
  <2>1. mWorkQueue' \in [Objects -> BOOLEAN] /\ mState' \in [Objects -> ClientState]
    BY <1>4 DEF OnCloseEnd, TypeInv, TypeOK, ClientState
  <2> QED
    BY <1>4, <2>1 DEF OnCloseEnd, TypeInv, TypeOK, pointers, call, ParentSteps
<1>5. ASSUME NEW c \in Consumers, DrainFinish(c)
      PROVE  TypeInv'
  <2>1. /\ drains' \in [Consumers -> Nat]
        /\ mState' \in [Objects -> ClientState]
    <3>1. /\ drains[c] - 1 \in Nat /\ drains' = [drains EXCEPT ![c] = drains[c] - 1]
          /\ mState' = [mState EXCEPT ![c] = "STOPPED"]
      BY <1>5 DEF DrainFinish, Draining, TypeInv, TypeOK
    <3> QED
      BY <3>1 DEF TypeInv, TypeOK, ClientState
  <2> QED
    BY <1>5, <2>1 DEF DrainFinish, TypeInv, TypeOK, pointers, call, ParentSteps
<1>6. ASSUME NEW c \in Consumers, DrainThrows(c)
      PROVE  TypeInv'
  BY <1>6 DEF DrainThrows, TypeInv, TypeOK, fields, pointers, call, ParentSteps
<1> QED
  BY <1>1, <1>2, <1>3, <1>4, <1>5, <1>6 DEF ContainerStep

(* Next, without the facades.                                              *)
LEMMA NextSteps ==
  ASSUME Next
  PROVE  \/ \E t \in Threads : ThreadStep(t)
         \/ \E t \in Threads, o \in Objects, p \in Parents, checked \in BOOLEAN :
              o # Conn /\ (o \in Sessions => p = Conn) /\ Create(t, o, p, checked)
         \/ \E t \in Threads, what \in {"start", "stop"}, o \in Objects :
              StartStop(t, what, o) \/ CloseObject(t, o) \/ Destroy(t, o)
         \/ ContainerStep
         \/ \E o \in Objects : OnClose(o)
         \/ Reconnect
<1>1. ASSUME NEW t \in Threads, ConnectionCalls(t)
      PROVE  \E what \in {"start", "stop"}, o \in Objects :
               StartStop(t, what, o) \/ CloseObject(t, o) \/ Destroy(t, o)
  BY <1>1 DEF ConnectionCalls, Objects
<1>2. ASSUME NEW t \in Threads, NEW s \in Sessions, SessionCalls(t, s)
      PROVE  \E what \in {"start", "stop"}, o \in Objects :
               StartStop(t, what, o) \/ CloseObject(t, o) \/ Destroy(t, o)
  BY <1>2 DEF SessionCalls, Objects
<1>3. ASSUME NEW t \in Threads, NEW c \in Consumers, ConsumerCalls(t, c)
      PROVE  \E what \in {"start", "stop"}, o \in Objects :
               StartStop(t, what, o) \/ CloseObject(t, o) \/ Destroy(t, o)
  BY <1>3 DEF ConsumerCalls, Objects, Endpoints
<1>4. ASSUME NEW t \in Threads, NEW p \in Producers, ProducerCalls(t, p)
      PROVE  \E what \in {"start", "stop"}, o \in Objects :
               StartStop(t, what, o) \/ CloseObject(t, o) \/ Destroy(t, o)
  BY <1>4 DEF ProducerCalls, Objects, Endpoints
<1>5. ASSUME NEW t \in Threads, NEW s \in Sessions, createSession(t, s)
      PROVE  \E o \in Objects, p \in Parents, checked \in BOOLEAN :
               o # Conn /\ (o \in Sessions => p = Conn) /\ Create(t, o, p, checked)
  <2>1. s \in Objects /\ s # Conn /\ Conn \in Parents
    BY TreeAssumption DEF Objects, Parents
  <2> QED
    BY <1>5, <2>1 DEF createSession
<1>6. ASSUME NEW t \in Threads, NEW e \in Endpoints, NEW s \in Sessions,
             Create(t, e, s, check(s))
      PROVE  \E o \in Objects, p \in Parents, checked \in BOOLEAN :
               o # Conn /\ (o \in Sessions => p = Conn) /\ Create(t, o, p, checked)
  <2>1. e \in Objects /\ e # Conn /\ e \notin Sessions /\ s \in Parents
    BY TreeAssumption DEF Objects, Parents
  <2>2. check(s) \in BOOLEAN
    BY DEF check
  <2> QED
    BY <1>6, <2>1, <2>2
<1> QED
  BY <1>1, <1>2, <1>3, <1>4, <1>5, <1>6
     DEF Next, createConsumer, createProducer, Endpoints

(* Every variable keeps its type: in particular a cascade never locks,     *)
(* asks for the close of, or counts an endpoint as a parent.               *)
LEMMA TypeInvariant == Spec => []TypeInv
<1>1. Init => TypeInv
  <2> SUFFICES ASSUME Init
               PROVE  TypeInv
    OBVIOUS
  <2> DEFINE s == << <<"awaitOpen", Conn>> >>
  <2>1. Conn \in Objects /\ Conn \in Parents /\ "awaitOpen" \in Steps
    BY DEF Objects, Parents, Steps
  <2>2. s \in Todo /\ ParentsOnly(s) /\ <<>> \in Todo /\ ParentsOnly(<<>>)
    BY <2>1, OneStep, NothingMore
  <2>3. todo = [t \in Threads |-> IF t = Opener THEN s ELSE <<>>]
    BY DEF Init
  <2> HIDE DEF s
  <2>4. todo \in [Threads -> Todo] /\ ParentSteps
    BY <2>2, <2>3 DEF ParentSteps
  <2>5. /\ mState \in [Objects -> ClientState]
        /\ mWorkQueue \in [Objects -> BOOLEAN]
        /\ mMutex \in [Parents -> Threads \cup {NoThread}]
    BY DEF Init, ClientState
  <2>6. /\ mSessions \in Seq(Sessions)
        /\ mConsumers \in [Sessions -> Seq(Consumers)]
        /\ mProducers \in [Sessions -> Seq(Producers)]
    BY DEF Init
  <2>7. /\ alive \subseteq Objects
        /\ parent \in [Objects -> Parents \cup {NoObject}]
        /\ op \in [Threads -> {"create", "start", "stop", "close", "destroy"} \X Objects]
        /\ ret \in [Threads -> {"none", "returned", "CMSException"}]
    BY <2>1 DEF Init
  <2>8. /\ calls \in 0..MaxCalls /\ faults \in 0..MaxFaults
        /\ fault \in {"none", "terminate", "dataRace"}
        /\ peer \in [Objects -> {"none", "opening", "open", "closing", "closed"}]
        /\ drains \in [Consumers -> Nat]
        /\ asked \subseteq Parents
        /\ handling \in Objects \cup {NoObject}
        /\ container \in {"loop", "dead"}
    BY TreeAssumption DEF Init
  <2> QED
    BY <2>4, <2>5, <2>6, <2>7, <2>8 DEF TypeInv, TypeOK, Todo
<1>2. TypeInv /\ [Next]_vars => TypeInv'
  <2> SUFFICES ASSUME TypeInv, [Next]_vars
               PROVE  TypeInv'
    OBVIOUS
  <2>1. CASE Next
    BY <2>1, NextSteps, ThreadStepTypes, CreateTypes, CallsTypes, ContainerTypes
  <2>2. CASE UNCHANGED vars
    BY <2>2 DEF TypeInv, TypeOK, ParentSteps, vars, fields, pointers, call, proton
  <2> QED
    BY <2>1, <2>2
<1> QED
  BY <1>1, <1>2, PTL DEF Spec

(* Every variable keeps its type, for every tree and every order of calls. *)
THEOREM TypeCorrect == Spec => []TypeOK
<1>1. TypeInv => TypeOK
  BY DEF TypeInv
<1> QED
  BY <1>1, TypeInvariant, PTL

-----------------------------------------------------------------------------
(* Children close first.  That a parent asks for its close only when its   *)
(* children are closed is not inductive: AddClose looks at no child.  It   *)
(* need not, because the calls on the children stand before it in the      *)
(* thread's todo, and none of them goes without a close that the broker    *)
(* has confirmed.                                                          *)

(* What an object shows of its close, the broker has confirmed.            *)
Confirmed ==
  /\ \A o \in Objects : mState[o] = "CLOSED" => peer[o] = "closed"
  /\ \A o \in alive \ {Conn} : ~mWorkQueue[o] => peer[o] = "closed"
  /\ handling # NoObject => peer[handling] = "closed"

(* A closed link, session or connection is not opened again.               *)
ClosedStays == \A o \in Objects : peer[o] = "closed" => peer'[o] = "closed"

(* Asking for a close touches only what is not closed.                     *)
LEMMA RequestConfirmed ==
  ASSUME TypeOK, Confirmed, NEW step, NEW o \in Objects, Request(step, o),
         alive' \subseteq alive, UNCHANGED <<fields, handling>>
  PROVE  Confirmed' /\ ClosedStays
<1>1. peer' = peer \/ (peer[o] # "closed" /\ peer' = [peer EXCEPT ![o] = "closing"])
  BY DEF Request
<1>2. ClosedStays
  BY <1>1 DEF ClosedStays, TypeOK
<1> QED
  BY <1>2 DEF Confirmed, ClosedStays, TypeOK, fields

LEMMA ConfirmedThread ==
  ASSUME TypeInv, Confirmed, NEW t \in Threads, ThreadStep(t)
  PROVE  Confirmed' /\ ClosedStays
<1> DEFINE step == Head(todo[t])[1]
           o    == Head(todo[t])[2]
<1>0. TypeOK
  BY DEF TypeInv
<1>1. o \in Objects
  BY HeadTypes DEF ThreadStep
<1>2. \/ Call(t, step, o) \/ LockParent(t, o) \/ AddClose(t, o) \/ Await(t, step, o)
      \/ step \in {"setStarted", "setStopped"} /\ SetState(t, step, o)
      \/ Register(t, o)
  BY DEF ThreadStep
<1> HIDE DEF step, o
<1> DEFINE Same == UNCHANGED <<mState, mWorkQueue, alive, peer, handling>>
<1>3. Same => Confirmed' /\ ClosedStays
  BY DEF Confirmed, ClosedStays
<1>4. CASE Call(t, step, o)
  <2>1. UNCHANGED <<fields, alive, handling>>
    BY <1>4 DEF Call, pointers
  <2>2. UNCHANGED peer \/ Request(step, o)
    BY <1>4 DEF Call
  <2>3. CASE UNCHANGED peer
    BY <1>3, <2>1, <2>3 DEF fields
  <2>4. CASE Request(step, o)
    BY <1>0, <1>1, <2>1, <2>4, RequestConfirmed
  <2> QED
    BY <2>2, <2>3, <2>4
<1>5. CASE AddClose(t, o)
  <2>1. UNCHANGED <<mState, mWorkQueue, alive, handling>>
    BY <1>5 DEF AddClose, fields, pointers
  <2>2. peer' = peer \/ (peer[o] # "closed" /\ peer' = [peer EXCEPT ![o] = "closing"])
    BY <1>5 DEF AddClose
  <2>3. ClosedStays
    BY <1>0, <2>2 DEF ClosedStays, TypeOK
  <2> QED
    BY <1>0, <2>1, <2>3 DEF Confirmed, ClosedStays, TypeOK
<1>6. CASE LockParent(t, o) \/ Await(t, step, o) \/ Register(t, o)
  <2>1. Same
    BY <1>6 DEF LockParent, Await, Register, fields, pointers, proton
  <2> QED
    BY <1>3, <2>1
<1>7. CASE step \in {"setStarted", "setStopped"} /\ SetState(t, step, o)
  <2>1. /\ UNCHANGED <<mWorkQueue, alive, peer, handling>>
        /\ \E s \in {"STARTED", "STOPPED"} : mState' = [mState EXCEPT ![o] = s]
    BY <1>7 DEF SetState, pointers, proton
  <2> QED
    BY <1>0, <2>1 DEF Confirmed, ClosedStays, TypeOK
<1> QED
  BY <1>2, <1>4, <1>5, <1>6, <1>7

LEMMA ConfirmedCalls ==
  ASSUME TypeInv, Confirmed, NEW t \in Threads, NEW what, NEW o \in Objects, NEW p,
         NEW checked,
         \/ Create(t, o, p, checked)
         \/ StartStop(t, what, o) \/ CloseObject(t, o) \/ Destroy(t, o)
  PROVE  Confirmed' /\ ClosedStays
<1>0. TypeOK
  BY DEF TypeInv
<1>1. CASE Create(t, o, p, checked)
  <2>1. CASE UNCHANGED <<alive, mWorkQueue, peer>>
    BY <1>1, <2>1 DEF Create, Confirmed, ClosedStays
  <2>2. CASE /\ peer[o] = "none" /\ peer' = [peer EXCEPT ![o] = "opening"]
             /\ alive' = alive \cup {o}
             /\ mWorkQueue' = [mWorkQueue EXCEPT ![o] = TRUE]
    <3>1. UNCHANGED <<mState, handling>>
      BY <1>1 DEF Create
    <3>2. ClosedStays
      BY <1>0, <2>2 DEF ClosedStays, TypeOK
    <3>3. \A a \in alive' \ {Conn} : ~mWorkQueue'[a] => a \in alive /\ ~mWorkQueue[a]
      BY <1>0, <2>2 DEF TypeOK
    <3> QED
      BY <1>0, <3>1, <3>2, <3>3 DEF Confirmed, ClosedStays, TypeOK
  <2> QED
    BY <1>1, <2>1, <2>2 DEF Create
<1>2. CASE StartStop(t, what, o) \/ CloseObject(t, o)
  BY <1>2 DEF StartStop, CloseObject, Confirmed, ClosedStays, fields, pointers, proton
<1>3. CASE Destroy(t, o)
  <2>1. Request("close", o) /\ alive' \subseteq alive /\ UNCHANGED <<fields, handling>>
    BY <1>3 DEF Destroy
  <2> QED
    BY <1>0, <2>1, RequestConfirmed
<1> QED
  BY <1>1, <1>2, <1>3

LEMMA ConfirmedContainer ==
  ASSUME TypeInv, Confirmed,
         \/ ContainerStep
         \/ \E o \in Objects : OnClose(o)
         \/ Reconnect
  PROVE  Confirmed' /\ ClosedStays
<1>0. TypeOK /\ (handling # NoObject => handling \in Objects)
  BY DEF TypeInv, TypeOK
<1>1. ASSUME NEW o \in Objects, OnOpen(o)
      PROVE  Confirmed' /\ ClosedStays
  <2>1. /\ peer[o] = "opening" /\ peer' = [peer EXCEPT ![o] = "open"]
        /\ mWorkQueue' = [mWorkQueue EXCEPT ![o] = TRUE]
        /\ \E s \in {"STOPPED", "STARTED"} : mState' = [mState EXCEPT ![o] = s]
        /\ UNCHANGED <<alive, handling>>
    BY <1>1 DEF OnOpen, OpenedState, pointers
  <2>2. ClosedStays
    BY <1>0, <2>1 DEF ClosedStays, TypeOK
  <2>3. \A a \in alive' \ {Conn} : ~mWorkQueue'[a] => a \in alive /\ ~mWorkQueue[a]
    BY <1>0, <2>1 DEF TypeOK
  <2>4. \A a \in Objects : mState'[a] = "CLOSED" => mState[a] = "CLOSED"
    BY <1>0, <2>1 DEF TypeOK
  <2> QED
    BY <1>0, <2>1, <2>2, <2>3, <2>4 DEF Confirmed, ClosedStays, TypeOK
<1>2. ASSUME NEW o \in Objects, OnClose(o)
      PROVE  Confirmed' /\ ClosedStays
  <2>1. /\ peer' = [peer EXCEPT ![o] = "closed"] /\ handling' = o
        /\ mState' = mState \/ mState' = [mState EXCEPT ![o] = "CLOSED"]
        /\ mWorkQueue' = mWorkQueue \/ mWorkQueue' = [mWorkQueue EXCEPT ![o] = FALSE]
        /\ alive' = alive
    BY <1>2 DEF OnClose, pointers
  <2>2. \A a \in Objects : a # o => /\ mState'[a] = mState[a]
                                    /\ mWorkQueue'[a] = mWorkQueue[a]
    BY <1>0, <2>1 DEF TypeOK
  <2>3. peer'[o] = "closed" /\ \A a \in Objects : a # o => peer'[a] = peer[a]
    BY <1>0, <2>1 DEF TypeOK
  <2> QED
    BY <1>0, <2>1, <2>2, <2>3 DEF Confirmed, ClosedStays, TypeOK
<1>3. CASE Reconnect
  <2>1. /\ \A a \in Objects : peer[a] = "closed" <=> peer'[a] = "closed"
        /\ UNCHANGED <<mState, mWorkQueue, alive, handling>>
    BY <1>0, <1>3 DEF Reconnect, TypeOK, fields, pointers
  <2> QED
    BY <1>0, <2>1 DEF Confirmed, ClosedStays, TypeOK
<1>4. CASE OnCloseEnd
  <2>1. /\ handling \in Objects /\ handling' = NoObject /\ UNCHANGED <<alive, peer>>
        /\ mState' = mState \/ mState' = [mState EXCEPT ![handling] = "CLOSED"]
        /\ mWorkQueue' = mWorkQueue \/ mWorkQueue' = [mWorkQueue EXCEPT ![handling] = FALSE]
        /\ peer[handling] = "closed"
    BY <1>0, <1>4 DEF OnCloseEnd, pointers, Confirmed
  <2>2. \A a \in Objects : a # handling => /\ mState'[a] = mState[a]
                                           /\ mWorkQueue'[a] = mWorkQueue[a]
    BY <1>0, <2>1 DEF TypeOK
  <2> QED
    BY <1>0, <2>1, <2>2 DEF Confirmed, ClosedStays, TypeOK
<1>5. ASSUME NEW c \in Consumers, DrainFinish(c)
      PROVE  Confirmed' /\ ClosedStays
  <2>1. /\ mState' = [mState EXCEPT ![c] = "STOPPED"]
        /\ UNCHANGED <<mWorkQueue, alive, peer, handling>>
    BY <1>5 DEF DrainFinish, pointers
  <2> QED
    BY <1>0, <2>1 DEF Confirmed, ClosedStays, TypeOK
<1>6. ASSUME NEW c \in Consumers, DrainThrows(c)
      PROVE  Confirmed' /\ ClosedStays
  BY <1>6 DEF DrainThrows, Confirmed, ClosedStays, fields, pointers
<1> QED
  BY <1>1, <1>2, <1>3, <1>4, <1>5, <1>6 DEF ContainerStep

(* No step takes a confirmed close back.                                   *)
LEMMA ConfirmedKept ==
  ASSUME TypeInv, Confirmed, Next
  PROVE  Confirmed' /\ ClosedStays
BY NextSteps, ConfirmedThread, ConfirmedCalls, ConfirmedContainer

(* A session's parent is the connection, once it has one.                  *)
SessionsOfConn == \A s \in Sessions : parent[s] \in {Conn, NoObject}

LEMMA SessionsOfConnKept ==
  ASSUME TypeInv, SessionsOfConn, Next
  PROVE  SessionsOfConn'
<1>1. UNCHANGED parent => SessionsOfConn'
  BY DEF SessionsOfConn
<1>2. ASSUME NEW t \in Threads, ThreadStep(t)
      PROVE  UNCHANGED parent
  BY <1>2 DEF ThreadStep, Call, LockParent, AddClose, Await, SetState, Register, pointers
<1>3. ASSUME NEW t, NEW o \in Objects, NEW p \in Parents, NEW checked \in BOOLEAN,
             o \in Sessions => p = Conn, Create(t, o, p, checked)
      PROVE  SessionsOfConn'
  <2>1. UNCHANGED parent \/ parent' = [parent EXCEPT ![o] = p]
    BY <1>3 DEF Create
  <2>2. Sessions \subseteq Objects /\ parent \in [Objects -> Parents \cup {NoObject}]
    BY DEF Objects, TypeInv, TypeOK
  <2> QED
    BY <1>3, <2>1, <2>2 DEF SessionsOfConn
<1>4. ASSUME NEW t, NEW what, NEW o,
             StartStop(t, what, o) \/ CloseObject(t, o) \/ Destroy(t, o)
      PROVE  UNCHANGED parent
  BY <1>4 DEF StartStop, CloseObject, Destroy, pointers
<1>5. ContainerStep \/ (\E o \in Objects : OnClose(o)) \/ Reconnect => UNCHANGED parent
  BY DEF ContainerStep, OnCloseEnd, OnOpen, DrainFinish, DrainThrows, OnClose, Reconnect,
         pointers
<1> QED
  BY <1>1, <1>2, <1>3, <1>4, <1>5, NextSteps

-----------------------------------------------------------------------------
(* Objects are created before the first other call, and only then.         *)

CreatingSteps == {"awaitOpen", "register"}

OnlyCreates(q) == \A i \in DOMAIN q : q[i][1] \in CreatingSteps

SetupDone ==
  /\ calls = 0 => asked = {} /\ \A t \in Threads : OnlyCreates(todo[t])
  /\ calls > 0 => \A t \in Threads : todo[t] # <<>> => op[t][1] # "create"
  /\ \A t \in Threads : \A i \in DOMAIN todo[t] :
       todo[t][i][1] = "register" => op[t][1] = "create"

(* The elements after unfolding are old ones and those unfolded into.      *)
LEMMA ElementsOf ==
  ASSUME NEW q, NEW s, NEW r, Replaces(q, s, r), NEW i \in DOMAIN r
  PROVE  (\E m \in DOMAIN s : r[i] = s[m]) \/ (\E j \in DOMAIN q : r[i] = q[j])
BY DEF Replaces

(* A thread that continues with steps that register nothing.               *)
LEMMA SetupContinue ==
  ASSUME TypeInv, SetupDone, NEW t \in Threads, todo[t] # <<>>, NEW s, s \in Todo,
         ParentsOnly(s), Continue(t, s), \A i \in DOMAIN s : s[i][1] # "register",
         calls > 0 \/ s = <<>>, calls' = calls, asked' = asked \/ calls > 0
  PROVE  SetupDone'
<1> DEFINE q == todo[t]
           r == todo'[t]
<1>1. Replaces(q, s, r) /\ op' = op /\ \A u \in Threads : u # t => todo'[u] = todo[u]
  <2>1. q \in Todo
    BY DEF TypeInv, TypeOK, Todo
  <2>2. r = s \o Tail(q) /\ op' = op /\ \A u \in Threads : u # t => todo'[u] = todo[u]
    BY ContinueTypes
  <2>3. Replaces(q, s, s \o Tail(q))
    BY <2>1, Unfolding
  <2> QED
    BY <2>2, <2>3
<1>2. /\ calls = 0 => OnlyCreates(q)
      /\ calls > 0 => op[t][1] # "create"
      /\ \A i \in DOMAIN q : q[i][1] = "register" => op[t][1] = "create"
  BY DEF SetupDone
<1>0. \A i \in DOMAIN r : (\E m \in DOMAIN s : r[i] = s[m]) \/ (\E j \in DOMAIN q : r[i] = q[j])
  <2> HIDE DEF q, r
  <2> QED
    BY <1>1, ElementsOf
<1> HIDE DEF q, r
<1>3. calls = 0 => OnlyCreates(r)
  BY <1>0, <1>2 DEF OnlyCreates
<1>4. \A i \in DOMAIN r : r[i][1] = "register" => op[t][1] = "create"
  BY <1>0, <1>2
<1>5. calls \in Nat
  BY DEF TypeInv, TypeOK
<1>6. calls' = 0 => asked' = {} /\ \A u \in Threads : OnlyCreates(todo'[u])
  BY <1>1, <1>3, <1>5 DEF SetupDone, r
<1>7. calls' > 0 => \A u \in Threads : todo'[u] # <<>> => op'[u][1] # "create"
  BY <1>1, <1>2 DEF SetupDone, q
<1>8. \A u \in Threads : \A i \in DOMAIN todo'[u] :
        todo'[u][i][1] = "register" => op'[u][1] = "create"
  BY <1>1, <1>4 DEF SetupDone, r
<1> QED
  BY <1>6, <1>7, <1>8 DEF SetupDone, OnlyCreates

(* A thread whose call is over, as after an exception.                     *)
LEMMA SetupThrow ==
  ASSUME TypeInv, SetupDone, NEW t \in Threads, Throw(t), UNCHANGED <<calls, asked>>
  PROVE  SetupDone'
<1>1. /\ todo' = [todo EXCEPT ![t] = <<>>] /\ op' = op
      /\ todo \in [Threads -> Todo]
  BY DEF Throw, TypeInv, TypeOK, Todo
<1>2. todo'[t] = <<>> /\ \A u \in Threads : u # t => todo'[u] = todo[u]
  BY <1>1
<1> QED
  BY <1>1, <1>2 DEF SetupDone, OnlyCreates

(* The steps of a thread: while no other call has been made, they are      *)
(* those of the constructors.                                              *)
LEMMA SetupThread ==
  ASSUME TypeInv, SetupDone, NEW t \in Threads, ThreadStep(t)
  PROVE  SetupDone'
<1> DEFINE step == Head(todo[t])[1]
           o    == Head(todo[t])[2]
<1>0. calls \in Nat /\ TypeOK
  BY DEF TypeInv, TypeOK
<1>1. todo[t] # <<>> /\ o \in Objects /\ (step \in {"lock", "addClose"} => o \in Parents)
  BY HeadTypes DEF ThreadStep
<1>2. calls > 0 \/ step \in CreatingSteps
  <2>1. Head(todo[t]) = todo[t][1] /\ 1 \in DOMAIN todo[t]
    BY <1>1, HeadTypes
  <2> QED
    BY <1>0, <2>1 DEF SetupDone, OnlyCreates
<1>3. \/ step \in {"start", "stop", "close"} /\ Call(t, step, o)
      \/ step = "lock" /\ LockParent(t, o)
      \/ step = "addClose" /\ AddClose(t, o)
      \/ Await(t, step, o)
      \/ step \in {"setStarted", "setStopped"} /\ SetState(t, step, o)
      \/ Register(t, o)
  BY DEF ThreadStep
<1> HIDE DEF step, o
<1>4. ASSUME Continue(t, <<>>), calls' = calls, asked' = asked \/ calls > 0
      PROVE  SetupDone'
  BY <1>1, <1>4, NothingMore, SetupContinue
<1>5. CASE step \in {"start", "stop", "close"} /\ Call(t, step, o)
  <2>1. UNCHANGED <<calls, asked>>
    BY <1>5 DEF Call
  <2>2. calls > 0
    BY <1>2, <1>5 DEF CreatingSteps
  <2>3. CASE Continue(t, <<>>)
    BY <1>4, <2>1, <2>3
  <2>4. CASE Throw(t)
    BY <2>1, <2>4, SetupThrow
  <2>5. CASE Continue(t, Unfolded(step, o))
    <3> DEFINE s == Unfolded(step, o)
    <3>1. s \in Todo /\ ParentsOnly(s) /\ \A i \in DOMAIN s : s[i][1] # "register"
      BY <1>0, <1>1, <1>5, UnfoldedTypes
    <3> HIDE DEF s
    <3>2. Continue(t, s)
      BY <2>5 DEF s
    <3> QED
      BY <1>1, <2>1, <2>2, <3>1, <3>2, SetupContinue
  <2> QED
    BY <1>5, <2>3, <2>4, <2>5 DEF Call
<1>6. CASE step = "lock" /\ LockParent(t, o)
  <2> DEFINE s == CloseLocked(o)
             n == Len(Closed(o))
  <2>1. /\ s \in Todo /\ ParentsOnly(s) /\ n \in Nat /\ DOMAIN s = 1..(n + 2)
        /\ \A i \in 1..n : s[i] = <<"close", Closed(o)[i]>>
        /\ s[n + 1] = <<"addClose", o>>
        /\ s[n + 2] = <<"awaitClosed", o>>
    BY <1>0, <1>1, <1>6, CloseLockedTypes
  <2>2. Continue(t, s) /\ UNCHANGED <<calls, asked>>
    BY <1>6 DEF LockParent
  <2> HIDE DEF s, n
  <2>3. \A i \in DOMAIN s : s[i][1] # "register"
    <3> SUFFICES ASSUME NEW i \in 1..(n + 2)
                 PROVE  s[i][1] # "register"
      BY <2>1
    <3>1. i \in 1..n \/ i = n + 1 \/ i = n + 2
      BY <2>1
    <3>2. i \in 1..n => s[i][1] = "close"
      BY <2>1
    <3>3. s[n + 1][1] = "addClose" /\ s[n + 2][1] = "awaitClosed"
      BY <2>1
    <3> QED
      BY <3>1, <3>2, <3>3
  <2>4. calls > 0
    BY <1>2, <1>6 DEF CreatingSteps
  <2> QED
    BY <1>1, <2>1, <2>2, <2>3, <2>4, SetupContinue
<1>7. CASE step = "addClose" /\ AddClose(t, o)
  <2>1. calls > 0 /\ calls' = calls /\ Continue(t, <<>>)
    BY <1>2, <1>7 DEF CreatingSteps, AddClose
  <2> QED
    BY <1>4, <2>1
<1>8. CASE Await(t, step, o) \/ SetState(t, step, o) \/ Register(t, o)
  <2>1. Continue(t, <<>>) /\ UNCHANGED <<calls, asked>>
    BY <1>8 DEF Await, SetState, Register
  <2> QED
    BY <1>4, <2>1
<1> QED
  BY <1>3, <1>5, <1>6, <1>7, <1>8

(* The calls of the application.                                           *)
LEMMA SetupCalls ==
  ASSUME SetupFirst, TypeInv, SetupDone, NEW t \in Threads, NEW what \in {"start", "stop"},
         NEW o \in Objects, NEW p, NEW checked,
         \/ Create(t, o, p, checked)
         \/ StartStop(t, what, o) \/ CloseObject(t, o) \/ Destroy(t, o)
  PROVE  SetupDone'
<1>0. /\ todo \in [Threads -> Todo] /\ op \in [Threads -> {"create", "start", "stop", "close", "destroy"} \X Objects]
      /\ calls \in Nat /\ TypeOK
  BY DEF TypeInv, TypeOK, Todo
<1>1. CASE Create(t, o, p, checked)
  <2>1. /\ calls = 0 /\ calls' = 0 /\ asked' = asked
        /\ op' = [op EXCEPT ![t] = <<"create", o>>]
        /\ \/ todo' = todo
           \/ todo' = [todo EXCEPT ![t] = << <<"awaitOpen", o>>, <<"register", o>> >>]
    BY <1>0, <1>1 DEF Create, Begin
  <2> DEFINE s == << <<"awaitOpen", o>>, <<"register", o>> >>
  <2>2. OnlyCreates(s)
    BY DEF OnlyCreates, CreatingSteps
  <2> HIDE DEF s
  <2>3. todo' = todo \/ todo' = [todo EXCEPT ![t] = s]
    BY <2>1 DEF s
  <2>4. \A u \in Threads : todo'[u] = todo[u] \/ (u = t /\ todo'[u] = s)
    BY <1>0, <2>3
  <2>5. \A u \in Threads : OnlyCreates(todo'[u])
    BY <2>1, <2>2, <2>4 DEF SetupDone
  <2>6. op'[t][1] = "create" /\ \A u \in Threads : u # t => op'[u] = op[u]
    BY <1>0, <2>1
  <2>7. \A u \in Threads : \A i \in DOMAIN todo'[u] :
          todo'[u][i][1] = "register" => op'[u][1] = "create"
    BY <2>4, <2>6 DEF SetupDone
  <2> QED
    BY <2>1, <2>5, <2>7 DEF SetupDone, OnlyCreates
<1>2. ASSUME NEW name \in {"start", "stop", "close", "destroy"}, NEW s,
             \A i \in DOMAIN s : s[i][1] # "register", Begin(t, name, o, s), Counted
      PROVE  SetupDone'
  <2>1. /\ \A u \in Threads : todo[u] # <<>> => op[u][1] # "create"
        /\ calls' = calls + 1
        /\ todo' = [todo EXCEPT ![t] = s] /\ op' = [op EXCEPT ![t] = <<name, o>>]
    BY <1>2 DEF Counted, Begin
  <2>2. /\ todo'[t] = s /\ op'[t][1] # "create"
        /\ \A u \in Threads : u # t => todo'[u] = todo[u] /\ op'[u] = op[u]
    BY <1>0, <2>1
  <2>3. \A u \in Threads : todo'[u] # <<>> => op'[u][1] # "create"
    BY <2>1, <2>2
  <2>4. \A u \in Threads : \A i \in DOMAIN todo'[u] :
          todo'[u][i][1] = "register" => op'[u][1] = "create"
    BY <1>2, <2>2 DEF SetupDone
  <2>5. calls' # 0
    BY <1>0, <2>1
  <2> QED
    BY <2>3, <2>4, <2>5 DEF SetupDone
<1>3. ASSUME NEW name \in {"start", "stop", "close"}, NEW i \in DOMAIN << <<name, o>> >>
      PROVE  << <<name, o>> >>[i][1] # "register"
  BY <1>3
<1>4. CASE StartStop(t, what, o)
  <2>1. Begin(t, what, o, << <<what, o>> >>) /\ Counted
    BY <1>4 DEF StartStop
  <2> QED
    BY <1>2, <1>3, <2>1
<1>5. CASE CloseObject(t, o)
  <2>1. Begin(t, "close", o, << <<"close", o>> >>) /\ Counted
    BY <1>5 DEF CloseObject
  <2> QED
    BY <1>2, <1>3, <2>1
<1>6. CASE Destroy(t, o)
  <2> DEFINE s == IF Throws("close", o) THEN <<>> ELSE Unfolded("close", o)
  <2>1. \A i \in DOMAIN s : s[i][1] # "register"
    BY <1>0, UnfoldedTypes
  <2>2. Begin(t, "destroy", o, s) /\ Counted
    BY <1>6 DEF Destroy
  <2> HIDE DEF s
  <2> QED
    BY <1>2, <2>1, <2>2
<1> QED
  BY <1>1, <1>4, <1>5, <1>6

LEMMA SetupKept ==
  ASSUME SetupFirst, TypeInv, SetupDone, Next
  PROVE  SetupDone'
<1>1. ASSUME \/ ContainerStep
             \/ \E o \in Objects : OnClose(o)
             \/ Reconnect
      PROVE  SetupDone'
  <2>1. UNCHANGED <<todo, op, calls, asked>>
    BY <1>1 DEF ContainerStep, OnCloseEnd, OnOpen, DrainFinish, DrainThrows, OnClose,
                Reconnect, call
  <2> QED
    BY <2>1 DEF SetupDone, OnlyCreates
<1> QED
  BY <1>1, NextSteps, SetupThread, SetupCalls

-----------------------------------------------------------------------------
(* What stands before a parent's close in a thread's todo.                 *)

Waits == {"close", "lock", "awaitClosed"}

WaitsFor(q, k, child) == \E j \in 1..(k - 1) : q[j][1] \in Waits /\ q[j][2] = child

(* Before the close of a parent stands a wait for each of its children     *)
(* that is not closed yet.                                                 *)
FirstOn(q, kids, links) ==
  \A k \in DOMAIN q :
    q[k][1] = "addClose" =>
      \A child \in kids[q[k][2]] : links[child] = "closed" \/ WaitsFor(q, k, child)

Kids == [o \in Parents |-> LiveChildren(o)]

ChildrenFirst == \A t \in Threads : FirstOn(todo[t], Kids, peer)

(* Fewer children and more closed ones.                                    *)
Shrinks(kids, links, kids2, links2) ==
  /\ \A o \in Parents : kids2[o] \subseteq kids[o] /\ kids[o] \subseteq Objects
  /\ \A o \in Objects : links[o] = "closed" => links2[o] = "closed"

LEMMA FirstShrinks ==
  ASSUME NEW q, ParentsOnly(q), NEW kids, NEW links, NEW kids2, NEW links2,
         Shrinks(kids, links, kids2, links2), FirstOn(q, kids, links)
  PROVE  FirstOn(q, kids2, links2)
BY DEF FirstOn, Shrinks, ParentsOnly

(* A step that waits for a child is replaced by others that do, or the     *)
(* child is closed or gone.                                                *)
LEMMA FirstUnfolds ==
  ASSUME NEW q, q \in Todo, q # <<>>, ParentsOnly(q), NEW s, NEW r, Replaces(q, s, r),
         NEW kids, NEW links, FirstOn(q, kids, links), FirstOn(s, kids, links),
         q[1][1] \in Waits =>
           \/ links[q[1][2]] = "closed"
           \/ \A o \in Parents : q[1][2] \notin kids[o]
           \/ \E m \in DOMAIN s : s[m][1] \in Waits /\ s[m][2] = q[1][2]
  PROVE  FirstOn(r, kids, links)
<1> SUFFICES ASSUME NEW k \in DOMAIN r, r[k][1] = "addClose",
                    NEW child \in kids[r[k][2]], links[child] # "closed"
             PROVE  WaitsFor(r, k, child)
  BY DEF FirstOn
<1>1. /\ Len(s) \in Nat /\ DOMAIN q = 1..Len(q) /\ Len(q) \in Nat
      /\ \A i \in DOMAIN s : i \in DOMAIN r /\ r[i] = s[i] /\ i \in 1..Len(s)
      /\ \A j \in DOMAIN q \ {1} :
           j - 1 + Len(s) \in DOMAIN r /\ r[j - 1 + Len(s)] = q[j]
      /\ k \in DOMAIN s \/ \E j \in DOMAIN q \ {1} : k = j - 1 + Len(s)
  BY DEF Replaces, Todo
<1>2. CASE k \in DOMAIN s
  <2>1. PICK j \in 1..(k - 1) : s[j][1] \in Waits /\ s[j][2] = child
    BY <1>1, <1>2 DEF FirstOn, WaitsFor
  <2>2. k \in 1..Len(s) /\ j \in 1..Len(s) /\ DOMAIN s = 1..Len(s)
    <3>1. k \in 1..Len(s)
      BY <1>1, <1>2
    <3> QED
      BY <1>1, <3>1
  <2>3. r[j] = s[j]
    BY <1>1, <2>2
  <2> QED
    BY <2>1, <2>3 DEF WaitsFor
<1>3. ASSUME NEW l \in DOMAIN q \ {1}, k = l - 1 + Len(s)
      PROVE  WaitsFor(r, k, child)
  <2>1. q[l] = r[k]
    BY <1>1, <1>3
  <2>2. PICK j \in 1..(l - 1) : q[j][1] \in Waits /\ q[j][2] = child
    BY <2>1, <1>3 DEF FirstOn, WaitsFor
  <2>3. CASE j # 1
    <3>1. j \in DOMAIN q \ {1} /\ j - 1 + Len(s) \in 1..(k - 1)
      BY <1>1, <1>3, <2>3
    <3>2. r[j - 1 + Len(s)] = q[j]
      BY <1>1, <3>1
    <3> QED
      BY <2>2, <3>1, <3>2 DEF WaitsFor
  <2>4. CASE j = 1
    <3>1. r[k][2] \in Parents
      BY <2>1, <1>3 DEF ParentsOnly
    <3>2. PICK m \in DOMAIN s : s[m][1] \in Waits /\ s[m][2] = child
      BY <2>2, <2>4, <3>1
    <3>3. m \in 1..Len(s) /\ r[m] = s[m] /\ m \in 1..(k - 1)
      BY <1>1, <1>3, <3>2
    <3> QED
      BY <3>2, <3>3 DEF WaitsFor
  <2> QED
    BY <2>3, <2>4
<1> QED
  BY <1>1, <1>2, <1>3

(* Children are objects the application holds, other than the connection.  *)
LEMMA KidsAlive ==
  ASSUME TypeOK, NEW o \in Parents
  PROVE  Kids[o] \subseteq alive \ {Conn} /\ Kids[o] \subseteq Objects
BY DEF Kids, LiveChildren, TypeOK

(* Once other calls than creations are made, no object gets a child.       *)
LEMMA KidsShrink ==
  ASSUME SetupFirst, TypeInv, SetupDone, calls > 0, Next
  PROVE  \A o \in Parents : Kids'[o] \subseteq Kids[o]
<1> DEFINE Same == UNCHANGED <<mSessions, mConsumers, mProducers, parent>>
                   /\ alive' \subseteq alive
<1>1. ASSUME NEW t \in Threads, ThreadStep(t)
      PROVE  Same
  <2>1. todo[t] # <<>> /\ op[t][1] # "create"
    BY <1>1 DEF ThreadStep, SetupDone
  <2>2. Head(todo[t])[1] # "register"
    <3>1. Head(todo[t]) = todo[t][1] /\ 1 \in DOMAIN todo[t]
      BY <2>1, HeadTypes
    <3> QED
      BY <2>1, <3>1 DEF SetupDone
  <2> QED
    BY <1>1, <2>2 DEF ThreadStep, Call, LockParent, AddClose, Await, SetState, pointers
<1>2. ASSUME NEW t, NEW o, NEW p, NEW checked, Create(t, o, p, checked)
      PROVE  FALSE
  BY <1>2 DEF Create
<1>3. ASSUME NEW t, NEW what, NEW o,
             StartStop(t, what, o) \/ CloseObject(t, o) \/ Destroy(t, o)
      PROVE  Same
  BY <1>3 DEF StartStop, CloseObject, Destroy, pointers
<1>4. ContainerStep \/ (\E o \in Objects : OnClose(o)) \/ Reconnect => Same
  BY DEF ContainerStep, OnCloseEnd, OnOpen, DrainFinish, DrainThrows, OnClose, Reconnect,
         pointers
<1>5. Same
  BY <1>1, <1>2, <1>3, <1>4, NextSteps
<1>6. ASSUME NEW o \in Parents
      PROVE  LiveChildren(o)' \subseteq LiveChildren(o)
  BY <1>5 DEF LiveChildren
<1> QED
  BY <1>6 DEF Kids

(* The locked part of close() waits for every child it has.                *)
LEMMA CloseLockedFirst ==
  ASSUME TypeOK, SessionsOfConn, NEW o \in Parents, NEW links
  PROVE  FirstOn(CloseLocked(o), Kids, links)
<1> DEFINE s == CloseLocked(o)
           n == Len(Closed(o))
<1>1. /\ n \in Nat /\ DOMAIN s = 1..(n + 2) /\ DOMAIN Closed(o) = 1..n
      /\ \A i \in 1..n : s[i] = <<"close", Closed(o)[i]>>
      /\ s[n + 1] = <<"addClose", o>>
      /\ s[n + 2] = <<"awaitClosed", o>>
  BY CloseLockedTypes
<1>2. \A child \in Kids[o] : \E i \in 1..n : Closed(o)[i] = child
  <2>1. CASE o = Conn
    <3>1. Conn \notin Sessions
      BY TreeAssumption
    <3> QED
      BY <1>1, <2>1, <3>1 DEF Kids, LiveChildren, Closed, Range
  <2>2. CASE o # Conn
    <3>1. o \in Sessions /\ o # NoObject
      BY <2>2, TreeAssumption DEF Parents, Objects
    <3> SUFFICES ASSUME NEW child \in Kids[o]
                 PROVE  \E i \in DOMAIN Closed(o) : Closed(o)[i] = child
      BY <1>1
    <3>2. parent[child] = o /\ (\/ child \in Range(mSessions)
                                \/ child \in Range(mConsumers[o])
                                \/ child \in Range(mProducers[o]))
      BY DEF Kids, LiveChildren
    <3>3. child \notin Range(mSessions)
      <4>1. mSessions \in Seq(Sessions)
        BY DEF TypeOK
      <4>2. child \in Range(mSessions) => child \in Sessions
        BY <4>1 DEF Range
      <4> QED
        BY <2>2, <3>1, <3>2, <4>2 DEF SessionsOfConn
    <3> DEFINE a == mConsumers[o]
               b == mProducers[o]
    <3>4. a \in Seq(Consumers) /\ b \in Seq(Producers) /\ Closed(o) = a \o b
      BY <2>2, <3>1 DEF TypeOK, Closed
    <3>5. child \in Range(a) \/ child \in Range(b)
      BY <3>2, <3>3
    <3> HIDE DEF a, b
    <3>6. /\ \A i \in DOMAIN a : i \in DOMAIN (a \o b) /\ (a \o b)[i] = a[i]
          /\ \A i \in DOMAIN b : i + Len(a) \in DOMAIN (a \o b) /\ (a \o b)[i + Len(a)] = b[i]
      BY <3>4
    <3> QED
      BY <3>4, <3>5, <3>6 DEF Range
  <2> QED
    BY <2>1, <2>2
<1> HIDE DEF s, n
<1>3. ASSUME NEW k \in DOMAIN s, s[k][1] = "addClose", NEW child \in Kids[s[k][2]]
      PROVE  WaitsFor(s, k, child)
  <2>1. k = n + 1 /\ s[k][2] = o
    <3>1. k \in 1..n \/ k = n + 1 \/ k = n + 2
      BY <1>1
    <3>2. k \in 1..n => s[k][1] = "close"
      BY <1>1
    <3>3. s[n + 2][1] = "awaitClosed" /\ s[n + 1][2] = o
      BY <1>1
    <3> QED
      BY <1>3, <3>1, <3>2, <3>3
  <2>2. PICK i \in 1..n : Closed(o)[i] = child
    BY <1>2, <1>3, <2>1
  <2>3. s[i][1] \in Waits /\ s[i][2] = child
    BY <1>1, <2>2 DEF Waits
  <2>4. i \in 1..(k - 1)
    BY <1>1, <2>1
  <2> QED
    BY <2>3, <2>4 DEF WaitsFor
<1> QED
  BY <1>3 DEF FirstOn, s

(* The inductive invariant.                                                *)
TreeInv ==
  /\ TypeInv
  /\ Confirmed
  /\ SessionsOfConn
  /\ SetupDone
  /\ ChildrenFirst
  /\ ChildrenCloseFirst

(* While objects are only created, nothing is asked to close and nothing   *)
(* is about to be.                                                         *)
LEMMA NothingAsked ==
  ASSUME SetupFirst, TypeInv, SetupDone, calls = 0, Next
  PROVE  asked' = {} /\ \A t \in Threads : \A k \in DOMAIN todo'[t] :
                          todo'[t][k][1] # "addClose"
<1> DEFINE NoAsk(q) == \A k \in DOMAIN q : q[k][1] # "addClose"
<1>0. /\ asked = {} /\ todo \in [Threads -> Todo]
      /\ \A t \in Threads : OnlyCreates(todo[t]) /\ NoAsk(todo[t])
  BY DEF SetupDone, OnlyCreates, CreatingSteps, TypeInv, TypeOK, Todo
<1>1. ASSUME NEW t \in Threads, ThreadStep(t)
      PROVE  asked' = {} /\ \A u \in Threads : NoAsk(todo'[u])
  <2>1. todo[t] # <<>> /\ Head(todo[t]) = todo[t][1] /\ 1 \in DOMAIN todo[t]
    BY <1>1, HeadTypes DEF ThreadStep
  <2>2. Head(todo[t])[1] \in CreatingSteps
    BY <1>0, <2>1 DEF OnlyCreates
  <2>3. Continue(t, <<>>) /\ asked' = asked
    BY <1>1, <2>2 DEF ThreadStep, CreatingSteps, Await, Register
  <2>4. /\ todo'[t] = <<>> \o Tail(todo[t])
        /\ \A u \in Threads : u # t => todo'[u] = todo[u]
    BY <2>1, <2>3, ContinueTypes, NothingMore
  <2>5. Replaces(todo[t], <<>>, <<>> \o Tail(todo[t]))
    BY <1>0, <2>1, NothingMore, Unfolding
  <2> DEFINE q == todo[t]
             r == todo'[t]
  <2>6. Replaces(q, <<>>, r) /\ NoAsk(q)
    BY <1>0, <2>4, <2>5
  <2> HIDE DEF q, r
  <2>7. NoAsk(r)
    BY <2>6 DEF Replaces
  <2> QED
    BY <1>0, <2>3, <2>4, <2>7 DEF r
<1>2. ASSUME NEW t \in Threads, NEW what, NEW o \in Objects, NEW s, NoAsk(s),
             Begin(t, what, o, s), asked' = asked
      PROVE  asked' = {} /\ \A u \in Threads : NoAsk(todo'[u])
  <2>1. todo' = [todo EXCEPT ![t] = s]
    BY <1>2 DEF Begin
  <2>2. \A u \in Threads : todo'[u] = todo[u] \/ todo'[u] = s
    BY <1>0, <2>1
  <2> QED
    BY <1>0, <1>2, <2>2
<1>3. ASSUME NEW t \in Threads, NEW o \in Objects, NEW p, NEW checked,
             Create(t, o, p, checked)
      PROVE  asked' = {} /\ \A u \in Threads : NoAsk(todo'[u])
  <2>1. CASE todo' = todo
    BY <1>0, <1>3, <2>1 DEF Create
  <2>2. CASE Begin(t, "create", o, << <<"awaitOpen", o>>, <<"register", o>> >>)
    <3>1. NoAsk(<< <<"awaitOpen", o>>, <<"register", o>> >>)
      OBVIOUS
    <3>2. asked' = asked
      BY <1>3 DEF Create
    <3> HIDE DEF NoAsk
    <3> QED
      BY <1>2, <2>2, <3>1, <3>2
  <2> QED
    BY <1>3, <2>1, <2>2 DEF Create
<1>4. ASSUME NEW t \in Threads, NEW what \in {"start", "stop"}, NEW o \in Objects,
             StartStop(t, what, o) \/ CloseObject(t, o) \/ Destroy(t, o)
      PROVE  asked' = {} /\ \A u \in Threads : NoAsk(todo'[u])
  <2>1. asked' = asked
    BY <1>4 DEF StartStop, CloseObject, Destroy
  <2>2. NoAsk(<< <<what, o>> >>) /\ NoAsk(<< <<"close", o>> >>)
    OBVIOUS
  <2> DEFINE s == IF Throws("close", o) THEN <<>> ELSE Unfolded("close", o)
  <2>3. NoAsk(s)
    BY UnfoldedTypes DEF TypeInv
  <2>4. \/ Begin(t, what, o, << <<what, o>> >>) \/ Begin(t, "close", o, << <<"close", o>> >>)
        \/ Begin(t, "destroy", o, s)
    BY <1>4 DEF StartStop, CloseObject, Destroy
  <2> HIDE DEF NoAsk, s
  <2> QED
    BY <1>2, <2>1, <2>2, <2>3, <2>4
<1>5. ASSUME \/ ContainerStep
             \/ \E o \in Objects : OnClose(o)
             \/ Reconnect
      PROVE  asked' = {} /\ \A u \in Threads : NoAsk(todo'[u])
  <2>1. UNCHANGED <<todo, asked>>
    BY <1>5 DEF ContainerStep, OnCloseEnd, OnOpen, DrainFinish, DrainThrows, OnClose,
                Reconnect, call
  <2> QED
    BY <1>0, <2>1
<1> QED
  BY <1>1, <1>3, <1>4, <1>5, NextSteps

(* A thread that continues keeps the children first.                       *)
LEMMA FirstContinue ==
  ASSUME TypeInv, ChildrenFirst, Shrinks(Kids, peer, Kids', peer'),
         NEW t \in Threads, todo[t] # <<>>, NEW s, s \in Todo, ParentsOnly(s), Continue(t, s),
         FirstOn(s, Kids', peer'),
         Head(todo[t])[1] \in Waits =>
           \/ peer'[Head(todo[t])[2]] = "closed"
           \/ \A o \in Parents : Head(todo[t])[2] \notin Kids'[o]
           \/ \E m \in DOMAIN s : s[m][1] \in Waits /\ s[m][2] = Head(todo[t])[2]
  PROVE  ChildrenFirst'
<1> DEFINE q == todo[t]
           r == todo'[t]
<1>1. q \in Todo /\ ParentsOnly(q) /\ q # <<>> /\ Head(q) = q[1]
  BY HeadTypes DEF TypeInv, TypeOK, ParentSteps, Todo
<1>2. r = s \o Tail(q) /\ \A u \in Threads : u # t => todo'[u] = todo[u]
  BY ContinueTypes
<1>3. Replaces(q, s, s \o Tail(q))
  BY <1>1, Unfolding
<1>4. FirstOn(q, Kids, peer)
  BY DEF ChildrenFirst
<1>5. FirstOn(q, Kids', peer')
  BY <1>1, <1>4, FirstShrinks
<1>6. FirstOn(r, Kids', peer')
  <2> DEFINE kids == Kids'
             links == peer'
  <2>1. /\ FirstOn(q, kids, links) /\ FirstOn(s, kids, links) /\ Replaces(q, s, r)
        /\ q[1][1] \in Waits =>
             \/ links[q[1][2]] = "closed"
             \/ \A o \in Parents : q[1][2] \notin kids[o]
             \/ \E m \in DOMAIN s : s[m][1] \in Waits /\ s[m][2] = q[1][2]
    BY <1>1, <1>2, <1>3, <1>5
  <2> HIDE DEF q, r, kids, links
  <2>2. FirstOn(r, kids, links)
    BY <1>1, <2>1, FirstUnfolds
  <2> QED
    BY <2>2 DEF kids, links
<1>7. ASSUME NEW u \in Threads, u # t
      PROVE  FirstOn(todo'[u], Kids', peer')
  <2>1. ParentsOnly(todo[u]) /\ FirstOn(todo[u], Kids, peer)
    BY DEF TypeInv, ParentSteps, ChildrenFirst
  <2>2. FirstOn(todo[u], Kids', peer')
    BY <2>1, FirstShrinks
  <2> QED
    BY <1>2, <1>7, <2>2
<1> QED
  BY <1>6, <1>7 DEF ChildrenFirst

(* A thread whose todo is replaced by one without a parent's close.        *)
LEMMA FirstReplaced ==
  ASSUME TypeInv, ChildrenFirst, Shrinks(Kids, peer, Kids', peer'),
         \A t \in Threads :
           todo'[t] = todo[t] \/ \A k \in DOMAIN todo'[t] : todo'[t][k][1] # "addClose"
  PROVE  ChildrenFirst'
<1> SUFFICES ASSUME NEW t \in Threads
             PROVE  FirstOn(todo'[t], Kids', peer')
  BY DEF ChildrenFirst
<1>1. CASE \A k \in DOMAIN todo'[t] : todo'[t][k][1] # "addClose"
  BY <1>1 DEF FirstOn
<1>2. CASE todo'[t] = todo[t]
  <2>1. ParentsOnly(todo[t]) /\ FirstOn(todo[t], Kids, peer)
    BY DEF TypeInv, ParentSteps, ChildrenFirst
  <2>2. FirstOn(todo[t], Kids', peer')
    BY <2>1, FirstShrinks
  <2> QED
    BY <1>2, <2>2
<1> QED
  BY <1>1, <1>2

(* The steps of a thread, once other calls than creations are made.        *)
LEMMA FirstThread ==
  ASSUME TreeInv, Shrinks(Kids, peer, Kids', peer'), TypeOK',
         NEW t \in Threads, ThreadStep(t), calls > 0
  PROVE  ChildrenFirst' /\ ChildrenCloseFirst'
<1> DEFINE step == Head(todo[t])[1]
           o    == Head(todo[t])[2]
<1>0. /\ TypeInv /\ TypeOK /\ Confirmed /\ SessionsOfConn /\ ChildrenFirst
      /\ todo[t] # <<>>
  BY DEF TreeInv, TypeInv, ThreadStep
<1>1. /\ o \in Objects /\ (step \in {"lock", "addClose"} => o \in Parents)
      /\ Head(todo[t]) = todo[t][1] /\ 1 \in DOMAIN todo[t]
  BY <1>0, HeadTypes
<1>2. \/ step \in {"start", "stop", "close"} /\ Call(t, step, o)
      \/ step = "lock" /\ LockParent(t, o)
      \/ step = "addClose" /\ AddClose(t, o)
      \/ step \in {"awaitOpen", "awaitStopped", "awaitClosed"} /\ Await(t, step, o)
      \/ step \in {"setStarted", "setStopped"} /\ SetState(t, step, o)
      \/ step = "register" /\ Register(t, o)
  BY DEF ThreadStep
<1>3. peer[o] = "closed" => peer'[o] = "closed"
  BY <1>1 DEF Shrinks
<1>4. FirstOn(<<>>, Kids', peer')
  BY DEF FirstOn
<1>5. ASSUME asked' = asked
      PROVE  ChildrenCloseFirst'
  <2>1. \A p \in asked : \A child \in Kids[p] : peer[child] = "closed"
    BY <1>0 DEF TreeInv, ChildrenCloseFirst, Kids, TypeOK
  <2>2. \A p \in asked : \A child \in Kids'[p] : peer'[child] = "closed"
    BY <1>0, <2>1 DEF Shrinks, TypeOK
  <2>3. \A p \in asked' : p \in Parents
    BY DEF TypeOK
  <2> QED
    BY <1>5, <2>2, <2>3 DEF ChildrenCloseFirst, Kids
<1> DEFINE Passed(s) ==
      step \in Waits =>
        \/ peer'[o] = "closed"
        \/ \A p \in Parents : o \notin Kids'[p]
        \/ \E m \in DOMAIN s : s[m][1] \in Waits /\ s[m][2] = o
<1>6. ASSUME NEW s, s \in Todo, ParentsOnly(s), Continue(t, s), FirstOn(s, Kids', peer'),
             Passed(s)
      PROVE  ChildrenFirst'
  BY <1>0, <1>6, FirstContinue
<1>7. ASSUME Continue(t, <<>>), Passed(<<>>)
      PROVE  ChildrenFirst'
  BY <1>4, <1>6, <1>7, NothingMore
<1>8. CASE step \in {"start", "stop", "close"} /\ Call(t, step, o)
  <2>1. asked' = asked
    BY <1>8 DEF Call
  <2>2. CASE o \notin alive /\ Continue(t, <<>>)
    <3>1. alive' = alive
      BY <1>8 DEF Call, pointers
    <3>2. \A p \in Parents : o \notin Kids'[p]
      BY <2>2, <3>1 DEF Kids, LiveChildren
    <3>3. Passed(<<>>)
      BY <3>2
    <3> HIDE DEF Passed, step, o
    <3> QED
      BY <1>5, <1>7, <2>1, <2>2, <3>3
  <2>3. CASE Throw(t)
    <3>1. todo' = [todo EXCEPT ![t] = <<>>]
      BY <2>3 DEF Throw
    <3>2. \A u \in Threads : todo'[u] = todo[u] \/ todo'[u] = <<>>
      BY <1>0, <3>1 DEF TypeOK
    <3>3. \A u \in Threads :
            todo'[u] = todo[u] \/ \A k \in DOMAIN todo'[u] : todo'[u][k][1] # "addClose"
      BY <3>2
    <3> QED
      BY <1>0, <1>5, <2>1, <3>3, FirstReplaced
  <2>4. CASE o \in alive /\ Continue(t, Unfolded(step, o))
    <3> DEFINE s == Unfolded(step, o)
    <3>1. /\ s \in Todo /\ ParentsOnly(s)
          /\ \A i \in DOMAIN s : s[i][1] \notin {"addClose", "register"}
      BY <1>0, <1>1, <1>8, UnfoldedTypes
    <3>2. FirstOn(s, Kids', peer')
      BY <3>1 DEF FirstOn
    <3>3. Passed(s)
      <4> SUFFICES ASSUME step = "close"
                   PROVE  \/ peer'[o] = "closed"
                          \/ \A p \in Parents : o \notin Kids'[p]
                          \/ \E m \in DOMAIN s : s[m][1] \in Waits /\ s[m][2] = o
        BY <1>8 DEF Waits
      <4>1. CASE NothingToClose(o) /\ o # Conn
        <5>1. peer[o] = "closed"
          BY <1>0, <1>1, <2>4, <4>1 DEF NothingToClose, Confirmed
        <5> QED
          BY <1>3, <5>1
      <4>2. CASE o = Conn
        BY <4>2 DEF Kids, LiveChildren
      <4>3. CASE ~NothingToClose(o)
        <5>1. \E w \in {"lock", "awaitClosed"} : s = << <<w, o>> >>
          BY <4>3 DEF Unfolded
        <5> HIDE DEF s, o
        <5>2. 1 \in DOMAIN s /\ s[1][1] \in Waits /\ s[1][2] = o
          BY <5>1 DEF Waits
        <5> QED
          BY <5>2
      <4> QED
        BY <4>1, <4>2, <4>3
    <3> HIDE DEF Passed, step, o, s
    <3>4. Continue(t, s)
      BY <2>4 DEF s
    <3> QED
      BY <1>5, <1>6, <2>1, <3>1, <3>2, <3>3, <3>4
  <2> QED
    BY <1>8, <2>2, <2>3, <2>4 DEF Call
<1>9. CASE step = "lock" /\ LockParent(t, o)
  <2> DEFINE s == CloseLocked(o)
             n == Len(Closed(o))
  <2>1. /\ s \in Todo /\ ParentsOnly(s) /\ n \in Nat /\ DOMAIN s = 1..(n + 2)
        /\ s[n + 2] = <<"awaitClosed", o>>
    BY <1>0, <1>1, <1>9, CloseLockedTypes
  <2>2. Continue(t, s) /\ asked' = asked /\ UNCHANGED <<pointers, proton>>
    BY <1>9 DEF LockParent
  <2>3. FirstOn(s, Kids, peer')
    BY <1>0, <1>1, <1>9, CloseLockedFirst
  <2>4. Kids' = Kids
    BY <2>2 DEF Kids, LiveChildren, pointers
  <2>5. Passed(s)
    <3> HIDE DEF s, n, o
    <3>1. n + 2 \in DOMAIN s /\ s[n + 2][1] \in Waits /\ s[n + 2][2] = o
      BY <2>1 DEF Waits
    <3> QED
      BY <3>1
  <2> HIDE DEF Passed, step, o, s
  <2> QED
    BY <1>5, <1>6, <2>1, <2>2, <2>3, <2>4, <2>5
<1>10. CASE step = "addClose" /\ AddClose(t, o)
  <2>1. asked' = asked \cup {o} /\ Continue(t, <<>>)
    BY <1>10 DEF AddClose
  <2>2. Passed(<<>>)
    BY <1>10 DEF Waits
  <2>3. ChildrenFirst'
    BY <1>7, <2>1, <2>2
  <2>4. \A child \in Kids[o] : peer[child] = "closed"
    <3>1. FirstOn(todo[t], Kids, peer)
      BY <1>0 DEF ChildrenFirst
    <3>2. \A child \in Kids[o] : peer[child] = "closed" \/ WaitsFor(todo[t], 1, child)
      BY <1>1, <1>10, <3>1 DEF FirstOn
    <3>3. \A child : ~WaitsFor(todo[t], 1, child)
      BY DEF WaitsFor
    <3> QED
      BY <3>2, <3>3
  <2>5. \A p \in asked : \A child \in Kids[p] : peer[child] = "closed"
    BY <1>0 DEF TreeInv, ChildrenCloseFirst, Kids, TypeOK
  <2>6. asked' \subseteq Parents
    BY DEF TypeOK
  <2> HIDE DEF o, step, Passed
  <2>7. \A p \in asked' : \A child \in Kids'[p] : peer'[child] = "closed"
    BY <2>1, <2>4, <2>5, <2>6 DEF Shrinks
  <2>8. ChildrenCloseFirst'
    BY <2>6, <2>7 DEF ChildrenCloseFirst, Kids
  <2> QED
    BY <2>3, <2>8
<1>11. CASE step \in {"awaitOpen", "awaitStopped", "awaitClosed"} /\ Await(t, step, o)
  <2>1. Continue(t, <<>>) /\ asked' = asked
    BY <1>11 DEF Await
  <2>2. Passed(<<>>)
    <3>1. step = "awaitClosed" => mState[o] = "CLOSED"
      BY <1>11 DEF Await
    <3>2. step = "awaitClosed" => peer'[o] = "closed"
      BY <1>0, <1>1, <1>3, <3>1 DEF Confirmed
    <3> QED
      BY <1>11, <3>2 DEF Waits
  <2> QED
    BY <1>5, <1>7, <2>1, <2>2
<1>12. CASE \/ step \in {"setStarted", "setStopped"} /\ SetState(t, step, o)
            \/ step = "register" /\ Register(t, o)
  <2>1. Continue(t, <<>>) /\ asked' = asked
    BY <1>12 DEF SetState, Register
  <2>2. Passed(<<>>)
    BY <1>12 DEF Waits
  <2> QED
    BY <1>5, <1>7, <2>1, <2>2
<1> QED
  BY <1>2, <1>8, <1>9, <1>10, <1>11, <1>12

(* Every step keeps the children first.                                    *)
LEMMA ChildrenFirstKept ==
  ASSUME SetupFirst, TreeInv, TypeInv', ClosedStays, Next
  PROVE  ChildrenFirst' /\ ChildrenCloseFirst'
<1>0. TypeInv /\ TypeOK /\ TypeOK' /\ SetupDone /\ ChildrenFirst /\ calls \in Nat
  BY DEF TreeInv, TypeInv, TypeOK
<1>1. CASE calls = 0
  <2>1. asked' = {} /\ \A t \in Threads : \A k \in DOMAIN todo'[t] :
                         todo'[t][k][1] # "addClose"
    BY <1>0, <1>1, NothingAsked
  <2> QED
    BY <2>1 DEF ChildrenFirst, FirstOn, ChildrenCloseFirst
<1>2. CASE calls > 0
  <2>1. \A o \in Parents : Kids'[o] \subseteq Kids[o]
    BY <1>0, <1>2, KidsShrink
  <2>2. \A o \in Parents : Kids[o] \subseteq Objects
    BY <1>0, KidsAlive
  <2>3. Shrinks(Kids, peer, Kids', peer')
    BY <2>1, <2>2 DEF Shrinks, ClosedStays
  <2>4. ASSUME NEW t \in Threads, ThreadStep(t)
        PROVE  ChildrenFirst' /\ ChildrenCloseFirst'
    BY <1>0, <1>2, <2>3, <2>4, FirstThread
  <2>5. ASSUME asked' = asked,
               \A t \in Threads :
                 todo'[t] = todo[t]
                   \/ \A k \in DOMAIN todo'[t] : todo'[t][k][1] # "addClose"
        PROVE  ChildrenFirst' /\ ChildrenCloseFirst'
    <3>1. ChildrenFirst'
      BY <1>0, <2>3, <2>5, FirstReplaced
    <3>2. asked \subseteq Parents
      BY <1>0 DEF TypeOK
    <3>3. \A p \in asked : \A child \in Kids[p] : peer[child] = "closed"
      BY <3>2 DEF TreeInv, ChildrenCloseFirst, Kids
    <3>4. \A p \in asked : \A child \in Kids'[p] : peer'[child] = "closed"
      BY <2>3, <3>2, <3>3 DEF Shrinks
    <3>5. ChildrenCloseFirst'
      BY <2>5, <3>2, <3>4 DEF ChildrenCloseFirst, Kids
    <3> QED
      BY <3>1, <3>5
  <2>6. ASSUME NEW t \in Threads, NEW o, NEW p, NEW checked, Create(t, o, p, checked)
        PROVE  FALSE
    BY <1>2, <2>6 DEF Create
  <2>7. ASSUME NEW t \in Threads, NEW what \in {"start", "stop"}, NEW o \in Objects,
               StartStop(t, what, o) \/ CloseObject(t, o) \/ Destroy(t, o)
        PROVE  ChildrenFirst' /\ ChildrenCloseFirst'
    <3> DEFINE NoAsk(q) == \A k \in DOMAIN q : q[k][1] # "addClose"
               s == IF Throws("close", o) THEN <<>> ELSE Unfolded("close", o)
    <3>1. asked' = asked
      BY <2>7 DEF StartStop, CloseObject, Destroy
    <3>2. NoAsk(<< <<what, o>> >>) /\ NoAsk(<< <<"close", o>> >>)
      OBVIOUS
    <3>3. NoAsk(s)
      BY <1>0, UnfoldedTypes
    <3>4. \/ todo' = [todo EXCEPT ![t] = << <<what, o>> >>]
          \/ todo' = [todo EXCEPT ![t] = << <<"close", o>> >>]
          \/ todo' = [todo EXCEPT ![t] = s]
      BY <2>7 DEF StartStop, CloseObject, Destroy, Begin
    <3> HIDE DEF NoAsk, s
    <3>5. \E q : NoAsk(q) /\ todo' = [todo EXCEPT ![t] = q]
      BY <3>2, <3>3, <3>4
    <3>6. \A u \in Threads : todo'[u] = todo[u] \/ NoAsk(todo'[u])
      BY <1>0, <3>5 DEF TypeOK
    <3> QED
      BY <2>5, <3>1, <3>6 DEF NoAsk
  <2>8. ASSUME \/ ContainerStep
               \/ \E o \in Objects : OnClose(o)
               \/ Reconnect
        PROVE  ChildrenFirst' /\ ChildrenCloseFirst'
    <3>1. UNCHANGED <<todo, asked>>
      BY <2>8 DEF ContainerStep, OnCloseEnd, OnOpen, DrainFinish, DrainThrows, OnClose,
                  Reconnect, call
    <3> QED
      BY <2>5, <3>1
  <2> QED
    BY <2>4, <2>6, <2>7, <2>8, NextSteps
<1> QED
  BY <1>0, <1>1, <1>2

(* A parent's close is asked for only when the broker has confirmed the    *)
(* close of every child the application holds: for every tree, every       *)
(* number of closing threads and every order of calls, exceptions,         *)
(* reconnects and unasked closes.                                          *)
THEOREM ChildrenAreClosedFirst ==
  ASSUME SetupFirst
  PROVE  Spec => []ChildrenCloseFirst
<1>1. Init /\ TypeInv => TreeInv
  <2> SUFFICES ASSUME Init, TypeInv
               PROVE  TreeInv
    OBVIOUS
  <2>1. Confirmed
    BY DEF Init, Confirmed
  <2>2. SessionsOfConn
    BY DEF Init, SessionsOfConn, Objects
  <2> DEFINE s == << <<"awaitOpen", Conn>> >>
  <2>3. OnlyCreates(s) /\ OnlyCreates(<<>>)
    BY DEF OnlyCreates, CreatingSteps
  <2>4. todo = [t \in Threads |-> IF t = Opener THEN s ELSE <<>>]
    BY DEF Init
  <2> HIDE DEF s
  <2>5. \A t \in Threads : OnlyCreates(todo[t])
    BY <2>3, <2>4
  <2>6. calls = 0 /\ asked = {} /\ op = [t \in Threads |-> <<"create", Conn>>]
    BY DEF Init
  <2>7. SetupDone
    BY <2>5, <2>6 DEF SetupDone
  <2>8. ChildrenFirst
    BY <2>5 DEF ChildrenFirst, FirstOn, OnlyCreates, CreatingSteps
  <2>9. ChildrenCloseFirst
    BY <2>6 DEF ChildrenCloseFirst
  <2> QED
    BY <2>1, <2>2, <2>7, <2>8, <2>9 DEF TreeInv
<1>2. TreeInv /\ TypeInv' /\ [Next]_vars => TreeInv'
  <2> SUFFICES ASSUME TreeInv, TypeInv', [Next]_vars
               PROVE  TreeInv'
    OBVIOUS
  <2>1. CASE Next
    <3>1. Confirmed' /\ ClosedStays
      BY <2>1, ConfirmedKept DEF TreeInv
    <3>2. SessionsOfConn'
      BY <2>1, SessionsOfConnKept DEF TreeInv
    <3>3. SetupDone'
      BY <2>1, SetupKept DEF TreeInv
    <3>4. ChildrenFirst' /\ ChildrenCloseFirst'
      BY <2>1, <3>1, ChildrenFirstKept
    <3> QED
      BY <3>1, <3>2, <3>3, <3>4 DEF TreeInv
  <2>2. CASE UNCHANGED vars
    BY <2>2 DEF TreeInv, Confirmed, SessionsOfConn, SetupDone, OnlyCreates, ChildrenFirst, Kids,
                FirstOn, ChildrenCloseFirst, LiveChildren, vars, fields, pointers, call, proton
  <2> QED
    BY <2>1, <2>2
<1>3. TreeInv => ChildrenCloseFirst
  BY DEF TreeInv
<1> QED
  BY <1>1, <1>2, <1>3, TypeInvariant, PTL DEF Spec

=============================================================================
