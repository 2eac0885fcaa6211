------------------------------ MODULE Monitor ------------------------------
(***************************************************************************)
(* The mutex and the condition variables that every *Impl class owns       *)
(* (mMutex, mCv and, in the producer, mSendable), as the classes use them: *)
(* std::unique_lock around an operation and cv.wait(lk, predicate) inside. *)
(*                                                                         *)
(* wait(lk, predicate) is the loop                                         *)
(*     check (mutex held) -> block (release and sleep, one atomic step)    *)
(*     -> relock -> check ...                                              *)
(* The predicate is read in one step and the thread goes to sleep in       *)
(* another: whoever changes the predicate's variables without the mutex    *)
(* can do so in between.  A thread sleeps exactly while it is "blocked".   *)
(***************************************************************************)

CONSTANTS
  Threads,     \* the application's threads
  NoThread     \* the owner of a free mutex

ASSUME NoThreadAssumption == NoThread \notin Threads

VARIABLES
  mMutex,      \* the owner of mMutex, or NoThread
  pc           \* where each application thread is

MonitorLabels == {"check", "block", "blocked", "relock", "ready"}

(* The labels at which a thread holds the mutex.                           *)
HoldsLabels == {"check", "block", "ready"}

Goto(t, l) == pc' = [pc EXCEPT ![t] = l]

(* std::unique_lock lk(mMutex)                                             *)
Lock(t, from, to) ==
  /\ pc[t] = from
  /\ mMutex = NoThread
  /\ mMutex' = t
  /\ Goto(t, to)

(* The end of the lock's scope.                                            *)
Unlock(t, from, to) ==
  /\ pc[t] = from
  /\ mMutex' = NoThread
  /\ Goto(t, to)

(* The predicate is evaluated with the mutex held.                         *)
WaitCheck(t, predicate) ==
  /\ pc[t] = "check"
  /\ Goto(t, IF predicate THEN "ready" ELSE "block")
  /\ UNCHANGED mMutex

WaitBlock(t) == Unlock(t, "block", "blocked")

(* A sleeping thread may wake up although nobody notified it.              *)
SpuriousWakeup(t) ==
  /\ pc[t] = "blocked"
  /\ Goto(t, "relock")
  /\ UNCHANGED mMutex

WaitRelock(t) == Lock(t, "relock", "check")

(* notify_one on the condition variable the threads S wait on: one sleeping *)
(* thread wakes up; with none asleep the notification is lost.              *)
NotifyOne(S) ==
  LET asleep == {t \in S : pc[t] = "blocked"}
  IN  /\ \/ /\ asleep = {}
            /\ UNCHANGED pc
         \/ \E t \in asleep : Goto(t, "relock")
      /\ UNCHANGED mMutex

=============================================================================
