------------------------------- MODULE Credit -------------------------------
(***************************************************************************)
(* What start() and stop() of a consumer promise, without threads, locks,  *)
(* links and drains: messages are delivered on credit, start() lets one    *)
(* window of it out, stop() lets it run down, and the consumer is halted   *)
(* when none is left.  MessageConsumerImpl implements it.                  *)
(***************************************************************************)
EXTENDS Integers

CONSTANTS
  Window     \* the credit start() adds

VARIABLES
  phase,     \* halted, flowing (from start() to stop()) or halting
  credit,    \* credit out, or on its way to the broker
  delivered  \* messages delivered

vars == <<phase, credit, delivered>>

Init ==
  /\ phase = "halted"
  /\ credit = 0
  /\ delivered = 0

(* start(); on a link that is closed it grants nothing.                    *)
Start ==
  /\ phase = "halted"
  /\ phase' = "flowing"
  /\ credit = 0
  /\ credit' \in {0, Window}
  /\ UNCHANGED delivered

(* A message.  Its credit is given back, but not for ever once stop() has  *)
(* been called.                                                            *)
Deliver ==
  /\ credit > 0
  /\ delivered' = delivered + 1
  /\ \/ credit' = credit
     \/ phase = "halting" /\ credit' = credit - 1
  /\ UNCHANGED phase

(* stop() begins.                                                          *)
Stop ==
  /\ phase = "flowing"
  /\ phase' = "halting"
  /\ UNCHANGED <<credit, delivered>>

(* The broker, or the loss of the link, ends all credit.                   *)
Expire == credit' = 0 /\ UNCHANGED <<phase, delivered>>

(* stop() returns, or throws on a link that is closed.                     *)
Halt ==
  /\ phase \in {"flowing", "halting"}
  /\ phase' = "halted"
  /\ credit = 0
  /\ UNCHANGED <<credit, delivered>>

Next == Start \/ Deliver \/ Stop \/ Expire \/ Halt

Spec == Init /\ [][Next]_vars

=============================================================================
