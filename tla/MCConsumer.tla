----------------------------- MODULE MCConsumer -----------------------------
(* Instances of MessageConsumerImpl for TLC.                               *)
EXTENDS MessageConsumerImpl
=============================================================================
