----------------------------- MODULE MCProducer -----------------------------
(* Instances of MessageProducerImpl for TLC.                               *)
EXTENDS MessageProducerImpl
=============================================================================
