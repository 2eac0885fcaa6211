-------------------------- MODULE MCConnectionTree --------------------------
(* Instances of ConnectionTree for TLC.                                    *)
EXTENDS ConnectionTree
=============================================================================
