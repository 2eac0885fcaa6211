------------------------- MODULE MCDevelopmentTest -------------------------
(* Instance of DevelopmentTest for TLC.                                    *)
EXTENDS DevelopmentTest

ProducersOfTests ==
  <<"p1", "p3", "p5", "p7", "p9", "p11", "p13", "p15", "p17">>
MCProducer(n) == ProducersOfTests[n]
=============================================================================
