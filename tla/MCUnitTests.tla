---------------------------- MODULE MCUnitTests ----------------------------
(* The texts of the unit tests and what the C++ library reads in them.     *)
EXTENDS UnitTests

Text_(length, hex, ulong) ==
  [length |-> length, hex |-> hex, ulong |-> ulong, uuid |-> FALSE, printed |-> TRUE]

MCReading ==
  "uuid" :> [length |-> 36, hex |-> <<1, 2>>, ulong |-> -1, uuid |-> TRUE, printed |-> TRUE]
  @@ "123456"       :> Text_(6, <<18, 52, 86>>, 123456)
  @@ "12345678"     :> Text_(8, <<18, 52, 86, 120>>, 12345678)
  @@ "01ABCDEF0F3E" :> Text_(12, <<1, 171, 205, 239, 15, 62>>, 1)
  @@ "thirty"       :> Text_(60, [i \in 1..30 |-> IF i < 22 THEN i ELSE i + 1], -1)
  @@ "nonhexstring" :> Text_(12, NotHex, -1)
  @@ "corrid"       :> Text_(6, NotHex, -1)
  @@ "ab13f"        :> Text_(5, NotHex, -1)

MCNumber == "1234" :> 1234 @@ "89" :> 89

MCMinInt == -2147483647 - 1

=============================================================================
