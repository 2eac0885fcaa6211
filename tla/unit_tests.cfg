SPECIFICATION Spec
CONSTANTS
  Reading <- MCReading
  ULongMax = 2147483647
  MinInt <- MCMinInt
  MaxInt = 2147483647
  Number <- MCNumber
INVARIANTS
  ExpectationsMet
CHECK_DEADLOCK FALSE
