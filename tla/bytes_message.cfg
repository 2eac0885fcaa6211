SPECIFICATION Spec
CONSTANTS
  Objects = {o1, o2}
  Types = {"char", "int", "longlong"}
  Strings = {2}
  Buffers = {2}
  MaxWrites = 2
  MaxReads = 3
  MaxCalls = 3
INVARIANTS
  TypeOK
  FollowedReadsReturnWrites
  EOFAtTheEnd
  PositionAtNextValue
  BodyIsWhatWasWritten
CHECK_DEADLOCK FALSE
SYMMETRY Symmetry
