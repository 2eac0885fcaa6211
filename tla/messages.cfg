SPECIFICATION Spec
CONSTANTS
  Reading <- MCReading
  ULongMax = 100
  MinInt <- MCMinInt
  Objects = {o1, o2}
  Edits <- MCEdits
  Payloads <- MCPayloads
  Targets <- MCTargets
  Sources <- MCSources
  Parameters <- MCParameters
  Foreign <- MCForeign
  SharedNames = {"shared"}
  DynamicName = "dyn"
  Uuids <- MCUuids
  Explicit <- MCExplicit
  Settings <- MCSettings
  MaxRefs = 3
  MaxCalls = 4
  MaxSends = 2
INVARIANTS
  TypeOK
  SentAsSet
  ReceivedAsSent
  FreshIds
  ReplyCorrelates
  OwnMessagesReadable
SYMMETRY Symmetry
CHECK_DEADLOCK FALSE
