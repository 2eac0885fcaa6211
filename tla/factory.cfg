SPECIFICATION Spec
CONSTANTS
  Number <- MCNumber
  URLs <- MCURLs
  Users = {"", "u"}
  Passwords = {"", "p"}
  ClientIds = {"", "c"}
  Listeners = {l1}
  MaxCalls = 3
INVARIANTS
  TypeOK
  OptionsTakeEffect
  ThrowsForBadNumbersOnly
  ConnectionsConfigured
CHECK_DEADLOCK FALSE
