SPECIFICATION Spec
CONSTANTS
  Call = {c1, c2}
  Agent = {a1, a2}
  NoCall = NoCall
  Nobody = Nobody
  Attempts = 3
  MaxClients = 3
  MaxReads = 1
  MaxCrashes = 1
INVARIANTS
  LateCallsShare
  PublishedIsWhole
PROPERTIES
  ActsAsOne
  EveryCallAnswered
CHECK_DEADLOCK FALSE
