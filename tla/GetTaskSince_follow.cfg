SPECIFICATION FairSinceSpec
CONSTANTS
  NoCall = NoCall
  Horizon = 3
  MaxLimit = 3
  Limits = {2, 3, 4}
  Wanted <- Together
INVARIANTS
  UnchangedIsHeld
  NothingMissed
PROPERTIES
  CatchesUp
