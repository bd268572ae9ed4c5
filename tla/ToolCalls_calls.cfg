SPECIFICATION Spec
CONSTANTS
  Ids = {i1, i2}
  NoId = NoId
  Unaimed = Unaimed
  MaxTries = 3
  MaxRenames = 3
INVARIANTS
  RepeatsOnlyLost
  HintsHold
  NothingSilentlyLost
  TargetAsNamed
