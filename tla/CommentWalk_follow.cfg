SPECIFICATION FairSpec
CONSTANTS
  NoWalk = NoWalk
  PageSize = 2
  MaxPages = 2
  Limit = 2
  MaxComment = 6
  Standing = 3
  CreatedAt <- Distinct
  Forms = {"uuid", "timestamp"}
INVARIANTS
  NothingSkipped
PROPERTIES
  EverythingShown
