SPECIFICATION PagedSpec
CONSTANTS
  r1 = r1
  r2 = r2
  r3 = r3
  r4 = r4
  r5 = r5
  NoRow = NoRow
  Order <- MCOrder
  Above <- MCAbove
  Answers <- MCAnswers
  Slug <- MCSlug
  Weight <- MCWeight
  Budget = 6
  PageSize = 2
  MaxPages = 2
  Slice = 2
  Limits = {0, 2, 3, 9}
  LimitCeiling = 4
  ApiSize = 4
  MaxChanges = 3
INVARIANTS
  MissedOnlyByDeletion
  EveryCommentPlaced
  PathsOpenTheirRow
PROPERTIES
  ReadsRowByRow
CHECK_DEADLOCK FALSE
