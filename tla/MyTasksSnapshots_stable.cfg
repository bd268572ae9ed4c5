SPECIFICATION Spec
CONSTANTS
  NoCall = NoCall  NoRevision = NoRevision  NoSnapshot = NoSnapshot
  a = a  b = b  c = c
  c1 = c1  c2 = c2  k1 = k1  k2 = k2
  all = all  onlyTodo = onlyTodo  bare = bare  s1 = s1  s2 = s2
  Statuses = {s1, s2}
  Ranks = {1, 2, 3}
  Consumers = {c1}
  Calls = {k1, k2}
  Params = {all, onlyTodo, bare}
  Filtering = {onlyTodo}
  Stateless = {bare}
  TodoCap = 1
  Entries = 2
  CacheBytes = 7
  TTL = 1
  ColdFull = FALSE
  MaxRestarts = 1
  Pages <- SizedPages
  Lookups <- Stable
SYMMETRY Interchangeable
INVARIANTS
  HeldIsColdView
  DeltaApplies
  CacheBounded
  NeverAcrossScopes
PROPERTIES
  AnswerIsFresh
CHECK_DEADLOCK FALSE
