SPECIFICATION Spec
CONSTANTS
  a1 = a1  a2 = a2  mesh = mesh  relay = relay  p1 = p1  p2 = p2  p3 = p3
  NoDoc = NoDoc  NoPath = NoPath
  Agent = {a1, a2}
  Doc = {mesh, relay}
  Path = {p1, p2, p3}
  Relayed = {relay}
  Place <- MCPlace
  Named <- MCNamed
  Wanted <- MCWanted
  MaxOthers = 1
  MaxLost <- MCMaxLost
INVARIANTS
  TypeOK
  ClaimsTrue
  WrittenOnce
PROPERTIES
  NoBlindOverwrite
  EditLands
CHECK_DEADLOCK FALSE
