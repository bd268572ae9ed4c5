SPECIFICATION Spec
CONSTANTS
  Agent = {a1, a2}
  Call = {c1, c2}
  Card = {k1}
  Name = {uuid}
  ProjectNamed = {TRUE}
  Contended = TRUE
  Parallel = FALSE
  MaxToken = 2
SYMMETRY Interchangeable
INVARIANTS LeaseStaysReleasable
