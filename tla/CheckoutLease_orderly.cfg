SPECIFICATION Spec
CONSTANTS
  Agent = {a1, a2}
  Call = {c1, c2}
  Card = {k1, k2}
  Name = {uuid, short}
  ProjectNamed = {TRUE, FALSE}
  Contended = FALSE
  Parallel = TRUE
  MaxToken = 2
SYMMETRY Interchangeable
INVARIANTS LeaseStaysReleasable ReleasedForgotten StampOfLastCheckout
