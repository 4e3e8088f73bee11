SPECIFICATION Spec
CONSTANTS
  None = None
  Requests = {r1}
  Envelopes = {e1}
  Admins = {a1, a2}
  Strangers = {x1}
  Handlers = {h1, h2, h3}
  MaxBudget = 2
INVARIANTS TypeOK Accountable BoundedOverspend
PROPERTIES SettledForGood
SYMMETRY Symmetry
