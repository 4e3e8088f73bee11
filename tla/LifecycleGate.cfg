SPECIFICATION Spec
CONSTANTS
  Descriptions = {"text"}
  Params = {"p", "q"}
  Details = {"string", "integer"}
  Outputs = {"object"}
  t1 = t1
  t2 = t2
  ToolNames = {t1}
  None = None
  Servers = {s1}
  Capabilities = {c1}
  Listings <- ComesAndGoes
  Handlers = {h1, h2}
  RowIds = {1, 2}
  MaxReviews = 3
PROPERTIES ImplementsGate
SYMMETRY HandlerSymmetry
