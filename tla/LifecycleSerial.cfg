SPECIFICATION Spec
CONSTANTS
  MaxReviews = 3
  Descriptions = {"text"}
  Params = {"p", "q"}
  Details = {"string", "integer"}
  Outputs = {"object"}
  t1 = t1
  t2 = t2
  ToolNames = {t1, t2}
  None = None
  Servers = {s1}
  Capabilities = {c1}
  Listings <- ThreeListings
  Handlers = {h1}
  RowIds = {1}
INVARIANTS LimboTimeBoxed CollisionGate SchemaOnRecord
PROPERTIES  FailClosed
