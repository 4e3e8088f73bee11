SPECIFICATION Spec
CONSTANTS
  Descriptions = {"text"}
  Params = {"p", "q"}
  Details = {"string", "integer"}
  Outputs = {"object"}
  t1 = t1
  t2 = t2
  ToolNames = {t1}
  None = None
  Servers = {s1}
  Capabilities = {c1}
  Listings <- TwoSchemas
  Handlers = {h1, h2}
  RowIds = {1, 2}
  MaxReviews = 2
INVARIANTS TypeOK LimboHasClass LimboLeftByApproval DigestOnRecord
SYMMETRY HandlerSymmetry
