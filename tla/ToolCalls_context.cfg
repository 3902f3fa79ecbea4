SPECIFICATION Spec
CONSTANTS
  x1 = x1
  x2 = x2
  Contexts = {x1, x2}
  Registry <- Tools
  Unset = Unset
  Exchanges = {e1, e2}
  GinContexts = {g1, g2}
  Requests <- FewRequests
  Current = x1
  Failures <- FewFailures
  LogLevels = {"info", "warn"}
  MaxAbandoned = 1
  None = None
SYMMETRY Symmetry
INVARIANT RunsWhereAnswered
