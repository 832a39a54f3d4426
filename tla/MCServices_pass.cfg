SPECIFICATION Spec
CHECK_DEADLOCK FALSE
CONSTANTS
  Threads = {1, 2}
  MaxFormats = 4
  MaxChains = 3
  InitsWrite = FALSE
  TimeFirst = FALSE
  Filtered = {"f"}
  Exact = {"e"}
  Explicit = {"x"}
  Remote = {1, 2}
  MaxDepth = 2
  MaxCalls = 2
  MaxResults = 2
INVARIANTS PathsAreFound OneOfEach RequestsAreOwn ResultsAreOwn
PROPERTY PackagesAreFound
