SPECIFICATION MCSpec
CONSTANTS
  None = None
  MaxMethods = 2
  MaxFunctions = 3
  Functions <- FunctionsOf
  Classes <- Hierarchy
  Base <- BaseOf
  Implements <- InterfacesOf
  Catalog <- MethodsOf
CHECK_DEADLOCK FALSE
INVARIANTS LookupIsNearest VtablesAreSound
