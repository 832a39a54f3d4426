SPECIFICATION Spec
CONSTANTS
  MaxOps = 3
CHECK_DEADLOCK FALSE
INVARIANTS MemoryIsSound ValuesCompare PrimitivesAgree
PROPERTY WrittenIsReadBack
