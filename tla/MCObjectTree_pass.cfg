CONSTANTS
    MaxObjects = 3
    Name = {"a", "b"}
    Setup <- PassSetups
SPECIFICATION Spec
CHECK_DEADLOCK FALSE
INVARIANTS ReferencesAreSound TreeIsConsistent NothingIsLeft
