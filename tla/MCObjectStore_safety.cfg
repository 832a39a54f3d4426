SPECIFICATION Spec
CONSTANTS
    t1 = t1
    t2 = t2
    t3 = t3
    Thread = {t1, t2, t3}
    Obj = {o1, o2}
    NoThread = NoThread
    NoObj = NoObj
    Program <- SafetyPrograms
CHECK_DEADLOCK FALSE
INVARIANTS RefcountIsExact HeldIsAllocated Lifecycle
PROPERTY NamedObjectSpec
