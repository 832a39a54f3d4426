SPECIFICATION Spec
CONSTANTS
    t1 = t1
    t2 = t2
    t3 = t3
    Thread = {t1, t2}
    Obj = {o1}
    NoThread = NoThread
    NoObj = NoObj
    Program <- LookUpPrograms
INVARIANT NoUseAfterFree
CHECK_DEADLOCK FALSE
