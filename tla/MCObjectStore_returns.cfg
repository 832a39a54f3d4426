SPECIFICATION FairSpec
CONSTANTS
    t1 = t1
    t2 = t2
    t3 = t3
    Thread = {t1, t2}
    Obj = {o1, o2}
    NoThread = NoThread
    NoObj = NoObj
    Program <- ReturnPrograms
CHECK_DEADLOCK FALSE
INVARIANT DestructedOnce
PROPERTY CallsReturn
