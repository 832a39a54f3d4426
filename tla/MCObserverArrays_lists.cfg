SPECIFICATION Spec
CONSTANTS
    t1 = t1
    t2 = t2
    t3 = t3
    e1 = e1
    e2 = e2
    e3 = e3
    self = self
    child = child
    v1 = v1
    v2 = v2
    Thread = {t1, t2}
    List = {self, child}
    Observer = {e1, e2}
    Event = {v1, v2}
    Path <- TwoListsPath
    ListsOf <- TwoListsOf
    Ops <- ListsOps
    MaxOps <- PairBudget
    MaxArrays = 6
    MaxDepth = 2
    NoObserver = NoObserver
CHECK_DEADLOCK FALSE
INVARIANTS TypeOK RegisteredIsAllocated ListsAreCounted
