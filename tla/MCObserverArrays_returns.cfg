SPECIFICATION FairSpec
CONSTANTS
    t1 = t1
    t2 = t2
    t3 = t3
    e1 = e1
    e2 = e2
    e3 = e3
    self = self
    child = child
    v1 = v1
    v2 = v2
    Thread = {t1, t2}
    List = {self}
    Observer = {e1, e2}
    Event = {v1}
    Path <- OneListPath
    ListsOf <- OneListOf
    Ops <- PairOps
    MaxOps <- PairBudget
    MaxArrays = 4
    MaxDepth = 2
    NoObserver = NoObserver
INVARIANT WaitsAreOrdered
PROPERTIES ObserveReturns ReplacedIsFreed
CHECK_DEADLOCK FALSE
