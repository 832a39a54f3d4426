CONSTANTS
    t1 = t1 t2 = t2 t3 = t3 s1 = s1 s2 = s2 i1 = i1 k1 = k1 k2 = k2 json = json bin = bin
    Thread = {t1, t2, t3}
    Caller = {t1, t2, t3}
    Subscriber = {s1, s2}
    Instance = {i1}
    Key = {k1, k2}
    Format = {json, bin}
    MaxValues = 6
    From = {".", "x"}
    Select = {"a", "b"}
    MaxSubscriptions = 4
    Setup <- PassSetups
SPECIFICATION FairSpec
CHECK_DEADLOCK FALSE
INVARIANTS Converged SharedIsExact SubscriptionsAreSound
PROPERTIES SeenInOrder SubscriberCallsReturn
