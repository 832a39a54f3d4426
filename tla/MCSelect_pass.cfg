CONSTANTS
    Name = {1, 2, 3}
    TypeOf <- MCTypeOf
    Quiet = TRUE
    Setup <- PassSetups
SPECIFICATION FairSpec
CHECK_DEADLOCK FALSE
INVARIANTS EachOnce YieldedIsAsked StoreClaimsAreReturned
PROPERTY SelectEnds
