SPECIFICATION FairSpec
CONSTANTS
    h1 = h1
    h2 = h2
    c1 = c1
    Handlers = {h1, h2}
    Codes = {c1}
    Never = Never
    Lifetimes = {3, Never}
    Second = 2
    CacheTtl = 2
    Retention = 2
    MaxWait = 2
    MaxQueue = 2
    MaxLinks = 2
    MaxFaults = 2
    FaultKinds = {"cancel", "pool_err", "crash", "redis_crash", "shutdown"}
INVARIANTS TypeOK StaleHasCause OverrunBoundedByWait
PROPERTIES ImplementsServedLinks DeadLinksLeaveCache
