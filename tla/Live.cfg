SPECIFICATION FairSpec
CONSTANTS
    i1 = i1
    i2 = i2
    c1 = c1
    Instances = {i1, i2}
    Codes = {c1}
    NoInstance = NoInstance
    Global = Global
    Malformed = Malformed
    WindowDays = 1
    GraceDays = 1
    BatchSize = 1
    MaxDay = 1
    MaxEvents = 2
    MaxFaults = 2
    FaultKinds = {"redis_err", "db_err", "crash", "redis_crash"}
PROPERTIES EventuallyHandled EventuallyPersisted TakeoverHandlesBacklog
