SPECIFICATION Spec
CONSTANTS
    Instances = {i1}
    Codes = {c1}
    i1 = i1
    c1 = c1
    NoInstance = NoInstance
    Global = Global
    Malformed = Malformed
    WindowDays = 1
    GraceDays = 1
    BatchSize = 1
    MaxDay = 1
    MaxEvents = 2
    MaxFaults = 3
    FaultKinds = {"redis_crash", "redis_err", "crash"}
PROPERTY RehydratedBeforeCounting
