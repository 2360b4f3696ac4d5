SPECIFICATION Spec
CONSTANTS
    Instances = {i1, i2}
    Codes = {c1}
    i1 = i1
    i2 = i2
    c1 = c1
    NoInstance = NoInstance
    Global = Global
    Malformed = Malformed
    WindowDays = 1
    GraceDays = 1
    BatchSize = 2
    MaxDay = 2
    MaxEvents = 3
    MaxFaults = 2
    FaultKinds = {"redis_crash", "crash", "db_err"}
INVARIANTS SingleWriter FlushSavesAll
PROPERTY RehydratedBeforeCounting
