SPECIFICATION FairSpec
CONSTANTS
    Instances = {i1}
    Codes = {c1}
    i1 = i1
    c1 = c1
    NoInstance = NoInstance
    Global = Global
    Malformed = Malformed
    WindowDays = 1
    GraceDays = 0
    BatchSize = 1
    MaxDay = 3
    MaxEvents = 1
    MaxFaults = 0
    FaultKinds = {"crash"}
PROPERTY StaleBucketsCleanedUp
