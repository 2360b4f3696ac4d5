SPECIFICATION Spec
CONSTANTS
    Instances = {i1}
    Codes = {c1}
    i1 = i1
    c1 = c1
    NoInstance = NoInstance
    Global = Global
    Malformed = Malformed
    WindowDays = 1
    GraceDays = 0
    BatchSize = 1
    MaxDay = 3
    MaxEvents = 2
    MaxFaults = 3
    FaultKinds = {"redis_err", "db_err", "crash", "redis_crash", "shutdown", "unlink"}
INVARIANTS TypeOK NoOvercount LastClickCoversDays
