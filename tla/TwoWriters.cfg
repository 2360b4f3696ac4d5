SPECIFICATION Spec
CONSTANTS
    Instances = {i1, i2}
    Codes = {c1, c2}
    i1 = i1
    i2 = i2
    c1 = c1
    c2 = c2
    NoInstance = NoInstance
    Global = Global
    Malformed = Malformed
    WindowDays = 1
    GraceDays = 1
    BatchSize = 2
    MaxDay = 1
    MaxEvents = 2
    MaxFaults = 2
    FaultKinds = {"lock_loss", "redis_err", "crash", "unlink"}
SYMMETRY Interchangeable
INVARIANTS ExactCount GlobalCoversLinks NoEntryStranded
PROPERTY ImplementsLedger
