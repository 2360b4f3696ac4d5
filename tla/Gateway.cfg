SPECIFICATION GateFairSpec
CONSTANTS
    r1 = r1
    r2 = r2
    c1 = c1
    c2 = c2
    f1 = f1
    f2 = f2
    core = core
    Requests = {r1, r2}
    Codes = {c1, c2}
    Linked = {c1}
    Flights = {f1, f2}
    NoLink = NoLink
    NoFlight = NoFlight
    NoCode = NoCode
    MaxInFlight = 1
    MaxEnds = 1
    Loops = {core}
    Strategy = "exponential"
    Jitter = "equal"
    Initial = 2
    MaxDelay = 5
    MaxRetries = 4
    DurationMax = 20
    AttemptValues = 4
INVARIANTS GateTypeOK CreateAnswersHold DeletedOnce ClickPerRedirect SleptFollowsBackoff
PROPERTIES NoAnswerFromThePast RequestsEnd ShutdownEnds
CHECK_DEADLOCK FALSE
