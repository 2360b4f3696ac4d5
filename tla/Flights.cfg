SPECIFICATION FairSpec
CONSTANTS
    p1 = p1
    p2 = p2
    c1 = c1
    c2 = c2
    f1 = f1
    f2 = f2
    f3 = f3
    Callers = {p1, p2}
    Codes = {c1, c2}
    Flights = {f1, f2, f3}
    NoFlight = NoFlight
    NoCode = NoCode
    MaxInFlight = 1
    MaxFaults = 2
INVARIANTS TypeOK OneCallPerCode
PROPERTIES CallersAnswered CodesRecover ImplementsSharedCalls
