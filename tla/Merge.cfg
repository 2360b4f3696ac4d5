SPECIFICATION ApiSpec
CONSTANTS
    w1 = w1
    w2 = w2
    c1 = c1
    r1 = r1
    Writers = {w1, w2}
    Codes = {c1}
    Global = Global
    Days = {1, 2}
    MaxClicks = 2
    Readers = {r1}
    Asked = {0, 3}
    Today = 3
    DefaultDays = 1
    MaxDays = 2
SYMMETRY Interchangeable
INVARIANTS TypeOK TotalsNeverBehind
PROPERTIES TotalsFollowDays CommitsAsOneStep DaysWithinTotal
