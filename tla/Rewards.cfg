SPECIFICATION MCSpec
CONSTANTS
    Calls = {c1, c2, c3}
    Users = {u1, u2, u3}
    Missions = {m1}
    Items = {i1, i2}
    MaxDay = 4
    MaxStock = 3
    Stakes = {1, 2, 10, 50, 90, 107}
    Odds = {80, 100, 105, 115, 195, 200, 225}
    Goals = {0, 1, 2}
    Profits <- MCProfits
    History = 6
    Pairs <- MCPairs
    Games = 3
    Fields = {"maxAttempts", "recheck"}
    Bound <- MCBound
    Default <- MCDefault
    Values <- MCValues
    Junk = Junk
SYMMETRY Symmetry
CONSTRAINT OneKind
INVARIANTS GuardedAlways GuardedByReads PayoutsFair FunctionsAgree
CHECK_DEADLOCK FALSE
