SPECIFICATION AccountSpec
CONSTANTS
    Calls = {c1, c2}
    Resets = {r1, r2}
    MaxTokens = 3
    MaxPwd = 3
    TTL = 2
CONSTRAINT OneAtATime
SYMMETRY CallSymmetry
INVARIANTS AccountInv OneHeir
PROPERTY PasswordByRight
CHECK_DEADLOCK FALSE
