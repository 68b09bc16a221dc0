SPECIFICATION Spec
CONSTANTS
    Calls = {c1, c2}
    Micros = {m1, m2}
    s1 = s1
    s2 = s2
    s3 = s3
    Specials = {s1, s2, s3}
    Slot <- MCSlot
    Pick <- MCPick
    Lobby = {s3}
    Odds = {1, 2}
    MicroOdds = 2
SYMMETRY CallSymmetry
CONSTRAINT OneKind
INVARIANTS LedgerMatchesBets MarketInv
PROPERTY NothingRewritten
CHECK_DEADLOCK FALSE
