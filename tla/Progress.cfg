SPECIFICATION MCSpec
CONSTANTS
    Workers = {w1}
    Admins = {a1, a2}
    Preds = {}
    Global = {}
    Scores = {"home"}
    Payout <- NoPayout
    Wins <- NoWins
    NoScore = NoScore
    Nobody = Nobody
    Requests = {r1}
    s1 = s1
    s2 = s2
    Sources <- Headlines
    Tempers <- MCTempers
    Limit = 1
    LastDay = 2
    MaxDecisions = 2
INVARIANTS NewsInv
PROPERTIES CallsReturn NewsArrives
CHECK_DEADLOCK FALSE
