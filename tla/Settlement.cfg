SPECIFICATION Spec
CONSTANTS
    Workers = {w1}
    Admins = {a1, a2}
    Preds = {"global", "lobby"}
    Global = {"global"}
    Scores = {"home", "away"}
    Payout <- MCPayout
    Wins <- MCWins
    NoScore = NoScore
    Nobody = Nobody
SYMMETRY CallerSymmetry
CONSTRAINT NotCrossed
INVARIANTS LedgerMatchesPayout OneScorePaid
PROPERTY ImplementsSettleOnce
