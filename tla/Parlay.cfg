SPECIFICATION Spec
CONSTANTS
    Matches = {m1, m2}
    Outcomes = {home, away}
    Parlays = {p1, p2}
    Calls = {c1, c2}
    None = none
    MayCrash = TRUE
    CorrectedMatches = {m1}
CONSTRAINT Bounds
SYMMETRY ParlaySymmetry
INVARIANTS NoParlayForgotten VerdictFollowsResults CreditedIffWon
