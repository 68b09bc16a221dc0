SPECIFICATION StreakSpec
CONSTANTS
    a1 = a1
    a2 = a2
    h1 = h1
    h2 = h2
    s = s
    m1 = m1
    m2 = m2
    m3 = m3
    home = home
    draw = draw
    away = away
    Bets = {a1, a2, h1, h2, s}
    Matches = {m1, m2, m3}
    On <- MCOn
    Outcomes = {home, draw, away}
    Pick <- MCPick
    Shielded = {h2}
    Milestones = {2, 3}
    NoHolder = nobody
SYMMETRY TwiceSymmetry
INVARIANTS MilestonePaidOnce StreakShowsRun MilestoneNotSkipped SameScoreSameWallet
