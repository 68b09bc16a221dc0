SPECIFICATION MCSpec
CONSTANTS
    Users = {ana, bo}
    Founder = ana
    Calls = {c1, c2, c3}
    Requests = {r1, r2}
    Points = {1}
    DefaultPoints = 1
    None = none
    Scans = {s1, s2}
    l1 = l1
    l2 = l2
    LobbyOrder <- MCLobbyOrder
    Amount = 300
    MaxMembers = 3
    MaxLoans = 2
SYMMETRY Symmetry
INVARIANTS OwnerIsMember StandingAddsUp LoanFollowsDecision RiskInv
PROPERTY KickedStaysOut
CHECK_DEADLOCK FALSE
