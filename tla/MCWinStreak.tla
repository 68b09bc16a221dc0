---------------------------- MODULE MCWinStreak -----------------------------
EXTENDS WinStreak, TLC
CONSTANTS a1, a2, h1, h2, s, m1, m2, m3, home, draw, away

\* The same outcome twice on one match, a hedge on the second, a single bet on the third.
MCOn == a1 :> m1 @@ a2 :> m1 @@ h1 :> m2 @@ h2 :> m2 @@ s :> m3
MCPick == a1 :> home @@ a2 :> home @@ h1 :> home @@ h2 :> away @@ s :> home

TwiceSymmetry == Permutations({a1, a2})
=============================================================================
