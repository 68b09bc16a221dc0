---------------------------- MODULE MCSideMarkets ----------------------------
EXTENDS SideMarkets, FiniteSets, TLC

CONSTANTS s1, s2, s3

\* Two bets of one user's slot with opposite picks, one of another user.
MCSlot == [b \in Specials |-> IF b = s3 THEN "other" ELSE "user"]
MCPick == [b \in Specials |-> IF b = s1 THEN "YES" ELSE "NO"]
CallSymmetry == Permutations(Calls)

\* The three kinds of market share no state but the requests, and no property
\* relates two of them: a behaviour that works on one kind at a time shows all there
\* is to see.
Touched(rows) ==
    \/ \E b \in rows \intersect Bets : bet[b] # NoBet
    \/ \E c \in Calls : RowsOf(c) \intersect rows # {}
OneKind ==
    Cardinality({k \in {"micro", "special", "duel"} :
        CASE k = "micro" -> ~live \/ Touched(Micros)
          [] k = "special" -> market.status = "RESOLVED" \/ Touched(Specials)
          [] k = "duel" -> duel.status # "PENDING" \/ Touched({"duel"})}) <= 1
=============================================================================
