---------------------------- MODULE MCSettlement ----------------------------
EXTENDS Settlement, TLC

\* Two scores that give opposite verdicts to the first bet; the second bet
\* loses under the first score and gets its stake back (INSURANCE).
MCPayout == [p \in Preds |-> [s \in Scores |->
    IF p = "global" THEN (IF s = "home" THEN 2 ELSE 0)
    ELSE IF s = "home" THEN 1 ELSE 3]]
MCWins == [p \in Preds |-> [s \in Scores |-> (p = "global") <=> (s = "home")]]

CallerSymmetry == Permutations(Workers) \union Permutations(Admins)

\* Behaviours are followed up to a crossing, behind which nothing is promised.
NotCrossed == crossed = {}
=============================================================================
