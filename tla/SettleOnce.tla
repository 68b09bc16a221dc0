----------------------------- MODULE SettleOnce -----------------------------
(***************************************************************************)
(* What settling a match promises, whoever calls it and however often: at  *)
(* most one score is decided at a time, each bet is credited at most once, *)
(* with the payout of the decided score, and reopening the match takes     *)
(* every credit back before another score can be decided.  Once void, it   *)
(* promises nothing more.                                                  *)
(***************************************************************************)
EXTENDS Integers

CONSTANTS
    Preds,     \* the bets on the match
    Scores,    \* the scores it can be settled with
    Payout,    \* Payout[p][s]: points bet p returns under score s
    NoScore    \* nothing is decided

VARIABLES
    decided,   \* the score the match is settled with, or NoScore
    taken,     \* the bets settled under that score
    credit,    \* credit[p]: the net points paid for bet p
    void       \* whether the promise has been given up

Init ==
    /\ decided = NoScore
    /\ taken = {}
    /\ credit = [p \in Preds |-> 0]
    /\ void = FALSE

Settle(s, P) ==
    /\ decided = NoScore
    /\ decided' = s
    /\ taken' = P
    /\ credit' = [p \in Preds |-> IF p \in P THEN Payout[p][s] ELSE 0]

Reopen ==
    /\ decided # NoScore
    /\ decided' = NoScore
    /\ taken' = {}
    /\ credit' = [p \in Preds |-> 0]

Next ==
    \/ \E s \in Scores, P \in SUBSET Preds : Settle(s, P)
    \/ Reopen
    \/ void'

Spec == Init /\ [][Next]_<<decided, taken, credit, void>>
=============================================================================
