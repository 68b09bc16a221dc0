------------------------------ MODULE MCRewards ------------------------------
(* The rewards, and beside them the functions of Formulas: in a behaviour either  *)
(* the requests run, or one function is called.                                   *)
EXTENDS Rewards, Formulas, TLC

Symmetry == Permutations(Calls) \union Permutations(Items)

\* The kinds of reward share no state but the calendar, and no property relates two
\* of them: a behaviour that works on one kind shows all there is to see.
Busy(ops) == \E c \in Calls : call[c].op \in ops
OneKind ==
    Cardinality({k \in {"checkin", "mission", "referral", "bet", "cosmetic"} :
        CASE k = "checkin" -> streak.last # NoDay \/ Busy({"checkin"})
          [] k = "mission" -> complete # {} \/ claimed # {} \/ Busy({"claim"})
          [] k = "referral" -> referrals # {} \/ Busy({"redeem"})
          [] k = "bet" -> bets > 0 \/ bought > 0 \/ Busy({"bet"})
          [] k = "cosmetic" -> owned # {} \/ Busy({"buy", "equip"})}) <= 1

\* Around every tier's limit.
MCProfits == {-500, 0, 70000} \union UNION {{Steps[i] - 1, Steps[i], Steps[i] + 1} : i \in 1..5}
\* Two fields of a job: one that may be 0, one that may not.
MCBound == [maxAttempts |-> <<0, 4>>, recheck |-> <<1, 5>>]
MCDefault == [maxAttempts |-> 3, recheck |-> 2]
MCValues == {-1, 0, 2, 6}

\* Everyone plays everyone, and team 1 also a team that is not drawn yet.
MCPairs == {<<1, 2>>, <<1, 3>>, <<2, 3>>, <<1, 0>>}

NotRequested == [of |-> "requests"]
MCInit == Init /\ answer \in {NoAnswer, NotRequested}
MCNext == \/ answer = NotRequested /\ Next /\ UNCHANGED answer
          \/ FormulasNext /\ UNCHANGED vars
MCSpec == MCInit /\ [][MCNext]_<<vars, answer>>
=============================================================================
