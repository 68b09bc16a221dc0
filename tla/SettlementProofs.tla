-------------------------- MODULE SettlementProofs --------------------------
(***************************************************************************)
(* What Settlement guarantees for every number of workers, administrators, *)
(* bets and scores; and the win streak, for every number of matches.       *)
(***************************************************************************)
EXTENDS Settlement, WinStreak, FiniteSetTheorems, TLAPS

\* No step leaves the types: rows, sums and program counters stay what they are.
LEMMA TypeStep == TypeOK /\ ArgGiven /\ [Next]_vars => TypeOK'
<1> USE ConstantsAssumption
<1> SUFFICES ASSUME TypeOK, ArgGiven, [Next]_vars PROVE TypeOK'
  OBVIOUS
<1> USE DEF TypeOK, ArgGiven, Row, Status, NoBet, NoRows, NoStats, Ended, InFlight, Callers
<1>1. ASSUME NEW p \in Preds, CheckBettable(p) PROVE TypeOK'
  BY <1>1 DEF CheckBettable
<1>2. ASSUME NEW p \in Preds, InsertBet(p) PROVE TypeOK'
  BY <1>2 DEF InsertBet
<1>3. CASE CloseBetting \/ RewriteMatch
  BY <1>3 DEF CloseBetting, RewriteMatch
<1>4. ASSUME NEW c \in Callers, NEW s \in Scores, CallSettle(c, s) PROVE TypeOK'
  BY <1>4 DEF CallSettle
<1>5. ASSUME NEW c \in Callers, CheckSettlement(c) PROVE TypeOK'
  BY <1>5 DEF CheckSettlement
<1>6. ASSUME NEW c \in Callers, UpdateMatch(c) PROVE TypeOK'
  BY <1>6 DEF UpdateMatch
<1>7. ASSUME NEW c \in Callers, SelectBets(c) PROVE TypeOK'
  BY <1>7 DEF SelectBets
<1>8. ASSUME NEW c \in Callers, CommitSettle(c) PROVE TypeOK'
  <2> DEFINE s == arg[c]
  <2>1. s \in Scores
    BY <1>8 DEF SettlementKeyFree, CommitSettle
  <2>2. pred' \in [Preds -> Row]
    BY <1>8, <2>1 DEF SettlementKeyFree, CommitSettle
  <2>3. ledger' \in [Preds -> Int]
    BY <1>8, <2>1 DEF SettlementKeyFree, CommitSettle
  <2>4. stats' \in [Preds -> [count : Int, returned : Int, wins : Int]]
    BY <1>8, <2>1 DEF SettlementKeyFree, CommitSettle, AddStats, StatsOf
  <2> QED
    BY <1>8, <2>1, <2>2, <2>3, <2>4 DEF SettlementKeyFree, CommitSettle
<1>9. ASSUME NEW c \in Callers, SettlementRefused(c) PROVE TypeOK'
  BY <1>9 DEF SettlementRefused, Release
<1>10. ASSUME NEW c \in Callers, NEW s \in Scores, CallResettle(c, s) PROVE TypeOK'
  BY <1>10 DEF CallResettle
<1>11. ASSUME NEW c \in Callers, SelectSettled(c) PROVE TypeOK'
  BY <1>11 DEF SelectSettled
<1>12. ASSUME NEW c \in Callers, CommitReverse(c) PROVE TypeOK'
  <2>2. pred' \in [Preds -> Row]
    BY <1>12 DEF ReversedRow, CommitReverse
  <2>3. ledger' \in [Preds -> Int]
    BY <1>12 DEF ReversedRow, CommitReverse
  <2>4. stats' \in [Preds -> [count : Int, returned : Int, wins : Int]]
    BY <1>12 DEF ReversedRow, CommitReverse, AddStats, Reversal
  <2> QED
    BY <1>12, <2>2, <2>3, <2>4 DEF ReversedRow, CommitReverse, ToReverse
<1>13. ASSUME NEW c \in Callers, Crash(c) PROVE TypeOK'
  BY <1>13 DEF Crash, Release
<1>14. CASE UNCHANGED vars
  BY <1>14 DEF vars
<1> QED
  BY <1>1, <1>2, <1>3, <1>4, <1>5, <1>6, <1>7, <1>8, <1>9, <1>10, <1>11, <1>12,
     <1>13, <1>14 DEF Next, Step

\* A call under way has its score.
LEMMA ArgStep == TypeOK /\ ArgGiven /\ [Next]_vars => ArgGiven'
  BY ConstantsAssumption DEF TypeOK, ArgGiven, Ended, InFlight, Callers, Next, Step, vars,
     CheckBettable, InsertBet, CloseBetting, RewriteMatch, CallSettle, CheckSettlement, UpdateMatch,
     SelectBets, CommitSettle, SettlementRefused, CallResettle, SelectSettled,
     CommitReverse, Crash, Release

\* Every step keeps what holds whatever crosses.
LEMMA RowsStep == RowsSound /\ [Next]_vars => RowsSound'
<1> USE ConstantsAssumption
<1> SUFFICES ASSUME RowsSound, [Next]_vars PROVE RowsSound'
  OBVIOUS
<1>0. TypeOK'
  BY TypeStep DEF RowsSound
<1> USE DEF RowsSound, ArgGiven, LockHeld, UnsettledUnpaid
<1> USE DEF TypeOK, Row, Status, Settled, Unsettled, NoBet, NoStats, Ended, InFlight
<1> DEFINE Bounds == ArgGiven /\ LockHeld /\ UnsettledUnpaid
           Undoers == \A c \in Callers : pc[c] \in {"reverse", "undo"} => c \in Admins
           NoneLeft == settlement # NoScore =>
                           \A p \in Preds : pred[p].status \in Unsettled => p \in missed
\* A step that selects nothing anew and writes no bet misses none.
<1>a. ASSUME UNCHANGED <<pred, seen, settlement, missed>>,
             \A c \in Callers : pc'[c] = "write" => pc[c] = "write"
      PROVE  NoneMissedSoFar' /\ NoneLeft'
  BY <1>a DEF NoneMissedSoFar, ToSettle
<1>1. ASSUME NEW p \in Preds, CheckBettable(p) PROVE RowsSound'
  BY <1>0, <1>1, <1>a DEF CheckBettable
<1>2. ASSUME NEW p \in Preds, InsertBet(p) PROVE RowsSound'
  <2>1. Bounds' /\ Undoers'
    BY <1>0, <1>2 DEF InsertBet
  <2>2. ASSUME NEW q \in Preds, pred'[q].status \in Unsettled
        PROVE  \/ q = p
               \/ pred[q].status \in Unsettled /\ q # p
    BY <1>2, <2>2 DEF InsertBet
  <2>3. NoneLeft'
    BY <1>2, <2>2 DEF InsertBet
  <2>4. NoneMissedSoFar'
    BY <1>2, <2>2 DEF InsertBet, NoneMissedSoFar, ToSettle, SelectedWithout
  <2> QED
    BY <1>0, <2>1, <2>3, <2>4
<1>3. CASE CloseBetting \/ RewriteMatch
  BY <1>0, <1>3, <1>a DEF CloseBetting, RewriteMatch
<1>4. ASSUME NEW c \in Callers, NEW s \in Scores, CallSettle(c, s) \/ CallResettle(c, s)
      PROVE  RowsSound'
  <2>1. CASE CallSettle(c, s)
    BY <1>0, <2>1, <1>a DEF CallSettle
  <2>2. CASE CallResettle(c, s)
    BY <1>0, <2>2, <1>a DEF CallResettle
  <2> QED
    BY <1>4, <2>1, <2>2
<1>5. ASSUME NEW c \in Callers, CheckSettlement(c) \/ UpdateMatch(c) PROVE RowsSound'
  BY <1>0, <1>5, <1>a DEF CheckSettlement, UpdateMatch
<1>6. ASSUME NEW c \in Callers, SelectBets(c) PROVE RowsSound'
  <2>1. Bounds' /\ Undoers'
    BY <1>0, <1>6 DEF SelectBets
  <2>2. NoneLeft'
    BY <1>6 DEF SelectBets
  <2>3. NoneMissedSoFar'
    <3> SUFFICES ASSUME NEW d \in Callers, pc'[d] = "write",
                        NEW p \in Preds, pred[p].status \in Unsettled
                 PROVE  p \in ToSettle(d)'
      BY <1>6 DEF SelectBets, NoneMissedSoFar
    <3>1. d = c
      BY <1>6 DEF SelectBets
    <3> QED
      BY <1>6, <3>1 DEF SelectBets, ToSettle
  <2> QED
    BY <1>0, <2>1, <2>2, <2>3
<1>7. ASSUME NEW c \in Callers, SelectSettled(c) PROVE RowsSound'
  <2>1. Bounds' /\ Undoers'
    BY <1>0, <1>7 DEF SelectSettled
  <2>2. NoneLeft'
    BY <1>7 DEF SelectSettled
  <2>3. NoneMissedSoFar'
    BY <1>7 DEF SelectSettled, NoneMissedSoFar, ToSettle
  <2> QED
    BY <1>0, <2>1, <2>2, <2>3
<1>8. ASSUME NEW c \in Callers, CommitSettle(c) PROVE RowsSound'
  <2>1. arg[c] \in Scores /\ arg[c] # NoScore
    BY <1>8 DEF SettlementKeyFree, CommitSettle
  <2>2. Bounds'
    BY <1>0, <1>8, <2>1 DEF SettlementKeyFree, CommitSettle
  <2>3. Undoers'
    BY <1>8 DEF CommitSettle
  <2>4. \A p \in Preds : pred'[p].status \in Unsettled =>
            pred[p].status \in Unsettled /\ p \notin ToSettle(c)
    BY <1>8, <2>1 DEF CommitSettle
  <2>5. NoneLeft'
    BY <1>8, <2>4 DEF CommitSettle, NoneMissedSoFar
  <2>6. NoneMissedSoFar'
    BY <1>8 DEF CommitSettle, NoneMissedSoFar
  <2> QED
    BY <1>0, <2>2, <2>3, <2>5, <2>6
<1>9. ASSUME NEW c \in Callers, CommitReverse(c) PROVE RowsSound'
  <2>1. UnsettledUnpaid'
    BY <1>0, <1>9 DEF CommitReverse, ReversedRow
  <2>2. ArgGiven' /\ LockHeld'
    BY <1>0, <1>9 DEF CommitReverse
  <2>3. Undoers'
    BY <1>9 DEF CommitReverse
  <2>4. NoneLeft'
    BY <1>9 DEF CommitReverse
  <2>5. NoneMissedSoFar'
    <3> SUFFICES ASSUME NEW d \in Callers, pc'[d] = "write",
                        NEW p \in Preds, pred'[p].status \in Unsettled, p \notin ToSettle(d)'
                 PROVE  p \in missed'
      BY DEF NoneMissedSoFar
    <3>1. d # c /\ pc[d] = "write" /\ p \notin ToSettle(d)
      BY <1>9 DEF CommitReverse, ToSettle
    <3>2. CASE p \in ToReverse(c)
      BY <1>9, <3>1, <3>2 DEF CommitReverse, SelectedWithout
    <3>3. CASE p \notin ToReverse(c)
      BY <1>9, <3>1, <3>3 DEF CommitReverse, NoneMissedSoFar
    <3> QED
      BY <3>2, <3>3
  <2> HIDE DEF TypeOK, ArgGiven, LockHeld, UnsettledUnpaid
  <2> QED
    BY <1>0, <2>1, <2>2, <2>3, <2>4, <2>5
<1>10. ASSUME NEW c \in Callers, SettlementRefused(c) \/ Crash(c) PROVE RowsSound'
  <2>1. CASE SettlementRefused(c)
    <3>1. Bounds' /\ Undoers'
      BY <1>0, <2>1 DEF SettlementRefused, RowInTheWay, RowMissing, Release
    <3>2. NoneLeft' /\ NoneMissedSoFar'
      BY <2>1 DEF SettlementRefused, NoneMissedSoFar, ToSettle
    <3> QED
      BY <1>0, <3>1, <3>2
  <2>2. CASE Crash(c)
    <3>1. Bounds' /\ Undoers'
      BY <1>0, <2>2 DEF Crash, Release
    <3>2. NoneLeft' /\ NoneMissedSoFar'
      BY <2>2 DEF Crash, NoneMissedSoFar, ToSettle
    <3> QED
      BY <1>0, <3>1, <3>2
  <2> QED
    BY <1>10, <2>1, <2>2
<1>11. CASE UNCHANGED vars
  BY <1>0, <1>11, <1>a DEF vars
<1> QED
  BY <1>1, <1>2, <1>3, <1>4, <1>5, <1>6, <1>7, <1>8, <1>9, <1>10, <1>11 DEF Next, Step

\* What has crossed is not forgotten.
LEMMA CrossedStays == [Next]_vars => crossed \subseteq crossed'
<1> SUFFICES ASSUME [Next]_vars PROVE crossed \subseteq crossed'
  OBVIOUS
<1>1. ASSUME NEW c \in Callers, CommitSettle(c) PROVE crossed \subseteq crossed'
  BY <1>1 DEF CommitSettle
<1>2. CASE UNCHANGED crossed
  BY <1>2
<1> QED
  BY <1>1, <1>2
     DEF Next, Step, vars, CheckBettable, InsertBet, CloseBetting, RewriteMatch, CallSettle, CheckSettlement,
         UpdateMatch, SelectBets, SettlementRefused, CallResettle, SelectSettled, CommitReverse, Crash

\* Every step keeps the inductive invariant.
LEMMA InvStep == IInv /\ [Next]_vars => IInv'
<1> USE ConstantsAssumption
<1> SUFFICES ASSUME IInv, [Next]_vars PROVE IInv'
  OBVIOUS
<1>0. RowsSound'
  BY RowsStep DEF IInv
<1>a. CASE crossed' # {}
  BY <1>0, <1>a DEF IInv, LedgerMatchesPayout, StatsMatchBets, OneScorePaid, RowsSound
<1> SUFFICES ASSUME crossed' = {} PROVE IInv'
  BY <1>a
<1>b. crossed = {}
  BY CrossedStays DEF IInv, RowsSound
<1> USE <1>b DEF IInv, RowsSound, ArgGiven, LockHeld, PlacingAbsent, UnsettledUnpaid,
            SettleSelection, ReverseSelection, LedgerMatchesPayout, StatsMatchBets, OneScorePaid
<1> USE DEF TypeOK, Row, Status, Settled, Unsettled, NoBet, NoStats, Ended, InFlight
<1>1. ASSUME NEW p \in Preds, CheckBettable(p) PROVE IInv'
  BY <1>0, <1>1 DEF CheckBettable
<1>2. ASSUME NEW p \in Preds, InsertBet(p) PROVE IInv'
  BY <1>0, <1>2 DEF InsertBet
<1>3. CASE CloseBetting \/ RewriteMatch
  BY <1>0, <1>3 DEF CloseBetting, RewriteMatch
<1>4. ASSUME NEW c \in Callers, NEW s \in Scores, CallSettle(c, s) PROVE IInv'
  BY <1>0, <1>4 DEF CallSettle
<1>5. ASSUME NEW c \in Callers, CheckSettlement(c) PROVE IInv'
  BY <1>0, <1>5 DEF CheckSettlement
<1>6. ASSUME NEW c \in Callers, UpdateMatch(c) PROVE IInv'
  BY <1>0, <1>6 DEF UpdateMatch
<1>7. ASSUME NEW c \in Callers, SelectBets(c) PROVE IInv'
  BY <1>0, <1>7 DEF SelectBets
<1>8. ASSUME NEW c \in Callers, CommitSettle(c) PROVE IInv'
  <2> DEFINE s == arg[c]
             T == ToSettle(c)
             outcome(p) == [status |-> IF Wins[p][s] THEN "WON" ELSE "LOST",
                            payout |-> Payout[p][s]]
  <2>1. s \in Scores /\ s # NoScore
    BY <1>8 DEF SettlementKeyFree, CommitSettle
  <2>2. \A p \in Preds : pred[p].status \notin Settled /\ pred[p].payout = 0
    BY <1>8 DEF SettlementKeyFree, CommitSettle
  <2>3. \A p \in T : p \in Preds /\ pred[p].status \in Unsettled
    BY <1>8 DEF SettlementKeyFree, CommitSettle, ToSettle
  <2>4. \A p \in Preds : pred'[p] = IF p \in T THEN outcome(p) ELSE pred[p]
    BY <1>8 DEF SettlementKeyFree, CommitSettle
  <2>5. \A p \in Preds : outcome(p).status \in Settled /\ outcome(p).payout \in Nat
    BY <2>1
  <2>6. ArgGiven' /\ LockHeld'
    BY <1>8 DEF SettlementKeyFree, CommitSettle
  <2>7. PlacingAbsent'
    <3> SUFFICES ASSUME NEW p \in placing PROVE pred'[p] = NoBet
      BY <1>8 DEF SettlementKeyFree, CommitSettle
    <3>1. p \in Preds /\ pred[p] = NoBet
      OBVIOUS
    <3>2. pred[p].status \notin Unsettled
      BY <3>1
    <3>3. p \notin T
      BY <2>3, <3>2
    <3> QED
      BY <2>4, <3>1, <3>3
  <2>8. UnsettledUnpaid'
    BY <2>2, <2>4, <2>5
  <2>9. SettleSelection'
    BY <1>8 DEF SettlementKeyFree, CommitSettle
  <2>10. ReverseSelection'
    BY <1>8, <1>0 DEF SettlementKeyFree, CommitSettle
  <2>11. LedgerMatchesPayout'
    BY <1>8, <2>1, <2>2, <2>4 DEF SettlementKeyFree, CommitSettle
  <2>12. StatsMatchBets'
    <3> SUFFICES ASSUME NEW p \in Preds
                 PROVE  stats'[p] = IF p \in Global /\ pred'[p].status \in Settled
                                    THEN [count |-> 1, returned |-> pred'[p].payout,
                                          wins |-> IF pred'[p].status = "WON" THEN 1 ELSE 0]
                                    ELSE NoStats
      OBVIOUS
    <3>1. stats[p] = NoStats
      BY <2>2
    <3>2. CASE p \in T \intersect Global
      <4>1. stats'[p] = AddStats(NoStats, StatsOf(p, s))
        BY <1>8, <3>1, <3>2 DEF SettlementKeyFree, CommitSettle
      <4>2. Payout[p][s] \in Nat
        BY <2>1
      <4>3. stats'[p] = [count |-> 1, returned |-> Payout[p][s],
                         wins |-> IF Wins[p][s] THEN 1 ELSE 0]
        BY <4>1, <4>2 DEF AddStats, StatsOf
      <4>4. pred'[p] = outcome(p)
        BY <2>4, <3>2
      <4>5. pred'[p].payout = Payout[p][s] /\ (pred'[p].status = "WON" <=> Wins[p][s])
        BY <4>4
      <4> QED
        BY <2>5, <3>2, <4>3, <4>4, <4>5
    <3>3. CASE p \notin T
      BY <1>8, <2>2, <2>4, <3>1, <3>3 DEF SettlementKeyFree, CommitSettle
    <3>4. CASE p \in T /\ p \notin Global
      BY <1>8, <3>1, <3>4 DEF SettlementKeyFree, CommitSettle
    <3> QED
      BY <3>2, <3>3, <3>4
  <2>13. OneScorePaid'
    <3>1. \A p \in Preds : pred'[p].status \in Settled => pred'[p] = outcome(p)
      BY <2>2, <2>4
    <3>2. settlement' = s
      BY <1>8 DEF CommitSettle
    <3> QED
      BY <1>0, <2>1, <3>1, <3>2
  <2> QED
    BY <1>0, <2>6, <2>7, <2>8, <2>9, <2>10, <2>11, <2>12, <2>13
<1>9. ASSUME NEW c \in Callers, SettlementRefused(c) PROVE IInv'
  BY <1>0, <1>9 DEF SettlementRefused, RowInTheWay, RowMissing, Release
<1>10. ASSUME NEW c \in Callers, NEW s \in Scores, CallResettle(c, s) PROVE IInv'
  BY <1>0, <1>10 DEF CallResettle
<1>11. ASSUME NEW c \in Callers, SelectSettled(c) PROVE IInv'
  BY <1>0, <1>11 DEF SelectSettled
<1>12. ASSUME NEW c \in Callers, CommitReverse(c) PROVE IInv'
  <2> DEFINE T == ToReverse(c)
  <2>1. settlement \in Scores
    BY <1>12 DEF ReversedRow, CommitReverse
  <2>2. T = {p \in Preds : pred[p].status \in Settled} /\ \A p \in T : seen[c][p] = pred[p]
    BY <1>12 DEF ReversedRow, CommitReverse, ToReverse
  <2>3. \A p \in Preds :
           pred'[p] = IF p \in T THEN [status |-> "LOCKED", payout |-> 0] ELSE pred[p]
    BY <1>12 DEF ReversedRow, CommitReverse
  <2>4. \A p \in Preds : pred'[p].status \notin Settled /\ pred'[p].payout = 0
    BY <2>2, <2>3
  <2>5. ArgGiven' /\ LockHeld'
    BY <1>12 DEF ReversedRow, CommitReverse
  <2>6. PlacingAbsent'
    BY <1>12, <2>2, <2>3 DEF ReversedRow, CommitReverse
  <2>7. UnsettledUnpaid'
    BY <2>4
  <2>8. SettleSelection'
    BY <1>12, <2>2, <2>3 DEF ReversedRow, CommitReverse
  <2>9. ReverseSelection'
    BY <1>12, <2>1 DEF ReversedRow, CommitReverse
  <2>10. LedgerMatchesPayout'
    BY <1>12, <2>2, <2>4 DEF ReversedRow, CommitReverse
  <2>11. StatsMatchBets'
    <3> SUFFICES ASSUME NEW p \in Preds PROVE stats'[p] = NoStats
      BY <2>4
    <3>1. CASE p \in T \intersect Global
      <4>1. stats'[p] = AddStats(stats[p], Reversal(pred[p]))
        BY <1>12, <2>2, <3>1 DEF ReversedRow, CommitReverse
      <4>2. stats[p] = [count |-> 1, returned |-> pred[p].payout,
                        wins |-> IF pred[p].status = "WON" THEN 1 ELSE 0]
        BY <2>2, <3>1
      <4>3. pred[p].payout \in Nat
        OBVIOUS
      <4> QED
        BY <4>1, <4>2, <4>3 DEF AddStats, Reversal
    <3>2. CASE p \notin T \/ p \notin Global
      BY <1>12, <2>2, <3>2 DEF ReversedRow, CommitReverse
    <3> QED
      BY <3>1, <3>2
  <2>12. OneScorePaid'
    BY <1>12, <2>4 DEF ReversedRow, CommitReverse
  <2> QED
    BY <1>0, <2>5, <2>6, <2>7, <2>8, <2>9, <2>10, <2>11, <2>12
<1>13. ASSUME NEW c \in Callers, Crash(c) PROVE IInv'
  BY <1>0, <1>13 DEF Crash, Release
<1>14. CASE UNCHANGED vars
  BY <1>0, <1>14 DEF vars
<1> QED
  BY <1>1, <1>2, <1>3, <1>4, <1>5, <1>6, <1>7, <1>8, <1>9, <1>10, <1>11, <1>12,
     <1>13, <1>14 DEF Next, Step

\* The inductive invariant holds in every reachable state: whatever the number
\* of settle jobs and administrators, and wherever they crash.
THEOREM InvariantHolds == Spec => []IInv
<1>1. Init => IInv
  BY ConstantsAssumption DEF Init, IInv, RowsSound, TypeOK, ArgGiven, LockHeld, PlacingAbsent,
     UnsettledUnpaid, NoneMissedSoFar, SettleSelection, ReverseSelection, LedgerMatchesPayout,
     StatsMatchBets, OneScorePaid, Row, Status, Settled, Unsettled, Ended, InFlight,
     NoBet, NoRows, NoStats, Callers
<1>2. IInv /\ [Next]_vars => IInv'
  BY InvStep
<1> QED
  BY <1>1, <1>2, PTL DEF Spec

\* Type correctness needs no assumption on the administrators: no interleaving
\* of settlements and reversals leaves a row, a sum or a caller undefined.
THEOREM TypeCorrect == Spec => []TypeOK
<1>1. Init => TypeOK /\ ArgGiven
  BY ConstantsAssumption DEF Init, TypeOK, ArgGiven, Row, Status, Ended, InFlight,
     NoBet, NoRows, NoStats, Callers
<1> QED
  BY <1>1, ArgStep, TypeStep, PTL DEF Spec

\* A bet is paid once: the net of its SETTLE ledger rows is the payout its row
\* shows, so no race of settlements and no crash pays it twice, unless a settlement
\* came between the two halves of a reversal.
THEOREM LedgerExact == Spec => []LedgerMatchesPayout
<1>1. IInv => LedgerMatchesPayout
  BY DEF IInv
<1> QED
  BY <1>1, InvariantHolds, PTL

\* With one administrator at a time nothing crosses, whatever the settle jobs do: the
\* exception of the theorems is one that two re-settles make.
THEOREM OneAdminCrossesNothing == Spec => []CrossingTakesTwo
<1> DEFINE Sole == \A a, b \in Admins : a = b
           Inv == RowsSound /\ (Sole => crossed = {} /\ KeptOut)
<1>1. Init => Inv
  BY ConstantsAssumption DEF Init, KeptOut, RowsSound, TypeOK, ArgGiven, LockHeld,
     UnsettledUnpaid, NoneMissedSoFar, Row, Status, Settled, Ended, InFlight, NoBet, NoRows, NoStats, Callers
<1>2. Inv /\ [Next]_vars => Inv'
  <2> SUFFICES ASSUME Inv, [Next]_vars PROVE Inv'
    OBVIOUS
  <2>1. RowsSound'
    BY RowsStep
  <2> SUFFICES ASSUME Sole PROVE crossed' = {} /\ KeptOut'
    BY <2>1
  <2> USE ConstantsAssumption DEF RowsSound, TypeOK, KeptOut, Callers
  <2>2. ASSUME NEW c \in Callers, NEW s \in Scores, CallSettle(c, s) \/ CallResettle(c, s)
        PROVE  crossed' = {} /\ KeptOut'
    BY <2>2 DEF CallSettle, CallResettle
  <2>3. ASSUME NEW c \in Callers, CommitSettle(c) PROVE crossed' = {} /\ KeptOut'
    BY <2>3 DEF CommitSettle, SettlementKeyFree
  <2>4. ASSUME NEW c \in Callers, CommitReverse(c) PROVE crossed' = {} /\ KeptOut'
    <3>1. crossed' = {} /\ pc' = [pc EXCEPT ![c] = "check"] /\ pc[c] = "undo"
      BY <2>4 DEF CommitReverse
    <3>2. ASSUME NEW a \in Admins, pc'[a] \in {"reverse", "undo"} PROVE FALSE
      BY <3>1, <3>2
    <3> QED
      BY <3>1, <3>2
  <2>5. ASSUME NEW c \in Callers,
               \/ CheckSettlement(c) \/ UpdateMatch(c) \/ SelectBets(c) \/ SelectSettled(c)
               \/ SettlementRefused(c) \/ Crash(c)
        PROVE  crossed' = {} /\ KeptOut'
    BY <2>5 DEF CheckSettlement, UpdateMatch, SelectBets, SelectSettled, SettlementRefused, Crash
  <2>6. CASE UNCHANGED <<crossed, pc, settlement>>
    BY <2>6
  <2> QED
    BY <2>2, <2>3, <2>4, <2>5, <2>6
       DEF Next, Step, vars, CheckBettable, InsertBet, CloseBetting, RewriteMatch
<1>3. Inv => CrossingTakesTwo
  BY DEF CrossingTakesTwo
<1> QED
  BY <1>1, <1>2, <1>3, PTL DEF Spec

\* The ROI stats agree with the settled GLOBAL bets, with the same exception.
THEOREM StatsExact == Spec => []StatsMatchBets
<1>1. IInv => StatsMatchBets
  BY DEF IInv
<1> QED
  BY <1>1, InvariantHolds, PTL

\* Everything that is paid is explained by the score of the one Settlement row, with
\* the same exception.
THEOREM OneScoreHolds == Spec => []OneScorePaid
<1>1. IInv => OneScorePaid
  BY DEF IInv
<1> QED
  BY <1>1, InvariantHolds, PTL

\* Each step of the callers is a step of SettleOnce on the rows, or leaves the
\* decision, the settled bets and the credits alone.
LEMMA RefinementStep ==
    IInv /\ IInv' /\ [Next]_vars => [Once!Next]_<<settlement, SettledBets, ledger, crossed # {}>>
<1> USE ConstantsAssumption
<1> SUFFICES ASSUME IInv, IInv', [Next]_vars
             PROVE  [Once!Next]_<<settlement, SettledBets, ledger, crossed # {}>>
  OBVIOUS
<1>a. CASE crossed' # {}
  BY <1>a DEF Once!Next
<1> SUFFICES ASSUME crossed' = {}
             PROVE  [Once!Next]_<<settlement, SettledBets, ledger, crossed # {}>>
  BY <1>a
<1>b. crossed = {}
  BY CrossedStays DEF IInv, RowsSound
<1> USE <1>b DEF RowsSound
<1>1. ASSUME NEW c \in Callers, CommitSettle(c)
      PROVE  Once!Next
  <2> DEFINE s == arg[c]
             P == SettledBets'
  <2>1. s \in Scores /\ settlement = NoScore /\ settlement' = s
    BY <1>1 DEF SettlementKeyFree, CommitSettle, IInv, ArgGiven, InFlight
  <2>2. P \in SUBSET Preds
    BY DEF SettledBets
  <2>3. ledger' = [p \in Preds |-> IF p \in P THEN Payout[p][s] ELSE 0]
    <3>1. ASSUME NEW p \in P PROVE ledger'[p] = Payout[p][s]
      <4>1. p \in Preds /\ pred'[p].status \in Settled
        BY DEF SettledBets
      <4>2. pred'[p] = [status |-> IF Wins[p][s] THEN "WON" ELSE "LOST",
                        payout |-> Payout[p][s]]
        <5>1. OneScorePaid'
          BY DEF IInv
        <5> HIDE DEF s
        <5> QED
          BY <2>1, <4>1, <5>1 DEF OneScorePaid
      <4> QED
        BY <4>1, <4>2 DEF IInv, LedgerMatchesPayout
    <3>2. \A p \in Preds \ P : ledger'[p] = 0
      BY DEF SettledBets, IInv, LedgerMatchesPayout, UnsettledUnpaid
    <3>3. ledger' = [p \in Preds |-> ledger'[p]]
      BY DEF IInv, TypeOK
    <3> QED
      BY <3>1, <3>2, <3>3
  <2>4. Once!Settle(s, P)
    BY <2>1, <2>3 DEF Once!Settle
  <2> QED
    BY <2>1, <2>2, <2>4 DEF Once!Next
<1>2. ASSUME NEW c \in Callers, CommitReverse(c)
      PROVE  Once!Next
  <2>1. settlement # NoScore /\ settlement' = NoScore
    BY <1>2 DEF ReversedRow, CommitReverse
  <2>2. \A p \in Preds : pred'[p].status \notin Settled /\ ledger'[p] = 0
    BY <2>1 DEF IInv, OneScorePaid, UnsettledUnpaid, LedgerMatchesPayout
  <2>3. SettledBets' = {}
    BY <2>2 DEF SettledBets
  <2>4. ledger' = [p \in Preds |-> 0]
    BY <2>2 DEF IInv, TypeOK
  <2> QED
    BY <2>1, <2>3, <2>4 DEF Once!Next, Once!Reopen
<1>3. ASSUME NEW p \in Preds, InsertBet(p)
      PROVE  UNCHANGED <<settlement, SettledBets, ledger, crossed>>
  <2>1. pred[p] = NoBet /\ pred' = [pred EXCEPT ![p] = [status |-> "OPEN", payout |-> 0]]
    BY <1>3 DEF InsertBet, IInv, PlacingAbsent
  <2>2. \A q \in Preds : pred'[q].status \in Settled <=> pred[q].status \in Settled
    BY <2>1 DEF IInv, TypeOK, NoBet, Settled
  <2> QED
    BY <1>3, <2>2 DEF InsertBet, SettledBets
<1>4. CASE UNCHANGED <<settlement, pred, ledger, crossed>>
  BY <1>4 DEF SettledBets
<1> QED
  BY <1>1, <1>2, <1>3, <1>4
     DEF Next, Step, vars, CheckBettable, CloseBetting, RewriteMatch, CallSettle, CheckSettlement,
         UpdateMatch, SelectBets, SettlementRefused, CallResettle, SelectSettled, Crash

\* Settlement implements SettleOnce: seen through its rows, any number of settle
\* jobs and administrators settle the match with one score at a time, until a
\* settlement comes between the two halves of a reversal.
THEOREM Refinement == Spec => ImplementsSettleOnce
<1>1. Init => Once!Init
  BY DEF Init, Once!Init, SettledBets, NoRows, NoBet, Settled
<1>2. IInv /\ IInv' /\ [Next]_vars => [Once!Next]_<<settlement, SettledBets, ledger, crossed # {}>>
  BY RefinementStep
<1> QED
  BY <1>1, <1>2, InvariantHolds, PTL DEF Spec, ImplementsSettleOnce, Once!Spec

\* No settled bet changes its verdict or its payout without first being reversed, with
\* the same exception.
THEOREM VerdictsStable == Spec => VerdictsOnlyReversed
<1> DEFINE OnlyReversed ==
        crossed' = {} => \A p \in Preds : pred[p].status \in Settled /\ pred'[p] # pred[p] =>
            pred'[p] = [status |-> "LOCKED", payout |-> 0]
<1>1. IInv /\ [Next]_vars => [OnlyReversed]_vars
  <2> SUFFICES ASSUME IInv, Next, crossed' = {} PROVE OnlyReversed
    BY DEF vars
  <2>0. crossed = {}
    BY CrossedStays DEF IInv, RowsSound
  <2> USE <2>0 DEF RowsSound
  <2>1. ASSUME NEW p \in Preds, InsertBet(p) PROVE OnlyReversed
    BY <2>1 DEF InsertBet, IInv, PlacingAbsent, NoBet, Settled, TypeOK
  <2>2. ASSUME NEW c \in Callers, CommitSettle(c) PROVE OnlyReversed
    BY <2>2 DEF SettlementKeyFree, CommitSettle, IInv, OneScorePaid
  <2>3. ASSUME NEW c \in Callers, CommitReverse(c) PROVE OnlyReversed
    BY <2>3 DEF ReversedRow, CommitReverse
  <2>4. CASE UNCHANGED pred
    BY <2>4
  <2> QED
    BY <2>1, <2>2, <2>3, <2>4
       DEF Next, Step, CheckBettable, CloseBetting, RewriteMatch, CallSettle, CheckSettlement,
           UpdateMatch, SelectBets, SettlementRefused, CallResettle, SelectSettled, Crash
<1> QED
  BY <1>1, InvariantHolds, PTL DEF Spec, VerdictsOnlyReversed

\* The Settlement table's key alone keeps a settled score from being overwritten,
\* whatever the number of administrators.
THEOREM ScoreKept == Spec => ScoreNotOverwritten
<1> DEFINE Kept == settlement # NoScore /\ settlement' # settlement => settlement' = NoScore
<1>1. [Next]_vars => [Kept]_vars
  BY DEF Next, Step, vars, CheckBettable, InsertBet, CloseBetting, RewriteMatch, CallSettle,
     CheckSettlement, UpdateMatch, SelectBets, SettlementKeyFree, CommitSettle,
     SettlementRefused, CallResettle, SelectSettled, CommitReverse, Crash
<1> QED
  BY <1>1, PTL DEF Spec, ScoreNotOverwritten

-----------------------------------------------------------------------------
(***************************************************************************)
(* WinStreak: the stats row's lock makes the streak and its bonuses exact  *)
(* for every number of matches, bets on them and milestones.               *)
(***************************************************************************)

LEMMA RunType == ASSUME NEW v, NEW e PROVE TrailingRun(v, e) \in Nat
<1>1. IsFiniteSet(RunBets(v, e))
  BY StreakAssumption, FS_Subset DEF RunBets
<1> QED
  BY <1>1, FS_CardinalityType DEF TrailingRun

\* The place of a match's bets does not matter while they have no verdict.
LEMMA RunIgnoresOpen ==
    ASSUME NEW v, NEW m \in Matches, \A b \in BetsOn(m) : v[b] = "OPEN", NEW e, NEW f,
           \A c \in Bets \ BetsOn(m) : e[c] \ BetsOn(m) = f[c] \ BetsOn(m)
    PROVE  TrailingRun(v, e) = TrailingRun(v, f)
<1>1. \A b \in BetsOn(m) : ~Breaks(v, b)
  BY DEF Breaks
<1>2. ASSUME NEW c \in Bets, v[c] = "WON"
      PROVE  (\A d \in Bets : Breaks(v, d) => d \in e[c])
                 <=> (\A d \in Bets : Breaks(v, d) => d \in f[c])
  <2>1. c \notin BetsOn(m)
    BY <1>2
  <2>2. \A d \in Bets \ BetsOn(m) : d \in e[c] <=> d \in f[c]
    BY <2>1
  <2> QED
    BY <1>1, <2>2
<1>3. RunBets(v, e) = RunBets(v, f)
  BY <1>2 DEF RunBets
<1> QED
  BY <1>3 DEF TrailingRun

\* The verdicts a transaction sees, and the bets it has yet to judge.
LEMMA ViewType ==
    ASSUME StreakTypeOK, LockInv, NEW m \in Matches
    PROVE  /\ View(m) \in [Bets -> Verdict \union {"OPEN"}]
           /\ \A b \in Bets : On[b] # m => View(m)[b] = verdict[b]
           /\ stage[m] = "read" => \A b \in BetsOn(m) : View(m)[b] # "OPEN" /\ b \in stamped
BY StreakAssumption DEF StreakTypeOK, LockInv, View, Verdict, BetsOn

LEMMA PaidStep == PaidInv /\ [StreakNext]_streakVars => PaidInv'
<1> SUFFICES ASSUME PaidInv, [StreakNext]_streakVars PROVE PaidInv'
  OBVIOUS
<1> USE StreakAssumption DEF PaidInv, StreakTypeOK, LockInv, PayInv, MilestonePaidOnce,
        Verdict, history
<1>1. ASSUME NEW b \in Bets, NEW r \in Outcomes, StampFirst(b, r) PROVE PaidInv'
  BY <1>1 DEF StampFirst, Stamp
<1>2. ASSUME NEW b \in Bets, StampNext(b) PROVE PaidInv'
  BY <1>2 DEF StampNext, Stamp
<1>3. ASSUME NEW m \in Matches, Upsert(m) PROVE PaidInv'
  BY <1>3 DEF Upsert, StatsFree
<1>4. ASSUME NEW m \in Matches, Recompute(m) PROVE PaidInv'
  BY <1>4, RunType DEF Recompute, Reached, BetsOn
\* A transaction that ends leaves no trace of itself but in the rows.
<1>5. ASSUME NEW m \in Matches, Ends(m)
      PROVE  /\ stage' \in [Matches -> {"idle", "stamped", "locked", "read"}] /\ stamped' \subseteq Bets
             /\ result' \in [Matches -> Outcomes] /\ statsLock' \in Matches \union {NoHolder}
             /\ run' \in [Matches -> Nat] /\ pay' \in [Matches -> SUBSET Milestones]
             /\ stage'[m] = "idle" /\ \A n \in Matches \ {m} : stage'[n] = stage[n] /\ pay'[n] = pay[n]
             /\ \A n \in Matches \ {m} : stage[n] \in {"locked", "read"} => statsLock' = n
             /\ \A b \in Bets : b \in stamped' <=> b \in stamped /\ On[b] # m
             /\ \A n \in Matches : stage'[n] # "idle" => \E b \in stamped' : On[b] = n
  <2>1. AnyOutcome \in Outcomes
    BY DEF AnyOutcome
  <2>2. stage' = [stage EXCEPT ![m] = "idle"] /\ stamped' = stamped \ BetsOn(m)
    BY <1>5 DEF Ends
  <2>3. ASSUME NEW n \in Matches, stage'[n] # "idle" PROVE \E b \in stamped' : On[b] = n
    <3>1. n # m /\ stage[n] # "idle"
      BY <2>2, <2>3
    <3>2. PICK b \in stamped : On[b] = n
      BY <3>1
    <3> QED
      BY <2>2, <3>1, <3>2 DEF BetsOn
  <2> QED
    BY <1>5, <2>1, <2>2, <2>3 DEF Ends, BetsOn
<1>6. ASSUME NEW m \in Matches, CommitStreak(m) PROVE PaidInv'
  <2> USE DEF CommitStreak
  <2>1. undone' \in [match : Matches \union {NoHolder}, again : BOOLEAN, latest : BOOLEAN,
                     verdict : [Bets -> Verdict \union {"OPEN"}], bonus : [Milestones -> Nat]]
    BY <1>6 DEF NothingUndone
  <2>2. verdict' \in [Bets -> Verdict \union {"OPEN"}] /\ streak' \in Nat
    BY <1>6, ViewType
  <2>3. bonus' \in [Milestones -> Nat] /\ MilestonePaidOnce'
    BY <1>6
  <2>4. StreakTypeOK'
    BY <1>5, <1>6, <2>1, <2>2, <2>3
  <2>5. \A n \in Matches : stage'[n] # "read"
    BY <1>5, <1>6
  <2>6. LockInv' /\ PayInv'
    <3>1. \A b \in Bets : On[b] # m => verdict'[b] = verdict[b]
      BY <1>6, ViewType
    <3>2. \A b \in Bets : On[b] = m => verdict'[b] # "OPEN"
      BY <1>6, ViewType DEF BetsOn
    <3>3. Ends(m)
      BY <1>6
    <3>4. \A b \in Bets : stage'[On[b]] # "idle" => On[b] # m /\ stage[On[b]] # "idle"
      BY <1>5, <3>3
    <3>5. /\ \A n \in Matches : stage'[n] \in {"locked", "read"} => statsLock' = n
          /\ \A b \in stamped' : stage'[On[b]] # "idle"
          /\ \A n \in Matches : stage'[n] # "idle" => \E b \in stamped' : On[b] = n
      BY <1>5, <3>3
    <3> QED
      BY <2>5, <3>1, <3>2, <3>4, <3>5
  <2> QED
    BY <2>3, <2>4, <2>6
<1>7. ASSUME NEW m \in Matches, Abort(m) PROVE PaidInv'
  <2>1. earlier' \in [Bets -> SUBSET Bets]
    BY <1>7 DEF Abort, Unsettle
  <2>2. StreakTypeOK'
    BY <1>5, <1>7, <2>1 DEF Abort
  <2>3. LockInv'
    <3>1. /\ Ends(m) /\ verdict' = verdict
          /\ \A b \in Bets : On[b] \in Matches /\ (stage[On[b]] # "idle" => verdict[b] = "OPEN")
      BY <1>7 DEF Abort
    <3>2. \A b \in Bets : stage'[On[b]] # "idle" => On[b] # m /\ verdict'[b] = "OPEN"
      BY <1>5, <3>1
    <3>3. \A b \in Bets : On[b] # m => stage'[On[b]] = stage[On[b]]
      BY <1>5, <3>1
    <3>4. \A b \in stamped' : stage'[On[b]] # "idle"
      BY <1>5, <3>1, <3>3
    <3>5. \A b \in Bets : stage'[On[b]] = "read" => b \in stamped'
      BY <1>5, <3>1, <3>2, <3>3
    <3>6. \A n \in Matches : stage'[n] \in {"locked", "read"} => statsLock' = n
      BY <1>5, <3>1
    <3>7. \A n \in Matches : stage'[n] # "idle" => \E b \in stamped' : On[b] = n
      BY <1>5, <3>1
    <3> QED
      BY <3>1, <3>2, <3>4, <3>5, <3>6, <3>7
  <2>4. PayInv' /\ MilestonePaidOnce'
    <3>1. Ends(m) /\ bonus' = bonus
      BY <1>7 DEF Abort
    <3>2. \A n \in Matches : stage'[n] = "read" => n # m /\ stage[n] = "read" /\ pay'[n] = pay[n]
      BY <1>5, <3>1
    <3> QED
      BY <3>1, <3>2
  <2> QED
    BY <2>2, <2>3, <2>4
<1>8. ASSUME NEW m \in Matches, Reverse(m) PROVE PaidInv'
  <2>1. undone' \in [match : Matches \union {NoHolder}, again : BOOLEAN, latest : BOOLEAN,
                     verdict : [Bets -> Verdict \union {"OPEN"}], bonus : [Milestones -> Nat]]
    BY <1>8 DEF Reverse
  <2>2. StreakTypeOK'
    BY <1>8, <2>1 DEF Reverse, Unsettle
  <2>3. LockInv' /\ PayInv' /\ MilestonePaidOnce'
    BY <1>8 DEF Reverse
  <2> QED
    BY <2>2, <2>3
<1>9. CASE UNCHANGED streakVars
  BY <1>9 DEF streakVars
<1> QED
  BY <1>1, <1>2, <1>3, <1>4, <1>6, <1>7, <1>8, <1>9 DEF StreakNext

\* A settlement's commit writes the streak row anew.
LEMMA NotStale ==
    ASSUME StreakTypeOK, NEW m \in Matches, CommitStreak(m)
    PROVE  ~Stale'
<1>1. CASE undone' = [undone EXCEPT !.again = TRUE]
  <2>1. undone'.again = TRUE
    BY <1>1 DEF StreakTypeOK
  <2> QED
    BY <2>1 DEF Stale
<1>2. CASE undone' = NothingUndone
  BY <1>2 DEF NothingUndone, Stale
<1> QED
  BY <1>1, <1>2 DEF CommitStreak

LEMMA RunStep == PaidInv /\ RunInv /\ [StreakNext]_streakVars => RunInv'
<1> SUFFICES ASSUME PaidInv, RunInv, [StreakNext]_streakVars PROVE RunInv'
  OBVIOUS
<1> USE DEF RunInv, StreakShowsRun, Stale, PaidInv, LockInv, StreakTypeOK, history
\* A step that leaves the verdicts alone and moves only bets of a match without one.
<1>1. ASSUME NEW m \in Matches, \A b \in BetsOn(m) : verdict[b] = "OPEN",
             UNCHANGED <<verdict, streak, history>>,
             \A c \in Bets \ BetsOn(m) :
                 /\ earlier'[c] \ BetsOn(m) = earlier[c] \ BetsOn(m)
                 /\ c \in stamped' <=> c \in stamped,
             \A n \in Matches : stage'[n] = "read" =>
                 /\ n # m /\ stage[n] = "read"
                 /\ run'[n] = run[n] /\ result'[n] = result[n]
      PROVE  RunInv'
  <2>1. TrailingRun(verdict, earlier') = TrailingRun(verdict, earlier)
    <3> HIDE DEF StreakTypeOK, PaidInv, LockInv, RunInv, StreakShowsRun
    <3>1. \A c \in Bets \ BetsOn(m) : earlier'[c] \ BetsOn(m) = earlier[c] \ BetsOn(m)
      BY <1>1
    <3>2. \A b \in BetsOn(m) : verdict[b] = "OPEN"
      BY <1>1
    <3> QED
      BY <3>1, <3>2, RunIgnoresOpen
  <2>2. ASSUME NEW n \in Matches, stage'[n] = "read"
        PROVE  /\ View(n)' = View(n) /\ run'[n] = run[n] /\ stage[n] = "read"
               /\ TrailingRun(View(n), earlier') = TrailingRun(View(n), earlier)
    <3>1. View(n)' = View(n) /\ \A b \in BetsOn(m) : View(n)[b] = "OPEN"
      BY <1>1, <2>2 DEF View, BetsOn
    <3>2. TrailingRun(View(n), earlier') = TrailingRun(View(n), earlier)
      <4> HIDE DEF StreakTypeOK, PaidInv, LockInv, RunInv, StreakShowsRun
      <4>1. \A c \in Bets \ BetsOn(m) : earlier'[c] \ BetsOn(m) = earlier[c] \ BetsOn(m)
        BY <1>1
      <4>2. \A b \in BetsOn(m) : View(n)[b] = "OPEN"
        BY <3>1
      <4> QED
        BY <4>1, <4>2, RunIgnoresOpen
    <3> QED
      BY <1>1, <2>2, <3>1, <3>2
  <2> QED
    BY <1>1, <2>1, <2>2
<1>2. ASSUME NEW b \in Bets, NEW r \in Outcomes, StampFirst(b, r) PROVE RunInv'
  <2>1. On[b] \in Matches /\ b \in BetsOn(On[b]) /\ \A c \in BetsOn(On[b]) : verdict[c] = "OPEN"
    BY <1>2, StreakAssumption DEF StampFirst, BetsOn
  <2>2. PICK m \in Matches : m = On[b] /\ b \in BetsOn(m) /\ \A c \in BetsOn(m) : verdict[c] = "OPEN"
    BY <2>1
  <2>3. \A c \in Bets \ BetsOn(m) : earlier'[c] = earlier[c] /\ (c \in stamped' <=> c \in stamped)
    BY <1>2, <2>2 DEF StampFirst, Stamp
  <2>4. \A n \in Matches : stage'[n] = "read" =>
           n # m /\ stage[n] = "read" /\ run'[n] = run[n] /\ result'[n] = result[n]
    BY <1>2, <2>2 DEF StampFirst, Stamp
  <2>5. UNCHANGED <<verdict, streak, history>>
    BY <1>2 DEF StampFirst, Stamp
  <2> QED
    BY <1>1, <2>2, <2>3, <2>4, <2>5
<1>3. ASSUME NEW b \in Bets, StampNext(b) PROVE RunInv'
  <2>1. On[b] \in Matches /\ b \in BetsOn(On[b]) /\ \A c \in BetsOn(On[b]) : verdict[c] = "OPEN"
    BY <1>3, StreakAssumption DEF StampNext, BetsOn
  <2>2. PICK m \in Matches : m = On[b] /\ b \in BetsOn(m) /\ \A c \in BetsOn(m) : verdict[c] = "OPEN"
    BY <2>1
  <2>3. \A c \in Bets \ BetsOn(m) : earlier'[c] = earlier[c] /\ (c \in stamped' <=> c \in stamped)
    BY <1>3, <2>2 DEF StampNext, Stamp
  <2>4. \A n \in Matches : stage'[n] = "read" =>
           n # m /\ stage[n] = "read" /\ run'[n] = run[n] /\ result'[n] = result[n]
    BY <1>3, <2>2 DEF StampNext, Stamp
  <2>5. UNCHANGED <<verdict, streak, history>>
    BY <1>3 DEF StampNext, Stamp
  <2> QED
    BY <1>1, <2>2, <2>3, <2>4, <2>5
<1>4. ASSUME NEW m \in Matches, Upsert(m) PROVE RunInv'
  <2>1. \A c \in BetsOn(m) : verdict[c] = "OPEN"
    BY <1>4 DEF Upsert, BetsOn
  <2> QED
    BY <1>1, <1>4, <2>1 DEF Upsert
<1>5. ASSUME NEW m \in Matches, Recompute(m) PROVE RunInv'
  <2>1. /\ run'[m] = TrailingRun(View(m), earlier)
        /\ \A n \in Matches : n # m => run'[n] = run[n] /\ stage'[n] = stage[n]
        /\ UNCHANGED <<verdict, earlier, streak, stamped, result, history>>
    BY <1>5 DEF Recompute
  <2>2. \A n \in Matches : View(n)' = View(n)
    BY <2>1 DEF View
  <2> QED
    BY <2>1, <2>2
<1>6. ASSUME NEW m \in Matches, CommitStreak(m) PROVE RunInv'
  <2>1. /\ verdict' = View(m) /\ streak' = run[m] /\ UNCHANGED <<earlier, resettled>>
        /\ stage[m] = "read" /\ stage' = [stage EXCEPT ![m] = "idle"]
    BY <1>6 DEF CommitStreak, Ends
  <2>2. \A n \in Matches : stage'[n] # "read"
    BY <2>1
  <2>3. run[m] = TrailingRun(View(m), earlier)
    BY <2>1
  <2> QED
    BY <2>1, <2>2, <2>3, NotStale, <1>6
<1>7. ASSUME NEW m \in Matches, Abort(m) PROVE RunInv'
  <2>1. \A c \in BetsOn(m) : verdict[c] = "OPEN"
    BY <1>7 DEF Abort, Ends, BetsOn
  <2>2. \A n \in Matches : stage'[n] = "read" =>
           n # m /\ stage[n] = "read" /\ run'[n] = run[n] /\ result'[n] = result[n]
    BY <1>7 DEF Abort, Ends
  <2>3. \A c \in Bets \ BetsOn(m) :
           /\ earlier'[c] \ BetsOn(m) = earlier[c] \ BetsOn(m)
           /\ c \in stamped' <=> c \in stamped
    BY <1>7 DEF Abort, Ends, Unsettle, BetsOn
  <2> QED
    BY <1>1, <1>7, <2>1, <2>2, <2>3 DEF Abort
<1>8. ASSUME NEW m \in Matches, Reverse(m) PROVE RunInv'
  <2>1. resettled' /\ stage' = stage /\ \A n \in Matches : stage[n] # "read"
    BY <1>8, StreakAssumption DEF Reverse, StatsFree
  <2>2. undone'.match = m /\ undone'.again = FALSE
    BY <1>8 DEF Reverse
  <2>3. Stale'
    BY <2>2, StreakAssumption DEF Stale
  <2> QED
    BY <2>1, <2>3
<1>9. CASE UNCHANGED streakVars
  <2>1. \A n \in Matches : View(n)' = View(n)
    BY <1>9 DEF streakVars, View
  <2> QED
    BY <1>9, <2>1 DEF streakVars
<1> QED
  BY <1>2, <1>3, <1>4, <1>5, <1>6, <1>7, <1>8, <1>9 DEF StreakNext

LEMMA PaidInit == StreakInit => PaidInv
<1> SUFFICES ASSUME StreakInit PROVE PaidInv
  OBVIOUS
<1>1. undone \in [match : Matches \union {NoHolder}, again : BOOLEAN, latest : BOOLEAN,
                  verdict : [Bets -> Verdict \union {"OPEN"}], bonus : [Milestones -> Nat]]
  BY DEF StreakInit, NothingUndone, Verdict
<1>2. resettled \in BOOLEAN
  BY DEF StreakInit
<1>3. AnyOutcome \in Outcomes
  BY StreakAssumption DEF AnyOutcome
<1> QED
  BY <1>1, <1>2, <1>3, StreakAssumption
     DEF StreakInit, PaidInv, StreakTypeOK, LockInv, PayInv, MilestonePaidOnce, Verdict

\* However settlements overlap, fail and are corrected, a milestone's bonus is
\* paid at most once.
THEOREM PaidOnce == StreakSpec => []MilestonePaidOnce
<1>1. PaidInv => MilestonePaidOnce
  BY DEF PaidInv
<1> QED
  BY <1>1, PaidInit, PaidStep, PTL DEF StreakSpec

\* The streak's state is well typed, whatever overlaps, fails or is re-settled.
THEOREM StreakTyped == StreakSpec => []StreakTypeOK
<1>1. PaidInv => StreakTypeOK
  BY DEF PaidInv
<1> QED
  BY <1>1, PaidInit, PaidStep, PTL DEF StreakSpec

LEMMA RunInit == StreakInit => RunInv
<1> SUFFICES ASSUME StreakInit PROVE RunInv
  OBVIOUS
<1>1. RunBets(verdict, earlier) = {}
  BY DEF StreakInit, RunBets
<1> QED
  BY <1>1, FS_EmptySet
     DEF StreakInit, NothingUndone, RunInv, StreakShowsRun, Stale, TrailingRun

\* The streak row is the trailing run of wins, but between a reversal and the next
\* settlement's commit.
THEOREM StreakExact == StreakSpec => []StreakShowsRun
<1>1. RunInv => StreakShowsRun
  BY DEF RunInv
<1> QED
  BY <1>1, RunInit, PaidInit, PaidStep, RunStep, PTL DEF StreakSpec

\* A match's verdicts lengthen the trailing run by one bet at most, unless it is won twice.
LEMMA RunGrowsByOne ==
    ASSUME NEW v, NEW m \in Matches, \A b \in BetsOn(m) : v[b] = "OPEN", NEW w, NEW e,
           \A c \in Bets \ BetsOn(m) : w[c] = v[c],
           \A b, c \in BetsOn(m) : w[b] = "WON" /\ w[c] = "WON" => b = c
    PROVE  TrailingRun(w, e) <= TrailingRun(v, e) + 1
<1>0. PICK b : \A c \in BetsOn(m) : w[c] = "WON" => c = b
  OBVIOUS
<1>1. RunBets(w, e) \subseteq RunBets(v, e) \union {b}
  <2> SUFFICES ASSUME NEW c \in RunBets(w, e), c # b PROVE c \in RunBets(v, e)
    OBVIOUS
  <2>1. c \in Bets \ BetsOn(m) /\ v[c] = "WON"
    BY <1>0 DEF RunBets
  <2>2. ASSUME NEW d \in Bets, Breaks(v, d) PROVE d \in e[c]
    BY <2>2 DEF Breaks, RunBets
  <2> QED
    BY <2>1, <2>2 DEF RunBets
<1>2. IsFiniteSet(RunBets(v, e))
  BY StreakAssumption, FS_Subset DEF RunBets
<1>3. IsFiniteSet(RunBets(v, e) \union {b})
  BY <1>2, FS_AddElement
<1>4. Cardinality(RunBets(v, e) \union {b}) <= Cardinality(RunBets(v, e)) + 1
  <2> DEFINE R == RunBets(v, e)
  <2>1. Cardinality(R) \in Nat
    BY <1>2, FS_CardinalityType
  <2>2. \/ Cardinality(R \union {b}) = Cardinality(R)
        \/ Cardinality(R \union {b}) = Cardinality(R) + 1
    BY <1>2, FS_AddElement
  <2> QED
    BY <2>1, <2>2
<1>5. Cardinality(RunBets(w, e)) <= Cardinality(RunBets(v, e) \union {b})
  BY <1>1, <1>3, FS_Subset
<1>6. /\ Cardinality(RunBets(w, e)) \in Nat /\ Cardinality(RunBets(v, e)) \in Nat
      /\ Cardinality(RunBets(v, e) \union {b}) \in Nat
  BY <1>3, RunType, FS_CardinalityType DEF TrailingRun
<1> QED
  BY <1>4, <1>5, <1>6 DEF TrailingRun

\* The milestones a transaction is about to pay are those its streak has reached
\* and that are unpaid when it commits.
LEMMA PayStep == PaidInv /\ PayReached /\ [StreakNext]_streakVars => PayReached'
<1> SUFFICES ASSUME PaidInv, PayReached, [StreakNext]_streakVars PROVE PayReached'
  OBVIOUS
<1> USE StreakAssumption DEF PayReached, Reached, PaidInv, LockInv, StreakTypeOK, history
<1>1. ASSUME NEW b \in Bets, NEW r \in Outcomes, StampFirst(b, r) PROVE PayReached'
  BY <1>1 DEF StampFirst, Stamp
<1>2. ASSUME NEW b \in Bets, StampNext(b) PROVE PayReached'
  BY <1>2 DEF StampNext, Stamp
<1>3. ASSUME NEW m \in Matches, Upsert(m) PROVE PayReached'
  BY <1>3 DEF Upsert
<1>4. ASSUME NEW m \in Matches, Recompute(m) PROVE PayReached'
  BY <1>4 DEF Recompute
<1>5. ASSUME NEW m \in Matches, CommitStreak(m) PROVE PayReached'
  <2>1. \A n \in Matches : stage'[n] # "read"
    BY <1>5 DEF CommitStreak, Ends
  <2> QED
    BY <2>1
<1>6. ASSUME NEW m \in Matches, Abort(m) PROVE PayReached'
  BY <1>6 DEF Abort, Ends
<1>7. ASSUME NEW m \in Matches, Reverse(m) PROVE PayReached'
  BY <1>7 DEF Reverse
<1>8. CASE UNCHANGED streakVars
  BY <1>8 DEF streakVars
<1> QED
  BY <1>1, <1>2, <1>3, <1>4, <1>5, <1>6, <1>7, <1>8 DEF StreakNext

LEMMA SkipStep ==
    PaidInv /\ RunInv /\ PayReached /\ MilestoneNotSkipped /\ [StreakNext]_streakVars => MilestoneNotSkipped'
<1> SUFFICES ASSUME PaidInv, RunInv, PayReached, MilestoneNotSkipped, [StreakNext]_streakVars
             PROVE  MilestoneNotSkipped'
  OBVIOUS
<1> USE DEF MilestoneNotSkipped, history
<1>1. ASSUME NEW m \in Matches, CommitStreak(m) PROVE MilestoneNotSkipped'
  <2> SUFFICES ASSUME ~resettled, ~Duplicated', NEW k \in Milestones, k <= run[m] PROVE bonus'[k] = 1
    BY <1>1 DEF CommitStreak
  <2>1. stage[m] = "read" /\ \A b \in BetsOn(m) : verdict[b] = "OPEN"
    BY <1>1 DEF CommitStreak, PaidInv, LockInv, BetsOn
  <2>2. verdict' = View(m) /\ \A c \in Bets \ BetsOn(m) : View(m)[c] = verdict[c]
    BY <1>1, ViewType DEF CommitStreak, PaidInv, BetsOn
  <2>3. ~Duplicated
    <3>1. \A b \in Bets : verdict[b] = "WON" => verdict'[b] = "WON"
      BY <2>1, <2>2
    <3> QED
      BY <3>1 DEF Duplicated
  <2>4. \A b, c \in BetsOn(m) : View(m)[b] = "WON" /\ View(m)[c] = "WON" => b = c
    BY <2>2 DEF Duplicated, BetsOn
  <2>5. run[m] <= streak + 1
    <3>1. TrailingRun(View(m), earlier) <= TrailingRun(verdict, earlier) + 1
      BY <2>1, <2>2, <2>4, RunGrowsByOne
    <3> QED
      BY <2>1, <3>1 DEF RunInv, StreakShowsRun
  <2>6. pay[m] = {n \in Milestones : n = run[m] /\ bonus[n] = 0}
    BY <2>1 DEF PayReached, Reached
  <2>7. /\ streak \in Nat /\ run[m] \in Nat /\ k \in Nat
        /\ bonus[k] \in Nat /\ bonus[k] <= 1
    BY StreakAssumption DEF PaidInv, StreakTypeOK, MilestonePaidOnce
  <2>8. bonus'[k] = IF k \in pay[m] THEN bonus[k] + 1 ELSE bonus[k]
    BY <1>1 DEF CommitStreak
  <2>9. CASE k <= streak
    BY <2>3, <2>6, <2>8, <2>9
  <2>10. CASE ~(k <= streak)
    <3>1. k = run[m]
      BY <2>5, <2>7, <2>10
    <3> QED
      BY <2>6, <2>7, <2>8, <3>1
  <2> QED
    BY <2>9, <2>10
<1>2. ASSUME NEW m \in Matches, Reverse(m) PROVE MilestoneNotSkipped'
  BY <1>2 DEF Reverse
<1>3. ASSUME UNCHANGED <<verdict, streak, bonus, resettled>> PROVE MilestoneNotSkipped'
  BY <1>3 DEF Duplicated
<1>4. ASSUME NEW b \in Bets, NEW r \in Outcomes, StampFirst(b, r) PROVE MilestoneNotSkipped'
  BY <1>3, <1>4 DEF StampFirst, Stamp
<1>5. ASSUME NEW b \in Bets, StampNext(b) PROVE MilestoneNotSkipped'
  BY <1>3, <1>5 DEF StampNext, Stamp
<1>6. ASSUME NEW m \in Matches, Upsert(m) PROVE MilestoneNotSkipped'
  BY <1>3, <1>6 DEF Upsert
<1>7. ASSUME NEW m \in Matches, Recompute(m) PROVE MilestoneNotSkipped'
  BY <1>3, <1>7 DEF Recompute
<1>8. ASSUME NEW m \in Matches, Abort(m) PROVE MilestoneNotSkipped'
  BY <1>3, <1>8 DEF Abort
<1>9. CASE UNCHANGED streakVars
  BY <1>3, <1>9 DEF streakVars
<1> QED
  BY <1>1, <1>2, <1>4, <1>5, <1>6, <1>7, <1>8, <1>9 DEF StreakNext

\* Until a verdict is taken back or a match is won twice a streak never jumps over a
\* milestone, however many bets a settlement settles: every one up to the current streak
\* has been paid.
THEOREM NoneSkipped == StreakSpec => []MilestoneNotSkipped
<1>1. StreakInit => PayReached /\ MilestoneNotSkipped
  BY StreakAssumption DEF StreakInit, PayReached, MilestoneNotSkipped
<1> QED
  BY <1>1, RunInit, PaidInit, PaidStep, RunStep, PayStep, SkipStep, PTL DEF StreakSpec
-----------------------------------------------------------------------------
(* Verdicts taken back and given again.                                    *)

Placed(b) == verdict[b] # "OPEN" \/ b \in stamped

\* Any two bets with a place in the order are ordered; the others have no place.
OrderInv ==
    /\ \A b, c \in Bets : Placed(b) /\ Placed(c) /\ b # c => b \in earlier[c] \/ c \in earlier[b]
    /\ \A b, c \in Bets : b \in earlier[c] => Placed(b) /\ Placed(c)

\* The run of the old verdicts, the bets of m being the last ones.
AtEnd(m, e) == [b \in Bets |-> IF On[b] = m THEN Bets \ BetsOn(m) ELSE e[b]]
LastRun(m) == TrailingRun(undone.verdict, AtEnd(m, earlier))

\* Between the reversal of the last settled match and its own re-settle no other match
\* settles, and every milestone of its old run has been paid, if it did not end the run.
TakenInv(m) ==
    /\ m \in Matches /\ \E b \in BetsOn(m) : undone.verdict[b] # "OPEN"
    /\ \A b \in Bets : verdict[b] = IF On[b] = m THEN "OPEN" ELSE undone.verdict[b]
    /\ \A b, c \in BetsOn(m) : undone.verdict[b] = "WON" /\ undone.verdict[c] = "WON" => b = c
    /\ \A b \in BetsOn(m), c \in Bets : verdict[c] # "OPEN" =>
          b \notin earlier[c] /\ (b \in stamped => c \in earlier[b])
    /\ (\A b \in BetsOn(m) : ~Breaks(undone.verdict, b))
          => \A k \in Milestones : k <= LastRun(m) => bonus[k] = 1
AgainInv ==
    undone.latest =>
        /\ bonus = undone.bonus
        /\ undone.again => verdict = undone.verdict
        /\ ~undone.again => TakenInv(undone.match)

\* Where the bets without a verdict stand does not matter, nor in which order the last
\* match's do, if none of them ends the run.
LEMMA RunOfLast ==
    ASSUME NEW v, NEW m \in Matches, NEW e, NEW f, \A b \in BetsOn(m) : ~Breaks(v, b),
           \A c \in Bets \ BetsOn(m) : v[c] # "OPEN" =>
               /\ \A b \in BetsOn(m) : c \in e[b] /\ c \in f[b]
               /\ \A d \in Bets \ BetsOn(m) : v[d] # "OPEN" => (d \in e[c] <=> d \in f[c])
    PROVE  TrailingRun(v, e) = TrailingRun(v, f)
<1>1. ASSUME NEW c \in Bets, v[c] = "WON"
      PROVE  (\A d \in Bets : Breaks(v, d) => d \in e[c])
                 <=> (\A d \in Bets : Breaks(v, d) => d \in f[c])
  <2>1. \A d \in Bets : Breaks(v, d) => d \notin BetsOn(m) /\ v[d] # "OPEN"
    BY DEF Breaks
  <2>2. CASE c \in BetsOn(m)
    BY <2>1, <2>2
  <2>3. CASE c \notin BetsOn(m)
    BY <1>1, <2>1, <2>3
  <2> QED
    BY <2>2, <2>3
<1>2. RunBets(v, e) = RunBets(v, f)
  BY <1>1 DEF RunBets
<1> QED
  BY <1>2 DEF TrailingRun

\* If one of them does, at most the match's own winner comes after it.
LEMMA RunBroken ==
    ASSUME NEW v, NEW m \in Matches, NEW e, NEW b \in BetsOn(m), Breaks(v, b),
           \A c \in Bets \ BetsOn(m) : v[c] # "OPEN" => b \notin e[c],
           \A c, d \in BetsOn(m) : v[c] = "WON" /\ v[d] = "WON" => c = d
    PROVE  TrailingRun(v, e) <= 1
<1>1. PICK w : \A c \in BetsOn(m) : v[c] = "WON" => c = w
  OBVIOUS
<1>2. RunBets(v, e) \subseteq {w}
  BY <1>1 DEF RunBets, BetsOn
<1>3. IsFiniteSet({w}) /\ Cardinality({w}) = 1
  BY FS_Singleton
<1>4. Cardinality(RunBets(v, e)) <= Cardinality({w})
  BY <1>2, <1>3, FS_Subset
<1> QED
  BY <1>3, <1>4 DEF TrailingRun

LEMMA OrderStep == PaidInv /\ OrderInv /\ [StreakNext]_streakVars => OrderInv'
<1> SUFFICES ASSUME PaidInv, OrderInv, [StreakNext]_streakVars PROVE OrderInv'
  OBVIOUS
<1> USE StreakAssumption DEF OrderInv, Placed, PaidInv, LockInv, StreakTypeOK, history
<1>1. ASSUME NEW b \in Bets, Stamp(b) PROVE OrderInv'
  BY <1>1 DEF Stamp
<1>2. ASSUME NEW m \in Matches, Upsert(m) PROVE OrderInv'
  BY <1>2 DEF Upsert
<1>3. ASSUME NEW m \in Matches, Recompute(m) PROVE OrderInv'
  BY <1>3 DEF Recompute
<1>4. ASSUME NEW m \in Matches, CommitStreak(m) PROVE OrderInv'
  <2>1. \A c \in Bets : Placed(c)' = Placed(c)
    <3>1. \A c \in Bets : On[c] = m => c \in stamped /\ verdict'[c] # "OPEN"
      BY <1>4, ViewType DEF CommitStreak, BetsOn
    <3>2. \A c \in Bets : On[c] # m => verdict'[c] = verdict[c] /\ (c \in stamped' <=> c \in stamped)
      BY <1>4, ViewType DEF CommitStreak, Ends, BetsOn
    <3> QED
      BY <3>1, <3>2
  <2> QED
    BY <1>4, <2>1 DEF CommitStreak
<1>5. ASSUME NEW m \in Matches, Abort(m) PROVE OrderInv'
  <2>1. \A c \in Bets : On[c] = m => ~Placed(c)' /\ earlier'[c] = {}
    BY <1>5 DEF Abort, Ends, Unsettle, BetsOn
  <2>2. \A c \in Bets : On[c] # m =>
           /\ Placed(c)' = Placed(c)
           /\ \A d \in Bets : d \in earlier'[c] <=> d \in earlier[c] /\ On[d] # m
    BY <1>5 DEF Abort, Ends, Unsettle, BetsOn
  <2> QED
    BY <2>1, <2>2
<1>6. ASSUME NEW m \in Matches, Reverse(m) PROVE OrderInv'
  <2>1. \A c \in Bets : On[c] = m => ~Placed(c)' /\ earlier'[c] = {}
    BY <1>6 DEF Reverse, Unsettle, BetsOn
  <2>2. \A c \in Bets : On[c] # m =>
           /\ Placed(c)' = Placed(c)
           /\ \A d \in Bets : d \in earlier'[c] <=> d \in earlier[c] /\ On[d] # m
    BY <1>6 DEF Reverse, Unsettle, BetsOn
  <2> QED
    BY <2>1, <2>2
<1>7. CASE UNCHANGED streakVars
  BY <1>7 DEF streakVars
<1> QED
  BY <1>1, <1>2, <1>3, <1>4, <1>5, <1>6, <1>7 DEF StreakNext, StampFirst, StampNext

\* A step of a match whose bets have no verdict and get none, after which each of them is
\* not stamped or comes after every settled bet.
LEMMA AgainKept ==
    ASSUME StreakTypeOK, AgainInv, undone.latest, UNCHANGED <<verdict, bonus, undone>>,
           NEW n \in Matches, \A b \in BetsOn(n) : verdict[b] = "OPEN",
           \A c \in Bets \ BetsOn(n) :
               /\ earlier'[c] \ BetsOn(n) = earlier[c] \ BetsOn(n)
               /\ \A b \in BetsOn(n) : b \notin earlier[c] => b \notin earlier'[c]
               /\ c \in stamped' <=> c \in stamped,
           \A b \in BetsOn(n) : b \in stamped' =>
               \/ b \in stamped /\ earlier'[b] = earlier[b]
               \/ \A c \in Bets : verdict[c] # "OPEN" => c \in earlier'[b]
    PROVE  AgainInv'
<1>1. CASE undone.again
  BY <1>1 DEF AgainInv
<1>2. CASE ~undone.again
  <2>1. PICK m \in Matches : m = undone.match /\ TakenInv(m)
    BY <1>2 DEF AgainInv, TakenInv
  <2>2. \A b \in Bets : verdict[b] = IF On[b] = m THEN "OPEN" ELSE undone.verdict[b]
    BY <2>1 DEF TakenInv
  <2>3. ASSUME NEW c \in Bets, verdict[c] # "OPEN" PROVE c \notin BetsOn(n) /\ c \notin BetsOn(m)
    BY <2>2, <2>3 DEF BetsOn
  <2>4. ASSUME NEW b \in BetsOn(m), NEW c \in Bets, verdict[c] # "OPEN"
        PROVE  b \notin earlier'[c] /\ (b \in stamped' => c \in earlier'[b])
    <3>1. b \notin earlier[c] /\ (b \in stamped => c \in earlier[b])
      BY <2>1, <2>4 DEF TakenInv
    <3>2. CASE b \in BetsOn(n)
      BY <2>3, <2>4, <3>1, <3>2
    <3>3. CASE b \notin BetsOn(n)
      BY <2>3, <2>4, <3>1, <3>3 DEF BetsOn
    <3> QED
      BY <3>2, <3>3
  <2>5. ASSUME \A b \in BetsOn(m) : ~Breaks(undone.verdict, b) PROVE LastRun(m)' = LastRun(m)
    <3>1. PICK v, e, f : v = undone.verdict /\ e = AtEnd(m, earlier) /\ f = AtEnd(m, earlier')
      OBVIOUS
    <3>2. LastRun(m) = TrailingRun(v, e) /\ LastRun(m)' = TrailingRun(v, f)
      BY <3>1 DEF LastRun, TrailingRun, RunBets, Breaks, AtEnd, BetsOn
    <3>3. ASSUME NEW c \in Bets \ BetsOn(m), v[c] # "OPEN"
          PROVE  /\ \A b \in BetsOn(m) : c \in e[b] /\ c \in f[b]
                 /\ \A d \in Bets \ BetsOn(m) : v[d] # "OPEN" => (d \in e[c] <=> d \in f[c])
      <4>1. verdict[c] # "OPEN" /\ e[c] = earlier[c] /\ f[c] = earlier'[c]
        BY <2>2, <3>1, <3>3 DEF AtEnd, BetsOn
      <4>2. ASSUME NEW d \in Bets \ BetsOn(m), v[d] # "OPEN" PROVE d \in earlier[c] <=> d \in earlier'[c]
        <5>1. verdict[d] # "OPEN"
          BY <2>2, <3>1, <4>2 DEF BetsOn
        <5>2. d \notin BetsOn(n) /\ c \notin BetsOn(n)
          BY <2>3, <4>1, <5>1
        <5> QED
          BY <5>2
      <4>3. \A b \in BetsOn(m) : c \in e[b] /\ c \in f[b]
        BY <3>1, <3>3 DEF AtEnd, BetsOn
      <4> QED
        BY <4>1, <4>2, <4>3
    <3>4. \A b \in BetsOn(m) : ~Breaks(v, b)
      BY <2>5, <3>1
    <3> QED
      BY <3>2, <3>3, <3>4, RunOfLast
  <2>6. TakenInv(m)'
    BY <2>1, <2>2, <2>4, <2>5 DEF TakenInv
  <2> QED
    BY <1>2, <2>1, <2>6 DEF AgainInv
<1> QED
  BY <1>1, <1>2

LEMMA AgainStep ==
    PaidInv /\ RunInv /\ PayReached /\ MilestoneNotSkipped /\ OrderInv /\ AgainInv
        /\ [StreakNext]_streakVars => AgainInv'
<1> SUFFICES ASSUME PaidInv, RunInv, PayReached, MilestoneNotSkipped, OrderInv, AgainInv,
                    [StreakNext]_streakVars, undone'.latest
             PROVE  AgainInv'
  BY DEF AgainInv
<1>0. StreakTypeOK /\ LockInv /\ StreakAssumption
  BY StreakAssumption DEF PaidInv
<1>1. ASSUME NEW b \in Bets, NEW r \in Outcomes, StampFirst(b, r) \/ StampNext(b) PROVE AgainInv'
  <2>1. PICK n \in Matches : n = On[b] /\ b \in BetsOn(n) /\ \A c \in BetsOn(n) : verdict[c] = "OPEN"
    BY <1>0, <1>1 DEF StampFirst, StampNext, BetsOn, LockInv, StreakAssumption
  <2>2. Stamp(b)
    BY <1>1 DEF StampFirst, StampNext
  <2>3. /\ UNCHANGED <<verdict, bonus, undone>> /\ stamped' = stamped \union {b}
        /\ earlier' = [earlier EXCEPT ![b] = {d \in Bets : verdict[d] # "OPEN" \/ d \in stamped}]
    BY <2>2 DEF Stamp, history
  <2>4. /\ \A c \in Bets \ {b} : earlier'[c] = earlier[c] /\ (c \in stamped' <=> c \in stamped)
        /\ \A c \in Bets : verdict[c] # "OPEN" => c \in earlier'[b]
    BY <1>0, <2>3 DEF StreakTypeOK
  <2>5. \A c \in BetsOn(n) : c \in stamped' =>
           \/ c \in stamped /\ earlier'[c] = earlier[c]
           \/ \A d \in Bets : verdict[d] # "OPEN" => d \in earlier'[c]
    BY <2>4 DEF BetsOn
  <2> QED
    BY <1>0, <2>1, <2>3, <2>4, <2>5, AgainKept
<1>2. ASSUME NEW n \in Matches, Upsert(n) \/ Recompute(n) PROVE AgainInv'
  <2>1. \A b \in BetsOn(n) : verdict[b] = "OPEN"
    BY <1>0, <1>2 DEF Upsert, Recompute, LockInv, BetsOn
  <2>2. UNCHANGED <<verdict, earlier, stamped, bonus, undone>>
    BY <1>2 DEF Upsert, Recompute, history
  <2> QED
    BY <1>0, <2>1, <2>2, AgainKept
<1>3. ASSUME NEW n \in Matches, Abort(n) PROVE AgainInv'
  <2>1. \A b \in BetsOn(n) : verdict[b] = "OPEN"
    BY <1>0, <1>3 DEF Abort, Ends, LockInv, BetsOn
  <2>2. UNCHANGED <<verdict, bonus, undone>> /\ stamped' = stamped \ BetsOn(n)
    BY <1>3 DEF Abort, Ends, history
  <2>3. \A c \in Bets \ BetsOn(n) : earlier'[c] = earlier[c] \ BetsOn(n)
    BY <1>3 DEF Abort, Unsettle, BetsOn
  <2> QED
    BY <1>0, <2>1, <2>2, <2>3, AgainKept
\* The match itself is settled again as before: every milestone of its run has been paid.
<1>4. ASSUME NEW m \in Matches, CommitStreak(m) PROVE AgainInv'
  <2>1. undone.verdict = View(m) /\ undone' = [undone EXCEPT !.again = TRUE] /\ verdict' = View(m)
    BY <1>4 DEF CommitStreak, NothingUndone
  <2>2. /\ undone'.verdict = undone.verdict /\ undone'.bonus = undone.bonus
        /\ undone'.again /\ undone.latest
    BY <1>0, <2>1 DEF StreakTypeOK
  <2>3. /\ stage[m] = "read" /\ \A b \in BetsOn(m) : verdict[b] = "OPEN" /\ View(m)[b] # "OPEN"
        /\ \E b \in BetsOn(m) : b \in stamped
        /\ \A b \in Bets : On[b] # m => View(m)[b] = verdict[b]
    <3>1. stage[m] = "read"
      BY <1>4 DEF CommitStreak
    <3>2. \E b \in BetsOn(m) : b \in stamped
      BY <1>0, <3>1 DEF LockInv, StreakTypeOK, BetsOn
    <3>3. \A b \in BetsOn(m) : verdict[b] = "OPEN"
      BY <1>0, <3>1 DEF LockInv, BetsOn
    <3> QED
      BY <1>0, <3>1, <3>2, <3>3, ViewType
  <2>4. ~undone.again
    BY <2>1, <2>2, <2>3 DEF AgainInv
  <2>5. bonus = undone.bonus /\ TakenInv(undone.match)
    BY <2>2, <2>4 DEF AgainInv
  <2>6. undone.match = m
    <3>1. PICK b \in BetsOn(undone.match) : undone.verdict[b] # "OPEN" /\ verdict[b] = "OPEN"
      BY <2>5 DEF TakenInv, BetsOn
    <3> QED
      BY <2>1, <2>3, <3>1 DEF BetsOn
  <2>7. TakenInv(m) /\ run[m] = TrailingRun(undone.verdict, earlier)
    BY <2>1, <2>3, <2>5, <2>6 DEF RunInv
  <2>8. pay[m] = {k \in Milestones : k = run[m] /\ bonus[k] = 0}
    BY <2>3 DEF PayReached, Reached
  <2>9. pay[m] = {}
    <3>1. CASE \A b \in BetsOn(m) : ~Breaks(undone.verdict, b)
      <4>1. PICK v, f : v = undone.verdict /\ f = AtEnd(m, earlier)
        OBVIOUS
      <4>2. LastRun(m) = TrailingRun(v, f) /\ run[m] = TrailingRun(v, earlier)
        BY <2>7, <4>1 DEF LastRun
      <4>3. ASSUME NEW c \in Bets \ BetsOn(m), v[c] # "OPEN"
            PROVE  /\ \A b \in BetsOn(m) : c \in earlier[b] /\ c \in f[b]
                   /\ \A d \in Bets \ BetsOn(m) : v[d] # "OPEN" => (d \in earlier[c] <=> d \in f[c])
        <5>1. verdict[c] # "OPEN" /\ f[c] = earlier[c]
          BY <2>7, <4>1, <4>3 DEF TakenInv, AtEnd, BetsOn
        <5>2. \A b \in BetsOn(m) : b \in stamped
          BY <1>0, <2>3, ViewType
        <5>3. \A b \in BetsOn(m) : c \in earlier[b] /\ c \in f[b]
          BY <2>7, <4>1, <4>3, <5>1, <5>2 DEF TakenInv, AtEnd, BetsOn
        <5> QED
          BY <5>1, <5>3
      <4>4. \A b \in BetsOn(m) : ~Breaks(v, b)
        BY <3>1, <4>1
      <4>5. run[m] = LastRun(m)
        BY <4>2, <4>3, <4>4, RunOfLast
      <4>6. \A k \in Milestones : k <= LastRun(m) => bonus[k] = 1
        BY <2>7, <3>1 DEF TakenInv
      <4>7. run[m] <= LastRun(m)
        BY <1>0, <4>5 DEF StreakTypeOK
      <4> QED
        BY <2>8, <4>5, <4>6, <4>7
    <3>2. CASE \E b \in BetsOn(m) : Breaks(undone.verdict, b)
      <4>1. PICK b \in BetsOn(m) : Breaks(undone.verdict, b)
        BY <3>2
      <4>2. \A c \in Bets \ BetsOn(m) : undone.verdict[c] # "OPEN" => b \notin earlier[c]
        BY <2>7, <4>1 DEF TakenInv, BetsOn
      <4>3. \A c, d \in BetsOn(m) : undone.verdict[c] = "WON" /\ undone.verdict[d] = "WON" => c = d
        BY <2>7 DEF TakenInv
      <4>4. run[m] <= 1 /\ run[m] \in Nat
        BY <1>0, <2>7, <4>1, <4>2, <4>3, RunBroken DEF StreakTypeOK
      <4>5. run[m] \notin Milestones
        BY <1>0, <4>4 DEF StreakAssumption
      <4> QED
        BY <2>8, <4>5
    <3> QED
      BY <3>1, <3>2
  <2>10. bonus' = bonus
    BY <1>0, <1>4, <2>9 DEF CommitStreak, StreakTypeOK
  <2> QED
    BY <2>1, <2>2, <2>5, <2>10 DEF AgainInv
\* The last of the settled matches is taken back: all others were before it.
<1>5. ASSUME NEW m \in Matches, Reverse(m) PROVE AgainInv'
  <2>1. /\ undone'.match = m /\ ~undone'.again /\ undone'.verdict = verdict /\ undone'.bonus = bonus
        /\ ~resettled /\ ~Duplicated
        /\ \A b \in BetsOn(m), c \in Bets : On[c] # m => b \notin earlier[c]
    BY <1>5 DEF Reverse
  <2>2. /\ verdict' = [b \in Bets |-> IF On[b] = m THEN "OPEN" ELSE verdict[b]]
        /\ UNCHANGED <<bonus, stage, stamped>>
        /\ earlier' = [c \in Bets |-> IF On[c] = m THEN {} ELSE earlier[c] \ BetsOn(m)]
        /\ \E b \in BetsOn(m) : verdict[b] # "OPEN"
    BY <1>5 DEF Reverse, Unsettle
  <2>3. \A b \in BetsOn(m) : verdict[b] # "OPEN" /\ b \notin stamped
    BY <1>0, <2>2 DEF LockInv, BetsOn
  <2>4. \A b, c \in BetsOn(m) : verdict[b] = "WON" /\ verdict[c] = "WON" => b = c
    BY <2>1 DEF Duplicated, BetsOn
  <2>5. ASSUME \A b \in BetsOn(m) : ~Breaks(verdict, b), NEW k \in Milestones, k <= LastRun(m)'
        PROVE  bonus[k] = 1
    <3>1. PICK v, f : v = verdict /\ f = AtEnd(m, earlier')
      OBVIOUS
    <3>2. LastRun(m)' = TrailingRun(v, f)
      BY <2>1, <3>1 DEF LastRun, TrailingRun, RunBets, Breaks, AtEnd, BetsOn
    <3>3. ASSUME NEW c \in Bets \ BetsOn(m), v[c] # "OPEN"
          PROVE  /\ \A b \in BetsOn(m) : c \in earlier[b] /\ c \in f[b]
                 /\ \A d \in Bets \ BetsOn(m) : v[d] # "OPEN" => (d \in earlier[c] <=> d \in f[c])
      <4>1. \A b \in BetsOn(m) : c \in earlier[b]
        BY <2>1, <2>3, <3>1, <3>3 DEF OrderInv, Placed, BetsOn
      <4>2. f[c] = earlier[c] \ BetsOn(m) /\ \A b \in BetsOn(m) : c \in f[b]
        BY <2>2, <3>1, <3>3 DEF AtEnd, BetsOn
      <4> QED
        BY <4>1, <4>2
    <3>4. TrailingRun(v, earlier) = TrailingRun(v, f)
      <4>1. \A b \in BetsOn(m) : ~Breaks(v, b)
        BY <2>5, <3>1
      <4> QED
        BY <3>3, <4>1, RunOfLast
    <3>5. streak = TrailingRun(v, earlier)
      BY <2>1, <3>1 DEF RunInv, StreakShowsRun
    <3> QED
      BY <2>1, <2>5, <3>2, <3>4, <3>5 DEF MilestoneNotSkipped
  <2>6. TakenInv(m)'
    <3>1. \A b \in Bets : verdict'[b] = IF On[b] = m THEN "OPEN" ELSE undone'.verdict[b]
      BY <2>1, <2>2
    <3>2. \A b \in BetsOn(m), c \in Bets : verdict'[c] # "OPEN" =>
             b \notin earlier'[c] /\ (b \in stamped' => c \in earlier'[b])
      BY <2>2, <2>3
    <3>3. (\A b \in BetsOn(m) : ~Breaks(undone'.verdict, b))
             => \A k \in Milestones : k <= LastRun(m)' => bonus'[k] = 1
      BY <2>1, <2>2, <2>5 DEF Breaks
    <3> QED
      BY <2>1, <2>2, <2>4, <3>1, <3>2, <3>3 DEF TakenInv, BetsOn, Breaks
  <2> QED
    BY <2>1, <2>2, <2>6 DEF AgainInv
<1>6. CASE UNCHANGED streakVars
  <2>1. UNCHANGED <<verdict, earlier, stamped, bonus, undone>>
    BY <1>6 DEF streakVars
  <2> QED
    BY <2>1 DEF AgainInv, TakenInv, LastRun, AtEnd, TrailingRun, RunBets, Breaks
<1> QED
  BY <1>0, <1>1, <1>2, <1>3, <1>4, <1>5, <1>6 DEF StreakNext, StreakAssumption

\* The last settled match taken back and settled again with the same verdicts leaves every
\* milestone's bonus as it was, whatever else begins or is rolled back meanwhile.
THEOREM SameWalletAgain == StreakSpec => []SameScoreSameWallet
<1>1. StreakInit => OrderInv /\ AgainInv /\ PayReached /\ MilestoneNotSkipped
  BY StreakAssumption
     DEF StreakInit, OrderInv, AgainInv, Placed, NothingUndone, PayReached, MilestoneNotSkipped
<1>2. AgainInv => SameScoreSameWallet
  BY DEF AgainInv, SameScoreSameWallet
<1> QED
  BY <1>1, <1>2, RunInit, PaidInit, PaidStep, RunStep, PayStep, SkipStep, OrderStep, AgainStep, PTL
     DEF StreakSpec
=============================================================================
