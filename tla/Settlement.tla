----------------------------- MODULE Settlement -----------------------------
(***************************************************************************)
(* Settling and re-settling one match: settleMatch and resettleMatch of    *)
(* packages/prediction/src/prediction-service.ts, called concurrently by   *)
(* the settlement worker and by administrators, while bets are placed.     *)
(*                                                                         *)
(* PostgreSQL runs every transaction at READ COMMITTED.  A transaction is  *)
(* modelled by the steps another transaction can observe: the check made   *)
(* before it opens, the statement that takes the match row's lock, the     *)
(* SELECT whose rows the rest of the transaction works from, and the       *)
(* commit, which publishes all its writes.  The writes between the SELECT  *)
(* and the commit are computed from what was selected and hold their row   *)
(* locks until the commit, so they take effect together, at the commit.    *)
(***************************************************************************)
EXTENDS Integers

CONSTANTS
    Workers,   \* callers of settleMatch (jobs of the settle queue)
    Admins,    \* callers of resettleMatch (the admin re-settle route)
    Preds,     \* the 1X2 bets users may place on the match, in any context
    Global,    \* those of the GLOBAL context: only they count in the ROI stats
    Scores,    \* the 90' scores a caller may settle with
    Payout,    \* Payout[p][s]: points bet p returns under score s
    Wins,      \* Wins[p][s]: whether bet p's outcome is the result of score s
    NoScore,   \* no Settlement row
    Nobody     \* the match row is not locked

Callers == Workers \union Admins

ASSUME ConstantsAssumption ==
    /\ Workers \intersect Admins = {}
    /\ Global \subseteq Preds
    /\ NoScore \notin Scores
    /\ Nobody \notin Callers
    /\ Payout \in [Preds -> [Scores -> Nat]]
    /\ Wins \in [Preds -> [Scores -> BOOLEAN]]

VARIABLES
    bettable,    \* the match row is SCHEDULED, its kick-off ahead, betting not locked
    settlement,  \* the score of the DONE Settlement row, or NoScore
    pred,        \* pred[p]: the Prediction row, status "ABSENT" before it exists
    placing,     \* bets whose placeBet has read the match row and not yet inserted
    ledger,      \* ledger[p]: sum of the SETTLE ledger rows that refer to bet p
    stats,       \* stats[p]: what bet p contributes to its user's ROI stats row
    lock,        \* the caller whose transaction holds the match row's lock
    pc,          \* where each caller stands
    arg,         \* the score each caller was called with
    seen,        \* the Prediction rows each caller's transaction selected
    crossed,     \* history: the callers whose reversal a settlement came between
    missed       \* history: the bets that became unsettled behind a settlement's SELECT

vars == <<bettable, settlement, pred, placing, ledger, stats,
          lock, pc, arg, seen, crossed, missed>>

Status == {"ABSENT", "OPEN", "LOCKED", "WON", "LOST"}
Row == [status : Status, payout : Nat]
Unsettled == {"OPEN", "LOCKED"}
Settled == {"WON", "LOST"}
Ended == {"idle", "done", "already", "failed"}
InFlight == {"check", "update", "read", "write", "reverse", "undo"}

NoBet == [status |-> "ABSENT", payout |-> 0]
NoRows == [p \in Preds |-> NoBet]
NoStats == [count |-> 0, returned |-> 0, wins |-> 0]

\* This module's type invariant.
TypeOK ==
    /\ bettable \in BOOLEAN
    /\ settlement \in Scores \union {NoScore}
    /\ pred \in [Preds -> Row]
    /\ placing \in SUBSET Preds
    /\ ledger \in [Preds -> Int]
    /\ stats \in [Preds -> [count : Int, returned : Int, wins : Int]]
    /\ lock \in Callers \union {Nobody}
    /\ pc \in [Callers -> Ended \union InFlight]
    /\ arg \in [Callers -> Scores \union {NoScore}]
    /\ seen \in [Callers -> [Preds -> Row]]
    /\ crossed \in SUBSET Admins
    /\ missed \in SUBSET Preds

Init ==
    /\ bettable = TRUE
    /\ settlement = NoScore
    /\ pred = NoRows
    /\ placing = {}
    /\ ledger = [p \in Preds |-> 0]
    /\ stats = [p \in Preds |-> NoStats]
    /\ lock = Nobody
    /\ pc = [c \in Callers |-> "idle"]
    /\ arg = [c \in Callers |-> NoScore]
    /\ seen = [c \in Callers |-> NoRows]
    /\ crossed = {}
    /\ missed = {}
-----------------------------------------------------------------------------
(* Bets. *)

\* placeBet reads the match row and finds the match open for betting.
CheckBettable(p) ==
    /\ pred[p].status = "ABSENT"
    /\ bettable
    /\ placing' = placing \union {p}
    /\ UNCHANGED <<bettable, settlement, pred, ledger, stats, lock, pc, arg,
                    seen, crossed, missed>>

\* The bets the SELECT of settleMatch returned to caller c.
ToSettleOpen(c) == {p \in Preds : seen[c][p].status = "OPEN"}
ToSettle(c) == {p \in Preds : seen[c][p].status \in Unsettled}

\* A settlement is past its SELECT, and the bet was not in it.
SelectedWithout(p) == \E c \in Callers : pc[c] = "write" /\ p \notin ToSettle(c)

\* placeBet inserts the OPEN prediction and commits, whatever the match row has become.
InsertBet(p) ==
    /\ p \in placing
    /\ placing' = placing \ {p}
    /\ pred' = [pred EXCEPT ![p] = [status |-> "OPEN", payout |-> 0]]
    /\ missed' = IF settlement # NoScore \/ SelectedWithout(p) THEN missed \union {p} ELSE missed
    /\ UNCHANGED <<bettable, settlement, ledger, stats, lock, pc, arg, seen, crossed>>

\* Kick-off passes, or an administrator or the lock job closes betting.
CloseBetting ==
    /\ bettable
    /\ bettable' = FALSE
    /\ UNCHANGED <<settlement, pred, placing, ledger, stats, lock, pc, arg, seen, crossed, missed>>

\* The feeds write status and kick-off as the provider has them, and an administrator
\* moves the kick-off or unlocks: the row may be open again, even behind a settlement.
\* (What they do to the score a job settles with is MatchPipeline's subject.)
RewriteMatch ==
    /\ lock = Nobody
    /\ bettable' = TRUE
    /\ UNCHANGED <<settlement, pred, placing, ledger, stats, lock, pc, arg, seen, crossed, missed>>
-----------------------------------------------------------------------------
(* settleMatch. *)

\* The settle job reads the score off the match row, as the feeds have it then, and
\* calls settleMatch; a stalled job is delivered again, so several calls may overlap.
\* The kick-off may have been moved since the job was queued: betting may be open.
CallSettle(c, s) ==
    /\ c \in Workers /\ pc[c] \in Ended
    /\ arg' = [arg EXCEPT ![c] = s]
    /\ pc' = [pc EXCEPT ![c] = "check"]
    /\ UNCHANGED <<bettable, settlement, pred, placing, ledger, stats, lock,
                    seen, crossed, missed>>

\* The guard outside the transaction: a DONE Settlement row ends the call.
CheckSettlement(c) ==
    /\ pc[c] = "check"
    /\ pc' = [pc EXCEPT ![c] = IF settlement # NoScore THEN "already" ELSE "update"]
    /\ UNCHANGED <<bettable, settlement, pred, placing, ledger, stats, lock, arg,
                    seen, crossed, missed>>

\* The transaction's first write, to the match row: it waits for the row's lock.
UpdateMatch(c) ==
    /\ pc[c] = "update"
    /\ lock = Nobody
    /\ lock' = c
    /\ pc' = [pc EXCEPT ![c] = "read"]
    /\ UNCHANGED <<bettable, settlement, pred, placing, ledger, stats, arg, seen,
                    crossed, missed>>

\* SELECT the match's predictions: while no settlement stands, none is missed so far.
SelectBets(c) ==
    /\ pc[c] = "read"
    /\ seen' = [seen EXCEPT ![c] = pred]
    /\ pc' = [pc EXCEPT ![c] = "write"]
    /\ missed' = IF settlement = NoScore THEN {} ELSE missed
    /\ UNCHANGED <<bettable, settlement, pred, placing, ledger, stats, lock, arg, crossed>>

\* What settling bet p under score s adds to the stats of a GLOBAL bet.
StatsOf(p, s) ==
    [count |-> 1, returned |-> Payout[p][s], wins |-> IF Wins[p][s] THEN 1 ELSE 0]

AddStats(a, b) ==
    [count |-> a.count + b.count, returned |-> a.returned + b.returned,
     wins |-> a.wins + b.wins]

\* The Settlement table's primary key lets one row of the match in.
SettlementKeyIgnored == TRUE
SettlementKeyFree == settlement = NoScore

\* The loop over the selected bets and the commit.  Inserting the Settlement
\* row succeeds because no other row has the match's key.
CommitSettle(c) ==
    /\ pc[c] = "write"
    /\ SettlementKeyFree
    /\ LET s == arg[c] IN
       /\ pred' = [p \in Preds |->
             IF p \in ToSettle(c)
             THEN [status |-> IF Wins[p][s] THEN "WON" ELSE "LOST", payout |-> Payout[p][s]]
             ELSE pred[p]]
       /\ ledger' = [p \in Preds |->
             IF p \in ToSettle(c) THEN ledger[p] + Payout[p][s] ELSE ledger[p]]
       /\ stats' = [p \in Preds |->
             IF p \in ToSettle(c) \intersect Global
             THEN AddStats(stats[p], StatsOf(p, s)) ELSE stats[p]]
       /\ settlement' = s
    /\ lock' = Nobody
    /\ pc' = [pc EXCEPT ![c] = "done"]
    /\ seen' = [seen EXCEPT ![c] = NoRows]
    /\ bettable' = FALSE
    /\ crossed' = crossed \union {d \in Admins : pc[d] = "undo"}
    /\ missed' = missed \ ToSettle(c)
    /\ UNCHANGED <<placing, arg>>

\* PostgreSQL releases the locks of a transaction that ends.
Release(c) == IF lock = c THEN Nobody ELSE lock

\* The Settlement row to insert is there already, or the one to delete is gone: the
\* statement throws, and everything rolls back.
RowInTheWay(c) == pc[c] = "write" /\ settlement # NoScore
RowMissing(c) == pc[c] = "undo" /\ settlement = NoScore

SettlementRefusedRetries(c) ==
    /\ RowInTheWay(c) \/ RowMissing(c)
    /\ lock' = Release(c)
    /\ pc' = [pc EXCEPT ![c] = IF @ = "write" THEN "update" ELSE "failed"]
    /\ seen' = [seen EXCEPT ![c] = NoRows]
    /\ UNCHANGED <<bettable, settlement, pred, placing, ledger, stats, arg, crossed, missed>>
SettlementRefused(c) ==
    /\ RowInTheWay(c) \/ RowMissing(c)
    /\ lock' = Release(c)
    /\ pc' = [pc EXCEPT ![c] = "failed"]
    /\ seen' = [seen EXCEPT ![c] = NoRows]
    /\ UNCHANGED <<bettable, settlement, pred, placing, ledger, stats, arg, crossed, missed>>
-----------------------------------------------------------------------------
(* resettleMatch: undo the settlement, then call settleMatch. *)

\* The route checks the caller is an administrator, and nothing of the match.
CallResettle(c, s) ==
    /\ c \in Admins /\ pc[c] \in Ended
    /\ arg' = [arg EXCEPT ![c] = s]
    /\ pc' = [pc EXCEPT ![c] = IF settlement # NoScore THEN "reverse" ELSE "check"]
    /\ UNCHANGED <<bettable, settlement, pred, placing, ledger, stats, lock,
                    seen, crossed, missed>>

SelectSettled(c) ==
    /\ pc[c] = "reverse"
    /\ seen' = [seen EXCEPT ![c] = pred]
    /\ pc' = [pc EXCEPT ![c] = "undo"]
    /\ UNCHANGED <<bettable, settlement, pred, placing, ledger, stats, lock, arg,
                    crossed, missed>>

\* The bets the SELECT of resettleMatch returned to caller c.
ToReverseGlobalOnly(c) == {p \in Global : seen[c][p].status \in Settled}
ToReverse(c) == {p \in Preds : seen[c][p].status \in Settled}

\* The row r once it is reversed: LOCKED, nothing paid, settledAt cleared.
ReversedRowKeepsPayout(r) == [r EXCEPT !.status = "LOCKED"]
ReversedRow(r) == [status |-> "LOCKED", payout |-> 0]

\* What reversing the selected row r takes from the stats of a GLOBAL bet.
Reversal(r) ==
    [count |-> -1, returned |-> -r.payout, wins |-> IF r.status = "WON" THEN -1 ELSE 0]

\* Claw back the selected payouts, return the bets to LOCKED, delete the row.
CommitReverse(c) ==
    /\ pc[c] = "undo"
    /\ settlement # NoScore
    /\ pred' = [p \in Preds |->
          IF p \in ToReverse(c) THEN ReversedRow(seen[c][p]) ELSE pred[p]]
    /\ ledger' = [p \in Preds |->
          IF p \in ToReverse(c) THEN ledger[p] - seen[c][p].payout ELSE ledger[p]]
    /\ stats' = [p \in Preds |->
          IF p \in ToReverse(c) \intersect Global
          THEN AddStats(stats[p], Reversal(seen[c][p])) ELSE stats[p]]
    /\ settlement' = NoScore
    /\ pc' = [pc EXCEPT ![c] = "check"]
    /\ seen' = [seen EXCEPT ![c] = NoRows]
    /\ missed' = missed \union {p \in ToReverse(c) : SelectedWithout(p)}
    /\ UNCHANGED <<bettable, placing, lock, arg, crossed>>

\* The process dies, or the database aborts the transaction (a deadlock, the
\* interactive transaction's timeout): what was not committed is rolled back.
Crash(c) ==
    /\ pc[c] \in InFlight
    /\ pc' = [pc EXCEPT ![c] = "failed"]
    /\ lock' = Release(c)
    /\ seen' = [seen EXCEPT ![c] = NoRows]
    /\ UNCHANGED <<bettable, settlement, pred, placing, ledger, stats, arg, crossed, missed>>
-----------------------------------------------------------------------------
Step(c) ==
    \/ CheckSettlement(c)
    \/ UpdateMatch(c)
    \/ SelectBets(c)
    \/ CommitSettle(c)
    \/ SelectSettled(c)
    \/ CommitReverse(c)
    \/ SettlementRefused(c)

Next ==
    \/ \E p \in Preds : CheckBettable(p) \/ InsertBet(p)
    \/ CloseBetting \/ RewriteMatch
    \/ \E c \in Callers :
          \/ \E s \in Scores : CallSettle(c, s) \/ CallResettle(c, s)
          \/ Step(c)
          \/ Crash(c)

Spec == Init /\ [][Next]_vars

\* Node runs every call that has started, and PostgreSQL grants a row lock to
\* its waiters in turn, so a caller that waits again and again is served.
Fairness ==
    \A c \in Callers :
        /\ WF_vars(Step(c))
        /\ SF_vars(UpdateMatch(c))

FairSpec == Spec /\ Fairness
-----------------------------------------------------------------------------
(* Properties. *)

\* However many workers race and wherever they crash, the net of the SETTLE
\* ledger rows of a bet is the payout its row shows: a bet is never paid twice
\* and a re-settle takes back exactly what was paid - unless another settlement
\* came between the reversal's selection and its commit, which takes a second
\* administrator.
LedgerMatchesPayout == crossed = {} => \A p \in Preds : ledger[p] = pred[p].payout

\* The ROI stats count a bet once while it is settled and not at all otherwise,
\* and count only GLOBAL bets, with the same exception.
StatsMatchBets ==
    crossed = {} => \A p \in Preds :
        stats[p] = IF p \in Global /\ pred[p].status \in Settled
                   THEN [count |-> 1, returned |-> pred[p].payout,
                         wins |-> IF pred[p].status = "WON" THEN 1 ELSE 0]
                   ELSE NoStats

\* While a Settlement row stands, its score explains everything that was paid, and no
\* bet is left OPEN or LOCKED behind it, with two exceptions: a settlement that came
\* between the halves of a reversal, and the bets that were inserted, or reopened by a
\* reversal, behind the SELECT of the settlement.  So what a crash between a reversal
\* and its new settlement leaves LOCKED, the next settlement takes.
OneScorePaid ==
    /\ settlement # NoScore => \A p \in Preds : pred[p].status \in Unsettled => p \in missed
    /\ crossed = {} => \A p \in Preds : pred[p].status \in Settled =>
          /\ settlement # NoScore
          /\ pred[p] = [status |-> IF Wins[p][settlement] THEN "WON" ELSE "LOST",
                        payout |-> Payout[p][settlement]]

\* The inductive strengthening of the three invariants above.
ArgGiven == \A c \in Callers : pc[c] \in InFlight => arg[c] \in Scores

\* The match row's lock serialises settlements from their first write to their commit.
LockHeld == \A c \in Callers : lock = c <=> pc[c] \in {"read", "write"}

PlacingAbsent == \A p \in placing : pred[p] = NoBet

UnsettledUnpaid == \A p \in Preds : pred[p].status \notin Settled => pred[p].payout = 0

\* The unsettled bets a settlement selected are still as it selected them.
SettleSelection ==
    \A c \in Callers : pc[c] = "write" =>
        \A p \in Preds : seen[c][p].status \in Unsettled => pred[p] = seen[c][p]

\* While there is a settlement, the settled bets are those a reversal selected: another
\* reversal ends the settlement, and a later settlement crosses this one.
ReverseSelection ==
    settlement # NoScore =>
        \A c \in Admins : pc[c] = "undo" =>
            \A p \in Preds :
                seen[c][p].status \in Settled \/ pred[p].status \in Settled
                    => pred[p] = seen[c][p]

\* A settlement about to commit has selected every unsettled bet but the missed ones.
NoneMissedSoFar ==
    \A c \in Callers : pc[c] = "write" =>
        \A p \in Preds : pred[p].status \in Unsettled => p \in ToSettle(c) \union missed

\* What holds whatever crosses.
RowsSound ==
    /\ TypeOK
    /\ ArgGiven
    /\ LockHeld
    /\ UnsettledUnpaid
    /\ \A c \in Callers : pc[c] \in {"reverse", "undo"} => c \in Admins
    /\ NoneMissedSoFar
    /\ settlement # NoScore => \A p \in Preds : pred[p].status \in Unsettled => p \in missed

IInv ==
    /\ RowsSound
    /\ crossed = {} => PlacingAbsent /\ SettleSelection /\ ReverseSelection
    /\ LedgerMatchesPayout
    /\ StatsMatchBets
    /\ OneScorePaid

\* A settled bet never changes its verdict directly: it is first returned to
\* LOCKED with its payout taken back, unless settlements crossed.
VerdictsOnlyReversed ==
    [][crossed' = {} => \A p \in Preds : pred[p].status \in Settled /\ pred'[p] # pred[p] =>
          pred'[p] = [status |-> "LOCKED", payout |-> 0]]_vars

\* Whatever crosses, a score that has been settled with is never overwritten by
\* another one: it has to be reversed first.
ScoreNotOverwritten ==
    [][settlement # NoScore /\ settlement' # settlement => settlement' = NoScore]_vars

\* It takes two administrators for anything to cross: while one reverses a
\* settlement, its row keeps the settle jobs out.
CrossingTakesTwo == crossed # {} => \E a, b \in Admins : a # b
KeptOut == \A a \in Admins : pc[a] \in {"reverse", "undo"} => settlement # NoScore

\* Every call of settleMatch or resettleMatch returns: no caller waits forever
\* for the match row's lock.
CallsReturn == \A c \in Callers : pc[c] \in InFlight ~> pc[c] \in Ended

\* The rows of the database, whatever the callers do, behave as the one-score
\* settlement of SettleOnce: the Settlement row is the decision, the bets with a
\* verdict are those it took, and the SETTLE ledger rows are the credits.
SettledBets == {p \in Preds : pred[p].status \in Settled}
Once == INSTANCE SettleOnce WITH decided <- settlement, taken <- SettledBets,
                                 credit <- ledger, void <- crossed # {}
ImplementsSettleOnce == Once!Spec
=============================================================================
