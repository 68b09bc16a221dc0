----------------------------- MODULE WinStreak ------------------------------
(***************************************************************************)
(* One user's win streak and its milestone bonuses: recomputeWinStreak of  *)
(* packages/prediction/src/prediction-service.ts, run once at the end of   *)
(* every settlement that settled a GLOBAL bet of the user.  A settlement   *)
(* settles all the user's bets on its match: the hedges that placeBet      *)
(* allows, and the same outcome twice when two of its calls overlapped.    *)
(* Settlements of different matches overlap, and a re-settle may take the  *)
(* verdicts of a match back.                                               *)
(*                                                                         *)
(* What orders two overlapping settlements of one user is the row lock     *)
(* that the first upsert of PredictionUserStats takes before the streak is *)
(* read, and that the transaction holds until it commits.  (A payout locks *)
(* the user's wallet even earlier; that lock only delays more and is left  *)
(* out; a deadlock over the two rows is a transaction rolled back.)        *)
(***************************************************************************)
EXTENDS Integers, FiniteSets

CONSTANTS
    Bets,       \* the user's GLOBAL bets, all placed before their match starts
    Matches,
    On,         \* On[b]: the match of the bet
    Outcomes,   \* result90: HOME, DRAW, AWAY
    Pick,       \* Pick[b]: the outcome it is on
    Shielded,   \* the bets placed with a STREAK_SHIELD
    Milestones, \* the streaks that earn a bonus
    NoHolder    \* no transaction holds the stats row's lock

\* WIN_STREAK_MILESTONES are 5 and 10; no milestone is a single win.
ASSUME StreakAssumption ==
    /\ IsFiniteSet(Bets) /\ Shielded \subseteq Bets
    /\ On \in [Bets -> Matches] /\ Pick \in [Bets -> Outcomes]
    /\ Outcomes # {}
    /\ Milestones \subseteq Nat \ {0, 1}
    /\ NoHolder \notin Matches

VARIABLES
    verdict,   \* verdict[b]: the bet's committed status, OPEN standing for LOCKED too
    earlier,   \* earlier[b]: the bets whose settledAt is before b's
    streak,    \* the winStreak column
    bonus,     \* bonus[k]: BONUS ledger rows for milestone k
    stage,     \* stage[m]: where the transaction that settles m stands
    stamped,   \* the bets updated by a transaction that has not ended
    result,    \* result[m]: the outcome it settles by
    statsLock, \* the match whose transaction holds the user's stats row
    run,       \* run[m]: the streak it computed
    pay,       \* pay[m]: the milestones it found reached and unpaid
    resettled, \* whether a verdict has been taken back
    undone     \* the latest reversal, while only its own re-settle has followed; latest: of the
               \* last settled match, no verdict taken back and no two bets of a match won before

streakVars == <<verdict, earlier, streak, bonus, stage, stamped, result, statsLock, run, pay,
                resettled, undone>>
history == <<resettled, undone>>

Verdict == {"WON", "LOST"}
AnyOutcome == CHOOSE r \in Outcomes : TRUE
NothingUndone == [match |-> NoHolder, again |-> FALSE, latest |-> FALSE,
                  verdict |-> [b \in Bets |-> "OPEN"], bonus |-> [k \in Milestones |-> 0]]

StreakTypeOK ==
    /\ verdict \in [Bets -> Verdict \union {"OPEN"}]
    /\ earlier \in [Bets -> SUBSET Bets]
    /\ streak \in Nat
    /\ bonus \in [Milestones -> Nat]
    /\ stage \in [Matches -> {"idle", "stamped", "locked", "read"}]
    /\ stamped \subseteq Bets
    /\ result \in [Matches -> Outcomes]
    /\ statsLock \in Matches \union {NoHolder}
    /\ run \in [Matches -> Nat]
    /\ pay \in [Matches -> SUBSET Milestones]
    /\ resettled \in BOOLEAN
    /\ undone \in [match : Matches \union {NoHolder}, again : BOOLEAN, latest : BOOLEAN,
                   verdict : [Bets -> Verdict \union {"OPEN"}], bonus : [Milestones -> Nat]]

StreakInit ==
    /\ verdict = [b \in Bets |-> "OPEN"]
    /\ earlier = [b \in Bets |-> {}]
    /\ streak = 0
    /\ bonus = [k \in Milestones |-> 0]
    /\ stage = [m \in Matches |-> "idle"]
    /\ stamped = {}
    /\ result = [m \in Matches |-> AnyOutcome]
    /\ statsLock = NoHolder
    /\ run = [m \in Matches |-> 0]
    /\ pay = [m \in Matches |-> {}]
    /\ resettled = FALSE
    /\ undone = NothingUndone

\* The trailing run of wins under verdicts v and order e: the WON bets with no
\* loss after them, a shielded loss not counting as one.
Breaks(v, b) == v[b] = "LOST" /\ b \notin Shielded
RunBets(v, e) ==
    {b \in Bets : v[b] = "WON" /\ \A c \in Bets : Breaks(v, c) => c \in e[b]}
TrailingRun(v, e) == Cardinality(RunBets(v, e))

BetsOn(m) == {b \in Bets : On[b] = m}

\* The verdicts that the transaction of m sees: what is committed, and its own updates.
View(m) ==
    [b \in Bets |-> IF On[b] = m /\ b \in stamped
                    THEN IF Pick[b] = result[m] THEN "WON" ELSE "LOST" ELSE verdict[b]]

\* A bet without settledAt is not among the settled ones.
Unsettle(m) ==
    earlier' = [c \in Bets |-> IF On[c] = m THEN {} ELSE earlier[c] \ BetsOn(m)]
-----------------------------------------------------------------------------
(* settleMatch, as far as this user's bets on the match m are concerned. *)

\* The transaction updates the next Prediction row of its match; settledAt is the
\* time of the update.
Stamp(b) ==
    /\ b \notin stamped
    /\ stamped' = stamped \union {b}
    /\ earlier' = [earlier EXCEPT ![b] = {d \in Bets : verdict[d] # "OPEN" \/ d \in stamped}]
    /\ UNCHANGED <<verdict, streak, bonus, statsLock, run, pay, history>>

\* The first one; the match has no Settlement.
StampFirst(b, r) ==
    /\ stage[On[b]] = "idle" /\ verdict[b] = "OPEN"
    /\ stage' = [stage EXCEPT ![On[b]] = "stamped"]
    /\ result' = [result EXCEPT ![On[b]] = r]
    /\ Stamp(b)

\* After each it upserts the user's stats row: the first time it waits for a
\* transaction that holds it, and from then on it holds it itself.
StatsUnlocked == TRUE
StatsFree == statsLock = NoHolder
Upsert(m) ==
    /\ stage[m] = "stamped"
    /\ StatsFree
    /\ statsLock' = m
    /\ stage' = [stage EXCEPT ![m] = "locked"]
    /\ UNCHANGED <<verdict, earlier, streak, bonus, stamped, result, run, pay, history>>

StampNext(b) ==
    /\ stage[On[b]] = "locked"
    /\ UNCHANGED <<stage, result>>
    /\ Stamp(b)

\* After the last one it reads the settled bets and the bonuses already paid.
ReachedPassed(n) == {k \in Milestones : k < n /\ bonus[k] = 0}
ReachedEachTime(n) == {k \in Milestones : k = n}
Reached(n) == {k \in Milestones : k = n /\ bonus[k] = 0}
Recompute(m) ==
    /\ stage[m] = "locked" /\ BetsOn(m) \subseteq stamped
    /\ run' = [run EXCEPT ![m] = TrailingRun(View(m), earlier)]
    /\ pay' = [pay EXCEPT ![m] = Reached(TrailingRun(View(m), earlier))]
    /\ stage' = [stage EXCEPT ![m] = "read"]
    /\ UNCHANGED <<verdict, earlier, streak, bonus, stamped, result, statsLock, history>>

\* The transaction of m is over.
Ends(m) ==
    /\ stage[m] # "idle"
    /\ stage' = [stage EXCEPT ![m] = "idle"]
    /\ stamped' = stamped \ BetsOn(m)
    /\ result' = [result EXCEPT ![m] = AnyOutcome]
    /\ statsLock' = IF statsLock = m THEN NoHolder ELSE statsLock
    /\ run' = [run EXCEPT ![m] = 0]
    /\ pay' = [pay EXCEPT ![m] = {}]

\* It commits: the verdicts, the streak row and the bonuses.
CommitStreak(m) ==
    /\ stage[m] = "read"
    /\ verdict' = View(m)
    /\ streak' = run[m]
    /\ bonus' = [k \in Milestones |-> IF k \in pay[m] THEN bonus[k] + 1 ELSE bonus[k]]
    /\ undone' = IF undone.verdict = View(m)
                 THEN [undone EXCEPT !.again = TRUE] ELSE NothingUndone
    /\ Ends(m)
    /\ UNCHANGED <<earlier, resettled>>

\* It is rolled back.
Abort(m) ==
    /\ Ends(m)
    /\ Unsettle(m)
    /\ UNCHANGED <<verdict, streak, bonus, history>>

\* Two bets of one match won: the same outcome was bet twice.
Duplicated ==
    \E b, c \in Bets : b # c /\ On[b] = On[c] /\ verdict[b] = "WON" /\ verdict[c] = "WON"

\* resettleMatch's first transaction takes the verdicts of m back.  It updates the
\* stats row, so it too waits for its lock; it leaves the streak and the bonuses alone.
Reverse(m) ==
    /\ \E b \in BetsOn(m) : verdict[b] # "OPEN"
    /\ StatsFree
    /\ verdict' = [b \in Bets |-> IF On[b] = m THEN "OPEN" ELSE verdict[b]]
    /\ Unsettle(m)
    /\ resettled' = TRUE
    /\ undone' = [match |-> m, again |-> FALSE, verdict |-> verdict, bonus |-> bonus,
                  latest |-> /\ ~resettled /\ ~Duplicated
                             /\ \A b \in BetsOn(m), c \in Bets : On[c] # m => b \notin earlier[c]]
    /\ UNCHANGED <<streak, bonus, stage, stamped, result, statsLock, run, pay>>

StreakNext ==
    \/ \E b \in Bets : (\E r \in Outcomes : StampFirst(b, r)) \/ StampNext(b)
    \/ \E m \in Matches :
          \/ Upsert(m)
          \/ Recompute(m)
          \/ CommitStreak(m)
          \/ Abort(m)
          \/ Reverse(m)

StreakSpec == StreakInit /\ [][StreakNext]_streakVars
-----------------------------------------------------------------------------
(* Properties. *)

\* "paid at most once per milestone tier EVER (per user)": overlapping
\* settlements and re-settles never pay a milestone twice.
MilestonePaidOnce == \A k \in Milestones : bonus[k] <= 1

\* The streak row is the trailing run of the committed bets, although a settlement
\* reads them before it commits - but between a reversal, which leaves the row
\* alone, and the next settlement's commit.
Stale == undone.match # NoHolder /\ ~undone.again
StreakShowsRun == ~Stale => streak = TrailingRun(verdict, earlier)

\* A milestone that was reached has been paid: no streak jumps over one, although a
\* settlement computes it once for several bets - as long as no verdict was taken back
\* and no match was won twice.  (Hedges win once at most.)
MilestoneNotSkipped ==
    ~resettled /\ ~Duplicated => \A k \in Milestones : k <= streak => bonus[k] = 1

\* The inductive strengthenings: who has read the rows holds the lock, and what it
\* read is still so when it commits.
LockInv ==
    /\ \A m \in Matches : stage[m] \in {"locked", "read"} => statsLock = m
    /\ \A b \in Bets : stage[On[b]] # "idle" => verdict[b] = "OPEN"
    /\ \A b \in stamped : stage[On[b]] # "idle"
    /\ \A m \in Matches : stage[m] # "idle" => \E b \in stamped : On[b] = m
    /\ \A b \in Bets : stage[On[b]] = "read" => b \in stamped
    /\ \A b, c \in Bets : On[b] = On[c] /\ verdict[b] = "OPEN" => verdict[c] = "OPEN"
PayInv == \A m \in Matches : stage[m] = "read" => \A k \in pay[m] : bonus[k] = 0
PaidInv == StreakTypeOK /\ LockInv /\ PayInv /\ MilestonePaidOnce
RunInv ==
    /\ \A m \in Matches : stage[m] = "read" => run[m] = TrailingRun(View(m), earlier)
    /\ ~resettled => ~Stale
    /\ StreakShowsRun
PayReached == \A m \in Matches : stage[m] = "read" => pay[m] = Reached(run[m])

\* "re-running with the same score produces the same wallet/stat state": it does
\* for the last settled match, as the first one ever reversed: its bets keep their
\* place in the order, though not among themselves.  (An earlier match moves to the
\* end, and the run may grow past a milestone that was never reached.)
SameScoreSameWallet == undone.again /\ undone.latest => bonus = undone.bonus
=============================================================================
