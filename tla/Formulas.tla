------------------------------ MODULE Formulas ------------------------------
(***************************************************************************)
(* The functions without state: what a bet pays (packages/core scoring.ts  *)
(* and the power-ups of settleMatch), the predictor's tier, the HOT_STREAK *)
(* achievement, the group standings (apps/web/lib/tournament.ts) and the   *)
(* configuration of the scheduled jobs (packages/pipeline job-config.ts).  *)
(*                                                                         *)
(* A behaviour is one call; `answer` holds its arguments and its result,   *)
(* and the properties compare it with what the function is for.  Of the    *)
(* two functions that loop over rows every turn is a step: after each the  *)
(* answer is that for the rows read so far.                                *)
(***************************************************************************)
EXTENDS Integers, Sequences, FiniteSets

CONSTANTS
    Stakes,      \* points
    Odds,        \* decimal odds, in hundredths
    Goals,       \* goals a team may score
    Profits,     \* net profits, for the tiers
    History,     \* bound: the bets of a history
    Pairs,       \* home and away team of the group's matches, 0 for one not drawn yet
    Games,       \* bound: the matches of the group
    Fields,      \* the numeric fields of a job's configuration
    Bound,       \* BOUNDS: the least and the greatest value of each
    Default,     \* JOB_DEFAULTS
    Values,      \* values a request or a hand-edited row may give a field
    Junk         \* a value that is no finite number

ASSUME FormulasAssumption ==
    /\ Stakes \subseteq Nat /\ Odds \subseteq Nat /\ Goals \subseteq Nat /\ Profits \subseteq Int
    /\ Bound \in [Fields -> Nat \X Nat] /\ Default \in [Fields -> Nat]
    /\ \A f \in Fields : Bound[f][1] <= Default[f] /\ Default[f] <= Bound[f][2]
    /\ Pairs \subseteq (0..3) \X (0..3) /\ \A pair \in Pairs : pair[1] # pair[2]
    /\ Values \subseteq Int /\ Junk \notin Int

VARIABLE answer  \* the call made, and what it returned

NoAnswer == [of |-> "none"]
-----------------------------------------------------------------------------
(* What a bet pays. *)

Result1x2(home, away) == IF home > away THEN "1" ELSE IF home < away THEN "2" ELSE "X"

\* Math.round(n/d): a half goes up.
Rounded(n, d) == (2 * n + d) \div (2 * d)
\* Of a product with odds, which are floats: where the exact product ends in a half
\* the float may lie just below it (50 * 1.15 is 57.49999999999999).
RoundedProduct(n, d) ==
    {Rounded(n, d)} \union (IF (2 * n) % (2 * d) = d THEN {Rounded(n, d) - 1} ELSE {})

Payout1x2(stake, odds) == RoundedProduct(stake * odds, 100)
\* (A product with the rate 0.15 that ends in a half is one as a float, too.)
IsUnderdogBelow(odds) == odds <= 200
IsUnderdog(odds) == odds >= 200
UnderdogBonus(odds, base) == IF IsUnderdog(odds) THEN Rounded(base * 15, 100) ELSE 0

\* The bonus of the exact score, at the rate of 1, in the knockout rounds only.
ExactBonus(b) == IF b.knockout /\ b.exact THEN b.stake ELSE 0

\* What settleBet returns for a bet that won, and what settleMatch credits for it:
\* a bet is [stake, odds, pick, home, away, knockout, exact, powerUp].
Won(b) == b.pick = Result1x2(b.home, b.away)
Winnings(b) ==
    {base + ExactBonus(b) + UnderdogBonus(b.odds, base) : base \in Payout1x2(b.stake, b.odds)}
CreditedWithoutStake(b) ==
    IF Won(b) THEN {x - b.stake : x \in Winnings(b)} ELSE {0}
Credited(b) ==
    IF Won(b)
    THEN {IF b.powerUp = "DOUBLE_DOWN" THEN 2 * x ELSE x : x \in Winnings(b)}
    ELSE {IF b.powerUp = "INSURANCE" THEN b.stake ELSE 0}

Bets == [stake : Stakes, odds : Odds, pick : {"1", "X", "2"}, home : Goals, away : Goals,
         knockout : BOOLEAN, exact : BOOLEAN, powerUp : {"none", "DOUBLE_DOWN", "INSURANCE"}]
SettleBet ==
    \E b \in Bets : \E points \in Credited(b) :
        answer' = [of |-> "settle", bet |-> b, points |-> points]
-----------------------------------------------------------------------------
(* The predictor's tier: the first step that the profit does not reach. *)

Steps == <<1000, 3000, 8000, 20000, 50000>>
Tier(net) == Cardinality({i \in 1..5 : net >= Steps[i]})
ToNextFromHere(net) == IF Tier(net) = 5 THEN 0 ELSE Steps[Tier(net) + 1]
ToNext(net) == IF Tier(net) = 5 THEN 0 ELSE Steps[Tier(net) + 1] - net

PredictorTier ==
    \E net \in Profits :
        answer' = [of |-> "tier", net |-> net, tier |-> Tier(net), toNext |-> ToNext(net)]
-----------------------------------------------------------------------------
(* HOT_STREAK: one pass over the settled bets, oldest first. *)

CountVoid(acc, verdict) ==
    LET n == IF verdict # "LOST" THEN acc.current + 1 ELSE 0
    IN [of |-> "streak", verdicts |-> Append(acc.verdicts, verdict),
        current |-> n, best |-> IF n > acc.best THEN n ELSE acc.best]
CountWin(acc, verdict) ==
    LET n == IF verdict = "WON" THEN acc.current + 1 ELSE 0
    IN [of |-> "streak", verdicts |-> Append(acc.verdicts, verdict),
        current |-> n, best |-> IF n > acc.best THEN n ELSE acc.best]

ComputeHotStreak == answer' = [of |-> "streak", verdicts |-> <<>>, current |-> 0, best |-> 0]
CountNext ==
    /\ answer.of = "streak" /\ Len(answer.verdicts) < History
    /\ \E verdict \in {"WON", "LOST", "VOID"} : answer' = CountWin(answer, verdict)
-----------------------------------------------------------------------------
(* The table of one group of three teams.  Team 0 is the feed's placeholder for a *)
(* team that has not been drawn; NoGoals is a FINISHED match without a score.     *)

Teams == 1..3
NoGoals == -1
StandingRow == [played : Int, won : Int, drawn : Int, lost : Int, gf : Int, ga : Int, pts : Int]
EmptyRow == [played |-> 0, won |-> 0, drawn |-> 0, lost |-> 0, gf |-> 0, ga |-> 0, pts |-> 0]

\* A row after a match with these goals for and against.
Add(row, for, against) ==
    [played |-> row.played + 1,
     won |-> row.won + (IF for > against THEN 1 ELSE 0),
     drawn |-> row.drawn + (IF for = against THEN 1 ELSE 0),
     lost |-> row.lost + (IF for < against THEN 1 ELSE 0),
     gf |-> row.gf + for, ga |-> row.ga + against,
     pts |-> row.pts + (IF for > against THEN 3 ELSE IF for = against THEN 1 ELSE 0)]
CountsAlways(m) == m.home \in Teams \/ m.away \in Teams
Counts(m) == {m.home, m.away} \subseteq Teams /\ NoGoals \notin {m.hs, m.as}
Play(rows, m) ==
    IF Counts(m) THEN [t \in Teams |-> IF t = m.home THEN Add(rows[t], m.hs, m.as)
                                       ELSE IF t = m.away THEN Add(rows[t], m.as, m.hs)
                                       ELSE rows[t]]
    ELSE rows

Diff(row) == row.gf - row.ga
\* sort: points, goal difference, goals, and the name (here the team's number).
Before(rows, t, u) ==
    \/ rows[t].pts > rows[u].pts
    \/ /\ rows[t].pts = rows[u].pts
       /\ \/ Diff(rows[t]) > Diff(rows[u])
          \/ /\ Diff(rows[t]) = Diff(rows[u])
             /\ \/ rows[t].gf > rows[u].gf
                \/ rows[t].gf = rows[u].gf /\ t < u
Table(rows) ==
    CHOOSE order \in [1..3 -> Teams] : \A i, j \in 1..3 : i < j => Before(rows, order[i], order[j])

\* No two teams meet twice.
Scores == (Goals \X Goals) \union {<<NoGoals, NoGoals>>}
GroupStandings ==
    answer' = [of |-> "table", matches |-> <<>>, rows |-> [t \in Teams |-> EmptyRow]]
PlayNext ==
    /\ answer.of = "table" /\ Len(answer.matches) < Games
    /\ \E pair \in Pairs, s \in Scores :
          LET m == [home |-> pair[1], away |-> pair[2], hs |-> s[1], as |-> s[2]] IN
          /\ \A i \in 1..Len(answer.matches) :
                 {answer.matches[i].home, answer.matches[i].away} # {m.home, m.away}
          /\ answer' = [of |-> "table", matches |-> Append(answer.matches, m),
                        rows |-> Play(answer.rows, m)]
-----------------------------------------------------------------------------
(* The configuration of a job: PATCH checks the names, clamps the values and     *)
(* stores the whole; a worker reads it back through the same clamp.              *)

ClampField(f, v) ==
    IF v < Bound[f][1] THEN Bound[f][1] ELSE IF v > Bound[f][2] THEN Bound[f][2] ELSE v
ClampTop(cfg) ==
    [f \in Fields |->
        IF f \in DOMAIN cfg /\ cfg[f] # Junk
        THEN (IF cfg[f] > Bound[f][2] THEN Bound[f][2] ELSE cfg[f]) ELSE Default[f]]
\* A field that is missing or no number is the default's.
ClampConfig(cfg) ==
    [f \in Fields |->
        IF f \in DOMAIN cfg /\ cfg[f] # Junk THEN ClampField(f, cfg[f]) ELSE Default[f]]
MergeJobConfig(patch) == ClampConfig(patch)
GetJobConfig(row) == ClampConfig(row)

Configs == UNION {[fs -> Values \union {Junk}] : fs \in SUBSET Fields}
PatchJob == \E patch \in Configs :
    answer' = [of |-> "patch", patch |-> patch, row |-> MergeJobConfig(patch)]
ReadJob == \E row \in Configs :
    answer' = [of |-> "read", row |-> row, config |-> GetJobConfig(row)]
-----------------------------------------------------------------------------
FormulasInit == answer = NoAnswer
Call ==
    \/ SettleBet
    \/ PredictorTier
    \/ ComputeHotStreak
    \/ GroupStandings
    \/ PatchJob
    \/ ReadJob
FormulasNext ==
    \/ answer = NoAnswer /\ Call
    \/ CountNext
    \/ PlayNext
FormulasSpec == FormulasInit /\ [][FormulasNext]_answer
-----------------------------------------------------------------------------
(* Properties. *)

\* A winning bet at odds of 1 or more never costs points, whatever is rounded and
\* wherever; a losing one brings back its stake with INSURANCE and nothing without.
\* (Odds below 1, which the odds routes accept, do make winners lose.)
WinnerNeverLoses ==
    answer.of = "settle" =>
        LET b == answer.bet
        IN IF Won(b) THEN b.odds >= 100 => answer.points >= b.stake
           ELSE answer.points = (IF b.powerUp = "INSURANCE" THEN b.stake ELSE 0)

\* The same bet at higher odds never pays less, in spite of two roundings and of
\* the bonus that begins at 2.00; nor does naming the exact score make it pay less.
HigherOddsPayMore ==
    answer.of = "settle" =>
        \A o \in {o \in Odds : o > answer.bet.odds}, exact \in {answer.bet.exact, TRUE} :
            LET better == [answer.bet EXCEPT !.odds = o, !.exact = exact]
            IN Won(better) => \A points \in Credited(better) : points >= answer.points

\* What is missing to the next tier is exactly that: with it the next tier is
\* reached, with one point less it is not.
TierSteps ==
    answer.of = "tier" =>
        /\ answer.tier = 5 <=> answer.toNext = 0
        /\ answer.toNext > 0 => /\ Tier(answer.net + answer.toNext) = answer.tier + 1
                                /\ Tier(answer.net + answer.toNext - 1) = answer.tier

\* HOT_STREAK shows the longest run of consecutive wins, a VOID ending a run.
LongestRun ==
    answer.of = "streak" =>
        LET n == Len(answer.verdicts)
            WonAll(i, j) == \A k \in i..j : answer.verdicts[k] = "WON"
        IN /\ answer.best > 0 => \E i \in 1..n : i + answer.best - 1 <= n
                                                 /\ WonAll(i, i + answer.best - 1)
           /\ \A i \in 1..n : i + answer.best <= n => ~WonAll(i, i + answer.best)

\* The table: rows that agree with the matches that count (the goals cancel out,
\* every such match gives 3 points or twice 1), best team first.
Counting(matches) == {i \in 1..Len(matches) : Counts(matches[i])}
Drawn(matches) == {i \in Counting(matches) : matches[i].hs = matches[i].as}
PlayedBy(matches, t) == {i \in Counting(matches) : t \in {matches[i].home, matches[i].away}}
RowsMatchGames ==
    answer.of = "table" =>
        LET rows == answer.rows
            matches == answer.matches
        IN /\ \A t \in Teams :
                 /\ rows[t].played = Cardinality(PlayedBy(matches, t))
                 /\ rows[t].played = rows[t].won + rows[t].drawn + rows[t].lost
                 /\ rows[t].pts = 3 * rows[t].won + rows[t].drawn
           /\ rows[1].gf + rows[2].gf + rows[3].gf = rows[1].ga + rows[2].ga + rows[3].ga
           /\ rows[1].pts + rows[2].pts + rows[3].pts
                  = 3 * Cardinality(Counting(matches)) - Cardinality(Drawn(matches))
BestFirst ==
    answer.of = "table" =>
        LET table == Table(answer.rows)
        IN \A i, j \in 1..3 : i < j => /\ answer.rows[table[i]].pts >= answer.rows[table[j]].pts
                                        /\ table[i] # table[j]
TableMatchesGames == RowsMatchGames /\ BestFirst

\* Whatever a row holds, a worker reads a value in bounds for every field, and what
\* an administrator was shown as stored is what the workers read.
JobConfigSafe ==
    LET Safe(cfg) == \A f \in Fields : Bound[f][1] <= cfg[f] /\ cfg[f] <= Bound[f][2]
    IN /\ answer.of = "read" => Safe(answer.config)
       /\ answer.of = "patch" => Safe(answer.row) /\ GetJobConfig(answer.row) = answer.row

\* The inductive strengthening of LongestRun: `current` is the run the history ends
\* with, and the match before that run was not won.
StreakInv ==
    answer.of = "streak" =>
        LET v == answer.verdicts
            n == Len(v)
        IN /\ v \in Seq({"WON", "LOST", "VOID"})
           /\ answer.best \in Nat /\ answer.current \in 0..n /\ answer.current <= answer.best
           /\ \A k \in (n - answer.current + 1)..n : v[k] = "WON"
           /\ answer.current < n => v[n - answer.current] # "WON"

\* That of TableMatchesGames: the types of the rows and of the matches.
GroupMatch == [home : 0..3, away : 0..3, hs : Goals \union {NoGoals}, as : Goals \union {NoGoals}]
TableInv ==
    answer.of = "table" =>
        /\ answer.matches \in Seq(GroupMatch)
        /\ answer.rows \in [Teams -> StandingRow]

\* Payouts: no winner is punished by a rounding, nor by better odds.
PayoutsFair == WinnerNeverLoses /\ HigherOddsPayMore

\* The other functions do what they are for.
FunctionsAgree == TierSteps /\ LongestRun /\ TableMatchesGames /\ JobConfigSafe
=============================================================================
