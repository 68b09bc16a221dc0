# wc-games in TLA+

A verification project for the points game of this repository: users stake points on World Cup
matches, in the global game and in private lobbies, and background workers and administrators
settle the matches. Nearly everything that can go wrong with points goes wrong between
transactions, so the modules model the code at that grain: what a transaction reads, what it holds
locked, what it writes at its commit, and what runs in between.

- [The system](#the-system) - components, their state, how they interact
- [How the code is modelled](#how-the-code-is-modelled)
- [The modules](#the-modules) - correspondence with the code, properties, proofs
- [The runs](#the-runs) and [their bounds](#bounds)
- [What is proved](#what-is-proved) and [what is only checked](#what-is-only-model-checked)
- [Where the code and its documentation disagree](#where-the-code-and-its-documentation-disagree)
- [What is not modelled](#what-is-not-modelled) and [the plan](#the-plan)

To check a run: `tlc -config Settlement.cfg MCSettlement.tla`; to check the proofs:
`tlapm SettlementProofs.tla`, and likewise the other modules named `...Proofs`. `PROJECT.json` maps every definition to its source lines and lists
runs, mutants, hazards and theorems.

## The system

A pnpm monorepo. `apps/web` (Next.js) serves the API and the pages, `apps/worker` (NestJS) consumes
BullMQ queues, and both call the service packages, which share one PostgreSQL database through
Prisma. Redis carries the queues and best-effort events. Nothing synchronises the processes except
row locks and unique keys, at PostgreSQL's default level READ COMMITTED.

| Component | Code | State | Operations | Makes it correct |
|---|---|---|---|---|
| Settlement | `packages/prediction/src/prediction-service.ts` | `Match`, `Prediction`, `Settlement`, `PredictionUserStats` | `placeBet`, `settleMatch`, `resettleMatch` | every bet is paid once, by one score; a re-settle takes back exactly what was paid |
| Wallet and ledger | the transactions of all services; `schema.prisma` | `Wallet`, `PointLedger` | stake, payout, reversal, reward | the balance is the sum of the ledger; no stake beyond the balance |
| Parlays | `packages/prediction/src/parlay.ts` | `Parlay`, `ParlayLeg` | `placeParlay`, `settleParlays` | a verdict follows all results, is final, is credited once, and comes |
| Win streak | `recomputeWinStreak` | `Streak`, BONUS ledger rows | run at the end of a settlement | the row is the trailing run; each milestone is paid once |
| Private lobbies | `packages/lobby/src/lobby-service.ts` | `Lobby`, `LobbyMembership`, `BorrowRequest`, lobby wallets | join, borrow, decide, transfer, kick, adjust, bet, close | the host is a member; a standing adds up; a loan follows its decision |
| Risk engine | `packages/risk/src/risk-engine.ts` | `RiskFlag` | scan, close a lobby | a suspicious lobby is flagged, once |
| Match pipeline | `apps/worker/src/schedule`, `apps/worker/src/settlement`, `pipeline/src/schedule.ts`, the admin routes of a match | queues, `ScheduleJob`, `Match` | scan, lock betting, result check, settle, sync, live score, re-settle | every finished match is settled, with its final score; an administrator's result stays |
| Side markets | `micro.ts`, `special-market.ts`, `duel.ts` | micro bets, special markets, duels | place, settle, resolve, answer, set odds | settled once, at the odds of the placing, no bet left behind |
| Rewards and shop | `auth-service.ts`, `missions.ts`, `powerups.ts`, `cosmetics.ts` | check-ins, mission progress, referrals, inventory, owned items | check in, claim, redeem, buy, use, equip | a claim is paid once; the inventory adds up |
| Sessions and accounts | `auth-service.ts`, `apps/web/lib/session.ts` | `User`, `AuthSession`, `PasswordReset` | register, log in, rotate, log out, ban, change and reset the password | a token has one heir; reuse ends the family; a ban takes effect |
| Data feeds | `football-data.ts`, `squad.ts`, `fd-sync.worker.ts` | `Player`, `Team`, `Match.externalId` | sync teams and matches, crawl, enrich; a rate-limited client | whole squads and line-ups; links in order; requests spaced |
| News desk | `news.ts`, `news.worker.ts`, the admin news routes | `NewsArticle` | generate, approve, schedule, reject, publish, translate | only what was approved is public; what is due appears |
| Formulas | `core/src/scoring.ts`, `achievements.ts`, `apps/web/lib/tournament.ts`, `job-config.ts` | none | pure functions | winners keep their stake; better odds pay more |
| Reads and extras | leaderboard, feed, notifications, AI texts, bracket | derived rows, texts | queries, best-effort writes | - |

How they interact:

```
feed sync --> Match row --> result-check job --> settle job --> settleMatch --+--> settleParlays
                ^                                                             |      (own transactions)
admin: sync-result, live-score, lock-betting              admin: resettle --> |
                                                                              +--> recomputeWinStreak
placeBet, placeParlay, placeLobbyBet --> Prediction/Parlay rows, Wallet       |      (in the transaction)
joins, loans, adjustments            --> Lobby rows, Wallet                   +--> notify, events
```

The hard behaviours:

- **Check, then act.** `settleMatch` looks for the `Settlement` row, `settleParlays` for `OPEN`
  parlays, `kickMember` for the host, `resettleMatch` for the `DONE` row, all outside the
  transaction that relies on it.
- **Read, compute, write back.** A wallet's new balance is computed from an unlocked read and
  written as an absolute value.
- **Locks taken in passing.** What serialises two settlements of a match is the first `UPDATE` of the match
  row; what serialises two streak computations of a user is the upsert of his stats row, written
  for another reason. Remove or move either statement, and no unit test will notice.
- **Split transactions.** A re-settle is a reversal and a settlement; a settlement is followed by
  one transaction per parlay. A crash can fall between any two.
- **Duplicates and retries.** A stalled BullMQ job is delivered again while the first delivery may
  still run; a job that failed is not run again by itself, and its id stays taken.
- **Ids that say less than they seem to.** A queue's job id, a unique key with a NULL column, a
  feed's ordinal: what they keep apart, and what they let through, is part of the model.
- **Loops with a timer.** The workers scan, poll and publish for ever; an exception ends one run of
  a loop and with it everything behind the place where it was thrown.

## How the code is modelled

**Transactions.** A transaction is split only where another one can see or change something: the
check before it opens, the statement that takes a row lock another transaction may wait for, each
read whose result is used later, and the commit. Writes between the last read and the commit are
invisible to others until it, so they are part of the commit action. What was read is kept in a
variable of the transaction (`seen`, `read`, `tx[t].read`, `run`) and used at the commit, however
stale it is by then.

**Locks.** A row lock is a variable that names its holder; a statement that must wait is an action
whose guard is that the row is free. It is released by the commit, the rollback, and the crash.

**Failures.** `Crash`, `Abort` and `Fail` let a process die or a transaction be rolled back (a
thrown error, a deadlock, a timeout, a lost connection) in every state it can be in between its
first and last step.

**Data.** In Settlement, stakes, odds and payout formulas are a table `Payout[p][s]` (any natural
number; module Formulas has what the table stands for), points to small amounts, scores to the results they give, users and matches to model
values. Notifications and Redis events, sent after the commit and swallowed on error, are left out.

**Ghosts.** Some properties of this code hold only while certain calls did not overlap. The
modules say so exactly, with variables that no action reads and that only record the overlap:
`crossed` and `missed` (Settlement), `overlapped` and `clawed` (Wallet), `late`, `failed`, `shared`,
`settled` and `was` (Parlay), `resettled` and `undone` (WinStreak), `crossed`, `collided` and `redecided` (Lobby), `raced` (SideMarkets, Rewards,
RiskFlags), `overtaken` and `late` (Sessions), `mixed` (FeedSync), `notice` (FdClient), `pushed`, `regressed`, `kept` and
`gaveUp` (MatchPipeline). The property then says what holds in
every other behaviour, which is what an operator can rely on, and the hazards list says where the
exceptions come from.

## The modules

### Settlement, SettleOnce

One match, its bets, and any number of concurrent `settleMatch` (from `Workers`, the settle queue)
and `resettleMatch` calls (from `Admins`).

| Variable | Code |
|---|---|
| `bettable` | what `placeBet` looks at in the match row: `SCHEDULED`, kick-off ahead, betting not locked |
| `settlement` | the score of the `DONE` row of `Settlement`, `NoScore` without a row |
| `pred[p]` | `Prediction.status`, `.payout` |
| `ledger[p]` | sum of the `SETTLE` ledger rows that refer to `p` |
| `stats[p]` | what `p` contributes to `PredictionUserStats` |
| `placing` | `placeBet`s between their match read and their insert |
| `lock`, `pc`, `arg`, `seen` | the holder of the match row's lock; where each call stands, its score, the rows it selected |
| `crossed` | history: the administrators whose reversal a settlement's commit came between |
| `missed` | history: the bets inserted, or reopened by a reversal, behind a settlement's `SELECT` |

| Action | Code |
|---|---|
| `CheckBettable`, `InsertBet` | `placeBet`: the match check, the insert and commit |
| `CloseBetting` | kick-off, `LockBettingWorker`, the lock-betting route |
| `RewriteMatch` | `syncMatches`, `syncOneMatchFromFd`, the unlock and kick-off routes: the row is open for betting again, before or behind a settlement |
| `CallSettle` | `SettlementWorker` reads the score off the match row, whatever the feeds have made of it |
| `CheckSettlement` | `settlement.findUnique`, before the transaction |
| `UpdateMatch` | `tx.match.update`, the first statement: takes the row lock, or waits |
| `SelectBets` | `tx.prediction.findMany` |
| `CommitSettle` | the loop, `tx.settlement.create` and the commit |
| `CallResettle`, `SelectSettled`, `CommitReverse` | `resettleMatch`: the outer check, the select, the reversal's commit |
| `SettlementRefused` | the insert of a `Settlement` row that is there, the delete of one that is gone |
| `Crash` | process death or rollback anywhere |

After the reversal the administrator's call goes on with `check`, as the code calls `settleMatch`.
`resettleMatch` takes no lock on the match row, and `settleMatch` does: the model keeps that
asymmetry, which is where [the code and its documentation part](#where-the-code-and-its-documentation-disagree).

One thing breaks the promises about bets, and the model says what it is. A reversal computes from the
bets it selected, and nothing locks them. While one administrator reverses, the `Settlement` row keeps
every settlement out (`KeptOut`). It takes a second one, who reverses first and settles again, to
put a settlement's commit between the selection and the commit of the first one's reversal, which
then takes back what the new settlement paid by what the old one had. `crossed` records that, and
the properties about payouts hold until it happens.

What the match row says is no promise of a settlement: the feeds and the live-score route write status and
score whenever they like, also behind it (MatchPipeline follows them). What they can do to a settlement
is open the row for betting while it runs. A bet inserted behind its `SELECT` is not settled by it, nor is
one that a reversal reopens there: `missed` records both. `OneScorePaid` says that nothing else stays `OPEN`
or `LOCKED` beside a settlement - whatever crosses, and also what a crash between a reversal and its
settlement left `LOCKED` - and that every settled bet shows the verdict and payout of the one score.
That no score is overwritten holds regardless.

`SettleOnce` is what a settlement promises: one score is decided at a time, the bets taken are
credited with its payout, and reopening takes every credit back. `Settlement` is shown to implement
it with `decided <- settlement`, `taken <- SettledBets`, `credit <- ledger`, `void <- crossed # {}`.

Properties: `LedgerMatchesPayout`, `OneScorePaid`, `ImplementsSettleOnce`, `CallsReturn`; and,
proved only, `StatsMatchBets`, `VerdictsOnlyReversed`, `ScoreNotOverwritten`, `CrossingTakesTwo`.

### Wallet

Every transaction that moves points - `placeBet`, `placeParlay`, `placeLobbyBet`, `settleMatch`,
`resettleMatch`, check-ins, missions, cosmetics, loans - selects the wallet, computes, updates it
and inserts a ledger row. `Wallet` has that shape once, in four kinds: `Spend` (with the balance
check), `Earn`, `Clawback` (without one), and `Lose` (a ledger row of 0 points that shows the
balance read, the wallet untouched). `total` is the sum of the ledger rows, `lastAfter` is
`balanceAfter` of the newest.

Transactions that read the same balance lose one of their updates. What still holds:
`NegativeOnlyByClawback` in every behaviour, and `LedgerSumsToBalance` and `LastRowShowsBalance`
(proved only) until two have overlapped.

The model lets two overlapping transactions commit in any order with the values they read. In
PostgreSQL the second `UPDATE` waits for the first to commit and then overwrites it, since the value
is a constant by then: the same outcomes.

### Parlay

`placeParlay` is `CheckParlay` (all legs' matches are `SCHEDULED`) and `InsertParlay`. A call that
settles a match starts here with that commit (`CommitMatch`), selects `OPEN` parlays outside any
transaction (`FindOpen`), and takes each through `ReadLegs`, one `ReadMatch` per pending leg, and
`CommitParlay`. What it reads are the match rows, not the settlements, and those rows have other writers:
`FeedWrites` stands for the full sync, the live poll, the one-match sync and the live-score route, which set
a row to `FINISHED` before any settlement, write another result behind one, or take the row off `FINISHED`
again, between any two reads. The parlay's status is not read again inside the transaction, so a call
can settle a parlay another one has just settled. Because a resolved leg is carried forward, both reach the same
verdict as long as no result changes; that the parlay is credited once does not follow. `shared` names
the parlays that a call found while another one had them to visit.

Results may change: by a feed, or by the settlement inside a re-settle, which `CommitMatch` also stands
for. `was[m]` records the results that the row of `m` has shown as `FINISHED`. `settleParlays` acts on
`OPEN` parlays only, so a correction reaches the legs that are still pending and no others. What a verdict
then says is `VerdictFollowsResults`: every leg of a `WON` parlay came true in a result its match's row has
shown, some leg of a `LOST` one did not - the same result for all of them only where nothing was corrected.
`CreditedIffWon`: a parlay that is not `shared` is credited once if it is `WON` and never otherwise; a
shared one that is `WON` was credited, perhaps twice, and a credited one is `WON` unless a correction
made the other call lose it. `VerdictFinal`: a verdict does not change, unless the parlay was shared and a
match of it corrected.

`NoParlayForgotten` answers the question this design raises: when the last two matches finish
together, each settlement may find the other's leg pending. It cannot happen to both, because a
call reads the legs after its own match's commit, and the row stays `FINISHED`. `settled` is the set of
matches of which that is true: settled, and not taken off `FINISHED` since. Where a feed does take a
settled row off `FINISHED` before the last call reads it, the parlay stays `OPEN` with nobody at work on it,
and only a re-settle of one of its matches looks at it again. Two more exceptions are recorded: a call that
failed (`failed`), and a parlay inserted behind a settlement that had not seen it (`late`).

### WinStreak

One user's `GLOBAL` bets. A match's settlement is one transaction that settles all of them on that match:
the hedges `placeBet` allows (bets on different outcomes), and the same outcome twice where two `placeBet`s
overlapped. `StampFirst` and `StampNext` are the updates of the prediction rows; `earlier` is the order of
`settledAt`, which they set, so before the commit. After each comes the upsert of the stats row: the first one
takes its lock (`Upsert`), and the transaction holds it from then on. After the last bet the streak is computed
once (`Recompute`): the read of the settled bets, the transaction's own updates included (`View`), and what
the code's loop makes of them, the wins after the last unshielded loss (`TrailingRun`). `CommitStreak` commits,
`Abort` rolls back, `Reverse` is the first transaction of a re-settle, which takes all the verdicts of a
match back. `StreakShowsRun` depends on the lock (the streak row
is the trailing run, but between a reversal, which leaves that row alone, and the next settlement's commit):
with the guard `StatsFree` dropped, one of the registered mutants, TLC loses a win.

Milestones are tested with equality (`Reached`), so `MilestoneNotSkipped` needs every length of the run to
be seen by some computation. Several bets settled at once do not break that by themselves: of a match's hedges
one wins at most, so the run grows by one (or is broken, or shortened to one by a loss stamped before
the win). The same outcome bet twice does: both win, the run grows by two, and the milestone between is
never paid. `Duplicated` says that a match was won twice, and with a re-settle it is the exception.
`SameScoreSameWallet` says what is left of a re-settle's promise: with the same score it changes no bonus
if the match is the user's last settled one; an earlier match moves to the end of the order.

### Lobby

One lobby after `createLobby`. `Join` and `RequestBorrow` are single steps (unique keys decide their
races). The other calls are `Call...` (the checks outside the transaction, by the route or the
service), `Begin` (the transaction's reads: the request's status and the wallet) and a commit:
`Transfer`, `Kick`, `Approve`, `Deny`, `Adjust`, `Play` (`placeLobbyBet`, and the settlement of a
lobby bet, which looks at no membership). A request is decided by the host of any lobby: the borrow-requests
route asks whether the caller hosts the lobby in its path, not whether the request belongs to it.
`winnings`, `borrowed` and `adjusted` are the parts that `getLobbyStanding` shows next to the wallet.

- `OwnerIsMember`: a kick of the new host that was checked before a transfer and is still to commit
  after it (`KickPending`, recorded in `crossed`) removes the new owner; up to the first such transfer
  the owner is a member, however else transfers and kicks overlap.
- `StandingAddsUp`: default + winnings + borrowed + adjustments is the wallet, unless two of the
  member's wallet transactions overlapped. `borrowed` is incremented in place and survives the
  races that the balance does not.
- `LoanFollowsDecision`: one credit if approved and none if denied, unless decided twice at once.
- `KickedStaysOut`: the kick leaves the wallet row, whose unique key fails every later join.

### MatchPipeline

One match from the feed to its settlement. `settleMatch` and `resettleMatch` are single steps here;
Settlement opens them up.

| Variable | Code |
|---|---|
| `feed`, `phase` | the match's status at football-data.org; time against the row's kick-off |
| `status`, `score`, `source` | `Match.status`, the 90' score, `Match.source` |
| `settlement` | the score of the `DONE` row of `Settlement` |
| `enabled` | the `ScheduleJob` row of `result_check` |
| `check[n]`, `settleJob` | the state of the BullMQ jobs `result:ID:n` and `settle:ID` |
| `decision`, `settleArg` | what the running check decided; the score the settle job read off the row |
| `poll`, `resp` | where each feed request stands, and what it was answered |
| `marking` | a re-settle route between `resettleMatch` and `source = 'ADMIN'` |

| Action | Code |
|---|---|
| `Fetch`, `CheckSource`, `WriteRow` | `syncMatches` and `syncLiveScores`: the request, the read of `source` (and of the row), the update; the live poll runs while any match, not necessarily this one, is in its window |
| `AskOne`, `FetchOne` | the sync-result route: the check for a settlement, then `syncOneMatchFromFd` |
| `Scan`, `Toggle` | the scheduler's scan adds or removes the first check; `PATCH schedule-jobs` |
| `StartCheck`, `EndCheck` | `ResultCheckWorker`: read and `decideResultCheck`; enqueue |
| `StallCheck`, `ThrowCheck` | a stalled delivery; a handler that throws before or after it enqueued, and is not run again |
| `StartSettle`, `EndSettle`, `FailSettle` | `SettlementWorker` |
| `PushScore`, `Resettle`, `MarkAdmin`, `MarkFails` | the live-score and re-settle routes |
| `Postpone`, `RequestFails` | a kick-off moved to a later day; a request that throws |

- `SettledWithFinal`: without an administrator's push (`pushed`) and without a late answer that took the
  row back (`regressed`), no check and no settle job acts on a running score.
- `AdminResultKept`: a result marked while no feed write was under way (`kept`) stays.
- `AutoSettles`: a finished match is settled, or its chain of checks ended visibly (`gaveUp`:
  attempts used up, job disabled or failed), or was never started because the match finished before
  the scan saw it.
- `PipelineInv`: `TypeOK`, and `OneChain`: job ids keep two chains of re-checks from running side by
  side, however often the job is switched.

### MatchJobs

The times of the same match's jobs. `ReadConfig` and `QueueJobs` are the two halves of a scan: it
reads configuration and match, and later removes and adds the line-up and lock jobs with delays
computed from what it read. Two scanners (the timer loop, the control channel) overlap. `Run` is the
worker that takes a due job; the lock worker locks a match that is still `SCHEDULED`.

- `JobsFollowScans`: `JobsTypeOK`, and `FollowsLastScan`: no line-up or lock job runs before the time the
  last scan gave it, whatever was edited or moved since an older scan.
- `BettingLocks`: a match that stays `SCHEDULED` past its lock time ends up locked, even against an
  administrator's unlock.

### SideMarkets

Micro bets, one special market, one duel. A call is a record of what a request read: `BeginMicro`,
`BeginSpecial`, `BeginSettleMicro`, `BeginResolve`, `BeginRespond`, `BeginDecide` are the checks
outside the transactions of `micro.ts`, `special-market.ts` and `duel.ts`; `Place`, `SettleMicro`,
`LockMarket` and `Resolve`, `Respond`, `Decide` the transactions. `LockMarket` is the update of the
market row, the only lock two resolutions meet at, with the select of the `OPEN` bets behind it.
`raced` collects the rows two overlapping calls worked on.

- `LedgerMatchesBets`: stake and payout once - always for special bets; for a micro bet unless two
  settlements of it overlapped.
- `MarketInv`: `VerdictsMatchOutcome` unless two resolutions overlapped (the later one changes the
  outcome of bets the earlier one paid); `StrandedOnlyByRace`: a bet left `OPEN` on a resolved market
  was being placed during the resolution, and stays so for good; `OneOpenBetPerSlot`.
- `NothingRewritten`: `OddsFrozen`, a bet pays the odds of its placing; `DuelFinal`, a decided duel
  stays decided unless a late answer overlapped.

### Rewards

Check-ins, missions, referrals, power-ups and the bets that use them, cosmetics. The code guards
"once" in three ways, and the module keeps them apart: a read only (check-in, `GLOBAL` bet on one
outcome, equipping), a unique key behind the read (mission, referral, purchase: `KeyFree` in the
commit), and the wallet's row lock, taken for another purpose before the inventory is read
(`BuyPowerUp`, `PlaceBet`).

- `GuardedAlways`: `PaidByKey` and `InventoryAddsUp`, however requests overlap.
- `GuardedByReads`: `CheckinsMatchStreak` (across midnight between a read and its commit),
  `OneBetPerOutcome` (the unique key does not hold for a NULL `contextId`), `OneEquipped`; each only
  while no two requests of its kind overlapped (`raced`).

### Sessions

One e-mail address: registration, OAuth sign-in, login (`BeginLogin`, `Issue`), rotation
(`BeginRotate`, `Rotate`), the revocation of the family when a revoked token is presented (`Sweep`),
logout, ban, password change and reset. `access[t]` is how long the access token issued with session
`t` is still good; no route looks it up. `overtaken` names the calls during which what they read was
written, `late` the sessions and resets they made.

- `OneHeir`: sessions of one login form a chain with one live end, and an ended session has no heir.
- `PasswordByRight`: a password changes on the strength of the one in force or of an unused reset token.
- `AccountInv`: `OneSignup`, one account and one signup bonus; `BanTakesEffect`: a lifetime of an
  access token after the ban, nothing is left.

### FeedSync, FdClient

`FeedSync` has the worker's run over teams and matches (`StartRun` to `FinishRun`, `runs` in memory),
the administrator's syncs, the language model's crawl (replaces a squad) and enrichment (marks the
starters of the roster it was asked about). A squad is replaced by `LockRows` and `InsertSquad`: the
`DELETE` waits for rows another transaction holds and does not see what that one inserted.
`InsertRefused` is the unique `Player.externalId` meeting a player who still has a row elsewhere;
`PairUnlinked` and `LinkRow` pair the unlinked knockout rows with the feed's matches, in order, one
update at a time.

- `FeedInv`: `SquadFromOneWrite` (unless two replacements overlapped, `mixed`, until the next
  one), `LineupIsWhole` (an answer that names players of a roster replaced meanwhile changes nothing, not
  even in part), `LinkedInOrder`.
- `FeedCatchesUp`: `SquadsCatchUp` unless a move leaves the unique key in the way for good (`Blocked`:
  every run then throws at that team and never reaches the matches); `MatchesCatchUp` unless so blocked,
  or a process died between two links: the next pairing starts at the feed's first match, which is taken.

`FdClient` is the client's promise chain, with a clock: `SleepFor` computed before the sleep, timers
that fire late, the pause after an exhausted budget, the retries after 429.

- `ClientInv`: `ServedInOrder`, `RetriesBounded`; `ClientServes`: `RequestsSpaced` (no request within
  the spacing, and none during a pause that the client heeds), `EveryGetSettles`. Which pauses those are is
  what the code makes of an answer: an exhausted budget in an ok answer and the `retry-after` of a 429 it
  retries are heeded. A 429 after the last retry is thrown with its pause unread (`RefusedAsking`), and
  the next request in the queue leaves after the spacing alone: `notice` says so.

### News

`StartRequest`, `StoreSource`, `StoreFails` are the generate route: each source is drafted,
translated and stored; when the first attempt throws, all sources are done again with the
deterministic gateway. `Approve`, `Schedule`, `Reject` write the row without looking at its status.
The worker's run is `PublishDueNews`, `ListUntranslated`, `Translate`. The language model is `healthy`
or not, and some texts it never translates (`temper`: garbled, or an exception).

- `NewsInv`: `PublicByDecision` (the last decision on a public article was its approval, for a time
  that has come) and `RequestStoresEverySource` (twice only after a failed first attempt).
- `NewsArrives`: `ScheduledIsPublished`; `TranslationsArrive` unless newer articles starve the older
  ones (`Starved`): one whose translation throws ends every batch before them, `Limit` garbled ones
  fill it.

### RiskFlags

Scans of the lobbies (`ListLobbies`, then per lobby `LookAt` and `CreateFlag`) while members come and
go, borrow, and lobbies are closed. `RiskInv`: `OneOpenFlag` unless two scans met between search
and creation, `ScanFlagsRisk`: a finished scan left no suspicious lobby of its list without a flag.

### Formulas

The functions without state, as operators: one call each, and what it returned. The two that loop over
rows, `ComputeHotStreak` over settled bets and `GroupStandings` over matches, take a step for every row
(`CountNext`, `PlayNext`), so the answer is that for what was read so far. Odds are hundredths;
`RoundedProduct` is a set, because a product of floats just below a half rounds down where the exact
one would round up (50 at 1.15).

- `PayoutsFair`: `WinnerNeverLoses` (odds of 1 or more, all power-ups, exact-score and underdog bonus),
  `HigherOddsPayMore` (in spite of two roundings and a bonus that begins at 2.00).
- `FunctionsAgree`: `TierSteps`; `LongestRun`, the pass that counts and resets finds the longest run;
  `TableMatchesGames`, each row sums up the matches that count (`RowsMatchGames`) and the best team leads
  (`BestFirst`); and
  `JobConfigSafe`: whatever a `ScheduleJob` row holds, a worker reads values in bounds, and what was
  stored is what is read back.

## The runs

| Run | Configuration | States | Shows |
|---|---|---|---|
| `settlement` | one settle job and two administrators, who settle too; two bets, two scores | 428,134 | bets are paid once, by one score, and the rows implement `SettleOnce` |
| `progress` | one worker, two administrators, one score, no bets; beside it, the news desk with two headlines | 128,218 | every settlement call returns; news is published and translated as decided |
| `wallet` | four transactions | 28,090 | below zero only by a clawback; serial transactions keep ledger and balance equal |
| `parlay` | two parlays, two matches, one of them corrected, two calls that overlap and fail; one parlay under every write of the feeds | 2,274,243 | verdicts, credits, none forgotten |
| `win_streak` | five bets on three matches: one outcome twice, a hedge with one side shielded, a single; aborted and re-settled | 873,876 | milestones once, the streak exact |
| `lobby` | three calls, two members, two requests; beside it, two scans of two lobbies | 1,146,460 | owner, standings, loans, kicks; flags |
| `match_pipeline` | full sync, live poll, one-match sync, three checks, one intervention or failure | 495,925 | the right score is settled, an administrator's stays, the chain ends |
| `match_jobs` | two scanners, two kick-offs, two lead times, one edit | 513,555 | jobs follow the last scan; betting locks |
| `side_markets` | two calls, two micro bets, three special bets, one duel | 291,552 | paid once, right verdicts, exceptions only by overlap |
| `rewards` | three calls, four days, three users, one mission, two items; beside it, the formulas | 186,719 | what keys and locks guard, what only reads guard; payouts |
| `sessions` | two calls, three sessions, two resets, an access token of two ticks | 369,469 | one heir, one signup, bans and passwords |
| `feeds` | the worker and one call, two teams, two players, two knockout matches, one fault; beside it, the client with two calls | 510,394 | squads, line-ups, links; spacing, order, retries |

Every property has a mutant: a version of one definition with a plausible bug (a dropped
guard, a leg resolved only for the own match, a debt that overwrites, a lock that is shared, a retry
counted as new) under which TLC finds the property violated. Properties that are conjunctions of
named parts have one for each part that is not a type.

**Side by side.** `progress`, `lobby`, `rewards` and `feeds` each run two modules that share no state,
one per behaviour: the initial state chooses (`side`, `answer`, or a module that has nothing left
to do), so that their states add up and do not multiply. Settlement and News have their endings in
common, Lobby and RiskFlags the lobby's members and debts, which a scan reads and never writes,
FeedSync and FdClient the file they come from, Rewards and Formulas nothing.

### Bounds

- `settlement`: an administrator's call settles as a settle job does once its reversal is done, so the
  three callers are up to three settlements that race, two reversals that meet, or one of each with a
  third in between. Two bets, one `GLOBAL` and one not, because stats distinguish them; two scores, with
  opposite verdicts and an INSURANCE refund, because correcting a score needs two. Calls repeat without
  bound. `CONSTRAINT NotCrossed` follows a behaviour up to the first crossing, behind which the
  properties promise nothing but what is proved.
- `progress`: no bets and one score, since neither influences which call runs when; two administrators, so that
  one finds the row the other deleted. Two headlines, the newer of which the model cannot translate,
  and `Limit = 1`: the smallest case of starvation; two decisions: an approval and a rejection.
- `wallet`: four transactions, so that a serial prefix, an overlap and a successor fit; amounts 1
  and 2 against a start of 2, so a stake may or may not be covered.
- `parlay`: the smallest parlay has two legs; two parlays let a call have one behind the other; calls
  may take any match. `Bounds`: with one parlay, every write of the feeds, without a limit; with two that
  pick alike (`PicksAlike`), one of the matches gets a second result (`CorrectedMatches`), and no row is
  `FINISHED` but by a settlement (`FewCorrections`), followed until a call fails after a correction. The
  theorems have no such bound.
- `win_streak`: five bets on three matches and three outcomes: a match's bets all lose, both of the duplicates
  win, one of the hedges wins. Runs up to 4 with milestones 2 and 3 in place of 5 and 10: the duplicate can
  jump either, and so can two matches settled at once if their reads overlap.
- `lobby`: two users are the host and the member whose roles can cross; three calls allow two to
  cross and a third to follow; each call is made once. Points 1 with a default of 1, so a stake may
  fail. Two scans of two lobbies: one suspicious lobby behind the other, and both scans at one.
- `match_pipeline`: `MaxAttempts = 2` gives a first check and two re-checks, one of them after the
  last attempt. `MaxFaults = 1`: every single failure or intervention meets every interleaving of the
  three requests and the jobs; combinations of two are not explored.
- `match_jobs`: kick-offs 1 and 4, lead times 0 and 2, six instants: a lock time may move across
  the present in both directions. `Behind = 3` puts the end of the scan's window inside the run.
- `side_markets`: two calls are what the races are made of; three bets, two of them in one user's
  slot, one in the lobby with an override. `OneKind` keeps a behaviour to one kind of market: the
  kinds share no row, and no property relates two.
- `rewards`: three calls so that a third follows two that overlap; four days for a streak, a gap and a
  midnight between a read and its commit. `OneKind` as above. Stakes and odds include the products that
  round differently as floats; profits lie around every tier's limit. `History` and `Games`: six bets, and
  three matches of a group of three, one of which may be against a team that is not drawn yet (`Pairs`);
  no two teams meet twice.
- `sessions`: three sessions are a login and two rotations; two resets compete; `OneAtATime` lets
  passwords change only while there is one session: they share only the account.
- `feeds`: two teams in the feed's order make the unique key block or not; two players; one fault is
  one change of the feed or one crash; `TeamsEveryRuns = 2` has runs with and without teams.

`Symmetry` is used on interchangeable workers, administrators, transactions, parlays, calls, outcomes, requests,
items, scans and two bets on one outcome, in runs without liveness properties. `CHECK_DEADLOCK FALSE` is set
where the model really stops: all calls, tokens or edits of the bound have been used (Wallet, Lobby,
Sessions, MatchJobs, SideMarkets, Rewards, FeedSync), or a module of a pair does not run (`progress`, `feeds`).

### Fairness

- `Settlement!Fairness`: weak fairness of each caller's `Step` - Node continues a call that has
  started - and strong fairness of `UpdateMatch`: PostgreSQL queues the waiters of a row lock, so
  a waiter is served although others take the lock in between. No fairness of calls, bets or
  crashes.
- `MatchPipeline!Fairness`: the scan and the full sync are loops with a timer
  (`match-scheduler.service.ts`, `fd-sync.worker.ts`), so `Scan` and `Fetch` of a full sync are weakly
  fair; a request that keeps being made does not fail for ever, hence strong fairness of its
  `CheckSource` and `WriteRow`; workers take due jobs; time passes up to the first check. Nothing obliges the
  live poll, an administrator, or the feed.
- `MatchJobs!JobsFairness`: the same timer, the clock, the workers.
- `FeedSync!FeedFairness`: the loop sets its timer again after every run, also after one that threw, and
  a step that was begun goes on. Failures are bounded by `MaxTroubles`.
- `FdClient!ClientFairness`: timers fire, microtasks run, `fetch` settles one way or the other.
- `News!NewsFairness`: the loop sets its timer again, and a model's answer ends - `fetch` gives up on a
  silent server after five minutes. Neither the model's recovery nor a decision is fair.

## What is proved

Eight proof modules, checked by tlapm to the last leaf. Every safety property and every action property of
the runs has its theorem. A theorem holds
for all values of the constants - callers, users, bets, matches, amounts, days - under the assumption named
in the module that declares them: disjoint names, natural amounts and bounds, finite sets where something is
counted, an order of the lobbies that names lobbies, sources without repetition. Bounds on a behaviour
(`MaxTroubles`, `MaxDecisions`, `MaxEdits`, `History`, ...) are constants of the theorems too: they hold for
every bound. No theorem has a further hypothesis: where the code keeps a promise only while certain calls
do not meet, the history variable that says so is in the property.

The proofs of the state machines are laid out alike: a type lemma; a frame lemma for the actions that
touch none of the invariant's variables; a lemma per family of actions (start, read, commit); a step
lemma with one step per action; and the temporal step with PTL. Hardly a property is inductive alone, and
what has to be added is nearly always the same: *what a process read is still so when it commits*, because a
lock keeps it, a unique key refuses the others, or a ghost has noticed those who came between. That is
the argument each part of the code relies on, and the list below says which it is.

**SettlementProofs** (Settlement, WinStreak). `TypeCorrect`, `LedgerExact`, `StatsExact`,
`OneScoreHolds`, `VerdictsStable`, `ScoreKept` and `Refinement`, for any number of settle jobs and of
administrators. None of the invariants is inductive alone, since a commit writes what was selected
earlier. `IInv` adds what makes the selection still true at the commit: `LockHeld` (whoever has selected
or is about to holds the match row), hence `SettleSelection` (the unsettled bets selected are
unchanged), and `ReverseSelection`: *while there is a settlement*, the settled bets are those that
every reversal under way selected. That condition is what several administrators leave of it: the
first reversal to commit ends the settlement, the others then fail on the row that is gone, and only
a new settlement before they do could make their selection wrong - which is what `crossed` records.
`RowsSound` is the part that holds whatever crosses, with `NoneMissedSoFar`: a settlement about to commit has
selected every unsettled bet but those that became unsettled behind its `SELECT`, so `OneScorePaid`'s
first half needs nothing of the match row but its lock. `OneAdminCrossesNothing` says that the exception
needs two administrators: while one reverses, the row is there (`KeptOut`), and no settlement commits
beside it. `ScoreKept` needs no invariant: the key of `Settlement` alone keeps a score from being
overwritten.

Of the win streak `StreakTyped`, `PaidOnce` and `StreakExact` (but between a reversal and the next
settlement's commit), re-settles included: the lock holder's reads stay true until it commits (`LockInv`, `PayInv`, `RunInv`), as
another match's updates or rollback change neither the run nor the bonuses (`RunIgnoresOpen`).
`NoneSkipped`: a settlement that wins one bet of its match lengthens the run by one at most, however many
others it loses (`RunGrowsByOne`), and what it is about to pay is exactly the unpaid milestone it has
reached (`PayReached`), so the test for equality misses none. `SameWalletAgain`: between the reversal of the
last settled match and its own re-settle no other match settles, and every milestone its old run had reached
is paid (`AgainInv`, over `OrderInv`: any two bets with a place in the order are ordered). Settled
again its bets are the last again, perhaps in another order among themselves: without a breaking loss the run
is the same (`RunOfLast`), with one it is a single win at most (`RunBroken`), and no milestone is that
short.

**AccountProofs** (Wallet, Sessions). `NoOverdraft`, for any overlap: a balance that was read below zero is
explained by a clawback (`ReadsExplained`), so a spend that passed its check leaves at least zero, even when
it overwrites others. `SerialLedger`: before the first overlap there is at most one open
transaction, and it read the current balance (`SerialInv`); `SerialLastRow` says the same of the newest
ledger row.

`AccountSound`, `HeirsUnique` and `PasswordsByRight`, for any number of requests, tokens and resets.
The update of a rotation does not look whether the session is still live, so `OneHeir` rests on what was read
before it: unless the rotation was overtaken, that is still so (`ReadsHold`), and an ended session, being
revoked (`EndedRevoked`), is no longer rotated. `OneSignup` needs that before the account
exists there is nothing but registrations (`NothingBefore`); the unique e-mail does the rest.
`BanTakesEffect` follows from `BanRunsOut`: the calls that can still create a session were
under way at the ban, and every other access token ages with it.

**ParlayProofs.** `TypeCorrect`, `VerdictsSound`, `CreditsSound`, `VerdictsFinal`, whatever is written to
the match rows: every resolved leg, in the table or in a transaction's memory, was resolved by a result its
match's row has shown (`LegsFollowResults`, `ReadsFollowResults`). Two transactions that reach different
verdicts about one parlay have therefore seen two results of one of its matches (`BothVerdicts`), which is the
exception in `CreditedIffWon` and `VerdictFinal`; that there are two takes a shared parlay, since one that is
not is still `OPEN` for the only call that has it to visit (`SoleCaller`), and that call credits it once.
`NoneForgotten`: `StillDeciding`, among the calls at work
on a parlay whose matches are settled there is one that has read no leg as pending; a call that commits
`OPEN` has read a pending leg, so it is another one, or that match's own settlement is still to look. A feed
that takes a row off `FINISHED` removes the match from `settled`, and with it the promise.

**LobbyProofs** (Lobby, RiskFlags). `TypeCorrect`, `OwnerStays`, `StandingExact`, `LoansSound`, `KickedOut`.
Until a transfer passes a kick of the new host, the owner is a member and no kick of him is pending
(`HostInv`): that part takes no assumption on how many host calls overlap. While no wallet transactions
of a user collide there is one and it read the current balance (`OneMoneyCall`, `ReadCurrent`); while a
request is not decided twice the decision in flight found it pending (`OneDecision`,
`DecisionPending`). `RiskSound`: a scan between search and creation found no open flag, and unless
another one met it there is none (`FlagsApart`); what a scan has passed with a reason
has a flag (`PassedFlagged`), whatever order it lists the lobbies in.

**PipelineProofs** (MatchPipeline, MatchJobs, News). `FinalIsSettled` and `AdminResultStays`. From the check
that decides to settle to the job's commit the row is finished with the final score and the job carries it
(`FinalOnItsWay`) unless a late answer or a push came between. A result kept by an administrator is
settled, and every request that has still to write has still to read `source` (`NobodyWrites`): it is the
order of that read and the update, not a lock, that protects him. `PipelineSound`: a re-check is
queued only when the ones before it are over (`ChainInOrder`), so job ids keep a chain single however often the
job is switched.

`JobsAsScanned`: a delayed job is due when the last scan said (`DueAsScanned`), since a scan replaces the
job of an older one, done or not, in the step that gives it its time. `NewsSound`: the date in a row under review is its
latest approval's (`DatesAgree`); what an attempt has stored is what it has no longer to do, each source
once (`StoredSoFar`), which is why a second attempt doubles a source once and no more.

**SideMarketsProofs.** `LedgerSound`, `SpecialMarketSound`, `PromisesKept`. The holder of the market
row's lock selected bets that are still `OPEN`, and every bet `OPEN` on the market but those that raced it
(`PaysSelected`): so special bets are paid once without any exception, and stranded ones raced. Nothing
protects a micro bet's settlement or a duel's decision between read and write but that nobody else
is at that row: `SettlesRead`, `DuelRead` and `ResolvesOpen` hold unless `raced` says otherwise, and
`OverlapsSeen` that it does.

**RewardsProofs** (Rewards, Formulas). `KeysPayOnce`, for any overlap: a claim, a redemption or a purchase is
committed only where its key is free, and each writes key and reward together; the inventory is read
under the wallet's lock. `ReadsSuffice`: of a kind no two requests of which overlapped, the one
under way read what is still so (`StreakRead`, `BetRead`, `EquippedRead`); for the check-in also that no
day is paid before it has come, so that a midnight between read and commit moves nothing.

For all stakes, odds and scores `WinnersKeepStake` and `OddsMonotone`, together `PayoutsStayFair`, from
three facts about rounding (it is monotone, it is off by half a unit at most, and the doubtful half only
goes down to where the exact product already is). `TierStepsExact`, for every profit. `ConfigSafe`, for
all fields, bounds and stored values.

The two loops are proved as the code runs them, with an invariant of the loop. `StreakIsLongest`, for
histories of every length: `StreakInv`, the counter is the run the bets read so far end with and the bet
before that run was not won, so a longer run anywhere would have been counted. `StandingsAgree`, for all
goals and every order in which the matches are read: one more match adds itself to the sets that are
counted and to two rows (`PlayRows`, `MatchSets`), and the goals for and against cancel over the three teams
whichever two played (`SumOfThree`). The comparison of two rows is a strict total order (`BeforeIsOrder`), so
a sorted table exists (`SortedExists`) and the one chosen is sorted. `FunctionsSound` puts the four together.

**FeedsProofs** (FeedSync, FdClient). `FeedSound`. That a squad comes from one write is explained by what a
process remembers: the rows it locked are all its team's, unless another replacement overlapped its own
(`Remembers`). A line-up is whole because a write's batch belongs to one team (`BatchOfTeam`): an answer
given for a replaced roster finds none of its rows. The linked matches are a prefix of the round
(`LinkedPrefix`): a pairing counted from a later match starts at one that is linked, whose unique key
refuses it before anything is written. `ClientSound` and the action property `RequestsApart`: the chain of promises
is the rest of what was asked for (`ChainIsRest`), everything before the call in hand is settled
(`SettledBefore`), and the next request leaves no earlier than the end of a pause that was heeded (`PausesKept`).

Two attempts failed for a reason in the model. The next team of a run was a `CASE` whose conditions could both
hold; in TLA+ that is a choice nobody made, where the code takes the first, and `NextTeam` is an `IF` now.
And `FreshBatch`, the identity of a newly written squad, was defined even when all were used up; the
bound is now a guard that says so.

Proved, and not also a property of a run, since TLC could only repeat it: the type invariants of Settlement,
Parlay, WinStreak and Lobby, `StatsMatchBets`, `VerdictsOnlyReversed`, `ScoreNotOverwritten`,
`CrossingTakesTwo`, `LastRowShowsBalance`, `VerdictFinal`.

### What is only model-checked

- Liveness: `CallsReturn`, `NewsArrives`, `AutoSettles`, `BettingLocks`, `FeedCatchesUp`, and
  `EveryGetSettles` of `ClientServes`. Fairness and `ENABLED` are out of the prover's reach.
- What an operator that recurses over data computes for every input needs induction over data, which the
  installed provers cannot do. No property is left out for it: loops over rows are steps (Formulas), and the
  trailing run of WinStreak is a set with its cardinality.

## Where the code and its documentation disagree

What the models showed, with the place that says otherwise where there is one. The properties above
carry each as an exception, or hold under the assumption named.

| Code | Documentation |
|---|---|
| a settle job that passed its check (`prediction-service.ts:148`) before a re-settle reopened the match can settle it with the old score first; the correction is dropped and the route answers `alreadySettled` | "then re-runs settleMatch with the corrected score" (`prediction-service.ts:253`) |
| the bets to reverse are selected without a lock (`prediction-service.ts:266`): two re-settles can claw back the same payouts twice | "idempotent" (`admin/matches/[id]/resettle/route.ts:10`) |
| `placeBet` reads the wallet without `FOR UPDATE` (`prediction-service.ts:107`): two bets are accepted against one balance | parallel bets must be safe with `FOR UPDATE` (`2026-05-30-prediction-scoring-service-design.md:403`) |
| a failure between the settlement's commit and `settleParlays` (`prediction-service.ts:233`) leaves parlays `OPEN`; the retry returns early | the settle job's retry is safe (same document, line 371) |
| two settlements that find one parlay `OPEN` (`parlay.ts:106`) both credit it | "IDEMPOTENT: only acts on OPEN parlays" (`parlay.ts:101`) |
| re-settling an earlier bet with the same score stamps it last; the run can grow past a milestone and pay it | "re-running with the same score produces the same wallet/stat state" (`prediction-service.ts:253`) |
| `PATCH schedule-jobs` with one field resets the others to their defaults (`job-config.ts:60`) | - |
| odds below 1 are accepted by the odds routes and make winners lose points; suggested odds are described as profit multipliers from 0.2 (`odds-ai.ts:6`) while `payout1x2` pays stake x odds (`scoring.ts:15`) | the two comments contradict each other |
| an article with a Vietnamese title and no body is never repaired: the backfill selects on the title (`news.ts:156`) | the worker backfills what is missing (`news.ts:112`) |
| two scans that meet leave two `OPEN` flags; a flag's severity is never updated | the scan's test calls it idempotent |
| the feeds and the live-score route write a settled match's row (`football-data.ts:371`, `:411`, `:471`): taken off `FINISHED` before `settleParlays` reads it (`parlay.ts:130`), it leaves the parlay `OPEN` until a re-settle | - |
| the same outcome bet twice and won in one settlement lengthens the streak by two, past a milestone that is tested with equality (`prediction-service.ts:44`) | - |
| a 429 after the last retry is thrown with its `retry-after` unread (`football-data.ts:178`): the next queued request leaves inside that pause | - |
| an access token outlives a ban by up to its lifetime of an hour (`session.ts:75`) | - |
| a lobby's `CLOSED` status is read by no lobby operation (`lobby-service.ts:37`) | the join is refused (`docs/prd/12-use-cases.md:65`) |

Smaller ones: every caller builds a client of its own, so the spacing of requests is not shared between
processes; an administrator's unlock is undone by the next scan; bracket picks are stored, and neither
locked nor scored (`bracket.ts:64`); a host who transfers to himself ends with role `MEMBER`, which
nothing reads.

## What is not modelled

- **AI pundit, AI odds**: a language model's text or numbers, stored or shown as they are.
- **Notifications and realtime events**: sent after the commit, errors swallowed; nothing reads them back.
- **API routes** that only validate and call one service. Those that check or write something around the
  call are part of the service's actions.
- **Web interface, seeds, fixtures, end-to-end tests**: two thirds of the repository's lines, and no
  state of the game.
- **The administrator's reset** (`reset/route.ts`): one transaction that deletes bets, settlements, parlays,
  duels and the whole ledger and resets matches and `GLOBAL` balances. It leaves lobby wallets,
  streaks, special bets and micro bets as they are, so afterwards those balances are explained by no ledger
  row; every property about the ledger speaks of behaviours without it.
- **`livescore.ts`, `ingest.ts`**: older feeds, called by nothing but their command-line tool. Scorers,
  the parsing of feed answers and headlines.
- **Bracket, leaderboard, activity feed**: queries over rows the other modules write, and single-row writes.
- **Of lobbies**: chat and odds overrides. **Of accounts**: notification preferences, the format of tokens.
- A bet inserted behind the settlement of its match (`prediction-service.ts:89`) stays `OPEN` until a
  re-settle: Settlement has the behaviour (`InsertBet` after `CommitSettle`) and names it (`missed`).
  WinStreak's bets are all placed before their match is settled.
- In MatchPipeline a re-settle is one step; its two transactions, and a failure between them, are in
  Settlement.
- In FeedSync `StoreLineup` is one step. The `updateMany` that resets the starters (`squad.ts:231`) may wait
  for a replacement under way and then miss the rows it inserts. An answer that names players of the old
  roster throws at the next statement, and all is rolled back (`StoreFails`); one that names nobody leaves
  the new starters and stores its formation beside them, which the model does not follow.
- Deadlocks between settlements of different matches that update the same users in different
  orders (`prediction-service.ts:164`): PostgreSQL aborts one of them, which is `Crash`; the order
  itself is not modelled.

## The plan

Done: the modules with their runs, and the proofs of their safety. Next:

1. **An abstract "claimed once"** that the guarded claims of Rewards implement, in the manner of
   `SettleOnce`; and an abstract ledger that Wallet and Lobby both implement.
2. **Larger instances**: two faults in `match_pipeline`; a third team in `feeds`.
