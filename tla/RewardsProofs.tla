---------------------------- MODULE RewardsProofs ---------------------------
(***************************************************************************)
(* What a user is paid, for every bet and every profit: what module         *)
(* Formulas' properties say of the samples TLC takes; and what he may have  *)
(* once, for any number of requests, users, missions, items and days.      *)
(***************************************************************************)
EXTENDS Rewards, Formulas, FiniteSetTheorems, TLAPS

\* Rounding n/d, up or down at a half, never falls below a whole number n/d reaches.
LEMMA RoundAtLeast ==
    ASSUME NEW n \in Nat, NEW k \in Nat, n >= 100 * k, NEW r \in RoundedProduct(n, 100)
    PROVE  r \in Nat /\ r >= k
<1>1. Rounded(n, 100) \in Nat /\ Rounded(n, 100) >= k
  BY DEF Rounded
<1>2. CASE r = Rounded(n, 100)
  BY <1>1, <1>2
<1>3. CASE (2 * n) % 200 = 100 /\ r = Rounded(n, 100) - 1
  <2>1. 2 * n = 200 * ((2 * n) \div 200) + 100
    BY <1>3
  <2>2. Rounded(n, 100) = (2 * n) \div 200 + 1
    BY <2>1 DEF Rounded
  <2> QED
    BY <1>3, <2>1, <2>2
<1> QED
  BY <1>2, <1>3 DEF RoundedProduct

\* Of two products the greater one is never rounded to less.
LEMMA RoundMonotone ==
    ASSUME NEW n \in Nat, NEW m \in Nat, n < m,
           NEW r \in RoundedProduct(n, 100), NEW s \in RoundedProduct(m, 100)
    PROVE  r <= s
<1>1. r \in Int /\ s \in Int /\ r <= Rounded(n, 100)
  BY DEF RoundedProduct, Rounded
<1>2. Rounded(n, 100) <= Rounded(m, 100)
  BY DEF Rounded
<1>3. CASE s = Rounded(m, 100)
  BY <1>1, <1>2, <1>3 DEF Rounded
<1>4. CASE (2 * m) % 200 = 100 /\ s = Rounded(m, 100) - 1
  <2>1. 2 * m = 200 * ((2 * m) \div 200) + 100
    BY <1>4
  <2>2. Rounded(m, 100) = (2 * m) \div 200 + 1
    BY <2>1 DEF Rounded
  <2>3. 2 * n + 100 < 200 * ((2 * m) \div 200 + 1)
    BY <2>1
  <2>4. Rounded(n, 100) <= (2 * m) \div 200
    BY <2>3 DEF Rounded
  <2> QED
    BY <1>1, <1>4, <2>2, <2>4 DEF Rounded
<1> QED
  BY <1>3, <1>4 DEF RoundedProduct

\* The parts of what a winning bet is worth are numbers.
LEMMA WinningsParts ==
    ASSUME NEW b \in Bets, NEW x \in Winnings(b)
    PROVE  /\ b.stake \in Nat /\ b.odds \in Nat /\ ExactBonus(b) \in Nat
           /\ \E base \in Payout1x2(b.stake, b.odds) :
                 /\ base \in Nat
                 /\ UnderdogBonus(b.odds, base) \in Nat
                 /\ x = base + ExactBonus(b) + UnderdogBonus(b.odds, base)
<1>1. b.stake \in Nat /\ b.odds \in Nat /\ ExactBonus(b) \in Nat
  BY FormulasAssumption DEF Bets, ExactBonus
<1>2. PICK base \in Payout1x2(b.stake, b.odds) :
          x = base + ExactBonus(b) + UnderdogBonus(b.odds, base)
  BY DEF Winnings
<1>3. b.stake * b.odds \in Nat /\ b.stake * b.odds >= 100 * 0
  BY <1>1
<1>4. base \in Nat
  BY <1>2, <1>3, RoundAtLeast DEF Payout1x2
<1>5. UnderdogBonus(b.odds, base) \in Nat
  BY <1>4 DEF UnderdogBonus, Rounded
<1> QED
  BY <1>1, <1>2, <1>4, <1>5

\* At odds of 1.00 or more a bet that won is worth at least its stake.
LEMMA WinningsCoverStake ==
    ASSUME NEW b \in Bets, b.odds >= 100, NEW x \in Winnings(b)
    PROVE  x \in Nat /\ x >= b.stake
<1>1. PICK base \in Payout1x2(b.stake, b.odds) :
          /\ base \in Nat /\ UnderdogBonus(b.odds, base) \in Nat
          /\ x = base + ExactBonus(b) + UnderdogBonus(b.odds, base)
  BY WinningsParts
<1>2. b.stake \in Nat /\ b.odds \in Nat /\ ExactBonus(b) \in Nat
  BY WinningsParts
<1>3. b.stake * b.odds \in Nat /\ b.stake * b.odds >= 100 * b.stake
  BY <1>2
<1>4. base >= b.stake
  BY <1>1, <1>2, <1>3, RoundAtLeast DEF Payout1x2
<1> QED
  BY <1>1, <1>2, <1>4

\* Winnings grow with the odds, and with the exact score.
LEMMA WinningsMonotone ==
    ASSUME NEW b \in Bets, NEW c \in Bets, c.stake = b.stake, b.odds < c.odds,
           ExactBonus(b) <= ExactBonus(c), NEW x \in Winnings(b), NEW y \in Winnings(c)
    PROVE  x \in Nat /\ y \in Nat /\ x <= y
<1>1. PICK p \in Payout1x2(b.stake, b.odds) :
          /\ p \in Nat /\ UnderdogBonus(b.odds, p) \in Nat
          /\ x = p + ExactBonus(b) + UnderdogBonus(b.odds, p)
  BY WinningsParts
<1>2. PICK q \in Payout1x2(c.stake, c.odds) :
          /\ q \in Nat /\ UnderdogBonus(c.odds, q) \in Nat
          /\ y = q + ExactBonus(c) + UnderdogBonus(c.odds, q)
  BY WinningsParts
<1>3. /\ b.stake \in Nat /\ b.odds \in Nat /\ c.odds \in Nat
      /\ ExactBonus(b) \in Nat /\ ExactBonus(c) \in Nat
  BY WinningsParts
<1>4. p <= q
  <2>1. CASE b.stake = 0
    <3>1. b.stake * b.odds = 0 /\ c.stake * c.odds = 0
      BY <1>3, <2>1
    <3>2. RoundedProduct(0, 100) = {0}
      BY DEF RoundedProduct, Rounded
    <3> QED
      BY <1>1, <1>2, <3>1, <3>2 DEF Payout1x2
  <2>2. CASE b.stake > 0
    <3>1. /\ b.stake * b.odds \in Nat /\ c.stake * c.odds \in Nat
          /\ b.stake * b.odds < c.stake * c.odds
      BY <1>3, <2>2
    <3> QED
      BY <1>1, <1>2, <3>1, RoundMonotone DEF Payout1x2
  <2> QED
    BY <1>3, <2>1, <2>2
<1>5. UnderdogBonus(b.odds, p) <= UnderdogBonus(c.odds, q)
  <2>1. IsUnderdog(b.odds) => IsUnderdog(c.odds)
    BY <1>3 DEF IsUnderdog
  <2>2. Rounded(p * 15, 100) <= Rounded(q * 15, 100)
    BY <1>1, <1>2, <1>4 DEF Rounded
  <2> QED
    BY <1>1, <1>2, <2>1, <2>2 DEF UnderdogBonus
<1> QED
  BY <1>1, <1>2, <1>3, <1>4, <1>5

\* Which function an answer is of.
LEMMA OtherAnswers ==
    /\ SettleBet => answer'.of = "settle"
    /\ PredictorTier => answer'.of = "tier"
    /\ ComputeHotStreak => answer'.of = "streak"
    /\ GroupStandings => answer'.of = "table"
    /\ PatchJob => answer'.of = "patch"
    /\ ReadJob => answer'.of = "read"
    /\ CountNext => answer.of = "streak" /\ answer'.of = "streak"
    /\ PlayNext => answer.of = "table" /\ answer'.of = "table"
<1>1. SettleBet => answer'.of = "settle"
  BY DEF SettleBet
<1>2. PredictorTier => answer'.of = "tier"
  BY DEF PredictorTier
<1>3. ComputeHotStreak => answer'.of = "streak"
  BY DEF ComputeHotStreak
<1>4. GroupStandings => answer'.of = "table"
  BY DEF GroupStandings
<1>5. PatchJob => answer'.of = "patch"
  BY DEF PatchJob
<1>6. ReadJob => answer'.of = "read"
  BY DEF ReadJob
<1>7. CountNext => answer.of = "streak" /\ answer'.of = "streak"
  BY DEF CountNext, CountWin
<1>8. PlayNext => answer.of = "table" /\ answer'.of = "table"
  BY DEF PlayNext
<1> QED
  BY <1>1, <1>2, <1>3, <1>4, <1>5, <1>6, <1>7, <1>8

\* Whatever the stake, the odds and the power-up: a win at odds of 1.00 or more
\* never costs points, a loss brings back an insured stake and nothing else.
THEOREM WinnersKeepStake == FormulasSpec => []WinnerNeverLoses
<1>1. FormulasInit => WinnerNeverLoses
  BY DEF FormulasInit, WinnerNeverLoses, NoAnswer
<1>2. WinnerNeverLoses /\ [FormulasNext]_answer => WinnerNeverLoses'
  <2> SUFFICES ASSUME WinnerNeverLoses, [FormulasNext]_answer PROVE WinnerNeverLoses'
    OBVIOUS
  <2>1. CASE SettleBet
    <3>0. PICK b \in Bets : \E points \in Credited(b) :
              answer' = [of |-> "settle", bet |-> b, points |-> points]
      BY <2>1 DEF SettleBet
    <3>1. PICK points \in Credited(b) :
              answer' = [of |-> "settle", bet |-> b, points |-> points]
      BY <3>0
    <3>2. ASSUME Won(b), b.odds >= 100 PROVE points >= b.stake
      <4>1. PICK x \in Winnings(b) :
                points = IF b.powerUp = "DOUBLE_DOWN" THEN 2 * x ELSE x
        BY <3>2 DEF Credited
      <4>2. x \in Nat /\ x >= b.stake
        BY <3>2, WinningsCoverStake
      <4>3. b.stake \in Nat
        BY FormulasAssumption DEF Bets
      <4> QED
        BY <4>1, <4>2, <4>3
    <3>3. ~Won(b) => points = (IF b.powerUp = "INSURANCE" THEN b.stake ELSE 0)
      BY DEF Credited
    <3> QED
      BY <3>1, <3>2, <3>3 DEF WinnerNeverLoses
  <2>2. CASE answer'.of # "settle"
    BY <2>2 DEF WinnerNeverLoses
  <2>3. (\/ PredictorTier \/ ComputeHotStreak \/ GroupStandings \/ PatchJob \/ ReadJob
         \/ CountNext \/ PlayNext)
            => answer'.of # "settle"
    BY OtherAnswers
  <2>4. CASE UNCHANGED answer
    BY <2>4 DEF WinnerNeverLoses
  <2> QED
    BY <2>1, <2>2, <2>3, <2>4 DEF FormulasNext, Call
<1> QED
  BY <1>1, <1>2, PTL DEF FormulasSpec

\* The same bet at higher odds, with the exact score named or not, never pays less.
THEOREM OddsMonotone == FormulasSpec => []HigherOddsPayMore
<1>1. FormulasInit => HigherOddsPayMore
  BY DEF FormulasInit, HigherOddsPayMore, NoAnswer
<1>2. HigherOddsPayMore /\ [FormulasNext]_answer => HigherOddsPayMore'
  <2> SUFFICES ASSUME HigherOddsPayMore, [FormulasNext]_answer PROVE HigherOddsPayMore'
    OBVIOUS
  <2>1. CASE SettleBet
    <3>0. PICK b \in Bets : \E points \in Credited(b) :
              answer' = [of |-> "settle", bet |-> b, points |-> points]
      BY <2>1 DEF SettleBet
    <3>1. PICK points \in Credited(b) :
              answer' = [of |-> "settle", bet |-> b, points |-> points]
      BY <3>0
    <3>2. ASSUME NEW o \in Odds, o > b.odds, NEW exact \in {b.exact, TRUE},
                 Won([b EXCEPT !.odds = o, !.exact = exact]),
                 NEW more \in Credited([b EXCEPT !.odds = o, !.exact = exact])
          PROVE  more >= points
      <4> DEFINE c == [b EXCEPT !.odds = o, !.exact = exact]
      <4>1. /\ c \in Bets /\ c.stake = b.stake /\ c.odds = o /\ c.powerUp = b.powerUp
            /\ c.pick = b.pick /\ c.home = b.home /\ c.away = b.away
            /\ c.knockout = b.knockout /\ (b.exact => c.exact)
        BY <3>2 DEF Bets
      <4>2. Won(c) /\ more \in Credited(c)
        BY <3>2
      <4> HIDE DEF c
      <4>3. Won(b) /\ b.odds < c.odds
        <5>1. b.odds \in Nat /\ o \in Nat
          BY FormulasAssumption DEF Bets
        <5> QED
          BY <3>2, <4>1, <4>2, <5>1 DEF Won
      <4>4. PICK x \in Winnings(b) : points = IF b.powerUp = "DOUBLE_DOWN" THEN 2 * x ELSE x
        BY <4>3 DEF Credited
      <4>5. PICK y \in Winnings(c) : more = IF c.powerUp = "DOUBLE_DOWN" THEN 2 * y ELSE y
        BY <4>2 DEF Credited
      <4>6. ExactBonus(b) <= ExactBonus(c)
        BY <4>1, FormulasAssumption DEF ExactBonus, Bets
      <4>7. x \in Nat /\ y \in Nat /\ x <= y
        BY <4>1, <4>3, <4>6, WinningsMonotone
      <4> QED
        BY <4>1, <4>4, <4>5, <4>7
    <3> QED
      BY <3>1, <3>2 DEF HigherOddsPayMore
  <2>2. CASE answer'.of # "settle"
    BY <2>2 DEF HigherOddsPayMore
  <2>3. (\/ PredictorTier \/ ComputeHotStreak \/ GroupStandings \/ PatchJob \/ ReadJob
         \/ CountNext \/ PlayNext)
            => answer'.of # "settle"
    BY OtherAnswers
  <2>4. CASE UNCHANGED answer
    BY <2>4 DEF HigherOddsPayMore
  <2> QED
    BY <2>1, <2>2, <2>3, <2>4 DEF FormulasNext, Call
<1> QED
  BY <1>1, <1>2, PTL DEF FormulasSpec

\* Whatever a configuration holds, a clamped one is in bounds, and clamping it once
\* more changes nothing.
LEMMA ClampSafe ==
    ASSUME NEW cfg \in Configs
    PROVE  /\ ClampConfig(cfg) \in [Fields -> Int]
           /\ \A f \in Fields : /\ Bound[f][1] <= ClampConfig(cfg)[f]
                                /\ ClampConfig(cfg)[f] <= Bound[f][2]
<1>1. ASSUME NEW f \in Fields
      PROVE  /\ ClampConfig(cfg)[f] \in Int
             /\ Bound[f][1] <= ClampConfig(cfg)[f] /\ ClampConfig(cfg)[f] <= Bound[f][2]
  <2>1. /\ Bound[f] \in Nat \X Nat /\ Default[f] \in Nat
        /\ Bound[f][1] <= Default[f] /\ Default[f] <= Bound[f][2]
    BY FormulasAssumption
  <2>2. f \in DOMAIN cfg /\ cfg[f] # Junk => cfg[f] \in Int
    <3>1. PICK fs \in SUBSET Fields : cfg \in [fs -> Values \union {Junk}]
      BY DEF Configs
    <3> QED
      BY <3>1, FormulasAssumption
  <2> QED
    BY <2>1, <2>2 DEF ClampConfig, ClampField
<1> QED
  BY <1>1 DEF ClampConfig

\* The tier is n where the profit reaches the first n steps and no other.
LEMMA TierIs ==
    ASSUME NEW net \in Int, NEW n \in 0..5, \A i \in 1..5 : net >= Steps[i] <=> i <= n
    PROVE  Tier(net) = n
<1>1. {i \in 1..5 : net >= Steps[i]} = 1..n
  OBVIOUS
<1>2. Cardinality(1..n) = IF 1 > n THEN 0 ELSE n - 1 + 1
  BY FS_Interval
<1>3. Cardinality(1..n) = n
  BY <1>2
<1> QED
  BY <1>1, <1>3 DEF Tier

\* The same, step by step.
LEMMA TierRanges ==
    ASSUME NEW net \in Int
    PROVE  /\ net < 1000 => Tier(net) = 0
           /\ 1000 <= net /\ net < 3000 => Tier(net) = 1
           /\ 3000 <= net /\ net < 8000 => Tier(net) = 2
           /\ 8000 <= net /\ net < 20000 => Tier(net) = 3
           /\ 20000 <= net /\ net < 50000 => Tier(net) = 4
           /\ 50000 <= net => Tier(net) = 5
<1>1. /\ Steps[1] = 1000 /\ Steps[2] = 3000 /\ Steps[3] = 8000
      /\ Steps[4] = 20000 /\ Steps[5] = 50000
  BY DEF Steps
<1>2. ASSUME NEW i \in 1..5 PROVE i = 1 \/ i = 2 \/ i = 3 \/ i = 4 \/ i = 5
  OBVIOUS
<1>3. CASE net < 1000
  <2>1. \A i \in 1..5 : net >= Steps[i] <=> i <= 0
    BY <1>1, <1>2, <1>3
  <2> QED
    BY <1>3, <2>1, TierIs
<1>4. CASE 1000 <= net /\ net < 3000
  <2>1. \A i \in 1..5 : net >= Steps[i] <=> i <= 1
    BY <1>1, <1>2, <1>4
  <2> QED
    BY <1>4, <2>1, TierIs
<1>5. CASE 3000 <= net /\ net < 8000
  <2>1. \A i \in 1..5 : net >= Steps[i] <=> i <= 2
    BY <1>1, <1>2, <1>5
  <2> QED
    BY <1>5, <2>1, TierIs
<1>6. CASE 8000 <= net /\ net < 20000
  <2>1. \A i \in 1..5 : net >= Steps[i] <=> i <= 3
    BY <1>1, <1>2, <1>6
  <2> QED
    BY <1>6, <2>1, TierIs
<1>7. CASE 20000 <= net /\ net < 50000
  <2>1. \A i \in 1..5 : net >= Steps[i] <=> i <= 4
    BY <1>1, <1>2, <1>7
  <2> QED
    BY <1>7, <2>1, TierIs
<1>8. CASE 50000 <= net
  <2>1. \A i \in 1..5 : net >= Steps[i] <=> i <= 5
    BY <1>1, <1>2, <1>8
  <2> QED
    BY <1>8, <2>1, TierIs
<1> QED
  BY <1>3, <1>4, <1>5, <1>6, <1>7, <1>8

\* For every profit: with the points said to be missing the next tier is reached, and
\* with one less it is not; only the last tier misses none.
THEOREM TierStepsExact == FormulasSpec => []TierSteps
<1>1. FormulasInit => TierSteps
  BY DEF FormulasInit, TierSteps, NoAnswer
<1>2. TierSteps /\ [FormulasNext]_answer => TierSteps'
  <2> SUFFICES ASSUME TierSteps, [FormulasNext]_answer PROVE TierSteps'
    OBVIOUS
  <2>1. CASE PredictorTier
    <3>1. PICK net \in Profits : answer' = [of |-> "tier", net |-> net, tier |-> Tier(net),
                                             toNext |-> ToNext(net)]
      BY <2>1 DEF PredictorTier
    <3>2. net \in Int
      BY FormulasAssumption
    <3> DEFINE next == ToNext(net)
    <3>3. /\ next \in Int /\ next >= 0
          /\ Tier(net) = 5 <=> next = 0
          /\ next > 0 => /\ Tier(net + next) = Tier(net) + 1
                         /\ Tier(net + next - 1) = Tier(net)
      <4>1. /\ Steps[1] = 1000 /\ Steps[2] = 3000 /\ Steps[3] = 8000
            /\ Steps[4] = 20000 /\ Steps[5] = 50000
        BY DEF Steps
      <4>2. CASE net < 1000
        <5>1. Tier(net) = 0 /\ next = 1000 - net
          BY <3>2, <4>1, <4>2, TierRanges DEF ToNext
        <5>2. Tier(1000) = 1 /\ Tier(999) = 0
          BY TierRanges
        <5> QED
          BY <3>2, <4>2, <5>1, <5>2
      <4>3. CASE 1000 <= net /\ net < 3000
        <5>1. Tier(net) = 1 /\ next = 3000 - net
          BY <3>2, <4>1, <4>3, TierRanges DEF ToNext
        <5>2. Tier(3000) = 2 /\ Tier(2999) = 1
          BY TierRanges
        <5> QED
          BY <3>2, <4>3, <5>1, <5>2
      <4>4. CASE 3000 <= net /\ net < 8000
        <5>1. Tier(net) = 2 /\ next = 8000 - net
          BY <3>2, <4>1, <4>4, TierRanges DEF ToNext
        <5>2. Tier(8000) = 3 /\ Tier(7999) = 2
          BY TierRanges
        <5> QED
          BY <3>2, <4>4, <5>1, <5>2
      <4>5. CASE 8000 <= net /\ net < 20000
        <5>1. Tier(net) = 3 /\ next = 20000 - net
          BY <3>2, <4>1, <4>5, TierRanges DEF ToNext
        <5>2. Tier(20000) = 4 /\ Tier(19999) = 3
          BY TierRanges
        <5> QED
          BY <3>2, <4>5, <5>1, <5>2
      <4>6. CASE 20000 <= net /\ net < 50000
        <5>1. Tier(net) = 4 /\ next = 50000 - net
          BY <3>2, <4>1, <4>6, TierRanges DEF ToNext
        <5>2. Tier(50000) = 5 /\ Tier(49999) = 4
          BY TierRanges
        <5> QED
          BY <3>2, <4>6, <5>1, <5>2
      <4>7. CASE 50000 <= net
        <5>1. Tier(net) = 5 /\ next = 0
          BY <3>2, <4>7, TierRanges DEF ToNext
        <5> QED
          BY <5>1
      <4> QED
        BY <3>2, <4>2, <4>3, <4>4, <4>5, <4>6, <4>7
    <3>4. answer'.tier = Tier(net) /\ answer'.toNext = next /\ answer'.net = net
      BY <3>1
    <3> HIDE DEF next
    <3> QED
      BY <3>3, <3>4 DEF TierSteps
  <2>2. CASE answer' = answer
    BY <2>2 DEF TierSteps
  <2>3. CASE answer'.of # "tier"
    BY <2>3 DEF TierSteps
  <2> QED
    BY <2>1, <2>2, <2>3, OtherAnswers DEF FormulasNext, Call
<1> QED
  BY <1>1, <1>2, PTL DEF FormulasSpec

\* Payouts are fair in both respects, for all stakes and odds.
THEOREM PayoutsStayFair == FormulasSpec => []PayoutsFair
<1>1. WinnerNeverLoses /\ HigherOddsPayMore => PayoutsFair
  BY DEF PayoutsFair
<1> QED
  BY <1>1, WinnersKeepStake, OddsMonotone, PTL

\* What an administrator is shown as stored is in bounds, and it is what the workers
\* read; what they read of a row edited by hand is in bounds as well.
THEOREM ConfigSafe == FormulasSpec => []JobConfigSafe
<1>1. FormulasInit => JobConfigSafe
  BY DEF FormulasInit, JobConfigSafe, NoAnswer
<1>2. JobConfigSafe /\ [FormulasNext]_answer => JobConfigSafe'
  <2> SUFFICES ASSUME JobConfigSafe, [FormulasNext]_answer PROVE JobConfigSafe'
    OBVIOUS
  <2>1. CASE ReadJob
    BY <2>1, ClampSafe DEF ReadJob, GetJobConfig, JobConfigSafe
  <2>2. CASE PatchJob
    <3>1. PICK patch \in Configs :
              answer' = [of |-> "patch", patch |-> patch, row |-> ClampConfig(patch)]
      BY <2>2 DEF PatchJob, MergeJobConfig
    <3> DEFINE row == ClampConfig(patch)
    <3>2. row \in [Fields -> Int]
          /\ \A f \in Fields : Bound[f][1] <= row[f] /\ row[f] <= Bound[f][2]
      BY ClampSafe
    <3> HIDE DEF row
    <3>3. ASSUME NEW f \in Fields PROVE ClampConfig(row)[f] = row[f]
      <4>1. Bound[f] \in Nat \X Nat
        BY FormulasAssumption
      <4>2. f \in DOMAIN row /\ row[f] # Junk /\ row[f] \in Int
        BY <3>2, FormulasAssumption
      <4>3. ClampConfig(row)[f] = ClampField(f, row[f])
        BY <4>2 DEF ClampConfig
      <4> QED
        BY <3>2, <4>1, <4>2, <4>3 DEF ClampField
    <3>4. ClampConfig(row) = row
      BY <3>2, <3>3 DEF ClampConfig
    <3>5. answer' = [of |-> "patch", patch |-> patch, row |-> row]
      BY <3>1 DEF row
    <3> QED
      BY <3>2, <3>4, <3>5 DEF JobConfigSafe, GetJobConfig
  <2>3. (\/ SettleBet \/ PredictorTier \/ ComputeHotStreak \/ GroupStandings
         \/ CountNext \/ PlayNext)
            => answer'.of \notin {"patch", "read"}
    BY OtherAnswers
  <2>4. CASE answer'.of \notin {"patch", "read"}
    BY <2>4 DEF JobConfigSafe
  <2>5. CASE UNCHANGED answer
    BY <2>5 DEF JobConfigSafe
  <2> QED
    BY <2>1, <2>2, <2>3, <2>4, <2>5 DEF FormulasNext, Call
<1> QED
  BY <1>1, <1>2, PTL DEF FormulasSpec
\* A list of verdicts and one more.
LEMMA AppendIs ==
    ASSUME NEW S, NEW v \in Seq(S), NEW x \in S
    PROVE  /\ Append(v, x) \in Seq(S) /\ Len(v) \in Nat /\ Len(Append(v, x)) = Len(v) + 1
           /\ \A k \in 1..Len(v) : Append(v, x)[k] = v[k]
           /\ Append(v, x)[Len(v) + 1] = x
OBVIOUS

\* The next verdict keeps what is known of the runs.
LEMMA CountStep == ASSUME StreakInv, LongestRun, CountNext PROVE StreakInv' /\ LongestRun'
<1>1. PICK x \in {"WON", "LOST", "VOID"} : answer.of = "streak" /\ answer' = CountWin(answer, x)
  BY DEF CountNext
<1> DEFINE v == answer.verdicts
           n == Len(v)
           c == answer.current
           b == answer.best
           w == answer'.verdicts
           d == answer'.current
           e == answer'.best
<1>2. /\ v \in Seq({"WON", "LOST", "VOID"}) /\ n \in Nat
      /\ b \in Nat /\ c \in 0..n /\ c <= b
      /\ \A k \in (n - c + 1)..n : v[k] = "WON"
      /\ c < n => v[n - c] # "WON"
  BY <1>1 DEF StreakInv
<1>3. /\ b > 0 => \E i \in 1..n : i + b - 1 <= n /\ \A k \in i..(i + b - 1) : v[k] = "WON"
      /\ \A i \in 1..n : i + b <= n => ~(\A k \in i..(i + b) : v[k] = "WON")
  BY <1>1 DEF LongestRun
<1>4. /\ answer'.of = "streak" /\ w = Append(v, x)
      /\ d = IF x = "WON" THEN c + 1 ELSE 0
      /\ e = IF d > b THEN d ELSE b
  BY <1>1 DEF CountWin
<1>5. /\ w \in Seq({"WON", "LOST", "VOID"}) /\ Len(w) = n + 1
      /\ \A k \in 1..n : w[k] = v[k]
      /\ w[n + 1] = x
  BY <1>2, <1>4, AppendIs
<1> HIDE DEF v, n, c, b, w, d, e
<1>6. /\ e \in Nat /\ d \in 0..(n + 1) /\ d <= e
      /\ \A k \in (n + 1 - d + 1)..(n + 1) : w[k] = "WON"
      /\ d < n + 1 => w[n + 1 - d] # "WON"
  <2>1. CASE x = "WON"
    BY <1>2, <1>4, <1>5, <2>1
  <2>2. CASE x # "WON"
    BY <1>2, <1>4, <1>5, <2>2
  <2> QED
    BY <2>1, <2>2
<1>7. e > 0 => \E i \in 1..(n + 1) :
          i + e - 1 <= n + 1 /\ \A k \in i..(i + e - 1) : w[k] = "WON"
  <2>1. ASSUME e = b, b > 0
        PROVE  \E i \in 1..(n + 1) :
                   i + e - 1 <= n + 1 /\ \A k \in i..(i + e - 1) : w[k] = "WON"
    <3>1. PICK i \in 1..n : i + b - 1 <= n /\ \A k \in i..(i + b - 1) : v[k] = "WON"
      BY <1>3, <2>1
    <3>2. \A k \in i..(i + e - 1) : k \in 1..n /\ w[k] = "WON"
      BY <1>2, <1>5, <2>1, <3>1
    <3>3. i \in 1..(n + 1) /\ i + e - 1 <= n + 1
      BY <1>2, <2>1, <3>1
    <3> QED
      BY <3>2, <3>3
  <2>2. ASSUME e # b
        PROVE  \E i \in 1..(n + 1) :
                   i + e - 1 <= n + 1 /\ \A k \in i..(i + e - 1) : w[k] = "WON"
    <3> DEFINE i == n + 2 - d
    <3>1. e = d /\ d > b
      BY <1>4, <2>2
    <3>2. i \in 1..(n + 1) /\ i + e - 1 = n + 1
      BY <1>2, <1>6, <3>1
    <3>3. \A k \in i..(n + 1) : w[k] = "WON"
      BY <1>2, <1>6
    <3>4. i + e - 1 <= n + 1
      BY <1>2, <3>2
    <3> HIDE DEF i
    <3> QED
      BY <3>2, <3>3, <3>4
  <2> QED
    BY <1>2, <2>1, <2>2
<1>8. ASSUME NEW i \in 1..(n + 1), i + e <= n + 1
      PROVE  ~(\A k \in i..(i + e) : w[k] = "WON")
  <2>1. CASE x # "WON" /\ i + e = n + 1
    BY <1>2, <1>5, <1>6, <1>8, <2>1
  <2>2. CASE x # "WON" /\ i + e < n + 1
    <3>1. e = b /\ i \in 1..n /\ i + b <= n
      BY <1>2, <1>4, <1>6, <2>2
    <3>2. PICK k \in i..(i + b) : v[k] # "WON"
      BY <1>3, <3>1
    <3>3. k \in i..(i + e) /\ w[k] # "WON"
      BY <1>2, <1>5, <3>1, <3>2
    <3> QED
      BY <3>3
  <2>3. CASE x = "WON" /\ e > b
    <3>1. e = c + 1 /\ b = c /\ i \in 1..n /\ i + b <= n
      BY <1>2, <1>4, <1>6, <1>8, <2>3
    <3>2. PICK k \in i..(i + b) : v[k] # "WON"
      BY <1>3, <3>1
    <3>3. k \in i..(i + e) /\ w[k] # "WON"
      BY <1>2, <1>5, <3>1, <3>2
    <3> QED
      BY <3>3
  <2>4. CASE x = "WON" /\ e = b /\ i + b <= n
    <3>1. i \in 1..n
      BY <1>2, <1>4, <2>4
    <3>2. PICK k \in i..(i + b) : v[k] # "WON"
      BY <1>3, <2>4, <3>1
    <3>3. k \in i..(i + e) /\ w[k] # "WON"
      BY <1>2, <1>5, <2>4, <3>1, <3>2
    <3> QED
      BY <3>3
  <2>5. CASE x = "WON" /\ e = b /\ i + b = n + 1
    <3>1. c + 1 <= b
      BY <1>2, <1>4, <2>5
    <3>2. c < n /\ n - c \in i..(i + e) /\ n - c \in 1..n
      BY <1>2, <1>8, <2>5, <3>1
    <3>3. w[n - c] # "WON"
      BY <1>2, <1>5, <3>2
    <3> QED
      BY <3>2, <3>3
  <2>6. /\ b \in Nat /\ d \in Nat /\ e \in Nat /\ n \in Nat /\ i \in Nat
        /\ e = b \/ e > b
    BY <1>2, <1>4, <1>6
  <2>7. /\ i + e = n + 1 \/ i + e < n + 1
        /\ i + b <= n \/ i + b = n + 1 \/ i + b > n + 1
    BY <1>8, <2>6
  <2> QED
    BY <1>8, <2>1, <2>2, <2>3, <2>4, <2>5, <2>6, <2>7
<1>9. /\ \A k \in (Len(w) - d + 1)..Len(w) : w[k] = "WON"
      /\ d \in 0..Len(w)
      /\ d < Len(w) => w[Len(w) - d] # "WON"
  <2>1. Len(w) = n + 1
    BY <1>5
  <2>2. \A k \in (Len(w) - d + 1)..Len(w) : w[k] = "WON"
    BY <1>2, <1>6, <2>1
  <2>3. d \in 0..Len(w)
    BY <1>6, <2>1
  <2>4. d < n + 1 => w[n + 1 - d] # "WON"
    BY <1>6
  <2>5. d < Len(w) => w[Len(w) - d] # "WON"
    <3>1. d \in Int /\ n \in Int
      BY <1>2, <1>6
    <3>2. \A l \in Int : l = n + 1 => (d < l => w[l - d] # "WON")
      BY <2>4, <3>1
    <3>3. Len(w) \in Int
      BY <2>1, <3>1
    <3> QED
      BY <2>1, <3>2, <3>3
  <2> QED
    BY <2>2, <2>3, <2>5
<1>10. StreakInv'
  BY <1>5, <1>6, <1>9 DEF StreakInv, w, d, e
<1>11. /\ e > 0 => \E i \in 1..Len(w) : i + e - 1 <= Len(w) /\ \A k \in i..(i + e - 1) : w[k] = "WON"
       /\ \A i \in 1..Len(w) : i + e <= Len(w) => ~(\A k \in i..(i + e) : w[k] = "WON")
  BY <1>5, <1>7, <1>8
<1>12. LongestRun'
  <2>1. /\ answer'.best > 0 => \E i \in 1..Len(answer'.verdicts) :
              /\ i + answer'.best - 1 <= Len(answer'.verdicts)
              /\ \A k \in i..(i + answer'.best - 1) : answer'.verdicts[k] = "WON"
        /\ \A i \in 1..Len(answer'.verdicts) : i + answer'.best <= Len(answer'.verdicts) =>
              ~(\A k \in i..(i + answer'.best) : answer'.verdicts[k] = "WON")
    BY <1>11 DEF w, e
  <2> QED
    BY <2>1 DEF LongestRun
<1> QED
  BY <1>10, <1>12

\* HOT_STREAK shows the longest run of wins, however long the history is.
THEOREM StreakIsLongest == FormulasSpec => []LongestRun
<1>1. FormulasInit => StreakInv /\ LongestRun
  BY DEF FormulasInit, NoAnswer, StreakInv, LongestRun
<1>2. StreakInv /\ LongestRun /\ [FormulasNext]_answer => StreakInv' /\ LongestRun'
  <2> SUFFICES ASSUME StreakInv, LongestRun, [FormulasNext]_answer
               PROVE  StreakInv' /\ LongestRun'
    OBVIOUS
  <2>1. CASE ComputeHotStreak
    BY <2>1 DEF ComputeHotStreak, StreakInv, LongestRun
  <2>2. CASE CountNext
    BY <2>2, CountStep
  <2>3. CASE answer'.of # "streak"
    BY <2>3 DEF StreakInv, LongestRun
  <2>4. CASE UNCHANGED answer
    BY <2>4 DEF StreakInv, LongestRun
  <2> QED
    BY <2>1, <2>2, <2>3, <2>4, OtherAnswers DEF FormulasNext, Call
<1> QED
  BY <1>1, <1>2, PTL DEF FormulasSpec

\* One match more in a set of matches.
LEMMA OneMore ==
    ASSUME NEW n \in Nat, NEW A \in SUBSET (1..n)
    PROVE  Cardinality(A) \in Nat /\ Cardinality(A \union {n + 1}) = Cardinality(A) + 1
<1>1. IsFiniteSet(1..n)
  BY FS_Interval
<1>2. IsFiniteSet(A)
  BY <1>1, FS_Subset
<1>3. n + 1 \notin A
  OBVIOUS
<1> QED
  BY <1>2, <1>3, FS_CardinalityType, FS_AddElement

\* A sum over the three teams, in any order of theirs.
LEMMA SumOfThree ==
    ASSUME NEW f \in [Teams -> Int], NEW h \in Teams, NEW a \in Teams, NEW x \in Teams,
           h # a, h # x, a # x
    PROVE  f[1] + f[2] + f[3] = f[h] + f[a] + f[x]
<1>1. f[1] \in Int /\ f[2] \in Int /\ f[3] \in Int
  BY DEF Teams
<1>2. /\ h = 1 \/ h = 2 \/ h = 3
      /\ a = 1 \/ a = 2 \/ a = 3
      /\ x = 1 \/ x = 2 \/ x = 3
  BY DEF Teams
<1> QED
  BY <1>1, <1>2

\* A match that counts is one of two drawn teams, and has goals.
LEMMA CountedMatch ==
    ASSUME NEW m \in GroupMatch, Counts(m)
    PROVE  m.home \in Teams /\ m.away \in Teams /\ m.hs \in Int /\ m.as \in Int
<1>1. m.home \in Teams /\ m.away \in Teams /\ m.hs # NoGoals /\ m.as # NoGoals
  BY DEF Counts
<1>2. m.hs \in Goals /\ m.as \in Goals
  BY <1>1 DEF GroupMatch
<1>3. Goals \subseteq Int
  BY FormulasAssumption
<1> QED
  BY <1>1, <1>2, <1>3

\* What a match that counts does to the rows.
LEMMA PlayRows ==
    ASSUME NEW row \in [Teams -> StandingRow], NEW m \in GroupMatch, Counts(m), m.home # m.away
    PROVE  /\ Play(row, m) \in [Teams -> StandingRow]
           /\ \A t \in Teams :
                 /\ Play(row, m)[t].played
                        = row[t].played + (IF t \in {m.home, m.away} THEN 1 ELSE 0)
                 /\ row[t].played = row[t].won + row[t].drawn + row[t].lost
                        => Play(row, m)[t].played = Play(row, m)[t].won
                               + Play(row, m)[t].drawn + Play(row, m)[t].lost
                 /\ row[t].pts = 3 * row[t].won + row[t].drawn
                        => Play(row, m)[t].pts
                               = 3 * Play(row, m)[t].won + Play(row, m)[t].drawn
           /\ \E x \in Teams :
                 /\ x # m.home /\ x # m.away /\ Play(row, m)[x] = row[x]
                 /\ Play(row, m)[m.home].gf + Play(row, m)[m.away].gf
                        = row[m.home].gf + row[m.away].gf + m.hs + m.as
                 /\ Play(row, m)[m.home].ga + Play(row, m)[m.away].ga
                        = row[m.home].ga + row[m.away].ga + m.hs + m.as
                 /\ Play(row, m)[m.home].pts + Play(row, m)[m.away].pts
                        = row[m.home].pts + row[m.away].pts + (IF m.hs = m.as THEN 2 ELSE 3)
<1> DEFINE h == m.home
           a == m.away
           new == Play(row, m)
<1>1. /\ h \in Teams /\ a \in Teams /\ h # a
      /\ m.hs \in Int /\ m.as \in Int
  BY CountedMatch
<1>2. /\ new = [t \in Teams |-> IF t = h THEN Add(row[t], m.hs, m.as)
                                ELSE IF t = a THEN Add(row[t], m.as, m.hs) ELSE row[t]]
  BY DEF Play
<1>3. /\ new[h] = Add(row[h], m.hs, m.as) /\ new[a] = Add(row[a], m.as, m.hs)
      /\ \A t \in Teams : t # h /\ t # a => new[t] = row[t]
  BY <1>1, <1>2
<1>4. /\ Add(row[h], m.hs, m.as) \in StandingRow /\ Add(row[a], m.as, m.hs) \in StandingRow
  BY <1>1 DEF Add, StandingRow
<1>5. new \in [Teams -> StandingRow]
  BY <1>2, <1>4
<1>6. \E x \in Teams : x # h /\ x # a
  BY <1>1 DEF Teams
<1> HIDE DEF new
<1>7. ASSUME NEW t \in Teams
      PROVE  /\ new[t].played = row[t].played + (IF t \in {h, a} THEN 1 ELSE 0)
             /\ row[t].played = row[t].won + row[t].drawn + row[t].lost
                    => new[t].played = new[t].won + new[t].drawn + new[t].lost
             /\ row[t].pts = 3 * row[t].won + row[t].drawn
                    => new[t].pts = 3 * new[t].won + new[t].drawn
  <2>1. row[t] \in StandingRow
    OBVIOUS
  <2>2. ASSUME NEW f \in Int, NEW g \in Int
        PROVE  /\ Add(row[t], f, g).played = row[t].played + 1
               /\ row[t].played = row[t].won + row[t].drawn + row[t].lost
                      => Add(row[t], f, g).played = Add(row[t], f, g).won
                             + Add(row[t], f, g).drawn + Add(row[t], f, g).lost
               /\ row[t].pts = 3 * row[t].won + row[t].drawn
                      => Add(row[t], f, g).pts
                             = 3 * Add(row[t], f, g).won + Add(row[t], f, g).drawn
    <3> DEFINE r == row[t]
               s == Add(r, f, g)
    <3>1. /\ r.played \in Int /\ r.won \in Int /\ r.drawn \in Int /\ r.lost \in Int
          /\ r.pts \in Int
      BY <2>1 DEF StandingRow
    <3>2. /\ s.played = r.played + 1
          /\ s.won = r.won + (IF f > g THEN 1 ELSE 0)
          /\ s.drawn = r.drawn + (IF f = g THEN 1 ELSE 0)
          /\ s.lost = r.lost + (IF f < g THEN 1 ELSE 0)
          /\ s.pts = r.pts + (IF f > g THEN 3 ELSE IF f = g THEN 1 ELSE 0)
      BY DEF Add
    <3> HIDE DEF r, s
    <3>3. /\ s.played = r.played + 1
          /\ r.played = r.won + r.drawn + r.lost => s.played = s.won + s.drawn + s.lost
          /\ r.pts = 3 * r.won + r.drawn => s.pts = 3 * s.won + s.drawn
      <4>1. CASE f > g
        BY <2>2, <3>1, <3>2, <4>1
      <4>2. CASE f = g
        BY <2>2, <3>1, <3>2, <4>2
      <4>3. CASE f < g
        BY <2>2, <3>1, <3>2, <4>3
      <4> QED
        BY <2>2, <4>1, <4>2, <4>3
    <3> QED
      BY <3>3 DEF r, s
  <2>3. CASE t \in {h, a}
    <3>1. PICK f \in Int, g \in Int : new[t] = Add(row[t], f, g)
      BY <1>1, <1>3, <2>3
    <3> QED
      BY <2>2, <2>3, <3>1
  <2>4. CASE t # h /\ t # a
    BY <1>3, <2>1, <2>4 DEF StandingRow
  <2> QED
    BY <2>3, <2>4
<1>8. /\ new[h].gf + new[a].gf = row[h].gf + row[a].gf + m.hs + m.as
      /\ new[h].ga + new[a].ga = row[h].ga + row[a].ga + m.hs + m.as
      /\ new[h].pts + new[a].pts = row[h].pts + row[a].pts + (IF m.hs = m.as THEN 2 ELSE 3)
  <2>1. row[h] \in StandingRow /\ row[a] \in StandingRow
    BY <1>1
  <2>2. /\ row[h].gf \in Int /\ row[a].gf \in Int /\ row[h].ga \in Int /\ row[a].ga \in Int
        /\ row[h].pts \in Int /\ row[a].pts \in Int
    BY <2>1 DEF StandingRow
  <2>3. /\ new[h].gf = row[h].gf + m.hs /\ new[a].gf = row[a].gf + m.as
        /\ new[h].ga = row[h].ga + m.as /\ new[a].ga = row[a].ga + m.hs
    BY <1>3 DEF Add
  <2>4. /\ new[h].pts = row[h].pts
               + (IF m.hs > m.as THEN 3 ELSE IF m.hs = m.as THEN 1 ELSE 0)
        /\ new[a].pts = row[a].pts
               + (IF m.as > m.hs THEN 3 ELSE IF m.as = m.hs THEN 1 ELSE 0)
    BY <1>3 DEF Add
  <2>5. new[h].pts + new[a].pts = row[h].pts + row[a].pts + (IF m.hs = m.as THEN 2 ELSE 3)
    <3>1. CASE m.hs = m.as
      BY <1>1, <2>2, <2>4, <3>1
    <3>2. CASE m.hs > m.as
      BY <1>1, <2>2, <2>4, <3>2
    <3>3. CASE m.hs < m.as
      BY <1>1, <2>2, <2>4, <3>3
    <3> QED
      BY <1>1, <3>1, <3>2, <3>3
  <2> QED
    BY <1>1, <2>2, <2>3, <2>5
<1> QED
  BY <1>3, <1>5, <1>6, <1>7, <1>8 DEF new

\* The sets of matches after one more.
LEMMA MatchSets ==
    ASSUME NEW ms \in Seq(GroupMatch), NEW m \in GroupMatch
    PROVE  LET n == Len(ms)
               new == Append(ms, m)
               one(P) == IF P THEN {n + 1} ELSE {}
           IN /\ Counting(new) = Counting(ms) \union one(Counts(m))
              /\ Drawn(new) = Drawn(ms) \union one(Counts(m) /\ m.hs = m.as)
              /\ \A t : PlayedBy(new, t)
                     = PlayedBy(ms, t) \union one(Counts(m) /\ t \in {m.home, m.away})
<1> DEFINE n == Len(ms)
           new == Append(ms, m)
           one(P) == IF P THEN {n + 1} ELSE {}
<1>1. /\ n \in Nat /\ Len(new) = n + 1 /\ new[n + 1] = m
      /\ \A i \in 1..n : new[i] = ms[i]
  BY AppendIs
<1> HIDE DEF new, n
<1>2. Counting(new) = Counting(ms) \union one(Counts(m))
  BY <1>1 DEF Counting, n
<1>3. /\ Counting(ms) \subseteq 1..n
      /\ n + 1 \in Counting(new) <=> Counts(m)
      /\ \A i \in 1..n : i \in Counting(new) <=> i \in Counting(ms)
  BY <1>1, <1>2 DEF Counting, n
<1>4. Drawn(new) = Drawn(ms) \union one(Counts(m) /\ m.hs = m.as)
  BY <1>1, <1>2, <1>3 DEF Drawn
<1>5. ASSUME NEW t
      PROVE  PlayedBy(new, t) = PlayedBy(ms, t) \union one(Counts(m) /\ t \in {m.home, m.away})
  BY <1>1, <1>2, <1>3 DEF PlayedBy
<1> QED
  BY <1>2, <1>4, <1>5 DEF new, n

\* A set of matches grows by one where the condition holds.
LEMMA GrowsByOne ==
    ASSUME NEW n \in Nat, NEW A \in SUBSET (1..n), NEW P \in BOOLEAN
    PROVE  Cardinality(A \union (IF P THEN {n + 1} ELSE {}))
               = Cardinality(A) + (IF P THEN 1 ELSE 0)
<1>1. CASE P
  BY <1>1, OneMore
<1>2. CASE ~P
  <2>1. A \union (IF P THEN {n + 1} ELSE {}) = A
    BY <1>2
  <2>2. Cardinality(A) \in Nat
    BY OneMore
  <2> QED
    BY <1>2, <2>1, <2>2
<1> QED
  BY <1>1, <1>2

\* The next match keeps the rows and the matches in agreement.
LEMMA PlayStep == ASSUME TableInv, RowsMatchGames, PlayNext PROVE TableInv' /\ RowsMatchGames'
<1>1. PICK pair \in Pairs, s \in Scores :
          LET m == [home |-> pair[1], away |-> pair[2], hs |-> s[1], as |-> s[2]]
          IN answer' = [of |-> "table", matches |-> Append(answer.matches, m),
                        rows |-> Play(answer.rows, m)]
  BY DEF PlayNext
<1> DEFINE m == [home |-> pair[1], away |-> pair[2], hs |-> s[1], as |-> s[2]]
           ms == answer.matches
           n == Len(ms)
           row == answer.rows
           new == Play(row, m)
<1>2. m \in GroupMatch /\ m.home # m.away
  <2>1. pair \in (0..3) \X (0..3) /\ pair[1] # pair[2]
    BY FormulasAssumption
  <2>2. s[1] \in Goals \union {NoGoals} /\ s[2] \in Goals \union {NoGoals}
    BY DEF Scores
  <2> QED
    BY <2>1, <2>2 DEF GroupMatch
<1>3. answer.of = "table" /\ ms \in Seq(GroupMatch) /\ row \in [Teams -> StandingRow]
  BY DEF PlayNext, TableInv
<1>4. /\ \A t \in Teams :
            /\ row[t].played = Cardinality(PlayedBy(ms, t))
            /\ row[t].played = row[t].won + row[t].drawn + row[t].lost
            /\ row[t].pts = 3 * row[t].won + row[t].drawn
      /\ row[1].gf + row[2].gf + row[3].gf = row[1].ga + row[2].ga + row[3].ga
      /\ row[1].pts + row[2].pts + row[3].pts
             = 3 * Cardinality(Counting(ms)) - Cardinality(Drawn(ms))
  BY <1>3 DEF RowsMatchGames
<1>5. answer' = [of |-> "table", matches |-> Append(ms, m), rows |-> new]
  BY <1>1
<1> HIDE DEF m, ms, n, row, new
<1>6. /\ Append(ms, m) \in Seq(GroupMatch) /\ n \in Nat
  BY <1>2, <1>3, AppendIs DEF n
<1>7. /\ Counting(ms) \in SUBSET (1..n) /\ Drawn(ms) \in SUBSET (1..n)
      /\ \A t : PlayedBy(ms, t) \in SUBSET (1..n)
  BY DEF Counting, Drawn, PlayedBy, n
<1>8. /\ Cardinality(Counting(Append(ms, m)))
             = Cardinality(Counting(ms)) + (IF Counts(m) THEN 1 ELSE 0)
      /\ Cardinality(Drawn(Append(ms, m)))
             = Cardinality(Drawn(ms)) + (IF Counts(m) /\ m.hs = m.as THEN 1 ELSE 0)
      /\ \A t : Cardinality(PlayedBy(Append(ms, m), t)) = Cardinality(PlayedBy(ms, t))
                    + (IF Counts(m) /\ t \in {m.home, m.away} THEN 1 ELSE 0)
  <2>1. /\ Counts(m) \in BOOLEAN /\ (Counts(m) /\ m.hs = m.as) \in BOOLEAN
        /\ \A t : (Counts(m) /\ t \in {m.home, m.away}) \in BOOLEAN
    BY DEF Counts
  <2>2. /\ Counting(Append(ms, m)) = Counting(ms) \union (IF Counts(m) THEN {n + 1} ELSE {})
        /\ Drawn(Append(ms, m))
               = Drawn(ms) \union (IF Counts(m) /\ m.hs = m.as THEN {n + 1} ELSE {})
        /\ \A t : PlayedBy(Append(ms, m), t) = PlayedBy(ms, t)
               \union (IF Counts(m) /\ t \in {m.home, m.away} THEN {n + 1} ELSE {})
    BY <1>2, <1>3, MatchSets DEF n
  <2>3. \A A \in SUBSET (1..n), P \in BOOLEAN :
            Cardinality(A \union (IF P THEN {n + 1} ELSE {}))
                = Cardinality(A) + (IF P THEN 1 ELSE 0)
    BY <1>6, GrowsByOne
  <2>4. Cardinality(Counting(Append(ms, m)))
            = Cardinality(Counting(ms)) + (IF Counts(m) THEN 1 ELSE 0)
    BY <1>7, <2>1, <2>2, <2>3, Zenon
  <2>5. Cardinality(Drawn(Append(ms, m)))
            = Cardinality(Drawn(ms)) + (IF Counts(m) /\ m.hs = m.as THEN 1 ELSE 0)
    BY <1>7, <2>1, <2>2, <2>3, Zenon
  <2>6. ASSUME NEW t
        PROVE  Cardinality(PlayedBy(Append(ms, m), t)) = Cardinality(PlayedBy(ms, t))
                   + (IF Counts(m) /\ t \in {m.home, m.away} THEN 1 ELSE 0)
    BY <1>7, <2>1, <2>2, <2>3, Zenon
  <2> QED
    BY <2>4, <2>5, <2>6
<1>9. /\ Cardinality(Counting(ms)) \in Nat /\ Cardinality(Drawn(ms)) \in Nat
      /\ \A t : Cardinality(PlayedBy(ms, t)) \in Nat
  BY <1>6, <1>7, OneMore
<1>10. /\ new \in [Teams -> StandingRow]
       /\ \A t \in Teams :
             /\ new[t].played = Cardinality(PlayedBy(Append(ms, m), t))
             /\ new[t].played = new[t].won + new[t].drawn + new[t].lost
             /\ new[t].pts = 3 * new[t].won + new[t].drawn
       /\ new[1].gf + new[2].gf + new[3].gf = new[1].ga + new[2].ga + new[3].ga
       /\ new[1].pts + new[2].pts + new[3].pts = 3 * Cardinality(Counting(Append(ms, m)))
                                                     - Cardinality(Drawn(Append(ms, m)))
  <2>1. CASE ~Counts(m)
    <3>1. new = row
      BY <2>1 DEF Play, new
    <3> QED
      BY <1>3, <1>4, <1>8, <1>9, <2>1, <3>1
  <2>2. CASE Counts(m)
    <3>1. /\ new \in [Teams -> StandingRow]
          /\ \A t \in Teams :
                /\ new[t].played = row[t].played + (IF t \in {m.home, m.away} THEN 1 ELSE 0)
                /\ new[t].played = new[t].won + new[t].drawn + new[t].lost
                /\ new[t].pts = 3 * new[t].won + new[t].drawn
      BY <1>2, <1>3, <1>4, <2>2, PlayRows DEF new
    <3>2. PICK x \in Teams :
              /\ x # m.home /\ x # m.away /\ new[x] = row[x]
              /\ new[m.home].gf + new[m.away].gf = row[m.home].gf + row[m.away].gf + m.hs + m.as
              /\ new[m.home].ga + new[m.away].ga = row[m.home].ga + row[m.away].ga + m.hs + m.as
              /\ new[m.home].pts + new[m.away].pts
                     = row[m.home].pts + row[m.away].pts + (IF m.hs = m.as THEN 2 ELSE 3)
      BY <1>2, <1>3, <2>2, PlayRows DEF new
    <3>3. m.home \in Teams /\ m.away \in Teams /\ m.hs \in Int /\ m.as \in Int
      BY <1>2, <2>2, CountedMatch
    <3>4. ASSUME NEW r \in [Teams -> StandingRow]
          PROVE  /\ r[1].gf + r[2].gf + r[3].gf = r[m.home].gf + r[m.away].gf + r[x].gf
                 /\ r[1].ga + r[2].ga + r[3].ga = r[m.home].ga + r[m.away].ga + r[x].ga
                 /\ r[1].pts + r[2].pts + r[3].pts = r[m.home].pts + r[m.away].pts + r[x].pts
                 /\ \A t \in Teams : r[t].gf \in Int /\ r[t].ga \in Int /\ r[t].pts \in Int
      <4>1. \A t \in Teams : r[t].gf \in Int /\ r[t].ga \in Int /\ r[t].pts \in Int
        BY DEF StandingRow
      <4>2. 1 \in Teams /\ 2 \in Teams /\ 3 \in Teams
        BY DEF Teams
      <4>3. ASSUME NEW f \in [Teams -> Int] PROVE f[1] + f[2] + f[3] = f[m.home] + f[m.away] + f[x]
        BY <1>2, <3>2, <3>3, SumOfThree
      <4>4. r[1].gf + r[2].gf + r[3].gf = r[m.home].gf + r[m.away].gf + r[x].gf
        <5> DEFINE f == [t \in Teams |-> r[t].gf]
        <5>1. f \in [Teams -> Int]
          BY <4>1
        <5>2. f[1] + f[2] + f[3] = f[m.home] + f[m.away] + f[x]
          BY <4>3, <5>1
        <5> QED
          BY <3>2, <3>3, <4>2, <5>2
      <4>5. r[1].ga + r[2].ga + r[3].ga = r[m.home].ga + r[m.away].ga + r[x].ga
        <5> DEFINE f == [t \in Teams |-> r[t].ga]
        <5>1. f \in [Teams -> Int]
          BY <4>1
        <5>2. f[1] + f[2] + f[3] = f[m.home] + f[m.away] + f[x]
          BY <4>3, <5>1
        <5> QED
          BY <3>2, <3>3, <4>2, <5>2
      <4>6. r[1].pts + r[2].pts + r[3].pts = r[m.home].pts + r[m.away].pts + r[x].pts
        <5> DEFINE f == [t \in Teams |-> r[t].pts]
        <5>1. f \in [Teams -> Int]
          BY <4>1
        <5>2. f[1] + f[2] + f[3] = f[m.home] + f[m.away] + f[x]
          BY <4>3, <5>1
        <5> QED
          BY <3>2, <3>3, <4>2, <5>2
      <4> QED
        BY <4>1, <4>4, <4>5, <4>6
    <3>3a. /\ row[1].gf + row[2].gf + row[3].gf = row[m.home].gf + row[m.away].gf + row[x].gf
          /\ row[1].ga + row[2].ga + row[3].ga = row[m.home].ga + row[m.away].ga + row[x].ga
          /\ row[1].pts + row[2].pts + row[3].pts
                 = row[m.home].pts + row[m.away].pts + row[x].pts
          /\ \A t \in Teams : row[t].gf \in Int /\ row[t].ga \in Int /\ row[t].pts \in Int
      BY <1>3, <3>4
    <3>3b. /\ new[1].gf + new[2].gf + new[3].gf = new[m.home].gf + new[m.away].gf + new[x].gf
          /\ new[1].ga + new[2].ga + new[3].ga = new[m.home].ga + new[m.away].ga + new[x].ga
          /\ new[1].pts + new[2].pts + new[3].pts
                 = new[m.home].pts + new[m.away].pts + new[x].pts
          /\ \A t \in Teams : new[t].gf \in Int /\ new[t].ga \in Int /\ new[t].pts \in Int
      BY <3>1, <3>4
    <3>5. new[1].gf + new[2].gf + new[3].gf = new[1].ga + new[2].ga + new[3].ga
      <4>1. new[1].gf + new[2].gf + new[3].gf
                = row[1].gf + row[2].gf + row[3].gf + m.hs + m.as
        BY <3>2, <3>3, <3>3a, <3>3b
      <4>2. new[1].ga + new[2].ga + new[3].ga
                = row[1].ga + row[2].ga + row[3].ga + m.hs + m.as
        BY <3>2, <3>3, <3>3a, <3>3b
      <4> QED
        BY <1>4, <4>1, <4>2
    <3>6. new[1].pts + new[2].pts + new[3].pts
              = row[1].pts + row[2].pts + row[3].pts + (IF m.hs = m.as THEN 2 ELSE 3)
      BY <3>2, <3>3, <3>3a, <3>3b
    <3>7. new[1].pts + new[2].pts + new[3].pts = 3 * Cardinality(Counting(Append(ms, m)))
                                                    - Cardinality(Drawn(Append(ms, m)))
      BY <1>4, <1>8, <1>9, <2>2, <3>6
    <3>8. \A t \in Teams : new[t].played = Cardinality(PlayedBy(Append(ms, m), t))
      BY <1>4, <1>8, <2>2, <3>1
    <3> QED
      BY <3>1, <3>5, <3>7, <3>8
  <2> QED
    BY <2>1, <2>2
<1>11. TableInv'
  BY <1>5, <1>6, <1>10 DEF TableInv
<1>12. answer'.rows = new /\ answer'.matches = Append(ms, m)
  BY <1>5
<1>13. RowsMatchGames'
  BY <1>10, <1>12 DEF RowsMatchGames
<1> QED
  BY <1>11, <1>13

\* The order of the table is total and transitive, so that there is a sorted one.
LEMMA BeforeIsOrder ==
    ASSUME NEW row \in [Teams -> StandingRow]
    PROVE  /\ \A t, u \in Teams : t # u => Before(row, t, u) \/ Before(row, u, t)
           /\ \A t, u, v \in Teams : Before(row, t, u) /\ Before(row, u, v) => Before(row, t, v)
           /\ \A t, u \in Teams : Before(row, t, u) => t # u /\ row[t].pts >= row[u].pts
<1>1. \A t \in Teams : row[t].pts \in Int /\ row[t].gf \in Int /\ row[t].ga \in Int
  BY DEF StandingRow
<1>2. \A t \in Teams : t \in Int /\ Diff(row[t]) \in Int
  BY <1>1 DEF Teams, Diff
<1> QED
  BY <1>1, <1>2 DEF Before

LEMMA SortedExists ==
    ASSUME NEW row, NEW a \in Teams, NEW b \in Teams, NEW c \in Teams,
           Before(row, a, b), Before(row, b, c), Before(row, a, c)
    PROVE  \E order \in [1..3 -> Teams] :
               \A i, j \in 1..3 : i < j => Before(row, order[i], order[j])
<1> DEFINE order == [i \in 1..3 |-> IF i = 1 THEN a ELSE IF i = 2 THEN b ELSE c]
<1>1. order \in [1..3 -> Teams] /\ order[1] = a /\ order[2] = b /\ order[3] = c
  OBVIOUS
<1> HIDE DEF order
<1>2. ASSUME NEW i \in 1..3, NEW j \in 1..3, i < j PROVE Before(row, order[i], order[j])
  <2>1. \/ i = 1 /\ j = 2
        \/ i = 1 /\ j = 3
        \/ i = 2 /\ j = 3
    BY <1>2
  <2> QED
    BY <1>1, <2>1
<1> QED
  BY <1>1, <1>2

LEMMA TableSorted ==
    ASSUME NEW row \in [Teams -> StandingRow]
    PROVE  /\ Table(row) \in [1..3 -> Teams]
           /\ \A i, j \in 1..3 : i < j => Before(row, Table(row)[i], Table(row)[j])
<1>1. 1 \in Teams /\ 2 \in Teams /\ 3 \in Teams
  BY DEF Teams
<1>2. /\ Before(row, 1, 2) \/ Before(row, 2, 1)
      /\ Before(row, 1, 3) \/ Before(row, 3, 1)
      /\ Before(row, 2, 3) \/ Before(row, 3, 2)
  BY <1>1, BeforeIsOrder
<1>3. \A t, u, v \in Teams : Before(row, t, u) /\ Before(row, u, v) => Before(row, t, v)
  BY BeforeIsOrder
<1>4. \E a, b, c \in Teams : Before(row, a, b) /\ Before(row, b, c) /\ Before(row, a, c)
  BY <1>1, <1>2, <1>3
<1>5. \E order \in [1..3 -> Teams] :
          \A i, j \in 1..3 : i < j => Before(row, order[i], order[j])
  BY <1>4, SortedExists
<1> QED
  BY <1>5 DEF Table

LEMMA SortedTable == TableInv => BestFirst
<1> SUFFICES ASSUME TableInv, answer.of = "table", NEW i \in 1..3, NEW j \in 1..3, i < j
             PROVE  LET table == Table(answer.rows)
                    IN /\ answer.rows[table[i]].pts >= answer.rows[table[j]].pts
                       /\ table[i] # table[j]
  BY DEF BestFirst
<1>1. answer.rows \in [Teams -> StandingRow]
  BY DEF TableInv
<1>2. /\ Table(answer.rows)[i] \in Teams /\ Table(answer.rows)[j] \in Teams
      /\ Before(answer.rows, Table(answer.rows)[i], Table(answer.rows)[j])
  BY <1>1, TableSorted
<1> QED
  BY <1>1, <1>2, BeforeIsOrder

\* The standings agree with the matches, however many are played and in whatever order
\* they are read, and the best team leads the table.
THEOREM StandingsAgree == FormulasSpec => []TableMatchesGames
<1>1. FormulasInit => TableInv /\ RowsMatchGames
  BY DEF FormulasInit, NoAnswer, TableInv, RowsMatchGames
<1>2. TableInv /\ RowsMatchGames /\ [FormulasNext]_answer => TableInv' /\ RowsMatchGames'
  <2> SUFFICES ASSUME TableInv, RowsMatchGames, [FormulasNext]_answer
               PROVE  TableInv' /\ RowsMatchGames'
    OBVIOUS
  <2>1. CASE GroupStandings
    <3>1. /\ answer'.matches = <<>> /\ answer'.rows = [t \in Teams |-> EmptyRow]
      BY <2>1 DEF GroupStandings
    <3>2. TableInv'
      BY <3>1 DEF TableInv, EmptyRow, StandingRow
    <3>3. /\ Counting(<<>>) = {} /\ Drawn(<<>>) = {}
          /\ \A t : PlayedBy(<<>>, t) = {}
      BY DEF Counting, Drawn, PlayedBy
    <3>4. Cardinality({}) = 0
      BY FS_EmptySet
    <3>5. ASSUME NEW t \in Teams
          PROVE  /\ answer'.rows[t].played = 0 /\ answer'.rows[t].won = 0
                 /\ answer'.rows[t].drawn = 0 /\ answer'.rows[t].lost = 0
                 /\ answer'.rows[t].gf = 0 /\ answer'.rows[t].ga = 0
                 /\ answer'.rows[t].pts = 0
      BY <3>1 DEF EmptyRow
    <3>6. 1 \in Teams /\ 2 \in Teams /\ 3 \in Teams
      BY DEF Teams
    <3>7. /\ Cardinality(Counting(answer'.matches)) = 0
          /\ Cardinality(Drawn(answer'.matches)) = 0
          /\ \A t \in Teams : Cardinality(PlayedBy(answer'.matches, t)) = 0
      BY <3>1, <3>3, <3>4
    <3>8. RowsMatchGames'
      BY <3>5, <3>6, <3>7 DEF RowsMatchGames
    <3> QED
      BY <3>2, <3>8
  <2>2. CASE PlayNext
    BY <2>2, PlayStep
  <2>3. CASE answer'.of # "table"
    BY <2>3 DEF TableInv, RowsMatchGames
  <2>4. CASE UNCHANGED answer
    BY <2>4 DEF TableInv, RowsMatchGames
  <2> QED
    BY <2>1, <2>2, <2>3, <2>4, OtherAnswers DEF FormulasNext, Call
<1>3. TableInv /\ RowsMatchGames => TableMatchesGames
  BY SortedTable DEF TableMatchesGames
<1> QED
  BY <1>1, <1>2, <1>3, PTL DEF FormulasSpec

\* Tiers, streaks, standings and job configurations are what they are for.
THEOREM FunctionsSound == FormulasSpec => []FunctionsAgree
<1>1. TierSteps /\ LongestRun /\ TableMatchesGames /\ JobConfigSafe => FunctionsAgree
  BY DEF FunctionsAgree
<1> QED
  BY <1>1, TierStepsExact, StreakIsLongest, StandingsAgree, ConfigSafe, PTL

-----------------------------------------------------------------------------
(* What a user may have once. *)

\* What the request of each kind carries.
Checking(c) == call[c] \in [op : {"checkin"}, on : 1..day,
                            seen : [last : Days \union {NoDay}, count : Nat]]
Claiming(c) == call[c] \in [op : {"claim"}, on : Missions \X Days, seen : {{}}]
Redeeming(c) == /\ call[c] \in [op : {"redeem"}, on : Users \X Users, seen : {{}}]
                /\ call[c].on[1] # call[c].on[2]
Betting(c) == call[c] \in [op : {"bet"}, on : BOOLEAN, seen : Nat]
Buying(c) == call[c] \in [op : {"buy"}, on : Items, seen : {{}}]
Equipping(c) == call[c] \in [op : {"equip"}, on : owned, seen : SUBSET Items]

Requests ==
    /\ call = [c \in Calls |-> call[c]]
    /\ \A c \in Calls :
          \/ call[c] = Idle
          \/ Checking(c) \/ Claiming(c) \/ Redeeming(c)
          \/ Betting(c) \/ Buying(c) \/ Equipping(c)

\* Two requests of a kind that only reads keep apart have been noticed.
Noticed ==
    \A c, d \in Calls :
        (c # d /\ call[c].op = call[d].op /\ call[c].op \in {"checkin", "bet", "equip"})
            => call[c].op \in raced

\* The run of check-ins up to a day begins on the day after d.
RunAfter(d, last) ==
    /\ d = 0 \/ checkins[d] = 0
    /\ \A e \in (d + 1)..last : checkins[e] > 0

\* No day is paid before it has come; the streak is a run of paid days; and a
\* check-in that nothing overlapped still holds the streak it read.
StreakRead ==
    /\ streak.last <= day
    /\ "checkin" \notin raced =>
          /\ \A d \in Days : checkins[d] <= 1 /\ (d > streak.last => checkins[d] = 0)
          /\ IF streak.last = NoDay THEN streak.count = 0
             ELSE \E d \in 0..streak.last : RunAfter(d, streak.last) /\ streak.count = streak.last - d
          /\ \A c \in Calls : call[c].op = "checkin" =>
                call[c].seen = streak /\ streak.last < call[c].on

\* The same of the bet on the outcome and of the items equipped.
BetRead ==
    "bet" \notin raced =>
        bets <= 1 /\ \A c \in Calls : call[c].op = "bet" => bets = 0
EquippedRead ==
    "equip" \notin raced =>
        /\ \A i, j \in equipped : i = j
        /\ \A c \in Calls : call[c].op = "equip" => call[c].seen = equipped

RewardsIInv ==
    /\ TypeOK /\ IsFiniteSet(referrals) /\ Requests /\ Noticed
    /\ PaidByKey /\ InventoryAddsUp
    /\ StreakRead /\ BetRead /\ EquippedRead

CallsInv == TypeOK /\ IsFiniteSet(referrals) /\ Requests /\ Noticed

Kinds == {"checkin", "claim", "redeem", "bet", "buy", "equip"}

\* What the kind of a request says of the rest of it.
LEMMA CallFacts ==
  ASSUME Requests, NEW c \in Calls
  PROVE  /\ call[c].op = "checkin" => Checking(c)
         /\ call[c].op = "claim" => Claiming(c)
         /\ call[c].op = "redeem" => Redeeming(c)
         /\ call[c].op = "bet" => Betting(c)
         /\ call[c].op = "buy" => Buying(c)
         /\ call[c].op = "equip" => Equipping(c)
<1>1. \/ call[c] = Idle
      \/ Checking(c) \/ Claiming(c) \/ Redeeming(c) \/ Betting(c) \/ Buying(c) \/ Equipping(c)
  BY DEF Requests
<1>2. call[c] = Idle => call[c].op \notin Kinds
  BY DEF Idle, Kinds
<1>3. /\ Checking(c) => call[c].op = "checkin"
      /\ Claiming(c) => call[c].op = "claim"
      /\ Redeeming(c) => call[c].op = "redeem"
      /\ Betting(c) => call[c].op = "bet"
      /\ Buying(c) => call[c].op = "buy"
      /\ Equipping(c) => call[c].op = "equip"
  BY DEF Checking, Claiming, Redeeming, Betting, Buying, Equipping
<1> QED
  BY <1>1, <1>2, <1>3 DEF Kinds

\* Days pass and items are bought, but what a request carries stays what it was.
LEMMA StillRequested ==
  ASSUME Requests, NEW c \in Calls, call'[c] = call[c], owned \subseteq owned',
         day' = day \/ day' = day + 1, day \in Nat
  PROVE  \/ call'[c] = Idle
         \/ Checking(c)' \/ Claiming(c)' \/ Redeeming(c)'
         \/ Betting(c)' \/ Buying(c)' \/ Equipping(c)'
<1>1. CASE call[c] = Idle
  BY <1>1
<1>2. CASE Checking(c)
  <2>1. 1..day \subseteq 1..day'
    OBVIOUS
  <2> QED
    BY <1>2, <2>1 DEF Checking
<1>3. CASE Claiming(c)
  BY <1>3 DEF Claiming
<1>4. CASE Redeeming(c)
  BY <1>4 DEF Redeeming
<1>5. CASE Betting(c)
  BY <1>5 DEF Betting
<1>6. CASE Buying(c)
  BY <1>6 DEF Buying
<1>7. CASE Equipping(c)
  BY <1>7 DEF Equipping
<1> QED
  BY <1>1, <1>2, <1>3, <1>4, <1>5, <1>6, <1>7 DEF Requests

\* What a request finds when it begins.
Found(op, on, seen) ==
    \/ op = "checkin" /\ on = day /\ seen = streak /\ streak.last # day
    \/ op = "claim" /\ on \in Missions \X Days /\ seen = {}
    \/ op = "redeem" /\ on \in Users \X Users /\ on[1] # on[2] /\ seen = {}
    \/ op = "bet" /\ on \in BOOLEAN /\ seen \in Nat /\ bets = 0
    \/ op = "buy" /\ on \in Items /\ seen = {}
    \/ op = "equip" /\ on \in owned /\ seen = equipped

LEMMA BeginFacts ==
  ASSUME CallsInv, NEW c \in Calls, NEW op \in Kinds, NEW on, NEW seen, Begin(c, op, on, seen)
  PROVE  /\ call[c] = Idle /\ call'[c] = [op |-> op, on |-> on, seen |-> seen]
         /\ \A d \in Calls : d # c => call'[d] = call[d]
         /\ call' = [d \in Calls |-> call'[d]]
         /\ raced \subseteq raced' /\ raced' \subseteq {"checkin", "bet", "equip"}
         /\ \A d \in Calls : (call[d].op = op /\ op \in {"checkin", "bet", "equip"}) => op \in raced'
         /\ UNCHANGED <<day, rows, paid>>
<1>1. call = [d \in Calls |-> call[d]]
  BY DEF CallsInv, Requests
<1>2. call' = [d \in Calls |-> IF d = c THEN [op |-> op, on |-> on, seen |-> seen] ELSE call[d]]
  BY <1>1, Zenon DEF Begin
<1>3. /\ raced \subseteq raced' /\ raced' \subseteq {"checkin", "bet", "equip"}
      /\ \A d \in Calls : (call[d].op = op /\ op \in {"checkin", "bet", "equip"}) => op \in raced'
  BY DEF CallsInv, TypeOK, Begin
<1> QED
  BY <1>2, <1>3 DEF Begin

LEMMA EndFacts ==
  ASSUME CallsInv, NEW c \in Calls, End(c)
  PROVE  /\ call'[c] = Idle /\ \A d \in Calls : d # c => call'[d] = call[d]
         /\ call' = [d \in Calls |-> call'[d]]
         /\ \A d \in Calls : call'[d].op \in Kinds => d # c /\ call'[d] = call[d]
         /\ day' = day /\ raced' = raced
<1>1. call = [d \in Calls |-> call[d]]
  BY DEF CallsInv, Requests
<1>2. call' = [d \in Calls |-> IF d = c THEN Idle ELSE call[d]]
  BY <1>1, Zenon DEF End
<1>3. Idle.op \notin Kinds
  BY DEF Idle, Kinds
<1>4. day' = day /\ raced' = raced
  BY DEF End
<1> QED
  BY <1>2, <1>3, <1>4

\* A request that begins carries what it found.
LEMMA BeginCalls ==
  ASSUME CallsInv, NEW c \in Calls, NEW op \in Kinds, NEW on, NEW seen,
         Begin(c, op, on, seen), Found(op, on, seen)
  PROVE  CallsInv'
<1>1. /\ call'[c] = [op |-> op, on |-> on, seen |-> seen]
      /\ \A d \in Calls : d # c => call'[d] = call[d]
      /\ call' = [d \in Calls |-> call'[d]]
      /\ raced \subseteq raced' /\ raced' \subseteq {"checkin", "bet", "equip"}
      /\ \A d \in Calls : (call[d].op = op /\ op \in {"checkin", "bet", "equip"}) => op \in raced'
      /\ UNCHANGED <<day, rows, paid>>
  BY BeginFacts
<1>2. TypeOK' /\ IsFiniteSet(referrals)'
  BY <1>1 DEF CallsInv, TypeOK, rows, paid
<1>3. day \in Nat /\ day \in 1..day /\ owned' = owned /\ day' = day
  BY <1>1, ConstantsAssumption DEF CallsInv, TypeOK, Days, rows
<1>4. Checking(c)' \/ Claiming(c)' \/ Redeeming(c)' \/ Betting(c)' \/ Buying(c)' \/ Equipping(c)'
  <2>1. CASE op = "checkin"
    <3>1. on \in 1..day' /\ seen \in [last : Days \union {NoDay}, count : Nat]
      BY <1>3, <2>1 DEF Found, CallsInv, TypeOK
    <3> QED
      BY <1>1, <2>1, <3>1 DEF Checking
  <2>2. CASE op = "claim"
    BY <1>1, <2>2 DEF Found, Claiming
  <2>3. CASE op = "redeem"
    BY <1>1, <2>3 DEF Found, Redeeming
  <2>4. CASE op = "bet"
    BY <1>1, <2>4 DEF Found, Betting
  <2>5. CASE op = "buy"
    BY <1>1, <2>5 DEF Found, Buying
  <2>6. CASE op = "equip"
    BY <1>1, <1>3, <2>6 DEF Found, Equipping, CallsInv, TypeOK
  <2> QED
    BY <2>1, <2>2, <2>3, <2>4, <2>5, <2>6 DEF Kinds
<1>5. Requests'
  BY <1>1, <1>3, <1>4, StillRequested DEF CallsInv, Requests
<1>6. Noticed'
  <2> SUFFICES ASSUME NEW d \in Calls, NEW e \in Calls, d # e, call'[d].op = call'[e].op,
                      call'[d].op \in {"checkin", "bet", "equip"}
               PROVE  call'[d].op \in raced'
    BY DEF Noticed
  <2>1. call'[c].op = op
    BY <1>1
  <2>2. CASE d = c
    BY <1>1, <2>1, <2>2
  <2>3. CASE e = c
    BY <1>1, <2>1, <2>3
  <2>4. CASE d # c /\ e # c
    BY <1>1, <2>4 DEF CallsInv, Noticed
  <2> QED
    BY <2>2, <2>3, <2>4
<1> QED
  BY <1>2, <1>5, <1>6 DEF CallsInv

\* A request that ends leaves the others what they carry.
LEMMA EndCalls ==
  ASSUME CallsInv, NEW c \in Calls, End(c), TypeOK', IsFiniteSet(referrals)', owned \subseteq owned'
  PROVE  CallsInv'
<1>1. /\ call'[c] = Idle /\ \A d \in Calls : d # c => call'[d] = call[d]
      /\ call' = [d \in Calls |-> call'[d]]
      /\ \A d \in Calls : call'[d].op \in Kinds => d # c /\ call'[d] = call[d]
      /\ day' = day /\ raced' = raced
  BY EndFacts
<1>2. day \in Nat
  BY ConstantsAssumption DEF CallsInv, TypeOK, Days
<1>3. Requests'
  BY <1>1, <1>2, StillRequested DEF CallsInv, Requests
<1>4. Noticed'
  BY <1>1 DEF CallsInv, Noticed, Kinds
<1> QED
  BY <1>3, <1>4 DEF CallsInv

\* Every action that begins a request is one of these.
Begins(c) == \E op \in Kinds : \E on : \E seen : Begin(c, op, on, seen) /\ Found(op, on, seen)

LEMMA BeginCases ==
  ASSUME CallsInv, NEW c \in Calls,
         \/ BeginCheckin(c)
         \/ \E m \in Missions : BeginClaim(c, m)
         \/ \E x, e \in Users : BeginRedeem(c, x, e)
         \/ \E powerUp \in BOOLEAN : BeginBet(c, powerUp)
         \/ \E i \in Items : BeginBuy(c, i) \/ BeginEquip(c, i)
  PROVE  Begins(c)
<1> USE DEF Kinds
<1>1. ASSUME BeginCheckin(c) PROVE Begins(c)
  <2>1. Found("checkin", day, streak) /\ Begin(c, "checkin", day, streak)
    BY <1>1 DEF BeginCheckin, CheckedInToday, Found
  <2> QED
    BY <2>1 DEF Begins
<1>2. ASSUME NEW m \in Missions, BeginClaim(c, m) PROVE Begins(c)
  <2>1. Found("claim", <<m, day>>, {}) /\ Begin(c, "claim", <<m, day>>, {})
    BY <1>2 DEF BeginClaim, Found, CallsInv, TypeOK
  <2> QED
    BY <2>1 DEF Begins
<1>3. ASSUME NEW x \in Users, NEW e \in Users, BeginRedeem(c, x, e) PROVE Begins(c)
  <2>1. Found("redeem", <<x, e>>, {}) /\ Begin(c, "redeem", <<x, e>>, {})
    BY <1>3 DEF BeginRedeem, Found
  <2> QED
    BY <2>1 DEF Begins
<1>4. ASSUME NEW powerUp \in BOOLEAN, BeginBet(c, powerUp) PROVE Begins(c)
  <2>1. Found("bet", powerUp, stock) /\ Begin(c, "bet", powerUp, stock)
    BY <1>4 DEF BeginBet, NoOpenBet, Found, CallsInv, TypeOK
  <2> QED
    BY <2>1 DEF Begins
<1>5. ASSUME NEW i \in Items, BeginBuy(c, i) PROVE Begins(c)
  <2>1. Found("buy", i, {}) /\ Begin(c, "buy", i, {})
    BY <1>5 DEF BeginBuy, Found
  <2> QED
    BY <2>1 DEF Begins
<1>6. ASSUME NEW i \in Items, BeginEquip(c, i) PROVE Begins(c)
  <2>1. Found("equip", i, equipped) /\ Begin(c, "equip", i, equipped)
    BY <1>6 DEF BeginEquip, Owned, Unequipped, Found
  <2> QED
    BY <2>1 DEF Begins
<1> QED
  BY <1>1, <1>2, <1>3, <1>4, <1>5, <1>6

LEMMA CallsStep == CallsInv /\ [Next]_vars => CallsInv'
<1> SUFFICES ASSUME CallsInv, [Next]_vars PROVE CallsInv'
  OBVIOUS
<1>1. ASSUME NEW c \in Calls, Begins(c) PROVE CallsInv'
  BY <1>1, BeginCalls DEF Begins
<1>2. ASSUME NEW c \in Calls, Checkin(c) PROVE CallsInv'
  <2>1. Checking(c)
    BY <1>2, CallFacts DEF Checkin, CallsInv
  <2>2. /\ call[c].on \in Days /\ call[c].seen.count \in Nat
    BY <2>1, ConstantsAssumption DEF Checking, CallsInv, TypeOK, Days
  <2>3. NextStreak(call[c].seen, call[c].on) \in Nat
    BY <2>2 DEF NextStreak
  <2>4. streak' \in [last : Days \union {NoDay}, count : Nat]
    BY <1>2, <2>2, <2>3 DEF Checkin
  <2>5. checkins' \in [Days -> Nat]
    BY <1>2, <2>2 DEF Checkin, CallsInv, TypeOK
  <2>6. TypeOK' /\ IsFiniteSet(referrals)'
    BY <1>2, <2>4, <2>5 DEF Checkin, End, CallsInv, TypeOK
  <2> QED
    BY <1>2, <2>6, EndCalls DEF Checkin
<1>3. ASSUME NEW c \in Calls, Claim(c) PROVE CallsInv'
  <2>1. call[c].on \in Missions \X Days
    BY <1>3, CallFacts DEF Claim, CallsInv, Claiming
  <2>2. rewards' \in [Missions \X Days -> Nat] /\ claimed' \subseteq Missions \X Days
    BY <1>3, <2>1 DEF Claim, CallsInv, TypeOK
  <2>3. TypeOK' /\ IsFiniteSet(referrals)'
    BY <1>3, <2>2 DEF Claim, End, CallsInv, TypeOK
  <2> QED
    BY <1>3, <2>3, EndCalls DEF Claim
<1>4. ASSUME NEW c \in Calls, Redeem(c) PROVE CallsInv'
  <2>1. call[c].on \in Users \X Users
    BY <1>4, CallFacts DEF Redeem, CallsInv, Redeeming
  <2>2. bonuses' \in [Users -> Nat] /\ referrals' \subseteq Users \X Users
    BY <1>4, <2>1 DEF Redeem, CallsInv, TypeOK
  <2>3. IsFiniteSet(referrals)'
    BY <1>4, FS_AddElement DEF Redeem, CallsInv
  <2>4. TypeOK'
    BY <1>4, <2>2 DEF Redeem, End, CallsInv, TypeOK
  <2> QED
    BY <1>4, <2>3, <2>4, EndCalls DEF Redeem
<1>5. ASSUME NEW c \in Calls, PlaceBet(c) PROVE CallsInv'
  <2>1. bets' \in Nat /\ stock' \in Nat /\ used' \in Nat /\ bought' \in Nat
    BY <1>5 DEF PlaceBet, ReadAfter, CallsInv, TypeOK
  <2>2. TypeOK' /\ IsFiniteSet(referrals)'
    BY <1>5, <2>1 DEF PlaceBet, End, CallsInv, TypeOK
  <2> QED
    BY <1>5, <2>2, EndCalls DEF PlaceBet
<1>6. ASSUME NEW c \in Calls, Buy(c) PROVE CallsInv'
  <2>1. call[c].on \in Items
    BY <1>6, CallFacts DEF Buy, CallsInv, Buying
  <2>2. purchases' \in [Items -> Nat] /\ owned' \subseteq Items /\ equipped' \subseteq owned'
    BY <1>6, <2>1 DEF Buy, CallsInv, TypeOK
  <2>3. TypeOK' /\ IsFiniteSet(referrals)' /\ owned \subseteq owned'
    BY <1>6, <2>2 DEF Buy, End, CallsInv, TypeOK
  <2> QED
    BY <1>6, <2>3, EndCalls DEF Buy
<1>7. ASSUME NEW c \in Calls, Equip(c) PROVE CallsInv'
  <2>1. call[c].on \in owned
    BY <1>7, CallFacts DEF Equip, CallsInv, Equipping
  <2>2. TypeOK' /\ IsFiniteSet(referrals)'
    BY <1>7, <2>1 DEF Equip, End, CallsInv, TypeOK, paid
  <2> QED
    BY <1>7, <2>2, EndCalls DEF Equip
<1>8. ASSUME NEW c \in Calls, Abort(c) PROVE CallsInv'
  <2>1. TypeOK' /\ IsFiniteSet(referrals)' /\ owned \subseteq owned'
    BY <1>8 DEF Abort, End, CallsInv, TypeOK, paid, rows
  <2> QED
    BY <1>8, <2>1, EndCalls DEF Abort
<1>9. ASSUME TypeOK', IsFiniteSet(referrals)', owned' = owned, UNCHANGED <<call, raced>>,
              day' = day \/ day' = day + 1
       PROVE  CallsInv'
  <2>1. day \in Nat
    BY ConstantsAssumption DEF CallsInv, TypeOK, Days
  <2>2. Requests'
    BY <1>9, <2>1, StillRequested DEF CallsInv, Requests
  <2> QED
    BY <1>9, <2>2 DEF CallsInv, Noticed
<1>10. CASE BuyPowerUp \/ Tick \/ (\E m \in Missions : Complete(m)) \/ UNCHANGED vars
  <2>1. /\ stock' \in Nat /\ bought' \in Nat /\ used' \in Nat /\ bets' \in Nat
        /\ complete' \subseteq Missions
    BY <1>10 DEF BuyPowerUp, Tick, Complete, vars, rows, paid, CallsInv, TypeOK
  <2>2. day' \in Days /\ (day' = day \/ day' = day + 1)
    BY <1>10, ConstantsAssumption
    DEF BuyPowerUp, Tick, Complete, vars, rows, paid, CallsInv, TypeOK, Days
  <2>3. UNCHANGED <<streak, claimed, referrals, owned, equipped, call, checkins, rewards,
                    bonuses, purchases, raced>>
    BY <1>10 DEF BuyPowerUp, Tick, Complete, vars, rows, paid
  <2>4. TypeOK' /\ IsFiniteSet(referrals)'
    BY <2>1, <2>2, <2>3 DEF CallsInv, TypeOK
  <2> QED
    BY <1>9, <2>2, <2>3, <2>4
<1> QED
  BY <1>1, <1>2, <1>3, <1>4, <1>5, <1>6, <1>7, <1>8, <1>10, BeginCases DEF Next

\* Each row that a unique key allows once is paid for by the commit that adds it.
LEMMA KeysStep == CallsInv /\ PaidByKey /\ [Next]_vars => PaidByKey'
<1> SUFFICES ASSUME CallsInv, PaidByKey, [Next]_vars PROVE PaidByKey'
  OBVIOUS
<1> DEFINE Of(u) == {x \in referrals : u \in {x[1], x[2]}}
<1>1. ASSUME NEW c \in Calls, Claim(c) PROVE PaidByKey'
  <2>1. /\ call[c].on \in Missions \X Days /\ call[c].on \notin claimed
        /\ UNCHANGED <<owned, purchases, referrals, bonuses>>
    BY <1>1, CallFacts DEF Claim, CallsInv, Claiming, KeyFree
  <2>2. ASSUME NEW k \in Missions \X Days PROVE rewards'[k] = Once(k \in claimed')
    BY <1>1, <2>1 DEF Claim, CallsInv, TypeOK, PaidByKey, Once
  <2> QED
    BY <2>1, <2>2 DEF PaidByKey
<1>2. ASSUME NEW c \in Calls, Redeem(c) PROVE PaidByKey'
  <2> DEFINE new == call[c].on
  <2>1. /\ new \in Users \X Users /\ new[1] # new[2] /\ new[2] \notin Referees
        /\ referrals' = referrals \union {new}
        /\ UNCHANGED <<owned, purchases, claimed, rewards>>
    BY <1>2, CallFacts DEF Redeem, CallsInv, Redeeming, KeyFree
  <2>2. new \notin referrals
    BY <2>1 DEF Referees
  <2>3. bonuses' = [u \in Users |-> IF u \in {new[1], new[2]} THEN bonuses[u] + 1 ELSE bonuses[u]]
    BY <1>2 DEF Redeem
  <2> HIDE DEF new
  <2>4. ASSUME NEW u \in Users PROVE bonuses'[u] = Cardinality(Of(u)')
    <3>1. IsFiniteSet(Of(u)) /\ bonuses[u] = Cardinality(Of(u)) /\ bonuses[u] \in Nat
      <4>1. IsFiniteSet(Of(u))
        BY FS_Subset DEF CallsInv
      <4> QED
        BY <4>1 DEF PaidByKey, CallsInv, TypeOK
    <3>2. CASE u \in {new[1], new[2]}
      <4>1. Of(u)' = Of(u) \union {new} /\ new \notin Of(u)
        BY <2>1, <2>2, <3>2
      <4>2. Cardinality(Of(u)') = Cardinality(Of(u)) + 1
        <5> HIDE DEF Of
        <5> QED
          BY <3>1, <4>1, FS_AddElement
      <4> QED
        BY <2>3, <3>1, <3>2, <4>2
    <3>3. CASE u \notin {new[1], new[2]}
      <4>1. Of(u)' = Of(u)
        BY <2>1, <3>3
      <4> QED
        BY <2>3, <3>1, <3>3, <4>1
    <3> QED
      BY <3>2, <3>3
  <2> QED
    BY <2>1, <2>4 DEF PaidByKey
<1>3. ASSUME NEW c \in Calls, Buy(c) PROVE PaidByKey'
  <2>1. /\ call[c].on \in Items /\ call[c].on \notin owned
        /\ UNCHANGED <<claimed, rewards, referrals, bonuses>>
    BY <1>3, CallFacts DEF Buy, CallsInv, Buying, KeyFree
  <2>2. ASSUME NEW i \in Items PROVE purchases'[i] = Once(i \in owned')
    BY <1>3, <2>1 DEF Buy, CallsInv, TypeOK, PaidByKey, Once
  <2> QED
    BY <2>1, <2>2 DEF PaidByKey
<1>4. CASE UNCHANGED <<claimed, rewards, owned, purchases, referrals, bonuses>>
  BY <1>4 DEF PaidByKey
<1>5. ASSUME NEW c \in Calls, Begins(c)
      PROVE  UNCHANGED <<claimed, rewards, owned, purchases, referrals, bonuses>>
  BY <1>5 DEF Begins, Begin, rows, paid
<1>6. ASSUME NEW c \in Calls, Checkin(c) \/ PlaceBet(c) \/ Equip(c) \/ Abort(c)
      PROVE  UNCHANGED <<claimed, rewards, owned, purchases, referrals, bonuses>>
  BY <1>6 DEF Checkin, PlaceBet, Equip, Abort, rows, paid
<1>7. CASE BuyPowerUp \/ Tick \/ \E m \in Missions : Complete(m)
  <2>1. UNCHANGED <<claimed, rewards, owned, purchases, referrals, bonuses>>
    BY <1>7 DEF BuyPowerUp, Tick, Complete, rows, paid
  <2> QED
    BY <1>4, <2>1
<1>8. CASE UNCHANGED vars
  BY <1>4, <1>8 DEF vars, rows, paid
<1> QED
  BY <1>1, <1>2, <1>3, <1>4, <1>5, <1>6, <1>7, <1>8, BeginCases DEF Next

\* The inventory follows the purchases and the bets that consume.
LEMMA StockStep == CallsInv /\ InventoryAddsUp /\ [Next]_vars => InventoryAddsUp'
<1> SUFFICES ASSUME CallsInv, InventoryAddsUp, [Next]_vars PROVE InventoryAddsUp'
  OBVIOUS
<1>1. stock \in Int /\ bought \in Int /\ used \in Int
  BY DEF CallsInv, TypeOK
<1>2. CASE BuyPowerUp
  BY <1>1, <1>2 DEF BuyPowerUp, InventoryAddsUp
<1>3. ASSUME NEW c \in Calls, PlaceBet(c) PROVE InventoryAddsUp'
  BY <1>1, <1>3 DEF PlaceBet, ReadAfter, InventoryAddsUp
<1>4. CASE UNCHANGED <<stock, bought, used>>
  BY <1>4 DEF InventoryAddsUp
<1>5. \/ BuyPowerUp \/ \E c \in Calls : PlaceBet(c)
      \/ UNCHANGED <<stock, bought, used>>
  BY DEF Next, vars, rows, paid, Begin, BeginCheckin, BeginClaim, BeginRedeem, BeginBet, BeginBuy,
     BeginEquip, Checkin, Claim, Redeem, Buy, Equip, Abort, Tick, Complete
<1> QED
  BY <1>2, <1>3, <1>4, <1>5

\* Of the requests that only reads keep apart, each is as it was or has just begun.
JustBegun(d) ==
    /\ call'[d].op = "checkin" => call'[d].on = day /\ call'[d].seen = streak /\ streak.last # day
    /\ call'[d].op = "bet" => bets = 0
    /\ call'[d].op = "equip" => call'[d].seen = equipped

LEMMA CallsKept ==
  ASSUME CallsInv, [Next]_vars
  PROVE  /\ raced \subseteq raced' /\ (day' = day \/ day' = day + 1)
         /\ \A d \in Calls : call'[d] = call[d] \/ JustBegun(d)
<1>1. ASSUME NEW c \in Calls, Begins(c)
      PROVE  /\ raced \subseteq raced' /\ day' = day
             /\ \A d \in Calls : call'[d] = call[d] \/ JustBegun(d)
  <2>1. PICK op \in Kinds : \E on : \E seen : Begin(c, op, on, seen) /\ Found(op, on, seen)
    BY <1>1 DEF Begins
  <2>2. PICK on : \E seen : Begin(c, op, on, seen) /\ Found(op, on, seen)
    BY <2>1
  <2>3. PICK seen : Begin(c, op, on, seen) /\ Found(op, on, seen)
    BY <2>2
  <2>4. /\ call'[c] = [op |-> op, on |-> on, seen |-> seen]
        /\ \A d \in Calls : d # c => call'[d] = call[d]
        /\ raced \subseteq raced' /\ day' = day
    BY <2>3, BeginFacts
  <2>5. JustBegun(c)
    BY <2>3, <2>4 DEF Found, JustBegun
  <2> QED
    BY <2>4, <2>5
<1>2. ASSUME NEW c \in Calls, End(c)
      PROVE  /\ raced \subseteq raced' /\ day' = day
             /\ \A d \in Calls : call'[d] = call[d] \/ JustBegun(d)
  BY <1>2, EndFacts DEF Kinds, JustBegun
<1>3. CASE BuyPowerUp \/ Tick \/ (\E m \in Missions : Complete(m)) \/ UNCHANGED vars
  BY <1>3 DEF BuyPowerUp, Tick, Complete, vars
<1> QED
  BY <1>1, <1>2, <1>3, BeginCases
  DEF Next, Checkin, Claim, Redeem, PlaceBet, Buy, Equip, Abort

\* A bet finds no other on its outcome unless two were placed at once.
LEMMA BetStep == CallsInv /\ BetRead /\ [Next]_vars => BetRead'
<1> SUFFICES ASSUME CallsInv, BetRead, [Next]_vars, "bet" \notin raced' PROVE BetRead'
  BY DEF BetRead
<1>1. "bet" \notin raced /\ bets <= 1
  BY CallsKept DEF BetRead
<1>2. ASSUME NEW c \in Calls, PlaceBet(c) PROVE BetRead'
  <2>1. bets = 0 /\ bets' = 1
    BY <1>1, <1>2 DEF PlaceBet, BetRead
  <2>2. \A d \in Calls : call'[d].op # "bet"
    BY <1>1, <1>2, EndFacts DEF PlaceBet, CallsInv, Noticed, Kinds
  <2> QED
    BY <2>1, <2>2 DEF BetRead
<1>3. CASE bets' = bets
  <2>1. ASSUME NEW d \in Calls, call'[d].op = "bet" PROVE bets = 0
    <3>1. call'[d] = call[d] \/ JustBegun(d)
      BY CallsKept
    <3> QED
      BY <1>1, <2>1, <3>1 DEF BetRead, JustBegun
  <2> QED
    BY <1>1, <1>3, <2>1 DEF BetRead
<1>4. bets' = bets \/ \E c \in Calls : PlaceBet(c)
  BY DEF Next, vars, rows, paid, Begin, BeginCheckin, BeginClaim, BeginRedeem, BeginBet, BeginBuy,
     BeginEquip, Checkin, Claim, Redeem, Buy, Equip, Abort, BuyPowerUp, Tick, Complete
<1> QED
  BY <1>2, <1>3, <1>4

\* An item takes the place of the one equipped unless two were equipped at once.
LEMMA EquipStep == CallsInv /\ EquippedRead /\ [Next]_vars => EquippedRead'
<1> SUFFICES ASSUME CallsInv, EquippedRead, [Next]_vars, "equip" \notin raced'
             PROVE  EquippedRead'
  BY DEF EquippedRead
<1>1. "equip" \notin raced
  BY CallsKept
<1>2. ASSUME NEW c \in Calls, Equip(c) PROVE EquippedRead'
  <2>1. equipped' = {call[c].on}
    BY <1>1, <1>2 DEF Equip, EquippedRead
  <2>2. \A d \in Calls : call'[d].op # "equip"
    BY <1>1, <1>2, EndFacts DEF Equip, CallsInv, Noticed, Kinds
  <2> QED
    BY <2>1, <2>2 DEF EquippedRead
<1>3. CASE equipped' = equipped
  <2>1. ASSUME NEW d \in Calls, call'[d].op = "equip" PROVE call'[d].seen = equipped
    <3>1. call'[d] = call[d] \/ JustBegun(d)
      BY CallsKept
    <3> QED
      BY <1>1, <2>1, <3>1 DEF EquippedRead, JustBegun
  <2> QED
    BY <1>1, <1>3, <2>1 DEF EquippedRead
<1>4. equipped' = equipped \/ \E c \in Calls : Equip(c)
  BY DEF Next, vars, rows, paid, Begin, BeginCheckin, BeginClaim, BeginRedeem, BeginBet, BeginBuy,
     BeginEquip, Checkin, Claim, Redeem, Buy, PlaceBet, Abort, BuyPowerUp, Tick, Complete
<1> QED
  BY <1>2, <1>3, <1>4

\* A check-in continues the run it read, or starts one.
LEMMA StreakStep == CallsInv /\ StreakRead /\ [Next]_vars => StreakRead'
<1> SUFFICES ASSUME CallsInv, StreakRead, [Next]_vars PROVE StreakRead'
  OBVIOUS
<1>1. /\ day \in Int /\ streak.last \in Int /\ streak.last <= day /\ streak.count \in Nat
      /\ streak.last = NoDay \/ streak.last \in Days
      /\ checkins \in [Days -> Nat]
  BY ConstantsAssumption DEF CallsInv, TypeOK, StreakRead, Days, NoDay
<1>2. CASE UNCHANGED <<streak, checkins>>
  <2>1. streak'.last <= day'
    BY <1>1, <1>2, CallsKept
  <2>2. ASSUME "checkin" \notin raced', NEW d \in Calls, call'[d].op = "checkin"
        PROVE  call'[d].seen = streak /\ streak.last < call'[d].on
    <3>1. call'[d] = call[d] \/ JustBegun(d)
      BY CallsKept
    <3>2. CASE call'[d] = call[d]
      BY <2>2, <3>2, CallsKept DEF StreakRead
    <3>3. CASE JustBegun(d)
      BY <1>1, <2>2, <3>3 DEF JustBegun
    <3> QED
      BY <3>1, <3>2, <3>3
  <2> QED
    BY <1>2, <2>1, <2>2, CallsKept DEF StreakRead, RunAfter
<1>3. ASSUME NEW c \in Calls, Checkin(c) PROVE StreakRead'
  <2> DEFINE n == call[c].on
  <2>1. Checking(c) /\ call[c].op = "checkin"
    BY <1>3, CallFacts DEF Checkin, CallsInv
  <2>2. n \in Days /\ n \in Int /\ n >= 1 /\ n <= day
    BY <1>1, <2>1, ConstantsAssumption DEF Checking, CallsInv, TypeOK, Days
  <2>3. /\ streak' = [last |-> n, count |-> NextStreak(call[c].seen, n)]
        /\ checkins' = [checkins EXCEPT ![n] = @ + 1]
        /\ day' = day /\ raced' = raced
    BY <1>3, EndFacts DEF Checkin
  <2>4. streak'.last = n /\ streak'.count = NextStreak(call[c].seen, n)
    BY <2>3
  <2> SUFFICES ASSUME "checkin" \notin raced PROVE StreakRead'
    BY <2>2, <2>3, <2>4 DEF StreakRead
  <2>5. call[c].seen = streak /\ streak.last < n
    BY <2>1 DEF StreakRead
  <2> HIDE DEF n
  <2>6. \A d \in Calls : call'[d].op # "checkin"
    BY <1>3, <2>1, EndFacts DEF Checkin, CallsInv, Noticed, Kinds
  <2>7. \A d \in Days : checkins[d] <= 1 /\ (d > streak.last => checkins[d] = 0)
    BY DEF StreakRead
  <2>8. checkins'[n] = 1 /\ \A d \in Days : d # n => checkins'[d] = checkins[d]
    BY <1>1, <2>2, <2>3, <2>5, <2>7
  <2>9. \A d \in Days : checkins'[d] <= 1 /\ (d > n => checkins'[d] = 0)
    BY <1>1, <2>2, <2>5, <2>7, <2>8 DEF Days
  <2>10. n # NoDay
    BY <2>2 DEF NoDay
  <2>11. \E d \in 0..n : RunAfter(d, streak.last)' /\ streak'.count = n - d
    <3>1. CASE streak.last = n - 1
      <4>1. streak.last # NoDay
        BY <2>2, <3>1 DEF NoDay
      <4>2. PICK d \in 0..streak.last :
                RunAfter(d, streak.last) /\ streak.count = streak.last - d
        BY <4>1 DEF StreakRead
      <4>3. streak'.count = n - d
        BY <1>1, <2>2, <2>4, <2>5, <3>1, <4>2 DEF NextStreak
      <4>4. d = 0 \/ checkins'[d] = 0
        <5>1. d # 0 => d \in Days /\ d # n
          BY <1>1, <2>2, <3>1, ConstantsAssumption DEF Days
        <5> QED
          BY <2>8, <4>2, <5>1 DEF RunAfter
      <4>5. ASSUME NEW e \in (d + 1)..n PROVE checkins'[e] > 0
        <5>1. e \in Days /\ (e = n \/ (e # n /\ e \in (d + 1)..streak.last))
          BY <1>1, <2>2, <3>1, ConstantsAssumption DEF Days
        <5> QED
          BY <2>8, <4>2, <5>1 DEF RunAfter
      <4>6. RunAfter(d, streak.last)' /\ d \in 0..n
        BY <1>1, <2>2, <2>4, <3>1, <4>4, <4>5 DEF RunAfter
      <4> QED
        BY <4>3, <4>6
    <3>2. CASE streak.last # n - 1
      <4>1. streak'.count = 1 /\ n - 1 \in 0..n /\ n - (n - 1) = 1
        BY <2>2, <2>4, <2>5, <3>2 DEF NextStreak
      <4>2. n - 1 = 0 \/ checkins'[n - 1] = 0
        <5>1. n - 1 # 0 => n - 1 \in Days /\ n - 1 > streak.last /\ n - 1 # n
          BY <1>1, <2>2, <2>5, <3>2, ConstantsAssumption DEF Days
        <5> QED
          BY <2>7, <2>8, <5>1
      <4>3. \A e \in ((n - 1) + 1)..n : checkins'[e] > 0
        BY <2>2, <2>8
      <4>4. PICK d \in 0..n : d = n - 1
        BY <4>1
      <4>5. RunAfter(d, streak.last)'
        BY <2>4, <4>2, <4>3, <4>4 DEF RunAfter
      <4> QED
        BY <4>1, <4>4, <4>5
    <3> QED
      BY <3>1, <3>2
  <2> QED
    BY <2>2, <2>3, <2>4, <2>6, <2>9, <2>10, <2>11 DEF StreakRead
<1>4. UNCHANGED <<streak, checkins>> \/ \E c \in Calls : Checkin(c)
  BY DEF Next, vars, rows, paid, Begin, BeginCheckin, BeginClaim, BeginRedeem, BeginBet, BeginBuy,
     BeginEquip, Claim, Redeem, Buy, PlaceBet, Equip, Abort, BuyPowerUp, Tick, Complete
<1> QED
  BY <1>2, <1>3, <1>4

LEMMA RewardsStart == Init => RewardsIInv
<1> SUFFICES ASSUME Init PROVE RewardsIInv
  OBVIOUS
<1>1. day = 1 /\ streak.last = NoDay /\ streak.count = 0 /\ referrals = {}
  BY DEF Init
<1>2. TypeOK
  BY ConstantsAssumption DEF Init, TypeOK, Days
<1>3. IsFiniteSet(referrals)
  BY <1>1, FS_EmptySet
<1>4. \A c \in Calls : call[c] = Idle /\ call[c].op = "idle"
  BY DEF Init, Idle
<1>5. Requests /\ Noticed
  BY <1>4 DEF Init, Requests, Noticed
<1>6. PaidByKey
  <2>1. \A u \in Users : {x \in referrals : u \in {x[1], x[2]}} = {}
    BY <1>1
  <2> QED
    BY <2>1, FS_EmptySet DEF Init, PaidByKey, Once
<1>7. InventoryAddsUp
  BY DEF Init, InventoryAddsUp
<1>8. StreakRead
  BY <1>1, <1>4 DEF Init, StreakRead, NoDay
<1>9. BetRead /\ EquippedRead
  BY <1>4 DEF Init, BetRead, EquippedRead
<1> QED
  BY <1>2, <1>3, <1>5, <1>6, <1>7, <1>8, <1>9 DEF RewardsIInv

LEMMA RewardsInductive == Spec => []RewardsIInv
<1>1. RewardsIInv /\ [Next]_vars => RewardsIInv'
  BY CallsStep, KeysStep, StockStep, StreakStep, BetStep, EquipStep DEF RewardsIInv, CallsInv
<1> QED
  BY <1>1, RewardsStart, PTL DEF Spec

\* Whatever requests of one user overlap, claimMission, redeemReferral and buyCosmetic pay
\* exactly for the rows their unique keys let in, and buyPowerUp and placeBet keep the
\* inventory equal to what was bought less what bets carry.
THEOREM KeysPayOnce == Spec => []GuardedAlways
<1>1. RewardsIInv => GuardedAlways
  BY DEF RewardsIInv, GuardedAlways
<1> QED
  BY <1>1, RewardsInductive, PTL

\* The day before a run of check-ins is the only one of its kind.
LEMMA RunUnique ==
  ASSUME NEW last \in Nat, NEW d \in 0..last, NEW e \in 0..last,
         RunAfter(d, last), RunAfter(e, last)
  PROVE  d = e
<1>1. ASSUME NEW a \in 0..last, NEW b \in 0..last, RunAfter(a, last), RunAfter(b, last), a < b
      PROVE  FALSE
  <2>1. b \in (a + 1)..last /\ b # 0
    BY <1>1
  <2> QED
    BY <1>1, <2>1 DEF RunAfter
<1>2. d < e \/ e < d \/ d = e
  OBVIOUS
<1> QED
  BY <1>1, <1>2

\* As long as two requests of a kind do not overlap, dailyCheckin pays a day once and
\* counts the days in a row, midnight between its read and its commit included, placeBet
\* leaves one OPEN bet on an outcome and equipCosmetic one item equipped.
THEOREM ReadsSuffice == Spec => []GuardedByReads
<1>1. RewardsIInv => GuardedByReads
  <2> SUFFICES ASSUME RewardsIInv PROVE GuardedByReads
    OBVIOUS
  <2>1. CheckinsMatchStreak
    <3> SUFFICES ASSUME "checkin" \notin raced PROVE streak.count = RunLength(streak.last)
      BY DEF CheckinsMatchStreak, RewardsIInv, StreakRead
    <3>1. CASE streak.last = NoDay
      BY <3>1 DEF RewardsIInv, StreakRead, RunLength
    <3>2. CASE streak.last # NoDay
      <4>1. streak.last \in Nat
        BY <3>2, ConstantsAssumption DEF RewardsIInv, TypeOK, Days
      <4>2. PICK d \in 0..streak.last :
                RunAfter(d, streak.last) /\ streak.count = streak.last - d
        BY <3>2 DEF RewardsIInv, StreakRead
      <4> DEFINE e == CHOOSE x \in 0..streak.last : RunAfter(x, streak.last)
      <4>3. e \in 0..streak.last /\ RunAfter(e, streak.last)
        BY <4>2
      <4>4. e = d
        <5> HIDE DEF e
        <5> QED
          BY <4>1, <4>2, <4>3, RunUnique
      <4>5. RunLength(streak.last) = streak.last - e
        BY <3>2 DEF RunLength, RunAfter
      <4> QED
        BY <4>2, <4>4, <4>5
    <3> QED
      BY <3>1, <3>2
  <2>2. OneBetPerOutcome
    BY DEF RewardsIInv, BetRead, OneBetPerOutcome
  <2>3. OneEquipped
    <3> SUFFICES ASSUME "equip" \notin raced PROVE Cardinality(equipped) <= 1
      BY DEF OneEquipped
    <3>1. CASE equipped = {}
      BY <3>1, FS_EmptySet
    <3>2. ASSUME NEW i \in equipped PROVE Cardinality(equipped) <= 1
      <4>1. equipped = {i}
        BY <3>2 DEF RewardsIInv, EquippedRead
      <4>2. Cardinality({i}) = 1
        BY FS_Singleton
      <4> QED
        BY <4>1, <4>2
    <3> QED
      BY <3>1, <3>2
  <2> QED
    BY <2>1, <2>2, <2>3 DEF GuardedByReads
<1> QED
  BY <1>1, RewardsInductive, PTL
=============================================================================
