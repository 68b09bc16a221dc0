-------------------------- MODULE SideMarketsProofs --------------------------
(***************************************************************************)
(* Theorems about micro bets, the special market and the duel, for any     *)
(* number of requests, bets and odds.                                      *)
(***************************************************************************)
EXTENDS SideMarkets, TLAPS

\* What the request of each kind carries.
Placing(c) == call[c] \in [op : {"place"}, on : Bets, arg : {"NONE"}, seen : Nat]
Settling(c) == call[c] \in [op : {"settle"}, on : Micros, arg : BOOLEAN, seen : Nat]
Resolving(c) == call[c] \in [op : {"resolve", "pay"}, on : {"market"}, arg : Outcomes,
                             seen : SUBSET Specials]
Responding(c) == call[c] \in [op : {"respond"}, on : {"duel"}, arg : BOOLEAN, seen : {{}}]
Deciding(c) == call[c] \in [op : {"decide"}, on : {"duel"},
                            arg : {"nobody", "challenger", "opponent"}, seen : {{}}]

CallTypes ==
    /\ call = [c \in Calls |-> call[c]]
    /\ \A c \in Calls :
          \/ call[c] = Idle
          \/ call[c].op = "place" /\ Placing(c)
          \/ call[c].op = "settle" /\ Settling(c)
          \/ call[c].op \in {"resolve", "pay"} /\ Resolving(c)
          \/ call[c].op = "respond" /\ Responding(c)
          \/ call[c].op = "decide" /\ Deciding(c)

\* Two requests on one row have been noticed.
OverlapsSeen ==
    \A c, d \in Calls : c # d => RowsOf(c) \intersect RowsOf(d) \subseteq raced

\* A bet that is OPEN has paid nothing, one that won pays its odds.
BetRows ==
    \A b \in Bets :
        /\ bet[b].status = "OPEN" => bet[b].payout = 0
        /\ bet[b].status = "WON" => bet[b].payout = 1 + bet[b].odds

\* A bet being placed is not there yet, and nobody else places it.
PlacesOnce ==
    \A c \in Calls : call[c].op = "place" =>
        /\ bet[call[c].on].status = "ABSENT"
        /\ \A d \in Calls : (d # c /\ call[d].op = "place") => call[d].on # call[c].on

\* What the settlement of a micro bet read of it still holds, its status
\* unless another settlement of the bet overlapped.
SettlesRead ==
    \A c \in Calls : call[c].op = "settle" =>
        /\ bet[call[c].on].status # "ABSENT" /\ call[c].seen = bet[call[c].on].odds
        /\ call[c].on \notin raced => bet[call[c].on].status = "OPEN"

\* A resolution holds the market's row from its selection of the bets to its commit,
\* so that what it selected is still OPEN, and all that is OPEN but what raced it.
PaysSelected ==
    /\ \A c, d \in Calls : (call[c].op = "pay" /\ call[d].op = "pay") => c = d
    /\ \A c \in Calls : call[c].op = "pay" =>
          /\ \A b \in call[c].seen : bet[b].status = "OPEN"
          /\ \A b \in Specials \ raced : bet[b].status = "OPEN" => b \in call[c].seen

\* The market is OPEN before a resolution that overlaps no other, and no bet is
\* settled on an OPEN market.
ResolvesOpen ==
    /\ market.status = "OPEN" => \A b \in Specials : bet[b].status \in {"ABSENT", "OPEN"}
    /\ "market" \notin raced =>
          \A c \in Calls : call[c].op \in {"resolve", "pay"} => market.status = "OPEN"

\* A bet still being placed on a resolved market raced the resolution, and one placed
\* beside an OPEN bet of its slot raced that one.
PlacedInTime ==
    \A c \in Calls : (call[c].op = "place" /\ call[c].on \in Specials) =>
        /\ market.status = "RESOLVED" => call[c].on \in raced
        /\ \A a \in Specials : (Slot[a] = Slot[call[c].on] /\ bet[a].status = "OPEN")
              => Slot[a] \in raced

\* The duel is as an answer or a decision that overlaps no other one read it.
DuelRead ==
    "duel" \notin raced => \A c \in Calls :
        /\ call[c].op = "respond" => duel.status = "PENDING"
        /\ call[c].op = "decide" => duel.status = "ACTIVE"

MarketsIInv ==
    /\ TypeOK /\ CallTypes /\ OverlapsSeen /\ BetRows /\ PlacesOnce /\ SettlesRead
    /\ PaysSelected /\ ResolvesOpen /\ PlacedInTime /\ DuelRead
    /\ LedgerMatchesBets /\ VerdictsMatchOutcome /\ StrandedOnlyByRace /\ OneOpenBetPerSlot
-----------------------------------------------------------------------------
(* Requests and their rows. *)

\* What the kind of a request says of the rest of it.
LEMMA CallFacts ==
  ASSUME CallTypes, NEW c \in Calls
  PROVE  /\ call[c].op \in {"idle", "place", "settle", "resolve", "pay", "respond", "decide"}
         /\ call[c].op = "idle" <=> call[c] = Idle
         /\ call[c].op = "place" => call[c].on \in Bets /\ call[c].seen \in Nat
         /\ call[c].op = "settle" => /\ call[c].on \in Micros /\ call[c].seen \in Nat
                                     /\ call[c].arg \in BOOLEAN
         /\ call[c].op \in {"resolve", "pay"} => /\ call[c].arg \in Outcomes
                                                 /\ call[c].seen \subseteq Specials
         /\ call[c].op = "respond" => call[c].arg \in BOOLEAN
         /\ call[c].op = "decide" => call[c].arg \in {"nobody", "challenger", "opponent"}
<1>1. CASE call[c] = Idle
  BY <1>1 DEF Idle
<1>2. CASE call[c].op = "place" /\ Placing(c)
  BY <1>2 DEF Idle, Placing
<1>3. CASE call[c].op = "settle" /\ Settling(c)
  BY <1>3 DEF Idle, Settling
<1>4. CASE call[c].op \in {"resolve", "pay"} /\ Resolving(c)
  BY <1>4 DEF Idle, Resolving
<1>5. CASE call[c].op = "respond" /\ Responding(c)
  BY <1>5 DEF Idle, Responding
<1>6. CASE call[c].op = "decide" /\ Deciding(c)
  BY <1>6 DEF Idle, Deciding
<1> QED
  BY <1>1, <1>2, <1>3, <1>4, <1>5, <1>6 DEF CallTypes

\* The rows of a request, kind by kind.
LEMMA RowFacts ==
  ASSUME CallTypes, NEW c \in Calls
  PROVE  /\ call[c].op = "place" => call[c].on \in RowsOf(c)
         /\ (call[c].op = "place" /\ call[c].on \in Specials) => Slot[call[c].on] \in RowsOf(c)
         /\ call[c].op = "settle" => call[c].on \in RowsOf(c)
         /\ call[c].op \in {"resolve", "pay"} => Specials \union {"market"} \subseteq RowsOf(c)
         /\ call[c].op \in {"respond", "decide"} => "duel" \in RowsOf(c)
<1>1. call[c].op \in {"respond", "decide"} => call[c].on = "duel"
  BY DEF CallTypes, Responding, Deciding, Placing, Settling, Resolving, Idle
<1> QED
  BY <1>1, CallFacts DEF RowsOf, Rows

\* What two requests under way together have in common is among the raced rows.
LEMMA Overlaps ==
  ASSUME CallTypes, OverlapsSeen, NEW c \in Calls, NEW d \in Calls, c # d
  PROVE  /\ (call[c].op = "settle" /\ call[d].op = "settle" /\ call[c].on = call[d].on)
                => call[c].on \in raced
         /\ (call[c].op \in {"resolve", "pay"} /\ call[d].op \in {"resolve", "pay"})
                => "market" \in raced
         /\ (call[c].op \in {"resolve", "pay"} /\ call[d].op = "place"
             /\ call[d].on \in Specials) => call[d].on \in raced
         /\ (call[c].op = "place" /\ call[d].op = "place" /\ call[c].on \in Specials
             /\ call[d].on \in Specials /\ Slot[call[c].on] = Slot[call[d].on])
                => Slot[call[c].on] \in raced
         /\ (call[c].op \in {"respond", "decide"} /\ call[d].op \in {"respond", "decide"})
                => "duel" \in raced
<1>1. \A x : (x \in RowsOf(c) /\ x \in RowsOf(d)) => x \in raced
  BY DEF OverlapsSeen
<1> QED
  BY <1>1, RowFacts

\* A request that begins.
LEMMA BeginFacts ==
  ASSUME CallTypes, OverlapsSeen, NEW c \in Calls, NEW op \in {"place", "settle", "resolve",
         "respond", "decide"}, NEW on, NEW arg, NEW seen, Begin(c, op, on, arg, seen)
  PROVE  /\ call[c] = Idle /\ call'[c] = [op |-> op, on |-> on, arg |-> arg, seen |-> seen]
         /\ \A d \in Calls : d # c => call'[d] = call[d]
         /\ call' = [d \in Calls |-> call'[d]]
         /\ raced \subseteq raced' /\ OverlapsSeen'
<1>1. call = [d \in Calls |-> call[d]]
  BY DEF CallTypes
<1>2. call' = [d \in Calls |-> IF d = c THEN [op |-> op, on |-> on, arg |-> arg, seen |-> seen]
                               ELSE call[d]]
  BY <1>1, Zenon DEF Begin
<1>3. raced' = raced \union UNION {Rows(op, on) \intersect RowsOf(d) : d \in Calls}
  BY DEF Begin
<1>4. \A d \in Calls : d # c => RowsOf(d)' = RowsOf(d)
  BY <1>2 DEF RowsOf
<1>5. RowsOf(c)' = Rows(op, on)
  BY <1>2 DEF RowsOf, Idle
<1>6. raced \subseteq raced' /\ \A d \in Calls : Rows(op, on) \intersect RowsOf(d) \subseteq raced'
  BY <1>3
<1>7. OverlapsSeen'
  <2> SUFFICES ASSUME NEW d \in Calls, NEW e \in Calls, d # e
               PROVE  RowsOf(d)' \intersect RowsOf(e)' \subseteq raced'
    BY DEF OverlapsSeen
  <2>1. CASE d = c
    BY <1>4, <1>5, <1>6, <2>1
  <2>2. CASE e = c
    BY <1>4, <1>5, <1>6, <2>2
  <2>3. CASE d # c /\ e # c
    BY <1>4, <1>6, <2>3 DEF OverlapsSeen
  <2> QED
    BY <2>1, <2>2, <2>3
<1> QED
  BY <1>2, <1>6, <1>7 DEF Begin

\* A request that ends.
LEMMA EndFacts ==
  ASSUME CallTypes, OverlapsSeen, NEW c \in Calls, End(c)
  PROVE  /\ call'[c] = Idle /\ \A d \in Calls : d # c => call'[d] = call[d]
         /\ call' = [d \in Calls |-> call'[d]]
         /\ raced' = raced /\ OverlapsSeen' /\ CallTypes'
<1>1. call = [d \in Calls |-> call[d]]
  BY DEF CallTypes
<1>2. call' = [d \in Calls |-> IF d = c THEN Idle ELSE call[d]]
  BY <1>1, Zenon DEF End
<1>3. raced' = raced
  BY DEF End
<1>4. \A d \in Calls : RowsOf(d)' \subseteq RowsOf(d)
  BY <1>2 DEF RowsOf
<1>5. OverlapsSeen'
  BY <1>3, <1>4 DEF OverlapsSeen
<1>6. CallTypes'
  <2>1. \A d \in Calls : d # c => call'[d] = call[d]
    BY <1>2
  <2>2. ASSUME NEW d \in Calls, d # c
        PROVE  /\ Placing(d)' = Placing(d) /\ Settling(d)' = Settling(d)
               /\ Resolving(d)' = Resolving(d) /\ Responding(d)' = Responding(d)
               /\ Deciding(d)' = Deciding(d)
    BY <2>1, <2>2 DEF Placing, Settling, Resolving, Responding, Deciding
  <2> QED
    BY <1>2, <2>1, <2>2 DEF CallTypes
<1> QED
  BY <1>2, <1>3, <1>5, <1>6
-----------------------------------------------------------------------------
(* The steps. *)

\* What a request finds when it begins.
Found(op, on, arg, seen) ==
    \/ /\ op = "place" /\ on \in Bets /\ arg = "NONE" /\ seen \in Nat /\ Unplaced(on)
       /\ on \in Specials => MarketOpen /\ NoDuplicate(on)
    \/ /\ op = "settle" /\ on \in Micros /\ arg \in BOOLEAN /\ seen \in Nat
       /\ bet[on].status = "OPEN" /\ seen = bet[on].odds
    \/ /\ op = "resolve" /\ on = "market" /\ arg \in Outcomes /\ seen = {}
       /\ market.status = "OPEN"
    \/ op = "respond" /\ on = "duel" /\ arg \in BOOLEAN /\ seen = {} /\ Pending
    \/ /\ op = "decide" /\ on = "duel" /\ arg \in {"nobody", "challenger", "opponent"}
       /\ seen = {} /\ duel.status = "ACTIVE"

LEMMA BeginStep ==
  ASSUME MarketsIInv, NEW c \in Calls,
         NEW op \in {"place", "settle", "resolve", "respond", "decide"},
         NEW on, NEW arg, NEW seen, Begin(c, op, on, arg, seen), Found(op, on, arg, seen),
         UNCHANGED <<live, market, odds, bet, ledger, duel>>
  PROVE  MarketsIInv'
<1>1. /\ call[c] = Idle /\ call'[c] = [op |-> op, on |-> on, arg |-> arg, seen |-> seen]
      /\ \A d \in Calls : d # c => call'[d] = call[d]
      /\ call' = [d \in Calls |-> call'[d]]
      /\ raced \subseteq raced' /\ OverlapsSeen'
  BY BeginFacts DEF MarketsIInv
<1>2. call'[c].op = op /\ call'[c].on = on /\ call'[c].arg = arg /\ call'[c].seen = seen
  BY <1>1
<1>3. TypeOK'
  BY <1>1, <1>2 DEF MarketsIInv, TypeOK
<1>4. CallTypes'
  <2>1. ASSUME NEW d \in Calls, d # c
        PROVE  /\ Placing(d)' = Placing(d) /\ Settling(d)' = Settling(d)
               /\ Resolving(d)' = Resolving(d) /\ Responding(d)' = Responding(d)
               /\ Deciding(d)' = Deciding(d)
    BY <1>1, <2>1 DEF Placing, Settling, Resolving, Responding, Deciding
  <2>2. \/ op = "place" /\ Placing(c)'
        \/ op = "settle" /\ Settling(c)'
        \/ op = "resolve" /\ Resolving(c)'
        \/ op = "respond" /\ Responding(c)'
        \/ op = "decide" /\ Deciding(c)'
    BY <1>1 DEF Found, Placing, Settling, Resolving, Responding, Deciding
  <2> QED
    BY <1>1, <1>2, <2>1, <2>2 DEF MarketsIInv, CallTypes
<1>5. BetRows' /\ LedgerMatchesBets'
  BY <1>1 DEF MarketsIInv, BetRows, LedgerMatchesBets, Booked
<1>6. PlacesOnce'
  BY <1>1, <1>2 DEF MarketsIInv, PlacesOnce, Found, Unplaced
<1>7. SettlesRead'
  BY <1>1, <1>2 DEF MarketsIInv, SettlesRead, Found
<1>8. PaysSelected'
  BY <1>1, <1>2 DEF MarketsIInv, PaysSelected
<1>9. ResolvesOpen' /\ VerdictsMatchOutcome'
  BY <1>1, <1>2 DEF MarketsIInv, ResolvesOpen, VerdictsMatchOutcome, Found
<1>10. PlacedInTime'
  BY <1>1, <1>2 DEF MarketsIInv, PlacedInTime, Found, MarketOpen, NoDuplicate
<1>11. DuelRead'
  BY <1>1, <1>2 DEF MarketsIInv, DuelRead, Found, Pending
<1>12. StrandedOnlyByRace' /\ OneOpenBetPerSlot'
  BY <1>1 DEF MarketsIInv, StrandedOnlyByRace, OneOpenBetPerSlot
<1> QED
  BY <1>1, <1>3, <1>4, <1>5, <1>6, <1>7, <1>8, <1>9, <1>10, <1>11, <1>12 DEF MarketsIInv

\* A bet is inserted.
LEMMA PlaceStep == ASSUME MarketsIInv, NEW c \in Calls, Place(c) PROVE MarketsIInv'
<1> DEFINE b == call[c].on
<1>1. call[c].op = "place" /\ b \in Bets /\ call[c].seen \in Nat /\ End(c)
  BY CallFacts DEF Place, MarketsIInv
<1>2. /\ call'[c] = Idle /\ \A d \in Calls : d # c => call'[d] = call[d]
      /\ raced' = raced /\ OverlapsSeen' /\ CallTypes'
  BY <1>1, EndFacts DEF MarketsIInv
<1>3. /\ bet' = [bet EXCEPT ![b] = [status |-> "OPEN", odds |-> call[c].seen, payout |-> 0]]
      /\ ledger' = [ledger EXCEPT ![b] = @ - 1]
      /\ UNCHANGED <<live, market, odds, duel>>
  BY DEF Place
<1>4. bet[b].status = "ABSENT"
  BY <1>1 DEF MarketsIInv, PlacesOnce
<1> HIDE DEF b
<1>5. TypeOK'
  BY <1>1, <1>2, <1>3 DEF MarketsIInv, TypeOK, Idle
<1>6. /\ bet'[b].status = "OPEN" /\ bet'[b].payout = 0
      /\ \A x \in Bets : x # b => bet'[x] = bet[x] /\ ledger'[x] = ledger[x]
      /\ ledger'[b] = ledger[b] - 1 /\ ledger[b] \in Int
  BY <1>1, <1>3 DEF MarketsIInv, TypeOK
<1>7. BetRows' /\ LedgerMatchesBets'
  BY <1>2, <1>4, <1>6 DEF MarketsIInv, BetRows, LedgerMatchesBets, Booked
<1>8. PlacesOnce'
  <2> SUFFICES ASSUME NEW d \in Calls, call'[d].op = "place"
               PROVE  /\ bet'[call'[d].on].status = "ABSENT"
                      /\ \A e \in Calls : (e # d /\ call'[e].op = "place")
                                             => call'[e].on # call'[d].on
    BY DEF PlacesOnce
  <2>1. d # c /\ call'[d] = call[d] /\ call[d].on \in Bets
    BY <1>2, CallFacts DEF Idle, MarketsIInv
  <2>2. call[d].on # b
    BY <1>1, <2>1 DEF b, MarketsIInv, PlacesOnce
  <2> QED
    BY <1>2, <1>6, <2>1, <2>2 DEF Idle, MarketsIInv, PlacesOnce
<1>9. SettlesRead'
  <2> SUFFICES ASSUME NEW d \in Calls, call'[d].op = "settle"
               PROVE  /\ bet'[call'[d].on].status # "ABSENT"
                      /\ call'[d].seen = bet'[call'[d].on].odds
                      /\ call'[d].on \notin raced' => bet'[call'[d].on].status = "OPEN"
    BY DEF SettlesRead
  <2>1. d # c /\ call'[d] = call[d] /\ call[d].on \in Bets
    BY <1>2, CallFacts DEF Idle, MarketsIInv, Bets
  <2>2. bet[call[d].on].status # "ABSENT"
    BY <2>1 DEF MarketsIInv, SettlesRead
  <2>3. bet'[call[d].on] = bet[call[d].on]
    BY <1>4, <1>6, <2>1, <2>2
  <2> QED
    BY <1>2, <2>1, <2>3 DEF MarketsIInv, SettlesRead
<1>10. PaysSelected'
  <2> SUFFICES ASSUME NEW d \in Calls, call'[d].op = "pay"
               PROVE  /\ \A e \in Calls : call'[e].op = "pay" => d = e
                      /\ \A x \in call'[d].seen : bet'[x].status = "OPEN"
                      /\ \A x \in Specials \ raced' : bet'[x].status = "OPEN"
                                                          => x \in call'[d].seen
    BY DEF PaysSelected
  <2>1. d # c /\ call'[d] = call[d] /\ call[d].seen \subseteq Specials
    BY <1>2, CallFacts DEF Idle, MarketsIInv
  <2>2. b \in Specials => b \in raced
    BY <1>1, <2>1, Overlaps DEF b, MarketsIInv
  <2>3. \A e \in Calls : call'[e].op = "pay" => call[e].op = "pay"
    BY <1>2 DEF Idle
  <2> QED
    BY <1>2, <1>6, <2>1, <2>2, <2>3 DEF MarketsIInv, PaysSelected, Bets
<1>11. ResolvesOpen' /\ VerdictsMatchOutcome'
  <2>1. \A d \in Calls : call'[d].op \in {"resolve", "pay"} => call[d].op \in {"resolve", "pay"}
    BY <1>2 DEF Idle
  <2> QED
    BY <1>2, <1>3, <1>6, <2>1 DEF MarketsIInv, ResolvesOpen, VerdictsMatchOutcome, Bets
<1>12. PlacedInTime'
  <2> SUFFICES ASSUME NEW d \in Calls, call'[d].op = "place", call'[d].on \in Specials
               PROVE  /\ market'.status = "RESOLVED" => call'[d].on \in raced'
                      /\ \A a \in Specials : (Slot[a] = Slot[call'[d].on]
                             /\ bet'[a].status = "OPEN") => Slot[a] \in raced'
    BY DEF PlacedInTime
  <2>1. d # c /\ call'[d] = call[d]
    BY <1>2 DEF Idle
  <2>2. (b \in Specials /\ Slot[b] = Slot[call[d].on]) => Slot[b] \in raced
    BY <1>1, <2>1, Overlaps DEF b, MarketsIInv
  <2> QED
    BY <1>2, <1>3, <1>6, <2>1, <2>2 DEF MarketsIInv, PlacedInTime, Bets
<1>13. DuelRead'
  BY <1>2, <1>3 DEF MarketsIInv, DuelRead, Idle
<1>14. StrandedOnlyByRace' /\ OneOpenBetPerSlot'
  <2>1. (b \in Specials /\ market.status = "RESOLVED") => b \in raced
    BY <1>1 DEF b, MarketsIInv, PlacedInTime
  <2>2. \A a \in Specials : (b \in Specials /\ Slot[a] = Slot[b] /\ bet[a].status = "OPEN")
            => Slot[a] \in raced
    BY <1>1 DEF b, MarketsIInv, PlacedInTime
  <2> QED
    BY <1>2, <1>3, <1>6, <2>1, <2>2
    DEF MarketsIInv, StrandedOnlyByRace, OneOpenBetPerSlot, Bets
<1> QED
  BY <1>2, <1>5, <1>7, <1>8, <1>9, <1>10, <1>11, <1>12, <1>13, <1>14 DEF MarketsIInv
\* A micro bet is settled.
LEMMA SettleMicroStep == ASSUME MarketsIInv, NEW c \in Calls, SettleMicro(c) PROVE MarketsIInv'
<1> DEFINE b == call[c].on
           v == Verdict(call[c].arg, call[c].seen)
<1>1. /\ call[c].op = "settle" /\ b \in Micros /\ call[c].seen \in Nat
      /\ call[c].arg \in BOOLEAN /\ End(c)
  BY CallFacts DEF SettleMicro, MarketsIInv
<1>2. /\ call'[c] = Idle /\ \A d \in Calls : d # c => call'[d] = call[d]
      /\ raced' = raced /\ OverlapsSeen' /\ CallTypes'
  BY <1>1, EndFacts DEF MarketsIInv
<1>3. /\ bet' = [bet EXCEPT ![b] = v] /\ ledger' = [ledger EXCEPT ![b] = @ + v.payout]
      /\ UNCHANGED <<live, market, odds, duel>>
  BY DEF SettleMicro
<1>4. /\ bet[b].status # "ABSENT" /\ call[c].seen = bet[b].odds
      /\ b \notin raced => bet[b].status = "OPEN"
  BY <1>1 DEF MarketsIInv, SettlesRead
<1>5. /\ v.status \in {"WON", "LOST"} /\ v.odds = bet[b].odds /\ v.payout \in Nat
      /\ v.status = "WON" => v.payout = 1 + v.odds
      /\ v = [status |-> v.status, odds |-> v.odds, payout |-> v.payout]
  BY <1>1, <1>4 DEF Verdict
<1>6. b \in Bets /\ b \notin Specials
  BY <1>1, ConstantsAssumption DEF Bets
<1> HIDE DEF b, v
<1>7. /\ bet'[b] = v /\ ledger'[b] = ledger[b] + v.payout /\ ledger[b] \in Int
      /\ \A x \in Bets : x # b => bet'[x] = bet[x] /\ ledger'[x] = ledger[x]
  BY <1>3, <1>6 DEF MarketsIInv, TypeOK
<1>8. \A x \in Specials : bet'[x] = bet[x]
  BY <1>6, <1>7 DEF Bets
<1>9. TypeOK'
  <2>1. v \in [status : {"ABSENT", "OPEN", "WON", "LOST"}, odds : Nat, payout : Nat]
    BY <1>1, <1>4, <1>5
  <2>2. /\ bet' \in [Bets -> [status : {"ABSENT", "OPEN", "WON", "LOST"}, odds : Nat, payout : Nat]]
        /\ ledger' \in [Bets -> Int]
    BY <1>3, <1>5, <1>6, <2>1 DEF MarketsIInv, TypeOK
  <2>3. \A d \in Calls : call'[d].op \in {"idle", "place", "settle", "resolve", "pay",
                                          "respond", "decide"}
    BY <1>2 DEF MarketsIInv, TypeOK, Idle
  <2> QED
    BY <1>3, <2>2, <2>3 DEF MarketsIInv, TypeOK
<1>10. BetRows' /\ LedgerMatchesBets'
  BY <1>1, <1>2, <1>4, <1>5, <1>6, <1>7 DEF MarketsIInv, BetRows, LedgerMatchesBets, Booked
<1>11. PlacesOnce'
  <2> SUFFICES ASSUME NEW d \in Calls, call'[d].op = "place"
               PROVE  /\ bet'[call'[d].on].status = "ABSENT"
                      /\ \A e \in Calls : (e # d /\ call'[e].op = "place")
                                             => call'[e].on # call'[d].on
    BY DEF PlacesOnce
  <2>1. d # c /\ call'[d] = call[d] /\ call[d].on \in Bets
    BY <1>2, CallFacts DEF Idle, MarketsIInv
  <2>2. bet[call[d].on].status = "ABSENT"
    BY <2>1 DEF MarketsIInv, PlacesOnce
  <2> QED
    BY <1>2, <1>4, <1>7, <2>1, <2>2 DEF Idle, MarketsIInv, PlacesOnce
<1>12. SettlesRead'
  <2> SUFFICES ASSUME NEW d \in Calls, call'[d].op = "settle"
               PROVE  /\ bet'[call'[d].on].status # "ABSENT"
                      /\ call'[d].seen = bet'[call'[d].on].odds
                      /\ call'[d].on \notin raced' => bet'[call'[d].on].status = "OPEN"
    BY DEF SettlesRead
  <2>1. d # c /\ call'[d] = call[d] /\ call[d].on \in Bets
    BY <1>2, CallFacts DEF Idle, MarketsIInv, Bets
  <2>2. CASE call[d].on = b
    <3>1. b \in raced
      BY <1>1, <2>1, <2>2, Overlaps DEF b, MarketsIInv
    <3> QED
      BY <1>2, <1>5, <1>7, <2>1, <2>2, <3>1 DEF MarketsIInv, SettlesRead
  <2>3. CASE call[d].on # b
    BY <1>2, <1>7, <2>1, <2>3 DEF MarketsIInv, SettlesRead
  <2> QED
    BY <2>2, <2>3
<1>13. \A d \in Calls : call'[d] = call[d] \/ call'[d].op = "idle"
  BY <1>2 DEF Idle
<1>14. PaysSelected'
  <2>1. \A d \in Calls : call[d].op = "pay" => call[d].seen \subseteq Specials
    BY CallFacts DEF MarketsIInv
  <2> QED
    BY <1>2, <1>8, <1>13, <2>1 DEF MarketsIInv, PaysSelected
<1>15. ResolvesOpen' /\ VerdictsMatchOutcome'
  BY <1>2, <1>3, <1>8, <1>13 DEF MarketsIInv, ResolvesOpen, VerdictsMatchOutcome
<1>16. PlacedInTime'
  BY <1>2, <1>3, <1>8, <1>13 DEF MarketsIInv, PlacedInTime
<1>17. DuelRead'
  BY <1>2, <1>3, <1>13 DEF MarketsIInv, DuelRead
<1>18. StrandedOnlyByRace' /\ OneOpenBetPerSlot'
  BY <1>2, <1>3, <1>8 DEF MarketsIInv, StrandedOnlyByRace, OneOpenBetPerSlot
<1> QED
  BY <1>2, <1>9, <1>10, <1>11, <1>12, <1>14, <1>15, <1>16, <1>17, <1>18 DEF MarketsIInv

\* A resolution takes the market's row.
LEMMA LockMarketStep == ASSUME MarketsIInv, NEW c \in Calls, LockMarket(c) PROVE MarketsIInv'
<1> DEFINE S == {b \in Specials : bet[b].status = "OPEN"}
<1>1. /\ call[c].op = "resolve" /\ Resolving(c) /\ RowFree
      /\ UNCHANGED <<live, market, odds, bet, ledger, duel, raced>>
  <2>1. call[c].op = "resolve" /\ RowFree
    BY DEF LockMarket
  <2>2. Resolving(c)
    BY <2>1 DEF MarketsIInv, CallTypes, Idle
  <2> QED
    BY <2>1, <2>2 DEF LockMarket
<1>2. call' = [call EXCEPT ![c].op = "pay", ![c].seen = S] /\ call = [d \in Calls |-> call[d]]
  BY DEF LockMarket, MarketsIInv, CallTypes
<1>3. /\ call'[c] = [op |-> "pay", on |-> "market", arg |-> call[c].arg, seen |-> S]
      /\ call[c].arg \in Outcomes /\ call[c].on = "market"
      /\ \A d \in Calls : d # c => call'[d] = call[d]
      /\ call' = [d \in Calls |-> call'[d]]
  BY <1>1, <1>2 DEF Resolving
<1>4. S \subseteq Specials /\ \A b \in S : bet[b].status = "OPEN"
  OBVIOUS
<1>5. \A b \in Specials : bet[b].status = "OPEN" => b \in S
  OBVIOUS
<1> HIDE DEF S
<1>6. TypeOK'
  BY <1>1, <1>3 DEF MarketsIInv, TypeOK
<1>7. CallTypes'
  <2>1. ASSUME NEW d \in Calls, d # c
        PROVE  /\ Placing(d)' = Placing(d) /\ Settling(d)' = Settling(d)
               /\ Resolving(d)' = Resolving(d) /\ Responding(d)' = Responding(d)
               /\ Deciding(d)' = Deciding(d)
    BY <1>3, <2>1 DEF Placing, Settling, Resolving, Responding, Deciding
  <2>2. call'[c].op = "pay" /\ Resolving(c)'
    BY <1>3, <1>4 DEF Resolving
  <2> QED
    BY <1>3, <2>1, <2>2 DEF MarketsIInv, CallTypes
<1>8. OverlapsSeen'
  <2>1. RowsOf(c)' = RowsOf(c)
    BY <1>1, <1>3 DEF RowsOf, Rows, Idle
  <2>2. \A d \in Calls : RowsOf(d)' = RowsOf(d)
    BY <1>3, <2>1 DEF RowsOf
  <2> QED
    BY <1>1, <2>2 DEF MarketsIInv, OverlapsSeen
<1>9. BetRows' /\ LedgerMatchesBets'
  BY <1>1 DEF MarketsIInv, BetRows, LedgerMatchesBets, Booked
<1>10. PlacesOnce'
  BY <1>1, <1>3 DEF MarketsIInv, PlacesOnce
<1>11. SettlesRead'
  BY <1>1, <1>3 DEF MarketsIInv, SettlesRead
<1>12. PaysSelected'
  <2>1. \A d \in Calls : call'[d].op = "pay" => d = c
    BY <1>1, <1>3 DEF RowFree
  <2> QED
    BY <1>1, <1>3, <1>4, <1>5, <2>1 DEF PaysSelected
<1>13. ResolvesOpen' /\ VerdictsMatchOutcome'
  BY <1>1, <1>3 DEF MarketsIInv, ResolvesOpen, VerdictsMatchOutcome
<1>14. PlacedInTime'
  BY <1>1, <1>3 DEF MarketsIInv, PlacedInTime
<1>15. DuelRead'
  BY <1>1, <1>3 DEF MarketsIInv, DuelRead
<1>16. StrandedOnlyByRace' /\ OneOpenBetPerSlot'
  BY <1>1 DEF MarketsIInv, StrandedOnlyByRace, OneOpenBetPerSlot
<1> QED
  BY <1>6, <1>7, <1>8, <1>9, <1>10, <1>11, <1>12, <1>13, <1>14, <1>15, <1>16 DEF MarketsIInv
\* A resolution commits.
LEMMA ResolveStep == ASSUME MarketsIInv, NEW c \in Calls, Resolve(c) PROVE MarketsIInv'
<1> DEFINE S == call[c].seen
           v == [b \in S |-> Verdict(Pick[b] = call[c].arg, PayoutOdds(b))]
<1>1. /\ call[c].op = "pay" /\ call[c].arg \in Outcomes /\ S \subseteq Specials /\ End(c)
  BY CallFacts DEF Resolve, MarketsIInv
<1>2. /\ call'[c] = Idle /\ \A d \in Calls : d # c => call'[d] = call[d]
      /\ raced' = raced /\ OverlapsSeen' /\ CallTypes'
  BY <1>1, EndFacts DEF MarketsIInv
<1>3. /\ market' = [status |-> "RESOLVED", outcome |-> call[c].arg]
      /\ bet' = [b \in Bets |-> IF b \in S THEN v[b] ELSE bet[b]]
      /\ ledger' = [b \in Bets |-> IF b \in S THEN ledger[b] + v[b].payout ELSE ledger[b]]
      /\ UNCHANGED <<live, odds, duel>>
  BY DEF Resolve
<1>4. \A b \in S : bet[b].status = "OPEN"
  BY <1>1 DEF MarketsIInv, PaysSelected
<1>5. \A b \in Specials \ raced : bet[b].status = "OPEN" => b \in S
  BY <1>1 DEF MarketsIInv, PaysSelected
<1>6. ASSUME NEW b \in S
      PROVE  /\ v[b].status \in {"WON", "LOST"} /\ v[b].odds = bet[b].odds /\ v[b].payout \in Nat
             /\ v[b].status = "WON" <=> Pick[b] = call[c].arg
             /\ v[b].status = "WON" => v[b].payout = 1 + v[b].odds
             /\ v[b] \in [status : {"ABSENT", "OPEN", "WON", "LOST"}, odds : Nat, payout : Nat]
  <2>1. bet[b].odds \in Nat
    BY <1>1 DEF MarketsIInv, TypeOK, Bets
  <2> QED
    BY <2>1 DEF Verdict, PayoutOdds
<1> HIDE DEF S, v
<1>7. /\ \A b \in Bets : bet'[b] = IF b \in S THEN v[b] ELSE bet[b]
      /\ \A b \in Bets : ledger'[b] = IF b \in S THEN ledger[b] + v[b].payout ELSE ledger[b]
      /\ S \subseteq Bets /\ Specials \subseteq Bets /\ \A b \in Bets : ledger[b] \in Int
  BY <1>1, <1>3 DEF MarketsIInv, TypeOK, Bets
<1>8. TypeOK'
  <2>1. bet' \in [Bets -> [status : {"ABSENT", "OPEN", "WON", "LOST"}, odds : Nat, payout : Nat]]
    BY <1>3, <1>6 DEF MarketsIInv, TypeOK
  <2>2. ledger' \in [Bets -> Int]
    BY <1>3, <1>6 DEF MarketsIInv, TypeOK
  <2>3. \A d \in Calls : call'[d].op \in {"idle", "place", "settle", "resolve", "pay",
                                          "respond", "decide"}
    BY <1>2 DEF MarketsIInv, TypeOK, Idle
  <2> QED
    BY <1>1, <1>3, <2>1, <2>2, <2>3 DEF MarketsIInv, TypeOK
<1>9. BetRows'
  BY <1>6, <1>7 DEF MarketsIInv, BetRows
<1>10. LedgerMatchesBets'
  <2> SUFFICES ASSUME NEW b \in Bets, b \notin Micros \/ b \notin raced'
               PROVE  ledger'[b] = Booked(b)'
    BY DEF LedgerMatchesBets
  <2>1. CASE b \in S
    <3>1. bet[b].status = "OPEN" /\ bet[b].payout = 0 /\ b \in Specials
      BY <1>1, <1>4, <2>1 DEF S, MarketsIInv, BetRows, Bets
    <3>2. ledger[b] = -1
      BY <3>1, ConstantsAssumption DEF MarketsIInv, LedgerMatchesBets, Booked
    <3> QED
      BY <1>6, <1>7, <2>1, <3>2 DEF Booked
  <2>2. CASE b \notin S
    BY <1>2, <1>7, <2>2 DEF MarketsIInv, LedgerMatchesBets, Booked
  <2> QED
    BY <2>1, <2>2
<1>11. PlacesOnce'
  <2> SUFFICES ASSUME NEW d \in Calls, call'[d].op = "place"
               PROVE  /\ bet'[call'[d].on].status = "ABSENT"
                      /\ \A e \in Calls : (e # d /\ call'[e].op = "place")
                                             => call'[e].on # call'[d].on
    BY DEF PlacesOnce
  <2>1. d # c /\ call'[d] = call[d] /\ call[d].on \in Bets
    BY <1>2, CallFacts DEF Idle, MarketsIInv
  <2>2. bet[call[d].on].status = "ABSENT"
    BY <2>1 DEF MarketsIInv, PlacesOnce
  <2> QED
    BY <1>2, <1>4, <1>7, <2>1, <2>2 DEF Idle, MarketsIInv, PlacesOnce
<1>12. SettlesRead'
  <2> SUFFICES ASSUME NEW d \in Calls, call'[d].op = "settle"
               PROVE  /\ bet'[call'[d].on].status # "ABSENT"
                      /\ call'[d].seen = bet'[call'[d].on].odds
                      /\ call'[d].on \notin raced' => bet'[call'[d].on].status = "OPEN"
    BY DEF SettlesRead
  <2>1. d # c /\ call'[d] = call[d] /\ call[d].on \in Micros
    BY <1>2, CallFacts DEF Idle, MarketsIInv
  <2>2. call[d].on \in Bets /\ call[d].on \notin S
    BY <1>1, <2>1, ConstantsAssumption DEF S, Bets
  <2> QED
    BY <1>2, <1>7, <2>1, <2>2 DEF MarketsIInv, SettlesRead
<1>13. \A d \in Calls : call'[d] = call[d] \/ call'[d].op = "idle"
  BY <1>2 DEF Idle
<1>14. PaysSelected'
  <2>1. \A d \in Calls : call'[d].op # "pay"
    BY <1>1, <1>2 DEF Idle, MarketsIInv, PaysSelected
  <2> QED
    BY <2>1 DEF PaysSelected
<1>15. ResolvesOpen'
  <2>1. ASSUME NEW d \in Calls, call'[d].op \in {"resolve", "pay"} PROVE "market" \in raced
    <3>1. d # c /\ call[d].op \in {"resolve", "pay"}
      BY <1>2, <2>1 DEF Idle
    <3> QED
      BY <1>1, <3>1, Overlaps DEF MarketsIInv
  <2> QED
    BY <1>2, <1>3, <2>1 DEF ResolvesOpen
<1>16. VerdictsMatchOutcome'
  <2> SUFFICES ASSUME "market" \notin raced, NEW b \in Specials, bet'[b].status \in {"WON", "LOST"}
               PROVE  bet'[b].status = "WON" <=> Pick[b] = market'.outcome
    BY <1>2 DEF VerdictsMatchOutcome
  <2>1. market.status = "OPEN"
    BY <1>1 DEF MarketsIInv, ResolvesOpen
  <2>2. b \in S
    BY <1>7, <2>1 DEF MarketsIInv, ResolvesOpen
  <2> QED
    BY <1>3, <1>6, <1>7, <2>2
<1>17. PlacedInTime'
  <2> SUFFICES ASSUME NEW d \in Calls, call'[d].op = "place", call'[d].on \in Specials
               PROVE  /\ call'[d].on \in raced'
                      /\ \A a \in Specials : (Slot[a] = Slot[call'[d].on]
                             /\ bet'[a].status = "OPEN") => Slot[a] \in raced'
    BY DEF PlacedInTime
  <2>1. d # c /\ call'[d] = call[d]
    BY <1>2 DEF Idle
  <2>2. call[d].on \in raced
    BY <1>1, <2>1, Overlaps DEF MarketsIInv
  <2>3. \A a \in Specials : bet'[a].status = "OPEN" => bet[a].status = "OPEN"
    BY <1>6, <1>7
  <2> QED
    BY <1>2, <2>1, <2>2, <2>3 DEF MarketsIInv, PlacedInTime
<1>18. DuelRead'
  BY <1>2, <1>3, <1>13 DEF MarketsIInv, DuelRead
<1>19. StrandedOnlyByRace' /\ OneOpenBetPerSlot'
  BY <1>2, <1>5, <1>6, <1>7 DEF MarketsIInv, StrandedOnlyByRace, OneOpenBetPerSlot
<1> QED
  BY <1>2, <1>8, <1>9, <1>10, <1>11, <1>12, <1>14, <1>15, <1>16, <1>17, <1>18, <1>19
  DEF MarketsIInv

\* A request ends without touching a bet or the market: an answer to the duel, its
\* decision, or an abort.
LEMMA OtherEndStep ==
  ASSUME MarketsIInv, NEW c \in Calls, Respond(c) \/ Decide(c) \/ Abort(c)
  PROVE  MarketsIInv'
<1>1. End(c) /\ UNCHANGED <<live, market, odds, bet, ledger>>
  BY DEF Respond, Decide, Abort
<1>2. /\ call'[c] = Idle /\ \A d \in Calls : d # c => call'[d] = call[d]
      /\ raced' = raced /\ OverlapsSeen' /\ CallTypes'
  BY <1>1, EndFacts DEF MarketsIInv
<1>3. \A d \in Calls : call'[d] = call[d] \/ call'[d].op = "idle"
  BY <1>2 DEF Idle
<1>4. TypeOK'
  <2>1. duel' \in [status : {"PENDING", "ACTIVE", "DONE"},
                   winner : {"nobody", "challenger", "opponent"}]
    BY CallFacts DEF Respond, Decide, Abort, MarketsIInv, TypeOK
  <2> QED
    BY <1>1, <1>3, <2>1 DEF MarketsIInv, TypeOK
<1>5. BetRows' /\ LedgerMatchesBets'
  BY <1>1, <1>2 DEF MarketsIInv, BetRows, LedgerMatchesBets, Booked
<1>6. PlacesOnce'
  BY <1>1, <1>3 DEF MarketsIInv, PlacesOnce
<1>7. SettlesRead'
  BY <1>1, <1>2, <1>3 DEF MarketsIInv, SettlesRead
<1>8. PaysSelected'
  BY <1>1, <1>2, <1>3 DEF MarketsIInv, PaysSelected
<1>9. ResolvesOpen' /\ VerdictsMatchOutcome'
  BY <1>1, <1>2, <1>3 DEF MarketsIInv, ResolvesOpen, VerdictsMatchOutcome
<1>10. PlacedInTime'
  BY <1>1, <1>2, <1>3 DEF MarketsIInv, PlacedInTime
<1>11. DuelRead'
  <2>1. CASE Abort(c)
    BY <1>2, <1>3, <2>1 DEF MarketsIInv, DuelRead, Abort
  <2>2. CASE Respond(c) \/ Decide(c)
    <3> SUFFICES ASSUME NEW d \in Calls, call'[d].op \in {"respond", "decide"}
                 PROVE  "duel" \in raced
      BY <1>2 DEF DuelRead
    <3>1. d # c /\ call[d].op \in {"respond", "decide"}
      BY <1>2 DEF Idle
    <3> QED
      BY <2>2, <3>1, Overlaps DEF MarketsIInv, Respond, Decide
  <2> QED
    BY <2>1, <2>2, <1>1
<1>12. StrandedOnlyByRace' /\ OneOpenBetPerSlot'
  BY <1>1, <1>2 DEF MarketsIInv, StrandedOnlyByRace, OneOpenBetPerSlot
<1> QED
  BY <1>2, <1>4, <1>5, <1>6, <1>7, <1>8, <1>9, <1>10, <1>11, <1>12 DEF MarketsIInv

\* The rest of the state does not read the match's status and the odds on offer.
LEMMA OfferStep ==
  ASSUME MarketsIInv, live' \in BOOLEAN,
         odds' \in [global : Odds, lobby : Odds \union {NoOdds}],
         UNCHANGED <<market, bet, ledger, duel, call, raced>>
  PROVE  MarketsIInv'
<1>1. TypeOK'
  BY DEF MarketsIInv, TypeOK
<1>2. CallTypes' /\ OverlapsSeen'
  BY DEF MarketsIInv, CallTypes, OverlapsSeen, RowsOf, Placing, Settling, Resolving,
         Responding, Deciding
<1>3. /\ BetRows' /\ PlacesOnce' /\ SettlesRead' /\ PaysSelected'
      /\ ResolvesOpen' /\ PlacedInTime' /\ DuelRead'
  BY DEF MarketsIInv, BetRows, PlacesOnce, SettlesRead, PaysSelected, ResolvesOpen,
         PlacedInTime, DuelRead
<1>4. /\ LedgerMatchesBets' /\ VerdictsMatchOutcome'
      /\ StrandedOnlyByRace' /\ OneOpenBetPerSlot'
  BY DEF MarketsIInv, LedgerMatchesBets, Booked, VerdictsMatchOutcome, StrandedOnlyByRace,
         OneOpenBetPerSlot
<1> QED
  BY <1>1, <1>2, <1>3, <1>4 DEF MarketsIInv

LEMMA MarketsStep == MarketsIInv /\ [Next]_vars => MarketsIInv'
<1> SUFFICES ASSUME MarketsIInv, [Next]_vars PROVE MarketsIInv'
  OBVIOUS
<1>1. ASSUME NEW c \in Calls, NEW b \in Bets, BeginMicro(c, b) PROVE MarketsIInv'
  <2>1. Found("place", b, "NONE", MicroOdds)
    BY <1>1, ConstantsAssumption DEF BeginMicro, Found
  <2> QED
    BY <1>1, <2>1, BeginStep DEF BeginMicro
<1>2. ASSUME NEW c \in Calls, NEW b \in Bets, BeginSpecial(c, b) PROVE MarketsIInv'
  <2>1. OddsFor(b) \in Nat
    BY ConstantsAssumption DEF OddsFor, MarketsIInv, TypeOK, NoOdds
  <2>2. Found("place", b, "NONE", OddsFor(b))
    BY <1>2, <2>1 DEF BeginSpecial, Found
  <2> QED
    BY <1>2, <2>2, BeginStep DEF BeginSpecial
<1>3. ASSUME NEW c \in Calls, NEW b \in Bets, NEW won \in BOOLEAN, BeginSettleMicro(c, b, won)
      PROVE  MarketsIInv'
  <2>1. Found("settle", b, won, bet[b].odds)
    BY <1>3 DEF BeginSettleMicro, Found, StillOpen, MarketsIInv, TypeOK
  <2> QED
    BY <1>3, <2>1, BeginStep DEF BeginSettleMicro
<1>4. ASSUME NEW c \in Calls, NEW o \in Outcomes, BeginResolve(c, o) PROVE MarketsIInv'
  <2>1. Found("resolve", "market", o, {})
    BY <1>4 DEF BeginResolve, Found, Unresolved, MarketsIInv, TypeOK
  <2> QED
    BY <1>4, <2>1, BeginStep DEF BeginResolve
<1>5. ASSUME NEW c \in Calls, NEW accept \in BOOLEAN, BeginRespond(c, accept)
      PROVE  MarketsIInv'
  <2>1. Found("respond", "duel", accept, {})
    BY <1>5 DEF BeginRespond, Found
  <2> QED
    BY <1>5, <2>1, BeginStep DEF BeginRespond
<1>6. ASSUME NEW c \in Calls, NEW w \in {"nobody", "challenger", "opponent"}, BeginDecide(c, w)
      PROVE  MarketsIInv'
  <2>1. Found("decide", "duel", w, {})
    BY <1>6 DEF BeginDecide, Found
  <2> QED
    BY <1>6, <2>1, BeginStep DEF BeginDecide
<1>7. ASSUME NEW c \in Calls,
             \/ Place(c) \/ SettleMicro(c) \/ LockMarket(c) \/ Resolve(c)
             \/ Respond(c) \/ Decide(c) \/ Abort(c)
      PROVE  MarketsIInv'
  BY <1>7, PlaceStep, SettleMicroStep, LockMarketStep, ResolveStep, OtherEndStep
<1>8. CASE MatchEnds
  BY <1>8, OfferStep DEF MatchEnds, MarketsIInv, TypeOK
<1>9. ASSUME NEW o \in Odds, SetSpecialOdds(o) \/ SetSpecialLobbyOdds(o) PROVE MarketsIInv'
  <2>1. odds' \in [global : Odds, lobby : Odds \union {NoOdds}]
    BY <1>9 DEF SetSpecialOdds, SetSpecialLobbyOdds, MarketsIInv, TypeOK
  <2>2. live' \in BOOLEAN
    BY <1>9 DEF SetSpecialOdds, SetSpecialLobbyOdds, MarketsIInv, TypeOK
  <2> QED
    BY <1>9, <2>1, <2>2, OfferStep DEF SetSpecialOdds, SetSpecialLobbyOdds
<1>10. CASE UNCHANGED vars
  BY <1>10, OfferStep DEF vars, MarketsIInv, TypeOK
<1> QED
  BY <1>1, <1>2, <1>3, <1>4, <1>5, <1>6, <1>7, <1>8, <1>9, <1>10 DEF Next

\* At the start no bet is placed and no request is under way.
LEMMA MarketsStart == Init => MarketsIInv
<1> SUFFICES ASSUME Init PROVE MarketsIInv
  OBVIOUS
<1>1. \A c \in Calls : call[c] = Idle /\ call[c].op = "idle"
  BY DEF Init, Idle
<1>2. \A b \in Bets : bet[b] = NoBet /\ ledger[b] = 0 /\ b \in Micros \union Specials
  BY DEF Init, Bets
<1>3. TypeOK
  BY <1>1, ConstantsAssumption DEF Init, TypeOK, NoBet
<1>4. CallTypes /\ OverlapsSeen
  BY <1>1 DEF Init, CallTypes, OverlapsSeen, RowsOf
<1>5. /\ BetRows /\ PlacesOnce /\ SettlesRead /\ PaysSelected
      /\ ResolvesOpen /\ PlacedInTime /\ DuelRead
  BY <1>1, <1>2 DEF Init, NoBet, BetRows, PlacesOnce, SettlesRead, PaysSelected, ResolvesOpen,
                    PlacedInTime, DuelRead, Bets
<1>6. LedgerMatchesBets /\ VerdictsMatchOutcome /\ StrandedOnlyByRace /\ OneOpenBetPerSlot
  BY <1>2 DEF Init, NoBet, LedgerMatchesBets, Booked, VerdictsMatchOutcome, StrandedOnlyByRace,
              OneOpenBetPerSlot, Bets
<1> QED
  BY <1>3, <1>4, <1>5, <1>6 DEF MarketsIInv

LEMMA MarketsInductive == Spec => []MarketsIInv
  BY MarketsStart, MarketsStep, PTL DEF Spec
-----------------------------------------------------------------------------
(* The theorems. *)

\* The STAKE and SETTLE rows of every bet add up to what its status says, whatever
\* requests of placeSpecialBet, resolveSpecialMarket, placeMicro and settleMicro overlap;
\* only two settleMicro of one bet can break this.
THEOREM LedgerSound == Spec => []LedgerMatchesBets
<1>1. MarketsIInv => LedgerMatchesBets
  BY DEF MarketsIInv
<1> QED
  BY <1>1, MarketsInductive, PTL

\* Overlapping requests of resolveSpecialMarket and placeSpecialBet are the only way to a
\* bet with another verdict than the market's outcome, an OPEN bet on a resolved market or
\* two OPEN bets of one user in one context.
THEOREM SpecialMarketSound == Spec => []MarketInv
<1>1. MarketsIInv => MarketInv
  BY DEF MarketsIInv, MarketInv
<1> QED
  BY <1>1, MarketsInductive, PTL

\* What a request does to the bets that exist and to the duel.
LEMMA BetsKeepOdds ==
  ASSUME MarketsIInv, [Next]_vars, NEW b \in Bets, bet[b].status # "ABSENT"
  PROVE  bet'[b].odds = bet[b].odds /\ (bet'[b].status = "WON" => bet'[b].payout = 1 + bet[b].odds)
<1>1. ASSUME NEW c \in Calls, Place(c) PROVE bet'[b] = bet[b]
  <2>1. call[c].on \in Bets /\ bet[call[c].on].status = "ABSENT"
    BY <1>1, CallFacts DEF Place, MarketsIInv, PlacesOnce
  <2> QED
    BY <1>1, <2>1 DEF Place, MarketsIInv, TypeOK
<1>2. ASSUME NEW c \in Calls, SettleMicro(c) PROVE bet'[b].odds = bet[b].odds
  <2>1. call[c].on \in Bets /\ call[c].seen = bet[call[c].on].odds
    BY <1>2, CallFacts DEF SettleMicro, MarketsIInv, SettlesRead, Bets
  <2> QED
    BY <1>2, <2>1 DEF SettleMicro, MarketsIInv, TypeOK, Verdict
<1>3. ASSUME NEW c \in Calls, Resolve(c) PROVE bet'[b].odds = bet[b].odds
  BY <1>3 DEF Resolve, Verdict, PayoutOdds
<1>4. bet'[b].odds = bet[b].odds
  <2>1. ASSUME ~\E c \in Calls : Place(c) \/ SettleMicro(c) \/ Resolve(c) PROVE bet' = bet
    BY <2>1 DEF Next, vars, BeginMicro, BeginSpecial, BeginSettleMicro, BeginResolve,
       BeginRespond, BeginDecide, LockMarket, Respond, Decide, Abort, MatchEnds,
       SetSpecialOdds, SetSpecialLobbyOdds
  <2> QED
    BY <1>1, <1>2, <1>3, <2>1
<1>5. BetRows'
  BY MarketsStep DEF MarketsIInv
<1> QED
  BY <1>4, <1>5 DEF BetRows

LEMMA DuelKeepsOutcome ==
  ASSUME MarketsIInv, [Next]_vars, duel.status = "DONE", "duel" \notin raced
  PROVE  duel' = duel
<1>1. \A c \in Calls : call[c].op # "respond" /\ call[c].op # "decide"
  BY DEF MarketsIInv, DuelRead
<1> QED
  BY <1>1 DEF Next, vars, BeginMicro, BeginSpecial, BeginSettleMicro, BeginResolve, BeginRespond,
     BeginDecide, LockMarket, Place, SettleMicro, Resolve, Respond, Decide, Abort, MatchEnds,
     SetSpecialOdds, SetSpecialLobbyOdds

\* A bet keeps the odds of its placing and is paid by them, whatever setSpecialOdds does
\* before resolveSpecialMarket reads it; and a decided duel stays decided unless
\* respondDuel or resolveDuel overlapped on it.
THEOREM PromisesKept == Spec => NothingRewritten
<1>1. MarketsIInv /\ [Next]_vars
        => [\A b \in Bets : bet[b].status # "ABSENT" =>
              /\ bet'[b].odds = bet[b].odds
              /\ bet'[b].status = "WON" => bet'[b].payout = 1 + bet[b].odds]_vars
  BY BetsKeepOdds
<1>2. MarketsIInv /\ [Next]_vars
        => [(duel.status = "DONE" /\ "duel" \notin raced) => duel' = duel]_vars
  BY DuelKeepsOutcome
<1> QED
  BY <1>1, <1>2, MarketsInductive, PTL DEF Spec, NothingRewritten, OddsFrozen, DuelFinal
=============================================================================
