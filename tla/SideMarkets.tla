----------------------------- MODULE SideMarkets -----------------------------
(***************************************************************************)
(* The markets beside the match market: micro bets on a live match         *)
(* (packages/prediction/src/micro.ts), one special market                  *)
(* (special-market.ts) and one duel (duel.ts).                             *)
(*                                                                         *)
(* A call is a request: it reads, and later commits what it computed from  *)
(* what it read; it may fail in between.  PostgreSQL runs the transactions *)
(* at READ COMMITTED, so only a row lock keeps two calls apart.  A bet's   *)
(* ledger is the sum of its STAKE and SETTLE rows (stake 1); what lost     *)
(* updates do to the wallets themselves is the subject of module Wallet.   *)
(***************************************************************************)
EXTENDS Integers

CONSTANTS
    Calls,    \* requests that may be under way together
    Micros,   \* micro bets users may place on the match
    Specials, \* bets users may place on the special market
    Slot,     \* Slot[b]: the user and context of special bet b
    Pick,     \* Pick[b]: its pick, YES or NO
    Lobby,    \* the special bets placed in the lobby
    Odds,     \* the odds an administrator or the lobby's host may set
    MicroOdds \* the fixed odds of the micro bets

ASSUME ConstantsAssumption ==
    /\ Micros \intersect Specials = {}
    /\ Pick \in [Specials -> {"YES", "NO"}] /\ Lobby \subseteq Specials
    /\ Odds \subseteq Nat /\ Odds # {} /\ MicroOdds \in Nat

Bets == Micros \union Specials
Outcomes == {"YES", "NO"}
NoOdds == -1
NoBet == [status |-> "ABSENT", odds |-> 0, payout |-> 0]
Idle == [op |-> "idle"]

VARIABLES
    live,      \* the match is LIVE
    market,    \* the special market's status and resolvedOutcome
    odds,      \* its odds (of either pick), the lobby's override or NoOdds
    bet,       \* bet[b]: status, odds snapshot and payout
    ledger,    \* ledger[b]: the sum of b's ledger rows
    duel,      \* the duel's status and winner
    call,      \* what each request is doing, and what it read
    raced      \* history: the rows two overlapping calls worked on

vars == <<live, market, odds, bet, ledger, duel, call, raced>>

\* This module's type invariant.
TypeOK ==
    /\ live \in BOOLEAN
    /\ market \in [status : {"OPEN", "RESOLVED"}, outcome : Outcomes \union {"NONE"}]
    /\ odds \in [global : Odds, lobby : Odds \union {NoOdds}]
    /\ bet \in [Bets -> [status : {"ABSENT", "OPEN", "WON", "LOST"},
                         odds : Nat, payout : Nat]]
    /\ ledger \in [Bets -> Int]
    /\ duel \in [status : {"PENDING", "ACTIVE", "DONE"},
                 winner : {"nobody", "challenger", "opponent"}]
    /\ \A c \in Calls : call[c].op \in {"idle", "place", "settle", "resolve", "pay",
                                       "respond", "decide"}

Init ==
    /\ live = TRUE
    /\ market = [status |-> "OPEN", outcome |-> "NONE"]
    /\ odds \in [global : Odds, lobby : {NoOdds}]
    /\ bet = [b \in Bets |-> NoBet] /\ ledger = [b \in Bets |-> 0]
    /\ duel = [status |-> "PENDING", winner |-> "nobody"]
    /\ call = [c \in Calls |-> Idle] /\ raced = {}
-----------------------------------------------------------------------------
(* Calls. *)

\* The rows a call works on: a bet and its slot, the market with every bet on it,
\* or the duel.
Rows(op, on) ==
    CASE op = "resolve" \/ op = "pay" -> Specials \union {"market"}
      [] op = "place" /\ on \in Specials -> {on, Slot[on]}
      [] op = "idle" -> {}
      [] OTHER -> {on}

RowsOf(c) == IF call[c] = Idle THEN {} ELSE Rows(call[c].op, call[c].on)

\* Request c starts working on a row, having read seen.
Begin(c, op, on, arg, seen) ==
    /\ call[c] = Idle
    /\ call' = [call EXCEPT ![c] = [op |-> op, on |-> on, arg |-> arg, seen |-> seen]]
    /\ raced' = raced \union UNION {Rows(op, on) \intersect RowsOf(d) : d \in Calls}

End(c) == call' = [call EXCEPT ![c] = Idle] /\ UNCHANGED raced

\* A request fails, or its transaction aborts: nothing it did is seen.
Abort(c) ==
    /\ call[c] # Idle
    /\ End(c)
    /\ UNCHANGED <<live, market, odds, bet, ledger, duel>>
-----------------------------------------------------------------------------
(* Placing bets. *)

\* Each bet of the model is requested once.
Unplaced(b) == /\ bet[b].status = "ABSENT"
               /\ \A d \in Calls : call[d].op = "place" => call[d].on # b

\* placeMicro reads the match before its transaction.
BeginMicro(c, b) ==
    /\ b \in Micros /\ Unplaced(b)
    /\ live
    /\ Begin(c, "place", b, "NONE", MicroOdds)
    /\ UNCHANGED <<live, market, odds, bet, ledger, duel>>

\* resolveSpecialOdds: the lobby's override, else the market's odds.
OddsFor(b) == IF b \in Lobby /\ odds.lobby # NoOdds THEN odds.lobby ELSE odds.global

\* placeSpecialBet finds the market OPEN and no OPEN bet of the same user and
\* context.
MarketUnread == TRUE
MarketOpen == market.status = "OPEN"
Unguarded(b) == TRUE
NoDuplicate(b) == \A x \in Specials : Slot[x] = Slot[b] => bet[x].status # "OPEN"
BeginSpecial(c, b) ==
    /\ b \in Specials /\ Unplaced(b)
    /\ MarketOpen
    /\ NoDuplicate(b)
    /\ Begin(c, "place", b, "NONE", OddsFor(b))
    /\ UNCHANGED <<live, market, odds, bet, ledger, duel>>

\* Either inserts the bet with the odds it read and books its stake.
Place(c) ==
    /\ call[c].op = "place"
    /\ bet' = [bet EXCEPT ![call[c].on] =
                  [status |-> "OPEN", odds |-> call[c].seen, payout |-> 0]]
    /\ ledger' = [ledger EXCEPT ![call[c].on] = @ - 1]
    /\ End(c)
    /\ UNCHANGED <<live, market, odds, duel>>
-----------------------------------------------------------------------------
(* Settling micro bets. *)

StillOpen(b) == bet[b].status = "OPEN"

\* settleMicro reads the bet and finds it OPEN.
BeginSettleMicro(c, b, won) ==
    /\ b \in Micros /\ StillOpen(b)
    /\ Begin(c, "settle", b, won, bet[b].odds)
    /\ UNCHANGED <<live, market, odds, bet, ledger, duel>>

Verdict(won, o) == [status |-> IF won THEN "WON" ELSE "LOST", odds |-> o,
                    payout |-> IF won THEN 1 + o ELSE 0]

SettleMicro(c) ==
    /\ call[c].op = "settle"
    /\ LET v == Verdict(call[c].arg, call[c].seen) IN
       /\ bet' = [bet EXCEPT ![call[c].on] = v]
       /\ ledger' = [ledger EXCEPT ![call[c].on] = @ + v.payout]
    /\ End(c)
    /\ UNCHANGED <<live, market, odds, duel>>
-----------------------------------------------------------------------------
(* Resolving the special market. *)

\* resolveSpecialMarket reads the market before its transaction.
AnyMarket == TRUE
Unresolved == market.status # "RESOLVED"
BeginResolve(c, outcome) ==
    /\ Unresolved
    /\ Begin(c, "resolve", "market", outcome, {})
    /\ UNCHANGED <<live, market, odds, bet, ledger, duel>>

\* It updates the market, waiting for a transaction that holds the row, and then
\* selects the OPEN bets.
RowShared == TRUE
RowFree == \A d \in Calls : call[d].op # "pay"
LockMarket(c) ==
    /\ call[c].op = "resolve" /\ RowFree
    /\ call' = [call EXCEPT ![c].op = "pay",
                            ![c].seen = {b \in Specials : bet[b].status = "OPEN"}]
    /\ UNCHANGED <<live, market, odds, bet, ledger, duel, raced>>

\* Each selected bet is settled at the odds it was placed with.
CurrentOdds(b) == OddsFor(b)
PayoutOdds(b) == bet[b].odds
Resolve(c) ==
    /\ call[c].op = "pay"
    /\ market' = [status |-> "RESOLVED", outcome |-> call[c].arg]
    /\ LET v == [b \in call[c].seen |-> Verdict(Pick[b] = call[c].arg, PayoutOdds(b))] IN
       /\ bet' = [b \in Bets |-> IF b \in call[c].seen THEN v[b] ELSE bet[b]]
       /\ ledger' = [b \in Bets |-> IF b \in call[c].seen THEN ledger[b] + v[b].payout
                                    ELSE ledger[b]]
    /\ End(c)
    /\ UNCHANGED <<live, odds, duel>>
-----------------------------------------------------------------------------
(* Duels. *)

Answerable == duel.status # "ACTIVE"
Pending == duel.status = "PENDING"

BeginRespond(c, accept) ==
    /\ Pending
    /\ Begin(c, "respond", "duel", accept, {})
    /\ UNCHANGED <<live, market, odds, bet, ledger, duel>>

Respond(c) ==
    /\ call[c].op = "respond"
    /\ duel' = [duel EXCEPT !.status = IF call[c].arg THEN "ACTIVE" ELSE "DONE"]
    /\ End(c)
    /\ UNCHANGED <<live, market, odds, bet, ledger>>

\* resolveDuel reads the duel and both players' bets; either may lead, or none.
BeginDecide(c, winner) ==
    /\ duel.status = "ACTIVE"
    /\ Begin(c, "decide", "duel", winner, {})
    /\ UNCHANGED <<live, market, odds, bet, ledger, duel>>

Decide(c) ==
    /\ call[c].op = "decide"
    /\ duel' = [status |-> "DONE", winner |-> call[c].arg]
    /\ End(c)
    /\ UNCHANGED <<live, market, odds, bet, ledger>>
-----------------------------------------------------------------------------
(* Single statements. *)

MatchEnds == live /\ live' = FALSE
             /\ UNCHANGED <<market, odds, bet, ledger, duel, call, raced>>

SetSpecialOdds(o) == odds' = [odds EXCEPT !.global = o]
                     /\ UNCHANGED <<live, market, bet, ledger, duel, call, raced>>

SetSpecialLobbyOdds(o) == odds' = [odds EXCEPT !.lobby = o]
                          /\ UNCHANGED <<live, market, bet, ledger, duel, call, raced>>
-----------------------------------------------------------------------------
Next ==
    \/ \E c \in Calls :
        \/ \E b \in Bets : BeginMicro(c, b) \/ BeginSpecial(c, b)
        \/ \E b \in Bets, won \in BOOLEAN : BeginSettleMicro(c, b, won)
        \/ \E o \in Outcomes : BeginResolve(c, o)
        \/ \E accept \in BOOLEAN : BeginRespond(c, accept)
        \/ \E w \in {"nobody", "challenger", "opponent"} : BeginDecide(c, w)
        \/ Place(c) \/ SettleMicro(c) \/ LockMarket(c) \/ Resolve(c)
        \/ Respond(c) \/ Decide(c) \/ Abort(c)
    \/ MatchEnds
    \/ \E o \in Odds : SetSpecialOdds(o) \/ SetSpecialLobbyOdds(o)

Spec == Init /\ [][Next]_vars
-----------------------------------------------------------------------------
Booked(b) == IF bet[b].status = "ABSENT" THEN 0 ELSE bet[b].payout - 1

\* The ledger holds each bet's stake and its payout once: always for special
\* bets, whose resolutions queue up at the market's row; for a micro bet unless two
\* settlements of it overlapped, which nothing keeps apart.
LedgerMatchesBets ==
    \A b \in Bets : (b \in Micros /\ b \in raced) \/ ledger[b] = Booked(b)

\* A settled special bet got the verdict of the outcome the market shows, unless
\* two resolutions overlapped: the later one then leaves its outcome on bets the
\* earlier one paid.
VerdictsMatchOutcome ==
    "market" \notin raced =>
        \A b \in Specials : bet[b].status \in {"WON", "LOST"} =>
            (bet[b].status = "WON" <=> Pick[b] = market.outcome)

\* A bet left OPEN on the resolved market was being placed while the market was
\* being resolved; nothing settles it any more.
StrandedOnlyByRace ==
    market.status = "RESOLVED" =>
        \A b \in Specials : bet[b].status = "OPEN" => b \in raced

\* One user has two OPEN bets in one context only if they were placed at once.
OneOpenBetPerSlot ==
    \A a, b \in Specials :
        (a # b /\ Slot[a] = Slot[b] /\ bet[a].status = "OPEN" /\ bet[b].status = "OPEN")
            => Slot[a] \in raced

\* A winning bet pays the odds in force when it was placed, whatever odds were set
\* since; the odds of a placed bet never change.
OddsFrozen ==
    [][\A b \in Bets : bet[b].status # "ABSENT" =>
          /\ bet'[b].odds = bet[b].odds
          /\ bet'[b].status = "WON" => bet'[b].payout = 1 + bet[b].odds]_vars

\* A duel that is DONE keeps its outcome, unless two calls on it overlapped: a late
\* answer can then reopen a decided duel.
DuelFinal ==
    [][(duel.status = "DONE" /\ "duel" \notin raced) => duel' = duel]_vars

\* The special market: no overlap of requests gives a bet a verdict that its odds, its
\* outcome and its place in time do not explain.
MarketInv == TypeOK /\ VerdictsMatchOutcome /\ StrandedOnlyByRace /\ OneOpenBetPerSlot

\* What was promised and what was decided is not rewritten.
NothingRewritten == OddsFrozen /\ DuelFinal
=============================================================================
