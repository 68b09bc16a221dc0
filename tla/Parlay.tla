------------------------------- MODULE Parlay -------------------------------
(***************************************************************************)
(* Parlays: placeParlay and settleParlays of                               *)
(* packages/prediction/src/parlay.ts.  A parlay names an outcome for two   *)
(* or more matches and pays once every one of them has come true.          *)
(*                                                                         *)
(* settleMatch runs settleParlays after its own transaction has committed, *)
(* so a call here starts with that commit (module Settlement models what   *)
(* happens inside it).  Each parlay found is then settled in a transaction *)
(* of its own; its reads are separate steps and its writes take effect at  *)
(* the commit.  What it reads are the match rows as they stand, and the    *)
(* feeds write those too: before a settlement, behind it and between two   *)
(* reads.  The points are counted in module Wallet: here a payout is the   *)
(* fact that a parlay was credited.                                        *)
(***************************************************************************)
EXTENDS Integers, FiniteSets

CONSTANTS
    Matches, Outcomes, Parlays,
    Calls,        \* the processes that run settleMatch: worker jobs, admin requests
    None,         \* no leg, no result to settle by, no match or parlay at hand
    MayCrash      \* whether a call may die or its transaction fail

ASSUME ParlayAssumption ==
    /\ None \notin Outcomes \union Matches \union Parlays
    /\ MayCrash \in BOOLEAN

VARIABLES
    result,   \* result[m]: result90 of match m's row while it is FINISHED, else None
    pick,     \* pick[p][m]: the outcome of p's leg on m, or None
    leg,      \* leg[p][m]: result of that ParlayLeg row
    status,   \* status[p]: the Parlay row, ABSENT or CHECKED before it is inserted
    credits,  \* credits[p]: SETTLE ledger rows that refer to p
    at,       \* at[c]: where call c stands
    on,       \* on[c]: the match it settled
    todo,     \* todo[c]: the parlays it has still to visit
    cur,      \* cur[c]: the parlay its transaction is about
    read,     \* read[c][m]: result of cur[c]'s leg on m, as far as read
    mine,     \* mine[c]: the legs its transaction resolves
    settled,  \* the matches whose row has stayed FINISHED since a settlement (history)
    late,     \* the parlays inserted while one of their matches was settled (history)
    shared,   \* the parlays a call found while another one had them to visit (history)
    failed,   \* whether a call has failed (history)
    was       \* was[m]: the results the row of match m has shown as FINISHED (history)

rows == <<pick, leg, status, credits>>
call == <<at, on, todo, cur, read, mine>>
history == <<settled, late, shared, failed, was>>
vars == <<result, rows, call, history>>

Result == Outcomes \union {None}
LegResult == {"PENDING", "WON", "LOST"}
Verdicts == {"WON", "LOST"}

TypeOK ==
    /\ result \in [Matches -> Result]
    /\ pick \in [Parlays -> [Matches -> Result]]
    /\ leg \in [Parlays -> [Matches -> LegResult]]
    /\ status \in [Parlays -> {"ABSENT", "CHECKED", "OPEN"} \union Verdicts]
    /\ credits \in [Parlays -> Nat]
    /\ at \in [Calls -> {"idle", "find", "next", "tx"}]
    /\ on \in [Calls -> Matches \union {None}]
    /\ todo \in [Calls -> SUBSET Parlays]
    /\ cur \in [Calls -> Parlays \union {None}]
    /\ read \in [Calls -> [Matches -> LegResult \union {"unread"}]]
    /\ mine \in [Calls -> SUBSET Matches]
    /\ settled \in SUBSET Matches
    /\ late \in SUBSET Parlays
    /\ shared \in SUBSET Parlays
    /\ failed \in BOOLEAN
    /\ was \in [Matches -> SUBSET Outcomes]

Unread == [m \in Matches |-> "unread"]

Init ==
    /\ result = [m \in Matches |-> None]
    /\ pick = [p \in Parlays |-> [m \in Matches |-> None]]
    /\ leg = [p \in Parlays |-> [m \in Matches |-> "PENDING"]]
    /\ status = [p \in Parlays |-> "ABSENT"]
    /\ credits = [p \in Parlays |-> 0]
    /\ at = [c \in Calls |-> "idle"]
    /\ on = [c \in Calls |-> None]
    /\ todo = [c \in Calls |-> {}]
    /\ cur = [c \in Calls |-> None]
    /\ read = [c \in Calls |-> Unread]
    /\ mine = [c \in Calls |-> {}]
    /\ settled = {}
    /\ late = {}
    /\ shared = {}
    /\ failed = FALSE
    /\ was = [m \in Matches |-> {}]

Legs(p) == {m \in Matches : pick[p][m] # None}
Placed(p) == status[p] \notin {"ABSENT", "CHECKED"}

\* Call c leaves its transaction, with the parlays of rest still to visit.
Leave(c, rest) ==
    /\ at' = [at EXCEPT ![c] = IF rest = {} THEN "idle" ELSE "next"]
    /\ on' = [on EXCEPT ![c] = IF rest = {} THEN None ELSE @]
    /\ todo' = [todo EXCEPT ![c] = rest]
    /\ cur' = [cur EXCEPT ![c] = None]
    /\ read' = [read EXCEPT ![c] = Unread]
    /\ mine' = [mine EXCEPT ![c] = {}]
-----------------------------------------------------------------------------
(* placeParlay. *)

\* The transaction has read every leg's match and found it SCHEDULED.
CheckParlay(p, picks) ==
    /\ status[p] = "ABSENT"
    /\ Cardinality({m \in Matches : picks[m] # None}) >= 2
    /\ \A m \in Matches : picks[m] # None => result[m] = None
    /\ pick' = [pick EXCEPT ![p] = picks]
    /\ status' = [status EXCEPT ![p] = "CHECKED"]
    /\ UNCHANGED <<result, leg, credits, call, history>>

\* It commits the stake, the Parlay row and its PENDING legs.
InsertParlay(p) ==
    /\ status[p] = "CHECKED"
    /\ status' = [status EXCEPT ![p] = "OPEN"]
    /\ late' = IF Legs(p) \intersect settled # {} THEN late \union {p} ELSE late
    /\ UNCHANGED <<result, pick, leg, credits, call, settled, shared, failed, was>>
-----------------------------------------------------------------------------
(* The feeds. *)

\* The full sync, the live poll, the one-match sync or the live-score route writes the row of
\* match m as the provider has it: FINISHED with a result before any settlement, with another
\* one behind it, or (r = None) no longer FINISHED.
FeedWrites(m, r) ==
    /\ r # result[m]
    /\ result' = [result EXCEPT ![m] = r]
    /\ was' = [was EXCEPT ![m] = IF r = None THEN @ ELSE @ \union {r}]
    /\ settled' = IF r = None THEN settled \ {m} ELSE settled
    /\ UNCHANGED <<rows, call, late, shared, failed>>
-----------------------------------------------------------------------------
(* settleMatch and the settleParlays it ends with. *)

\* The settlement of match m with result r commits, whatever its row said before:
\* the first one, or one of a re-settle, which has removed the Settlement row that refuses all others.  A
\* retried job finds the row and returns before settleParlays: it changes nothing.
CommitMatch(c, m, r) ==
    /\ at[c] = "idle"
    /\ result' = [result EXCEPT ![m] = r]
    /\ was' = [was EXCEPT ![m] = @ \union {r}]
    /\ at' = [at EXCEPT ![c] = "find"]
    /\ on' = [on EXCEPT ![c] = m]
    /\ settled' = settled \union {m}
    /\ UNCHANGED <<rows, todo, cur, read, mine, late, shared, failed>>

\* The OPEN parlays with a leg on the match, outside any transaction.
Found(c) == {p \in Parlays : status[p] = "OPEN" /\ on[c] \in Legs(p)}
FindOpen(c) ==
    /\ at[c] = "find"
    /\ Leave(c, Found(c))
    /\ shared' = shared \union {p \in Found(c) : \E d \in Calls \ {c} : p \in todo[d]}
    /\ UNCHANGED <<result, rows, settled, late, failed, was>>

\* A transaction opens for the next parlay and reads its legs; a leg that is
\* already resolved is carried forward.
ReadLegs(c, p) ==
    /\ at[c] = "next"
    /\ p \in todo[c]
    /\ at' = [at EXCEPT ![c] = "tx"]
    /\ cur' = [cur EXCEPT ![c] = p]
    /\ read' = [read EXCEPT ![c] =
                   [m \in Matches |-> IF leg[p][m] = "PENDING" THEN "unread" ELSE leg[p][m]]]
    /\ mine' = [mine EXCEPT ![c] = {}]
    /\ UNCHANGED <<result, rows, on, todo, history>>

\* What a leg that picked o is worth under result r.
LegOutcome(o, r) == IF o = r THEN "WON" ELSE "LOST"

ToRead(c) == {m \in Legs(cur[c]) : read[c][m] = "unread"}

\* The transaction reads the match of a PENDING leg and resolves the leg if the
\* match is FINISHED.
Resolve(c, m) ==
    /\ read' = [read EXCEPT ![c][m] = LegOutcome(pick[cur[c]][m], result[m])]
    /\ mine' = [mine EXCEPT ![c] = @ \union {m}]
KeepPending(c, m) ==
    /\ read' = [read EXCEPT ![c][m] = "PENDING"]
    /\ UNCHANGED mine
ReadMatchOwnOnly(c, m) ==
    /\ at[c] = "tx"
    /\ m \in ToRead(c)
    /\ IF m # on[c] THEN KeepPending(c, m) ELSE Resolve(c, m)
    /\ UNCHANGED <<result, rows, at, on, todo, cur, history>>
ReadMatch(c, m) ==
    /\ at[c] = "tx"
    /\ m \in ToRead(c)
    /\ IF result[m] = None THEN KeepPending(c, m) ELSE Resolve(c, m)
    /\ UNCHANGED <<result, rows, at, on, todo, cur, history>>

\* The parlay's outcome: any lost leg loses it, all resolved win it.
HasLost(c) == \E m \in Legs(cur[c]) : read[c][m] = "LOST"
AllResolvedSome(c) == \E m \in Legs(cur[c]) : read[c][m] # "PENDING"
AllResolved(c) == \A m \in Legs(cur[c]) : read[c][m] # "PENDING"
Verdict(c) ==
    IF HasLost(c) THEN "LOST" ELSE IF AllResolved(c) THEN "WON" ELSE status[cur[c]]

\* Whether this commit credits the wallet.
CreditsResolved(c) == AllResolved(c)
Credits(c) == AllResolved(c) /\ ~HasLost(c)

\* The transaction commits; the call goes on to its next parlay.
CommitParlay(c) ==
    /\ at[c] = "tx"
    /\ ToRead(c) = {}
    /\ leg' = [leg EXCEPT ![cur[c]] =
                  [m \in Matches |-> IF m \in mine[c] THEN read[c][m] ELSE @[m]]]
    /\ status' = [status EXCEPT ![cur[c]] = Verdict(c)]
    /\ credits' = [credits EXCEPT ![cur[c]] = IF Credits(c) THEN @ + 1 ELSE @]
    /\ Leave(c, todo[c] \ {cur[c]})
    /\ UNCHANGED <<result, pick, history>>

\* The process dies, or the transaction at hand fails (a lost connection, a
\* deadlock of two transactions on the same legs): settleMatch throws, and the
\* parlays that are left are not visited.
Fail(c) ==
    /\ MayCrash
    /\ at[c] # "idle"
    /\ Leave(c, {})
    /\ failed' = TRUE
    /\ UNCHANGED <<result, rows, settled, late, shared, was>>

Settling(c) ==
    \/ FindOpen(c)
    \/ \E p \in Parlays : ReadLegs(c, p)
    \/ \E m \in Matches : ReadMatch(c, m)
    \/ CommitParlay(c)

Next ==
    \/ \E p \in Parlays, picks \in [Matches -> Result] : CheckParlay(p, picks)
    \/ \E p \in Parlays : InsertParlay(p)
    \/ \E m \in Matches, r \in Result : FeedWrites(m, r)
    \/ \E c \in Calls, m \in Matches, r \in Outcomes : CommitMatch(c, m, r)
    \/ \E c \in Calls : Settling(c)
    \/ \E c \in Calls : Fail(c)

Spec == Init /\ [][Next]_vars
-----------------------------------------------------------------------------
(* Properties. *)

\* A parlay is WON only if every leg's outcome is a result that its match's row has shown
\* as FINISHED, and LOST only if some leg's match has shown another result, whichever calls
\* resolved the legs, in what order, and whoever wrote the rows meanwhile.
VerdictFollowsResults ==
    \A p \in Parlays :
        /\ status[p] = "WON" => \A m \in Legs(p) : pick[p][m] \in was[m]
        /\ status[p] = "LOST" => \E m \in Legs(p) : was[m] \ {pick[p][m]} # {}

\* The row of a match of parlay p has shown two results: a re-settle, or the feed, corrected it.
Corrected(p) == \E m \in Legs(p) : \E r, s \in was[m] : r # s

\* A parlay is credited exactly once if it is WON and never otherwise, unless two calls worked
\* on it at a time.  Even then every parlay that is WON has been credited, and every parlay
\* that has been credited is WON, unless a correction made the other call lose it.
CreditedIffWon ==
    \A p \in Parlays :
        /\ p \notin shared => credits[p] = IF status[p] = "WON" THEN 1 ELSE 0
        /\ status[p] = "WON" => credits[p] > 0
        /\ credits[p] > 0 => status[p] = "WON" \/ Corrected(p)

\* A verdict is final: a call that read the parlay before another one settled it
\* does not take the verdict back, unless a match was corrected between their reads.
VerdictFinal ==
    [][\A p \in Parlays : status[p] \in Verdicts =>
          status'[p] = status[p] \/ (Corrected(p) /\ p \in shared)]_vars

\* An OPEN parlay whose matches have all been settled, and whose rows have stayed FINISHED
\* since, has a call that will still settle it, although each of two simultaneous settlements
\* may have read the other's leg as pending.  Only a call that failed, or a parlay inserted
\* behind a settlement, is an exception.
AtWorkOn(c, p) ==
    \/ at[c] = "find" /\ on[c] \in Legs(p)
    \/ at[c] \in {"next", "tx"} /\ p \in todo[c]
NoParlayForgotten ==
    \A p \in Parlays :
        status[p] = "OPEN" /\ p \notin late /\ ~failed /\ Legs(p) \subseteq settled
            => \E c \in Calls : AtWorkOn(c, p)

\* The inductive strengthening of the verdicts: a leg row, and a leg a transaction
\* holds in memory, is resolved only by a result its match has shown; a parlay that
\* is not shared is OPEN while the one call that found it has it to visit; the parlays a
\* call works on are placed; a parlay not yet placed has no credit and no resolved leg.
ResultWas ==
    \A m \in Matches :
        /\ result[m] # None => result[m] \in was[m]
        /\ m \in settled => result[m] # None
SoleCaller ==
    \A p \in Parlays \ shared, c \in Calls : p \in todo[c] =>
        status[p] = "OPEN" /\ \A d \in Calls : p \in todo[d] => d = c
LegsFollowResults ==
    \A p \in Parlays, m \in Matches :
        leg[p][m] # "PENDING" => \E r \in was[m] : leg[p][m] = LegOutcome(pick[p][m], r)
ReadsFollowResults ==
    \A c \in Calls : at[c] = "tx" =>
        \A m \in Matches :
            /\ read[c][m] \in Verdicts =>
                  \E r \in was[m] : read[c][m] = LegOutcome(pick[cur[c]][m], r)
            /\ m \in mine[c] => read[c][m] \in Verdicts
WorkIsPlaced ==
    \A c \in Calls :
        /\ \A p \in todo[c] : Placed(p)
        /\ at[c] = "tx" => cur[c] \in todo[c]
UnplacedPending ==
    \A p \in Parlays :
        ~Placed(p) => credits[p] = 0 /\ \A m \in Matches : leg[p][m] = "PENDING"
ParlayInv ==
    /\ TypeOK
    /\ ResultWas
    /\ SoleCaller
    /\ LegsFollowResults
    /\ ReadsFollowResults
    /\ WorkIsPlaced
    /\ UnplacedPending
    /\ VerdictFollowsResults
    /\ CreditedIffWon

\* The inductive strengthening of NoParlayForgotten: the call at work has not read
\* a leg as pending, so its commit decides the parlay.
HasLegs == \A p \in Parlays : status[p] # "ABSENT" => Legs(p) # {}
WillDecide(c, p) ==
    /\ AtWorkOn(c, p)
    /\ at[c] = "tx" /\ cur[c] = p => \A m \in Legs(p) : read[c][m] # "PENDING"
StillDeciding ==
    \A p \in Parlays :
        status[p] = "OPEN" /\ p \notin late /\ ~failed /\ Legs(p) \subseteq settled
            => \E c \in Calls : WillDecide(c, p)
DecidingInv == HasLegs /\ StillDeciding
=============================================================================
