------------------------------- MODULE Rewards -------------------------------
(***************************************************************************)
(* What a user may have once: the daily check-in and referrals             *)
(* (packages/auth/src/auth-service.ts), missions and power-ups             *)
(* (packages/prediction/src), cosmetics (packages/auth/src/cosmetics.ts)   *)
(* and a bet on one outcome of a match.                                    *)
(*                                                                         *)
(* A call is a request: it begins with its reads, and its commit is        *)
(* everything from its first row lock on.  What it reads after it has      *)
(* updated the user's wallet nobody else can change before the commit, so  *)
(* that belongs to the commit too; what it read before may be stale by     *)
(* then.  The balances themselves are the subject of module Wallet.        *)
(***************************************************************************)
EXTENDS Integers, FiniteSets

CONSTANTS
    Calls,    \* requests that may be under way together
    Users,    \* who may refer whom
    Missions,
    Items,    \* cosmetics of one kind
    MaxDay,   \* bound: days of a behaviour
    MaxStock  \* bound: power-ups bought

ASSUME ConstantsAssumption == MaxDay \in Nat \ {0} /\ MaxStock \in Nat

Days == 1..MaxDay
NoDay == -1
Idle == [op |-> "idle"]

VARIABLES
    day,       \* the calendar day (UTC+7)
    streak,    \* the Streak row: lastCheckinDate and checkinStreak
    complete,  \* the missions whose target is met today
    claimed,   \* the MissionProgress rows, each <<mission, day>>
    referrals, \* the Referral rows, each <<referrer, referee>>
    stock,     \* the PowerUp row's qty
    bets,      \* OPEN bets on the outcome
    owned,     \* UserCosmetic rows
    equipped,  \* those equipped
    call,      \* what each request is doing, and what it read
    checkins,  \* history: check-ins paid for each day
    rewards,   \* history: rewards paid for each mission and day
    bonuses,   \* history: referral bonuses paid to each user
    bought,    \* history: the power-ups paid for
    used,      \* history: the bets that carry a power-up
    purchases, \* history: the payments for each item
    raced      \* history: the operations two overlapping calls worked on

rows == <<streak, complete, claimed, referrals, stock, bets, owned, equipped>>
paid == <<checkins, rewards, bonuses, bought, used, purchases>>
vars == <<day, rows, call, paid, raced>>

\* This module's type invariant.
TypeOK ==
    /\ day \in Days
    /\ streak \in [last : Days \union {NoDay}, count : Nat]
    /\ complete \subseteq Missions /\ claimed \subseteq Missions \X Days
    /\ referrals \subseteq Users \X Users
    /\ stock \in Nat /\ bets \in Nat /\ {bought, used} \subseteq Nat
    /\ equipped \subseteq owned /\ owned \subseteq Items
    /\ checkins \in [Days -> Nat] /\ rewards \in [Missions \X Days -> Nat]
    /\ bonuses \in [Users -> Nat] /\ purchases \in [Items -> Nat]
    /\ raced \subseteq {"checkin", "bet", "equip"}

Init ==
    /\ day = 1 /\ streak = [last |-> NoDay, count |-> 0]
    /\ complete = {} /\ claimed = {} /\ referrals = {} /\ stock = 0 /\ bets = 0
    /\ owned = {} /\ equipped = {}
    /\ call = [c \in Calls |-> Idle]
    /\ checkins = [d \in Days |-> 0] /\ rewards = [m \in Missions \X Days |-> 0]
    /\ bonuses = [u \in Users |-> 0] /\ bought = 0 /\ used = 0
    /\ purchases = [i \in Items |-> 0]
    /\ raced = {}
-----------------------------------------------------------------------------
(* Calls. *)

Begin(c, op, on, seen) ==
    /\ call[c] = Idle
    /\ call' = [call EXCEPT ![c] = [op |-> op, on |-> on, seen |-> seen]]
    /\ raced' = IF op \in {"checkin", "bet", "equip"} /\ \E d \in Calls : call[d].op = op
                THEN raced \union {op} ELSE raced
    /\ UNCHANGED <<day, rows, paid>>

End(c) == call' = [call EXCEPT ![c] = Idle] /\ UNCHANGED <<day, raced>>

\* A request fails or its transaction aborts (a deadlock, a unique key, no power-up
\* left): nothing it did is seen.
Abort(c) == call[c] # Idle /\ End(c) /\ UNCHANGED <<rows, paid>>

\* A unique key refuses a second row.
KeyIgnored(key, existing) == TRUE
KeyFree(key, existing) == key \notin existing
-----------------------------------------------------------------------------
(* dailyCheckin. *)

CheckedInToday == streak.last = day
BeginCheckin(c) ==
    /\ ~CheckedInToday
    /\ Begin(c, "checkin", day, streak)

\* The day is the one on which the request began.
AnyStreak(seen, d) == seen.count + 1
NextStreak(seen, d) == IF seen.last = d - 1 THEN seen.count + 1 ELSE 1
Checkin(c) ==
    /\ call[c].op = "checkin"
    /\ LET d == call[c].on IN
       /\ streak' = [last |-> d, count |-> NextStreak(call[c].seen, d)]
       /\ checkins' = [checkins EXCEPT ![d] = @ + 1]
    /\ End(c)
    /\ UNCHANGED <<complete, claimed, referrals, stock, bets, owned, equipped,
                   rewards, bonuses, bought, used, purchases>>
-----------------------------------------------------------------------------
(* claimMission, redeemReferral. *)

BeginClaim(c, m) ==
    /\ m \in complete /\ <<m, day>> \notin claimed
    /\ Begin(c, "claim", <<m, day>>, {})

\* A progress row is only ever created by a claim: the second of two claims
\* creates it too, and fails.
Claim(c) ==
    /\ call[c].op = "claim" /\ KeyFree(call[c].on, claimed)
    /\ claimed' = claimed \union {call[c].on}
    /\ rewards' = [rewards EXCEPT ![call[c].on] = @ + 1]
    /\ End(c)
    /\ UNCHANGED <<streak, complete, referrals, stock, bets, owned, equipped,
                   checkins, bonuses, bought, used, purchases>>

Referees == {r[2] : r \in referrals}
BeginRedeem(c, referrer, referee) ==
    /\ referrer # referee /\ referee \notin Referees
    /\ Begin(c, "redeem", <<referrer, referee>>, {})

\* refereeId is unique; both users are credited in the transaction.
Redeem(c) ==
    /\ call[c].op = "redeem" /\ KeyFree(call[c].on[2], Referees)
    /\ referrals' = referrals \union {call[c].on}
    /\ bonuses' = [u \in Users |-> IF u \in {call[c].on[1], call[c].on[2]}
                                   THEN bonuses[u] + 1 ELSE bonuses[u]]
    /\ End(c)
    /\ UNCHANGED <<streak, complete, claimed, stock, bets, owned, equipped,
                   checkins, rewards, bought, used, purchases>>
-----------------------------------------------------------------------------
(* buyPowerUp, placeBet. *)

\* The inventory is read after the wallet is updated.
BuyPowerUp ==
    /\ bought < MaxStock
    /\ stock' = stock + 1 /\ bought' = bought + 1
    /\ UNCHANGED <<day, streak, complete, claimed, referrals, bets, owned, equipped,
                   call, checkins, rewards, bonuses, used, purchases, raced>>

\* placeBet finds no OPEN bet on the outcome before it updates the wallet.
NoGuard == TRUE
NoOpenBet == bets = 0
BeginBet(c, powerUp) ==
    /\ NoOpenBet
    /\ Begin(c, "bet", powerUp, stock)

\* consumePowerUp reads the inventory after placeBet has updated the wallet, which
\* keeps other bets and purchases of the user out.
ReadBefore(c) == call[c].seen
ReadAfter(c) == stock
PlaceBet(c) ==
    /\ call[c].op = "bet"
    /\ bets' = bets + 1
    /\ IF call[c].on THEN /\ ReadAfter(c) >= 1
                          /\ stock' = ReadAfter(c) - 1 /\ used' = used + 1
                     ELSE UNCHANGED <<stock, used>>
    /\ End(c)
    /\ UNCHANGED <<streak, complete, claimed, referrals, owned, equipped,
                   checkins, rewards, bonuses, bought, purchases>>
-----------------------------------------------------------------------------
(* buyCosmetic, equipCosmetic. *)

BeginBuy(c, i) == i \notin owned /\ Begin(c, "buy", i, {})

Buy(c) ==
    /\ call[c].op = "buy" /\ KeyFree(call[c].on, owned)
    /\ owned' = owned \union {call[c].on}
    /\ purchases' = [purchases EXCEPT ![call[c].on] = @ + 1]
    /\ End(c)
    /\ UNCHANGED <<streak, complete, claimed, referrals, stock, bets, equipped,
                   checkins, rewards, bonuses, bought, used>>

\* The statement that unequips the other items sees those equipped as it starts.
NoneSeen == {}
Unequipped == equipped
Owned(i) == i \in owned
BeginEquip(c, i) == Owned(i) /\ Begin(c, "equip", i, Unequipped)

Equip(c) ==
    /\ call[c].op = "equip"
    /\ equipped' = (equipped \ call[c].seen) \union {call[c].on}
    /\ End(c)
    /\ UNCHANGED <<streak, complete, claimed, referrals, stock, bets, owned, paid>>
-----------------------------------------------------------------------------
\* The user's bets complete a mission; progress is computed for the current day.
Complete(m) ==
    /\ complete' = complete \union {m}
    /\ UNCHANGED <<day, streak, claimed, referrals, stock, bets, owned, equipped,
                   call, paid, raced>>

Tick ==
    /\ day < MaxDay /\ day' = day + 1
    /\ complete' = {}
    /\ UNCHANGED <<streak, claimed, referrals, stock, bets, owned, equipped,
                   call, paid, raced>>

Next ==
    \/ \E c \in Calls :
        \/ BeginCheckin(c) \/ Checkin(c) \/ Claim(c) \/ Redeem(c) \/ PlaceBet(c)
        \/ Buy(c) \/ Equip(c) \/ Abort(c)
        \/ \E m \in Missions : BeginClaim(c, m)
        \/ \E r, e \in Users : BeginRedeem(c, r, e)
        \/ \E powerUp \in BOOLEAN : BeginBet(c, powerUp)
        \/ \E i \in Items : BeginBuy(c, i) \/ BeginEquip(c, i)
    \/ BuyPowerUp \/ Tick
    \/ \E m \in Missions : Complete(m)

Spec == Init /\ [][Next]_vars
-----------------------------------------------------------------------------
(* Properties. *)

RunLength(last) ==
    IF last = NoDay THEN 0
    ELSE last - CHOOSE d \in 0..last :
            /\ d = 0 \/ checkins[d] = 0
            /\ \A e \in (d + 1)..last : checkins[e] > 0

\* A day's check-in is paid once, and the streak is the number of days in a row up
\* to the last one, midnight between a request's read and its commit included,
\* unless two check-ins overlapped: only their reads keep them apart.
CheckinsMatchStreak ==
    "checkin" \notin raced =>
        /\ \A d \in Days : checkins[d] <= 1
        /\ streak.count = RunLength(streak.last)

Once(b) == IF b THEN 1 ELSE 0

\* However requests overlap, a mission of one day, a referee and a cosmetic item
\* are each paid for once, exactly when their row exists: a unique key stands
\* behind every read.
PaidByKey ==
    /\ \A k \in Missions \X Days : rewards[k] = Once(k \in claimed)
    /\ \A i \in Items : purchases[i] = Once(i \in owned)
    /\ \A u \in Users : bonuses[u] = Cardinality({r \in referrals : u \in {r[1], r[2]}})

\* However bets and purchases overlap, the inventory is what was bought less what
\* bets carry.
InventoryAddsUp == stock = bought - used

\* One outcome has two OPEN bets of one user only if they were placed at once: its
\* unique key does not hold for a NULL contextId.
OneBetPerOutcome == bets <= 1 \/ "bet" \in raced

\* One item of a kind is equipped, unless two were equipped at once: neither
\* request sees the item of the other.
OneEquipped == Cardinality(equipped) <= 1 \/ "equip" \in raced

\* What a unique key or the lock of the wallet's row guards, however requests overlap.
GuardedAlways == TypeOK /\ PaidByKey /\ InventoryAddsUp

\* What nothing but a read guards, as long as two requests of a kind do not overlap.
GuardedByReads == CheckinsMatchStreak /\ OneBetPerOutcome /\ OneEquipped
=============================================================================
