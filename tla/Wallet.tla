------------------------------- MODULE Wallet -------------------------------
(***************************************************************************)
(* One wallet row and the point ledger behind it, under the transactions   *)
(* that move points.  Every one of them has the same shape: SELECT the     *)
(* wallet, compute a new balance, UPDATE the wallet to that value and      *)
(* INSERT a ledger row, at READ COMMITTED and without SELECT ... FOR       *)
(* UPDATE.  Two transactions may therefore compute from the same balance.  *)
(***************************************************************************)
EXTENDS Integers

CONSTANTS
    Txs,        \* the transactions that may run (the bound of a model)
    Amounts,    \* the points one of them moves
    Start       \* the balance the wallet is created with, and its first ledger row

ASSUME WalletAssumption ==
    /\ Amounts \subseteq Nat \ {0}
    /\ Start \in Nat

\* The transactions' shapes: a stake or a purchase, a payout or a reward, the
\* reversal of a payout, and the settlement of a lost bet.
Kinds == {"spend", "earn", "clawback", "lose"}

VARIABLES
    balance,    \* the wallet row
    total,      \* the sum of the wallet's ledger rows
    lastAfter,  \* balance_after of the newest ledger row
    clawed,     \* whether a payout has been clawed back
    overlapped, \* whether two transactions have been in flight at once
    tx          \* tx[t]: where transaction t stands and the balance it selected

vars == <<balance, total, lastAfter, clawed, overlapped, tx>>

Row == [at : {"idle", "open", "over"}, kind : Kinds, amount : Nat, read : Int]
Idle == [at |-> "idle", kind |-> "spend", amount |-> 0, read |-> 0]
Over == [at |-> "over", kind |-> "spend", amount |-> 0, read |-> 0]

TypeOK ==
    /\ balance \in Int /\ total \in Int /\ lastAfter \in Int
    /\ clawed \in BOOLEAN /\ overlapped \in BOOLEAN
    /\ tx \in [Txs -> Row]

Init ==
    /\ balance = Start /\ total = Start /\ lastAfter = Start
    /\ clawed = FALSE /\ overlapped = FALSE
    /\ tx = [t \in Txs |-> Idle]

InFlight == {t \in Txs : tx[t].at = "open"}

\* The transaction begins and selects the wallet.
Select(t, kind, amount) ==
    /\ tx[t].at = "idle"
    /\ tx' = [tx EXCEPT ![t] =
                 [at |-> "open", kind |-> kind, amount |-> amount, read |-> balance]]
    /\ overlapped' = (overlapped \/ InFlight # {})
    /\ UNCHANGED <<balance, total, lastAfter, clawed>>

\* Transaction t updates the wallet, inserts its ledger row and commits.
Write(t, delta) ==
    /\ balance' = tx[t].read + delta
    /\ total' = total + delta
    /\ lastAfter' = tx[t].read + delta
    /\ tx' = [tx EXCEPT ![t] = Over]

\* Whether the balance that was read pays for the amount.
AffordableUnchecked(t) == TRUE
Affordable(t) == tx[t].read >= tx[t].amount

\* placeBet and the other stakes and purchases.
Spend(t) ==
    /\ tx[t].at = "open" /\ tx[t].kind = "spend"
    /\ Affordable(t)
    /\ Write(t, -tx[t].amount)
    /\ UNCHANGED <<clawed, overlapped>>

\* Payouts, bonuses, rewards and approved loans.
EarnWithoutRow(t) ==
    /\ tx[t].at = "open" /\ tx[t].kind = "earn"
    /\ balance' = tx[t].read + tx[t].amount
    /\ tx' = [tx EXCEPT ![t] = Over]
    /\ UNCHANGED <<total, lastAfter, clawed, overlapped>>
Earn(t) ==
    /\ tx[t].at = "open" /\ tx[t].kind = "earn"
    /\ Write(t, tx[t].amount)
    /\ UNCHANGED <<clawed, overlapped>>

\* resettleMatch takes a payout back without looking at the balance.
Clawback(t) ==
    /\ tx[t].at = "open" /\ tx[t].kind = "clawback"
    /\ Write(t, -tx[t].amount)
    /\ clawed' = TRUE
    /\ UNCHANGED overlapped

\* settleMatch inserts the ledger row of a lost bet and leaves the wallet alone.
Lose(t) ==
    /\ tx[t].at = "open" /\ tx[t].kind = "lose"
    /\ lastAfter' = tx[t].read
    /\ tx' = [tx EXCEPT ![t] = Over]
    /\ UNCHANGED <<balance, total, clawed, overlapped>>

\* The operation throws (INSUFFICIENT_BALANCE and every later error) or the
\* process dies: the transaction is rolled back.
Abort(t) ==
    /\ tx[t].at = "open"
    /\ tx' = [tx EXCEPT ![t] = Over]
    /\ UNCHANGED <<balance, total, lastAfter, clawed, overlapped>>

Next ==
    \E t \in Txs :
        \/ \E kind \in Kinds, amount \in Amounts : Select(t, kind, amount)
        \/ Spend(t)
        \/ Earn(t)
        \/ Clawback(t)
        \/ Lose(t)
        \/ Abort(t)

Spec == Init /\ [][Next]_vars
-----------------------------------------------------------------------------
(* Properties. *)

\* However many transactions overlap, a wallet goes below zero only through the
\* clawback of a re-settle, never through the stakes it accepted.
NegativeOnlyByClawback == balance < 0 => clawed

\* As long as the wallet's transactions have not overlapped, its balance is the
\* sum of its ledger rows and what the newest of them shows ("So du la tong hop /
\* balance_after cua ledger", docs/prd/14-data-model.md).
LedgerSumsToBalance == ~overlapped => balance = total
LastRowShowsBalance == ~overlapped => balance = lastAfter

\* The inductive strengthening of NegativeOnlyByClawback.
ReadsExplained == \A t \in Txs : tx[t].read < 0 => clawed
NonNegativeInv == TypeOK /\ ReadsExplained /\ NegativeOnlyByClawback

\* The inductive strengthening of the ledger's equalities: while nothing has
\* overlapped, the one transaction in flight read the current balance.
ReadsCurrent == \A t \in Txs : tx[t].at = "open" => tx[t].read = balance
AtMostOneOpen == \A t, u \in Txs : tx[t].at = "open" /\ tx[u].at = "open" => t = u
SerialInv ==
    /\ TypeOK
    /\ ~overlapped => ReadsCurrent /\ AtMostOneOpen
    /\ LedgerSumsToBalance
    /\ LastRowShowsBalance
=============================================================================
