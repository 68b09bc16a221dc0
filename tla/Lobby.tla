------------------------------- MODULE Lobby --------------------------------
(***************************************************************************)
(* One private lobby after createLobby: its host, its members with their   *)
(* lobby wallets, and their loans (packages/lobby/src/lobby-service.ts).   *)
(*                                                                         *)
(* A call first checks who may do what, outside any transaction; a call    *)
(* that moves points then begins a transaction, reads the wallet, and      *)
(* writes everything at its commit.  Other calls run between these steps.  *)
(***************************************************************************)
EXTENDS Integers

CONSTANTS
    Users,      \* the people who may join
    Founder,    \* the one who created the lobby
    Calls,      \* the calls that may be made (the bound of a model)
    Requests,   \* the borrow requests that may be filed
    Points,     \* the amounts of points a call moves
    DefaultPoints, \* what a member's lobby wallet starts with
    None        \* no user: a request not filed, a call not made

ASSUME LobbyAssumption ==
    /\ Founder \in Users
    /\ None \notin Users \union Requests
    /\ Points \subseteq Nat \ {0}
    /\ DefaultPoints \in Nat

VARIABLES
    owner,     \* the ownerId column
    role,      \* role[u]: the role in u's membership row, "none" without a row
    wallet,    \* the users with a wallet row for this lobby
    balance,   \* balance[u]: that row's balance
    borrowed,  \* borrowed[u]: the membership's debt
    winnings,  \* winnings[u]: the sum of u's STAKE and SETTLE ledger rows
    adjusted,  \* adjusted[u]: the sum of u's ADMIN_ADJ ledger rows
    borrower,  \* borrower[r]: the member who filed request r
    loan,      \* loan[r]: the points it asks for
    status,    \* status[r]: PENDING, APPROVED or DENIED
    credits,   \* credits[r]: how many times r's points were credited
    at,        \* at[c]: where call c stands
    op,        \* op[c]: what c does
    by,        \* by[c]: the host who makes it
    who,       \* who[c]: the member it is about
    req,       \* req[c]: the request it decides
    points,    \* points[c]: the points it moves
    read,      \* read[c]: the balance its transaction read
    crossed,   \* whether a transferHost committed while a kickMember of the new host was on
    collided,  \* the users two of whose wallet transactions overlapped
    redecided  \* the requests two of whose decisions overlapped

rows == <<role, wallet, borrowed>>
money == <<balance, winnings, adjusted>>
loans == <<borrower, loan, status, credits>>
args == <<op, by, who, req, points>>
ghosts == <<crossed, collided, redecided>>
vars == <<owner, rows, money, loans, args, at, read, ghosts>>

HostOps == {"transfer", "kick"}
MoneyOps == {"approve", "adjust", "bet", "settle"}
Ops == HostOps \union MoneyOps \union {"deny"}

TypeOK ==
    /\ owner \in Users
    /\ role \in [Users -> {"none", "MEMBER", "OWNER"}]
    /\ wallet \in SUBSET Users
    /\ balance \in [Users -> Int] /\ borrowed \in [Users -> Nat]
    /\ winnings \in [Users -> Int] /\ adjusted \in [Users -> Int]
    /\ borrower \in [Requests -> Users \union {None}]
    /\ loan \in [Requests -> Nat]
    /\ status \in [Requests -> {"PENDING", "APPROVED", "DENIED"}]
    /\ credits \in [Requests -> Nat]
    /\ at \in [Calls -> {"idle", "checked", "read", "over"}]
    /\ op \in [Calls -> Ops]
    /\ by \in [Calls -> Users] /\ who \in [Calls -> Users]
    /\ req \in [Calls -> Requests \union {None}]
    /\ points \in [Calls -> Int] /\ read \in [Calls -> Int]
    /\ crossed \in BOOLEAN /\ collided \in SUBSET Users
    /\ redecided \in SUBSET Requests

\* createLobby: the founder's membership, wallet and first ledger row.
Init ==
    /\ owner = Founder
    /\ role = [u \in Users |-> IF u = Founder THEN "OWNER" ELSE "none"]
    /\ wallet = {Founder}
    /\ balance = [u \in Users |-> IF u = Founder THEN DefaultPoints ELSE 0]
    /\ borrowed = [u \in Users |-> 0]
    /\ winnings = [u \in Users |-> 0] /\ adjusted = [u \in Users |-> 0]
    /\ borrower = [r \in Requests |-> None] /\ loan = [r \in Requests |-> 0]
    /\ status = [r \in Requests |-> "PENDING"]
    /\ credits = [r \in Requests |-> 0]
    /\ at = [c \in Calls |-> "idle"] /\ op = [c \in Calls |-> "deny"]
    /\ by = [c \in Calls |-> Founder] /\ who = [c \in Calls |-> Founder]
    /\ req = [c \in Calls |-> None]
    /\ points = [c \in Calls |-> 0] /\ read = [c \in Calls |-> 0]
    /\ crossed = FALSE /\ collided = {} /\ redecided = {}
-----------------------------------------------------------------------------
(* Operations of one step. *)

IsMember(u) == role[u] # "none"

\* joinLobby: the unique keys of the membership and of the wallet row let a
\* user in once; a member who was kicked still has the wallet row.
JoinUpsert(u) ==
    /\ ~IsMember(u)
    /\ role' = [role EXCEPT ![u] = "MEMBER"]
    /\ wallet' = wallet \union {u}
    /\ balance' = [balance EXCEPT ![u] = DefaultPoints]
    /\ borrowed' = [borrowed EXCEPT ![u] = 0]
    /\ UNCHANGED <<owner, winnings, adjusted, loans, args, at, read, ghosts>>
Join(u) ==
    /\ ~IsMember(u) /\ u \notin wallet
    /\ role' = [role EXCEPT ![u] = "MEMBER"]
    /\ wallet' = wallet \union {u}
    /\ balance' = [balance EXCEPT ![u] = DefaultPoints]
    /\ borrowed' = [borrowed EXCEPT ![u] = 0]
    /\ UNCHANGED <<owner, winnings, adjusted, loans, args, at, read, ghosts>>

\* requestBorrow.
RequestBorrow(u, r, n) ==
    /\ borrower[r] = None
    /\ IsMember(u)
    /\ borrower' = [borrower EXCEPT ![r] = u]
    /\ loan' = [loan EXCEPT ![r] = n]
    /\ UNCHANGED <<owner, rows, money, status, credits, args, at, read, ghosts>>
-----------------------------------------------------------------------------
(* Calls of several steps: the checks, the transaction's reads, the commit. *)

Checked(c, operation, h, u, r, n) ==
    /\ at[c] = "idle"
    /\ at' = [at EXCEPT ![c] = "checked"]
    /\ op' = [op EXCEPT ![c] = operation]
    /\ by' = [by EXCEPT ![c] = h]
    /\ who' = [who EXCEPT ![c] = u]
    /\ req' = [req EXCEPT ![c] = r]
    /\ points' = [points EXCEPT ![c] = n]
    /\ UNCHANGED <<owner, rows, money, loans, read, ghosts>>

\* transferHost and kickMember check the caller and the target.
CallTransfer(c, h, u) ==
    /\ owner = h /\ IsMember(u)
    /\ Checked(c, "transfer", h, u, None, 0)

MayKickAnyone(h, u) == owner = h /\ IsMember(u)
MayKick(h, u) == owner = h /\ u # h /\ IsMember(u)
CallKick(c, h, u) ==
    /\ MayKick(h, u)
    /\ Checked(c, "kick", h, u, None, 0)

\* The borrow-requests route checks that the caller hosts a lobby, which need not be the
\* request's, then calls decideBorrow.
CallDecide(c, h, r, approve) ==
    /\ borrower[r] # None
    /\ Checked(c, IF approve THEN "approve" ELSE "deny", h, borrower[r], r, loan[r])

\* adjustMemberPoints, and placeLobbyBet, whose match and odds checks and
\* whose search for the same bet can only refuse the call.
CallAdjust(c, h, u, n) ==
    /\ owner = h /\ IsMember(u)
    /\ Checked(c, "adjust", h, u, None, n)
CallBet(c, u, n) ==
    /\ IsMember(u)
    /\ Checked(c, "bet", u, u, None, -n)

\* A match of the user's lobby bets is settled or re-settled: its transaction
\* looks at no membership.
CallSettle(c, u, n) ==
    /\ u \in wallet
    /\ Checked(c, "settle", u, u, None, n)

\* The transaction begins and reads the request and the wallet.
AnyStatus(c) == TRUE
Pending(c) == status[req[c]] = "PENDING"
Reading(c) == at[c] = "read"
Begin(c) ==
    /\ at[c] = "checked" /\ op[c] \notin HostOps
    /\ op[c] \in {"approve", "deny"} => Pending(c)
    /\ op[c] = "approve" => IsMember(who[c])
    /\ at' = [at EXCEPT ![c] = "read"]
    /\ read' = [read EXCEPT ![c] = balance[who[c]]]
    /\ collided' = IF /\ op[c] \in MoneyOps
                      /\ \E d \in Calls : Reading(d) /\ op[d] \in MoneyOps /\ who[d] = who[c]
                   THEN collided \union {who[c]} ELSE collided
    /\ redecided' = IF /\ op[c] \in {"approve", "deny"}
                       /\ \E d \in Calls : Reading(d) /\ req[d] = req[c]
                    THEN redecided \union {req[c]} ELSE redecided
    /\ UNCHANGED <<owner, rows, money, loans, args, crossed>>
-----------------------------------------------------------------------------
(* Commits. *)

Over(c) == at' = [at EXCEPT ![c] = "over"] /\ UNCHANGED <<args, read, collided, redecided>>
End(c) == Over(c) /\ UNCHANGED crossed

\* A kickMember of u has been checked and is still to commit.
KickPending(u) == \E c \in Calls : at[c] = "checked" /\ op[c] = "kick" /\ who[c] = u

\* transferHost: the lobby's owner, then the new owner's role, then the old
\* one's.  A membership that is gone makes the transaction throw.
Transfer(c) ==
    /\ at[c] = "checked" /\ op[c] = "transfer"
    /\ IsMember(who[c]) /\ IsMember(by[c])
    /\ owner' = who[c]
    /\ role' = [role EXCEPT ![who[c]] = "OWNER", ![by[c]] = "MEMBER"]
    /\ crossed' = (crossed \/ KickPending(who[c]))
    /\ Over(c)
    /\ UNCHANGED <<wallet, borrowed, money, loans>>

\* kickMember deletes the membership row.
Kick(c) ==
    /\ at[c] = "checked" /\ op[c] = "kick"
    /\ IsMember(who[c])
    /\ role' = [role EXCEPT ![who[c]] = "none"]
    /\ End(c)
    /\ UNCHANGED <<owner, wallet, borrowed, money, loans>>

\* A transaction that moves points writes the balance it computed from its read.
Pay(c) == balance' = [balance EXCEPT ![who[c]] = read[c] + points[c]]

\* The debt is incremented in place.
BorrowOverwrites(c) == borrowed' = [borrowed EXCEPT ![who[c]] = points[c]]
Borrow(c) == borrowed' = [borrowed EXCEPT ![who[c]] = @ + points[c]]

\* decideBorrow approves: the update of the membership throws if it is gone.
Approve(c) ==
    /\ at[c] = "read" /\ op[c] = "approve"
    /\ IsMember(who[c])
    /\ Pay(c)
    /\ Borrow(c)
    /\ credits' = [credits EXCEPT ![req[c]] = @ + 1]
    /\ status' = [status EXCEPT ![req[c]] = "APPROVED"]
    /\ End(c)
    /\ UNCHANGED <<owner, role, wallet, winnings, adjusted, borrower, loan>>

\* decideBorrow declines.
Deny(c) ==
    /\ at[c] = "read" /\ op[c] = "deny"
    /\ status' = [status EXCEPT ![req[c]] = "DENIED"]
    /\ End(c)
    /\ UNCHANGED <<owner, rows, money, borrower, loan, credits>>

\* adjustMemberPoints leaves no balance below zero.
Adjust(c) ==
    /\ at[c] = "read" /\ op[c] = "adjust"
    /\ read[c] + points[c] >= 0
    /\ Pay(c)
    /\ adjusted' = [adjusted EXCEPT ![who[c]] = @ + points[c]]
    /\ End(c)
    /\ UNCHANGED <<owner, rows, winnings, loans>>

\* placeLobbyBet takes the stake, a settlement pays or claws back.
Play(c) ==
    /\ at[c] = "read" /\ op[c] \in {"bet", "settle"}
    /\ op[c] = "bet" => read[c] + points[c] >= 0
    /\ Pay(c)
    /\ winnings' = [winnings EXCEPT ![who[c]] = @ + points[c]]
    /\ End(c)
    /\ UNCHANGED <<owner, rows, adjusted, loans>>

\* The call throws, or its process dies: nothing is written.
Fail(c) ==
    /\ at[c] \in {"checked", "read"}
    /\ End(c)
    /\ UNCHANGED <<owner, rows, money, loans>>

Next ==
    \/ \E u \in Users : Join(u)
    \/ \E u \in Users, r \in Requests, n \in Points : RequestBorrow(u, r, n)
    \/ \E c \in Calls, h, u \in Users : CallTransfer(c, h, u) \/ CallKick(c, h, u)
    \/ \E c \in Calls, h \in Users, r \in Requests, approve \in BOOLEAN :
          CallDecide(c, h, r, approve)
    \/ \E c \in Calls, h, u \in Users, n \in Points :
          CallAdjust(c, h, u, n) \/ CallAdjust(c, h, u, -n)
    \/ \E c \in Calls, u \in Users, n \in Points :
          CallBet(c, u, n) \/ CallSettle(c, u, n) \/ CallSettle(c, u, -n)
    \/ \E c \in Calls :
          \/ Begin(c)
          \/ Transfer(c)
          \/ Kick(c)
          \/ Approve(c)
          \/ Deny(c)
          \/ Adjust(c)
          \/ Play(c)
          \/ Fail(c)

Spec == Init /\ [][Next]_vars
-----------------------------------------------------------------------------
(* Properties. *)

\* The lobby's owner is one of its members, and so its points can be adjusted
\* and its next host chosen -- unless a kickMember of the new
\* host, checked before a transferHost, was still to commit after it.
OwnerIsMember == crossed \/ IsMember(owner)

\* "actual spendable lobby wallet (default + winnings + borrowed + adjustments)"
\* (LobbyStanding): what getLobbyStanding shows adds up for every member none of
\* whose wallet transactions overlapped.
StandingAddsUp ==
    \A u \in Users \ collided :
        IsMember(u) =>
            balance[u] = DefaultPoints + winnings[u] + borrowed[u] + adjusted[u]

\* A request's points are credited once if it ends up approved and never if it
\* ends up denied, unless the host decided it twice at the same time.
LoanFollowsDecision ==
    \A r \in Requests \ redecided :
        credits[r] = IF status[r] = "APPROVED" THEN 1 ELSE 0

\* Whoever is kicked stays out: the wallet row that the kick leaves behind makes
\* every later joinLobby fail.
KickedStaysOut == [][\A u \in wallet : ~IsMember(u) => ~IsMember(u)']_vars
-----------------------------------------------------------------------------
(* The inductive strengthenings of the properties. *)

\* Until then nobody is about to kick the owner.
HostInv == crossed \/ (IsMember(owner) /\ ~KickPending(owner))

\* The users behind memberships, requests and money calls have a wallet row,
\* and nothing has moved for the others.
WalletRows ==
    /\ \A u \in Users : IsMember(u) => u \in wallet
    /\ \A u \in Users : u \notin wallet => winnings[u] = 0 /\ adjusted[u] = 0
    /\ \A r \in Requests : borrower[r] # None => borrower[r] \in wallet
    /\ \A c \in Calls : at[c] \in {"checked", "read"} /\ op[c] \in MoneyOps => who[c] \in wallet

\* While no transactions on a user's wallet overlapped, the one in flight read
\* its current balance.
MoneyCall(c, u) == Reading(c) /\ op[c] \in MoneyOps /\ who[c] = u
OneMoneyCall ==
    \A c, d \in Calls, u \in Users \ collided : MoneyCall(c, u) /\ MoneyCall(d, u) => c = d
ReadCurrent == \A c \in Calls, u \in Users \ collided : MoneyCall(c, u) => read[c] = balance[u]
WalletAddsUp ==
    \A u \in wallet \ collided :
        balance[u] = DefaultPoints + winnings[u] + borrowed[u] + adjusted[u]

\* While a request was not decided twice at once, the decision in flight found
\* it pending.
DecisionCall(c, r) == Reading(c) /\ op[c] \in {"approve", "deny"} /\ req[c] = r
DecisionSound ==
    \A c \in Calls : op[c] \in {"approve", "deny"} /\ at[c] # "idle" =>
        req[c] \in Requests /\ points[c] \in Nat
OthersNameNone == \A c \in Calls : op[c] \notin {"approve", "deny"} => req[c] = None
OneDecision ==
    \A c, d \in Calls, r \in Requests \ redecided :
        DecisionCall(c, r) /\ DecisionCall(d, r) => c = d
DecisionPending ==
    \A c \in Calls, r \in Requests \ redecided : DecisionCall(c, r) => status[r] = "PENDING"
=============================================================================
