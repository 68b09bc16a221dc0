---------------------------- MODULE LobbyProofs -----------------------------
(***************************************************************************)
(* Theorems about a private lobby, for any number of users, calls and      *)
(* borrow requests, and about the risk engine's scans of the lobbies.      *)
(***************************************************************************)
EXTENDS Lobby, RiskFlags, FiniteSetTheorems, SequenceTheorems, TLAPS

USE DEF HostOps, MoneyOps, Ops

CallsInv == TypeOK /\ DecisionSound /\ OthersNameNone

\* A call that is checked is recorded, and nothing else changes.
LEMMA CheckedTypes ==
  ASSUME CallsInv, NEW c \in Calls, NEW operation \in Ops, NEW h \in Users, NEW u \in Users,
         NEW r \in Requests \union {None}, NEW n \in Int,
         Checked(c, operation, h, u, r, n),
         IF operation \in {"approve", "deny"} THEN r \in Requests /\ n \in Nat ELSE r = None
  PROVE  CallsInv'
<1>1. /\ at' \in [Calls -> {"idle", "checked", "read", "over"}]
      /\ op' \in [Calls -> Ops] /\ by' \in [Calls -> Users] /\ who' \in [Calls -> Users]
      /\ req' \in [Calls -> Requests \union {None}] /\ points' \in [Calls -> Int]
  BY DEF CallsInv, TypeOK, Checked
<1>2. UNCHANGED <<owner, rows, money, loans, read, ghosts>>
  BY DEF Checked
<1>3. TypeOK'
  BY <1>1, <1>2 DEF CallsInv, TypeOK, rows, money, loans, ghosts
<1>4. \A d \in Calls : d # c =>
          at'[d] = at[d] /\ op'[d] = op[d] /\ req'[d] = req[d] /\ points'[d] = points[d]
  BY DEF CallsInv, TypeOK, Checked
<1>5. op'[c] = operation /\ req'[c] = r /\ points'[c] = n
  BY DEF CallsInv, TypeOK, Checked
<1>6. DecisionSound'
  BY <1>4, <1>5 DEF CallsInv, DecisionSound
<1>7. OthersNameNone'
  BY <1>4, <1>5 DEF CallsInv, OthersNameNone
<1> QED
  BY <1>3, <1>6, <1>7 DEF CallsInv

\* A step that leaves the arguments alone and starts no call keeps what is said
\* of them.
LEMMA SameArgs ==
  ASSUME CallsInv, UNCHANGED args, \A c \in Calls : at[c] = "idle" => at'[c] = "idle"
  PROVE  DecisionSound' /\ OthersNameNone'
  BY DEF CallsInv, DecisionSound, OthersNameNone, args

\* The last step of a call.
LEMMA EndTypes ==
  ASSUME CallsInv, NEW c \in Calls, at[c] # "idle", Over(c)
  PROVE  /\ at' \in [Calls -> {"idle", "checked", "read", "over"}]
         /\ DecisionSound' /\ OthersNameNone'
<1>1. at' \in [Calls -> {"idle", "checked", "read", "over"}]
  BY DEF CallsInv, TypeOK, Over
<1>2. \A d \in Calls : at[d] = "idle" => at'[d] = "idle"
  BY DEF CallsInv, TypeOK, Over
<1> QED
  BY <1>1, <1>2, SameArgs DEF Over

\* Every action keeps the types.
LEMMA TypeStep == CallsInv /\ [Next]_vars => CallsInv'
<1> SUFFICES ASSUME CallsInv, [Next]_vars PROVE CallsInv'
  OBVIOUS
<1> USE LobbyAssumption
<1>1. ASSUME NEW u \in Users, Join(u) PROVE CallsInv'
  <2>1. TypeOK'
    BY <1>1 DEF Join, CallsInv, TypeOK, loans, args, ghosts
  <2> QED
    BY <1>1, <2>1, SameArgs DEF Join, CallsInv
<1>2. ASSUME NEW u \in Users, NEW r \in Requests, NEW n \in Points, RequestBorrow(u, r, n)
      PROVE  CallsInv'
  <2>1. TypeOK'
    BY <1>2 DEF RequestBorrow, CallsInv, TypeOK, rows, money, args, ghosts
  <2> QED
    BY <1>2, <2>1, SameArgs DEF RequestBorrow, CallsInv
<1>3. ASSUME NEW c \in Calls, NEW h \in Users, NEW u \in Users, CallTransfer(c, h, u)
      PROVE  CallsInv'
  BY <1>3, CheckedTypes DEF CallTransfer
<1>4. ASSUME NEW c \in Calls, NEW h \in Users, NEW u \in Users, CallKick(c, h, u)
      PROVE  CallsInv'
  BY <1>4, CheckedTypes DEF CallKick
<1>5. ASSUME NEW c \in Calls, NEW h \in Users, NEW r \in Requests, NEW approve \in BOOLEAN,
             CallDecide(c, h, r, approve)
      PROVE  CallsInv'
  <2>1. borrower[r] \in Users /\ loan[r] \in Nat
    BY <1>5 DEF CallDecide, CallsInv, TypeOK
  <2>2. CASE approve
    <3>1. Checked(c, "approve", h, borrower[r], r, loan[r])
      BY <1>5, <2>2 DEF CallDecide
    <3> QED
      BY <2>1, <3>1, CheckedTypes
  <2>3. CASE ~approve
    <3>1. Checked(c, "deny", h, borrower[r], r, loan[r])
      BY <1>5, <2>3 DEF CallDecide
    <3> QED
      BY <2>1, <3>1, CheckedTypes
  <2> QED
    BY <2>2, <2>3
<1>6. ASSUME NEW c \in Calls, NEW h \in Users, NEW u \in Users, NEW n \in Int,
             CallAdjust(c, h, u, n)
      PROVE  CallsInv'
  BY <1>6, CheckedTypes DEF CallAdjust
<1>7. ASSUME NEW c \in Calls, NEW u \in Users, NEW n \in Points, CallBet(c, u, n)
      PROVE  CallsInv'
  <2>1. -n \in Int
    OBVIOUS
  <2> QED
    BY <1>7, <2>1, CheckedTypes DEF CallBet
<1>8. ASSUME NEW c \in Calls, NEW u \in Users, NEW n \in Int, CallSettle(c, u, n)
      PROVE  CallsInv'
  BY <1>8, CheckedTypes DEF CallSettle
<1>9. ASSUME NEW c \in Calls, Begin(c) PROVE CallsInv'
  <2>1. /\ at' \in [Calls -> {"idle", "checked", "read", "over"}]
        /\ read' \in [Calls -> Int]
    BY <1>9 DEF Begin, CallsInv, TypeOK
  <2>2. collided' \in SUBSET Users
    BY <1>9 DEF Begin, CallsInv, TypeOK
  <2>3. redecided' \in SUBSET Requests
    BY <1>9 DEF Begin, CallsInv, TypeOK, DecisionSound
  <2>4. TypeOK'
    BY <1>9, <2>1, <2>2, <2>3 DEF Begin, CallsInv, TypeOK, rows, money, loans, args
  <2>5. \A d \in Calls : at[d] = "idle" => at'[d] = "idle"
    BY <1>9 DEF Begin, CallsInv, TypeOK
  <2> QED
    BY <1>9, <2>4, <2>5, SameArgs DEF Begin, CallsInv
<1>10. ASSUME NEW c \in Calls, Transfer(c) PROVE CallsInv'
  <2>1. at' \in [Calls -> {"idle", "checked", "read", "over"}] /\ DecisionSound' /\ OthersNameNone'
    BY <1>10, EndTypes DEF Transfer
  <2>2. TypeOK'
    BY <1>10, <2>1 DEF Transfer, End, Over, CallsInv, TypeOK, money, loans, args, ghosts
  <2> QED
    BY <2>1, <2>2 DEF CallsInv
<1>11. ASSUME NEW c \in Calls, Kick(c) PROVE CallsInv'
  <2>1. at' \in [Calls -> {"idle", "checked", "read", "over"}] /\ DecisionSound' /\ OthersNameNone'
    BY <1>11, EndTypes DEF Kick, End
  <2>2. TypeOK'
    BY <1>11, <2>1 DEF Kick, End, Over, CallsInv, TypeOK, money, loans, args, ghosts
  <2> QED
    BY <2>1, <2>2 DEF CallsInv
<1>12. ASSUME NEW c \in Calls, Approve(c) PROVE CallsInv'
  <2>1. at' \in [Calls -> {"idle", "checked", "read", "over"}] /\ DecisionSound' /\ OthersNameNone'
    BY <1>12, EndTypes DEF Approve, End
  <2>2. points[c] \in Nat /\ read[c] + points[c] \in Int /\ req[c] \in Requests
    BY <1>12 DEF Approve, CallsInv, TypeOK, DecisionSound
  <2>3. balance' \in [Users -> Int] /\ borrowed' \in [Users -> Nat]
    BY <1>12, <2>2 DEF Approve, Pay, Borrow, CallsInv, TypeOK
  <2>4. credits' \in [Requests -> Nat] /\ status' \in [Requests -> {"PENDING", "APPROVED", "DENIED"}]
    BY <1>12, <2>2 DEF Approve, CallsInv, TypeOK
  <2>5. TypeOK'
    BY <1>12, <2>1, <2>3, <2>4 DEF Approve, End, Over, CallsInv, TypeOK, args, ghosts
  <2> QED
    BY <2>1, <2>5 DEF CallsInv
<1>13. ASSUME NEW c \in Calls, Deny(c) PROVE CallsInv'
  <2>1. at' \in [Calls -> {"idle", "checked", "read", "over"}] /\ DecisionSound' /\ OthersNameNone'
    BY <1>13, EndTypes DEF Deny, End
  <2>2. TypeOK'
    BY <1>13, <2>1 DEF Deny, End, Over, CallsInv, TypeOK, rows, money, args, ghosts
  <2> QED
    BY <2>1, <2>2 DEF CallsInv
<1>14. ASSUME NEW c \in Calls, Adjust(c) PROVE CallsInv'
  <2>1. at' \in [Calls -> {"idle", "checked", "read", "over"}] /\ DecisionSound' /\ OthersNameNone'
    BY <1>14, EndTypes DEF Adjust, End
  <2>2. balance' \in [Users -> Int] /\ adjusted' \in [Users -> Int]
    BY <1>14 DEF Adjust, Pay, CallsInv, TypeOK
  <2>3. TypeOK'
    BY <1>14, <2>1, <2>2 DEF Adjust, End, Over, CallsInv, TypeOK, rows, loans, args, ghosts
  <2> QED
    BY <2>1, <2>3 DEF CallsInv
<1>15. ASSUME NEW c \in Calls, Play(c) PROVE CallsInv'
  <2>1. at' \in [Calls -> {"idle", "checked", "read", "over"}] /\ DecisionSound' /\ OthersNameNone'
    BY <1>15, EndTypes DEF Play, End
  <2>2. balance' \in [Users -> Int] /\ winnings' \in [Users -> Int]
    BY <1>15 DEF Play, Pay, CallsInv, TypeOK
  <2>3. TypeOK'
    BY <1>15, <2>1, <2>2 DEF Play, End, Over, CallsInv, TypeOK, rows, loans, args, ghosts
  <2> QED
    BY <2>1, <2>3 DEF CallsInv
<1>16. ASSUME NEW c \in Calls, Fail(c) PROVE CallsInv'
  <2>1. at' \in [Calls -> {"idle", "checked", "read", "over"}] /\ DecisionSound' /\ OthersNameNone'
    BY <1>16, EndTypes DEF Fail, End
  <2>2. TypeOK'
    BY <1>16, <2>1 DEF Fail, End, Over, CallsInv, TypeOK, rows, money, loans, args, ghosts
  <2> QED
    BY <2>1, <2>2 DEF CallsInv
<1>17. CASE UNCHANGED vars
  BY <1>17 DEF CallsInv, TypeOK, DecisionSound, OthersNameNone, vars, rows, money, loans, args, ghosts
<1>18. \A n \in Points : n \in Int /\ -n \in Int
  OBVIOUS
<1> QED
  BY <1>1, <1>2, <1>3, <1>4, <1>5, <1>6, <1>7, <1>8, <1>9, <1>10, <1>11, <1>12, <1>13,
     <1>14, <1>15, <1>16, <1>17, <1>18 DEF Next

\* The types and the calls' arguments are right in every state.
LEMMA CallsAlways == Spec => []CallsInv
<1>1. Init => CallsInv
  <2> SUFFICES ASSUME Init PROVE CallsInv
    OBVIOUS
  <2>1. crossed \in BOOLEAN /\ owner \in Users
    BY LobbyAssumption DEF Init
  <2>2. DefaultPoints \in Int /\ Founder \in Users
    BY LobbyAssumption
  <2>3. TypeOK
    BY <2>1, <2>2 DEF Init, TypeOK
  <2> QED
    BY <2>3 DEF Init, CallsInv, DecisionSound, OthersNameNone
<1> QED
  BY <1>1, TypeStep, PTL DEF Spec

\* Every row, ledger sum and call keeps its type.
THEOREM TypeCorrect == Spec => []TypeOK
<1>1. CallsInv => TypeOK
  BY DEF CallsInv
<1> QED
  BY <1>1, CallsAlways, PTL
-----------------------------------------------------------------------------
(* The host. *)

\* A step that checks no kick of the owner and changes neither the owner nor anyone's
\* membership keeps HostInv.
LEMMA HostFrame ==
  ASSUME HostInv, owner' = owner, crossed' = crossed,
         \A u \in Users : IsMember(u) => IsMember(u)', owner \in Users,
         KickPending(owner)' => KickPending(owner)
  PROVE  HostInv'
  BY DEF HostInv

\* A call starts, and if it is a kick, it is not the owner's.
LEMMA HostStart ==
  ASSUME CallsInv, HostInv, NEW c \in Calls, NEW operation \in Ops, NEW h, NEW u,
         NEW r, NEW n, Checked(c, operation, h, u, r, n), operation = "kick" => u # owner
  PROVE  HostInv'
<1>1. owner' = owner /\ role' = role /\ crossed' = crossed
  BY DEF Checked, rows, ghosts
<1>2. op'[c] = operation /\ who'[c] = u
  BY DEF Checked, CallsInv, TypeOK
<1>3. \A d \in Calls : d # c => at'[d] = at[d] /\ op'[d] = op[d] /\ who'[d] = who[d]
  BY DEF Checked, CallsInv, TypeOK
<1>4. KickPending(owner)' => KickPending(owner)
  BY <1>1, <1>2, <1>3 DEF KickPending
<1>5. owner \in Users /\ \A v \in Users : IsMember(v) => IsMember(v)'
  BY <1>1 DEF CallsInv, TypeOK, IsMember
<1> QED
  BY <1>1, <1>4, <1>5, HostFrame

\* A call that is over is no kick that is still to commit.
LEMMA OverKicks ==
  ASSUME CallsInv, NEW c \in Calls, Over(c), NEW u
  PROVE  KickPending(u)' =>
             \E d \in Calls \ {c} : at[d] = "checked" /\ op[d] = "kick" /\ who[d] = u
<1>1. at'[c] = "over" /\ UNCHANGED <<op, who>> /\ \A d \in Calls \ {c} : at'[d] = at[d]
  BY DEF Over, args, CallsInv, TypeOK
<1> QED
  BY <1>1 DEF KickPending

\* The last step of a call that leaves the host and the members alone.
LEMMA HostEnd ==
  ASSUME CallsInv, HostInv, NEW c \in Calls, End(c), owner' = owner, role' = role
  PROVE  HostInv'
<1>1. crossed' = crossed /\ Over(c)
  BY DEF End
<1>2. KickPending(owner)' => KickPending(owner)
  BY <1>1, OverKicks DEF KickPending
<1>3. owner \in Users /\ \A u \in Users : IsMember(u) => IsMember(u)'
  BY DEF CallsInv, TypeOK, IsMember
<1> QED
  BY <1>1, <1>2, <1>3, HostFrame

\* Every action keeps HostInv.
LEMMA HostStep == CallsInv /\ HostInv /\ [Next]_vars => HostInv'
<1> SUFFICES ASSUME CallsInv, HostInv, [Next]_vars PROVE HostInv'
  OBVIOUS
<1>0. owner \in Users
  BY DEF CallsInv, TypeOK
<1>1. ASSUME NEW u \in Users, Join(u) PROVE HostInv'
  <2>1. \A v \in Users : IsMember(v) => IsMember(v)'
    BY <1>1 DEF Join, IsMember, CallsInv, TypeOK
  <2>2. KickPending(owner)' => KickPending(owner)
    BY <1>1 DEF Join, KickPending, args
  <2> QED
    BY <1>0, <1>1, <2>1, <2>2, HostFrame DEF Join, ghosts
<1>2. ASSUME NEW u \in Users, NEW r \in Requests, NEW n \in Points, RequestBorrow(u, r, n)
      PROVE  HostInv'
  <2>1. \A v \in Users : IsMember(v) => IsMember(v)'
    BY <1>2 DEF RequestBorrow, IsMember, rows
  <2>2. KickPending(owner)' => KickPending(owner)
    BY <1>2 DEF RequestBorrow, KickPending, args
  <2> QED
    BY <1>0, <1>2, <2>1, <2>2, HostFrame DEF RequestBorrow, ghosts
<1>3. ASSUME NEW c \in Calls, NEW h \in Users, NEW u \in Users, CallTransfer(c, h, u)
      PROVE  HostInv'
  BY <1>3, HostStart DEF CallTransfer
<1>4. ASSUME NEW c \in Calls, NEW h \in Users, NEW u \in Users, CallKick(c, h, u)
      PROVE  HostInv'
  BY <1>4, HostStart DEF CallKick, MayKick
<1>5. ASSUME NEW c \in Calls, NEW h \in Users, NEW r \in Requests, NEW approve \in BOOLEAN,
             CallDecide(c, h, r, approve)
      PROVE  HostInv'
  BY <1>5, HostStart DEF CallDecide
<1>6. ASSUME NEW c \in Calls, NEW h \in Users, NEW u \in Users, NEW n \in Int,
             CallAdjust(c, h, u, n)
      PROVE  HostInv'
  BY <1>6, HostStart DEF CallAdjust
<1>7. ASSUME NEW c \in Calls, NEW u \in Users, NEW n \in Points, CallBet(c, u, n)
      PROVE  HostInv'
  BY <1>7, HostStart DEF CallBet
<1>8. ASSUME NEW c \in Calls, NEW u \in Users, NEW n \in Int, CallSettle(c, u, n)
      PROVE  HostInv'
  BY <1>8, HostStart DEF CallSettle
<1>9. ASSUME NEW c \in Calls, Begin(c) PROVE HostInv'
  <2>1. \A v \in Users : IsMember(v) => IsMember(v)'
    BY <1>9 DEF Begin, IsMember, rows
  <2>2. KickPending(owner)' => KickPending(owner)
    BY <1>9 DEF Begin, KickPending, args, CallsInv, TypeOK
  <2> QED
    BY <1>0, <1>9, <2>1, <2>2, HostFrame DEF Begin
\* The new host is a member, and a kick of him that is still to commit is a crossing.
<1>10. ASSUME NEW c \in Calls, Transfer(c) PROVE HostInv'
  <2>1. who[c] \in Users /\ by[c] \in Users /\ owner' = who[c] /\ Over(c)
    BY <1>10 DEF Transfer, CallsInv, TypeOK
  <2>2. IsMember(owner)'
    <3>1. role'[who[c]] \in {"OWNER", "MEMBER"}
      BY <1>10, <2>1 DEF Transfer, CallsInv, TypeOK
    <3> QED
      BY <2>1, <3>1 DEF IsMember
  <2>3. ~crossed' => ~KickPending(who[c])
    BY <1>10 DEF Transfer
  <2>4. KickPending(owner)' => KickPending(who[c])
    <3>1. at'[c] = "over" /\ UNCHANGED <<op, who>> /\ \A d \in Calls \ {c} : at'[d] = at[d]
      BY <2>1 DEF Over, args, CallsInv, TypeOK
    <3> QED
      BY <2>1, <3>1 DEF KickPending
  <2> QED
    BY <2>1, <2>2, <2>3, <2>4 DEF HostInv
<1>11. ASSUME NEW c \in Calls, Kick(c) PROVE HostInv'
  <2>1. owner' = owner /\ crossed' = crossed /\ Over(c)
    BY <1>11 DEF Kick, End
  <2>2. KickPending(who[c])
    BY <1>11 DEF Kick, KickPending
  <2>3. ~crossed => who[c] # owner /\ IsMember(owner)
    BY <2>2 DEF HostInv
  <2>4. ~crossed => IsMember(owner)'
    BY <1>0, <1>11, <2>1, <2>3 DEF Kick, IsMember, CallsInv, TypeOK
  <2>5. KickPending(owner)' => KickPending(owner)
    BY <2>1, OverKicks DEF KickPending
  <2> QED
    BY <2>1, <2>4, <2>5 DEF HostInv
<1>12. ASSUME NEW c \in Calls, Approve(c) PROVE HostInv'
  BY <1>12, HostEnd DEF Approve
<1>13. ASSUME NEW c \in Calls, Deny(c) PROVE HostInv'
  BY <1>13, HostEnd DEF Deny, rows
<1>14. ASSUME NEW c \in Calls, Adjust(c) PROVE HostInv'
  BY <1>14, HostEnd DEF Adjust, rows
<1>15. ASSUME NEW c \in Calls, Play(c) PROVE HostInv'
  BY <1>15, HostEnd DEF Play, rows
<1>16. ASSUME NEW c \in Calls, Fail(c) PROVE HostInv'
  BY <1>16, HostEnd DEF Fail, rows
<1>17. CASE UNCHANGED vars
  BY <1>17 DEF HostInv, KickPending, IsMember, vars, rows, args, ghosts
<1>18. \A n \in Points : n \in Int /\ -n \in Int
  BY LobbyAssumption
<1> QED
  BY <1>1, <1>2, <1>3, <1>4, <1>5, <1>6, <1>7, <1>8, <1>9, <1>10, <1>11, <1>12, <1>13,
     <1>14, <1>15, <1>16, <1>17, <1>18 DEF Next

\* The lobby's owner is a member of it, until a transferHost commits while a
\* kickMember of the new host is checked and still to commit.
THEOREM OwnerStays == Spec => []OwnerIsMember
<1>1. Init => HostInv
  BY LobbyAssumption DEF Init, HostInv, KickPending, IsMember
<1>2. HostInv => OwnerIsMember
  BY DEF HostInv, OwnerIsMember
<1> QED
  BY <1>1, <1>2, CallsAlways, HostStep, PTL DEF Spec
-----------------------------------------------------------------------------
(* The lobby wallets. *)

MoneyInv == WalletRows /\ OneMoneyCall /\ ReadCurrent /\ WalletAddsUp

\* A call is checked for a user with a wallet row.
LEMMA MoneyStart ==
  ASSUME CallsInv, MoneyInv, NEW c \in Calls, NEW operation \in Ops, NEW h, NEW u \in Users,
         NEW r, NEW n, Checked(c, operation, h, u, r, n), operation \in MoneyOps => u \in wallet
  PROVE  MoneyInv'
<1>1. UNCHANGED <<role, wallet, borrowed, balance, winnings, adjusted, borrower, read, collided>>
  BY DEF Checked, rows, money, loans, ghosts
<1>2. op'[c] = operation /\ who'[c] = u /\ at'[c] = "checked"
  BY DEF Checked, CallsInv, TypeOK
<1>3. \A d \in Calls : d # c => op'[d] = op[d] /\ who'[d] = who[d] /\ at'[d] = at[d]
  BY DEF Checked, CallsInv, TypeOK
<1>4. WalletRows'
  BY <1>1, <1>2, <1>3 DEF MoneyInv, WalletRows, IsMember
<1>5. \A d \in Calls, v \in Users : MoneyCall(d, v)' => MoneyCall(d, v)
  BY <1>2, <1>3 DEF MoneyCall, Reading
<1>6. OneMoneyCall' /\ ReadCurrent' /\ WalletAddsUp'
  BY <1>1, <1>5 DEF MoneyInv, OneMoneyCall, ReadCurrent, WalletAddsUp
<1> QED
  BY <1>4, <1>6 DEF MoneyInv

\* A step that moves no points and lets no transaction read.
LEMMA MoneyFrame ==
  ASSUME CallsInv, MoneyInv, UNCHANGED args,
         UNCHANGED <<wallet, borrowed, balance, winnings, adjusted, borrower, read, collided>>,
         \A u \in Users : IsMember(u)' => IsMember(u),
         \A c \in Calls : at'[c] = at[c] \/ at'[c] = "over"
  PROVE  MoneyInv'
<1>1. WalletRows'
  BY DEF MoneyInv, WalletRows, args
<1>2. \A d \in Calls, v \in Users : MoneyCall(d, v)' => MoneyCall(d, v)
  BY DEF MoneyCall, Reading, args
<1>3. OneMoneyCall' /\ ReadCurrent' /\ WalletAddsUp'
  BY <1>2 DEF MoneyInv, OneMoneyCall, ReadCurrent, WalletAddsUp
<1> QED
  BY <1>1, <1>3 DEF MoneyInv

\* The ledger sum that a commit adds to, as one number per user.
Ledgered(u) == winnings[u] + borrowed[u] + adjusted[u]

\* A transaction commits: it pays its points and its ledger row shows them.
LEMMA MoneyCommit ==
  ASSUME CallsInv, MoneyInv, NEW c \in Calls, NEW w \in Users, who[c] = w,
         at[c] = "read", op[c] \in MoneyOps, Pay(c), End(c), UNCHANGED <<role, wallet, borrower>>,
         winnings' \in [Users -> Int], borrowed' \in [Users -> Int], adjusted' \in [Users -> Int],
         Ledgered(w)' = Ledgered(w) + points[c],
         \A u \in Users : u # w => UNCHANGED <<winnings[u], borrowed[u], adjusted[u]>>
  PROVE  MoneyInv'
<1>1. w \in wallet /\ MoneyCall(c, w)
  BY DEF CallsInv, TypeOK, MoneyInv, WalletRows, MoneyCall, Reading
<1>2. balance'[w] = read[c] + points[c] /\ \A u \in Users : u # w => balance'[u] = balance[u]
  BY <1>1 DEF Pay, CallsInv, TypeOK
<1>3. UNCHANGED args /\ read' = read /\ collided' = collided
  BY DEF End, Over, ghosts
<1>4. at'[c] = "over" /\ \A d \in Calls : d # c => at'[d] = at[d]
  BY DEF End, Over, CallsInv, TypeOK
<1>5. WalletRows'
  BY <1>1, <1>3, <1>4 DEF MoneyInv, WalletRows, IsMember, args
<1>6. \A d \in Calls, v \in Users : MoneyCall(d, v)' => d # c /\ MoneyCall(d, v)
  BY <1>3, <1>4 DEF MoneyCall, Reading, args
<1>7. OneMoneyCall'
  BY <1>3, <1>6 DEF MoneyInv, OneMoneyCall
<1>8. \A d \in Calls : w \notin collided => ~MoneyCall(d, w)'
  BY <1>1, <1>6 DEF MoneyInv, OneMoneyCall
<1>9. ReadCurrent'
  BY <1>2, <1>3, <1>6, <1>8 DEF MoneyInv, ReadCurrent
<1>10. ASSUME w \notin collided
       PROVE  balance'[w] = DefaultPoints + winnings'[w] + borrowed'[w] + adjusted'[w]
  <2>1. read[c] = balance[w]
    BY <1>1, <1>10 DEF MoneyInv, ReadCurrent
  <2>2. balance[w] = DefaultPoints + winnings[w] + borrowed[w] + adjusted[w]
    BY <1>1, <1>10 DEF MoneyInv, WalletAddsUp
  <2>3. /\ winnings'[w] + borrowed'[w] + adjusted'[w]
               = winnings[w] + borrowed[w] + adjusted[w] + points[c]
        /\ winnings[w] \in Int /\ borrowed[w] \in Int /\ adjusted[w] \in Int
        /\ winnings'[w] \in Int /\ borrowed'[w] \in Int /\ adjusted'[w] \in Int
        /\ points[c] \in Int /\ DefaultPoints \in Int
    BY <1>1, LobbyAssumption DEF Ledgered, CallsInv, TypeOK
  <2> QED
    BY <1>2, <2>1, <2>2, <2>3
<1>11. WalletAddsUp'
  BY <1>2, <1>3, <1>10 DEF MoneyInv, WalletAddsUp, CallsInv, TypeOK
<1> QED
  BY <1>5, <1>7, <1>9, <1>11 DEF MoneyInv

\* Every action keeps MoneyInv.
LEMMA MoneyStep == CallsInv /\ MoneyInv /\ [Next]_vars => MoneyInv'
<1> SUFFICES ASSUME CallsInv, MoneyInv, [Next]_vars PROVE MoneyInv'
  OBVIOUS
<1>0. \A u \in Users : IsMember(u) => u \in wallet
  BY DEF MoneyInv, WalletRows
<1>1. ASSUME NEW u \in Users, Join(u) PROVE MoneyInv'
  <2>1. u \notin wallet /\ wallet' = wallet \union {u}
    BY <1>1 DEF Join
  <2>2. /\ UNCHANGED <<winnings, adjusted, borrower, at, read, collided>> /\ UNCHANGED args
        /\ balance'[u] = DefaultPoints /\ borrowed'[u] = 0
        /\ \A v \in Users : v # u =>
              balance'[v] = balance[v] /\ borrowed'[v] = borrowed[v] /\ role'[v] = role[v]
    BY <1>1 DEF Join, loans, ghosts, CallsInv, TypeOK
  <2>3. winnings[u] = 0 /\ adjusted[u] = 0
    BY <2>1 DEF MoneyInv, WalletRows
  <2>4. WalletRows'
    BY <2>1, <2>2 DEF MoneyInv, WalletRows, IsMember, args
  <2>5. \A d \in Calls, v \in Users : MoneyCall(d, v)' => v # u /\ MoneyCall(d, v)
    BY <2>1, <2>2 DEF MoneyInv, WalletRows, MoneyCall, Reading, args
  <2>6. OneMoneyCall' /\ ReadCurrent'
    BY <2>2, <2>5 DEF MoneyInv, OneMoneyCall, ReadCurrent
  <2>7. WalletAddsUp'
    BY <2>1, <2>2, <2>3, LobbyAssumption DEF MoneyInv, WalletAddsUp, CallsInv, TypeOK
  <2> QED
    BY <2>4, <2>6, <2>7 DEF MoneyInv
<1>2. ASSUME NEW u \in Users, NEW r \in Requests, NEW n \in Points, RequestBorrow(u, r, n)
      PROVE  MoneyInv'
  <2>1. UNCHANGED <<role, wallet, borrowed, balance, winnings, adjusted, at, read, collided>> /\ UNCHANGED args
    BY <1>2 DEF RequestBorrow, rows, money, ghosts
  <2>2. \A q \in Requests : borrower'[q] # None => borrower'[q] \in wallet
    BY <1>0, <1>2 DEF RequestBorrow, MoneyInv, WalletRows, CallsInv, TypeOK
  <2>3. WalletRows'
    BY <2>1, <2>2 DEF MoneyInv, WalletRows, IsMember, args
  <2>4. OneMoneyCall' /\ ReadCurrent' /\ WalletAddsUp'
    BY <2>1 DEF MoneyInv, OneMoneyCall, ReadCurrent, WalletAddsUp, MoneyCall, Reading, args
  <2> QED
    BY <2>3, <2>4 DEF MoneyInv
<1>3. ASSUME NEW c \in Calls, NEW h \in Users, NEW u \in Users, CallTransfer(c, h, u)
      PROVE  MoneyInv'
  BY <1>3, MoneyStart DEF CallTransfer
<1>4. ASSUME NEW c \in Calls, NEW h \in Users, NEW u \in Users, CallKick(c, h, u)
      PROVE  MoneyInv'
  BY <1>4, MoneyStart DEF CallKick
<1>5. ASSUME NEW c \in Calls, NEW h \in Users, NEW r \in Requests, NEW approve \in BOOLEAN,
             CallDecide(c, h, r, approve)
      PROVE  MoneyInv'
  <2>1. borrower[r] \in wallet /\ borrower[r] \in Users
    BY <1>5 DEF CallDecide, MoneyInv, WalletRows, CallsInv, TypeOK
  <2> QED
    BY <1>5, <2>1, MoneyStart DEF CallDecide
<1>6. ASSUME NEW c \in Calls, NEW h \in Users, NEW u \in Users, NEW n \in Int,
             CallAdjust(c, h, u, n)
      PROVE  MoneyInv'
  BY <1>0, <1>6, MoneyStart DEF CallAdjust
<1>7. ASSUME NEW c \in Calls, NEW u \in Users, NEW n \in Points, CallBet(c, u, n)
      PROVE  MoneyInv'
  BY <1>0, <1>7, MoneyStart DEF CallBet
<1>8. ASSUME NEW c \in Calls, NEW u \in Users, NEW n \in Int, CallSettle(c, u, n)
      PROVE  MoneyInv'
  BY <1>8, MoneyStart DEF CallSettle
<1>9. ASSUME NEW c \in Calls, Begin(c) PROVE MoneyInv'
  <2>1. UNCHANGED <<role, wallet, borrowed, balance, winnings, adjusted, borrower>> /\ UNCHANGED args
    BY <1>9 DEF Begin, rows, money, loans
  <2>2. /\ at'[c] = "read" /\ at[c] = "checked" /\ read'[c] = balance[who[c]]
        /\ \A d \in Calls : d # c => at'[d] = at[d] /\ read'[d] = read[d]
    BY <1>9 DEF Begin, CallsInv, TypeOK
  <2>3. WalletRows'
    BY <2>1, <2>2 DEF MoneyInv, WalletRows, IsMember, args
  <2>4. \A d \in Calls, u \in Users : d # c => (MoneyCall(d, u)' <=> MoneyCall(d, u))
    BY <2>1, <2>2 DEF MoneyCall, Reading, args
  <2>5. \A u \in Users : MoneyCall(c, u)' => u = who[c] /\ op[c] \in MoneyOps
    BY <2>1 DEF MoneyCall, args
  <2>6. \A u \in Users \ collided' :
           /\ u \notin collided
           /\ MoneyCall(c, u)' => \A d \in Calls : ~MoneyCall(d, u)
    BY <1>9, <2>5 DEF Begin, MoneyCall
  <2>7. OneMoneyCall'
    BY <2>4, <2>6 DEF MoneyInv, OneMoneyCall
  <2>8. ReadCurrent'
    BY <2>1, <2>2, <2>4, <2>5, <2>6 DEF MoneyInv, ReadCurrent
  <2>9. WalletAddsUp'
    BY <2>1, <2>6 DEF MoneyInv, WalletAddsUp, CallsInv, TypeOK
  <2> QED
    BY <2>3, <2>7, <2>8, <2>9 DEF MoneyInv
<1>10. ASSUME NEW c \in Calls, Transfer(c) PROVE MoneyInv'
  <2>1. \A u \in Users : IsMember(u)' => IsMember(u)
    BY <1>10 DEF Transfer, IsMember, CallsInv, TypeOK
  <2>2. \A d \in Calls : at'[d] = at[d] \/ at'[d] = "over"
    BY <1>10 DEF Transfer, End, Over, CallsInv, TypeOK
  <2> QED
    BY <1>10, <2>1, <2>2, MoneyFrame DEF Transfer, End, Over, money, loans, ghosts
<1>11. ASSUME NEW c \in Calls, Kick(c) PROVE MoneyInv'
  <2>1. \A u \in Users : IsMember(u)' => IsMember(u)
    BY <1>11 DEF Kick, IsMember, CallsInv, TypeOK
  <2>2. \A d \in Calls : at'[d] = at[d] \/ at'[d] = "over"
    BY <1>11 DEF Kick, End, Over, CallsInv, TypeOK
  <2> QED
    BY <1>11, <2>1, <2>2, MoneyFrame DEF Kick, End, Over, money, loans, ghosts
<1>12. ASSUME NEW c \in Calls, Approve(c) PROVE MoneyInv'
  <2>1. points[c] \in Nat /\ who[c] \in Users
    BY <1>12 DEF Approve, CallsInv, TypeOK, DecisionSound
  <2>2. /\ winnings' = winnings /\ adjusted' = adjusted
        /\ borrowed' \in [Users -> Int] /\ borrowed'[who[c]] = borrowed[who[c]] + points[c]
        /\ \A u \in Users : u # who[c] => borrowed'[u] = borrowed[u]
    BY <1>12, <2>1 DEF Approve, Borrow, CallsInv, TypeOK
  <2>3. winnings \in [Users -> Int] /\ adjusted \in [Users -> Int] /\ borrowed[who[c]] \in Int
    BY <2>1 DEF CallsInv, TypeOK
  <2>4. PICK w \in Users : who[c] = w
    BY <2>1
  <2>5. who' = who
    BY <1>12 DEF Approve, End, Over, args
  <2>6. Ledgered(w)' = Ledgered(w) + points[c]
    BY <2>4, <2>1, <2>2, <2>3, <2>5 DEF Ledgered
  <2>7. \A u \in Users : u # w => UNCHANGED <<winnings[u], borrowed[u], adjusted[u]>>
    BY <2>4, <2>2
  <2> QED
    BY <1>12, <2>2, <2>3, <2>4, <2>6, <2>7, MoneyCommit DEF Approve
<1>13. ASSUME NEW c \in Calls, Deny(c) PROVE MoneyInv'
  <2>1. \A d \in Calls : at'[d] = at[d] \/ at'[d] = "over"
    BY <1>13 DEF Deny, End, Over, CallsInv, TypeOK
  <2> QED
    BY <1>13, <2>1, MoneyFrame DEF Deny, End, Over, rows, money, ghosts, IsMember
<1>14. ASSUME NEW c \in Calls, Adjust(c) PROVE MoneyInv'
  <2>1. points[c] \in Int /\ who[c] \in Users
    BY DEF CallsInv, TypeOK
  <2>2. /\ winnings' = winnings /\ borrowed' = borrowed
        /\ adjusted' \in [Users -> Int] /\ adjusted'[who[c]] = adjusted[who[c]] + points[c]
        /\ \A u \in Users : u # who[c] => adjusted'[u] = adjusted[u]
    BY <1>14, <2>1 DEF Adjust, rows, CallsInv, TypeOK
  <2>3. winnings \in [Users -> Int] /\ borrowed \in [Users -> Int] /\ adjusted[who[c]] \in Int
    BY <2>1 DEF CallsInv, TypeOK
  <2>4. PICK w \in Users : who[c] = w
    BY <2>1
  <2>5. who' = who
    BY <1>14 DEF Adjust, End, Over, args
  <2>6. Ledgered(w)' = Ledgered(w) + points[c]
    BY <2>4, <2>1, <2>2, <2>3, <2>5 DEF Ledgered
  <2>7. \A u \in Users : u # w => UNCHANGED <<winnings[u], borrowed[u], adjusted[u]>>
    BY <2>4, <2>2
  <2> QED
    BY <1>14, <2>2, <2>3, <2>4, <2>6, <2>7, MoneyCommit DEF Adjust, rows, loans
<1>15. ASSUME NEW c \in Calls, Play(c) PROVE MoneyInv'
  <2>1. points[c] \in Int /\ who[c] \in Users
    BY DEF CallsInv, TypeOK
  <2>2. /\ adjusted' = adjusted /\ borrowed' = borrowed
        /\ winnings' \in [Users -> Int] /\ winnings'[who[c]] = winnings[who[c]] + points[c]
        /\ \A u \in Users : u # who[c] => winnings'[u] = winnings[u]
    BY <1>15, <2>1 DEF Play, rows, CallsInv, TypeOK
  <2>3. adjusted \in [Users -> Int] /\ borrowed \in [Users -> Int] /\ winnings[who[c]] \in Int
    BY <2>1 DEF CallsInv, TypeOK
  <2>4. PICK w \in Users : who[c] = w
    BY <2>1
  <2>5. who' = who
    BY <1>15 DEF Play, End, Over, args
  <2>6. Ledgered(w)' = Ledgered(w) + points[c]
    BY <2>4, <2>1, <2>2, <2>3, <2>5 DEF Ledgered
  <2>7. \A u \in Users : u # w => UNCHANGED <<winnings[u], borrowed[u], adjusted[u]>>
    BY <2>4, <2>2
  <2> QED
    BY <1>15, <2>2, <2>3, <2>4, <2>6, <2>7, MoneyCommit DEF Play, rows, loans
<1>16. ASSUME NEW c \in Calls, Fail(c) PROVE MoneyInv'
  <2>1. \A d \in Calls : at'[d] = at[d] \/ at'[d] = "over"
    BY <1>16 DEF Fail, End, Over, CallsInv, TypeOK
  <2> QED
    BY <1>16, <2>1, MoneyFrame DEF Fail, End, Over, rows, money, loans, ghosts, IsMember
<1>17. CASE UNCHANGED vars
  BY <1>17, MoneyFrame DEF vars, rows, money, loans, ghosts, IsMember
<1>18. \A n \in Points : n \in Int /\ -n \in Int
  BY LobbyAssumption
<1> QED
  BY <1>1, <1>2, <1>3, <1>4, <1>5, <1>6, <1>7, <1>8, <1>9, <1>10, <1>11, <1>12, <1>13,
     <1>14, <1>15, <1>16, <1>17, <1>18 DEF Next

\* What getLobbyStanding shows adds up for every member none of whose wallet
\* transactions overlapped, whoever hosts, joins or is kicked meanwhile.
THEOREM StandingExact == Spec => []StandingAddsUp
<1>1. Init => MoneyInv
  BY LobbyAssumption DEF Init, MoneyInv, WalletRows, OneMoneyCall, ReadCurrent, WalletAddsUp,
     MoneyCall, Reading, IsMember
<1>2. MoneyInv => StandingAddsUp
  BY DEF MoneyInv, WalletRows, WalletAddsUp, StandingAddsUp
<1> QED
  BY <1>1, <1>2, CallsAlways, MoneyStep, PTL DEF Spec

-----------------------------------------------------------------------------
(* The loans. *)

LoanInv == OneDecision /\ DecisionPending /\ LoanFollowsDecision

\* A step that decides no request and lets no decision read.
LEMMA LoanFrame ==
  ASSUME LoanInv, UNCHANGED <<status, credits, redecided>>,
         \A c \in Calls, r \in Requests : DecisionCall(c, r)' => DecisionCall(c, r)
  PROVE  LoanInv'
  BY DEF LoanInv, OneDecision, DecisionPending, LoanFollowsDecision

\* A call that is checked decides nothing yet.
LEMMA LoanStart ==
  ASSUME CallsInv, LoanInv, NEW c \in Calls, NEW operation, NEW h, NEW u, NEW q, NEW n,
         Checked(c, operation, h, u, q, n)
  PROVE  LoanInv'
<1>1. \A d \in Calls, r \in Requests : DecisionCall(d, r)' => DecisionCall(d, r)
  BY DEF Checked, DecisionCall, Reading, CallsInv, TypeOK
<1> QED
  BY <1>1, LoanFrame DEF Checked, loans, ghosts

\* The last step of a call that decides no request.
LEMMA LoanEnd ==
  ASSUME CallsInv, LoanInv, NEW c \in Calls, Over(c), UNCHANGED <<status, credits>>
  PROVE  LoanInv'
<1>1. \A d \in Calls, r \in Requests : DecisionCall(d, r)' => DecisionCall(d, r)
  BY DEF Over, args, DecisionCall, Reading, CallsInv, TypeOK
<1> QED
  BY <1>1, LoanFrame DEF Over

\* A decision commits: of the request it decides, none is left in flight.
LEMMA LoanDecided ==
  ASSUME CallsInv, LoanInv, NEW c \in Calls, NEW q \in Requests, DecisionCall(c, q), End(c),
         NEW verdict \in {"APPROVED", "DENIED"},
         status' = [status EXCEPT ![q] = verdict],
         credits' = IF verdict = "APPROVED" THEN [credits EXCEPT ![q] = @ + 1] ELSE credits
  PROVE  LoanInv'
<1>1. redecided' = redecided /\ UNCHANGED args
  BY DEF End, Over, ghosts
<1>2. \A d \in Calls, r \in Requests : DecisionCall(d, r)' => d # c /\ DecisionCall(d, r)
  BY <1>1 DEF End, Over, args, DecisionCall, Reading, CallsInv, TypeOK
<1>3. OneDecision'
  BY <1>1, <1>2 DEF LoanInv, OneDecision
<1>4. \A r \in Requests : r # q => status'[r] = status[r] /\ credits'[r] = credits[r]
  BY DEF CallsInv, TypeOK
<1>5. q \notin redecided => \A d \in Calls : ~DecisionCall(d, q)'
  BY <1>2 DEF LoanInv, OneDecision
<1>6. DecisionPending'
  BY <1>1, <1>2, <1>4, <1>5 DEF LoanInv, DecisionPending
<1>7. ASSUME q \notin redecided PROVE credits'[q] = IF status'[q] = "APPROVED" THEN 1 ELSE 0
  <2>1. status[q] = "PENDING"
    BY <1>7 DEF LoanInv, DecisionPending
  <2>2. credits[q] = 0
    BY <1>7, <2>1 DEF LoanInv, LoanFollowsDecision
  <2>3. status'[q] = verdict /\ credits'[q] = IF verdict = "APPROVED" THEN credits[q] + 1 ELSE credits[q]
    BY DEF CallsInv, TypeOK
  <2> QED
    BY <2>2, <2>3
<1>8. LoanFollowsDecision'
  BY <1>1, <1>4, <1>7 DEF LoanInv, LoanFollowsDecision
<1> QED
  BY <1>3, <1>6, <1>8 DEF LoanInv

\* Every action keeps LoanInv.
LEMMA LoanStep == CallsInv /\ LoanInv /\ [Next]_vars => LoanInv'
<1> SUFFICES ASSUME CallsInv, LoanInv, [Next]_vars PROVE LoanInv'
  OBVIOUS
<1>1. ASSUME NEW u \in Users, Join(u) PROVE LoanInv'
  BY <1>1, LoanFrame DEF Join, loans, ghosts, args, DecisionCall, Reading
<1>2. ASSUME NEW u \in Users, NEW r \in Requests, NEW n \in Points, RequestBorrow(u, r, n)
      PROVE  LoanInv'
  BY <1>2, LoanFrame DEF RequestBorrow, ghosts, args, DecisionCall, Reading
<1>3. ASSUME NEW c \in Calls, NEW h \in Users, NEW u \in Users, CallTransfer(c, h, u)
      PROVE  LoanInv'
  BY <1>3, LoanStart DEF CallTransfer
<1>4. ASSUME NEW c \in Calls, NEW h \in Users, NEW u \in Users, CallKick(c, h, u)
      PROVE  LoanInv'
  BY <1>4, LoanStart DEF CallKick
<1>5. ASSUME NEW c \in Calls, NEW h \in Users, NEW r \in Requests, NEW approve \in BOOLEAN,
             CallDecide(c, h, r, approve)
      PROVE  LoanInv'
  BY <1>5, LoanStart DEF CallDecide
<1>6. ASSUME NEW c \in Calls, NEW h \in Users, NEW u \in Users, NEW n \in Int,
             CallAdjust(c, h, u, n)
      PROVE  LoanInv'
  BY <1>6, LoanStart DEF CallAdjust
<1>7. ASSUME NEW c \in Calls, NEW u \in Users, NEW n \in Points, CallBet(c, u, n)
      PROVE  LoanInv'
  BY <1>7, LoanStart DEF CallBet
<1>8. ASSUME NEW c \in Calls, NEW u \in Users, NEW n \in Int, CallSettle(c, u, n)
      PROVE  LoanInv'
  BY <1>8, LoanStart DEF CallSettle
<1>9. ASSUME NEW c \in Calls, Begin(c) PROVE LoanInv'
  <2>1. /\ at[c] = "checked" /\ UNCHANGED <<status, credits>> /\ UNCHANGED args
        /\ \A d \in Calls : d # c => at'[d] = at[d]
    BY <1>9 DEF Begin, loans, CallsInv, TypeOK
  <2>2. \A d \in Calls, r \in Requests : d # c => (DecisionCall(d, r)' <=> DecisionCall(d, r))
    BY <2>1 DEF DecisionCall, Reading, args
  <2>3. \A r \in Requests : DecisionCall(c, r)' =>
            op[c] \in {"approve", "deny"} /\ req[c] = r /\ status[r] = "PENDING"
    BY <1>9, <2>1 DEF Begin, Pending, DecisionCall, args
  <2>4. \A r \in Requests \ redecided' :
            /\ r \notin redecided
            /\ DecisionCall(c, r)' => \A d \in Calls : ~DecisionCall(d, r)
    BY <1>9, <2>3 DEF Begin, DecisionCall
  <2>5. OneDecision'
    BY <2>2, <2>4 DEF LoanInv, OneDecision
  <2>6. DecisionPending'
    BY <2>1, <2>2, <2>3, <2>4 DEF LoanInv, DecisionPending
  <2>7. LoanFollowsDecision'
    BY <2>1, <2>4 DEF LoanInv, LoanFollowsDecision
  <2> QED
    BY <2>5, <2>6, <2>7 DEF LoanInv
<1>10. ASSUME NEW c \in Calls, Transfer(c) PROVE LoanInv'
  BY <1>10, LoanEnd DEF Transfer, loans
<1>11. ASSUME NEW c \in Calls, Kick(c) PROVE LoanInv'
  BY <1>11, LoanEnd DEF End, Kick, loans
<1>12. ASSUME NEW c \in Calls, Approve(c) PROVE LoanInv'
  <2>1. PICK q \in Requests : req[c] = q
    BY <1>12 DEF Approve, CallsInv, DecisionSound
  <2>2. DecisionCall(c, q)
    BY <1>12, <2>1 DEF Approve, DecisionCall, Reading
  <2> QED
    BY <1>12, <2>1, <2>2, LoanDecided DEF Approve
<1>13. ASSUME NEW c \in Calls, Deny(c) PROVE LoanInv'
  <2>1. PICK q \in Requests : req[c] = q
    BY <1>13 DEF Deny, CallsInv, DecisionSound
  <2>2. DecisionCall(c, q)
    BY <1>13, <2>1 DEF Deny, DecisionCall, Reading
  <2> QED
    BY <1>13, <2>1, <2>2, LoanDecided DEF Deny
<1>14. ASSUME NEW c \in Calls, Adjust(c) PROVE LoanInv'
  BY <1>14, LoanEnd DEF End, Adjust, loans
<1>15. ASSUME NEW c \in Calls, Play(c) PROVE LoanInv'
  BY <1>15, LoanEnd DEF End, Play, loans
<1>16. ASSUME NEW c \in Calls, Fail(c) PROVE LoanInv'
  BY <1>16, LoanEnd DEF End, Fail, loans
<1>17. CASE UNCHANGED vars
  BY <1>17, LoanFrame DEF vars, loans, args, ghosts, DecisionCall, Reading
<1>18. \A n \in Points : n \in Int /\ -n \in Int
  BY LobbyAssumption
<1> QED
  BY <1>1, <1>2, <1>3, <1>4, <1>5, <1>6, <1>7, <1>8, <1>9, <1>10, <1>11, <1>12, <1>13,
     <1>14, <1>15, <1>16, <1>17, <1>18 DEF Next

\* A loan is credited exactly when its request ends up approved, until the host
\* decides it twice at the same time.
THEOREM LoansSound == Spec => []LoanFollowsDecision
<1>1. Init => LoanInv
  BY LobbyAssumption DEF Init, LoanInv, OneDecision, DecisionPending, LoanFollowsDecision,
     DecisionCall, Reading
<1>2. LoanInv => LoanFollowsDecision
  BY DEF LoanInv
<1> QED
  BY <1>1, <1>2, CallsAlways, LoanStep, PTL DEF Spec
-----------------------------------------------------------------------------
\* A kicked member's wallet row is still there, so joinLobby never lets him in again.
THEOREM KickedOut == Spec => KickedStaysOut
<1>1. CallsInv /\ [Next]_vars => [\A u \in wallet : ~IsMember(u) => ~IsMember(u)']_vars
  <2> SUFFICES ASSUME CallsInv, Next, NEW u \in wallet, ~IsMember(u) PROVE ~IsMember(u)'
    OBVIOUS
  <2>1. u \in Users
    BY DEF CallsInv, TypeOK
  <2>2. ASSUME NEW v \in Users, Join(v) PROVE ~IsMember(u)'
    BY <2>1, <2>2 DEF Join, IsMember, CallsInv, TypeOK
  <2>3. ASSUME NEW c \in Calls, Transfer(c) PROVE ~IsMember(u)'
    BY <2>1, <2>3 DEF Transfer, IsMember, CallsInv, TypeOK
  <2>4. ASSUME NEW c \in Calls, Kick(c) PROVE ~IsMember(u)'
    BY <2>1, <2>4 DEF Kick, IsMember, CallsInv, TypeOK
  <2>5. CASE role' = role
    BY <2>5 DEF IsMember
  <2>6. (\E v \in Users : Join(v)) \/ (\E c \in Calls : Transfer(c) \/ Kick(c)) \/ role' = role
    BY DEF Next, RequestBorrow, CallTransfer, CallKick, CallDecide, CallAdjust, CallBet,
       CallSettle, Checked, Begin, Approve, Deny, Adjust, Play, Fail, rows
  <2> QED
    BY <2>2, <2>3, <2>4, <2>5, <2>6
<1> QED
  BY <1>1, CallsAlways, PTL DEF Spec, KickedStaysOut
-----------------------------------------------------------------------------
(* The risk engine's scans. *)

Flags == [severity : Levels, status : {"OPEN", "RESOLVED"}]
ScanStates == [pc : {"idle", "look", "create", "done"}, todo : Seq(RiskLobbies),
               listed : [RiskLobbies -> Levels \union {"none"}]]

RiskTypes ==
    /\ debts \in [RiskLobbies -> Seq(Nat)]
    /\ \A l \in RiskLobbies : Len(debts[l]) \in 1..MaxMembers
    /\ flags \in [RiskLobbies -> Seq(Flags)]
    /\ scanning \in [Scans -> ScanStates]
    /\ raced \in SUBSET RiskLobbies

\* A scan that has begun and not ended has a lobby in hand, with a reason once it is
\* about to flag it.
LobbyInHand ==
    \A s \in Scans :
        /\ scanning[s].pc \in {"look", "create"} => scanning[s].todo # <<>>
        /\ scanning[s].pc = "create" => scanning[s].listed[Head(scanning[s].todo)] # "none"
        /\ scanning[s].pc = "done" => scanning[s].todo = <<>>

\* The lobbies a scan still has to look at.
Ahead(d) == {d.todo[i] : i \in 1..Len(d.todo)}

\* What a scan passed and had a reason for has a flag.
PassedFlagged ==
    \A s \in Scans : scanning[s].pc # "idle" =>
        \A l \in RiskLobbies \ Ahead(scanning[s]) :
            scanning[s].listed[l] # "none" => flags[l] # <<>>

\* At most one flag is OPEN, and none while a scan is about to create one, unless two
\* scans met there.
FlagsApart ==
    \A l \in RiskLobbies \ raced :
        /\ \A i, j \in Open(l) : i = j
        /\ \A s \in Scans : At(s, l, "create") => Open(l) = {}

RiskIInv == RiskTypes /\ LobbyInHand /\ PassedFlagged /\ FlagsApart

LEMMA VerdictType == \A seq : Verdict(seq) \in Levels \union {"none"}
  BY DEF Verdict, Severity, Levels

\* A scan that goes on passes the lobby in hand and no other.
LEMMA OnwardsFacts ==
  ASSUME NEW d \in ScanStates, d.todo # <<>>, NEW e, e = Onwards(d)
  PROVE  /\ e \in ScanStates /\ e.listed = d.listed /\ e.pc \in {"look", "done"}
         /\ e.pc = "look" => e.todo # <<>>
         /\ e.pc = "done" => e.todo = <<>>
         /\ Ahead(d) \subseteq Ahead(e) \union {Head(d.todo)}
<1>1. d.todo \in Seq(RiskLobbies) /\ Len(d.todo) \in Nat \ {0}
      /\ <<>> \in Seq(RiskLobbies) /\ Len(<<>>) = 0
  BY EmptySeq DEF ScanStates
<1>2. Head(d.todo) = d.todo[1]
  BY <1>1
<1>3. CASE Len(d.todo) = 1
  <2>1. e = [pc |-> "done", todo |-> <<>>, listed |-> d.listed]
    BY <1>3 DEF Onwards, ScanStates
  <2>2. Ahead(d) \subseteq {Head(d.todo)}
    BY <1>2, <1>3 DEF Ahead
  <2> QED
    BY <1>1, <2>1, <2>2 DEF ScanStates
<1>4. CASE Len(d.todo) # 1
  <2>1. /\ e = [pc |-> "look", todo |-> Tail(d.todo), listed |-> d.listed]
        /\ e.pc = "look" /\ e.todo = Tail(d.todo) /\ e.listed = d.listed
    BY <1>4 DEF Onwards, ScanStates
  <2>2. /\ Tail(d.todo) \in Seq(RiskLobbies) /\ Len(Tail(d.todo)) = Len(d.todo) - 1
        /\ \A i \in 1..Len(Tail(d.todo)) : Tail(d.todo)[i] = d.todo[i + 1]
    BY <1>1, HeadTailProperties
  <2>3. Tail(d.todo) # <<>>
    <3> SUFFICES ASSUME Tail(d.todo) = <<>> PROVE FALSE
      OBVIOUS
    <3>1. Len(Tail(d.todo)) = 0
      BY <1>1, Zenon
    <3> QED
      BY <1>1, <1>4, <2>2, <3>1
  <2>4. Ahead(d) \subseteq Ahead(e) \union {Head(d.todo)}
    <3> SUFFICES ASSUME NEW i \in 1..Len(d.todo), i # 1 PROVE d.todo[i] \in Ahead(e)
      BY <1>2 DEF Ahead
    <3>1. i - 1 \in 1..Len(Tail(d.todo)) /\ (i - 1) + 1 = i
      BY <1>1, <2>2
    <3>2. Tail(d.todo)[i - 1] = d.todo[i]
      BY <2>2, <3>1
    <3> QED
      BY <2>1, <3>1, <3>2 DEF Ahead
  <2>5. e \in ScanStates
    BY <2>1, <2>2 DEF ScanStates
  <2> QED
    BY <2>1, <2>3, <2>4, <2>5
<1> QED
  BY <1>3, <1>4

\* What the lobby service does leaves flags and scans alone.
LEMMA MembersStep ==
  ASSUME RiskIInv, NEW l \in RiskLobbies, MemberJoins(l) \/ MemberBorrows(l) \/ MemberKicked(l)
  PROVE  RiskIInv'
<1>1. debts[l] \in Seq(Nat) /\ Len(debts[l]) \in 1..MaxMembers
  BY DEF RiskIInv, RiskTypes
<1>2. PICK seq \in Seq(Nat) : Len(seq) \in 1..MaxMembers /\ Members(l, seq)
  <2>1. CASE MemberJoins(l)
    <3>1. Append(debts[l], 0) \in Seq(Nat) /\ Len(Append(debts[l], 0)) = Len(debts[l]) + 1
      BY <1>1, AppendProperties
    <3>2. Len(debts[l]) < MaxMembers /\ Members(l, Append(debts[l], 0))
      BY <2>1 DEF MemberJoins
    <3>3. Len(Append(debts[l], 0)) \in 1..MaxMembers
      BY <1>1, <3>1, <3>2, RiskFlagsAssumption
    <3> QED
      BY <3>1, <3>2, <3>3
  <2>2. CASE MemberBorrows(l)
    <3>1. PICK m \in DOMAIN debts[l] : Members(l, [debts[l] EXCEPT ![m] = @ + Amount])
      BY <2>2 DEF MemberBorrows
    <3>2. m \in 1..Len(debts[l]) /\ debts[l][m] + Amount \in Nat
      BY <1>1, <3>1, LenProperties, ElementOfSeq, RiskFlagsAssumption
    <3>3. /\ [debts[l] EXCEPT ![m] = @ + Amount] \in Seq(Nat)
          /\ Len([debts[l] EXCEPT ![m] = @ + Amount]) = Len(debts[l])
      BY <1>1, <3>2, ExceptSeq
    <3> QED
      BY <1>1, <3>1, <3>3
  <2>3. CASE MemberKicked(l)
    <3>1. PICK m \in DOMAIN debts[l] \ {1} : Members(l, RemoveAt(debts[l], m))
      BY <2>3 DEF MemberKicked
    <3>2. m \in 2..Len(debts[l]) /\ \A i \in 1..Len(debts[l]) : debts[l][i] \in Nat
      BY <1>1, <3>1, LenProperties, ElementOfSeq
    <3>3. /\ SubSeq(debts[l], 1, m - 1) \in Seq(Nat)
          /\ Len(SubSeq(debts[l], 1, m - 1)) = m - 1
      BY <1>1, <3>2, SubSeqProperties
    <3>4. /\ SubSeq(debts[l], m + 1, Len(debts[l])) \in Seq(Nat)
          /\ Len(SubSeq(debts[l], m + 1, Len(debts[l]))) = Len(debts[l]) - m
      BY <1>1, <3>2, SubSeqProperties
    <3>5. /\ RemoveAt(debts[l], m) \in Seq(Nat)
          /\ Len(RemoveAt(debts[l], m)) = (m - 1) + (Len(debts[l]) - m)
      <4>1. RemoveAt(debts[l], m)
              = SubSeq(debts[l], 1, m - 1) \o SubSeq(debts[l], m + 1, Len(debts[l]))
        BY DEF RemoveAt
      <4> QED
        BY <3>3, <3>4, <4>1, ConcatProperties
    <3>6. Len(RemoveAt(debts[l], m)) \in 1..MaxMembers
      <4>1. \A k \in 1..MaxMembers : \A j \in 2..k : (j - 1) + (k - j) \in 1..MaxMembers
        BY RiskFlagsAssumption
      <4> QED
        BY <1>1, <3>2, <3>5, <4>1, Zenon
    <3> QED
      BY <3>1, <3>5, <3>6
  <2> QED
    BY <2>1, <2>2, <2>3
<1>3. debts' = [debts EXCEPT ![l] = seq] /\ UNCHANGED <<flags, scanning, raced>>
  BY <1>2 DEF Members
<1>4. RiskTypes'
  BY <1>2, <1>3 DEF RiskIInv, RiskTypes
<1> QED
  BY <1>3, <1>4 DEF RiskIInv, LobbyInHand, PassedFlagged, FlagsApart, Open, At

\* A step that gives scan s another state, and touches neither flags nor debts.
LEMMA ScanStep ==
  ASSUME RiskIInv, NEW s \in Scans, NEW d \in ScanStates,
         scanning' = [scanning EXCEPT ![s] = d], UNCHANGED <<debts, flags, raced>>,
         d.pc \in {"look", "create"} => d.todo # <<>>, d.pc = "done" => d.todo = <<>>,
         d.pc = "create" => d.listed[Head(d.todo)] # "none" /\ Open(Head(d.todo)) = {},
         d.pc # "idle" => \A l \in RiskLobbies \ Ahead(d) : d.listed[l] # "none" => flags[l] # <<>>
  PROVE  RiskIInv'
<1>1. scanning'[s] = d /\ \A o \in Scans : o # s => scanning'[o] = scanning[o]
  BY DEF RiskIInv, RiskTypes
<1>2. RiskTypes'
  BY DEF RiskIInv, RiskTypes
<1>3. LobbyInHand'
  BY <1>1 DEF RiskIInv, LobbyInHand
<1>4. PassedFlagged'
  BY <1>1 DEF RiskIInv, PassedFlagged
<1>5. FlagsApart'
  <2>1. \A l : Open(l)' = Open(l)
    BY DEF Open
  <2> QED
    BY <1>1, <2>1 DEF RiskIInv, FlagsApart, At
<1> QED
  BY <1>2, <1>3, <1>4, <1>5 DEF RiskIInv

LEMMA ListStep == ASSUME RiskIInv, NEW s \in Scans, ListLobbies(s) PROVE RiskIInv'
<1> DEFINE d == [pc |-> "look", todo |-> LobbyOrder,
                 listed |-> [l \in RiskLobbies |-> Verdict(debts[l])]]
<1>1. d \in ScanStates /\ d.todo # <<>>
  BY VerdictType, RiskFlagsAssumption DEF ScanStates
<1>2. RiskLobbies \subseteq Ahead(d)
  BY DEF RiskLobbies, Ahead
<1>3. scanning' = [scanning EXCEPT ![s] = d] /\ UNCHANGED <<debts, flags, raced>> /\ d.pc = "look"
  BY DEF ListLobbies
<1> HIDE DEF d
<1> QED
  BY <1>1, <1>2, <1>3, ScanStep

LEMMA LookStep ==
  ASSUME RiskIInv, NEW s \in Scans, NEW l \in RiskLobbies, LookAt(s, l)
  PROVE  RiskIInv'
<1> DEFINE old == scanning[s]
           create == old.listed[l] # "none" /\ NoOpenFlag(l, old.listed[l])
           new == IF create THEN [old EXCEPT !.pc = "create"] ELSE Onwards(old)
<1>1. /\ old \in ScanStates /\ old.pc = "look" /\ old.todo # <<>> /\ Head(old.todo) = l
      /\ scanning' = [scanning EXCEPT ![s] = new] /\ UNCHANGED <<debts, flags, raced>>
  BY DEF LookAt, At, RiskIInv, RiskTypes, LobbyInHand
<1>2. \A x \in RiskLobbies \ Ahead(old) : old.listed[x] # "none" => flags[x] # <<>>
  BY <1>1 DEF RiskIInv, PassedFlagged
<1>3. CASE create
  <2>1. /\ new = [old EXCEPT !.pc = "create"] /\ new.pc = "create"
        /\ new.todo = old.todo /\ new.listed = old.listed /\ new \in ScanStates
        /\ Ahead(new) = Ahead(old)
    BY <1>1, <1>3 DEF ScanStates, Ahead
  <2>2. old.listed[l] # "none" /\ Open(l) = {}
    BY <1>3 DEF NoOpenFlag
  <2> HIDE DEF old, new
  <2> QED
    BY <1>1, <1>2, <2>1, <2>2, ScanStep
<1>4. CASE ~create
  <2>1. new = Onwards(old)
    BY <1>4
  <2>2. /\ new \in ScanStates /\ new.listed = old.listed /\ new.pc \in {"look", "done"}
        /\ new.pc = "look" => new.todo # <<>>
        /\ new.pc = "done" => new.todo = <<>>
        /\ Ahead(old) \subseteq Ahead(new) \union {l}
    <3> HIDE DEF old, new
    <3> QED
      BY <1>1, <2>1, OnwardsFacts
  <2>3. old.listed[l] # "none" => flags[l] # <<>>
    BY <1>4 DEF NoOpenFlag, Open
  <2> HIDE DEF old, new
  <2> QED
    BY <1>1, <1>2, <2>2, <2>3, ScanStep
<1> QED
  BY <1>3, <1>4

\* A flag is created; a scan that is about to create another one there has raced.
LEMMA CreateStep ==
  ASSUME RiskIInv, NEW s \in Scans, NEW l \in RiskLobbies, CreateFlag(s, l)
  PROVE  RiskIInv'
<1> DEFINE old == scanning[s]
           new == Onwards(old)
           flag == [severity |-> old.listed[l], status |-> "OPEN"]
           n == Len(flags[l])
<1>1. /\ old \in ScanStates /\ old.pc = "create" /\ old.todo # <<>> /\ Head(old.todo) = l
      /\ old.listed[l] # "none"
  BY DEF CreateFlag, At, RiskIInv, RiskTypes, LobbyInHand
<1>2. flag \in Flags
  BY <1>1 DEF Flags, ScanStates
<1>3. flags[l] \in Seq(Flags) /\ n \in Nat /\ DOMAIN flags[l] = 1..n
  BY LenProperties DEF RiskIInv, RiskTypes
<1>4. /\ scanning' = [scanning EXCEPT ![s] = new] /\ flags' = [flags EXCEPT ![l] = Append(@, flag)]
      /\ raced' = IF \E o \in Scans \ {s} : At(o, l, "create") THEN raced \union {l} ELSE raced
      /\ debts' = debts
  BY DEF CreateFlag
<1>5. flag.status = "OPEN"
  OBVIOUS
<1> HIDE DEF flag
<1>6. /\ Append(flags[l], flag) \in Seq(Flags) /\ Append(flags[l], flag) # <<>>
      /\ Len(Append(flags[l], flag)) = n + 1
      /\ \A i \in 1..n : Append(flags[l], flag)[i] = flags[l][i]
      /\ Append(flags[l], flag)[n + 1] = flag
  BY <1>2, <1>3, AppendProperties
<1> HIDE DEF old, new, n
<1>7. /\ new \in ScanStates /\ new.listed = old.listed /\ new.pc \in {"look", "done"}
      /\ new.pc = "look" => new.todo # <<>>
      /\ new.pc = "done" => new.todo = <<>>
      /\ Ahead(old) \subseteq Ahead(new) \union {l}
  BY <1>1, OnwardsFacts DEF new
<1>8. /\ scanning'[s] = new /\ \A o \in Scans : o # s => scanning'[o] = scanning[o]
      /\ flags'[l] = Append(flags[l], flag) /\ \A x \in RiskLobbies : x # l => flags'[x] = flags[x]
  BY <1>4 DEF RiskIInv, RiskTypes
<1>9. RiskTypes'
  <2>1. flags' \in [RiskLobbies -> Seq(Flags)] /\ scanning' \in [Scans -> ScanStates]
    BY <1>4, <1>6, <1>7 DEF RiskIInv, RiskTypes
  <2>2. raced' \in SUBSET RiskLobbies
    BY <1>4 DEF RiskIInv, RiskTypes
  <2> QED
    BY <1>4, <2>1, <2>2 DEF RiskIInv, RiskTypes
<1>10. LobbyInHand'
  BY <1>7, <1>8 DEF RiskIInv, LobbyInHand
<1>11. PassedFlagged'
  <2> SUFFICES ASSUME NEW o \in Scans, scanning'[o].pc # "idle",
                      NEW x \in RiskLobbies \ Ahead(scanning'[o]),
                      scanning'[o].listed[x] # "none"
               PROVE  flags'[x] # <<>>
    BY DEF PassedFlagged
  <2>1. x = l => flags'[x] # <<>>
    BY <1>6, <1>8
  <2>2. CASE o = s /\ x # l
    BY <1>1, <1>7, <1>8, <2>2 DEF old, RiskIInv, PassedFlagged
  <2>3. CASE o # s /\ x # l
    BY <1>8, <2>3 DEF RiskIInv, PassedFlagged
  <2> QED
    BY <2>1, <2>2, <2>3
<1>12. FlagsApart'
  <2> SUFFICES ASSUME NEW x \in RiskLobbies \ raced'
               PROVE  /\ \A i, j \in Open(x)' : i = j
                      /\ \A o \in Scans : At(o, x, "create")' => Open(x)' = {}
    BY DEF FlagsApart
  <2>1. x \notin raced
    BY <1>4
  <2>2. At(s, l, "create")
    BY DEF CreateFlag
  <2>3. \A y : ~At(s, y, "create")'
    BY <1>7, <1>8 DEF At
  <2>4. \A o \in Scans \ {s} : At(o, x, "create")' <=> At(o, x, "create")
    BY <1>8 DEF At
  <2>5. CASE x = l
    <3>1. Open(l) = {}
      BY <2>1, <2>2, <2>5 DEF RiskIInv, FlagsApart
    <3>2. Open(l)' \subseteq {n + 1}
      <4> SUFFICES ASSUME NEW i \in DOMAIN Append(flags[l], flag),
                          Append(flags[l], flag)[i].status = "OPEN"
                   PROVE  i = n + 1
        BY <1>8 DEF Open
      <4>1. i \in 1..(n + 1)
        BY <1>6, LenProperties
      <4>2. ASSUME i \in 1..n PROVE FALSE
        BY <1>3, <1>6, <3>1, <4>2 DEF Open, n
      <4> QED
        BY <1>3, <4>1, <4>2 DEF n
    <3>3. \A o \in Scans \ {s} : ~At(o, l, "create")
      BY <1>4, <2>5
    <3> QED
      BY <2>3, <2>4, <2>5, <3>2, <3>3
  <2>6. CASE x # l
    <3>1. Open(x)' = Open(x)
      BY <1>8, <2>6 DEF Open
    <3> QED
      BY <2>1, <2>3, <2>4, <3>1 DEF RiskIInv, FlagsApart
  <2> QED
    BY <2>5, <2>6
<1> QED
  BY <1>9, <1>10, <1>11, <1>12 DEF RiskIInv

\* Closing a lobby leaves its flags there, but none OPEN.
LEMMA CloseStep == ASSUME RiskIInv, NEW l \in RiskLobbies, CloseLobby(l) PROVE RiskIInv'
<1> DEFINE resolved == [i \in DOMAIN flags[l] |-> [flags[l][i] EXCEPT !.status = "RESOLVED"]]
<1>1. /\ flags' = [flags EXCEPT ![l] = resolved] /\ raced' = raced \ {l}
      /\ UNCHANGED <<debts, scanning>>
  BY DEF CloseLobby
<1>2. flags[l] \in Seq(Flags) /\ DOMAIN flags[l] = 1..Len(flags[l]) /\ Len(flags[l]) \in Nat
  BY LenProperties DEF RiskIInv, RiskTypes
<1>3. \A i \in 1..Len(flags[l]) : resolved[i] \in Flags /\ resolved[i].status # "OPEN"
  <2> SUFFICES ASSUME NEW i \in 1..Len(flags[l])
               PROVE  resolved[i] \in Flags /\ resolved[i].status # "OPEN"
    OBVIOUS
  <2>1. flags[l][i] \in Flags
    BY <1>2, ElementOfSeq
  <2> QED
    BY <1>2, <2>1 DEF Flags
<1>4. resolved = [i \in 1..Len(flags[l]) |-> resolved[i]]
  BY <1>2
<1>5. resolved \in [1..Len(flags[l]) -> Flags]
  BY <1>2, <1>3
<1> HIDE DEF resolved
<1>6. resolved \in Seq(Flags) /\ DOMAIN resolved = 1..Len(flags[l])
  BY <1>2, <1>5, SeqDef
<1>7. RiskTypes'
  BY <1>1, <1>6 DEF RiskIInv, RiskTypes
<1>8. /\ flags'[l] = resolved /\ \A x \in RiskLobbies : x # l => flags'[x] = flags[x]
  BY <1>1 DEF RiskIInv, RiskTypes
<1>9. flags[l] # <<>> => flags'[l] # <<>>
  <2> SUFFICES ASSUME flags[l] # <<>>, resolved = <<>> PROVE FALSE
    BY <1>8
  <2>1. Len(flags[l]) # 0
    BY <1>2, EmptySeq
  <2>2. 1 \in 1..Len(flags[l])
    BY <1>2, <2>1
  <2>3. Len(resolved) = 0 /\ DOMAIN resolved = 1..Len(resolved)
    BY <1>6, LenProperties, EmptySeq
  <2> QED
    BY <1>6, <2>2, <2>3
<1>10. LobbyInHand' /\ PassedFlagged'
  BY <1>1, <1>8, <1>9 DEF RiskIInv, LobbyInHand, PassedFlagged
<1>11. FlagsApart'
  <2>1. Open(l)' = {}
    BY <1>3, <1>6, <1>8 DEF Open
  <2>2. \A x \in RiskLobbies : x # l => Open(x)' = Open(x)
    BY <1>8 DEF Open
  <2> QED
    BY <1>1, <2>1, <2>2 DEF RiskIInv, FlagsApart, At
<1> QED
  BY <1>7, <1>10, <1>11 DEF RiskIInv

LEMMA RiskStart == RiskInit => RiskIInv
<1> SUFFICES ASSUME RiskInit PROVE RiskIInv
  OBVIOUS
<1>1. <<0>> \in Seq(Nat) /\ Len(<<0>>) = 1 /\ <<>> \in Seq(Flags) /\ <<>> \in Seq(RiskLobbies)
  OBVIOUS
<1>2. NothingListed \in [RiskLobbies -> Levels \union {"none"}]
  BY DEF NothingListed
<1>3. \A s \in Scans : scanning[s] = [pc |-> "idle", todo |-> <<>>, listed |-> NothingListed]
  BY DEF RiskInit
<1>4. RiskTypes
  BY <1>1, <1>2, RiskFlagsAssumption DEF RiskInit, RiskTypes, ScanStates
<1>5. LobbyInHand /\ PassedFlagged
  BY <1>3 DEF LobbyInHand, PassedFlagged
<1>6. \A l \in RiskLobbies : Open(l) = {}
  BY DEF RiskInit, Open
<1>7. FlagsApart
  BY <1>6 DEF FlagsApart
<1> QED
  BY <1>4, <1>5, <1>7 DEF RiskIInv

LEMMA RiskStep == RiskIInv /\ [RiskNext]_rvars => RiskIInv'
<1> SUFFICES ASSUME RiskIInv, [RiskNext]_rvars PROVE RiskIInv'
  OBVIOUS
<1>1. CASE UNCHANGED rvars
  BY <1>1 DEF rvars, RiskIInv, RiskTypes, LobbyInHand, PassedFlagged, FlagsApart, Open, At
<1>2. ASSUME NEW l \in RiskLobbies, MemberJoins(l) \/ MemberBorrows(l) \/ MemberKicked(l)
      PROVE  RiskIInv'
  BY <1>2, MembersStep
<1>3. ASSUME NEW l \in RiskLobbies, CloseLobby(l) PROVE RiskIInv'
  BY <1>3, CloseStep
<1>4. ASSUME NEW s \in Scans, ListLobbies(s) PROVE RiskIInv'
  BY <1>4, ListStep
<1>5. ASSUME NEW s \in Scans, NEW l \in RiskLobbies, LookAt(s, l) \/ CreateFlag(s, l)
      PROVE  RiskIInv'
  BY <1>5, LookStep, CreateStep
<1> QED
  BY <1>1, <1>2, <1>3, <1>4, <1>5 DEF RiskNext

\* Whatever scans of the risk engine meet, and whatever loans, members and closings change
\* under them, a lobby has a second OPEN flag only where two scans met between the search
\* for a flag and its creation, and a scan that ended flagged all it had listed.
THEOREM RiskSound == RiskSpec => []RiskInv
<1>1. RiskIInv => RiskInv
  <2> SUFFICES ASSUME RiskIInv PROVE RiskInv
    OBVIOUS
  <2>1. RiskTypeOK
    <3>1. ASSUME NEW l \in RiskLobbies, NEW i \in DOMAIN flags[l]
          PROVE  flags[l][i].severity \in Levels /\ flags[l][i].status \in {"OPEN", "RESOLVED"}
      <4>1. flags[l] \in Seq(Flags) /\ i \in 1..Len(flags[l])
        BY LenProperties DEF RiskIInv, RiskTypes
      <4>2. flags[l][i] \in Flags
        BY <4>1, ElementOfSeq
      <4> QED
        BY <4>2 DEF Flags
    <3>2. ASSUME NEW s \in Scans PROVE scanning[s] \in ScanStates
      BY DEF RiskIInv, RiskTypes
    <3> QED
      BY <3>1, <3>2 DEF RiskIInv, RiskTypes, RiskTypeOK, ScanStates
  <2>2. OneOpenFlag
    <3> SUFFICES ASSUME NEW l \in RiskLobbies \ raced PROVE Cardinality(Open(l)) <= 1
      BY DEF OneOpenFlag
    <3>1. CASE Open(l) = {}
      BY <3>1, FS_EmptySet
    <3>2. ASSUME NEW i \in Open(l) PROVE Cardinality(Open(l)) <= 1
      <4>1. Open(l) = {i}
        BY <3>2 DEF RiskIInv, FlagsApart
      <4> QED
        BY <4>1, FS_Singleton
    <3> QED
      BY <3>1, <3>2
  <2>3. ScanFlagsRisk
    <3> SUFFICES ASSUME NEW s \in Scans, NEW l \in RiskLobbies, scanning[s].pc = "done",
                        scanning[s].listed[l] # "none"
                 PROVE  flags[l] # <<>>
      BY DEF ScanFlagsRisk
    <3>1. Ahead(scanning[s]) = {}
      BY DEF RiskIInv, LobbyInHand, Ahead
    <3> QED
      BY <3>1 DEF RiskIInv, PassedFlagged
  <2> QED
    BY <2>1, <2>2, <2>3 DEF RiskInv
<1> QED
  BY <1>1, RiskStart, RiskStep, PTL DEF RiskSpec
=============================================================================
