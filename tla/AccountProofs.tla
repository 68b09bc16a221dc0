---------------------------- MODULE AccountProofs ---------------------------
(***************************************************************************)
(* What a user's wallet and his account guarantee: the wallet's read-then- *)
(* write transactions for every number of transactions, every amount and   *)
(* every starting balance; the account's sessions and passwords for every  *)
(* number of requests, tokens and resets.                                  *)
(***************************************************************************)
EXTENDS Wallet, Sessions, TLAPS

(* The wallet. *)


\* Every step keeps the types, and a negative balance, or one that a transaction
\* read, is still explained by a clawback.
LEMMA NonNegativeStep == NonNegativeInv /\ [Next]_vars => NonNegativeInv'
<1> USE WalletAssumption DEF NonNegativeInv, ReadsExplained, NegativeOnlyByClawback,
        TypeOK, Row, Kinds, Over
<1> SUFFICES ASSUME NonNegativeInv, [Next]_vars PROVE NonNegativeInv'
  OBVIOUS
<1>1. ASSUME NEW t \in Txs, NEW kind \in Kinds, NEW amount \in Amounts,
             Select(t, kind, amount)
      PROVE  NonNegativeInv'
  BY <1>1 DEF Select
<1>2. ASSUME NEW t \in Txs, Spend(t) PROVE NonNegativeInv'
  BY <1>2 DEF Spend, Affordable, Write
<1>3. ASSUME NEW t \in Txs, Earn(t) PROVE NonNegativeInv'
  BY <1>3 DEF Earn, Write
<1>4. ASSUME NEW t \in Txs, Clawback(t) PROVE NonNegativeInv'
  BY <1>4 DEF Clawback, Write
<1>5. ASSUME NEW t \in Txs, Lose(t) PROVE NonNegativeInv'
  BY <1>5 DEF Lose
<1>6. ASSUME NEW t \in Txs, Abort(t) PROVE NonNegativeInv'
  BY <1>6 DEF Abort
<1>7. CASE UNCHANGED vars
  BY <1>7 DEF vars
<1> QED
  BY <1>1, <1>2, <1>3, <1>4, <1>5, <1>6, <1>7 DEF Next

\* Stakes and purchases never overdraw a wallet, however they race: each writes
\* a balance it computed from one that covered it.
THEOREM NoOverdraft == Spec => []NegativeOnlyByClawback
<1>1. Init => NonNegativeInv
  <2> SUFFICES ASSUME Init PROVE NonNegativeInv
    OBVIOUS
  <2>1. Idle \in Row
    BY DEF Idle, Row, Kinds
  <2>2. TypeOK
    <3>1. tx \in [Txs -> Row]
      BY <2>1 DEF Init
    <3>2. clawed \in BOOLEAN /\ overlapped \in BOOLEAN
      BY DEF Init
    <3>3. balance \in Int /\ total \in Int /\ lastAfter \in Int
      BY WalletAssumption DEF Init
    <3> QED
      BY <3>1, <3>2, <3>3 DEF TypeOK
  <2>3. \A t \in Txs : tx[t].read = 0
    BY DEF Init, Idle
  <2> QED
    BY <2>2, <2>3, WalletAssumption DEF Init, NonNegativeInv, ReadsExplained, NegativeOnlyByClawback
<1>2. NonNegativeInv => NegativeOnlyByClawback
  BY DEF NonNegativeInv
<1> QED
  BY <1>1, <1>2, NonNegativeStep, PTL DEF Spec

\* While nothing has overlapped, every step keeps the ledger and the wallet equal.
LEMMA SerialStep == SerialInv /\ [Next]_vars => SerialInv'
<1> USE WalletAssumption
<1> SUFFICES ASSUME SerialInv, [Next]_vars PROVE SerialInv'
  OBVIOUS
<1> USE DEF SerialInv, ReadsCurrent, AtMostOneOpen, LedgerSumsToBalance,
        LastRowShowsBalance, TypeOK, Row, Kinds
<1>1. ASSUME NEW t \in Txs, NEW kind \in Kinds, NEW amount \in Amounts,
             Select(t, kind, amount)
      PROVE  SerialInv'
  <2>1. ~overlapped' => ~overlapped /\ \A u \in Txs : tx[u].at # "open"
    BY <1>1 DEF Select, InFlight
  <2>2. TypeOK'
    BY <1>1 DEF Select
  <2>3. /\ balance' = balance /\ total' = total /\ lastAfter' = lastAfter
        /\ tx'[t].read = balance
        /\ \A u \in Txs : u # t => tx'[u] = tx[u]
    BY <1>1 DEF Select
  <2> QED
    BY <2>1, <2>2, <2>3
\* The transaction that ends was the only one open: afterwards none is.
<1>2. ASSUME NEW t \in Txs, tx[t].at = "open", tx' = [tx EXCEPT ![t] = Over]
      PROVE  /\ tx' \in [Txs -> Row]
             /\ ~overlapped => \A u \in Txs : tx'[u].at # "open"
  BY <1>2 DEF Over
<1>3. ASSUME NEW t \in Txs, tx[t].at = "open", NEW delta \in Int, Write(t, delta)
      PROVE  /\ balance' \in Int /\ total' \in Int /\ lastAfter' \in Int
             /\ ~overlapped => total' = balance' /\ lastAfter' = balance'
  <2>1. /\ tx[t].read \in Int /\ balance \in Int /\ total \in Int
        /\ ~overlapped => tx[t].read = balance /\ total = balance
    BY <1>3
  <2>2. /\ balance' = tx[t].read + delta /\ lastAfter' = tx[t].read + delta
        /\ total' = total + delta
    BY <1>3 DEF Write
  <2> QED
    BY <1>3, <2>1, <2>2
<1>4. \A t \in Txs : tx[t].amount \in Int /\ -tx[t].amount \in Int
  OBVIOUS
<1>5. ASSUME NEW t \in Txs, NEW delta \in Int, tx[t].at = "open", Write(t, delta),
             clawed' \in BOOLEAN, overlapped' = overlapped
      PROVE  SerialInv'
  <2>1. /\ tx' \in [Txs -> Row]
        /\ ~overlapped => \A u \in Txs : tx'[u].at # "open"
    BY <1>2, <1>5 DEF Write
  <2>2. /\ balance' \in Int /\ total' \in Int /\ lastAfter' \in Int
        /\ ~overlapped => total' = balance' /\ lastAfter' = balance'
    BY <1>3, <1>5
  <2> QED
    BY <1>5, <2>1, <2>2
<1>6. ASSUME NEW t \in Txs, Spend(t) PROVE SerialInv'
  BY <1>4, <1>5, <1>6 DEF Spend
<1>7. ASSUME NEW t \in Txs, Earn(t) PROVE SerialInv'
  BY <1>4, <1>5, <1>7 DEF Earn
<1>8. ASSUME NEW t \in Txs, Clawback(t) PROVE SerialInv'
  BY <1>4, <1>5, <1>8 DEF Clawback
<1>9. ASSUME NEW t \in Txs, Lose(t) PROVE SerialInv'
  <2>1. /\ tx' \in [Txs -> Row]
        /\ ~overlapped => \A u \in Txs : tx'[u].at # "open"
    BY <1>2, <1>9 DEF Lose
  <2>2. lastAfter' \in Int /\ (~overlapped => lastAfter' = balance)
    BY <1>9 DEF Lose
  <2> QED
    BY <1>9, <2>1, <2>2 DEF Lose
<1>10. ASSUME NEW t \in Txs, Abort(t) PROVE SerialInv'
  <2>1. /\ tx' \in [Txs -> Row]
        /\ ~overlapped => \A u \in Txs : tx'[u].at # "open"
    BY <1>2, <1>10 DEF Abort
  <2> QED
    BY <1>10, <2>1 DEF Abort
<1>11. CASE UNCHANGED vars
  BY <1>11 DEF vars
<1> QED
  BY <1>1, <1>6, <1>7, <1>8, <1>9, <1>10, <1>11 DEF Next

LEMMA SerialInit == Init => SerialInv
<1> SUFFICES ASSUME Init PROVE SerialInv
  OBVIOUS
<1>1. Idle \in Row /\ Idle.at = "idle"
  BY DEF Idle, Row, Kinds
<1>2. TypeOK
  <2>1. tx \in [Txs -> Row]
    BY <1>1 DEF Init
  <2>2. clawed \in BOOLEAN /\ overlapped \in BOOLEAN
    BY DEF Init
  <2>3. balance \in Int /\ total \in Int /\ lastAfter \in Int
    BY WalletAssumption DEF Init
  <2> QED
    BY <2>1, <2>2, <2>3 DEF TypeOK
<1>3. \A t \in Txs : tx[t].at # "open"
  BY <1>1 DEF Init
<1> QED
  BY <1>2, <1>3 DEF Init, SerialInv, ReadsCurrent, AtMostOneOpen,
     LedgerSumsToBalance, LastRowShowsBalance

\* A wallet whose transactions have not overlapped shows the sum of its ledger
\* rows, so overlap is the only way the two can part.
THEOREM SerialLedger == Spec => []LedgerSumsToBalance
<1>1. SerialInv => LedgerSumsToBalance
  BY DEF SerialInv
<1> QED
  BY <1>1, SerialInit, SerialStep, PTL DEF Spec

\* And the newest ledger row shows that balance.
THEOREM SerialLastRow == Spec => []LastRowShowsBalance
<1>1. SerialInv => LastRowShowsBalance
  BY DEF SerialInv
<1> QED
  BY <1>1, SerialInit, SerialStep, PTL DEF Spec
-----------------------------------------------------------------------------
(* The account: what is inductive. *)


\* Before the account exists nothing hangs on it, and only registrations are under way.
NothingBefore ==
    user = "none" =>
        /\ pwd = 0 /\ \A t \in Tokens : access[t] = 0
        /\ \A r \in Resets : reset[r] = "none"
        /\ \A c \in Calls : call[c].op \in {"idle", "register"}

\* What a call works on is there.
Targets ==
    \A c \in Calls :
        /\ call[c].op = "rotate" => call[c].on \in Tokens /\ session[call[c].on] # "none"
        /\ call[c].op = "reset" => call[c].on \in Resets

EndedRevoked == \A t \in ended : session[t] = "revoked"

\* Unless a call was overtaken, what it read is still so.
ReadsHold ==
    \A c \in Calls \ overtaken :
        /\ call[c].op = "rotate" => session[call[c].on] = "live"
        /\ call[c].op = "change" => call[c].seen = pwd
        /\ call[c].op = "reset" => reset[call[c].on] \in {"open", "expired"}

\* After a ban the calls that may still create a session are those under way at it, and
\* the tokens of the others run out as time passes.
BanRunsOut ==
    /\ user # "BANNED" => banAge = 0
    /\ user = "BANNED" =>
          /\ \A c \in Calls : call[c].op \in {"issue", "rotate"} => c \in overtaken
          /\ \A t \in Tokens \ late : access[t] <= TTL - banAge

AccountIInv ==
    AccountTypeOK /\ NothingBefore /\ Targets /\ OneSignup /\ EndedRevoked /\ OneHeir
    /\ ReadsHold /\ BanRunsOut

Ops == {"idle", "register", "issue", "rotate", "sweep", "change", "reset"}
CallRow == [op : Ops, on : Tokens \union {NoToken} \union Resets, seen : 0..MaxPwd]

\* A call that begins: it is idle before, and nothing but its record changes.
LEMMA CallBegins ==
    ASSUME AccountIInv, NEW c \in Calls, NEW op \in Ops,
           NEW on \in Tokens \union {NoToken} \union Resets, NEW seen \in 0..MaxPwd,
           Begin(c, op, on, seen),
           user = "none" => op = "register",
           op = "rotate" => on \in Tokens /\ session[on] = "live" /\ user # "BANNED",
           op = "issue" => user # "BANNED",
           op = "change" => seen = pwd,
           op = "reset" => on \in Resets /\ reset[on] = "open"
    PROVE  AccountIInv'
<1> USE DEF AccountIInv
<1>1. UNCHANGED <<user, signup, pwd, session, expired, access, parent, ended, reset, banAge,
                  overtaken, late>>
  BY DEF Begin, account, sessions
<1>2. \A d \in Calls : call'[d] = IF d = c THEN [op |-> op, on |-> on, seen |-> seen] ELSE call[d]
  BY DEF Begin, AccountTypeOK
<1>3. AccountTypeOK'
  BY <1>1 DEF Begin, AccountTypeOK, Ops, CallRow
<1>4. NothingBefore' /\ OneSignup' /\ EndedRevoked' /\ OneHeir'
  BY <1>1, <1>2 DEF NothingBefore, OneSignup, EndedRevoked, OneHeir
<1>5. Targets'
  BY <1>1, <1>2 DEF Targets
<1>6. ReadsHold'
  BY <1>1, <1>2 DEF ReadsHold
<1>7. BanRunsOut'
  BY <1>1, <1>2 DEF BanRunsOut
<1> QED
  BY <1>3, <1>4, <1>5, <1>6, <1>7

\* The checks a call makes before it begins give its record what ReadsHold says of it.
LEMMA CallsBegin ==
    ASSUME AccountIInv, NEW c \in Calls,
           \/ \E p \in {0, 1} : BeginRegister(c, p)
           \/ BeginLogin(c) \/ BeginChange(c)
           \/ \E t \in Tokens : BeginRotate(c, t)
           \/ \E r \in Resets : BeginReset(c, r)
    PROVE  AccountIInv'
<1> USE DEF AccountIInv
<1>1. {0, 1} \subseteq 0..MaxPwd /\ pwd \in 0..MaxPwd
  BY AccountAssumption DEF AccountTypeOK
<1>2. ASSUME NEW p \in {0, 1}, BeginRegister(c, p) PROVE AccountIInv'
  BY <1>1, <1>2, CallBegins DEF BeginRegister, Ops
<1>3. CASE BeginLogin(c)
  BY <1>1, <1>3, CallBegins DEF BeginLogin, UserFound, NotBanned, Ops
<1>4. CASE BeginChange(c)
  <2>1. user # "none"
    BY <1>4 DEF BeginChange, NothingBefore, AccountTypeOK
  <2> QED
    BY <1>1, <1>4, <2>1, CallBegins DEF BeginChange, Ops
<1>5. ASSUME NEW t \in Tokens, BeginRotate(c, t) PROVE AccountIInv'
  <2>1. user # "none"
    BY <1>5 DEF BeginRotate, AccountTypeOK
  <2>2. CASE Revoked(t)
    BY <1>1, <1>5, <2>1, <2>2, CallBegins DEF BeginRotate, Ops
  <2>3. CASE ~Revoked(t)
    <3>1. session[t] = "live"
      BY <1>5, <2>3 DEF BeginRotate, Revoked, AccountTypeOK
    <3> QED
      BY <1>1, <1>5, <2>1, <2>3, <3>1, CallBegins
         DEF BeginRotate, RotationAllowed, NotBanned, Ops
  <2> QED
    BY <2>2, <2>3
<1>6. ASSUME NEW r \in Resets, BeginReset(c, r) PROVE AccountIInv'
  <2>1. user # "none"
    BY <1>6 DEF BeginReset, Usable, NothingBefore
  <2> QED
    BY <1>1, <1>6, <2>1, CallBegins DEF BeginReset, Usable, Ops
<1> QED
  BY <1>2, <1>3, <1>4, <1>5, <1>6

\* createSession: the token is new, so no session has it as its parent.
LEMMA IssueStep == ASSUME AccountIInv, NEW c \in Calls, Issue(c) PROVE AccountIInv'
<1> USE DEF AccountIInv
<1>1. PICK t \in Tokens :
        /\ session[t] = "none"
        /\ session' = [session EXCEPT ![t] = "live"]
        /\ access' = [access EXCEPT ![t] = TTL]
        /\ parent' = [parent EXCEPT ![t] = NoToken]
        /\ late' = IF c \in overtaken THEN late \union {t} ELSE late
  BY DEF Issue, Create
<1>2. UNCHANGED <<user, signup, pwd, expired, ended, reset, banAge>>
  BY DEF Issue, Create, account
<1>3. call' = [call EXCEPT ![c] = NoCall] /\ overtaken' = overtaken \ {c}
  BY DEF Issue, End
<1>4. user # "none" /\ call[c].op = "issue"
  BY DEF Issue, NothingBefore
<1>5. \A d \in Calls : call'[d] = IF d = c THEN NoCall ELSE call[d]
  BY <1>3 DEF AccountTypeOK
<1>6. \A u \in Tokens : session'[u] = IF u = t THEN "live" ELSE session[u]
  BY <1>1 DEF AccountTypeOK
<1>7. AccountTypeOK'
  <2>1. TTL \in 0..TTL /\ NoCall \in CallRow
    BY AccountAssumption DEF NoCall, Ops, CallRow
  <2> QED
    BY <1>1, <1>2, <1>3, <1>4, <2>1 DEF AccountTypeOK, Ops, CallRow
<1>8. NothingBefore' /\ OneSignup'
  BY <1>2, <1>4 DEF NothingBefore, OneSignup
<1>9. Targets'
  BY <1>2, <1>5, <1>6 DEF Targets, NoCall
<1>10. EndedRevoked'
  BY <1>1, <1>2, <1>6 DEF EndedRevoked, AccountTypeOK
<1>11. OneHeir'
  BY <1>1, <1>2, <1>6 DEF OneHeir, AccountTypeOK, NoToken
<1>12. ReadsHold'
  BY <1>1, <1>2, <1>3, <1>5, <1>6 DEF ReadsHold, NoCall, Targets
<1>13. BanRunsOut'
  BY <1>1, <1>2, <1>3, <1>4, <1>5 DEF BanRunsOut, AccountTypeOK, NoCall
<1> QED
  BY <1>7, <1>8, <1>9, <1>10, <1>11, <1>12, <1>13

\* rotateRefresh: unless it was overtaken, the parent was live and so had no heir yet.
LEMMA RotateStep == ASSUME AccountIInv, NEW c \in Calls, Rotate(c) PROVE AccountIInv'
<1> USE DEF AccountIInv
<1> DEFINE p == call[c].on
<1>0. NoToken \notin Tokens
  BY DEF NoToken, Tokens
<1>1. PICK t \in Tokens :
        /\ session[t] = "none"
        /\ session' = [[session EXCEPT ![p] = "revoked"] EXCEPT ![t] = "live"]
        /\ access' = [access EXCEPT ![t] = TTL]
        /\ parent' = [parent EXCEPT ![t] = p]
        /\ late' = IF c \in overtaken THEN late \union {t} ELSE late
  BY DEF Rotate, Create
<1>2. UNCHANGED <<user, signup, pwd, expired, ended, reset, banAge>>
  BY DEF Rotate, Create, account
<1>3. /\ call' = [call EXCEPT ![c] = NoCall]
      /\ overtaken' = (overtaken \union On("rotate", p)) \ {c}
  BY DEF Rotate, End
<1>4. /\ user # "none" /\ call[c].op = "rotate"
      /\ p \in Tokens /\ session[p] # "none" /\ p # t
  BY <1>1 DEF Rotate, NothingBefore, Targets
<1>5. \A d \in Calls : call'[d] = IF d = c THEN NoCall ELSE call[d]
  BY <1>3 DEF AccountTypeOK
<1>6. \A u \in Tokens :
        session'[u] = IF u = t THEN "live" ELSE IF u = p THEN "revoked" ELSE session[u]
  BY <1>1, <1>4 DEF AccountTypeOK
<1>7. \A u \in Tokens : parent'[u] = IF u = t THEN p ELSE parent[u]
  BY <1>1 DEF AccountTypeOK
<1>8. c \notin overtaken => session[p] = "live"
  BY <1>4 DEF ReadsHold
<1> HIDE DEF p
<1>9. AccountTypeOK'
  <2>1. TTL \in 0..TTL /\ NoCall \in CallRow
    BY AccountAssumption DEF NoCall, Ops, CallRow
  <2>2. On("rotate", p) \subseteq Calls
    BY DEF On
  <2> QED
    BY <1>1, <1>2, <1>3, <1>4, <2>1, <2>2 DEF AccountTypeOK, Ops, CallRow
<1>10. NothingBefore' /\ OneSignup'
  BY <1>2, <1>4 DEF NothingBefore, OneSignup
<1>11. Targets'
  BY <1>2, <1>5, <1>6 DEF Targets, NoCall
<1>12. EndedRevoked'
  BY <1>1, <1>2, <1>6 DEF EndedRevoked, AccountTypeOK
<1>13. OneHeir'
  <2>1. late \subseteq late' /\ (c \in overtaken => t \in late')
    BY <1>1
  <2>2. \A u \in Tokens \ late : session[u] # "none" => parent[u] # t
    BY <1>1, <1>0 DEF OneHeir, AccountTypeOK
  <2>3. c \notin overtaken =>
          p \notin ended /\ \A u \in Tokens \ late : session[u] # "none" => parent[u] # p
    BY <1>4, <1>8, <1>0 DEF OneHeir, EndedRevoked, AccountTypeOK
  <2> SUFFICES ASSUME NEW u \in Tokens \ late', NEW v \in Tokens \ late',
                      session'[u] # "none", parent'[u] # NoToken
               PROVE  /\ session'[parent'[u]] = "revoked" /\ parent'[u] \notin ended'
                      /\ (session'[v] # "none" /\ parent'[v] = parent'[u]) => u = v
    BY DEF OneHeir
  <2>4. u \notin late /\ v \notin late
    BY <2>1
  <2>5. CASE u = t
    <3>1. c \notin overtaken /\ parent'[u] = p /\ u \in Tokens
      BY <1>7, <2>1, <2>5
    <3>2. session'[p] = "revoked" /\ p \notin ended'
      BY <1>2, <1>4, <1>6, <2>3, <3>1
    <3>3. v # t => ~(session'[v] # "none" /\ parent'[v] = p)
      BY <1>4, <1>6, <1>7, <2>3, <2>4, <3>1
    <3> QED
      BY <2>5, <3>1, <3>2, <3>3
  <2>6. CASE u # t
    <3>1. session[u] # "none" /\ parent'[u] = parent[u] /\ parent[u] \in Tokens
      BY <1>4, <1>6, <1>7, <2>6 DEF AccountTypeOK
    <3>2. session[parent[u]] = "revoked" /\ parent[u] \notin ended /\ parent[u] # t
      BY <1>1, <2>4, <3>1 DEF OneHeir
    <3>3. CASE v # t
      BY <1>2, <1>4, <1>6, <1>7, <2>4, <3>1, <3>2, <3>3 DEF OneHeir
    <3>4. CASE v = t
      BY <1>2, <1>6, <1>7, <2>1, <2>3, <2>4, <3>1, <3>2, <3>4
    <3> QED
      BY <3>3, <3>4
  <2> QED
    BY <2>5, <2>6
<1>14. ReadsHold'
  <2> SUFFICES ASSUME NEW d \in Calls \ overtaken'
               PROVE  /\ call'[d].op = "rotate" => session'[call'[d].on] = "live"
                      /\ call'[d].op = "change" => call'[d].seen = pwd'
                      /\ call'[d].op = "reset" => reset'[call'[d].on] \in {"open", "expired"}
    BY DEF ReadsHold
  <2>1. CASE d = c
    BY <1>5, <2>1 DEF NoCall
  <2>2. CASE d # c
    <3>1. d \notin overtaken /\ d \notin On("rotate", p) /\ call'[d] = call[d]
      BY <1>3, <1>5, <2>2
    <3>2. call[d].op = "rotate" => call[d].on \in Tokens /\ call[d].on # p
      BY <3>1 DEF On, Targets
    <3> QED
      BY <1>1, <1>2, <1>6, <3>1, <3>2 DEF ReadsHold
  <2> QED
    BY <2>1, <2>2
<1>15. BanRunsOut'
  BY <1>1, <1>2, <1>3, <1>4, <1>5 DEF BanRunsOut, AccountTypeOK, NoCall
<1> QED
  BY <1>9, <1>10, <1>11, <1>12, <1>13, <1>14, <1>15

\* updateMany on live sessions: they end without an heir, and the rotations under way
\* with one of them are overtaken.
LEMMA RevokeStep ==
    ASSUME AccountIInv, NEW ts \in SUBSET Tokens, Revoke(ts), NEW rest \in SUBSET Calls,
           \A d \in Calls : call[d].op = "rotate" /\ call[d].on \in ts => d \in rest,
           UNCHANGED <<user, signup, pwd, expired, access, parent, reset, banAge, late>>,
           \/ call' = call /\ overtaken' = overtaken \union rest
           \/ \E c \in Calls : call' = [call EXCEPT ![c] = NoCall]
                              /\ overtaken' = (overtaken \union rest) \ {c}
    PROVE  AccountIInv'
<1> USE DEF AccountIInv
<1> DEFINE hit == {t \in ts : session[t] = "live"}
<1>1. /\ session' = [t \in Tokens |-> IF t \in hit THEN "revoked" ELSE session[t]]
      /\ ended' = ended \union hit
  BY DEF Revoke
<1>2. hit \subseteq Tokens /\ \A t \in hit : t \in ts /\ session[t] = "live"
  OBVIOUS
<1> HIDE DEF hit
<1>4. \A d \in Calls : call'[d] = call[d] \/ call'[d] = NoCall
  BY DEF AccountTypeOK
<1>5. \A d \in Calls \ overtaken' : \/ d \notin overtaken /\ d \notin rest /\ call'[d] = call[d]
                                   \/ call'[d] = NoCall
  BY DEF AccountTypeOK
<1>6. AccountTypeOK'
  <2>1. NoCall \in CallRow
    BY AccountAssumption DEF NoCall, Ops, CallRow
  <2>2. call' \in [Calls -> CallRow]
    BY <2>1 DEF AccountTypeOK, Ops, CallRow
  <2>3. /\ session' \in [Tokens -> {"none", "live", "revoked"}]
        /\ user = "none" => \A t \in Tokens : session'[t] = "none"
    BY <1>1, <1>2 DEF AccountTypeOK
  <2>4. overtaken' \subseteq Calls /\ ended' \subseteq Tokens
    BY <1>1, <1>2 DEF AccountTypeOK
  <2> QED
    BY <2>2, <2>3, <2>4 DEF AccountTypeOK, Ops, CallRow
<1>7. NothingBefore' /\ OneSignup'
  BY <1>4 DEF NothingBefore, OneSignup, NoCall
<1>8. Targets'
  BY <1>1, <1>4 DEF Targets, NoCall
<1>9. EndedRevoked'
  BY <1>1, <1>2 DEF EndedRevoked, AccountTypeOK
<1>10. OneHeir'
  <2>1. \A t \in Tokens :
          /\ session'[t] # "none" => session[t] # "none"
          /\ session[t] = "revoked" => (session'[t] = "revoked" /\ t \notin hit)
    BY <1>1, <1>2
  <2> SUFFICES ASSUME NEW u \in Tokens \ late', NEW v \in Tokens \ late',
                      session'[u] # "none", parent'[u] # NoToken
               PROVE  /\ session'[parent'[u]] = "revoked" /\ parent'[u] \notin ended'
                      /\ (session'[v] # "none" /\ parent'[v] = parent'[u]) => u = v
    BY DEF OneHeir
  <2>0. late' = late /\ parent' = parent
    OBVIOUS
  <2>2. u \in Tokens \ late /\ v \in Tokens \ late
    BY <2>0
  <2>3. session[u] # "none" /\ parent[u] \in Tokens
    <3>1. session[u] # "none"
      BY <2>1, <2>2
    <3>2. parent[u] # NoToken
      BY <2>0
    <3> QED
      BY <2>2, <3>1, <3>2 DEF AccountTypeOK
  <2>4. session[parent[u]] = "revoked" /\ parent[u] \notin ended
    BY <2>2, <2>3 DEF OneHeir
  <2>5. (session[v] # "none" /\ parent[v] = parent[u]) => u = v
    BY <2>2, <2>3 DEF OneHeir
  <2> QED
    <3>1. session'[parent[u]] = "revoked" /\ parent[u] \notin hit
      BY <2>1, <2>3, <2>4
    <3>2. parent'[u] = parent[u] /\ parent'[v] = parent[v]
      BY <2>0
    <3>3. session'[v] # "none" => session[v] # "none"
      BY <2>1, <2>2
    <3> QED
      BY <1>1, <2>4, <2>5, <3>1, <3>2, <3>3
<1>11. ReadsHold'
  BY <1>1, <1>2, <1>5 DEF ReadsHold, Targets, NoCall
<1>12. BanRunsOut'
  BY <1>4, <1>5 DEF BanRunsOut, NoCall
<1> QED
  BY <1>6, <1>7, <1>8, <1>9, <1>10, <1>11, <1>12
\* A reuse ends every session, a logout one.
LEMMA RevokesStep ==
    ASSUME AccountIInv,
           \/ \E c \in Calls : Sweep(c)
           \/ \E t \in Tokens : Logout(t)
    PROVE  AccountIInv'
<1>1. ASSUME NEW c \in Calls, Sweep(c) PROVE AccountIInv'
  <2>1. /\ Revoke(Tokens) /\ call' = [call EXCEPT ![c] = NoCall]
        /\ overtaken' = (overtaken \union Doing({"rotate"})) \ {c}
        /\ UNCHANGED <<user, signup, pwd, expired, access, parent, reset, banAge, late>>
    BY <1>1 DEF Sweep, End, account
  <2>2. Doing({"rotate"}) \in SUBSET Calls
    BY DEF Doing
  <2>3. \A d \in Calls : call[d].op = "rotate" /\ call[d].on \in Tokens => d \in Doing({"rotate"})
    BY DEF Doing
  <2>4. Tokens \in SUBSET Tokens
    OBVIOUS
  <2> HIDE DEF AccountIInv
  <2> QED
    BY <2>1, <2>2, <2>3, <2>4, RevokeStep
<1>2. ASSUME NEW t \in Tokens, Logout(t) PROVE AccountIInv'
  <2>1. /\ Revoke({t}) /\ call' = call /\ overtaken' = overtaken \union On("rotate", t)
        /\ UNCHANGED <<user, signup, pwd, expired, access, parent, reset, banAge, late>>
    BY <1>2 DEF Logout, account
  <2>2. On("rotate", t) \in SUBSET Calls
    BY DEF On
  <2>3. \A d \in Calls : call[d].op = "rotate" /\ call[d].on \in {t} => d \in On("rotate", t)
    BY DEF On
  <2>4. {t} \in SUBSET Tokens
    OBVIOUS
  <2> QED
    BY <2>1, <2>2, <2>3, <2>4, RevokeStep
<1> QED
  BY <1>1, <1>2

\* The account is created: its e-mail is free, so this is the first bonus.
LEMMA RegisterStep == ASSUME AccountIInv, NEW c \in Calls, Register(c) PROVE AccountIInv'
<1> USE DEF AccountIInv
<1>1. /\ user = "none" /\ user' = "ACTIVE" /\ signup' = signup + 1 /\ pwd' = call[c].seen
      /\ call[c].op = "register"
      /\ call' = [call EXCEPT ![c].op = "issue", ![c].seen = 0]
      /\ UNCHANGED <<session, expired, access, parent, ended, reset, banAge, overtaken, late>>
  BY DEF Register, EmailFree, sessions
<1>2. \A d \in Calls :
        /\ call'[d].op = IF d = c THEN "issue" ELSE call[d].op
        /\ call'[d].on = call[d].on
        /\ d # c => call'[d].op \in {"idle", "register"}
  BY <1>1 DEF AccountTypeOK, NothingBefore
<1>3. AccountTypeOK'
  <2>1. 0 \in 0..MaxPwd /\ call[c].seen \in 0..MaxPwd /\ signup + 1 \in Nat
    BY AccountAssumption DEF AccountTypeOK
  <2>2. call' \in [Calls -> CallRow]
    <3>1. /\ call' = [call EXCEPT ![c] = [@ EXCEPT !.op = "issue", !.seen = 0]]
          /\ call[c] \in CallRow
      BY <1>1 DEF AccountTypeOK, Ops, CallRow
    <3>2. [call[c] EXCEPT !.op = "issue", !.seen = 0]
             \in CallRow
      BY <2>1, <3>1 DEF Ops, CallRow
    <3> QED
      BY <3>1, <3>2 DEF AccountTypeOK, Ops, CallRow
  <2> QED
    BY <1>1, <2>1, <2>2 DEF AccountTypeOK, Ops, CallRow
<1>4. NothingBefore' /\ EndedRevoked' /\ OneHeir' /\ Targets'
  <2>1. NothingBefore' /\ EndedRevoked' /\ OneHeir'
    BY <1>1 DEF NothingBefore, EndedRevoked, OneHeir
  <2>2. Targets'
    <3>1. \A d \in Calls : call'[d].op \notin {"rotate", "reset"}
      BY <1>2
    <3> QED
      BY <3>1 DEF Targets
  <2> QED
    BY <2>1, <2>2
<1>5. OneSignup'
  BY <1>1 DEF OneSignup
<1>6. ReadsHold'
  <2>1. \A d \in Calls : call'[d].op \notin {"rotate", "change", "reset"}
    BY <1>2
  <2> QED
    BY <2>1 DEF ReadsHold
<1>7. BanRunsOut'
  BY <1>1 DEF BanRunsOut
<1> QED
  BY <1>3, <1>4, <1>5, <1>6, <1>7

\* The calls under way at the ban are overtaken by it.
LEMMA BanStep == ASSUME AccountIInv, Ban PROVE AccountIInv'
<1> USE DEF AccountIInv
<1>1. /\ user = "ACTIVE" /\ user' = "BANNED"
      /\ overtaken' = overtaken \union Doing({"issue", "rotate"})
      /\ UNCHANGED <<signup, pwd, session, expired, access, parent, ended, reset, call, banAge,
                     late>>
  BY DEF Ban, sessions
<1>2. /\ Doing({"issue", "rotate"}) \subseteq Calls
      /\ \A c \in Calls : call[c].op \in {"issue", "rotate"} => c \in Doing({"issue", "rotate"})
  BY DEF Doing
<1>3. AccountTypeOK'
  BY <1>1, <1>2 DEF AccountTypeOK
<1>4. NothingBefore' /\ EndedRevoked' /\ OneHeir' /\ Targets' /\ OneSignup' /\ ReadsHold'
  BY <1>1 DEF NothingBefore, EndedRevoked, OneHeir, Targets, OneSignup, ReadsHold
<1>5. BanRunsOut'
  <2>1. \A t \in Tokens : access[t] <= TTL
    BY AccountAssumption DEF AccountTypeOK
  <2>2. TTL - 0 = TTL
    BY AccountAssumption
  <2> QED
    BY <1>1, <1>2, <2>1, <2>2 DEF BanRunsOut
<1> QED
  BY <1>3, <1>4, <1>5
\* A new password overtakes the changes that compared with the old one.
LEMMA PasswordStep ==
    ASSUME AccountIInv, NEW c \in Calls, Change(c) \/ Reset(c)
    PROVE  AccountIInv'
<1> USE DEF AccountIInv
<1> DEFINE on == call[c].on
<1>1. /\ pwd < MaxPwd /\ pwd' = pwd + 1 /\ call' = [call EXCEPT ![c] = NoCall]
      /\ overtaken' = (overtaken \union (Doing({"change"}) \union On("reset", on))) \ {c}
      /\ UNCHANGED <<user, signup, session, expired, access, parent, ended, banAge>>
      /\ call[c].op \in {"change", "reset"}
  BY DEF Change, Reset, SetPassword, End, sessions
<1>2. \/ reset' = reset /\ late' = late
      \/ /\ call[c].op = "reset" /\ on \in Resets
         /\ reset' = [reset EXCEPT ![on] = "used"]
         /\ late' \in {late, late \union {on}}
  BY DEF Change, Reset, Targets
<1> HIDE DEF on
<1>3. user # "none"
  BY <1>1 DEF NothingBefore
<1>4. \A d \in Calls : call'[d] = IF d = c THEN NoCall ELSE call[d]
  BY <1>1 DEF AccountTypeOK
<1>5. AccountTypeOK'
  <2>1. /\ NoCall \in CallRow
        /\ pwd + 1 \in 0..MaxPwd
    BY <1>1, AccountAssumption DEF AccountTypeOK, NoCall, Ops, CallRow
  <2>2. call' \in [Calls -> CallRow]
    BY <1>1, <2>1 DEF AccountTypeOK, Ops, CallRow
  <2>3. overtaken' \subseteq Calls
    BY <1>1 DEF AccountTypeOK, Doing, On
  <2>4. /\ reset' \in [Resets -> {"none", "open", "used", "expired"}]
        /\ late' \subseteq Tokens \union Resets
    BY <1>2 DEF AccountTypeOK
  <2> QED
    BY <1>1, <2>1, <2>2, <2>3, <2>4 DEF AccountTypeOK, Ops, CallRow
<1>6. NothingBefore' /\ EndedRevoked' /\ OneSignup'
  BY <1>1, <1>3 DEF NothingBefore, EndedRevoked, OneSignup
<1>7. late \subseteq late'
  BY <1>2
<1>8. OneHeir'
  BY <1>1, <1>7 DEF OneHeir
<1>9. Targets'
  BY <1>1, <1>4 DEF Targets, NoCall
<1>10. ReadsHold'
  <2> SUFFICES ASSUME NEW d \in Calls \ overtaken'
               PROVE  /\ call'[d].op = "rotate" => session'[call'[d].on] = "live"
                      /\ call'[d].op = "change" => call'[d].seen = pwd'
                      /\ call'[d].op = "reset" => reset'[call'[d].on] \in {"open", "expired"}
    BY DEF ReadsHold
  <2>1. CASE d = c
    BY <1>4, <2>1 DEF NoCall
  <2>2. CASE d # c
    <3>1. d \notin overtaken /\ call'[d] = call[d] /\ call[d].op # "change"
      BY <1>1, <1>4, <2>2 DEF Doing
    <3>2. call[d].op = "reset" => call[d].on \in Resets /\ call[d].on # on
      BY <1>1, <2>2 DEF On, Targets
    <3>3. \A r \in Resets : r # on => reset'[r] = reset[r]
      BY <1>2 DEF AccountTypeOK
    <3> QED
      BY <1>1, <3>1, <3>2, <3>3 DEF ReadsHold
  <2> QED
    BY <2>1, <2>2
<1>11. BanRunsOut'
  <2>1. \A d \in Calls : call'[d].op \in {"issue", "rotate"} =>
            d # c /\ call'[d] = call[d] /\ (d \in overtaken => d \in overtaken')
    BY <1>1, <1>4 DEF NoCall
  <2> QED
    BY <1>1, <1>7, <2>1 DEF BanRunsOut
<1> QED
  BY <1>5, <1>6, <1>8, <1>9, <1>10, <1>11

\* A reset token that was read as open is open or expired.
LEMMA ResetsStep ==
    ASSUME AccountIInv, NEW r \in Resets, RequestReset(r) \/ ExpireReset(r)
    PROVE  AccountIInv'
<1> USE DEF AccountIInv
<1>1. UNCHANGED <<user, signup, pwd, session, expired, access, parent, ended, call, banAge,
                  overtaken, late>>
  BY DEF RequestReset, ExpireReset, account, sessions
<1>2. /\ reset' \in [Resets -> {"none", "open", "used", "expired"}]
      /\ \A s \in Resets : reset[s] \in {"open", "expired"} => reset'[s] \in {"open", "expired"}
      /\ user = "none" => \A s \in Resets : reset'[s] = "none"
  BY DEF RequestReset, ExpireReset, AccountTypeOK, NothingBefore
<1>3. AccountTypeOK'
  BY <1>1, <1>2 DEF AccountTypeOK
<1>4. NothingBefore' /\ EndedRevoked' /\ OneSignup' /\ OneHeir' /\ Targets' /\ BanRunsOut'
  BY <1>1, <1>2 DEF NothingBefore, EndedRevoked, OneSignup, OneHeir, Targets, BanRunsOut
<1>5. ReadsHold'
  BY <1>1, <1>2 DEF ReadsHold, Targets
<1> QED
  BY <1>3, <1>4, <1>5

\* Time takes as much from the tokens as it adds to the age of the ban.
LEMMA TimeStep ==
    ASSUME AccountIInv, Tick \/ (\E t \in Tokens : Expire(t))
    PROVE  AccountIInv'
<1> USE DEF AccountIInv
<1>1. CASE Tick
  <2>1. /\ access' = [t \in Tokens |-> IF access[t] > 0 THEN access[t] - 1 ELSE 0]
        /\ banAge' = IF user = "BANNED" /\ banAge < TTL THEN banAge + 1 ELSE banAge
        /\ UNCHANGED <<user, signup, pwd, session, expired, parent, ended, reset, call,
                       overtaken, late>>
    BY <1>1 DEF Tick, account
  <2>2. \A t \in Tokens : access[t] \in 0..TTL
    BY DEF AccountTypeOK
  <2>3. access' \in [Tokens -> 0..TTL] /\ banAge' \in 0..TTL
    BY <2>1, <2>2, AccountAssumption DEF AccountTypeOK
  <2>4. AccountTypeOK'
    BY <2>1, <2>3 DEF AccountTypeOK
  <2>5. NothingBefore' /\ EndedRevoked' /\ OneSignup' /\ OneHeir' /\ Targets' /\ ReadsHold'
    BY <2>1 DEF NothingBefore, EndedRevoked, OneSignup, OneHeir, Targets, ReadsHold
  <2>6. BanRunsOut'
    BY <2>1, <2>2, AccountAssumption DEF BanRunsOut, AccountTypeOK
  <2> QED
    BY <2>4, <2>5, <2>6
<1>2. ASSUME NEW t \in Tokens, Expire(t) PROVE AccountIInv'
  <2>1. /\ expired' = expired \union {t}
        /\ UNCHANGED <<user, signup, pwd, session, access, parent, ended, reset, call,
                       banAge, overtaken, late>>
    BY <1>2 DEF Expire, account
  <2>2. AccountTypeOK'
    BY <2>1 DEF AccountTypeOK
  <2> QED
    BY <2>1, <2>2 DEF NothingBefore, EndedRevoked, OneSignup, OneHeir, Targets, ReadsHold, BanRunsOut
<1> QED
  BY <1>1, <1>2

\* A call that ends without a write takes back its mark.
LEMMA GiveUpStep == ASSUME AccountIInv, NEW c \in Calls, GiveUp(c) PROVE AccountIInv'
<1> USE DEF AccountIInv
<1>1. /\ call' = [call EXCEPT ![c] = NoCall] /\ overtaken' = (overtaken \union {}) \ {c}
      /\ UNCHANGED <<user, signup, pwd, session, expired, access, parent, ended, reset, banAge, late>>
  BY DEF GiveUp, End, account, sessions
<1>2. \A d \in Calls : call'[d] = IF d = c THEN NoCall ELSE call[d]
  BY <1>1 DEF AccountTypeOK
<1>3. AccountTypeOK'
  <2>1. NoCall \in CallRow
    BY AccountAssumption DEF NoCall, Ops, CallRow
  <2> QED
    BY <1>1, <2>1 DEF AccountTypeOK, Ops, CallRow
<1>4. NothingBefore' /\ EndedRevoked' /\ OneSignup' /\ OneHeir'
  BY <1>1, <1>2 DEF NothingBefore, EndedRevoked, OneSignup, OneHeir, NoCall
<1>5. Targets' /\ ReadsHold' /\ BanRunsOut'
  BY <1>1, <1>2 DEF Targets, ReadsHold, BanRunsOut, NoCall
<1> QED
  BY <1>3, <1>4, <1>5

LEMMA AccountStart == AccountInit => AccountIInv
<1> SUFFICES ASSUME AccountInit PROVE AccountIInv
  OBVIOUS
<1>1. NoCall \in CallRow
  BY AccountAssumption DEF NoCall, Ops, CallRow
<1>2. call \in [Calls -> CallRow]
  BY <1>1 DEF AccountInit
<1>3. AccountTypeOK
  BY <1>2, AccountAssumption DEF AccountInit, AccountTypeOK, Ops, CallRow
<1>4. NothingBefore /\ Targets /\ ReadsHold /\ BanRunsOut
  BY DEF AccountInit, NothingBefore, Targets, ReadsHold, BanRunsOut, NoCall
<1>5. OneSignup /\ EndedRevoked /\ OneHeir
  BY DEF AccountInit, OneSignup, EndedRevoked, OneHeir
<1> QED
  BY <1>3, <1>4, <1>5 DEF AccountIInv

LEMMA AccountStep == AccountIInv /\ [AccountNext]_accountVars => AccountIInv'
<1> SUFFICES ASSUME AccountIInv, [AccountNext]_accountVars PROVE AccountIInv'
  OBVIOUS
<1>1. CASE UNCHANGED accountVars
  BY <1>1 DEF accountVars, account, sessions, AccountIInv, AccountTypeOK, NothingBefore, Targets,
     OneSignup, EndedRevoked, OneHeir, ReadsHold, BanRunsOut
<1> QED
  BY <1>1, CallsBegin, RegisterStep, IssueStep, RotateStep, RevokesStep, PasswordStep, GiveUpStep,
     ResetsStep, BanStep, TimeStep DEF AccountNext

LEMMA AccountInductive == AccountSpec => []AccountIInv
  BY AccountStart, AccountStep, PTL DEF AccountSpec

\* However many registrations and OAuth sign-ins overlap, the unique e-mail leaves one
\* account with one bonus (registerUser, findOrCreateOAuthUser), and a ban leaves access
\* tokens to the calls it found under way only.
THEOREM AccountSound == AccountSpec => []AccountInv
<1>1. AccountIInv => AccountInv
  <2> SUFFICES ASSUME AccountIInv PROVE AccountInv
    OBVIOUS
  <2>1. BanTakesEffect
    <3> SUFFICES ASSUME user = "BANNED", banAge = TTL, NEW t \in Tokens \ late
                 PROVE  access[t] = 0
      BY DEF BanTakesEffect
    <3>1. access[t] <= TTL - TTL /\ access[t] \in 0..TTL
      BY DEF AccountIInv, BanRunsOut, AccountTypeOK
    <3> QED
      BY <3>1, AccountAssumption
  <2> QED
    BY <2>1 DEF AccountInv, AccountIInv
<1> QED
  BY <1>1, AccountInductive, PTL

\* The sessions of a login are a chain with one live end, for any number of rotations
\* that no other use of their token has overtaken (rotateRefresh).
THEOREM HeirsUnique == AccountSpec => []OneHeir
<1>1. AccountIInv => OneHeir
  BY DEF AccountIInv
<1> QED
  BY <1>1, AccountInductive, PTL

\* changePassword and resetPassword: a new password rests on the one in force or on an
\* unused reset token, or its call was overtaken.
THEOREM PasswordsByRight == AccountSpec => PasswordByRight
<1>1. ASSUME AccountIInv, AccountNext, pwd' # pwd, user # "none"
      PROVE  \E c \in Calls : /\ call[c] # NoCall /\ call'[c] = NoCall
                              /\ \/ c \in overtaken
                                 \/ call[c].op = "change" /\ call[c].seen = pwd
                                 \/ call[c].op = "reset" /\ reset[call[c].on] \in {"open", "expired"}
  <2>1. PICK c \in Calls : Change(c) \/ Reset(c) \/ Register(c)
    BY <1>1 DEF AccountNext, BeginRegister, BeginLogin, BeginChange, BeginRotate, BeginReset, Begin,
       Issue, Rotate, Sweep, GiveUp, Logout, Expire, RequestReset, ExpireReset, Ban, Tick, account
  <2>2. Change(c) \/ Reset(c)
    BY <1>1, <2>1 DEF Register, EmailFree
  <2>3. call'[c] = NoCall /\ call[c].op \in {"change", "reset"}
    BY <1>1, <2>2 DEF Change, Reset, SetPassword, End, AccountIInv, AccountTypeOK
  <2>4. call[c] # NoCall
    BY <2>3 DEF NoCall
  <2>5. c \in Calls \ overtaken =>
          \/ call[c].op = "change" /\ call[c].seen = pwd
          \/ call[c].op = "reset" /\ reset[call[c].on] \in {"open", "expired"}
    BY <1>1, <2>3 DEF AccountIInv, ReadsHold
  <2> QED
    BY <2>3, <2>4, <2>5
<1>2. AccountIInv /\ [AccountNext]_accountVars =>
        [pwd' # pwd /\ user # "none" =>
          \E c \in Calls : /\ call[c] # NoCall /\ call'[c] = NoCall
                           /\ \/ c \in overtaken
                              \/ call[c].op = "change" /\ call[c].seen = pwd
                              \/ call[c].op = "reset" /\ reset[call[c].on] \in {"open", "expired"}]_accountVars
  BY <1>1
<1> QED
  BY <1>2, AccountInductive, PTL DEF AccountSpec, PasswordByRight
=============================================================================
