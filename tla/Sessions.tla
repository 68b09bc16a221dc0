------------------------------ MODULE Sessions ------------------------------
(***************************************************************************)
(* One e-mail address: its account, its refresh sessions, the access       *)
(* tokens issued with them and its password                                *)
(* (packages/auth/src/auth-service.ts, apps/web/lib/session.ts and the     *)
(* routes under app/api/v1/auth).                                          *)
(*                                                                         *)
(* A session is named by the refresh token whose hash its row holds.  An   *)
(* access token is not stored: it is good until its lifetime is over, and  *)
(* the routes look at nothing else.  A call is a request: it reads, and    *)
(* later writes what follows from what it read.                            *)
(***************************************************************************)
EXTENDS Integers, FiniteSets

CONSTANTS
    Calls,     \* requests that may be under way together
    Resets,    \* password-reset tokens
    MaxTokens, \* bound: refresh sessions created
    MaxPwd,    \* bound: passwords set
    TTL        \* the lifetime of an access token, in ticks

ASSUME AccountAssumption ==
    /\ MaxTokens \in Nat \ {0} /\ MaxPwd \in Nat \ {0} /\ TTL \in Nat \ {0}

Tokens == 1..MaxTokens
NoToken == 0  \* stands for a login
NoCall == [op |-> "idle", on |-> NoToken, seen |-> 0]

VARIABLES
    user,     \* "none", "ACTIVE" or "BANNED"
    signup,   \* signup bonuses paid
    pwd,      \* the password in force, 0 for the random one of an OAuth account
    session,  \* session[t]: the AuthSession row
    expired,  \* the sessions past their expiresAt
    access,   \* access[t]: ticks the access token issued with t is still good for
    reset,    \* reset[r]: the PasswordReset row
    call,     \* what each request is doing, on which token, having read which password
    parent,   \* history: the token each session was rotated from
    ended,    \* history: the sessions a logout or a reuse ended
    banAge,   \* history: ticks since the ban, up to TTL
    overtaken, \* history: calls during which what they read was written
    late      \* history: sessions such calls created, and resets they used

account == <<user, signup, pwd>>
sessions == <<session, expired, access, parent, ended>>
accountVars == <<account, sessions, reset, call, banAge, overtaken, late>>

\* This module's type invariant.
AccountTypeOK ==
    /\ user \in {"none", "ACTIVE", "BANNED"} /\ signup \in Nat /\ pwd \in 0..MaxPwd
    /\ session \in [Tokens -> {"none", "live", "revoked"}] /\ expired \subseteq Tokens
    /\ access \in [Tokens -> 0..TTL] /\ parent \in [Tokens -> Tokens \union {NoToken}]
    /\ ended \subseteq Tokens
    /\ reset \in [Resets -> {"none", "open", "used", "expired"}]
    /\ call \in [Calls -> [op : {"idle", "register", "issue", "rotate", "sweep",
                                 "change", "reset"},
                           on : Tokens \union {NoToken} \union Resets, seen : 0..MaxPwd]]
    /\ banAge \in 0..TTL /\ overtaken \subseteq Calls
    /\ late \subseteq Tokens \union Resets
    /\ user = "none" => \A t \in Tokens : session[t] = "none"

AccountInit ==
    /\ user = "none" /\ signup = 0 /\ pwd = 0
    /\ session = [t \in Tokens |-> "none"] /\ expired = {}
    /\ access = [t \in Tokens |-> 0] /\ parent = [t \in Tokens |-> NoToken] /\ ended = {}
    /\ reset = [r \in Resets |-> "none"] /\ call = [c \in Calls |-> NoCall]
    /\ banAge = 0 /\ overtaken = {} /\ late = {}
-----------------------------------------------------------------------------
(* Calls. *)

Begin(c, op, on, seen) ==
    /\ call[c] = NoCall
    /\ call' = [call EXCEPT ![c] = [op |-> op, on |-> on, seen |-> seen]]
    /\ UNCHANGED <<account, sessions, reset, banAge, overtaken, late>>

\* Call c ends; the calls in others have been overtaken by what it wrote.
End(c, others) ==
    /\ call' = [call EXCEPT ![c] = NoCall]
    /\ overtaken' = (overtaken \union others) \ {c}

GiveUp(c) ==
    /\ call[c] # NoCall
    /\ End(c, {})
    /\ UNCHANGED <<account, sessions, reset, banAge, late>>

On(op, on) == {c \in Calls : call[c].op = op /\ call[c].on = on}
Doing(ops) == {c \in Calls : call[c].op \in ops}
-----------------------------------------------------------------------------
(* Accounts and sessions. *)

\* registerUser, and findOrCreateOAuthUser (whose password nobody knows), find no
\* user and create one with its wallet; the e-mail is unique.
BeginRegister(c, p) == user = "none" /\ Begin(c, "register", NoToken, p)

EmailIgnored == TRUE
EmailFree == user = "none"
Register(c) ==
    /\ call[c].op = "register"
    /\ EmailFree
    /\ user' = "ACTIVE" /\ signup' = signup + 1 /\ pwd' = call[c].seen
    /\ call' = [call EXCEPT ![c].op = "issue", ![c].seen = 0]
    /\ UNCHANGED <<sessions, reset, banAge, overtaken, late>>

\* verifyLogin with the password in force, or findOrCreateOAuthUser.
UserFound == user # "none"
NotBanned == user # "BANNED"
BeginLogin(c) == UserFound /\ NotBanned /\ Begin(c, "issue", NoToken, 0)

\* A row with a new token, and an access token with it.
Create(c, from, rows) ==
    \E t \in Tokens :
        /\ session[t] = "none" /\ \A u \in 1..(t - 1) : session[u] # "none"
        /\ session' = [rows EXCEPT ![t] = "live"]
        /\ access' = [access EXCEPT ![t] = TTL]
        /\ parent' = [parent EXCEPT ![t] = from]
        /\ late' = IF c \in overtaken THEN late \union {t} ELSE late
        /\ UNCHANGED <<expired, ended>>

\* createSession, attachSessionCookies.
Issue(c) ==
    /\ call[c].op = "issue"
    /\ Create(c, NoToken, session)
    /\ End(c, {})
    /\ UNCHANGED <<account, reset, banAge>>

\* rotateRefresh reads the session and the user.
NeverRevoked(t) == FALSE
Revoked(t) == session[t] = "revoked"
AnyStatus == TRUE
RotationAllowed == NotBanned
BeginRotate(c, t) ==
    /\ session[t] # "none"
    /\ IF Revoked(t) THEN Begin(c, "sweep", t, 0)
       ELSE t \notin expired /\ RotationAllowed /\ Begin(c, "rotate", t, 0)

Rotate(c) ==
    /\ call[c].op = "rotate"
    /\ Create(c, call[c].on, [session EXCEPT ![call[c].on] = "revoked"])
    /\ End(c, On("rotate", call[c].on))
    /\ UNCHANGED <<account, reset, banAge>>

\* updateMany: the sessions among ts that are live are revoked.
Revoke(ts) ==
    LET hit == {t \in ts : session[t] = "live"} IN
    /\ session' = [t \in Tokens |-> IF t \in hit THEN "revoked" ELSE session[t]]
    /\ ended' = ended \union hit

\* A revoked token presented again revokes every session of the user.
Sweep(c) ==
    /\ call[c].op = "sweep"
    /\ Revoke(Tokens)
    /\ End(c, Doing({"rotate"}))
    /\ UNCHANGED <<account, expired, access, parent, reset, banAge, late>>

\* clearSession: one statement.
Logout(t) ==
    /\ session[t] = "live"
    /\ Revoke({t})
    /\ overtaken' = overtaken \union On("rotate", t)
    /\ UNCHANGED <<account, expired, access, parent, reset, call, banAge, late>>

\* POST admin/users/[id]/ban.
Ban ==
    /\ user = "ACTIVE"
    /\ user' = "BANNED"
    /\ overtaken' = overtaken \union Doing({"issue", "rotate"})
    /\ UNCHANGED <<signup, pwd, sessions, reset, call, banAge, late>>
-----------------------------------------------------------------------------
(* Passwords. *)

\* changePassword compares with the password in force.
BeginChange(c) ==
    /\ pwd > 0 /\ \E t \in Tokens : access[t] > 0
    /\ Begin(c, "change", NoToken, pwd)

SetPassword(c) ==
    /\ pwd < MaxPwd /\ pwd' = pwd + 1
    /\ End(c, Doing({"change"}) \union On("reset", call[c].on))
    /\ UNCHANGED <<user, signup, sessions, banAge>>

Change(c) ==
    /\ call[c].op = "change"
    /\ SetPassword(c)
    /\ UNCHANGED <<reset, late>>

RequestReset(r) ==
    /\ user # "none" /\ reset[r] = "none"
    /\ reset' = [reset EXCEPT ![r] = "open"]
    /\ UNCHANGED <<account, sessions, call, banAge, overtaken, late>>

\* resetPassword finds the token unused and unexpired.
Unexpired(r) == reset[r] \in {"open", "used"}
Usable(r) == reset[r] = "open"
BeginReset(c, r) == Usable(r) /\ Begin(c, "reset", r, 0)

Reset(c) ==
    /\ call[c].op = "reset"
    /\ SetPassword(c)
    /\ reset' = [reset EXCEPT ![call[c].on] = "used"]
    /\ late' = IF c \in overtaken THEN late \union {call[c].on} ELSE late
-----------------------------------------------------------------------------
\* Time passes: access tokens run out after TTL ticks; refresh sessions and resets
\* expire some time later.
Tick ==
    /\ \E t \in Tokens : access[t] > 0
    /\ access' = [t \in Tokens |-> IF access[t] > 0 THEN access[t] - 1 ELSE 0]
    /\ banAge' = IF user = "BANNED" /\ banAge < TTL THEN banAge + 1 ELSE banAge
    /\ UNCHANGED <<account, session, expired, parent, ended, reset, call, overtaken, late>>

Expire(t) ==
    /\ session[t] # "none" /\ t \notin expired /\ access[t] = 0
    /\ expired' = expired \union {t}
    /\ UNCHANGED <<account, session, access, parent, ended, reset, call, banAge,
                   overtaken, late>>

ExpireReset(r) ==
    /\ reset[r] = "open"
    /\ reset' = [reset EXCEPT ![r] = "expired"]
    /\ UNCHANGED <<account, sessions, call, banAge, overtaken, late>>

AccountNext ==
    \/ \E c \in Calls :
        \/ \E p \in {0, 1} : BeginRegister(c, p)
        \/ BeginLogin(c) \/ BeginChange(c)
        \/ \E t \in Tokens : BeginRotate(c, t)
        \/ \E r \in Resets : BeginReset(c, r)
        \/ Register(c) \/ Issue(c) \/ Rotate(c) \/ Sweep(c) \/ Change(c) \/ Reset(c)
        \/ GiveUp(c)
    \/ \E t \in Tokens : Logout(t) \/ Expire(t)
    \/ \E r \in Resets : RequestReset(r) \/ ExpireReset(r)
    \/ Ban \/ Tick

AccountSpec == AccountInit /\ [][AccountNext]_accountVars
-----------------------------------------------------------------------------
(* Properties. *)

\* The e-mail has one account and one signup bonus, however many registrations and
\* OAuth sign-ins of it are under way.
OneSignup == signup = (IF user = "none" THEN 0 ELSE 1)

\* A session has one heir and is revoked as it gets it, and one that a logout or the
\* detection of a reuse ended has none: the sessions of a login are a chain with one
\* live end at most.  Only a rotation overtaken by another use of its token, by the
\* logout or by the detection adds an end.
OneHeir ==
    \A t, u \in Tokens \ late :
        (session[t] # "none" /\ parent[t] # NoToken) =>
            /\ session[parent[t]] = "revoked" /\ parent[t] \notin ended
            /\ (session[u] # "none" /\ parent[u] = parent[t]) => t = u

\* Once a banned user's access tokens have had time to run out he has none: no
\* session was issued or rotated after the ban but by a request under way then.
BanTakesEffect ==
    (user = "BANNED" /\ banAge = TTL) => \A t \in Tokens \ late : access[t] = 0

\* The password changes only on the strength of the password in force or of a reset
\* token still unused, unless the request was overtaken by another change.
PasswordByRight ==
    [][pwd' # pwd /\ user # "none" =>
          \E c \in Calls : /\ call[c] # NoCall /\ call'[c] = NoCall
                           /\ \/ c \in overtaken
                              \/ call[c].op = "change" /\ call[c].seen = pwd
                              \/ call[c].op = "reset" /\ reset[call[c].on] \in {"open", "expired"}]_accountVars

\* The account: created once, and without access after its ban.
AccountInv == AccountTypeOK /\ OneSignup /\ BanTakesEffect
=============================================================================
