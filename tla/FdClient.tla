------------------------------ MODULE FdClient ------------------------------
(* The rate-limited client of football-data.org (packages/pipeline            *)
(* football-data.ts, class FdClient): one request at a time, Spacing apart,   *)
(* a pause when an answer says the minute's budget is used up, MaxRetries     *)
(* repeats of a request answered 429.  Time is `now`, in units of the model;  *)
(* a timer may fire up to Late units after it is due, an answer takes at most *)
(* Latency units.                                                             *)
EXTENDS Integers, Sequences, FiniteSets

CONSTANTS Gets,        \* the calls of get(path)
          Spacing,     \* minSpacingMs
          Window,      \* the 60 000 ms of the budget's window
          RetryAfters, \* the values of a retry-after header
          MaxRetries,  \* maxRetries
          Late, Latency, NoGet

ASSUME FdClientAssumption ==
  /\ {Spacing, Window, Late, Latency, MaxRetries} \subseteq Nat
  /\ RetryAfters \subseteq Nat /\ Spacing > 0 /\ NoGet \notin Gets

VARIABLES now,      \* the clock
          last,     \* this.last: the time of the latest request, or of the end of a pause
          promises, \* the calls waiting in this.chain
          current,  \* the call spacedRequest runs for
          stage,    \* idle, sleeping (before the request), fetching, backoff
          wake,     \* when the sleep ends
          attempt,  \* spacedRequest's attempt
          outcome,  \* per call: new, waiting, ok, error
          sent,     \* per call: its requests (history)
          order,    \* the calls in the order they were made (history)
          quiet,    \* the server last asked for no request before this time (history)
          notice    \* of that pause: heeded, or lost with the answer that asked for it (history)
cvars == <<now, last, promises, current, stage, wake, attempt, outcome, sent, order, quiet, notice>>

Never == -Spacing   \* -Infinity, before the first request: no sleep

ClientTypeOK ==
  /\ now \in Nat /\ last \in {Never} \cup Nat /\ wake \in Nat /\ quiet \in Nat
  /\ promises \in Seq(Gets) /\ order \in Seq(Gets) /\ current \in Gets \cup {NoGet}
  /\ stage \in {"idle", "sleeping", "fetching", "backoff"} /\ notice \in {"heeded", "lost"}
  /\ attempt \in 0..MaxRetries
  /\ outcome \in [Gets -> {"new", "waiting", "ok", "error"}]
  /\ sent \in [Gets -> Nat]

ClientInit ==
  /\ now = 0 /\ last = Never /\ promises = <<>> /\ current = NoGet /\ stage = "idle" /\ wake = 0
  /\ attempt = 0 /\ outcome = [g \in Gets |-> "new"] /\ sent = [g \in Gets |-> 0]
  /\ order = <<>> /\ quiet = 0 /\ notice = "heeded"

\* A caller asks for a path; the promise joins the chain.
Get(g) ==
  /\ outcome[g] = "new"
  /\ outcome' = [outcome EXCEPT ![g] = "waiting"]
  /\ promises' = Append(promises, g) /\ order' = Append(order, g)
  /\ UNCHANGED <<now, last, current, stage, wake, attempt, sent, quiet, notice>>

\* The head of spacedRequest: how long to sleep before the request may leave.
SleepFor == IF Spacing - (now - last) > 0 THEN Spacing - (now - last) ELSE 0

Sleep == /\ stage' = "sleeping" /\ wake' = now + SleepFor

\* The chain reaches the next call.
StartNext ==
  /\ stage = "idle" /\ promises # <<>>
  /\ current' = Head(promises) /\ promises' = Tail(promises) /\ attempt' = 0
  /\ Sleep
  /\ UNCHANGED <<now, last, outcome, sent, order, quiet, notice>>

\* The sleep is over: the request leaves.
SendRequest ==
  /\ stage = "sleeping" /\ now >= wake
  /\ last' = now /\ stage' = "fetching"
  /\ sent' = [sent EXCEPT ![current] = @ + 1]
  /\ UNCHANGED <<now, promises, current, wake, attempt, outcome, order, quiet, notice>>

FailTogether(result) ==
  /\ outcome' = [g \in Gets |-> IF g = current THEN result
                 ELSE IF result = "error" /\ outcome[g] = "waiting" THEN "error" ELSE outcome[g]]
  /\ current' = NoGet /\ stage' = "idle" /\ promises' = IF result = "error" THEN <<>> ELSE promises
  /\ UNCHANGED <<now, wake, attempt, sent, order>>
\* The promise of the current call settles, and the chain moves on, whatever the result is.
SettleGet(result) ==
  /\ outcome' = [outcome EXCEPT ![current] = result]
  /\ current' = NoGet /\ stage' = "idle"
  /\ UNCHANGED <<now, promises, wake, attempt, sent, order>>

\* The server asks for a pause of `length`, in an answer that is heeded or lost.
Asked(length, how) == quiet' = now + length /\ notice' = how

SucceedUnpaused(exhausted, result) ==
  /\ stage = "fetching"
  /\ IF exhausted THEN Asked(Window, "heeded") ELSE UNCHANGED <<quiet, notice>>
  /\ SettleGet(result) /\ UNCHANGED last
\* An ok answer, whose body may be no JSON; exhausted: x-requests-available-minute is 1 or 0.
Succeed(exhausted, result) ==
  /\ stage = "fetching"
  /\ last' = IF exhausted THEN now + Window ELSE last
  /\ IF exhausted THEN Asked(Window, "heeded") ELSE UNCHANGED <<quiet, notice>>
  /\ SettleGet(result)

\* Another status, or a network error.
GetFails == stage = "fetching" /\ SettleGet("error") /\ UNCHANGED <<last, quiet, notice>>

\* A 429 after the last retry (or another refusal that names a pause): the code throws before it
\* looks at the header, so `last` stays and the pause is lost.
RefusedAsking(length) ==
  /\ stage = "fetching" /\ (length # Window => attempt = MaxRetries)
  /\ SettleGet("error") /\ Asked(length, "lost") /\ UNCHANGED last

Requeue(seconds) ==
  /\ stage = "fetching" /\ attempt < MaxRetries
  /\ stage' = "idle" /\ promises' = Append(promises, current) /\ current' = NoGet
  /\ UNCHANGED <<now, last, wake, attempt, outcome, sent, order, quiet, notice>>
\* 429 with retries left: sleep for retry-after.
TooMany(seconds) ==
  /\ stage = "fetching" /\ attempt < MaxRetries
  /\ stage' = "backoff" /\ wake' = now + seconds /\ Asked(seconds, "heeded")
  /\ UNCHANGED <<now, last, promises, current, attempt, outcome, sent, order>>

RetryAsNew ==
  /\ stage = "backoff" /\ now >= wake
  /\ attempt' = 0
  /\ Sleep
  /\ UNCHANGED <<now, last, promises, current, outcome, sent, order, quiet, notice>>
\* The backoff is over: spacedRequest(path, attempt + 1).
Retry ==
  /\ stage = "backoff" /\ now >= wake
  /\ attempt' = attempt + 1
  /\ Sleep
  /\ UNCHANGED <<now, last, promises, current, outcome, sent, order, quiet, notice>>

\* Time passes: while a timer runs or is late, while the server works, and between calls until
\* waiting longer makes no difference.
ClientTick ==
  /\ CASE stage = "fetching" -> now < last + Latency
       [] stage = "idle" -> last # Never /\ SleepFor > 0
       [] OTHER -> now < wake + Late
  /\ now' = now + 1
  /\ UNCHANGED <<last, promises, current, stage, wake, attempt, outcome, sent, order, quiet, notice>>

Progress == StartNext \/ SendRequest \/ Retry \/ (stage # "idle" /\ ClientTick)
Answer ==
  \/ GetFails \/ (\E s \in RetryAfters : TooMany(s)) \/ (\E s \in RetryAfters \cup {Window} : RefusedAsking(s))
  \/ \E e \in BOOLEAN, result \in {"ok", "error"} : Succeed(e, result)
ClientNext == (\E g \in Gets : Get(g)) \/ Progress \/ Answer \/ (stage = "idle" /\ ClientTick)

\* Timers fire, the chain's microtasks run, and fetch settles (with an answer or an error).
ClientFairness ==
  /\ WF_cvars(StartNext) /\ WF_cvars(SendRequest) /\ WF_cvars(Retry) /\ WF_cvars(Answer)
  /\ WF_cvars(stage # "idle" /\ ClientTick)

ClientSpec == ClientInit /\ [][ClientNext]_cvars /\ ClientFairness

(* Two requests of one client are never less than Spacing apart, and none leaves while a pause *)
(* lasts that the client heeded: one an ok answer told of (the budget is exhausted, even when   *)
(* its body cannot be read), or the retry-after of a 429 it retries.  What a refusal it does    *)
(* not retry asks for, the client never looks at.                                               *)
RequestsSpaced ==
  [][SendRequest => now >= last + Spacing /\ (notice = "heeded" => now >= quiet)]_cvars

(* Calls are served one at a time in the order they were made: a retry or a pause lets no later *)
(* call overtake, so an earlier call is settled before a later one is sent.                    *)
ServedInOrder ==
  \A i, j \in 1..Len(order) :
    (i < j /\ sent[order[j]] > 0) => outcome[order[i]] \in {"ok", "error"}

(* A call costs at most 1 + MaxRetries requests of the shared budget.                           *)
RetriesBounded == \A g \in Gets : sent[g] <= 1 + MaxRetries

(* A failed call does not take the ones behind it with it: in the end no call of get still      *)
(* waits, and each one had its own request.                                                     *)
EveryGetSettles == <>[](\A g \in Gets : outcome[g] # "waiting" /\ (outcome[g] # "new" => sent[g] > 0))

(* The queue of the client: in order, and within the budget of every call.                      *)
ClientInv == ClientTypeOK /\ ServedInOrder /\ RetriesBounded

(* Every call is served, and none too early.                                                    *)
ClientServes == RequestsSpaced /\ EveryGetSettles
=============================================================================
