---------------------------- MODULE MatchPipeline ----------------------------
(***************************************************************************)
(* One match on its way from the feed to its settlement: the requests of   *)
(* packages/pipeline/src/football-data.ts that write its row, the delayed  *)
(* result checks of apps/worker/src/schedule, the                          *)
(* settle job, and the administrator's routes that write the same row.     *)
(*                                                                         *)
(* A BullMQ queue is the state of each job id: adding an id that exists in *)
(* any state does nothing, a finished or failed job keeps its id, and no   *)
(* job has retries; a job whose worker stalls is delivered once more.      *)
(* settleMatch and resettleMatch are atomic here: module Settlement opens  *)
(* them up.                                                                *)
(***************************************************************************)
EXTENDS Integers, FiniteSets

CONSTANTS
    FullSyncs,   \* callers of syncMatches: the fd_sync worker and admin routes
    OtherPolls,  \* "live": the live poll, "one": the route that syncs one match
    MaxAttempts, \* result_check.maxAttempts
    MaxFaults,   \* bound: interventions and failures of a behaviour
    Running,     \* the score the feed reports while the match is played
    Final,       \* the score it reports once the match is finished
    Override,    \* the score administrators enter
    NoScore      \* no score; no Settlement row

ASSUME ConstantsAssumption ==
    /\ MaxAttempts \in Nat /\ MaxFaults \in Nat
    /\ NoScore \notin {Running, Final, Override}
    /\ FullSyncs \intersect {"live", "one"} = {} /\ OtherPolls \subseteq {"live", "one"}

Pollers == FullSyncs \union OtherPolls
Attempts == 0..MaxAttempts
FeedStatus == {"SCHEDULED", "LIVE", "FINISHED"}
Scores == {Running, Final, Override, NoScore}
JobState == {"absent", "waiting", "early", "active", "done", "failed"}

VARIABLES
    feed,        \* the match's status in the feed
    phase,       \* time against the row's kickoffAt: 0 before the lock time, 1
                 \* kick-off, 2 the first check is due, 3 outside the scan's window
    status,      \* the match row: status,
    score,       \*   scoreHome90 and scoreAway90,
    source,      \*   and source ("NONE" is NULL)
    settlement,  \* the score of the DONE Settlement row, or NoScore
    enabled,     \* the ScheduleJob row of result_check is enabled
    check,       \* check[n]: the job result:ID:n
    decision,    \* what the running check decided
    settleJob,   \* the job settle:ID
    settleArg,   \* the score it read off the match row
    stalled,     \* the jobs already delivered a second time
    poll,        \* where each feed request stands
    resp,        \* the status each request was answered
    marking,     \* a re-settle route has yet to write source = ADMIN
    faults,      \* administrator's interventions and failures so far
    pushed,      \* history: an administrator pushed a score or re-settled
    regressed,   \* history: a late answer took the row back from FINISHED
    kept,        \* history: the ADMIN mark was set with no write under way
    gaveUp       \* history: the chain of checks ended without settling

row == <<status, score, source>>
requests == <<poll, resp>>
chain == <<check, decision, settleJob, settleArg, stalled>>
history == <<pushed, regressed, kept, gaveUp>>
vars == <<feed, phase, row, settlement, enabled, chain,
          requests, marking, faults, history>>

\* mapFdStatus and mapFdScore: what the row holds after the feed says st.
FeedScore(st) == CASE st = "SCHEDULED" -> NoScore
                   [] st = "LIVE" -> Running
                   [] st = "FINISHED" -> Final

\* This module's type invariant.
TypeOK ==
    /\ feed \in FeedStatus /\ phase \in 0..3
    /\ status \in FeedStatus /\ score \in Scores
    /\ source \in {"NONE", "API", "ADMIN"}
    /\ settlement \in Scores
    /\ enabled \in BOOLEAN
    /\ check \in [Attempts -> JobState]
    /\ decision \in {"skip", "settle", "recheck", "stop"}
    /\ settleJob \in JobState /\ settleArg \in Scores
    /\ stalled \in SUBSET (Attempts \union {-1})
    /\ poll \in [Pollers -> {"idle", "asked", "fetched", "write"}]
    /\ resp \in [Pollers -> FeedStatus]
    /\ faults \in 0..MaxFaults
    /\ {marking, pushed, regressed, kept, gaveUp} \subseteq BOOLEAN

Init ==
    /\ feed = "SCHEDULED" /\ phase = 0
    /\ status = "SCHEDULED" /\ score = NoScore /\ source = "NONE"
    /\ settlement = NoScore /\ enabled = TRUE
    /\ check = [n \in Attempts |-> "absent"] /\ decision = "skip"
    /\ settleJob = "absent" /\ settleArg = NoScore
    /\ stalled = {}
    /\ poll = [p \in Pollers |-> "idle"] /\ resp = [p \in Pollers |-> "SCHEDULED"]
    /\ marking = FALSE /\ faults = 0 /\ pushed = FALSE /\ regressed = FALSE
    /\ kept = FALSE /\ gaveUp = FALSE
-----------------------------------------------------------------------------
(* The feed and the clock. *)

\* An intervention of an administrator or a failure: MaxFaults of them.
Fault == faults < MaxFaults /\ faults' = faults + 1


FeedAdvances ==
    /\ \/ feed = "SCHEDULED" /\ phase > 0 /\ feed' = "LIVE"
       \/ feed = "LIVE" /\ feed' = "FINISHED"
    /\ UNCHANGED <<phase, row, settlement, enabled, chain,
                   requests, marking, faults, history>>

\* The clock.  Once the match is outside the scan's window a chain that was never started
\* stays so.
Tick ==
    /\ phase < 3
    /\ phase' = phase + 1
    /\ gaveUp' = (gaveUp \/ (phase = 2 /\ check[0] = "absent"))
    /\ UNCHANGED <<feed, row, settlement, enabled, chain,
                   requests, marking, faults, pushed, regressed, kept>>
-----------------------------------------------------------------------------
(* Feed requests. *)

Move(p, to) == poll' = [poll EXCEPT ![p] = to] /\ UNCHANGED resp

\* The request is over; its answer is forgotten.
Over(p) == poll' = [poll EXCEPT ![p] = "idle"] /\ resp' = [resp EXCEPT ![p] = "SCHEDULED"]

\* The request is answered with what the feed says now.
Answered(p, to) == poll' = [poll EXCEPT ![p] = to] /\ resp' = [resp EXCEPT ![p] = feed]

\* syncMatches and the live poll ask first and read the row later.  The live
\* poll is answered the matches that are LIVE; it asks when any row is near its
\* kick-off or LIVE, be it this one's or another's.
Fetch(p) ==
    /\ p # "one" /\ poll[p] = "idle"
    /\ p = "live" => feed = "LIVE"
    /\ Answered(p, "fetched")
    /\ UNCHANGED <<feed, phase, row, settlement, enabled, chain,
                   marking, faults, history>>

\* The poll passes over a row an administrator marked, the live poll also over
\* one that shows the answer already.
SkipsUnchanged(p) == p = "live" /\ status = resp[p] /\ score = FeedScore(resp[p])
Skips(p) == source = "ADMIN" \/ SkipsUnchanged(p)

\* The row's source (and, for the live poll, its status and score) is read.
CheckSource(p) ==
    /\ poll[p] = "fetched"
    /\ IF Skips(p) THEN Over(p) ELSE Move(p, "write")
    /\ UNCHANGED <<feed, phase, row, settlement, enabled, chain,
                   marking, faults, history>>

\* The sync-result route refuses a settled match before it asks the feed.
AskOne ==
    /\ "one" \in OtherPolls /\ poll["one"] = "idle" /\ settlement = NoScore
    /\ Move("one", "asked")
    /\ UNCHANGED <<feed, phase, row, settlement, enabled, chain,
                   marking, faults, history>>

FetchOne ==
    /\ "one" \in OtherPolls /\ poll["one"] = "asked"
    /\ Answered("one", "write")
    /\ UNCHANGED <<feed, phase, row, settlement, enabled, chain,
                   marking, faults, history>>

WriteRow(p) ==
    /\ poll[p] = "write"
    /\ Over(p)
    /\ status' = resp[p] /\ score' = FeedScore(resp[p]) /\ source' = "API"
    /\ regressed' = (regressed \/ (status = "FINISHED" /\ resp[p] # "FINISHED"))
    /\ UNCHANGED <<feed, phase, settlement, enabled, chain,
                   marking, faults, pushed, kept, gaveUp>>

\* A request that fails changes nothing.
RequestFails(p) ==
    /\ Fault
    /\ poll[p] # "idle"
    /\ Over(p)
    /\ UNCHANGED <<feed, phase, row, settlement, enabled, chain,
                   marking, history>>

\* syncMatches writes the schedule of every row, ADMIN or not: a kick-off moved
\* to a later day.  Jobs in the queue keep the delay they were added with.
Postpone ==
    /\ Fault
    /\ feed = "SCHEDULED" /\ phase > 0
    /\ phase' = 0
    /\ check' = [check EXCEPT ![0] = IF @ = "waiting" THEN "early" ELSE @]
    /\ UNCHANGED <<feed, row, settlement, enabled, decision, settleJob,
                   settleArg, stalled, requests, marking, history>>
-----------------------------------------------------------------------------
(* The scheduler. *)

\* result:ID:0 is added, or removed when the job is disabled; a job that runs
\* cannot be removed.  (The lock and line-up jobs: module MatchJobs.)
Scan ==
    /\ status \in {"SCHEDULED", "LIVE"} /\ phase < 3
    /\ check' = [check EXCEPT ![0] =
                    IF enabled
                    THEN IF @ = "absent" THEN "waiting" ELSE @
                    ELSE IF @ = "active" THEN @ ELSE "absent"]
    /\ UNCHANGED <<feed, phase, row, settlement, enabled, decision,
                   settleJob, settleArg, stalled, requests, marking, faults, history>>

\* PATCH schedule-jobs/[key].
Toggle ==
    /\ IF enabled THEN Fault ELSE UNCHANGED faults
    /\ enabled' = ~enabled
    /\ UNCHANGED <<feed, phase, row, settlement, chain,
                   requests, marking, history>>
-----------------------------------------------------------------------------
(* The result checks. *)

decideOnScore(n) ==
    IF score # NoScore THEN "settle"
    ELSE IF n >= MaxAttempts THEN "stop" ELSE "recheck"
decideResultCheck(n) ==
    IF status = "FINISHED" /\ score # NoScore THEN "settle"
    ELSE IF n >= MaxAttempts THEN "stop" ELSE "recheck"

\* The worker runs one check at a time.
StartCheck(n) ==
    /\ \A k \in Attempts : check[k] # "active"
    /\ \/ check[n] = "early"
       \/ check[n] = "waiting" /\ (n = 0 => phase >= 2)
    /\ check' = [check EXCEPT ![n] = "active"]
    /\ decision' = IF enabled THEN decideResultCheck(n) ELSE "skip"
    /\ UNCHANGED <<feed, phase, row, settlement, enabled, settleJob, settleArg,
                   stalled, requests, marking, faults, history>>

\* queue.add: an id that exists, whatever became of its job, is not added again.
AddedOverDone(state) == IF state \in {"absent", "done"} THEN "waiting" ELSE state
Added(state) == IF state = "absent" THEN "waiting" ELSE state

\* A re-check has the next attempt in its id.
SameAttempt(n) == n
NextAttempt(n) == n + 1

\* The jobs the decision of check n adds, check n itself going to state to.
Enqueue(n, to) ==
    /\ settleJob' = IF decision = "settle" THEN Added(settleJob) ELSE settleJob
    /\ check' = [k \in Attempts |->
                    IF k = n THEN to
                    ELSE IF decision = "recheck" /\ k = NextAttempt(n) THEN Added(check[k])
                    ELSE check[k]]

EndCheck(n) ==
    /\ check[n] = "active"
    /\ Enqueue(n, "done")
    /\ decision' = "skip"
    /\ gaveUp' = (gaveUp \/ decision \in {"stop", "skip"})
    /\ UNCHANGED <<feed, phase, row, settlement, enabled, settleArg,
                   stalled, requests, marking, faults, pushed, regressed, kept>>

\* The worker dies, before or after the handler added its job: the check is
\* delivered once more, a second time it fails.
StallCheck(n) ==
    /\ Fault
    /\ check[n] = "active"
    /\ LET to == IF n \in stalled THEN "failed" ELSE "waiting" IN
       \/ Enqueue(n, to)
       \/ check' = [check EXCEPT ![n] = to] /\ UNCHANGED settleJob
    /\ stalled' = stalled \union {n}
    /\ decision' = "skip"
    /\ gaveUp' = (gaveUp \/ n \in stalled)
    /\ UNCHANGED <<feed, phase, row, settlement, enabled, settleArg,
                   requests, marking, pushed, regressed, kept>>
\* The handler throws, before or after it added its job: nothing retries the check.
ThrowCheck(n) ==
    /\ Fault
    /\ check[n] = "active"
    /\ \/ Enqueue(n, "failed") /\ gaveUp' = (gaveUp \/ decision \in {"stop", "skip"})
       \/ check' = [check EXCEPT ![n] = "failed"] /\ gaveUp' = TRUE /\ UNCHANGED settleJob
    /\ decision' = "skip"
    /\ UNCHANGED <<feed, phase, row, settlement, enabled, settleArg,
                   stalled, requests, marking, pushed, regressed, kept>>
-----------------------------------------------------------------------------
(* The settle job. *)

\* It reads the score off the row, whatever the row's status, and is skipped
\* when there is none.
StartSettle ==
    /\ settleJob = "waiting"
    /\ settleArg' = score
    /\ settleJob' = IF score = NoScore THEN "done" ELSE "active"
    /\ gaveUp' = (gaveUp \/ score = NoScore)
    /\ UNCHANGED <<feed, phase, row, settlement, enabled, check, decision,
                   stalled, requests, marking, faults, pushed, regressed, kept>>

\* settleMatch: a DONE settlement is left alone.
Settle ==
    IF settlement # NoScore THEN UNCHANGED <<status, score, settlement>>
    ELSE status' = "FINISHED" /\ score' = settleArg /\ settlement' = settleArg

EndSettle ==
    /\ settleJob = "active"
    /\ Settle
    /\ settleJob' = "done"
    /\ settleArg' = NoScore
    /\ UNCHANGED <<feed, phase, source, enabled, check, decision,
                   stalled, requests, marking, faults, history>>

\* The job throws, or its worker dies before or after the commit (-1 stands for
\* the settle job in stalled).
FailSettle ==
    /\ Fault
    /\ settleJob = "active"
    /\ \/ /\ settleJob' = "failed" /\ gaveUp' = TRUE
          /\ UNCHANGED <<status, score, settlement, stalled>>
       \/ /\ Settle \/ UNCHANGED <<status, score, settlement>>
          /\ settleJob' = IF -1 \in stalled THEN "failed" ELSE "waiting"
          /\ gaveUp' = (gaveUp \/ -1 \in stalled)
          /\ stalled' = stalled \union {-1}
    /\ settleArg' = NoScore
    /\ UNCHANGED <<feed, phase, source, enabled, check, decision,
                   requests, marking, pushed, regressed, kept>>
-----------------------------------------------------------------------------
(* The administrator. *)

\* POST live-score writes score and status, whatever the row's source.
PushScore(st) ==
    /\ Fault
    /\ status' = st /\ score' = Override
    /\ pushed' = TRUE /\ kept' = FALSE
    /\ UNCHANGED <<feed, phase, source, settlement, enabled, chain,
                   requests, marking, regressed, gaveUp>>

\* POST resettle: resettleMatch first, the mark in a statement of its own.
Resettle ==
    /\ Fault
    /\ ~marking
    /\ status' = "FINISHED" /\ score' = Override /\ settlement' = Override
    /\ marking' = TRUE
    /\ pushed' = TRUE
    /\ UNCHANGED <<feed, phase, source, enabled, chain,
                   requests, regressed, kept, gaveUp>>

MarkAdmin ==
    /\ marking
    /\ marking' = FALSE
    /\ source' = "ADMIN"
    /\ kept' = (/\ status = "FINISHED" /\ score = settlement
                /\ \A p \in Pollers : poll[p] \in {"idle", "fetched"})
    /\ UNCHANGED <<feed, phase, status, score, settlement, enabled, chain,
                   requests, faults, pushed, regressed, gaveUp>>

MarkFails ==
    /\ marking
    /\ marking' = FALSE
    /\ UNCHANGED <<feed, phase, row, settlement, enabled, chain,
                   requests, faults, history>>
-----------------------------------------------------------------------------
Next ==
    \/ FeedAdvances \/ Tick \/ Postpone \/ AskOne \/ FetchOne
    \/ \E p \in Pollers : Fetch(p) \/ CheckSource(p) \/ WriteRow(p) \/ RequestFails(p)
    \/ Scan \/ Toggle
    \/ \E n \in Attempts : StartCheck(n) \/ EndCheck(n) \/ StallCheck(n) \/ ThrowCheck(n)
    \/ StartSettle \/ EndSettle \/ FailSettle
    \/ \E st \in {"LIVE", "FINISHED"} : PushScore(st)
    \/ Resettle \/ MarkAdmin \/ MarkFails

Spec == Init /\ [][Next]_vars

\* The timers of the scan and of the full sync go on, a request does not fail
\* for ever, time passes up to the first check, and the workers take the jobs
\* that are due.  Nothing obliges the live poll, an administrator or the feed.
Fairness ==
    /\ WF_vars(Scan)
    /\ WF_vars(Tick /\ phase < 2)
    /\ \A p \in FullSyncs : /\ WF_vars(Fetch(p))
                            /\ SF_vars(CheckSource(p)) /\ SF_vars(WriteRow(p))
    /\ \A n \in Attempts : WF_vars(StartCheck(n)) /\ WF_vars(EndCheck(n))
    /\ WF_vars(StartSettle) /\ WF_vars(EndSettle)

FairSpec == Spec /\ Fairness
-----------------------------------------------------------------------------
(* Properties. *)

\* When no administrator intervened and no late answer took the row back, a
\* settled match was settled with the feed's final score and shows it: no check
\* and no settle job acts on a running score.
SettledWithFinal ==
    (settlement # NoScore /\ ~pushed /\ ~regressed) =>
        settlement = Final /\ status = "FINISHED" /\ score = Final

\* After an administrator's result was marked with no feed write under way, no
\* feed request and no job changes it.
AdminResultKept ==
    kept => status = "FINISHED" /\ score = settlement /\ source = "ADMIN"

\* Stalls aside, one re-check at most is pending: disabling the job and enabling
\* it again runs the first check once more, and its chain meets the ids already
\* used instead of running beside the old one.
OneChain ==
    stalled = {} =>
        Cardinality({n \in Attempts \ {0} : check[n] \in {"waiting", "active"}}) <= 1

\* The scan looks at SCHEDULED and LIVE matches only: a match that finished
\* before its first check was added, or while the job was disabled, has no chain.
NeverStarted == status = "FINISHED" /\ check[0] = "absent"

\* A match the feed reports finished is settled, or the chain of its checks came
\* to an end an administrator can see: attempts used up, job disabled, failed,
\* skipped, or never started.
AutoSettles == feed = "FINISHED" ~> (settlement # NoScore \/ gaveUp \/ NeverStarted)

\* The jobs of a match are in states BullMQ knows, and its checks are one chain.
PipelineInv == TypeOK /\ OneChain
=============================================================================
