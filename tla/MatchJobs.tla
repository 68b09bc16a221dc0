------------------------------ MODULE MatchJobs ------------------------------
(***************************************************************************)
(* The delayed jobs of one match and their times: the scan of              *)
(* apps/worker/src/schedule/match-scheduler.service.ts queues them from    *)
(* the kick-off and the configuration it read, while administrators edit   *)
(* the configuration, the feed moves the kick-off, and scans overlap (the  *)
(* timer's and a manual trigger's).  The lock job hard-locks betting.      *)
(***************************************************************************)
EXTENDS Integers

CONSTANTS
    Scanners,   \* the callers of scan: the timer loop, the control channel
    Kickoffs,   \* the times the match's kick-off may be set to
    Leads,      \* the values leadMinutes may be given
    FirstDelay, \* result_check.firstDelayMinutes
    Behind,     \* scanBehindHours; the instances are shorter than scanAheadHours
    MaxTime,    \* bound: the last instant
    MaxEdits    \* bound: edits of a behaviour (configuration, kick-off, unlocking)

ASSUME JobsAssumption ==
    /\ Kickoffs \subseteq 0..MaxTime /\ Kickoffs # {} /\ Leads \subseteq Nat /\ Leads # {}
    /\ {FirstDelay, Behind, MaxTime, MaxEdits} \subseteq Nat

Jobs == {"lineup", "lock", "result"}
Rescheduled == {"lineup", "lock"}
NotRead == -1

VARIABLES
    clock, kickoff, matchStatus, locked,  \* the clock and the match row
    lead,      \* lead[j]: leadMinutes of job j's ScheduleJob row
    on,        \* the jobs whose row is enabled
    queue,     \* queue[j]: whether job id j:ID is absent, delayed or done
    due,       \* due[j]: when the queue hands it to its worker
    snap,      \* what each scan under way read: kick-off, leads, enabled jobs
    lastScan,  \* history: the last scan's time for each job, NotRead before it
    edits      \* edits so far

config == <<lead, on>>
jobs == <<queue, due>>
jobVars == <<clock, kickoff, matchStatus, locked, config, jobs, snap, lastScan, edits>>

Times == 0..(MaxTime + FirstDelay)
NoScan == [kickoff |-> NotRead]

\* This module's type invariant.
JobsTypeOK ==
    /\ clock \in 0..MaxTime /\ kickoff \in Kickoffs
    /\ matchStatus \in {"SCHEDULED", "LIVE", "FINISHED"} /\ locked \in BOOLEAN
    /\ lead \in [Rescheduled -> Leads] /\ on \in SUBSET Jobs
    /\ queue \in [Jobs -> {"absent", "delayed", "done"}] /\ due \in [Jobs -> Times]
    /\ snap \in [Scanners -> [kickoff : Kickoffs, lead : [Rescheduled -> Leads],
                              on : SUBSET Jobs] \union {NoScan}]
    /\ lastScan \in [Rescheduled -> Times \union {NotRead}]
    /\ edits \in 0..MaxEdits

JobsInit ==
    /\ clock = 0 /\ kickoff \in Kickoffs /\ matchStatus = "SCHEDULED" /\ locked = FALSE
    /\ lead \in [Rescheduled -> Leads] /\ on = Jobs
    /\ queue = [j \in Jobs |-> "absent"] /\ due = [j \in Jobs |-> 0]
    /\ snap = [s \in Scanners |-> NoScan]
    /\ lastScan = [j \in Rescheduled |-> NotRead]
    /\ edits = 0
-----------------------------------------------------------------------------
\* lockBettingDelayMs, lineupDelayMs, firstResultCheckDelayMs: the instant each
\* job is due, at once when that has passed.
NotBefore(t) == IF t > clock THEN t ELSE clock
DueTime(j, s) == NotBefore(IF j = "result" THEN s.kickoff + FirstDelay
                           ELSE s.kickoff - s.lead[j])

\* scan reads the configuration, then the match, if it is in the scan's window.
ReadConfig(s) ==
    /\ snap[s] = NoScan
    /\ matchStatus \in {"SCHEDULED", "LIVE"} /\ clock <= kickoff + Behind
    /\ snap' = [snap EXCEPT ![s] = [kickoff |-> kickoff, lead |-> lead, on |-> on]]
    /\ UNCHANGED <<clock, kickoff, matchStatus, locked, config, jobs, lastScan, edits>>

\* The jobs of the match are queued: lineup and lock are removed and added again,
\* the first result check is added if its id is free.
AddedIfAbsent(j) == queue[j] = "absent"
RequeuedUntilDone(j) == queue[j] # "done" /\ (j \in Rescheduled \/ queue[j] = "absent")
Requeued(j) == j \in Rescheduled \/ queue[j] = "absent"
QueueJobs(s) ==
    /\ snap[s] # NoScan
    /\ LET read == snap[s] IN
       /\ queue' = [j \in Jobs |-> IF j \notin read.on THEN "absent"
                                   ELSE IF Requeued(j) THEN "delayed" ELSE queue[j]]
       /\ due' = [j \in Jobs |-> IF j \in read.on /\ Requeued(j) THEN DueTime(j, read)
                                 ELSE due[j]]
       /\ lastScan' = [j \in Rescheduled |->
                          IF j \in read.on THEN DueTime(j, read) ELSE lastScan[j]]
    /\ snap' = [snap EXCEPT ![s] = NoScan]
    /\ UNCHANGED <<clock, kickoff, matchStatus, locked, config, edits>>

\* A worker takes a job that is due.  The lock worker locks a match that is still
\* SCHEDULED; the others touch nothing of this module.
Run(j) ==
    /\ queue[j] = "delayed" /\ clock >= due[j]
    /\ queue' = [queue EXCEPT ![j] = "done"]
    /\ locked' = (locked \/ (j = "lock" /\ "lock" \in on /\ matchStatus = "SCHEDULED"))
    /\ UNCHANGED <<clock, kickoff, matchStatus, config, due, snap, lastScan, edits>>
-----------------------------------------------------------------------------
JobsTick == clock < MaxTime /\ clock' = clock + 1
        /\ UNCHANGED <<kickoff, matchStatus, locked, config, jobs, snap, lastScan, edits>>

\* The feed reports the match in play, then finished.
MatchAdvances ==
    /\ \/ matchStatus = "SCHEDULED" /\ clock >= kickoff /\ matchStatus' = "LIVE"
       \/ matchStatus = "LIVE" /\ matchStatus' = "FINISHED"
    /\ UNCHANGED <<clock, kickoff, locked, config, jobs, snap, lastScan, edits>>

Edit == edits < MaxEdits /\ edits' = edits + 1

\* A full sync moves the kick-off of a match that has not started.
MoveKickoff(t) ==
    /\ Edit /\ matchStatus = "SCHEDULED" /\ t > clock
    /\ kickoff' = t
    /\ UNCHANGED <<clock, matchStatus, locked, config, jobs, snap, lastScan>>

\* PATCH schedule-jobs/[key].
SetLead(j, m) ==
    /\ Edit
    /\ lead' = [lead EXCEPT ![j] = m]
    /\ UNCHANGED <<clock, kickoff, matchStatus, locked, on, jobs, snap, lastScan>>

ToggleJob(j) ==
    /\ Edit
    /\ on' = IF j \in on THEN on \ {j} ELSE on \union {j}
    /\ UNCHANGED <<clock, kickoff, matchStatus, locked, lead, jobs, snap, lastScan>>

\* POST lock-betting.
SetLock(to) ==
    /\ Edit
    /\ locked' = to
    /\ UNCHANGED <<clock, kickoff, matchStatus, config, jobs, snap, lastScan>>
-----------------------------------------------------------------------------
JobsNext ==
    \/ \E s \in Scanners : ReadConfig(s) \/ QueueJobs(s)
    \/ \E j \in Jobs : Run(j) \/ ToggleJob(j)
    \/ JobsTick \/ MatchAdvances
    \/ \E t \in Kickoffs : MoveKickoff(t)
    \/ \E j \in Rescheduled, m \in Leads : SetLead(j, m)
    \/ \E to \in BOOLEAN : SetLock(to)

JobsSpec == JobsInit /\ [][JobsNext]_jobVars

\* The timer loop scans again and again, time passes, the workers take due jobs.
JobsFairness ==
    /\ WF_jobVars(JobsTick)
    /\ \A s \in Scanners : WF_jobVars(ReadConfig(s)) /\ WF_jobVars(QueueJobs(s))
    /\ \A j \in Jobs : WF_jobVars(Run(j))

JobsFairSpec == JobsSpec /\ JobsFairness
-----------------------------------------------------------------------------
\* A line-up or lock job never runs before the time the last scan gave it: a
\* threshold edited or a kick-off moved since an older scan has taken effect.
FollowsLastScan ==
    [][\A j \in Rescheduled : Run(j) => clock >= lastScan[j]]_jobVars

\* A match that stays SCHEDULED past its lock time, inside the scan's window and
\* with the job enabled, ends up locked, even if an administrator unlocked it.
LockTime == kickoff - lead["lock"]
BettingLocks ==
    (clock >= LockTime /\ clock <= kickoff + Behind /\ matchStatus = "SCHEDULED" /\ "lock" \in on) ~>
        (locked \/ matchStatus # "SCHEDULED" \/ "lock" \notin on \/ clock < LockTime
         \/ clock > kickoff + Behind)

\* The jobs of a match are due within bounds, and none runs early.
JobsFollowScans == []JobsTypeOK /\ FollowsLastScan
=============================================================================
