--------------------------- MODULE PipelineProofs ---------------------------
(***************************************************************************)
(* Theorems about packages/pipeline.  The first part is about the pipeline *)
(* of a match, for any number of full syncs, attempts, interventions and   *)
(* failures; the second about the news, for any number of requests,        *)
(* headlines, articles, decisions and days; the third about the delayed    *)
(* jobs of a match, for any number of scanners and edits.                  *)
(***************************************************************************)
EXTENDS MatchPipeline, MatchJobs, News, FiniteSetTheorems, SequenceTheorems, TLAPS

\* What keeps a running score out of the settlement: from the check that decides
\* to settle to the commit the row is FINISHED, with the feed's final score, and the
\* settle job carries that score.
FinalOnItsWay ==
    (~pushed /\ ~regressed) =>
        /\ status = "FINISHED" => score = Final
        /\ (decision = "settle" \/ settleJob \in {"waiting", "active"}
            \/ settlement # NoScore) => status = "FINISHED"
        /\ settleJob = "active" => settleArg = Final
        /\ settlement # NoScore => settlement = Final

\* What keeps an administrator's result: it is settled, so the settle job leaves it
\* alone and the route for one match refuses; and every request that has still to
\* write has still to read the source.
NobodyWrites ==
    /\ kept => /\ status = "FINISHED" /\ score = settlement /\ source = "ADMIN"
               /\ settlement # NoScore
               /\ \A p \in Pollers : poll[p] \in {"idle", "fetched"}
    /\ marking => settlement # NoScore

\* What keeps the re-checks a chain: an attempt is only queued when every earlier
\* re-check is over.
ChainInOrder ==
    stalled = {} =>
        \A m, n \in Attempts \ {0} : (m < n /\ check[n] # "absent") => check[m] \in {"done", "failed"}

PipelineIInv == TypeOK /\ FinalOnItsWay /\ NobodyWrites /\ ChainInOrder
-----------------------------------------------------------------------------
(* Types. *)

\* A bounded number of interventions and failures.
LEMMA FaultType == ASSUME TypeOK, Fault PROVE faults' \in 0..MaxFaults
  BY ConstantsAssumption DEF TypeOK, Fault

\* The checks after one ended or stalled.
LEMMA EnqueueTypes ==
  ASSUME TypeOK, NEW n \in Attempts, NEW to \in JobState, Enqueue(n, to)
  PROVE  check' \in [Attempts -> JobState] /\ settleJob' \in JobState
<1>1. \A st \in JobState : Added(st) \in JobState
  BY DEF Added, JobState
<1> QED
  BY <1>1 DEF Enqueue, TypeOK

\* Every action keeps the types.
LEMMA TypeStep == TypeOK /\ [Next]_vars => TypeOK'
<1> SUFFICES ASSUME TypeOK, [Next]_vars PROVE TypeOK'
  OBVIOUS
<1> USE DEF row, requests, chain, history, FeedStatus, Scores
<1>1. CASE FeedAdvances
  BY <1>1 DEF FeedAdvances, TypeOK
<1>2. CASE Tick
  BY <1>2 DEF Tick, TypeOK
<1>3. CASE Postpone
  <2>1. faults' \in 0..MaxFaults
    BY <1>3, FaultType DEF Postpone
  <2>2. check' \in [Attempts -> JobState]
    BY <1>3 DEF Postpone, TypeOK, JobState
  <2> QED
    BY <1>3, <2>1, <2>2 DEF Postpone, TypeOK
<1>4. CASE AskOne
  <2>1. poll' \in [Pollers -> {"idle", "asked", "fetched", "write"}]
    BY <1>4 DEF AskOne, Move, TypeOK
  <2> QED
    BY <1>4, <2>1 DEF AskOne, Move, TypeOK
<1>5. CASE FetchOne
  <2>1. /\ poll' \in [Pollers -> {"idle", "asked", "fetched", "write"}]
        /\ resp' \in [Pollers -> FeedStatus]
    BY <1>5 DEF FetchOne, Answered, TypeOK
  <2> QED
    BY <1>5, <2>1 DEF FetchOne, Answered, TypeOK
<1>6. ASSUME NEW p \in Pollers, Fetch(p) PROVE TypeOK'
  BY <1>6 DEF Fetch, Answered, TypeOK
<1>7. ASSUME NEW p \in Pollers, CheckSource(p) PROVE TypeOK'
  BY <1>7 DEF CheckSource, Over, Move, TypeOK
<1>8. ASSUME NEW p \in Pollers, WriteRow(p) PROVE TypeOK'
  <2>1. resp[p] \in FeedStatus
    BY DEF TypeOK
  <2>2. FeedScore(resp[p]) \in Scores
    BY <2>1 DEF FeedScore
  <2> QED
    BY <1>8, <2>1, <2>2 DEF WriteRow, Over, TypeOK
<1>9. ASSUME NEW p \in Pollers, RequestFails(p) PROVE TypeOK'
  BY <1>9, FaultType DEF RequestFails, Over, TypeOK
<1>10. CASE Scan
  <2>1. check' \in [Attempts -> JobState]
    BY <1>10 DEF Scan, TypeOK, JobState
  <2> QED
    BY <1>10, <2>1 DEF Scan, TypeOK
<1>11. CASE Toggle
  <2>1. faults' \in 0..MaxFaults
    BY <1>11, FaultType DEF Toggle, TypeOK
  <2> QED
    BY <1>11, <2>1 DEF Toggle, TypeOK
<1>12. ASSUME NEW n \in Attempts, StartCheck(n) PROVE TypeOK'
  <2>1. check' \in [Attempts -> JobState]
    BY <1>12 DEF StartCheck, TypeOK, JobState
  <2>2. decision' \in {"skip", "settle", "recheck", "stop"}
    BY <1>12 DEF StartCheck, decideResultCheck
  <2> QED
    BY <1>12, <2>1, <2>2 DEF StartCheck, TypeOK
<1>13. ASSUME NEW n \in Attempts, EndCheck(n) PROVE TypeOK'
  <2>1. check' \in [Attempts -> JobState] /\ settleJob' \in JobState
    BY <1>13, EnqueueTypes DEF EndCheck, JobState
  <2> QED
    BY <1>13, <2>1 DEF EndCheck, TypeOK
<1>14. ASSUME NEW n \in Attempts, StallCheck(n) PROVE TypeOK'
  <2> DEFINE to == IF n \in stalled THEN "failed" ELSE "waiting"
  <2>1. Enqueue(n, to) \/ (check' = [check EXCEPT ![n] = to] /\ UNCHANGED settleJob)
    BY <1>14 DEF StallCheck
  <2>2. to \in JobState
    BY DEF JobState
  <2>3. check' \in [Attempts -> JobState] /\ settleJob' \in JobState
    BY <2>1, <2>2, EnqueueTypes DEF TypeOK
  <2>4. faults' \in 0..MaxFaults
    BY <1>14, FaultType DEF StallCheck
  <2> QED
    BY <1>14, <2>3, <2>4 DEF StallCheck, TypeOK
<1>23. ASSUME NEW n \in Attempts, ThrowCheck(n) PROVE TypeOK'
  <2>1. Enqueue(n, "failed") \/ (check' = [check EXCEPT ![n] = "failed"] /\ UNCHANGED settleJob)
    BY <1>23 DEF ThrowCheck
  <2>2. check' \in [Attempts -> JobState] /\ settleJob' \in JobState
    BY <2>1, EnqueueTypes DEF TypeOK, JobState
  <2>3. faults' \in 0..MaxFaults
    BY <1>23, FaultType DEF ThrowCheck
  <2>4. gaveUp' \in BOOLEAN
    BY <1>23, Zenon DEF ThrowCheck, TypeOK
  <2> QED
    BY <1>23, <2>2, <2>3, <2>4 DEF ThrowCheck, TypeOK
<1>15. CASE StartSettle
  BY <1>15 DEF StartSettle, TypeOK, JobState
<1>16. CASE EndSettle
  BY <1>16 DEF EndSettle, Settle, TypeOK, JobState
<1>17. CASE FailSettle
  <2>1. faults' \in 0..MaxFaults
    BY <1>17, FaultType DEF FailSettle
  <2>2. status' \in FeedStatus /\ score' \in Scores /\ settlement' \in Scores
    BY <1>17 DEF FailSettle, Settle, TypeOK
  <2> QED
    BY <1>17, <2>1, <2>2 DEF FailSettle, TypeOK, JobState
<1>18. ASSUME NEW st \in {"LIVE", "FINISHED"}, PushScore(st) PROVE TypeOK'
  <2>1. /\ faults' \in 0..MaxFaults /\ status' \in FeedStatus
        /\ {marking', pushed', regressed', kept', gaveUp'} \subseteq BOOLEAN
    BY <1>18, FaultType DEF PushScore, TypeOK
  <2> QED
    BY <1>18, <2>1 DEF PushScore, TypeOK
<1>19. CASE Resettle
  BY <1>19, FaultType DEF Resettle, TypeOK
<1>20. CASE MarkAdmin
  <2>1. kept' \in BOOLEAN
    BY <1>20, Zenon DEF MarkAdmin
  <2>2. {marking', pushed', regressed', kept', gaveUp'} \subseteq BOOLEAN
    BY <1>20, <2>1 DEF MarkAdmin, TypeOK
  <2> QED
    BY <1>20, <2>2 DEF MarkAdmin, TypeOK
<1>21. CASE MarkFails
  <2>1. {marking', pushed', regressed', kept', gaveUp'} \subseteq BOOLEAN
    BY <1>21 DEF MarkFails, TypeOK
  <2> QED
    BY <1>21, <2>1 DEF MarkFails, TypeOK
<1>22. CASE UNCHANGED vars
  BY <1>22 DEF vars, TypeOK
<1> QED
  BY <1>1, <1>2, <1>3, <1>4, <1>5, <1>6, <1>7, <1>8, <1>9, <1>10, <1>11, <1>12, <1>13,
     <1>14, <1>15, <1>16, <1>17, <1>18, <1>19, <1>20, <1>21, <1>22, <1>23 DEF Next
-----------------------------------------------------------------------------
(* The final score. *)

scoring == <<status, score, settlement, decision, settleJob, settleArg, pushed, regressed>>

\* A step that touches nothing a settlement is made of.
LEMMA ScoringFrame == ASSUME FinalOnItsWay, UNCHANGED scoring PROVE FinalOnItsWay'
  BY DEF FinalOnItsWay, scoring

\* The job that a check adds to the settle queue was decided on a FINISHED row.
LEMMA EnqueueKeepsFinal ==
  ASSUME TypeOK, FinalOnItsWay, NEW n \in Attempts,
         Enqueue(n, "done") \/ Enqueue(n, "waiting") \/ Enqueue(n, "failed")
         \/ UNCHANGED settleJob,
         decision' = "skip",
         UNCHANGED <<status, score, settlement, settleArg, pushed, regressed>>
  PROVE  FinalOnItsWay'
<1>1. settleJob' = settleJob \/ (decision = "settle" /\ settleJob' = "waiting")
  BY DEF Enqueue, Added
<1> QED
  BY <1>1 DEF FinalOnItsWay

\* The commit of the settlement, of which the job may not learn.
LEMMA SettleKeepsFinal ==
  ASSUME FinalOnItsWay, settleJob = "active",
         Settle \/ UNCHANGED <<status, score, settlement>>,
         settleJob' \in {"done", "failed", "waiting"},
         UNCHANGED <<decision, pushed, regressed>>
  PROVE  FinalOnItsWay'
  BY ConstantsAssumption DEF FinalOnItsWay, Settle

LEMMA FinalStep == TypeOK /\ FinalOnItsWay /\ [Next]_vars => FinalOnItsWay'
<1> SUFFICES ASSUME TypeOK, FinalOnItsWay, [Next]_vars PROVE FinalOnItsWay'
  OBVIOUS
<1> USE DEF row, requests, chain, history
<1>1. CASE FeedAdvances
  BY <1>1, ScoringFrame DEF FeedAdvances, scoring
<1>2. CASE Tick
  BY <1>2, ScoringFrame DEF Tick, scoring
<1>3. CASE Postpone
  BY <1>3, ScoringFrame DEF Postpone, scoring
<1>4. CASE AskOne \/ FetchOne
  BY <1>4, ScoringFrame DEF AskOne, FetchOne, scoring
<1>5. ASSUME NEW p \in Pollers, Fetch(p) \/ CheckSource(p) \/ RequestFails(p)
      PROVE  FinalOnItsWay'
  BY <1>5, ScoringFrame DEF Fetch, CheckSource, RequestFails, scoring
<1>6. ASSUME NEW p \in Pollers, WriteRow(p) PROVE FinalOnItsWay'
  <2>1. resp[p] \in FeedStatus /\ {pushed, regressed} \subseteq BOOLEAN
    BY DEF TypeOK
  <2>2. CASE status = "FINISHED" /\ resp[p] # "FINISHED"
    <3>1. regressed'
      BY <1>6, <2>2 DEF WriteRow
    <3> QED
      BY <3>1 DEF FinalOnItsWay
  <2>3. CASE status # "FINISHED" \/ resp[p] = "FINISHED"
    <3>1. /\ status' = resp[p]
          /\ resp[p] = "FINISHED" => score' = Final
          /\ UNCHANGED <<settlement, decision, settleJob, settleArg, pushed>>
          /\ regressed' = regressed
      BY <1>6, <2>1, <2>3 DEF WriteRow, FeedScore
    <3> QED
      BY <2>3, <3>1 DEF FinalOnItsWay
  <2> QED
    BY <2>2, <2>3
<1>7. CASE Scan \/ Toggle
  BY <1>7, ScoringFrame DEF Scan, Toggle, scoring
<1>8. ASSUME NEW n \in Attempts, StartCheck(n) PROVE FinalOnItsWay'
  <2>1. decision' = "settle" => status = "FINISHED"
    BY <1>8 DEF StartCheck, decideResultCheck
  <2> QED
    BY <1>8, <2>1 DEF FinalOnItsWay, StartCheck
<1>9. ASSUME NEW n \in Attempts, EndCheck(n) PROVE FinalOnItsWay'
  BY <1>9, EnqueueKeepsFinal DEF EndCheck
<1>10. ASSUME NEW n \in Attempts, StallCheck(n) PROVE FinalOnItsWay'
  <2>1. Enqueue(n, "waiting") \/ Enqueue(n, "failed") \/ UNCHANGED settleJob
    BY <1>10 DEF StallCheck
  <2> QED
    BY <1>10, <2>1, EnqueueKeepsFinal DEF StallCheck
<1>18. ASSUME NEW n \in Attempts, ThrowCheck(n) PROVE FinalOnItsWay'
  BY <1>18, EnqueueKeepsFinal DEF ThrowCheck
<1>11. CASE StartSettle
  BY <1>11 DEF FinalOnItsWay, StartSettle
<1>12. CASE EndSettle
  BY <1>12, SettleKeepsFinal DEF EndSettle
<1>13. CASE FailSettle
  BY <1>13, SettleKeepsFinal DEF FailSettle
<1>14. ASSUME NEW st \in {"LIVE", "FINISHED"}, PushScore(st) PROVE FinalOnItsWay'
  BY <1>14 DEF PushScore, FinalOnItsWay
<1>15. CASE Resettle
  BY <1>15 DEF Resettle, FinalOnItsWay
<1>16. CASE MarkAdmin \/ MarkFails
  BY <1>16, ScoringFrame DEF MarkAdmin, MarkFails, scoring
<1>17. CASE UNCHANGED vars
  BY <1>17, ScoringFrame DEF vars, scoring
<1> QED
  BY <1>1, <1>2, <1>3, <1>4, <1>5, <1>6, <1>7, <1>8, <1>9, <1>10, <1>11, <1>12, <1>13,
     <1>14, <1>15, <1>16, <1>17, <1>18 DEF Next
-----------------------------------------------------------------------------
(* The administrator's result. *)

\* A step that touches neither the row nor the settlement, and takes no request
\* further than to its answer.
LEMMA ResultFrame ==
  ASSUME NobodyWrites, UNCHANGED <<row, settlement, kept>>,
         marking' => marking,
         \A p \in Pollers : poll'[p] = poll[p] \/ poll'[p] \in {"idle", "fetched"}
  PROVE  NobodyWrites'
  BY DEF NobodyWrites, row

LEMMA ResultStep == TypeOK /\ NobodyWrites /\ [Next]_vars => NobodyWrites'
<1> SUFFICES ASSUME TypeOK, NobodyWrites, [Next]_vars PROVE NobodyWrites'
  OBVIOUS
<1> USE DEF row, requests, chain, history
<1>1. CASE FeedAdvances \/ Tick \/ Postpone \/ Scan \/ Toggle \/ StartSettle \/ MarkFails
  BY <1>1, ResultFrame
  DEF FeedAdvances, Tick, Postpone, Scan, Toggle, StartSettle, MarkFails
<1>2. CASE AskOne
  <2>1. ~kept
    BY <1>2 DEF AskOne, NobodyWrites
  <2> QED
    BY <1>2, <2>1 DEF AskOne, NobodyWrites
<1>3. CASE FetchOne
  <2>1. ~kept
    BY <1>3 DEF FetchOne, NobodyWrites, Pollers
  <2> QED
    BY <1>3, <2>1 DEF FetchOne, NobodyWrites
<1>4. ASSUME NEW p \in Pollers, Fetch(p) \/ RequestFails(p) PROVE NobodyWrites'
  <2>1. \A q \in Pollers : poll'[q] = poll[q] \/ poll'[q] \in {"idle", "fetched"}
    BY <1>4 DEF Fetch, RequestFails, Answered, Over, TypeOK
  <2> QED
    BY <1>4, <2>1, ResultFrame DEF Fetch, RequestFails
<1>5. ASSUME NEW p \in Pollers, CheckSource(p) PROVE NobodyWrites'
  <2>1. CASE Skips(p)
    <3>1. \A q \in Pollers : poll'[q] = poll[q] \/ poll'[q] \in {"idle", "fetched"}
      BY <1>5, <2>1 DEF CheckSource, Over, TypeOK
    <3> QED
      BY <1>5, <3>1, ResultFrame DEF CheckSource
  <2>2. CASE ~Skips(p)
    <3>1. ~kept
      BY <2>2 DEF Skips, NobodyWrites
    <3> QED
      BY <1>5, <3>1 DEF CheckSource, NobodyWrites
  <2> QED
    BY <2>1, <2>2
<1>6. ASSUME NEW p \in Pollers, WriteRow(p) PROVE NobodyWrites'
  <2>1. ~kept
    BY <1>6 DEF WriteRow, NobodyWrites
  <2> QED
    BY <1>6, <2>1 DEF WriteRow, NobodyWrites
<1>7. ASSUME NEW n \in Attempts, StartCheck(n) \/ EndCheck(n) \/ StallCheck(n) \/ ThrowCheck(n)
      PROVE  NobodyWrites'
  BY <1>7, ResultFrame DEF StartCheck, EndCheck, StallCheck, ThrowCheck
<1>8. CASE EndSettle \/ FailSettle
  <2>1. Settle \/ UNCHANGED <<status, score, settlement>>
    BY <1>8 DEF EndSettle, FailSettle
  <2>2. UNCHANGED <<source, kept, marking, poll>>
    BY <1>8 DEF EndSettle, FailSettle
  <2>3. CASE settlement # NoScore
    <3>1. UNCHANGED <<status, score, settlement>>
      BY <2>1, <2>3 DEF Settle
    <3> QED
      BY <2>2, <3>1 DEF NobodyWrites
  <2>4. CASE settlement = NoScore
    BY <2>2, <2>4 DEF NobodyWrites
  <2> QED
    BY <2>3, <2>4
<1>9. ASSUME NEW st \in {"LIVE", "FINISHED"}, PushScore(st) PROVE NobodyWrites'
  BY <1>9 DEF PushScore, NobodyWrites
<1>10. CASE Resettle
  BY <1>10, ConstantsAssumption DEF Resettle, NobodyWrites
<1>11. CASE MarkAdmin
  <2>1. marking /\ ~marking' /\ source' = "ADMIN" /\ UNCHANGED <<status, score, settlement, poll>>
    BY <1>11 DEF MarkAdmin
  <2>2. kept' => /\ status = "FINISHED" /\ score = settlement
                 /\ \A p \in Pollers : poll[p] \in {"idle", "fetched"}
    BY <1>11, Zenon DEF MarkAdmin
  <2> QED
    BY <2>1, <2>2 DEF NobodyWrites
<1>12. CASE UNCHANGED vars
  BY <1>12, ResultFrame DEF vars
<1> QED
  BY <1>1, <1>2, <1>3, <1>4, <1>5, <1>6, <1>7, <1>8, <1>9, <1>10, <1>11, <1>12 DEF Next
-----------------------------------------------------------------------------
(* The chain of checks. *)

\* A check that neither takes up a free id nor leaves the end it came to breaks no chain.
LEMMA ChainFrame ==
  ASSUME ChainInOrder, stalled' = {} => stalled = {},
         \A k \in Attempts \ {0} :
             /\ check'[k] # "absent" => check[k] # "absent"
             /\ check[k] \in {"done", "failed"} => check'[k] \in {"done", "failed"}
  PROVE  ChainInOrder'
  BY DEF ChainInOrder

LEMMA ChainStep == TypeOK /\ ChainInOrder /\ [Next]_vars => ChainInOrder'
<1> SUFFICES ASSUME TypeOK, ChainInOrder, [Next]_vars PROVE ChainInOrder'
  OBVIOUS
<1> USE DEF row, requests, chain, history
<1>1. CASE UNCHANGED <<check, stalled>>
  BY <1>1, ChainFrame
<1>2. CASE Postpone \/ Scan
  BY <1>2, ChainFrame DEF Postpone, Scan, TypeOK
<1>3. ASSUME NEW n \in Attempts, StartCheck(n) PROVE ChainInOrder'
  <2>1. check[n] \in {"early", "waiting"} /\ stalled' = stalled
    BY <1>3 DEF StartCheck
  <2>2. check' = [check EXCEPT ![n] = "active"] /\ check \in [Attempts -> JobState]
    BY <1>3 DEF StartCheck, TypeOK
  <2> QED
    BY <2>1, <2>2, ChainFrame
<1>4. ASSUME NEW n \in Attempts, NEW to \in {"done", "failed"}, Enqueue(n, to),
             check[n] = "active", stalled = {}
      PROVE  ChainInOrder'
  <2>1. check[n] = "active" /\ stalled = {} /\ Enqueue(n, to) /\ n \in Nat
    BY <1>4, ConstantsAssumption DEF Attempts
  <2>2. \A k \in Attempts : check'[k] = IF k = n THEN to
                                        ELSE IF decision = "recheck" /\ k = n + 1
                                             THEN Added(check[k]) ELSE check[k]
    BY <2>1 DEF Enqueue, NextAttempt
  <2>3. SUFFICES ASSUME NEW i \in Attempts \ {0}, NEW j \in Attempts \ {0},
                        i < j, check'[j] # "absent"
                 PROVE  check'[i] \in {"done", "failed"}
    BY DEF ChainInOrder
  <2>4. i \in Nat \ {0} /\ j \in Nat \ {0}
    BY ConstantsAssumption DEF Attempts
  <2>5. CASE check[j] # "absent"
    <3>1. check[i] \in {"done", "failed"}
      BY <2>1, <2>3, <2>5 DEF ChainInOrder
    <3> QED
      BY <2>2, <3>1 DEF Added
  <2>6. CASE check[j] = "absent"
    <3>1. j = n + 1
      BY <2>1, <2>2, <2>3, <2>6
    <3>2. CASE i = n
      BY <2>2, <3>2
    <3>3. CASE i < n
      <4>1. n \in Attempts \ {0} /\ check[i] \in {"done", "failed"}
        BY <2>1, <2>3, <2>4, <3>3 DEF ChainInOrder
      <4> QED
        BY <2>2, <4>1 DEF Added
    <3> QED
      BY <2>1, <2>3, <2>4, <3>1, <3>2, <3>3
  <2> QED
    BY <2>5, <2>6
<1>5. ASSUME NEW n \in Attempts, StallCheck(n) PROVE ChainInOrder'
  <2>1. stalled' # {}
    BY <1>5 DEF StallCheck
  <2> QED
    BY <2>1 DEF ChainInOrder
<1>6. CASE FailSettle
  BY <1>6, ChainFrame DEF FailSettle
<1>7. ASSUME NEW n \in Attempts, EndCheck(n) PROVE ChainInOrder'
  BY <1>4, <1>7 DEF ChainInOrder, EndCheck
<1>14. ASSUME NEW n \in Attempts, ThrowCheck(n) PROVE ChainInOrder'
  <2>1. check[n] = "active" /\ stalled' = stalled
    BY <1>14 DEF ThrowCheck
  <2>2. CASE stalled # {}
    BY <2>1, <2>2 DEF ChainInOrder
  <2>3. CASE stalled = {} /\ Enqueue(n, "failed")
    BY <1>4, <2>1, <2>3
  <2>4. CASE check' = [check EXCEPT ![n] = "failed"]
    BY <2>1, <2>4, ChainFrame DEF TypeOK
  <2> QED
    BY <1>14, <2>2, <2>3, <2>4 DEF ThrowCheck
<1>8. ASSUME NEW p \in Pollers, Fetch(p) \/ CheckSource(p) \/ WriteRow(p) \/ RequestFails(p)
      PROVE  ChainInOrder'
  BY <1>1, <1>8 DEF Fetch, CheckSource, WriteRow, RequestFails
<1>9. CASE FeedAdvances \/ Tick \/ AskOne \/ FetchOne \/ Toggle
  BY <1>1, <1>9 DEF FeedAdvances, Tick, AskOne, FetchOne, Toggle
<1>10. CASE StartSettle \/ EndSettle
  BY <1>1, <1>10 DEF StartSettle, EndSettle
<1>11. ASSUME NEW st \in {"LIVE", "FINISHED"}, PushScore(st) PROVE ChainInOrder'
  BY <1>1, <1>11 DEF PushScore
<1>12. CASE Resettle \/ MarkAdmin \/ MarkFails
  BY <1>1, <1>12 DEF Resettle, MarkAdmin, MarkFails
<1>13. CASE UNCHANGED vars
  BY <1>1, <1>13 DEF vars
<1> QED
  BY <1>2, <1>3, <1>5, <1>6, <1>7, <1>8, <1>9, <1>10, <1>11, <1>12, <1>13, <1>14 DEF Next

\* In a chain one re-check at most is pending.
LEMMA OnePending == TypeOK /\ ChainInOrder => OneChain
<1> SUFFICES ASSUME TypeOK, ChainInOrder, stalled = {}
             PROVE  Cardinality({n \in Attempts \ {0} : check[n] \in {"waiting", "active"}}) <= 1
  BY DEF OneChain
<1> DEFINE P == {n \in Attempts \ {0} : check[n] \in {"waiting", "active"}}
<1>1. \A m, n \in P : m = n
  <2>1. \A m, n \in P : m \in Int /\ n \in Int /\ ~(m < n)
    <3> SUFFICES ASSUME NEW m \in P, NEW n \in P
                 PROVE  m \in Int /\ n \in Int /\ ~(m < n)
      OBVIOUS
    <3>1. check[m] \notin {"done", "failed"} /\ check[n] # "absent"
      OBVIOUS
    <3>2. m \in Attempts \ {0} /\ n \in Attempts \ {0}
      OBVIOUS
    <3> QED
      BY <3>1, <3>2, ConstantsAssumption DEF ChainInOrder, Attempts
  <2> HIDE DEF P
  <2> QED
    BY <2>1
<1> HIDE DEF P
<1>2. ASSUME P # {} PROVE Cardinality(P) = 1
  <2>1. PICK n \in P : P = {n}
    BY <1>1, <1>2
  <2> QED
    BY <2>1, FS_Singleton
<1>3. Cardinality(P) <= 1
  BY <1>2, FS_EmptySet
<1> QED
  BY <1>3 DEF P
-----------------------------------------------------------------------------
(* Theorems. *)

LEMMA PipelineInductive == Spec => []PipelineIInv
<1>1. Init => PipelineIInv
  <2> SUFFICES ASSUME Init PROVE PipelineIInv
    OBVIOUS
  <2>1. TypeOK
    <3>1. faults \in 0..MaxFaults /\ stalled \in SUBSET (Attempts \union {-1})
      BY ConstantsAssumption DEF Init
    <3>2. {marking, pushed, regressed, kept, gaveUp} \subseteq BOOLEAN
      BY DEF Init
    <3> QED
      BY <3>1, <3>2 DEF Init, TypeOK, Scores, FeedStatus, JobState
  <2>2. FinalOnItsWay /\ NobodyWrites /\ ChainInOrder
    BY DEF Init, FinalOnItsWay, NobodyWrites, ChainInOrder
  <2> QED
    BY <2>1, <2>2 DEF PipelineIInv
<1>2. PipelineIInv /\ [Next]_vars => PipelineIInv'
  BY TypeStep, FinalStep, ResultStep, ChainStep DEF PipelineIInv
<1> QED
  BY <1>1, <1>2, PTL DEF Spec

\* No check and no settle job acts on a running score: when no administrator
\* intervened and no late answer took the row back, what is settled is the final
\* score, and the match row (football-data.ts, settle.worker.ts) shows it.
THEOREM FinalIsSettled == Spec => []SettledWithFinal
<1>1. PipelineIInv => SettledWithFinal
  BY DEF PipelineIInv, FinalOnItsWay, SettledWithFinal
<1> QED
  BY <1>1, PipelineInductive, PTL

\* Once an administrator's result is marked with no feed write under way, neither the
\* feed's requests nor the jobs change it (resettle/route.ts).
THEOREM AdminResultStays == Spec => []AdminResultKept
<1>1. PipelineIInv => AdminResultKept
  BY DEF PipelineIInv, NobodyWrites, AdminResultKept
<1> QED
  BY <1>1, PipelineInductive, PTL

\* Types, and one pending re-check at most, for any number of attempts: however the
\* job is disabled and enabled again, its chain runs once (result-check.worker.ts).
THEOREM PipelineSound == Spec => []PipelineInv
<1>1. PipelineIInv => PipelineInv
  BY OnePending DEF PipelineIInv, PipelineInv
<1> QED
  BY <1>1, PipelineInductive, PTL

-----------------------------------------------------------------------------
(* The news. *)

ArticleRow == [title : Titles, by : Requests, vi : SUBSET Full,
               status : {"PENDING", "PUBLISHED", "REJECTED"},
               publishedAt : 0..LastDay, approvedFor : 0..LastDay]
Draft == [pc : {"idle", "storing", "ok", "failed"}, todo : Seq(Titles), attempt : 1..2,
          real : BOOLEAN]
NewsRun == [pc : {"idle", "list", "translate"}, batch : SUBSET DOMAIN articles]

NewsRows ==
  /\ articles \in Seq(ArticleRow) /\ drafting \in [Requests -> Draft] /\ working \in NewsRun
  /\ Cardinality(working.batch) <= Limit
  /\ {newsEnabled, healthy} \subseteq BOOLEAN /\ temper \in [Titles -> Temper]
  /\ time \in 1..LastDay /\ decisions \in 0..MaxDecisions

\* The date in a row under review is that of its latest approval, if it has one.
DatesAgree ==
  \A i \in DOMAIN articles :
    articles[i].status = "PENDING" => articles[i].publishedAt = articles[i].approvedFor

\* What an attempt has stored is what it has no longer to do, each headline once.
Done(r) == Len(Sources) - Len(drafting[r].todo)
Stored(r) ==
  /\ drafting[r].pc = "idle" => \A t \in Titles : StoredBy(r, t) = 0
  /\ drafting[r].pc = "storing" =>
       /\ Done(r) \in 0..(Len(Sources) - 1)
       /\ drafting[r].todo = SubSeq(Sources, Done(r) + 1, Len(Sources))
       /\ \A k \in 1..Len(Sources) :
            /\ k <= Done(r) => StoredBy(r, Sources[k]) \in 1..drafting[r].attempt
            /\ k > Done(r) => StoredBy(r, Sources[k]) <= drafting[r].attempt - 1
StoredSoFar == \A r \in Requests : Stored(r)

NewsIInv == NewsRows /\ PublicByDecision /\ DatesAgree /\ RequestStoresEverySource /\ StoredSoFar

\* A non-empty set of natural numbers has a least one.
LEMMA LeastNat ==
    ASSUME NEW T \in SUBSET Nat, T # {}
    PROVE  \E m \in T : \A n \in T : m <= n
<1> DEFINE U == {0..n : n \in T}
<1>1. IsWellFoundedOn(StrictSubsetOrdering(Nat), FiniteSubsetsOf(Nat))
  BY FS_StrictSubsetOrderingWellFounded
<1>2. U # {}
  OBVIOUS
<1>3. U \subseteq FiniteSubsetsOf(Nat)
  <2> SUFFICES ASSUME NEW n \in T PROVE 0..n \in FiniteSubsetsOf(Nat)
    OBVIOUS
  <2>1. IsFiniteSet(0..n)
    BY FS_Interval
  <2> QED
    BY <2>1 DEF FiniteSubsetsOf
<1>4. PICK x \in U : \A y \in U : ~ (<<y, x>> \in StrictSubsetOrdering(Nat))
  <2> HIDE DEF U
  <2> QED
    BY <1>1, <1>2, <1>3, WFMin
<1>5. PICK m \in T : x = 0..m
  BY <1>4
<1>6. ASSUME NEW n \in T, ~ (m <= n) PROVE FALSE
  <2>1. 0..n \subseteq 0..m /\ m \notin 0..n /\ m \in 0..m
    BY <1>6
  <2>2. <<0..n, 0..m>> \in StrictSubsetOrdering(Nat)
    BY <2>1 DEF StrictSubsetOrdering
  <2> QED
    BY <1>4, <1>5, <2>2
<1> QED
  BY <1>6

\* A batch has Limit articles at most: all but its oldest are newer than that one.
LEMMA NewestFew ==
    ASSUME NEW ids \in SUBSET Nat, IsFiniteSet(ids)
    PROVE  Newest(ids) \subseteq ids /\ Cardinality(Newest(ids)) <= Limit
<1> DEFINE N == Newest(ids)
<1>1. N \subseteq ids /\ IsFiniteSet(N)
  BY FS_Subset DEF Newest
<1>2. CASE N = {}
  BY <1>2, FS_EmptySet, NewsAssumption
<1>3. CASE N # {}
  <2>1. PICK m \in N : \A n \in N : m <= n
    <3> HIDE DEF N
    <3> QED
      BY <1>1, <1>3, LeastNat
  <2> DEFINE above == {j \in ids : j > m}
  <2>2. IsFiniteSet(above) /\ Cardinality(above) \in Nat /\ Cardinality(above) < Limit
    <3>1. IsFiniteSet(above)
      BY FS_Subset
    <3>2. Cardinality(above) < Limit
      BY <2>1 DEF Newest
    <3> QED
      BY <3>1, <3>2, FS_CardinalityType
  <2>3. N \ {m} \subseteq above
    <3> SUFFICES ASSUME NEW n \in N, n # m PROVE n \in above
      OBVIOUS
    <3>1. n \in ids /\ m \in Nat /\ n \in Nat /\ m <= n
      BY <1>1, <2>1
    <3> QED
      BY <3>1
  <2>4. /\ IsFiniteSet(N \ {m}) /\ Cardinality(N \ {m}) <= Cardinality(above)
        /\ Cardinality(N \ {m}) \in Nat
    <3> HIDE DEF N, above
    <3> QED
      BY <2>2, <2>3, FS_Subset, FS_CardinalityType
  <2>5. Cardinality(N \ {m}) = Cardinality(N) - 1 /\ Cardinality(N) \in Nat
    <3> HIDE DEF N
    <3> QED
      BY <1>1, <2>1, FS_RemoveElement, FS_CardinalityType
  <2> QED
    BY <1>1, <2>2, <2>4, <2>5, NewsAssumption
<1> QED
  BY <1>1, <1>2, <1>3

\* Rows that keep their headline and their request: nobody has stored more or less.
LEMMA SameStored ==
    ASSUME DOMAIN articles' = DOMAIN articles,
           \A i \in DOMAIN articles : /\ articles'[i].title = articles[i].title
                                      /\ articles'[i].by = articles[i].by,
           NEW r, NEW t
    PROVE  StoredBy(r, t)' = StoredBy(r, t)
<1>1. {i \in DOMAIN articles' : articles'[i].by = r /\ articles'[i].title = t}
        = {i \in DOMAIN articles : articles[i].by = r /\ articles[i].title = t}
  OBVIOUS
<1> QED
  BY <1>1 DEF StoredBy

LEMMA StoredNat ==
    ASSUME articles \in Seq(ArticleRow), NEW r, NEW t
    PROVE  /\ IsFiniteSet({i \in DOMAIN articles : articles[i].by = r /\ articles[i].title = t})
           /\ StoredBy(r, t) \in Nat
<1>1. IsFiniteSet(1..Len(articles)) /\ DOMAIN articles = 1..Len(articles) /\ Len(articles) \in Nat
  BY FS_Interval
<1> QED
  BY <1>1, FS_Subset, FS_CardinalityType DEF StoredBy

\* One row more.
LEMMA OneMoreStored ==
    ASSUME articles \in Seq(ArticleRow), NEW a \in ArticleRow, articles' = Append(articles, a),
           NEW r, NEW t
    PROVE  StoredBy(r, t)' = IF a.by = r /\ a.title = t THEN StoredBy(r, t) + 1 ELSE StoredBy(r, t)
<1> DEFINE ids == {i \in DOMAIN articles : articles[i].by = r /\ articles[i].title = t}
           n == Len(articles) + 1
<1>1. /\ DOMAIN articles' = DOMAIN articles \union {n} /\ n \notin DOMAIN articles
      /\ articles'[n] = a /\ \A i \in DOMAIN articles : articles'[i] = articles[i]
  BY AppendProperties, LenProperties
<1>2. {i \in DOMAIN articles' : articles'[i].by = r /\ articles'[i].title = t}
        = IF a.by = r /\ a.title = t THEN ids \union {n} ELSE ids
  BY <1>1
<1>3. IsFiniteSet(ids) /\ n \notin ids
  <2>1. IsFiniteSet(ids)
    BY StoredNat
  <2> QED
    BY <1>1, <2>1
<1>4. Cardinality(ids \union {n}) = Cardinality(ids) + 1
  <2> HIDE DEF ids, n
  <2> QED
    BY <1>3, FS_AddElement
<1> QED
  BY <1>2, <1>4 DEF StoredBy

\* What a decision, the publication and a translation make of a row.
Row(a, b) == b \in ArticleRow /\ b.title = a.title /\ b.by = a.by
LEMMA StatusWritten ==
    ASSUME NEW a \in ArticleRow, NEW s \in {"PENDING", "PUBLISHED", "REJECTED"},
           NEW b, b = [a EXCEPT !.status = s]
    PROVE  /\ Row(a, b) /\ b.status = s
           /\ b.publishedAt = a.publishedAt /\ b.approvedFor = a.approvedFor
BY DEF ArticleRow, Row

LEMMA RejectionWritten ==
    ASSUME NEW a \in ArticleRow, 0 \in 0..LastDay,
           NEW b, b = [a EXCEPT !.status = "REJECTED", !.approvedFor = 0]
    PROVE  Row(a, b) /\ b.status = "REJECTED"
BY DEF ArticleRow, Row

LEMMA TranslationWritten ==
    ASSUME NEW a \in ArticleRow, NEW b, b = [a EXCEPT !.vi = Full]
    PROVE  /\ Row(a, b) /\ b.status = a.status
           /\ b.publishedAt = a.publishedAt /\ b.approvedFor = a.approvedFor
BY DEF ArticleRow, Row

\* Rows are rewritten, none is added: each keeps its headline and its request, and its dates
\* still agree with its status.
LEMMA RowsRewritten ==
    ASSUME NewsIInv, UNCHANGED <<drafting, newsEnabled, healthy, temper, time>>,
           decisions' \in 0..MaxDecisions,
           articles' \in Seq(ArticleRow), Len(articles') = Len(articles),
           \A i \in DOMAIN articles :
              /\ articles'[i].title = articles[i].title /\ articles'[i].by = articles[i].by
              /\ articles'[i].status = "PUBLISHED" => articles'[i].approvedFor \in 1..time
              /\ articles'[i].status = "PENDING" =>
                    articles'[i].publishedAt = articles'[i].approvedFor,
           working'.pc \in {"idle", "list", "translate"},
           working' = [pc |-> working'.pc, batch |-> working'.batch],
           working'.batch \subseteq DOMAIN articles, Cardinality(working'.batch) <= Limit
    PROVE  NewsIInv'
<1> USE DEF NewsIInv
<1>1. articles \in Seq(ArticleRow)
  BY DEF NewsRows
<1>2. DOMAIN articles' = DOMAIN articles
  BY <1>1, LenProperties
<1>3. \A r, t : StoredBy(r, t)' = StoredBy(r, t)
  BY <1>2, SameStored
<1>4. NewsRows'
  BY <1>2 DEF NewsRows, NewsRun
<1>5. PublicByDecision' /\ DatesAgree'
  BY <1>2 DEF PublicByDecision, DatesAgree
<1>6. RequestStoresEverySource'
  BY <1>3 DEF RequestStoresEverySource
<1>7. StoredSoFar'
  BY <1>3 DEF StoredSoFar, Stored, Done
<1> QED
  BY <1>4, <1>5, <1>6, <1>7

\* approve, schedule, reject: the row says what was decided.
LEMMA DecisionStep ==
    ASSUME NewsIInv, NEW i \in DOMAIN articles, Approve(i) \/ Schedule(i) \/ Reject(i)
    PROVE  NewsIInv'
<1> USE DEF NewsIInv
<1>1. /\ articles \in Seq(ArticleRow) /\ i \in 1..Len(articles) /\ articles[i] \in ArticleRow
      /\ time \in 1..LastDay /\ LastDay \in Nat
  BY NewsAssumption, ElementOfSeq DEF NewsRows
<1>2. /\ decisions < MaxDecisions /\ decisions' = decisions + 1
      /\ UNCHANGED <<drafting, working, newsEnabled, healthy, temper, time>>
  BY DEF Approve, Schedule, Reject, Decide
<1>3. PICK decided :
        /\ articles' = [articles EXCEPT ![i] = decided] /\ Row(articles[i], decided)
        /\ decided.status = "PUBLISHED" => decided.approvedFor \in 1..time
        /\ decided.status = "PENDING" => decided.publishedAt = decided.approvedFor
  <2> DEFINE a == articles[i]
  <2>1. CASE Approve(i)
    <3> DEFINE decided == [a EXCEPT !.status = "PUBLISHED", !.publishedAt = time, !.approvedFor = time]
    <3>1. articles' = [articles EXCEPT ![i] = decided]
      BY <2>1 DEF Approve, Decide
    <3>2. Row(a, decided) /\ decided.status = "PUBLISHED" /\ decided.approvedFor = time
      <4> DEFINE d == time
      <4>1. a \in ArticleRow /\ d \in 0..LastDay
        BY <1>1
      <4>2. decided = [a EXCEPT !.status = "PUBLISHED", !.publishedAt = d, !.approvedFor = d]
        OBVIOUS
      <4>3. time = d
        OBVIOUS
      <4> HIDE DEF a, d, decided
      <4> QED
        BY <4>1, <4>2, <4>3 DEF ArticleRow, Row
    <3>3. decided.approvedFor \in 1..time
      BY <1>1, <3>2
    <3> HIDE DEF decided
    <3> QED
      BY <3>1, <3>2, <3>3
  <2>2. CASE Schedule(i)
    <3>1. PICK t \in (time + 1)..LastDay :
             articles' = [articles EXCEPT ![i] = [a EXCEPT !.status = "PENDING",
                                                    !.publishedAt = t, !.approvedFor = t]]
      BY <2>2 DEF Schedule, Decide
    <3> DEFINE decided == [a EXCEPT !.status = "PENDING", !.publishedAt = t, !.approvedFor = t]
    <3>2. Row(a, decided) /\ decided.status = "PENDING" /\ decided.publishedAt = decided.approvedFor
      <4> DEFINE d == t
      <4>1. a \in ArticleRow /\ d \in 0..LastDay
        BY <1>1
      <4>2. decided = [a EXCEPT !.status = "PENDING", !.publishedAt = d, !.approvedFor = d]
        OBVIOUS
      <4> HIDE DEF a, d, decided
      <4> QED
        BY <4>1, <4>2 DEF ArticleRow, Row
    <3>3. articles' = [articles EXCEPT ![i] = decided]
      BY <3>1
    <3> HIDE DEF decided
    <3> QED
      BY <3>2, <3>3
  <2>3. CASE Reject(i)
    <3> DEFINE decided == [a EXCEPT !.status = "REJECTED", !.approvedFor = NoDate]
    <3>1. articles' = [articles EXCEPT ![i] = decided]
      BY <2>3 DEF Reject, Decide
    <3>2. Row(a, decided) /\ decided.status = "REJECTED"
      <4>1. a \in ArticleRow /\ 0 \in 0..LastDay
        BY <1>1
      <4>2. decided = [a EXCEPT !.status = "REJECTED", !.approvedFor = 0]
        BY DEF NoDate
      <4> HIDE DEF a, decided
      <4> QED
        BY <4>1, <4>2, RejectionWritten
    <3> HIDE DEF decided
    <3> QED
      BY <3>1, <3>2
  <2> QED
    BY <2>1, <2>2, <2>3
<1>4. /\ articles' \in Seq(ArticleRow) /\ Len(articles') = Len(articles)
      /\ \A k \in DOMAIN articles : articles'[k] = IF k = i THEN decided ELSE articles[k]
  <2>1. decided \in ArticleRow /\ DOMAIN articles = 1..Len(articles)
    BY <1>1, <1>3, LenProperties DEF Row
  <2> QED
    BY <1>1, <1>3, <2>1, ExceptSeq
<1>5. decisions' \in 0..MaxDecisions
  BY <1>2, NewsAssumption DEF NewsRows
<1>6. /\ working'.pc \in {"idle", "list", "translate"}
      /\ working' = [pc |-> working'.pc, batch |-> working'.batch]
      /\ working'.batch \subseteq DOMAIN articles /\ Cardinality(working'.batch) <= Limit
  BY <1>2 DEF NewsRows, NewsRun
<1>7. \A k \in DOMAIN articles :
        /\ articles'[k].title = articles[k].title /\ articles'[k].by = articles[k].by
        /\ articles'[k].status = "PUBLISHED" => articles'[k].approvedFor \in 1..time
        /\ articles'[k].status = "PENDING" => articles'[k].publishedAt = articles'[k].approvedFor
  <2>1. decided.title = articles[i].title /\ decided.by = articles[i].by
    BY <1>3 DEF Row
  <2> QED
    BY <1>3, <1>4, <2>1 DEF PublicByDecision, DatesAgree
<1> QED
  BY <1>2, <1>4, <1>5, <1>6, <1>7, RowsRewritten

LEMMA RunStep == ASSUME NewsIInv, NewsRunStep PROVE NewsIInv'
<1> USE DEF NewsIInv
<1>1. /\ articles \in Seq(ArticleRow) /\ DOMAIN articles = 1..Len(articles)
      /\ \A i \in DOMAIN articles : articles[i] \in ArticleRow
      /\ time \in 1..LastDay /\ LastDay \in Nat /\ Limit \in Nat /\ Cardinality({}) = 0
      /\ decisions \in 0..MaxDecisions
  BY NewsAssumption, ElementOfSeq, LenProperties, FS_EmptySet DEF NewsRows
<1>2. UNCHANGED <<drafting, newsEnabled, healthy, temper, time, decisions>>
  BY DEF NewsRunStep, PublishDueNews, ListUntranslated, Translate
<1>3. CASE PublishDueNews
  <2>1. /\ working' = [pc |-> "list", batch |-> {}]
        /\ articles' = [i \in DOMAIN articles |->
                          IF Due(i) THEN [articles[i] EXCEPT !.status = "PUBLISHED"] ELSE articles[i]]
    BY <1>3 DEF PublishDueNews, Idle
  <2>2. \A i \in DOMAIN articles :
          /\ Row(articles[i], articles'[i])
          /\ articles'[i].status = "PUBLISHED" => articles'[i].approvedFor \in 1..time
          /\ articles'[i].status = "PENDING" => articles'[i].publishedAt = articles'[i].approvedFor
    <3> TAKE i \in DOMAIN articles
    <3> DEFINE a == articles[i]
               b == [a EXCEPT !.status = "PUBLISHED"]
    <3>1. /\ a.status = "PUBLISHED" => a.approvedFor \in 1..time
          /\ a.status = "PENDING" => a.publishedAt = a.approvedFor
          /\ a \in ArticleRow
      BY <1>1 DEF PublicByDecision, DatesAgree
    <3>2. articles'[i] = IF Due(i) THEN b ELSE a
      BY <2>1
    <3>3. Due(i) => a.status = "PENDING" /\ a.publishedAt # 0 /\ a.publishedAt <= time
      BY DEF Due, NoDate
    <3>4. Row(a, b) /\ b.status = "PUBLISHED" /\ b.approvedFor = a.approvedFor
      <4>1. b = [a EXCEPT !.status = "PUBLISHED"]
        OBVIOUS
      <4> HIDE DEF a, b
      <4> QED
        BY <3>1, <4>1, StatusWritten
    <3>5. a.approvedFor \in 0..LastDay
      <4> HIDE DEF a
      <4> QED
        BY <3>1 DEF ArticleRow
    <3>6. CASE Due(i)
      <4>1. articles'[i] = b /\ a.status = "PENDING" /\ a.publishedAt # 0 /\ a.publishedAt <= time
        BY <3>2, <3>3, <3>6
      <4>2. a.approvedFor \in 1..time
        BY <1>1, <3>1, <3>5, <4>1
      <4> HIDE DEF a, b
      <4> QED
        BY <3>4, <4>1, <4>2 DEF Row, a
    <3>7. CASE ~Due(i)
      BY <3>1, <3>2, <3>7 DEF Row
    <3> QED
      BY <3>6, <3>7
  <2>3. articles' \in Seq(ArticleRow) /\ Len(articles') = Len(articles)
    <3>1. DOMAIN articles' = 1..Len(articles) /\ Len(articles) \in Nat
      BY <1>1, <2>1, LenProperties
    <3>2. articles' \in [1..Len(articles) -> ArticleRow]
      <4>1. articles' = [i \in 1..Len(articles) |-> articles'[i]]
        BY <1>1, <2>1
      <4> QED
        BY <1>1, <2>2, <4>1 DEF Row
    <3> QED
      BY <3>1, <3>2, SeqDef, LenProperties
  <2>4. /\ working'.pc = "list" /\ working'.batch = {}
        /\ working' = [pc |-> working'.pc, batch |-> working'.batch]
    BY <2>1
  <2> QED
    <3>1. \A i \in DOMAIN articles :
            articles'[i].title = articles[i].title /\ articles'[i].by = articles[i].by
      BY <2>2 DEF Row
    <3>2. {} \subseteq DOMAIN articles /\ Cardinality({}) <= Limit
      BY <1>1
    <3> QED
      BY <1>1, <1>2, <2>2, <2>3, <2>4, <3>1, <3>2, RowsRewritten
<1>4. CASE ListUntranslated
  <2>1. Batch \subseteq DOMAIN articles /\ Cardinality(Batch) <= Limit
    <3> DEFINE todo == {i \in DOMAIN articles : Missing(i)}
    <3>1. todo \in SUBSET Nat /\ IsFiniteSet(todo)
      <4>1. todo \subseteq 1..Len(articles) /\ Len(articles) \in Nat
        BY <1>1, LenProperties
      <4>2. IsFiniteSet(1..Len(articles))
        BY <4>1, FS_Interval
      <4>3. 1..Len(articles) \subseteq Nat
        BY <4>1
      <4> HIDE DEF todo
      <4>4. todo \subseteq Nat
        BY <4>1, <4>3
      <4> QED
        BY <4>1, <4>2, <4>4, FS_Subset
    <3>2. Newest(todo) \subseteq todo /\ Cardinality(Newest(todo)) <= Limit
      <4> HIDE DEF todo
      <4> QED
        BY <3>1, NewestFew
    <3> QED
      BY <3>2 DEF Batch
  <2>2. /\ articles' = articles
        /\ working' \in {[pc |-> "idle", batch |-> {}], [pc |-> "translate", batch |-> Batch]}
    BY <1>4 DEF ListUntranslated, Idle
  <2>3. /\ working'.pc \in {"idle", "list", "translate"}
        /\ working' = [pc |-> working'.pc, batch |-> working'.batch]
        /\ working'.batch \subseteq DOMAIN articles /\ Cardinality(working'.batch) <= Limit
    <3>1. {} \subseteq DOMAIN articles /\ Cardinality({}) <= Limit
      BY <1>1
    <3>2. CASE working' = [pc |-> "idle", batch |-> {}]
      BY <3>1, <3>2
    <3>3. CASE working' = [pc |-> "translate", batch |-> Batch]
      BY <2>1, <3>3
    <3> QED
      BY <2>2, <3>2, <3>3
  <2>4. \A k \in DOMAIN articles :
          /\ articles'[k].status = "PUBLISHED" => articles'[k].approvedFor \in 1..time
          /\ articles'[k].status = "PENDING" => articles'[k].publishedAt = articles'[k].approvedFor
    BY <2>2 DEF PublicByDecision, DatesAgree
  <2> QED
    BY <1>1, <1>2, <2>2, <2>3, <2>4, RowsRewritten
<1>5. CASE Translate
  <2>1. PICK i \in working.batch :
          /\ articles' \in {articles, [articles EXCEPT ![i].vi = Full]}
          /\ working' \in {Idle, Onwards(i)}
    BY <1>5 DEF Translate
  <2>2. /\ working.batch \subseteq DOMAIN articles /\ IsFiniteSet(working.batch) /\ i \in DOMAIN articles
        /\ Cardinality(working.batch) <= Limit
    <3>1. working.batch \subseteq DOMAIN articles /\ Cardinality(working.batch) <= Limit
      BY DEF NewsRows, NewsRun
    <3>2. IsFiniteSet(1..Len(articles))
      BY <1>1, FS_Interval, LenProperties
    <3> QED
      BY <1>1, <2>1, <3>1, <3>2, FS_Subset
  <2>3. /\ Cardinality(working.batch \ {i}) <= Limit
        /\ working.batch \ {i} \subseteq DOMAIN articles
    <3>1. /\ Cardinality(working.batch \ {i}) <= Cardinality(working.batch)
          /\ Cardinality(working.batch \ {i}) \in Nat /\ Cardinality(working.batch) \in Nat
      BY <2>2, FS_Subset, FS_CardinalityType
    <3> QED
      BY <1>1, <2>2, <3>1
  <2>4. /\ working'.pc \in {"idle", "list", "translate"}
        /\ working' = [pc |-> working'.pc, batch |-> working'.batch]
        /\ working'.batch \subseteq DOMAIN articles /\ Cardinality(working'.batch) <= Limit
    <3>1. working' \in {[pc |-> "idle", batch |-> {}],
                        [pc |-> "translate", batch |-> working.batch \ {i}]}
      BY <2>1 DEF Idle, Onwards
    <3>2. {} \subseteq DOMAIN articles /\ Cardinality({}) <= Limit
      BY <1>1
    <3>3. CASE working' = [pc |-> "idle", batch |-> {}]
      BY <3>2, <3>3
    <3>4. CASE working' = [pc |-> "translate", batch |-> working.batch \ {i}]
      BY <2>3, <3>4
    <3> QED
      BY <3>1, <3>3, <3>4
  <2> DEFINE a == articles[i]
             b == [a EXCEPT !.vi = Full]
  <2>5. /\ a \in ArticleRow /\ Row(a, b)
        /\ b.status = a.status /\ b.publishedAt = a.publishedAt /\ b.approvedFor = a.approvedFor
    <3>1. a \in ArticleRow /\ b = [a EXCEPT !.vi = Full]
      BY <1>1, <2>2
    <3> HIDE DEF a, b
    <3> QED
      BY <3>1, TranslationWritten
  <2>6. articles' = articles \/ articles' = [articles EXCEPT ![i] = b]
    BY <2>1
  <2>7. /\ articles' \in Seq(ArticleRow) /\ Len(articles') = Len(articles)
        /\ \A k \in DOMAIN articles : articles'[k] = articles[k] \/ (k = i /\ articles'[k] = b)
    <3>1. i \in 1..Len(articles) /\ b \in ArticleRow
      BY <1>1, <2>2, <2>5 DEF Row
    <3>2. /\ [articles EXCEPT ![i] = b] \in Seq(ArticleRow)
          /\ Len([articles EXCEPT ![i] = b]) = Len(articles)
          /\ \A k \in 1..Len(articles) : [articles EXCEPT ![i] = b][k] = IF k = i THEN b ELSE articles[k]
      <4> HIDE DEF a, b
      <4> QED
        BY <1>1, <3>1, ExceptSeq
    <3>3. CASE articles' = articles
      BY <1>1, <3>3
    <3>4. CASE articles' = [articles EXCEPT ![i] = b]
      <4> DEFINE next == [articles EXCEPT ![i] = b]
      <4>1. articles' = next
        BY <3>4
      <4> HIDE DEF b, next
      <4> QED
        BY <1>1, <3>2, <4>1 DEF next
    <3> QED
      BY <2>6, <3>3, <3>4
  <2>8. \A k \in DOMAIN articles :
          /\ articles'[k].title = articles[k].title /\ articles'[k].by = articles[k].by
          /\ articles'[k].status = "PUBLISHED" => articles'[k].approvedFor \in 1..time
          /\ articles'[k].status = "PENDING" => articles'[k].publishedAt = articles'[k].approvedFor
    <3>1. b.title = articles[i].title /\ b.by = articles[i].by
      BY <2>5 DEF Row
    <3>2. ASSUME NEW k \in DOMAIN articles
          PROVE  /\ articles[k].status = "PUBLISHED" => articles[k].approvedFor \in 1..time
                 /\ articles[k].status = "PENDING" => articles[k].publishedAt = articles[k].approvedFor
      BY DEF PublicByDecision, DatesAgree
    <3> HIDE DEF b
    <3>3. /\ b.status = articles[i].status /\ b.publishedAt = articles[i].publishedAt
          /\ b.approvedFor = articles[i].approvedFor
      BY <2>5
    <3> HIDE DEF a
    <3> TAKE k \in DOMAIN articles
    <3>4. CASE articles'[k] = articles[k]
      BY <3>2, <3>4
    <3>5. CASE k = i /\ articles'[k] = b
      BY <3>1, <3>2, <3>3, <3>5
    <3> QED
      BY <2>7, <3>4, <3>5
  <2> QED
    BY <1>1, <1>2, <2>4, <2>7, <2>8, RowsRewritten
<1> QED
  BY <1>3, <1>4, <1>5 DEF NewsRunStep

\* What is left of the headlines after the first of those left is stored.
LEMMA Suffix ==
    ASSUME NEW k \in 1..Len(Sources)
    PROVE  LET rest == SubSeq(Sources, k + 1, Len(Sources))
           IN  /\ Head(SubSeq(Sources, k, Len(Sources))) = Sources[k]
               /\ Tail(SubSeq(Sources, k, Len(Sources))) = rest
               /\ rest \in Seq(Titles) /\ Len(rest) = Len(Sources) - k
               /\ (rest = <<>> <=> k = Len(Sources))
<1> DEFINE n == Len(Sources)
           rest == SubSeq(Sources, k + 1, n)
<1>1. Sources \in Seq(Titles) /\ n \in Nat /\ k \in Nat /\ k <= n
  BY NewsAssumption, LenProperties
<1>2. \A i \in (k + 1)..n : Sources[i] \in Titles
  BY <1>1 DEF Titles
<1>3. rest \in Seq(Titles) /\ Len(rest) = n - k
  <2>1. /\ rest \in Seq(Titles) /\ Len(rest) = IF k + 1 <= n THEN n - (k + 1) + 1 ELSE 0
    BY <1>1, <1>2, SubSeqProperties
  <2> HIDE DEF n, rest
  <2> QED
    BY <1>1, <2>1
<1>4. Head(SubSeq(Sources, k, n)) = Sources[k] /\ Tail(SubSeq(Sources, k, n)) = rest
  <2>1. n \in k..n
    BY <1>1
  <2> QED
    BY <1>1, <2>1, HeadTailOfSubSeq
<1>5. rest = <<>> <=> k = n
  <2> HIDE DEF n, rest
  <2> QED
    BY <1>1, <1>3, EmptySeq
<1> QED
  BY <1>3, <1>4, <1>5

\* The headlines are distinct: storing the next one leaves the others' counts alone.
LEMMA StoreStep ==
    ASSUME NewsIInv, NEW r \in Requests, StoreSource(r)
    PROVE  NewsIInv'
<1> USE DEF NewsIInv
<1> DEFINE n == Len(Sources)
           d == drafting[r]
<1>1. /\ Sources \in Seq(Titles) /\ n \in Nat /\ n > 0 /\ DOMAIN Sources = 1..n
      /\ \A i, j \in 1..n : Sources[i] = Sources[j] => i = j
      /\ \A x \in Titles : \E i \in 1..n : x = Sources[i]
  BY NewsAssumption, LenProperties DEF Titles
<1>2. /\ d.pc = "storing" /\ d \in Draft /\ d.attempt \in 1..2 /\ d.todo \in Seq(Titles)
      /\ UNCHANGED <<working, newsEnabled, healthy, temper, time, decisions>>
  BY DEF StoreSource, NewsRows, Draft
<1>3. Done(r) \in 0..(n - 1)
  BY <1>2 DEF StoredSoFar, Stored
<1>4. PICK k \in 1..n : k = Done(r) + 1
  BY <1>1, <1>3
<1> DEFINE t == Sources[k]
<1>5. t \in Titles /\ d.todo = SubSeq(Sources, k, n)
  BY <1>1, <1>2, <1>4 DEF Titles, StoredSoFar, Stored
<1>6. /\ Head(d.todo) = t /\ Tail(d.todo) = SubSeq(Sources, k + 1, n) /\ Len(Tail(d.todo)) = n - k
      /\ Tail(d.todo) \in Seq(Titles) /\ (Tail(d.todo) = <<>> <=> k = n)
  BY <1>5, Suffix
<1>7. PICK vi \in SUBSET Full : articles' = Append(articles,
          [title |-> t, by |-> r, vi |-> vi, status |-> "PENDING", publishedAt |-> NoDate,
           approvedFor |-> NoDate])
  BY <1>6 DEF StoreSource, DraftVi, Full
<1> DEFINE a == [title |-> t, by |-> r, vi |-> vi, status |-> "PENDING", publishedAt |-> NoDate,
                 approvedFor |-> NoDate]
<1>8. a \in ArticleRow
  BY <1>5, NewsAssumption DEF ArticleRow, NoDate
<1>9. /\ articles \in Seq(ArticleRow) /\ articles' \in Seq(ArticleRow)
      /\ DOMAIN articles' = DOMAIN articles \union {Len(articles) + 1}
      /\ articles'[Len(articles) + 1] = a
      /\ \A i \in DOMAIN articles : articles'[i] = articles[i]
  <2>1. articles \in Seq(ArticleRow)
    BY DEF NewsRows
  <2> HIDE DEF a
  <2> QED
    BY <1>7, <1>8, <2>1, AppendProperties, LenProperties DEF a
<1>10. \A q \in Requests, x \in Titles :
        /\ StoredBy(q, x) \in Nat
        /\ StoredBy(q, x)' = IF q = r /\ x = t THEN StoredBy(q, x) + 1 ELSE StoredBy(q, x)
  <2> TAKE q \in Requests, x \in Titles
  <2>1. a.by = r /\ a.title = t /\ articles' = Append(articles, a)
    BY <1>7
  <2> HIDE DEF a, t
  <2>2. StoredBy(q, x)' = IF a.by = q /\ a.title = x THEN StoredBy(q, x) + 1 ELSE StoredBy(q, x)
    BY <1>8, <1>9, <2>1, OneMoreStored
  <2> QED
    BY <1>9, <2>1, <2>2, StoredNat
<1> DEFINE e == [d EXCEPT !.todo = SubSeq(Sources, k + 1, n),
                          !.pc = IF k = n THEN "ok" ELSE "storing"]
<1>11. drafting' = [drafting EXCEPT ![r] = e]
  BY <1>6 DEF StoreSource
<1>12. /\ e \in Draft /\ e.attempt = d.attempt /\ e.todo = SubSeq(Sources, k + 1, n)
       /\ Len(e.todo) = n - k
       /\ e.pc = IF k = n THEN "ok" ELSE "storing"
  <2>1. SubSeq(Sources, k + 1, n) \in Seq(Titles) /\ Len(SubSeq(Sources, k + 1, n)) = n - k
    BY <1>6
  <2> DEFINE rest == SubSeq(Sources, k + 1, n)
             pc == IF k = n THEN "ok" ELSE "storing"
  <2>2. pc \in {"ok", "storing"} /\ rest \in Seq(Titles) /\ e = [d EXCEPT !.todo = rest, !.pc = pc]
    BY <2>1
  <2>3. d \in Draft
    BY <1>2
  <2>4. e \in Draft /\ e.attempt = d.attempt /\ e.todo = rest /\ e.pc = pc
    <3> HIDE DEF d, e, rest, pc
    <3> QED
      BY <2>2, <2>3 DEF Draft
  <2> QED
    BY <2>1, <2>4
<1>13. /\ drafting' \in [Requests -> Draft] /\ drafting'[r] = e
       /\ \A q \in Requests : q # r => drafting'[q] = drafting[q]
  <2> HIDE DEF e
  <2> QED
    BY <1>11, <1>12 DEF NewsRows
<1>14. NewsRows'
  BY <1>2, <1>9, <1>13 DEF NewsRows, NewsRun
<1>15. PublicByDecision' /\ DatesAgree'
  <2>1. a.status = "PENDING" /\ a.publishedAt = a.approvedFor
    OBVIOUS
  <2> HIDE DEF a
  <2> QED
    BY <1>2, <1>9, <2>1 DEF PublicByDecision, DatesAgree
<1>16. /\ \A j \in 1..n : j < k => StoredBy(r, Sources[j])' \in 1..d.attempt
       /\ StoredBy(r, Sources[k])' \in 1..d.attempt
       /\ \A j \in 1..n : j > k => StoredBy(r, Sources[j])' <= d.attempt - 1
  <2>1. \A j \in 1..n : /\ j <= Done(r) => StoredBy(r, Sources[j]) \in 1..d.attempt
                        /\ j > Done(r) => StoredBy(r, Sources[j]) <= d.attempt - 1
    BY <1>2 DEF StoredSoFar, Stored
  <2>2. \A j \in 1..n : /\ Sources[j] \in Titles /\ (j # k => Sources[j] # t)
                        /\ StoredBy(r, Sources[j]) \in Nat
    BY <1>1, <1>5, <1>10 DEF Titles
  <2>3. \A j \in 1..n : j # k => StoredBy(r, Sources[j])' = StoredBy(r, Sources[j])
    BY <1>10, <2>2
  <2>4. StoredBy(r, Sources[k])' = StoredBy(r, Sources[k]) + 1
    BY <1>5, <1>10
  <2>5. Done(r) \in Int /\ k = Done(r) + 1 /\ d.attempt \in 1..2
    BY <1>2, <1>3, <1>4
  <2> HIDE DEF d, t
  <2>6. \A j \in 1..n : j < k => StoredBy(r, Sources[j])' \in 1..d.attempt
    BY <2>1, <2>3, <2>5
  <2>7. \A j \in 1..n : j > k => StoredBy(r, Sources[j])' <= d.attempt - 1
    BY <2>1, <2>3, <2>5
  <2>8. StoredBy(r, Sources[k]) \in Nat /\ StoredBy(r, Sources[k]) <= d.attempt - 1
    BY <1>4, <2>1, <2>2, <2>5
  <2>9. StoredBy(r, Sources[k])' \in 1..d.attempt
    BY <2>4, <2>5, <2>8
  <2> QED
    BY <2>6, <2>7, <2>9
<1>17. StoredSoFar'
  <2> SUFFICES ASSUME NEW q \in Requests
               PROVE  Stored(q)'
    BY DEF StoredSoFar
  <2>1. CASE q = r
    <3>1. drafting'[q] = e /\ Done(q)' = k /\ (e.pc = "storing" => k < n) /\ e.pc # "idle"
      <4>1. drafting'[q] = e /\ Len(e.todo) = n - k /\ e.pc = IF k = n THEN "ok" ELSE "storing"
        BY <1>12, <1>13, <2>1
      <4>2. Done(q)' = n - Len(e.todo)
        BY <4>1 DEF Done
      <4> HIDE DEF e
      <4> QED
        BY <1>1, <1>4, <4>1, <4>2
    <3>2. \A j \in 1..n : /\ j <= k => StoredBy(q, Sources[j])' \in 1..e.attempt
                          /\ j > k => StoredBy(q, Sources[j])' <= e.attempt - 1
      <4>1. e.attempt = d.attempt /\ d.attempt \in 1..2
        BY <1>2, <1>12
      <4> HIDE DEF d, e
      <4> QED
        BY <1>1, <1>4, <1>16, <2>1, <4>1
    <3>3. e.todo = SubSeq(Sources, k + 1, n) /\ (e.pc = "storing" => k \in 0..(n - 1))
      <4>1. e.todo = SubSeq(Sources, k + 1, n)
        BY <1>12
      <4>2. k < n => k \in 0..(n - 1)
        BY <1>1, <1>4
      <4> HIDE DEF e
      <4> QED
        BY <3>1, <4>1, <4>2
    <3> HIDE DEF e
    <3> QED
      BY <3>1, <3>2, <3>3 DEF Stored
  <2>2. CASE q # r
    <3>1. \A x \in Titles : StoredBy(q, x)' = StoredBy(q, x)
      BY <1>10, <2>2
    <3>2. \A j \in 1..n : StoredBy(q, Sources[j])' = StoredBy(q, Sources[j])
      BY <1>1, <3>1 DEF Titles
    <3>3. drafting'[q] = drafting[q] /\ Done(q)' = Done(q)
      BY <1>13, <2>2 DEF Done
    <3> QED
      BY <3>1, <3>2, <3>3 DEF StoredSoFar, Stored
  <2> QED
    BY <2>1, <2>2
<1>18. RequestStoresEverySource'
  <2> SUFFICES ASSUME NEW q \in Requests, NEW x \in Titles
               PROVE  (/\ drafting[q].pc = "ok" => StoredBy(q, x) \in 1..drafting[q].attempt
                       /\ StoredBy(q, x) <= drafting[q].attempt)'
    BY DEF RequestStoresEverySource
  <2>1. CASE q = r
    <3>1. PICK j \in 1..n : x = Sources[j]
      BY <1>1
    <3>2. drafting'[q] = e /\ e.attempt = d.attempt /\ (e.pc = "ok" => k = n)
      BY <1>12, <1>13, <2>1
    <3>3. StoredBy(q, x)' <= d.attempt /\ (k = n => StoredBy(q, x)' \in 1..d.attempt)
      <4>1. j < k \/ j = k \/ j > k
        BY <1>1, <1>4, <3>1
      <4> QED
        <5>1. d.attempt \in 1..2 /\ k \in Nat /\ n \in Nat /\ j \in Nat /\ j <= n /\ q = r
          BY <1>1, <1>2, <1>4, <2>1, <3>1
        <5> HIDE DEF d
        <5>2. CASE j < k
          BY <1>16, <3>1, <5>1, <5>2
        <5>3. CASE j = k
          BY <1>16, <3>1, <5>1, <5>3
        <5>4. CASE j > k
          <6>1. StoredBy(r, x)' \in Nat
            <7>1. x \in Titles /\ x # t
              BY <1>1, <1>4, <3>1, <5>1, <5>4 DEF Titles
            <7> HIDE DEF t
            <7> QED
              BY <1>10, <7>1
          <6>2. StoredBy(r, x)' <= d.attempt - 1 /\ k # n
            BY <1>16, <3>1, <5>1, <5>4
          <6> QED
            BY <5>1, <6>1, <6>2
        <5> QED
          BY <4>1, <5>2, <5>3, <5>4
    <3> HIDE DEF d, e
    <3> QED
      BY <3>2, <3>3
  <2>2. CASE q # r
    BY <1>10, <1>13, <2>2 DEF RequestStoresEverySource
  <2> QED
    BY <2>1, <2>2
<1> QED
  BY <1>14, <1>15, <1>17, <1>18

\* generate: a request starts over all headlines; a failure starts it over once.
LEMMA RequestStep ==
    ASSUME NewsIInv, NEW r \in Requests, StartRequest(r) \/ StoreFails(r)
    PROVE  NewsIInv'
<1> USE DEF NewsIInv
<1> DEFINE n == Len(Sources)
           d == drafting[r]
<1>1. /\ Sources \in Seq(Titles) /\ n \in Nat /\ n > 0 /\ SubSeq(Sources, 1, n) = Sources
      /\ \A x \in Titles : \E i \in 1..n : x = Sources[i]
      /\ \A i \in 1..n : Sources[i] \in Titles
  BY NewsAssumption, LenProperties, SubSeqFull DEF Titles
<1>2. /\ d \in Draft /\ drafting \in [Requests -> Draft] /\ articles \in Seq(ArticleRow)
      /\ UNCHANGED <<articles, working, newsEnabled, healthy, temper, time, decisions>>
  BY DEF StartRequest, StoreFails, NewsRows
<1>3. \A q, x : StoredBy(q, x)' = StoredBy(q, x) /\ StoredBy(q, x) \in Nat
  BY <1>2, SameStored, StoredNat
<1>4. PICK e \in Draft :
        /\ drafting' = [drafting EXCEPT ![r] = e] /\ e.pc # "idle" /\ e.pc # "ok"
        /\ e.pc = "storing" => e.todo = Sources
        /\ \/ e.attempt = 1 /\ d.pc = "idle"
           \/ e.attempt = 2 /\ (e.pc = "storing" => d.attempt = 1)
  <2>1. CASE StartRequest(r)
    <3>1. PICK real \in BOOLEAN : drafting' =
            [drafting EXCEPT ![r] = [pc |-> "storing", todo |-> Sources, attempt |-> 1, real |-> real]]
      BY <2>1 DEF StartRequest
    <3>2. [pc |-> "storing", todo |-> Sources, attempt |-> 1, real |-> real] \in Draft
      BY <1>1 DEF Draft
    <3> QED
      BY <2>1, <3>1, <3>2 DEF StartRequest
  <2>2. CASE StoreFails(r)
    <3>1. drafting' = [drafting EXCEPT ![r] =
            IF d.attempt = 1 THEN [pc |-> "storing", todo |-> Sources, attempt |-> 2, real |-> FALSE]
            ELSE [d EXCEPT !.pc = "failed", !.todo = <<>>]]
      BY <2>2 DEF StoreFails, Restart
    <3>2. [pc |-> "storing", todo |-> Sources, attempt |-> 2, real |-> FALSE] \in Draft
      BY <1>1 DEF Draft
    <3>3. d.pc = "storing"
      BY <2>2 DEF StoreFails
    <3>4. CASE d.attempt = 1
      BY <3>1, <3>2, <3>3, <3>4
    <3>5. CASE d.attempt # 1
      <4> DEFINE e == [d EXCEPT !.pc = "failed", !.todo = <<>>]
      <4>1. e \in Draft /\ e.attempt = 2 /\ e.pc = "failed"
        <5>1. d.attempt \in 1..2 /\ <<>> \in Seq(Titles) /\ d.attempt = 2
          BY <1>2, <3>5 DEF Draft
        <5>2. e = [d EXCEPT !.pc = "failed", !.todo = <<>>]
          OBVIOUS
        <5> HIDE DEF d, e
        <5> QED
          BY <1>2, <5>1, <5>2 DEF Draft
      <4>2. drafting' = [drafting EXCEPT ![r] = e]
        BY <3>1, <3>5
      <4> HIDE DEF e
      <4> QED
        BY <3>3, <4>1, <4>2
    <3> QED
      BY <3>4, <3>5
  <2> QED
    BY <2>1, <2>2
<1>5. /\ drafting' \in [Requests -> Draft] /\ drafting'[r] = e
      /\ \A q \in Requests : q # r => drafting'[q] = drafting[q]
  BY <1>2, <1>4
<1>6. NewsRows'
  BY <1>2, <1>5 DEF NewsRows, NewsRun
<1>7. PublicByDecision' /\ DatesAgree'
  BY <1>2 DEF PublicByDecision, DatesAgree
<1>8. \A x \in Titles : /\ StoredBy(r, x) <= e.attempt
                        /\ e.pc = "storing" => StoredBy(r, x) <= e.attempt - 1
  <2>1. CASE e.attempt = 1 /\ d.pc = "idle"
    BY <2>1 DEF StoredSoFar, Stored
  <2>2. CASE e.attempt = 2 /\ (e.pc = "storing" => d.attempt = 1)
    <3>1. \A x \in Titles : StoredBy(r, x) <= d.attempt /\ StoredBy(r, x) \in Nat
      BY <1>3 DEF RequestStoresEverySource
    <3>2. d.attempt \in 1..2
      BY <1>2 DEF Draft
    <3> HIDE DEF d
    <3> QED
      BY <2>2, <3>1, <3>2
  <2> QED
    BY <1>4, <2>1, <2>2
<1>9. RequestStoresEverySource'
  <2> SUFFICES ASSUME NEW q \in Requests, NEW x \in Titles
               PROVE  (/\ drafting[q].pc = "ok" => StoredBy(q, x) \in 1..drafting[q].attempt
                       /\ StoredBy(q, x) <= drafting[q].attempt)'
    BY DEF RequestStoresEverySource
  <2>1. CASE q = r
    <3>1. drafting'[q] = e /\ e.pc # "ok" /\ StoredBy(q, x)' = StoredBy(r, x)
      BY <1>3, <1>4, <1>5, <2>1
    <3>2. StoredBy(r, x) <= e.attempt
      BY <1>8
    <3>3. StoredBy(q, x)' <= e.attempt
      BY <3>1, <3>2
    <3> QED
      BY <3>1, <3>3
  <2>2. CASE q # r
    BY <1>3, <1>5, <2>2 DEF RequestStoresEverySource
  <2> QED
    BY <2>1, <2>2
<1>10. StoredSoFar'
  <2> SUFFICES ASSUME NEW q \in Requests
               PROVE  Stored(q)'
    BY DEF StoredSoFar
  <2>1. CASE q = r
    <3>1. drafting'[q] = e /\ e.pc # "idle" /\ (e.pc = "storing" => e.todo = Sources /\ Done(q)' = 0)
      BY <1>1, <1>4, <1>5, <2>1 DEF Done
    <3>2. CASE e.pc = "storing"
      <4>1. \A j \in 1..n : j > 0 /\ StoredBy(q, Sources[j])' <= e.attempt - 1
        <5> TAKE j \in 1..n
        <5>1. j > 0 /\ Sources[j] \in Titles
          BY <1>1
        <5>2. StoredBy(r, Sources[j]) <= e.attempt - 1
          BY <1>8, <3>2, <5>1
        <5>3. StoredBy(q, Sources[j])' = StoredBy(r, Sources[j])
          BY <1>3, <2>1
        <5> QED
          BY <5>1, <5>2, <5>3
      <4>2. 0 \in 0..(n - 1) /\ \A j \in 1..n : ~(j <= 0)
        BY <1>1
      <4> QED
        BY <1>1, <3>1, <3>2, <4>1, <4>2 DEF Stored
    <3> QED
      BY <3>1, <3>2 DEF Stored
  <2>2. CASE q # r
    <3>1. drafting'[q] = drafting[q] /\ Done(q)' = Done(q)
      BY <1>5, <2>2 DEF Done
    <3> QED
      BY <1>3, <3>1 DEF StoredSoFar, Stored
  <2> QED
    BY <2>1, <2>2
<1> QED
  BY <1>6, <1>7, <1>9, <1>10

LEMMA NewsInductive == NewsIInv /\ [NewsNext]_nvars => NewsIInv'
<1> SUFFICES ASSUME NewsIInv, [NewsNext]_nvars PROVE NewsIInv'
  OBVIOUS
<1>1. ASSUME NEW r \in Requests, StartRequest(r) \/ StoreFails(r) PROVE NewsIInv'
  BY <1>1, RequestStep
<1>2. ASSUME NEW r \in Requests, StoreSource(r) PROVE NewsIInv'
  BY <1>2, StoreStep
<1>3. ASSUME NEW i \in DOMAIN articles, Approve(i) \/ Schedule(i) \/ Reject(i) PROVE NewsIInv'
  BY <1>3, DecisionStep
<1>4. ASSUME NewsRunStep PROVE NewsIInv'
  BY <1>4, RunStep
<1>5. ASSUME Switch \/ Recover \/ NewsTick \/ UNCHANGED nvars PROVE NewsIInv'
  <2>1. UNCHANGED <<articles, drafting, working, decisions, temper>>
    BY <1>5 DEF Switch, Recover, NewsTick, nvars
  <2>2. time \in 1..LastDay /\ time' \in 1..LastDay /\ time <= time'
    BY <1>5, NewsAssumption DEF Switch, Recover, NewsTick, nvars, NewsIInv, NewsRows
  <2>3. {newsEnabled', healthy'} \subseteq BOOLEAN
    <3>1. {newsEnabled, healthy} \subseteq BOOLEAN
      BY DEF NewsIInv, NewsRows
    <3> QED
      BY <1>5, <3>1, Zenon DEF Switch, Recover, NewsTick, nvars
  <2>4. \A q, x : StoredBy(q, x)' = StoredBy(q, x)
    BY <2>1 DEF StoredBy
  <2>5. NewsRows'
    BY <2>1, <2>2, <2>3 DEF NewsIInv, NewsRows, NewsRun
  <2>6. PublicByDecision'
    <3>1. \A x \in 1..time : x \in 1..time'
      BY <2>2
    <3> QED
      BY <2>1, <3>1 DEF NewsIInv, PublicByDecision
  <2>7. DatesAgree' /\ RequestStoresEverySource' /\ StoredSoFar'
    BY <2>1, <2>4 DEF NewsIInv, DatesAgree, RequestStoresEverySource, StoredSoFar, Stored, Done
  <2> QED
    BY <2>5, <2>6, <2>7 DEF NewsIInv
<1> QED
  BY <1>1, <1>2, <1>3, <1>4, <1>5 DEF NewsNext

LEMMA NewsBegins == NewsInit => NewsIInv
<1> SUFFICES ASSUME NewsInit PROVE NewsIInv
  OBVIOUS
<1>1. /\ articles = <<>> /\ DOMAIN articles = {} /\ articles \in Seq(ArticleRow)
  BY DEF NewsInit
<1>2. \A q, x : StoredBy(q, x) = 0
  <2>1. \A q, x : {i \in DOMAIN articles : articles[i].by = q /\ articles[i].title = x} = {}
    BY <1>1
  <2> QED
    BY <2>1, FS_EmptySet DEF StoredBy
<1>3. NewsRows
  <2>1. drafting \in [Requests -> Draft]
    BY DEF NewsInit, Draft
  <2>2. working \in NewsRun /\ Cardinality(working.batch) <= Limit
    BY NewsAssumption, FS_EmptySet DEF NewsInit, Idle, NewsRun
  <2>3. temper \in [Titles -> Temper] /\ time \in 1..LastDay /\ decisions \in 0..MaxDecisions
    BY NewsAssumption DEF NewsInit
  <2>4. {newsEnabled, healthy} \subseteq BOOLEAN
    BY Zenon DEF NewsInit
  <2> QED
    BY <1>1, <2>1, <2>2, <2>3, <2>4 DEF NewsRows
<1>4. PublicByDecision /\ DatesAgree
  BY <1>1 DEF PublicByDecision, DatesAgree
<1>5. \A r \in Requests : drafting[r].pc = "idle" /\ drafting[r].attempt = 1
  BY DEF NewsInit
<1>6. RequestStoresEverySource
  BY <1>2, <1>5 DEF RequestStoresEverySource
<1>7. StoredSoFar
  BY <1>2, <1>5 DEF StoredSoFar, Stored
<1> QED
  BY <1>3, <1>4, <1>6, <1>7 DEF NewsIInv

(* NewsInv, whatever the model answers and whoever decides what: what is public (news.ts    *)
(* publishDue, the routes' approve) was approved for a time that has come, no run takes more *)
(* than its limit of articles, and a generation that answers with a success has left no      *)
(* headline out and stored none more often than it started over.                            *)
THEOREM NewsSound == NewsSpec => []NewsInv
<1>1. NewsIInv => NewsInv
  <2> SUFFICES ASSUME NewsIInv PROVE NewsTypeOK
    BY DEF NewsIInv, NewsInv
  <2>1. \A i \in DOMAIN articles : articles[i] \in ArticleRow
    BY ElementOfSeq, LenProperties DEF NewsIInv, NewsRows
  <2>2. \A i \in DOMAIN articles :
       /\ articles[i].vi \subseteq Full /\ articles[i].title \in Titles /\ articles[i].by \in Requests
       /\ articles[i].status \in {"PENDING", "PUBLISHED", "REJECTED"}
       /\ {articles[i].publishedAt, articles[i].approvedFor} \subseteq 0..LastDay
    BY <2>1 DEF ArticleRow
  <2>3. \A r \in Requests : drafting[r] \in Draft
    BY DEF NewsIInv, NewsRows
  <2>4. \A r \in Requests : /\ drafting[r].pc \in {"idle", "storing", "ok", "failed"}
                         /\ drafting[r].todo \in Seq(Titles) /\ drafting[r].attempt \in 1..2
                         /\ drafting[r].real \in BOOLEAN
    BY <2>3 DEF Draft
  <2> QED
    BY <2>2, <2>4 DEF NewsTypeOK, NewsIInv, NewsRows, NewsRun
<1> QED
  BY <1>1, NewsBegins, NewsInductive, PTL DEF NewsSpec

-----------------------------------------------------------------------------
(* MatchJobs: a queued job is due when the last scan that named it said.       *)

\* A queued job is due when the last scan that named it said.
DueAsScanned == \A j \in Rescheduled : queue[j] = "delayed" => due[j] = lastScan[j]
JobsIInv == JobsTypeOK /\ DueAsScanned

\* The delays are never negative, and count from the present.
LEMMA DueTimeTyped ==
    ASSUME clock \in 0..MaxTime, NEW j \in Jobs,
           NEW read \in [kickoff : Kickoffs, lead : [Rescheduled -> Leads], on : SUBSET Jobs]
    PROVE  DueTime(j, read) \in Times
<1>1. /\ clock \in Nat /\ clock <= MaxTime /\ MaxTime \in Nat /\ FirstDelay \in Nat
      /\ read.kickoff \in Nat /\ read.kickoff <= MaxTime
      /\ \A i \in Rescheduled : read.lead[i] \in Nat
  <2>1. read.kickoff \in Kickoffs /\ read.lead \in [Rescheduled -> Leads]
    OBVIOUS
  <2>2. MaxTime \in Nat /\ FirstDelay \in Nat /\ Kickoffs \subseteq 0..MaxTime /\ Leads \subseteq Nat
    BY JobsAssumption
  <2>3. \A i \in Rescheduled : read.lead[i] \in Leads
    BY <2>1
  <2>4. read.kickoff \in 0..MaxTime /\ clock \in 0..MaxTime
    BY <2>1, <2>2
  <2>5. \A i \in Rescheduled : read.lead[i] \in Nat
    BY <2>2, <2>3
  <2> HIDE DEF Rescheduled
  <2> QED
    BY <2>2, <2>4, <2>5
<1>2. CASE j = "result"
  BY <1>1, <1>2 DEF DueTime, NotBefore, Times
<1>3. CASE j # "result"
  <2>1. j \in Rescheduled
    BY <1>3 DEF Jobs, Rescheduled
  <2> QED
    BY <1>1, <1>3, <2>1 DEF DueTime, NotBefore, Times
<1> QED
  BY <1>2, <1>3

LEMMA QueueStep == ASSUME JobsIInv, NEW s \in Scanners, QueueJobs(s) PROVE JobsIInv'
<1> USE DEF JobsIInv
<1> DEFINE read == snap[s]
<1>1. /\ read \in [kickoff : Kickoffs, lead : [Rescheduled -> Leads], on : SUBSET Jobs]
      /\ clock \in 0..MaxTime
  <2>1. snap[s] # NoScan /\ snap[s] \in [kickoff : Kickoffs, lead : [Rescheduled -> Leads],
                              on : SUBSET Jobs] \union {NoScan}
    BY DEF QueueJobs, JobsTypeOK
  <2> QED
    BY <2>1 DEF JobsTypeOK
<1>2. \A j \in Jobs : DueTime(j, read) \in Times
  BY <1>1, DueTimeTyped
<1>3. Rescheduled \subseteq Jobs
  BY DEF Rescheduled, Jobs
<1>4. JobsTypeOK'
  <2>1. queue' \in [Jobs -> {"absent", "delayed", "done"}]
    BY DEF QueueJobs, JobsTypeOK
  <2>2. due' \in [Jobs -> Times]
    BY <1>2 DEF QueueJobs, JobsTypeOK
  <2>3. lastScan' \in [Rescheduled -> Times \union {NotRead}]
    BY <1>2, <1>3 DEF QueueJobs, JobsTypeOK
  <2>4. snap' \in [Scanners -> [kickoff : Kickoffs, lead : [Rescheduled -> Leads],
                              on : SUBSET Jobs] \union {NoScan}]
    BY DEF QueueJobs, JobsTypeOK
  <2> QED
    BY <2>1, <2>2, <2>3, <2>4 DEF QueueJobs, JobsTypeOK, config
<1>5. DueAsScanned'
  BY <1>3 DEF QueueJobs, DueAsScanned, Requeued
<1> QED
  BY <1>4, <1>5

LEMMA JobsInductive == JobsIInv /\ [JobsNext]_jobVars => JobsIInv'
<1> SUFFICES ASSUME JobsIInv, [JobsNext]_jobVars PROVE JobsIInv'
  OBVIOUS
<1> USE DEF JobsIInv
<1>1. ASSUME NEW s \in Scanners, ReadConfig(s) PROVE JobsIInv'
  <2>1. [kickoff |-> kickoff, lead |-> lead, on |-> on]
          \in [kickoff : Kickoffs, lead : [Rescheduled -> Leads], on : SUBSET Jobs]
    BY DEF JobsTypeOK
  <2>2. JobsTypeOK'
    BY <1>1, <2>1 DEF ReadConfig, JobsTypeOK, config, jobs
  <2>3. DueAsScanned'
    BY <1>1 DEF ReadConfig, DueAsScanned, jobs
  <2> QED
    BY <2>2, <2>3
<1>2. ASSUME NEW s \in Scanners, QueueJobs(s) PROVE JobsIInv'
  BY <1>2, QueueStep
<1>3. ASSUME NEW j \in Jobs, Run(j) PROVE JobsIInv'
  <2>1. locked' \in BOOLEAN
    BY <1>3, Zenon DEF Run, JobsTypeOK
  <2>2. JobsTypeOK'
    BY <1>3, <2>1 DEF Run, JobsTypeOK, config
  <2>3. DueAsScanned'
    BY <1>3 DEF Run, DueAsScanned, JobsTypeOK, Jobs, Rescheduled
  <2> QED
    BY <2>2, <2>3
<1>4. ASSUME NEW j \in Jobs, ToggleJob(j) PROVE JobsIInv'
  BY <1>4, JobsAssumption DEF ToggleJob, Edit, JobsTypeOK, DueAsScanned, jobs
<1>5. ASSUME JobsTick \/ MatchAdvances PROVE JobsIInv'
  BY <1>5, JobsAssumption DEF JobsTick, MatchAdvances, JobsTypeOK, DueAsScanned, jobs, config
<1>6. ASSUME NEW t \in Kickoffs, MoveKickoff(t) PROVE JobsIInv'
  BY <1>6, JobsAssumption DEF MoveKickoff, Edit, JobsTypeOK, DueAsScanned, jobs, config
<1>7. ASSUME NEW j \in Rescheduled, NEW m \in Leads, SetLead(j, m) PROVE JobsIInv'
  BY <1>7, JobsAssumption DEF SetLead, Edit, JobsTypeOK, DueAsScanned, jobs
<1>8. ASSUME NEW to \in BOOLEAN, SetLock(to) PROVE JobsIInv'
  BY <1>8, JobsAssumption DEF SetLock, Edit, JobsTypeOK, DueAsScanned, jobs, config
<1>9. ASSUME UNCHANGED jobVars PROVE JobsIInv'
  BY <1>9 DEF jobVars, JobsTypeOK, DueAsScanned, jobs, config
<1> QED
  BY <1>1, <1>2, <1>3, <1>4, <1>5, <1>6, <1>7, <1>8, <1>9 DEF JobsNext

LEMMA JobsBegin == JobsInit => JobsIInv
<1> SUFFICES ASSUME JobsInit PROVE JobsIInv
  OBVIOUS
<1>1. 0 \in 0..MaxTime /\ 0 \in Times /\ 0 \in 0..MaxEdits
  BY JobsAssumption DEF Times
<1>2. JobsTypeOK
  BY <1>1 DEF JobsInit, JobsTypeOK
<1>3. DueAsScanned
  BY DEF JobsInit, DueAsScanned, Jobs, Rescheduled
<1> QED
  BY <1>2, <1>3 DEF JobsIInv

(* JobsFollowScans, for any number of scanners, edits and kick-offs: no line-up or lock job  *)
(* runs before the time the last scan gave it (match-scheduler.service.ts removes a job and  *)
(* adds it again), although scans overlap and carry configurations read earlier.             *)
THEOREM JobsAsScanned == JobsSpec => JobsFollowScans
<1>1. JobsIInv /\ [JobsNext]_jobVars
        => [\A j \in Rescheduled : Run(j) => clock >= lastScan[j]]_jobVars
  BY DEF JobsIInv, DueAsScanned, Run
<1>2. JobsIInv => JobsTypeOK
  BY DEF JobsIInv
<1> QED
  BY <1>1, <1>2, JobsBegin, JobsInductive, PTL DEF JobsSpec, JobsFollowScans, FollowsLastScan
=============================================================================
