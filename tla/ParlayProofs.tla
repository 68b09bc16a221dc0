---------------------------- MODULE ParlayProofs ----------------------------
(***************************************************************************)
(* Parlays are settled by the results of their matches for every number of *)
(* matches, parlays and concurrent calls, also while the feeds rewrite the *)
(* match rows and results are corrected.                                   *)
(***************************************************************************)
EXTENDS Parlay, FiniteSetTheorems, TLAPS

\* What a transaction decides from legs that follow the results.
LEMMA VerdictSound ==
    ASSUME ParlayInv, NEW c \in Calls, at[c] = "tx", ToRead(c) = {}
    PROVE  /\ cur[c] \in Parlays
           /\ AllResolved(c) /\ ~HasLost(c) => \A m \in Legs(cur[c]) : pick[cur[c]][m] \in was[m]
           /\ HasLost(c) => \E m \in Legs(cur[c]) : was[m] \ {pick[cur[c]][m]} # {}
<1> USE DEF ParlayInv, TypeOK, LegResult, Verdicts
<1>1. cur[c] \in Parlays
  BY DEF WorkIsPlaced
<1>2. \A m \in Legs(cur[c]) : read[c][m] \in {"PENDING", "WON", "LOST"}
  BY <1>1 DEF ToRead, Legs
<1>3. \A m \in Matches : read[c][m] \in Verdicts =>
          \E r \in was[m] : read[c][m] = LegOutcome(pick[cur[c]][m], r)
  BY DEF ReadsFollowResults
<1>4. ASSUME AllResolved(c), ~HasLost(c), NEW m \in Legs(cur[c])
      PROVE  pick[cur[c]][m] \in was[m]
  <2>1. read[c][m] = "WON"
    BY <1>2, <1>4 DEF AllResolved, HasLost
  <2> QED
    BY <1>3, <2>1 DEF LegOutcome, Legs
<1>5. ASSUME NEW m \in Legs(cur[c]), read[c][m] = "LOST"
      PROVE  was[m] \ {pick[cur[c]][m]} # {}
  BY <1>3, <1>5 DEF LegOutcome, Legs
<1> QED
  BY <1>1, <1>4, <1>5 DEF HasLost

\* Won and lost at once: two results of one match.
LEMMA BothVerdicts ==
    ASSUME NEW p \in Parlays, \A m \in Legs(p) : pick[p][m] \in was[m],
           \E m \in Legs(p) : was[m] \ {pick[p][m]} # {}
    PROVE  Corrected(p)
<1>1. PICK m \in Legs(p) : was[m] \ {pick[p][m]} # {}
  OBVIOUS
<1>2. PICK r \in was[m] : r # pick[p][m]
  BY <1>1
<1> QED
  BY <1>2 DEF Corrected

\* A parlay that has its verdict is given the same one by every later commit, as
\* long as its matches have shown one result; and there is no later commit unless two
\* calls worked on it at a time.
LEMMA VerdictKept ==
    ASSUME ParlayInv, NEW c \in Calls, at[c] = "tx", ToRead(c) = {},
           status[cur[c]] \in Verdicts
    PROVE  Verdict(c) = status[cur[c]] \/ (Corrected(cur[c]) /\ cur[c] \in shared)
<1>0. cur[c] \in shared
  BY DEF ParlayInv, TypeOK, WorkIsPlaced, SoleCaller, Verdicts
<1> SUFFICES ASSUME ~Corrected(cur[c]) PROVE Verdict(c) = status[cur[c]]
  BY <1>0
<1>1. cur[c] \in Parlays
  BY VerdictSound
<1>2. CASE status[cur[c]] = "WON"
  <2>1. \A m \in Legs(cur[c]) : pick[cur[c]][m] \in was[m]
    BY <1>1, <1>2 DEF ParlayInv, VerdictFollowsResults
  <2>2. ~HasLost(c)
    BY <1>1, <2>1, VerdictSound, BothVerdicts
  <2> QED
    BY <1>2, <2>2 DEF Verdict
<1>3. CASE status[cur[c]] = "LOST"
  <2>1. \E m \in Legs(cur[c]) : was[m] \ {pick[cur[c]][m]} # {}
    BY <1>1, <1>3 DEF ParlayInv, VerdictFollowsResults
  <2>2. ~(AllResolved(c) /\ ~HasLost(c))
    BY <1>1, <2>1, VerdictSound, BothVerdicts
  <2> QED
    BY <1>3, <2>2 DEF Verdict
<1> QED
  BY <1>0, <1>2, <1>3 DEF Verdicts

\* A step that only moves calls forward keeps what is said of the rows.
LEMMA RowsStep ==
    ASSUME ParlayInv, UNCHANGED <<result, settled, rows, was>>, shared \subseteq shared'
    PROVE  /\ ResultWas' /\ LegsFollowResults' /\ UnplacedPending'
           /\ VerdictFollowsResults' /\ CreditedIffWon'
BY DEF ParlayInv, rows, ResultWas, LegsFollowResults, UnplacedPending, Placed,
       VerdictFollowsResults, CreditedIffWon, Corrected, Legs, LegOutcome

\* A call that leaves its transaction, for parlays that are placed.
LEMMA LeaveStep ==
    ASSUME ParlayInv, NEW c \in Calls, NEW rest \in SUBSET Parlays, Leave(c, rest),
           \A p \in rest : Placed(p)',
           \A p \in Parlays : Placed(p) => Placed(p)' /\ pick'[p] = pick[p],
           UNCHANGED <<result, was>>
    PROVE  /\ at' \in [Calls -> {"idle", "find", "next", "tx"}]
           /\ on' \in [Calls -> Matches \union {None}]
           /\ todo' \in [Calls -> SUBSET Parlays]
           /\ cur' \in [Calls -> Parlays \union {None}]
           /\ read' \in [Calls -> [Matches -> LegResult \union {"unread"}]]
           /\ mine' \in [Calls -> SUBSET Matches]
           /\ ReadsFollowResults' /\ WorkIsPlaced'
<1> USE DEF ParlayInv, TypeOK, Leave
<1>1. /\ at' \in [Calls -> {"idle", "find", "next", "tx"}]
      /\ on' \in [Calls -> Matches \union {None}]
      /\ todo' \in [Calls -> SUBSET Parlays]
      /\ cur' \in [Calls -> Parlays \union {None}]
      /\ read' \in [Calls -> [Matches -> LegResult \union {"unread"}]]
      /\ mine' \in [Calls -> SUBSET Matches]
  BY DEF Unread
<1>2. at'[c] # "tx" /\ at'[c] # "find" /\ todo'[c] = rest
  OBVIOUS
<1>3. \A d \in Calls : d # c =>
          /\ at'[d] = at[d] /\ todo'[d] = todo[d] /\ cur'[d] = cur[d]
          /\ read'[d] = read[d] /\ mine'[d] = mine[d]
  OBVIOUS
<1>4. WorkIsPlaced'
  BY <1>2, <1>3 DEF WorkIsPlaced
<1>5. ASSUME NEW d \in Calls, at'[d] = "tx", NEW m \in Matches
      PROVE  /\ read'[d][m] \in Verdicts =>
                    \E r \in was'[m] : read'[d][m] = LegOutcome(pick'[cur'[d]][m], r)
             /\ m \in mine'[d] => read'[d][m] \in Verdicts
  <2>1. /\ d # c /\ at[d] = "tx" /\ cur'[d] = cur[d] /\ read'[d] = read[d]
        /\ mine'[d] = mine[d] /\ was'[m] = was[m]
    BY <1>2, <1>3, <1>5
  <2>2. pick'[cur'[d]] = pick[cur[d]]
    BY <2>1 DEF WorkIsPlaced
  <2>3. /\ read[d][m] \in Verdicts => \E r \in was[m] : read[d][m] = LegOutcome(pick[cur[d]][m], r)
        /\ m \in mine[d] => read[d][m] \in Verdicts
    BY <2>1 DEF ReadsFollowResults
  <2> QED
    BY <2>1, <2>2, <2>3
<1>6. ReadsFollowResults'
  BY <1>5 DEF ReadsFollowResults, LegOutcome
<1> QED
  BY <1>1, <1>4, <1>6

\* Calls visit fewer parlays than before, or others without changing the parlays they visit.
LEMMA SoleStep ==
    ASSUME ParlayInv, shared' = shared,
           \A c \in Calls : todo'[c] \subseteq todo[c],
           \A c \in Calls : \A p \in todo'[c] \ shared : status'[p] = status[p]
    PROVE  SoleCaller'
BY DEF ParlayInv, SoleCaller

LEMMA InvStep ==
    ASSUME ParlayInv, [Next]_vars
    PROVE  ParlayInv'
<1> USE ParlayAssumption DEF Verdicts, LegResult, Result, history
<1>2. ASSUME NEW p \in Parlays, NEW picks \in [Matches -> Result], CheckParlay(p, picks)
      PROVE  ParlayInv'
  <2> USE <1>2 DEF CheckParlay, call
  <2>1. TypeOK'
    BY DEF ParlayInv, TypeOK
  <2>2. /\ ~Placed(p) /\ ~Placed(p)'
        /\ \A q \in Parlays : q # p => status'[q] = status[q] /\ pick'[q] = pick[q]
    BY DEF ParlayInv, TypeOK, Placed
  <2>3. ResultWas' /\ LegsFollowResults' /\ UnplacedPending'
    BY <2>2 DEF ParlayInv, ResultWas, LegsFollowResults, UnplacedPending, Placed, LegOutcome
  <2>4. ReadsFollowResults' /\ WorkIsPlaced'
    BY <2>2 DEF ParlayInv, TypeOK, ReadsFollowResults, WorkIsPlaced, Placed, LegOutcome
  <2>5. VerdictFollowsResults'
    BY <2>2 DEF ParlayInv, TypeOK, VerdictFollowsResults, Legs, Placed
  <2>6. CreditedIffWon'
    <3>1. \A q \in Parlays : q # p =>
              status'[q] = status[q] /\ credits'[q] = credits[q] /\ (Corrected(q)' <=> Corrected(q))
      BY <2>2 DEF Corrected, Legs
    <3>2. status'[p] # "WON" /\ credits'[p] = 0
      BY <2>2 DEF ParlayInv, TypeOK, UnplacedPending, Placed
    <3> QED
      BY <3>1, <3>2 DEF ParlayInv, CreditedIffWon
  <2>7. SoleCaller'
    BY <2>2, SoleStep DEF ParlayInv, WorkIsPlaced
  <2> QED
    BY <2>1, <2>3, <2>4, <2>5, <2>6, <2>7 DEF ParlayInv
<1>3. ASSUME NEW p \in Parlays, InsertParlay(p) PROVE ParlayInv'
  <2> USE <1>3 DEF InsertParlay, call
  <2>1. TypeOK'
    BY DEF ParlayInv, TypeOK
  <2>2. /\ ~Placed(p) /\ status'[p] = "OPEN"
        /\ \A q \in Parlays : q # p => status'[q] = status[q]
    BY DEF ParlayInv, TypeOK, Placed
  <2>3. ResultWas' /\ LegsFollowResults' /\ UnplacedPending'
    BY <2>2 DEF ParlayInv, ResultWas, LegsFollowResults, UnplacedPending, Placed, LegOutcome
  <2>4. ReadsFollowResults' /\ WorkIsPlaced'
    BY <2>2 DEF ParlayInv, TypeOK, ReadsFollowResults, WorkIsPlaced, Placed, LegOutcome
  <2>5. VerdictFollowsResults'
    BY <2>2 DEF ParlayInv, TypeOK, VerdictFollowsResults, Legs, Placed
  <2>6. CreditedIffWon'
    BY <2>2 DEF ParlayInv, TypeOK, CreditedIffWon, Corrected, Legs, Placed, UnplacedPending
  <2>7. SoleCaller'
    BY <2>2, SoleStep DEF ParlayInv, WorkIsPlaced
  <2> QED
    BY <2>1, <2>3, <2>4, <2>5, <2>6, <2>7 DEF ParlayInv
<1>4. ASSUME NEW c \in Calls, NEW m \in Matches, NEW r \in Outcomes, CommitMatch(c, m, r)
      PROVE  ParlayInv'
  <2> USE <1>4 DEF CommitMatch, rows
  <2>1. TypeOK'
    BY DEF ParlayInv, TypeOK
  \* What a match has been settled with is not forgotten.
  <2>2. \A n \in Matches : was[n] \subseteq was'[n]
    BY DEF ParlayInv, TypeOK
  <2>3. ResultWas'
    BY DEF ParlayInv, TypeOK, ResultWas
  <2>4. LegsFollowResults' /\ UnplacedPending'
    BY <2>2 DEF ParlayInv, LegsFollowResults, UnplacedPending, Placed, LegOutcome
  <2>5. /\ at'[c] = "find"
        /\ \A d \in Calls : d # c => at'[d] = at[d]
    BY DEF ParlayInv, TypeOK
  <2>6. ReadsFollowResults' /\ WorkIsPlaced'
    BY <2>2, <2>5 DEF ParlayInv, TypeOK, ReadsFollowResults, WorkIsPlaced, Placed, LegOutcome
  <2>7. VerdictFollowsResults'
    BY <2>2 DEF ParlayInv, VerdictFollowsResults, Legs
  <2>8. CreditedIffWon'
    BY <2>2 DEF ParlayInv, CreditedIffWon, Corrected, Legs
  <2>9. SoleCaller'
    BY SoleStep
  <2> QED
    BY <2>1, <2>3, <2>4, <2>6, <2>7, <2>8, <2>9 DEF ParlayInv
<1>11. ASSUME NEW m \in Matches, NEW r \in Result, FeedWrites(m, r) PROVE ParlayInv'
  <2> USE <1>11 DEF FeedWrites, rows, call
  <2>1. TypeOK'
    BY DEF ParlayInv, TypeOK
  \* What a row has shown is not forgotten.
  <2>2. \A n \in Matches : was[n] \subseteq was'[n]
    BY DEF ParlayInv, TypeOK
  <2>3. ResultWas'
    BY DEF ParlayInv, TypeOK, ResultWas
  <2>4. LegsFollowResults' /\ UnplacedPending'
    BY <2>2 DEF ParlayInv, LegsFollowResults, UnplacedPending, Placed, LegOutcome
  <2>5. ReadsFollowResults' /\ WorkIsPlaced'
    BY <2>2 DEF ParlayInv, ReadsFollowResults, WorkIsPlaced, Placed, LegOutcome
  <2>6. VerdictFollowsResults'
    BY <2>2 DEF ParlayInv, VerdictFollowsResults, Legs
  <2>7. CreditedIffWon'
    BY <2>2 DEF ParlayInv, CreditedIffWon, Corrected, Legs
  <2>8. SoleCaller'
    BY SoleStep
  <2> QED
    BY <2>1, <2>3, <2>4, <2>5, <2>6, <2>7, <2>8 DEF ParlayInv
<1>5. ASSUME NEW c \in Calls, FindOpen(c) PROVE ParlayInv'
  <2> DEFINE found == Found(c)
  <2>1. /\ UNCHANGED <<result, rows, settled, late, failed, was>> /\ Leave(c, found)
        /\ shared' = shared \union {p \in found : \E d \in Calls \ {c} : p \in todo[d]}
    BY <1>5 DEF FindOpen
  <2>2. \A p \in Parlays : (Placed(p)' <=> Placed(p)) /\ pick'[p] = pick[p]
    BY <2>1 DEF Placed, rows
  <2>3. found \in SUBSET Parlays /\ \A p \in found : Placed(p)' /\ status[p] = "OPEN"
    BY <2>2 DEF Placed, Found
  <2> HIDE DEF found
  <2>4. TypeOK' /\ ReadsFollowResults' /\ WorkIsPlaced'
    <3>1. shared' \in SUBSET Parlays
      BY <2>1, <2>3 DEF ParlayInv, TypeOK
    <3> QED
      BY <2>1, <2>2, <2>3, <3>1, LeaveStep DEF ParlayInv, TypeOK, rows
  <2>5. SoleCaller'
    <3>1. todo'[c] = found /\ \A d \in Calls : d # c => todo'[d] = todo[d]
      BY <2>1 DEF Leave, ParlayInv, TypeOK
    <3>2. status' = status
      BY <2>1 DEF rows
    <3> QED
      BY <2>1, <2>3, <3>1, <3>2 DEF ParlayInv, SoleCaller
  <2> QED
    BY <2>1, <2>4, <2>5, RowsStep DEF ParlayInv
<1>6. ASSUME NEW c \in Calls, NEW p \in Parlays, ReadLegs(c, p) PROVE ParlayInv'
  <2>1. UNCHANGED <<result, rows, on, todo, history>>
    BY <1>6 DEF ReadLegs
  <2>2. TypeOK'
    BY <1>6, <2>1 DEF ReadLegs, ParlayInv, TypeOK, rows
  <2>3. /\ at'[c] = "tx" /\ cur'[c] = p /\ Placed(p)
        /\ \A m \in Matches : read'[c][m] =
               IF leg[p][m] = "PENDING" THEN "unread" ELSE leg[p][m]
        /\ \A d \in Calls : d # c =>
               at'[d] = at[d] /\ cur'[d] = cur[d] /\ read'[d] = read[d] /\ mine'[d] = mine[d]
    BY <1>6 DEF ReadLegs, ParlayInv, TypeOK, WorkIsPlaced
  <2>4. WorkIsPlaced'
    <3>1. p \in todo[c] /\ todo' = todo /\ status' = status
      BY <1>6, <2>1 DEF ReadLegs, rows
    <3> QED
      BY <2>3, <3>1 DEF ParlayInv, WorkIsPlaced, Placed
  <2>5. mine'[c] = {}
    BY <1>6 DEF ReadLegs, ParlayInv, TypeOK
  <2>6. \A m \in Matches : read'[c][m] \in Verdicts =>
            \E r \in was[m] : read'[c][m] = LegOutcome(pick[p][m], r)
    <3> SUFFICES ASSUME NEW m \in Matches, read'[c][m] \in Verdicts
                 PROVE  \E r \in was[m] : read'[c][m] = LegOutcome(pick[p][m], r)
      OBVIOUS
    <3>1. leg[p][m] # "PENDING" /\ read'[c][m] = leg[p][m]
      BY <2>3
    <3> QED
      BY <3>1 DEF ParlayInv, LegsFollowResults
  <2>7. \A m \in Matches : m \notin mine'[c]
    BY <2>5
  <2>8. \A d \in Calls, m \in Matches : d # c /\ at'[d] = "tx" =>
            /\ read'[d][m] \in Verdicts =>
                  \E r \in was[m] : read'[d][m] = LegOutcome(pick[cur'[d]][m], r)
            /\ m \in mine'[d] => read'[d][m] \in Verdicts
    BY <2>3 DEF ParlayInv, ReadsFollowResults
  <2>9. ReadsFollowResults'
    <3>1. was' = was /\ pick' = pick
      BY <2>1 DEF rows
    <3> QED
      BY <2>3, <2>6, <2>7, <2>8, <3>1 DEF ReadsFollowResults, LegOutcome
  <2>10. SoleCaller'
    BY <2>1, SoleStep DEF rows
  <2> QED
    BY <2>1, <2>2, <2>4, <2>9, <2>10, RowsStep DEF ParlayInv
<1>7. ASSUME NEW c \in Calls, NEW m \in Matches, ReadMatch(c, m) PROVE ParlayInv'
  <2>1. UNCHANGED <<result, rows, at, on, todo, cur, history>>
    BY <1>7 DEF ReadMatch
  <2>2. cur[c] \in Parlays /\ at[c] = "tx" /\ m \in ToRead(c)
    BY <1>7 DEF ReadMatch, ParlayInv, TypeOK, WorkIsPlaced
  <2>3. PICK v \in LegResult, new \in SUBSET {m} :
            /\ read' = [read EXCEPT ![c][m] = v]
            /\ mine' = [mine EXCEPT ![c] = @ \union new]
            /\ v \in Verdicts => \E r \in was[m] : v = LegOutcome(pick[cur[c]][m], r)
            /\ new # {} => v \in Verdicts
    <3>1. CASE result[m] = None
      <4>1. mine' = [mine EXCEPT ![c] = @ \union {}]
        BY <1>7, <3>1 DEF ReadMatch, KeepPending, ParlayInv, TypeOK
      <4>2. read' = [read EXCEPT ![c][m] = "PENDING"]
        BY <1>7, <3>1 DEF ReadMatch, KeepPending
      <4> WITNESS "PENDING" \in LegResult, {} \in SUBSET {m}
      <4> QED
        BY <4>1, <4>2
    <3>2. CASE result[m] # None
      <4>1. /\ read' = [read EXCEPT ![c][m] = LegOutcome(pick[cur[c]][m], result[m])]
            /\ mine' = [mine EXCEPT ![c] = @ \union {m}]
        BY <1>7, <3>2 DEF ReadMatch, Resolve
      <4>2. LegOutcome(pick[cur[c]][m], result[m]) \in Verdicts /\ result[m] \in was[m]
        BY <3>2 DEF LegOutcome, ParlayInv, ResultWas
      <4> WITNESS LegOutcome(pick[cur[c]][m], result[m]) \in LegResult, {m} \in SUBSET {m}
      <4> QED
        BY <3>2, <4>1, <4>2
    <3> QED
      BY <3>1, <3>2
  <2>4. read' \in [Calls -> [Matches -> LegResult \union {"unread"}]]
    BY <2>3 DEF ParlayInv, TypeOK
  <2>5. mine' \in [Calls -> SUBSET Matches]
    BY <2>3 DEF ParlayInv, TypeOK
  <2>6. TypeOK'
    BY <2>1, <2>4, <2>5 DEF ParlayInv, TypeOK, rows
  <2>7. WorkIsPlaced'
    BY <2>1 DEF ParlayInv, WorkIsPlaced, Placed, rows
  <2>8. /\ read'[c][m] = v
        /\ \A n \in Matches : n # m => read'[c][n] = read[c][n]
        /\ mine'[c] = mine[c] \union new
        /\ \A d \in Calls : d # c => read'[d] = read[d] /\ mine'[d] = mine[d]
    BY <2>3 DEF ParlayInv, TypeOK
  <2>9. m \notin mine[c]
    BY <2>2 DEF ParlayInv, ReadsFollowResults, ToRead
  <2>10. ReadsFollowResults'
    BY <2>1, <2>2, <2>3, <2>8, <2>9 DEF ParlayInv, ReadsFollowResults, LegOutcome, rows
  <2>11. SoleCaller'
    BY <2>1, SoleStep DEF rows
  <2> QED
    BY <2>1, <2>6, <2>7, <2>10, <2>11, RowsStep DEF ParlayInv
<1>8. ASSUME NEW c \in Calls, CommitParlay(c) PROVE ParlayInv'
  <2> DEFINE p == cur[c]
             rest == todo[c] \ {p}
  <2>1. at[c] = "tx" /\ ToRead(c) = {} /\ UNCHANGED <<result, pick, history>>
    BY <1>8 DEF CommitParlay
  <2>2. p \in Parlays /\ Placed(p)
    BY <2>1 DEF ParlayInv, TypeOK, WorkIsPlaced
  <2>3. /\ status' = [status EXCEPT ![p] = Verdict(c)]
        /\ credits' = [credits EXCEPT ![p] = IF Credits(c) THEN @ + 1 ELSE @]
        /\ leg' = [leg EXCEPT ![p] =
                      [m \in Matches |-> IF m \in mine[c] THEN read[c][m] ELSE leg[p][m]]]
        /\ Leave(c, rest)
    BY <1>8, <2>2 DEF CommitParlay, ParlayInv, TypeOK
  <2>4. Verdict(c) \in {"OPEN", "WON", "LOST"}
    BY <2>2 DEF Verdict, ParlayInv, TypeOK, Placed
  <2>5. \A m \in mine[c] : read[c][m] \in Verdicts /\ m \in Matches
    BY <2>1 DEF ParlayInv, TypeOK, ReadsFollowResults
  <2>6. /\ status' \in [Parlays -> {"ABSENT", "CHECKED", "OPEN"} \union Verdicts]
        /\ credits' \in [Parlays -> Nat]
        /\ leg' \in [Parlays -> [Matches -> LegResult]]
    <3>1. status' \in [Parlays -> {"ABSENT", "CHECKED", "OPEN"} \union Verdicts]
      BY <2>2, <2>3, <2>4 DEF ParlayInv, TypeOK
    <3>2. credits' \in [Parlays -> Nat]
      BY <2>2, <2>3 DEF ParlayInv, TypeOK
    <3>3. leg' \in [Parlays -> [Matches -> LegResult]]
      BY <2>2, <2>3, <2>5 DEF ParlayInv, TypeOK
    <3> QED
      BY <3>1, <3>2, <3>3
  <2>7. \A q \in Parlays : Placed(q) => Placed(q)' /\ pick'[q] = pick[q]
    BY <2>1, <2>2, <2>3, <2>4 DEF ParlayInv, TypeOK, Placed
  <2>8. rest \in SUBSET Parlays /\ \A q \in rest : Placed(q)'
    BY <2>1, <2>7 DEF ParlayInv, TypeOK, WorkIsPlaced
  <2>9. TypeOK' /\ ReadsFollowResults' /\ WorkIsPlaced'
    BY <2>1, <2>3, <2>6, <2>7, <2>8, LeaveStep DEF ParlayInv, TypeOK
  <2>10. LegsFollowResults'
    <3>1. \A m \in Matches : leg'[p][m] # "PENDING" =>
              \E r \in was[m] : leg'[p][m] = LegOutcome(pick[p][m], r)
      BY <2>1, <2>2, <2>3, <2>5 DEF ParlayInv, TypeOK, LegsFollowResults, ReadsFollowResults
    <3>2. \A q \in Parlays : q # p => leg'[q] = leg[q]
      BY <2>3 DEF ParlayInv, TypeOK
    <3> QED
      BY <2>1, <3>1, <3>2 DEF ParlayInv, LegsFollowResults, LegOutcome
  <2>11. UnplacedPending'
    BY <2>2, <2>3, <2>7 DEF ParlayInv, TypeOK, UnplacedPending, Placed
  <2>12. VerdictFollowsResults'
    <3>1. status'[p] = Verdict(c) /\ \A q \in Parlays : q # p => status'[q] = status[q]
      BY <2>2, <2>3 DEF ParlayInv, TypeOK
    <3>2. /\ Verdict(c) = "WON" => \A m \in Legs(p) : pick[p][m] \in was[m]
          /\ Verdict(c) = "LOST" => \E m \in Legs(p) : was[m] \ {pick[p][m]} # {}
      BY <2>1, <2>2, VerdictSound DEF Verdict, ParlayInv, VerdictFollowsResults
    <3> QED
      BY <2>1, <3>1, <3>2 DEF ParlayInv, VerdictFollowsResults, Legs
  <2>13. CreditedIffWon'
    <3>1. /\ status'[p] = Verdict(c) /\ credits'[p] = IF Credits(c) THEN credits[p] + 1 ELSE credits[p]
          /\ \A q \in Parlays : q # p => status'[q] = status[q] /\ credits'[q] = credits[q]
      BY <2>2, <2>3 DEF ParlayInv, TypeOK
    <3>2. credits[p] \in Nat
      BY <2>2 DEF ParlayInv, TypeOK
    <3>3. \A q \in Parlays : Corrected(q)' <=> Corrected(q)
      BY <2>1 DEF Corrected, Legs, history
    <3>4. /\ status'[p] = "WON" => credits'[p] > 0
          /\ credits'[p] > 0 => status'[p] = "WON" \/ Corrected(p)
          /\ p \notin shared => credits'[p] = IF status'[p] = "WON" THEN 1 ELSE 0
      <4>0. p \notin shared => status[p] = "OPEN" /\ credits[p] = 0
        BY <2>1, <2>2 DEF ParlayInv, WorkIsPlaced, SoleCaller, CreditedIffWon
      <4>1. CASE Credits(c)
        BY <2>2, <3>1, <3>2, <4>0, <4>1 DEF Credits, Verdict, ParlayInv, CreditedIffWon
      <4>2. CASE ~Credits(c)
        <5>1. Verdict(c) = "WON" => status[p] = "WON"
          BY <4>2 DEF Credits, Verdict
        <5>2. status[p] = "WON" => Verdict(c) = "WON" \/ Corrected(p)
          BY <2>1, VerdictKept
        <5>3. /\ status[p] = "WON" => credits[p] > 0
              /\ credits[p] > 0 => status[p] = "WON" \/ Corrected(p)
          BY <2>2 DEF ParlayInv, CreditedIffWon
        <5> QED
          BY <3>1, <4>0, <4>2, <5>1, <5>2, <5>3
      <4> QED
        BY <4>1, <4>2
    <3>5. shared' = shared
      BY <2>1 DEF history
    <3> HIDE DEF p
    <3> QED
      BY <2>2, <3>1, <3>3, <3>4, <3>5 DEF ParlayInv, CreditedIffWon
  <2>14. ResultWas'
    BY <2>1 DEF ParlayInv, ResultWas, history
  <2>15. SoleCaller'
    <3>1. \A d \in Calls : todo'[d] \subseteq todo[d] /\ (d # c => todo'[d] = todo[d])
      BY <2>3 DEF Leave, ParlayInv, TypeOK
    <3>2. p \in todo[c] /\ p \notin todo'[c]
      BY <2>1, <2>3 DEF Leave, ParlayInv, TypeOK, WorkIsPlaced
    <3>3. \A q \in Parlays : q # p => status'[q] = status[q]
      BY <2>2, <2>3 DEF ParlayInv, TypeOK
    <3>4. ASSUME NEW d \in Calls, NEW q \in todo'[d] \ shared PROVE status'[q] = status[q]
      <4>1. q # p
        BY <2>2, <3>1, <3>2, <3>4 DEF ParlayInv, SoleCaller
      <4> QED
        BY <3>1, <3>3, <4>1 DEF ParlayInv, TypeOK
    <3>5. shared' = shared
      BY <2>1 DEF history
    <3> QED
      BY <3>1, <3>4, <3>5, SoleStep
  <2> QED
    BY <2>9, <2>10, <2>11, <2>12, <2>13, <2>14, <2>15 DEF ParlayInv
<1>9. ASSUME NEW c \in Calls, Fail(c) PROVE ParlayInv'
  <2>1. UNCHANGED <<result, rows, settled, late, shared, was>> /\ failed' = TRUE /\ Leave(c, {})
    BY <1>9 DEF Fail
  <2>2. \A p \in Parlays : (Placed(p)' <=> Placed(p)) /\ pick'[p] = pick[p]
    BY <2>1 DEF Placed, rows
  <2>3. TypeOK' /\ ReadsFollowResults' /\ WorkIsPlaced'
    <3>1. {} \in SUBSET Parlays /\ \A p \in {} : Placed(p)'
      OBVIOUS
    <3>2. /\ at' \in [Calls -> {"idle", "find", "next", "tx"}]
          /\ on' \in [Calls -> Matches \union {None}]
          /\ todo' \in [Calls -> SUBSET Parlays]
          /\ cur' \in [Calls -> Parlays \union {None}]
          /\ read' \in [Calls -> [Matches -> LegResult \union {"unread"}]]
          /\ mine' \in [Calls -> SUBSET Matches]
          /\ ReadsFollowResults' /\ WorkIsPlaced'
      BY <2>1, <2>2, <3>1, LeaveStep
    <3> QED
      BY <2>1, <3>2 DEF ParlayInv, TypeOK, rows
  <2>4. SoleCaller'
    <3>1. status' = status /\ shared' = shared
      BY <2>1 DEF rows
    <3>2. \A d \in Calls : todo'[d] \subseteq todo[d]
      BY <2>1 DEF Leave, ParlayInv, TypeOK
    <3> QED
      BY <3>1, <3>2, SoleStep
  <2> QED
    BY <2>1, <2>3, <2>4, RowsStep DEF ParlayInv
<1>10. CASE UNCHANGED vars
  <2>1. UNCHANGED <<result, rows, call, history>>
    BY <1>10 DEF vars
  <2>2. TypeOK'
    BY <2>1 DEF ParlayInv, TypeOK, rows, call
  <2>3. ReadsFollowResults' /\ WorkIsPlaced'
    BY <2>1 DEF ParlayInv, ReadsFollowResults, WorkIsPlaced, Placed, LegOutcome, rows, call
  <2>4. SoleCaller'
    BY <2>1, SoleStep DEF rows, call
  <2> QED
    BY <2>1, <2>2, <2>3, <2>4, RowsStep DEF ParlayInv
<1> QED
  BY <1>11, <1>2, <1>3, <1>4, <1>5, <1>6, <1>7, <1>8, <1>9, <1>10 DEF Next, Settling

LEMMA InvInit == Init => ParlayInv
<1> SUFFICES ASSUME Init PROVE ParlayInv
  OBVIOUS
<1>1. TypeOK
  BY DEF Init, TypeOK, Result, LegResult, Verdicts, Unread
<1>2. ResultWas /\ LegsFollowResults /\ UnplacedPending /\ SoleCaller
  BY DEF Init, LegsFollowResults, UnplacedPending, ResultWas, SoleCaller
<1>3. ReadsFollowResults /\ WorkIsPlaced
  BY DEF Init, ReadsFollowResults, WorkIsPlaced
<1>4. VerdictFollowsResults /\ CreditedIffWon
  BY DEF Init, VerdictFollowsResults, CreditedIffWon
<1> QED
  BY <1>1, <1>2, <1>3, <1>4 DEF ParlayInv

\* The inductive invariant, however often results are corrected.
THEOREM InvariantHolds == Spec => []ParlayInv
<1>1. ParlayInv /\ [Next]_vars => ParlayInv'
  BY InvStep
<1> QED
  BY <1>1, InvInit, PTL DEF Spec

\* The parlays' state is well typed, however the calls overlap or fail.
THEOREM TypeCorrect == Spec => []TypeOK
<1>1. ParlayInv => TypeOK
  BY DEF ParlayInv
<1> QED
  BY <1>1, InvariantHolds, PTL

\* Whatever calls resolve the legs, however they overlap or fail and whatever settlements
\* and feeds write, a WON parlay's legs all came true in a result their match has shown
\* and a LOST one has a leg that did not.
THEOREM VerdictsSound == Spec => []VerdictFollowsResults
<1>1. ParlayInv => VerdictFollowsResults
  BY DEF ParlayInv
<1> QED
  BY <1>1, InvariantHolds, PTL

\* A parlay no two calls worked on at a time is credited once if it is WON, and else never;
\* the others that are WON have been credited, and those credited are WON, but for a
\* correction.
THEOREM CreditsSound == Spec => []CreditedIffWon
<1>1. ParlayInv => CreditedIffWon
  BY DEF ParlayInv
<1> QED
  BY <1>1, InvariantHolds, PTL

\* A step changes no verdict of a parlay whose matches have shown one result, or on which
\* no two calls worked at a time.
LEMMA FinalStep ==
    ASSUME ParlayInv, [Next]_vars, NEW p \in Parlays, status[p] \in Verdicts
    PROVE  status'[p] = status[p] \/ (Corrected(p) /\ p \in shared)
<1> SUFFICES ASSUME ~(Corrected(p) /\ p \in shared) PROVE status'[p] = status[p]
  OBVIOUS
<1>1. ASSUME NEW c \in Calls, CommitParlay(c) PROVE status'[p] = status[p]
  <2>1. at[c] = "tx" /\ ToRead(c) = {} /\ status' = [status EXCEPT ![cur[c]] = Verdict(c)]
    BY <1>1 DEF CommitParlay
  <2>2. CASE p = cur[c]
    <3>1. Verdict(c) = status[cur[c]]
      BY <2>1, <2>2, VerdictKept
    <3> QED
      BY <2>1, <2>2, <3>1 DEF ParlayInv, TypeOK
  <2>3. CASE p # cur[c]
    BY <2>1, <2>3 DEF ParlayInv, TypeOK
  <2> QED
    BY <2>2, <2>3
<1>2. ASSUME NEW q \in Parlays, NEW picks \in [Matches -> Result], CheckParlay(q, picks)
      PROVE  status'[p] = status[p]
  BY <1>2 DEF CheckParlay, ParlayInv, TypeOK, Verdicts
<1>3. ASSUME NEW q \in Parlays, InsertParlay(q) PROVE status'[p] = status[p]
  BY <1>3 DEF InsertParlay, ParlayInv, TypeOK, Verdicts
<1>4. CASE UNCHANGED status
  BY <1>4
<1> QED
  BY <1>1, <1>2, <1>3, <1>4 DEF Next, Settling, CommitMatch, FindOpen, ReadLegs,
     ReadMatch, Fail, FeedWrites, rows, vars

\* A verdict is final: a call that read the parlay before another one settled it
\* gives the same verdict or none, unless a match was corrected between their reads.
THEOREM VerdictsFinal == Spec => VerdictFinal
<1>1. ParlayInv /\ [Next]_vars =>
          [\A p \in Parlays :
               status[p] \in Verdicts =>
                   status'[p] = status[p] \/ (Corrected(p) /\ p \in shared)]_vars
  BY FinalStep
<1>2. Spec => []ParlayInv
  BY InvariantHolds
<1> QED
  BY <1>1, <1>2, PTL DEF Spec, VerdictFinal

\* Every step keeps a call at work on an OPEN parlay whose matches stay settled.
LEMMA DecidingStep ==
    ASSUME ParlayInv, ParlayInv', DecidingInv, [Next]_vars
    PROVE  DecidingInv'
<1> DEFINE Due(p) == /\ status[p] = "OPEN" /\ p \notin late /\ ~failed
                     /\ Legs(p) \subseteq settled
<1>1. ASSUME NEW p \in Parlays, NEW picks \in [Matches -> Result], CheckParlay(p, picks)
      PROVE  DecidingInv'
  <2>1. Legs(p)' # {}
    <3>1. {m \in Matches : picks[m] # None} # {}
      BY <1>1, FS_EmptySet DEF CheckParlay
    <3> QED
      BY <1>1, <3>1 DEF CheckParlay, ParlayInv, TypeOK, Legs
  <2>2. /\ status'[p] = "CHECKED"
        /\ \A q \in Parlays : q # p =>
               status'[q] = status[q] /\ pick'[q] = pick[q] /\ Legs(q)' = Legs(q)
    BY <1>1 DEF CheckParlay, ParlayInv, TypeOK, Legs
  <2>3. HasLegs'
    BY <2>1, <2>2 DEF DecidingInv, HasLegs
  <2>4. ASSUME NEW q \in Parlays, Due(q)' PROVE \E c \in Calls : WillDecide(c, q)'
    <3>1. q # p
      BY <2>2, <2>4
    <3>2. Due(q)
      BY <1>1, <2>2, <2>4, <3>1 DEF CheckParlay, history
    <3>3. PICK c \in Calls : WillDecide(c, q)
      BY <3>2 DEF DecidingInv, StillDeciding
    <3>4. WillDecide(c, q)'
      BY <1>1, <2>2, <3>1, <3>3 DEF CheckParlay, WillDecide, AtWorkOn, call
    <3> QED
      BY <3>4
  <2> QED
    BY <2>3, <2>4 DEF DecidingInv, StillDeciding
<1>2. ASSUME NEW p \in Parlays, InsertParlay(p) PROVE DecidingInv'
  <2>1. /\ status[p] = "CHECKED" /\ Legs(p) # {}
        /\ \A q \in Parlays : q # p => status'[q] = status[q]
        /\ UNCHANGED <<settled, pick, call, failed>>
    BY <1>2 DEF InsertParlay, ParlayInv, TypeOK, DecidingInv, HasLegs
  <2>2. HasLegs'
    BY <2>1 DEF DecidingInv, HasLegs, Legs
  <2>3. ASSUME NEW q \in Parlays, Due(q)' PROVE \E c \in Calls : WillDecide(c, q)'
    <3>1. Legs(q)' = Legs(q)
      BY <2>1 DEF Legs
    <3>2. q # p
      BY <1>2, <2>1, <2>3, <3>1 DEF InsertParlay, Legs
    <3>3. Due(q)
      BY <1>2, <2>1, <2>3, <3>1, <3>2 DEF InsertParlay
    <3>4. PICK c \in Calls : WillDecide(c, q)
      BY <3>3 DEF DecidingInv, StillDeciding
    <3>5. WillDecide(c, q)'
      BY <2>1, <3>1, <3>4 DEF WillDecide, AtWorkOn, call, Legs
    <3> QED
      BY <3>5
  <2> QED
    BY <2>2, <2>3 DEF DecidingInv, StillDeciding
<1>3. ASSUME NEW c \in Calls, NEW m \in Matches, NEW r \in Outcomes, CommitMatch(c, m, r)
      PROVE  DecidingInv'
  <2>1. /\ at[c] = "idle" /\ at'[c] = "find" /\ on'[c] = m
        /\ \A d \in Calls : d # c => at'[d] = at[d] /\ on'[d] = on[d]
        /\ settled' = settled \union {m}
        /\ UNCHANGED <<rows, todo, cur, read, late, failed>>
    BY <1>3 DEF CommitMatch, ParlayInv, TypeOK
  <2>2. \A q \in Parlays : Legs(q)' = Legs(q) /\ status'[q] = status[q]
    BY <2>1 DEF Legs, rows
  <2>3. ASSUME NEW q \in Parlays, Due(q)' PROVE \E d \in Calls : WillDecide(d, q)'
    <3>1. CASE m \in Legs(q)
      BY <2>1, <2>2, <3>1 DEF WillDecide, AtWorkOn
    <3>2. CASE m \notin Legs(q)
      <4>1. Due(q)
        BY <2>1, <2>2, <2>3, <3>2 DEF history, Legs
      <4>2. PICK d \in Calls : WillDecide(d, q)
        BY <4>1 DEF DecidingInv, StillDeciding
      <4>3. d # c
        BY <2>1, <4>2 DEF WillDecide, AtWorkOn
      <4>4. WillDecide(d, q)'
        BY <2>1, <2>2, <4>2, <4>3 DEF WillDecide, AtWorkOn
      <4> QED
        BY <4>4
    <3> QED
      BY <3>1, <3>2
  <2> QED
    BY <2>2, <2>3 DEF DecidingInv, StillDeciding, HasLegs
<1>4. ASSUME NEW c \in Calls, UNCHANGED <<rows, settled, late, failed>>,
             \A d \in Calls : d # c =>
                 /\ at'[d] = at[d] /\ on'[d] = on[d] /\ todo'[d] = todo[d]
                 /\ cur'[d] = cur[d] /\ read'[d] = read[d],
             \A q \in Parlays : Due(q) /\ WillDecide(c, q) => WillDecide(c, q)'
      PROVE  DecidingInv'
  <2>1. \A q \in Parlays : Legs(q)' = Legs(q) /\ status'[q] = status[q]
    BY <1>4 DEF Legs, rows
  <2>2. ASSUME NEW q \in Parlays, Due(q)' PROVE \E d \in Calls : WillDecide(d, q)'
    <3>1. Due(q)
      BY <1>4, <2>1, <2>2 DEF history
    <3>2. PICK d \in Calls : WillDecide(d, q)
      BY <3>1 DEF DecidingInv, StillDeciding
    <3>3. WillDecide(d, q)'
      BY <1>4, <2>1, <3>1, <3>2 DEF WillDecide, AtWorkOn
    <3> QED
      BY <3>3
  <2> QED
    BY <2>1, <2>2 DEF DecidingInv, StillDeciding, HasLegs
<1>5. ASSUME NEW c \in Calls, FindOpen(c) PROVE DecidingInv'
  <2>1. /\ at[c] = "find"
        /\ todo'[c] = Found(c)
        /\ at'[c] = IF todo'[c] = {} THEN "idle" ELSE "next"
    BY <1>5 DEF FindOpen, Leave, Found, ParlayInv, TypeOK
  <2>2. \A q \in Parlays : Due(q) /\ WillDecide(c, q) => WillDecide(c, q)'
    BY <2>1 DEF WillDecide, AtWorkOn, Found
  <2> QED
    BY <1>4, <1>5, <2>2 DEF FindOpen, Leave, ParlayInv, TypeOK
<1>6. ASSUME NEW c \in Calls, NEW p \in Parlays, ReadLegs(c, p) PROVE DecidingInv'
  <2>1. /\ at[c] = "next" /\ at'[c] = "tx" /\ todo'[c] = todo[c] /\ UNCHANGED rows
        /\ \A m \in Matches : read'[c][m] # "PENDING"
    BY <1>6 DEF ReadLegs, ParlayInv, TypeOK
  <2>2. \A q \in Parlays : Due(q) /\ WillDecide(c, q) => WillDecide(c, q)'
    BY <2>1 DEF WillDecide, AtWorkOn, Legs, rows
  <2> QED
    BY <1>4, <1>6, <2>2 DEF ReadLegs, ParlayInv, TypeOK, history
<1>7. ASSUME NEW c \in Calls, NEW m \in Matches, ReadMatch(c, m) PROVE DecidingInv'
  <2>1. /\ at[c] = "tx" /\ UNCHANGED <<result, rows, at, on, todo, cur, history>>
        /\ \A n \in Matches : n # m => read'[c][n] = read[c][n]
        /\ result[m] # None => read'[c][m] # "PENDING"
        /\ \A d \in Calls : d # c => read'[d] = read[d]
    BY <1>7 DEF ReadMatch, Resolve, KeepPending, LegOutcome, ParlayInv, TypeOK
  <2>2. ASSUME NEW q \in Parlays, Due(q), WillDecide(c, q) PROVE WillDecide(c, q)'
    <3>1. Legs(q)' = Legs(q)
      BY <2>1 DEF Legs, rows
    <3>2. cur[c] = q => \A n \in Legs(q) : read'[c][n] # "PENDING"
      BY <2>1, <2>2 DEF WillDecide, Legs, ParlayInv, ResultWas
    <3> QED
      BY <2>1, <2>2, <3>1, <3>2 DEF WillDecide, AtWorkOn
  <2> QED
    BY <1>4, <2>1, <2>2 DEF history
<1>8. ASSUME NEW c \in Calls, CommitParlay(c) PROVE DecidingInv'
  <2> DEFINE p == cur[c]
             rest == todo[c] \ {p}
  <2>1. at[c] = "tx" /\ ToRead(c) = {} /\ UNCHANGED <<result, pick, history>>
    BY <1>8 DEF CommitParlay
  <2>2. p \in Parlays /\ Placed(p)
    BY <2>1 DEF ParlayInv, TypeOK, WorkIsPlaced
  <2>3. /\ status'[p] = Verdict(c)
        /\ \A q \in Parlays : q # p => status'[q] = status[q]
        /\ todo'[c] = rest /\ at'[c] = IF rest = {} THEN "idle" ELSE "next"
        /\ \A d \in Calls : d # c =>
               /\ at'[d] = at[d] /\ on'[d] = on[d] /\ todo'[d] = todo[d]
               /\ cur'[d] = cur[d] /\ read'[d] = read[d]
    BY <1>8, <2>2 DEF CommitParlay, Leave, ParlayInv, TypeOK
  <2>4. \A q \in Parlays : Legs(q)' = Legs(q)
    BY <2>1 DEF Legs
  <2>5. HasLegs'
    BY <2>2, <2>3, <2>4 DEF DecidingInv, HasLegs, Placed
  <2>6. ASSUME NEW q \in Parlays, Due(q)' PROVE \E d \in Calls : WillDecide(d, q)'
    <3>1. status[q] = "OPEN"
      <4>1. CASE q = p
        BY <2>3, <2>6, <4>1 DEF Verdict
      <4>2. CASE q # p
        BY <2>3, <2>6, <4>2
      <4> QED
        BY <4>1, <4>2
    <3>2. Due(q)
      BY <2>1, <2>4, <2>6, <3>1 DEF history
    <3>3. PICK d \in Calls : WillDecide(d, q)
      BY <3>2 DEF DecidingInv, StillDeciding
    <3>4. CASE d = c
      <4>1. CASE q = p
        <5>1. AllResolved(c)
          BY <2>1, <3>3, <3>4, <4>1 DEF WillDecide, AllResolved
        <5>2. Verdict(c) # "OPEN"
          BY <5>1 DEF Verdict
        <5> QED
          BY <2>3, <2>6, <4>1, <5>2
      <4>2. CASE q # p
        <5>1. q \in rest
          BY <2>1, <3>3, <3>4, <4>2 DEF WillDecide, AtWorkOn
        <5> QED
          BY <2>3, <5>1 DEF WillDecide, AtWorkOn
      <4> QED
        BY <4>1, <4>2
    <3>5. CASE d # c
      <4>1. WillDecide(d, q)'
        BY <2>3, <2>4, <3>3, <3>5 DEF WillDecide, AtWorkOn
      <4> QED
        BY <4>1
    <3> QED
      BY <3>4, <3>5
  <2> QED
    BY <2>5, <2>6 DEF DecidingInv, StillDeciding
<1>9. ASSUME NEW c \in Calls, Fail(c) PROVE DecidingInv'
  BY <1>9 DEF Fail, DecidingInv, HasLegs, StillDeciding, Legs, rows
<1>11. ASSUME NEW m \in Matches, NEW r \in Result, FeedWrites(m, r) PROVE DecidingInv'
  <2>1. UNCHANGED <<rows, call, late, failed>> /\ settled' \subseteq settled
    BY <1>11 DEF FeedWrites
  <2>2. \A q \in Parlays : Due(q)' => Due(q)
    BY <2>1 DEF Legs, rows
  <2> QED
    BY <2>1, <2>2 DEF DecidingInv, HasLegs, StillDeciding, WillDecide, AtWorkOn, Legs, rows, call
<1>10. CASE UNCHANGED vars
  <2>1. UNCHANGED <<result, rows, call, history>>
    BY <1>10 DEF vars
  <2> QED
    BY <2>1 DEF DecidingInv, HasLegs, StillDeciding, WillDecide, AtWorkOn, Legs, rows, call, history
<1> QED
  BY <1>1, <1>2, <1>3, <1>5, <1>6, <1>7, <1>8, <1>9, <1>10, <1>11 DEF Next, Settling

\* No OPEN parlay whose matches have been settled, and have stayed FINISHED, is left
\* without a call that settles it, unless a call failed or it was inserted behind a
\* settlement.
THEOREM NoneForgotten == Spec => []NoParlayForgotten
<1>1. Init => DecidingInv
  BY DEF Init, DecidingInv, HasLegs, StillDeciding
<1>2. ParlayInv /\ ParlayInv' /\ DecidingInv /\ [Next]_vars => DecidingInv'
  BY DecidingStep
<1>3. DecidingInv => NoParlayForgotten
  BY DEF DecidingInv, StillDeciding, NoParlayForgotten, WillDecide
<1>4. Spec => []ParlayInv
  BY InvariantHolds
<1> QED
  BY <1>1, <1>2, <1>3, <1>4, PTL DEF Spec
=============================================================================
