----------------------------- MODULE FeedsProofs -----------------------------
(******************************************************************************)
(* What the feeds guarantee for any number of teams, players, matches, calls  *)
(* and requests: FeedSync's writes and links, and FdClient's spacing.         *)
(******************************************************************************)
EXTENDS FeedSync, FdClient, FiniteSetTheorems, SequenceTheorems, TLAPS

Key == Batches \X People
Pair == (1..Rows) \X (1..Rows)
Doing == [kind : {"none", "sync", "teams", "matches", "crawl", "enrich"}, pc : Pc, todo : Seq(Teams),
          snap : [People -> Teams \cup {Nowhere}], read : SUBSET (Key \cup Pair),
          names : SUBSET (People \cup Key), xi : SUBSET (People \cup Key),
          known : SUBSET Teams, raced : BOOLEAN]

\* The pairs a process still has to link: the places themselves, every earlier one being
\* linked, or places counted from a later one, the first of which will be refused.
LinksOn(read) ==
  \E off \in 0..Rows, i \in 1..(Rows + 1) :
    /\ i > off /\ read = {<<m, m - off>> : m \in i..Rows}
    /\ off = 0 => \A m \in 1..Rows : m < i => matchExt[m] = m
    /\ off > 0 => i = off + 1 /\ matchExt[1] = 1

\* What a process remembers of a squad is rows of its team, and all of them unless another
\* replacement overlapped its own.
Remembers(w) ==
  /\ w.pc \in {"fetch teams", "team", "read", "ask", "lock", "insert", "store"} => w.todo # <<>>
  /\ w.pc \in {"ask", "lock", "insert", "store"} =>
       w.read \subseteq Key /\ \A r \in players : Id(r) \in w.read => r.team = Head(w.todo)
  /\ w.pc \in {"lock", "insert"} =>
       /\ w.names \subseteq People /\ w.xi \subseteq w.names
       /\ ~w.raced => \A r \in players : r.team = Head(w.todo) => Id(r) \in w.read
  /\ w.pc = "store" => w.names \subseteq w.read /\ w.xi \subseteq w.names
  /\ w.pc = "link" => LinksOn(w.read)

OneBatch ==
  \A t \in Teams \ mixed : \A r, s \in players : r.team = t /\ s.team = t => r.batch = s.batch

\* Rows written together are rows of one team.
BatchOfTeam == \A r, s \in players : r.batch = s.batch => r.team = s.team

\* The linked matches of the round are its first ones.
LinkedPrefix ==
  \E till \in 0..Rows : \A m \in 1..Rows : matchExt[m] = IF m <= till THEN m ELSE 0

FeedIInv ==
  /\ FeedTypeOK /\ OneBatch /\ BatchOfTeam /\ LineupIsWhole /\ LinkedPrefix
  /\ proc \in [Procs -> Doing] /\ \A p \in Procs : Remembers(proc[p])

\* A process that remembers nothing.
Light(w) ==
  /\ w \in Doing /\ w.read = {} /\ w.pc \notin {"lock", "insert", "store", "link"}
  /\ w.pc \in {"fetch teams", "team", "read", "ask"} => w.todo # <<>>

LEMMA LightRemembers == ASSUME NEW w, Light(w) PROVE Remembers(w) /\ Remembers(w)'
BY DEF Light, Remembers

LEMMA BlankLight ==
    ASSUME NEW kind \in {"none", "sync", "teams", "matches", "crawl", "enrich"},
           NEW pc \in Pc \ {"lock", "insert", "store", "link"}, NEW todo \in Seq(Teams),
           NEW snap \in [People -> Teams \cup {Nowhere}],
           pc \in {"fetch teams", "team", "read", "ask"} => todo # <<>>
    PROVE  /\ Light([Blank EXCEPT !.kind = kind, !.snap = snap, !.todo = todo, !.pc = pc])
           /\ Light([Blank EXCEPT !.kind = kind, !.pc = pc, !.todo = todo])
           /\ pc \in {"idle", "done", "fetch matches", "scorers"} =>
                Light([Blank EXCEPT !.kind = kind, !.pc = pc])
<1>1. <<>> \in Seq(Teams) /\ [w \in People |-> Nowhere] \in [People -> Teams \cup {Nowhere}]
  BY EmptySeq
<1> QED
  BY <1>1 DEF Light, Blank, Doing

LEMMA EndedLight == ASSUME NEW p PROVE Light(Ended(p))
<1>1. <<>> \in Seq(Teams) /\ [w \in People |-> Nowhere] \in [People -> Teams \cup {Nowhere}]
  BY EmptySeq
<1> QED
  BY <1>1 DEF Light, Blank, Doing, Ended, Pc

LEMMA NextLight ==
    ASSUME NEW p \in Procs, proc[p] \in Doing, proc[p].todo # <<>>
    PROVE  Light(NextTeam(p))
<1> DEFINE d == proc[p]
<1>1. /\ d.kind \in {"none", "sync", "teams", "matches", "crawl", "enrich"} /\ d.todo \in Seq(Teams)
      /\ d.snap \in [People -> Teams \cup {Nowhere}]
  BY DEF Doing
<1>2. CASE Len(d.todo) > 1
  <2>1. Tail(d.todo) \in Seq(Teams) /\ Tail(d.todo) # <<>>
    <3>1. Tail(d.todo) \in Seq(Teams) /\ Len(Tail(d.todo)) = Len(d.todo) - 1
      BY <1>1, HeadTailProperties DEF d
    <3>2. Len(d.todo) \in Nat
      BY <1>1, LenProperties DEF d
    <3>3. ASSUME NEW rest \in Seq(Teams), Len(rest) > 0 PROVE rest # <<>>
      BY <3>3
    <3>4. Len(Tail(d.todo)) > 0
      BY <1>2, <3>1, <3>2
    <3> QED
      BY <3>1, <3>3, <3>4
  <2>2. TurnOf(d.kind) \in Pc \ {"lock", "insert", "store", "link"}
    BY DEF TurnOf, Pc
  <2>3. NextTeam(p) = [Blank EXCEPT !.kind = d.kind, !.snap = d.snap, !.todo = Tail(d.todo),
                                    !.pc = TurnOf(d.kind)]
    BY <1>2 DEF NextTeam
  <2>4. PICK kind, snap, todo, pc :
          kind = d.kind /\ snap = d.snap /\ todo = Tail(d.todo) /\ pc = TurnOf(d.kind)
    OBVIOUS
  <2>5. Light([Blank EXCEPT !.kind = kind, !.snap = snap, !.todo = todo, !.pc = pc])
    <3>1. /\ kind \in {"none", "sync", "teams", "matches", "crawl", "enrich"} /\ todo \in Seq(Teams)
          /\ pc \in Pc \ {"lock", "insert", "store", "link"}
          /\ snap \in [People -> Teams \cup {Nowhere}] /\ todo # <<>>
      BY <1>1, <2>1, <2>2, <2>4
    <3> QED
      BY <3>1, BlankLight
  <2> QED
    BY <2>3, <2>4, <2>5
<1>3. CASE ~(Len(d.todo) > 1) /\ d.kind = "sync"
  <2>1. NextTeam(p) = [Blank EXCEPT !.kind = "sync", !.pc = "fetch matches"]
    BY <1>3 DEF NextTeam
  <2>2. <<>> \in Seq(Teams) /\ [w \in People |-> Nowhere] \in [People -> Teams \cup {Nowhere}]
    BY EmptySeq
  <2> QED
    BY <2>1, <2>2 DEF Light, Blank, Doing, Pc
<1>4. CASE ~(Len(d.todo) > 1) /\ d.kind # "sync"
  <2>1. NextTeam(p) = Ended(p)
    BY <1>4 DEF NextTeam
  <2> QED
    BY <2>1, EndedLight
<1> QED
  BY <1>2, <1>3, <1>4

\* A step of one process that writes no rows.
LEMMA OnlyProcess ==
    ASSUME FeedIInv, NEW p \in Procs, NEW w \in Doing, Remembers(w),
           proc' = [proc EXCEPT ![p] = w], UNCHANGED <<players, matchExt, lineup, mixed>>,
           linked' \subseteq Teams, groupSeen' \in BOOLEAN,
           rosters' \in [People -> Teams \cup {Nowhere}],
           {moves', crashes'} \subseteq 0..MaxTroubles, runs' \in 0..(TeamsEveryRuns - 1)
    PROVE  FeedIInv'
<1> USE DEF FeedIInv
<1>1. proc' \in [Procs -> Doing]
  OBVIOUS
<1>2. \A q \in Procs : Remembers(proc[q])'
  <2>1. ASSUME NEW v, Remembers(v) PROVE Remembers(v)'
    BY <2>1 DEF Remembers, LinksOn
  <2>2. \A q \in Procs : Remembers(proc'[q])
    OBVIOUS
  <2>3. ASSUME NEW q \in Procs PROVE Remembers(proc[q])'
    <3>1. PICK v : v = proc'[q]
      OBVIOUS
    <3>2. Remembers(v)'
      BY <2>1, <2>2, <3>1
    <3> QED
      BY <3>1, <3>2 DEF Remembers, LinksOn
  <2> QED
    BY <2>3
<1>3. FeedTypeOK'
  BY <1>1 DEF FeedTypeOK, Doing
<1>4. OneBatch' /\ BatchOfTeam' /\ LinkedPrefix'
  BY DEF OneBatch, BatchOfTeam, LinkedPrefix
<1>5. LineupIsWhole'
  BY DEF LineupIsWhole, Squad
<1> QED
  BY <1>1, <1>2, <1>3, <1>4, <1>5

\* What the insertion of a squad knows of the rows before and after it.
LEMMA InsertStep == ASSUME FeedIInv, NEW p \in Procs, InsertSquad(p) PROVE FeedIInv'
<1> DEFINE d == proc[p]
           t == Team(p)
           b == FreshBatch
<1>1. /\ d \in Doing /\ d.pc = "insert" /\ d.todo # <<>> /\ d.todo \in Seq(Teams) /\ t = Head(d.todo)
      /\ d.read \subseteq Key /\ d.names \subseteq People /\ d.xi \subseteq d.names /\ d.raced \in BOOLEAN
      /\ \A r \in players : Id(r) \in d.read => r.team = t
      /\ ~d.raced => \A r \in players : r.team = t => Id(r) \in d.read
  <2>1. d \in Doing /\ Remembers(d) /\ d.pc = "insert" /\ t = Head(d.todo)
    BY DEF FeedIInv, InsertSquad, At, Team
  <2> HIDE DEF d, t
  <2>2. d.todo \in Seq(Teams) /\ d.raced \in BOOLEAN
    BY <2>1 DEF Doing
  <2> QED
    BY <2>1, <2>2 DEF Remembers
<1>2. t \in Teams
  BY <1>1, HeadTailProperties
<1>3. b \in Batches /\ b \notin Used
  BY DEF InsertSquad, FreshBatch
<1>4. \A q \in Procs : \A i \in proc[q].read : i[1] # b
  BY <1>3 DEF Used
<1>5. /\ players' = Kept(p) \cup {[batch |-> b, team |-> t, who |-> w, ext |-> FromFeed(p),
                                   starter |-> w \in d.xi] : w \in d.names}
      /\ lineup' = [lineup EXCEPT ![t] = d.xi]
      /\ mixed' = IF d.raced THEN mixed \cup {t} ELSE mixed \ {t}
      /\ proc' = [q \in Procs |->
              IF q = p THEN NextTeam(p)
              ELSE IF proc[q].pc \in {"lock", "insert"} /\ Team(q) = t THEN [proc[q] EXCEPT !.raced = TRUE]
              ELSE proc[q]]
      /\ UNCHANGED <<linked, matchExt, groupSeen, rosters, moves, crashes, runs>>
  BY DEF InsertSquad
<1>6. ASSUME NEW r \in players'
      PROVE  \/ r \in players /\ Id(r) \notin d.read
             \/ /\ r \in Player /\ r.batch = b /\ r.team = t /\ r.who \in d.names
                /\ r.starter = (r.who \in d.xi)
  <2>1. CASE r \in Kept(p)
    BY <2>1 DEF Kept, Existing
  <2>2. CASE r \notin Kept(p)
    <3>1. PICK w \in d.names : r = [batch |-> b, team |-> t, who |-> w, ext |-> FromFeed(p),
                                    starter |-> w \in d.xi]
      BY <1>5, <2>2
    <3>2. r.starter = (r.who \in d.xi)
      BY <3>1, Zenon
    <3>3. FromFeed(p) \in BOOLEAN /\ (w \in d.xi) \in BOOLEAN
      BY DEF FromFeed
    <3> HIDE DEF b, t, d
    <3>4. r \in Player
      BY <1>1, <1>2, <1>3, <3>1, <3>3 DEF Player
    <3> QED
      BY <3>1, <3>2, <3>4
  <2> QED
    BY <2>1, <2>2
<1>7. ASSUME NEW r \in players, Id(r) \notin d.read PROVE r \in players'
  BY <1>5, <1>7 DEF Kept, Existing
<1>8. ASSUME NEW w \in d.xi
      PROVE  \E r \in players' : r.who = w /\ r.team = t /\ r.starter
  <2>1. PICK r : r = [batch |-> b, team |-> t, who |-> w, ext |-> FromFeed(p), starter |-> w \in d.xi]
    OBVIOUS
  <2>2. r \in players'
    BY <1>1, <1>5, <2>1
  <2> QED
    BY <2>1, <2>2
<1>9. Light(NextTeam(p))
  BY <1>1, NextLight
<1>10. \A q \in Procs : q # p =>
         \/ proc'[q] = proc[q] /\ ~(proc[q].pc \in {"lock", "insert"} /\ Team(q) = t)
         \/ proc'[q] = [proc[q] EXCEPT !.raced = TRUE]
  BY <1>5
<1>11. proc' \in [Procs -> Doing]
  <2>1. NextTeam(p) \in Doing
    BY <1>9 DEF Light
  <2>2. ASSUME NEW q \in Procs PROVE [proc[q] EXCEPT !.raced = TRUE] \in Doing /\ proc[q] \in Doing
    BY DEF FeedIInv, Doing
  <2> QED
    BY <1>5, <2>1, <2>2
<1>12. FeedTypeOK'
  <2>1. players' \subseteq Player
    BY <1>6 DEF FeedIInv, FeedTypeOK
  <2>2. lineup' \in [Teams -> SUBSET People] /\ mixed' \subseteq Teams
    BY <1>1, <1>2, <1>5 DEF FeedIInv, FeedTypeOK
  <2>3. \A q \in Procs : proc'[q].pc \in Pc /\ proc'[q].todo \in Seq(Teams)
    BY <1>11 DEF Doing
  <2> QED
    BY <1>5, <1>11, <2>1, <2>2, <2>3 DEF FeedIInv, FeedTypeOK
<1>13. ASSUME NEW q \in Procs PROVE Remembers(proc[q])'
  <2>1. CASE q = p
    BY <1>5, <1>9, <2>1, LightRemembers
  <2>2. CASE q # p
    <3>1. PICK v, u : v = proc[q] /\ u = proc'[q]
      OBVIOUS
    <3>2. /\ u.pc = v.pc /\ u.todo = v.todo /\ u.read = v.read /\ u.names = v.names /\ u.xi = v.xi
          /\ ~u.raced => ~v.raced /\ ~(v.pc \in {"lock", "insert"} /\ Head(v.todo) = t)
      <4>1. CASE proc'[q] = proc[q] /\ ~(proc[q].pc \in {"lock", "insert"} /\ Team(q) = t)
        BY <3>1, <4>1 DEF Team
      <4>2. CASE proc'[q] = [proc[q] EXCEPT !.raced = TRUE]
        BY <3>1, <4>2 DEF FeedIInv, Doing
      <4> QED
        BY <1>10, <2>2, <4>1, <4>2
    <3>3. Remembers(v) /\ \A i \in v.read : i[1] # b
      BY <1>4, <3>1 DEF FeedIInv
    <3>4. \A r \in players' : r \in players \/ (Id(r)[1] = b /\ r.team = t)
      <4> HIDE DEF b, t, d
      <4> QED
        BY <1>6 DEF Id
    <3>5. matchExt' = matchExt
      BY <1>5
    <3> HIDE DEF t, b
    <3>6. Remembers(u)'
      BY <3>2, <3>3, <3>4, <3>5 DEF Remembers, LinksOn
    <3> QED
      BY <3>1, <3>6 DEF Remembers, LinksOn
  <2> QED
    BY <2>1, <2>2
<1>14. OneBatch'
  <2>1. SUFFICES ASSUME NEW s \in Teams, s \notin mixed', NEW r \in players', NEW o \in players',
                        r.team = s, o.team = s
                 PROVE  r.batch = o.batch
    BY DEF OneBatch
  <2>2. CASE s = t
    <3>1. ~d.raced
      BY <1>1, <1>5, <2>1, <2>2
    <3> QED
      BY <1>1, <1>6, <2>1, <2>2, <3>1
  <2>3. CASE s # t
    <3>1. s \notin mixed /\ r \in players /\ o \in players
      BY <1>5, <1>6, <2>1, <2>3
    <3> QED
      BY <2>1, <3>1 DEF FeedIInv, OneBatch
  <2> QED
    BY <2>2, <2>3
<1>15. LineupIsWhole'
  <2>1. SUFFICES ASSUME NEW s \in Teams, s \notin mixed'
                 PROVE  {r.who : r \in {r \in {r \in players' : r.team = s} : r.starter}} = lineup'[s]
    BY DEF LineupIsWhole, Squad
  <2>2. CASE s = t
    <3>1. ~d.raced
      BY <1>1, <1>5, <2>1, <2>2
    <3>2. lineup'[s] = d.xi
      BY <1>2, <1>5, <2>2 DEF FeedIInv, FeedTypeOK
    <3>3. ASSUME NEW r \in players', r.team = s, r.starter PROVE r.who \in d.xi
      BY <1>1, <1>6, <2>2, <3>1, <3>3
    <3> QED
      BY <1>8, <2>2, <3>2, <3>3
  <2>3. CASE s # t
    <3>1. s \notin mixed /\ lineup'[s] = lineup[s]
      BY <1>5, <2>1, <2>3 DEF FeedIInv, FeedTypeOK
    <3>2. \A r : r \in players' /\ r.team = s <=> r \in players /\ r.team = s
      BY <1>1, <1>6, <1>7, <2>3
    <3>3. {r \in players' : r.team = s} = {r \in players : r.team = s}
      BY <3>2
    <3>4. {r.who : r \in {r \in {r \in players : r.team = s} : r.starter}} = lineup[s]
      BY <3>1 DEF FeedIInv, LineupIsWhole, Squad
    <3> QED
      BY <3>1, <3>3, <3>4
  <2> QED
    BY <2>2, <2>3
<1>16. LinkedPrefix'
  BY <1>5 DEF FeedIInv, LinkedPrefix
<1>17. BatchOfTeam'
  <2>1. SUFFICES ASSUME NEW r \in players', NEW s \in players', r.batch = s.batch PROVE r.team = s.team
    BY DEF BatchOfTeam
  <2>2. \A o \in players : o.batch # b
    BY <1>3 DEF Used
  <2>3. (r \in players /\ s \in players) \/ (r.team = t /\ s.team = t)
    BY <1>6, <2>1, <2>2
  <2> QED
    BY <2>1, <2>3 DEF FeedIInv, BatchOfTeam
<1> QED
  BY <1>11, <1>12, <1>13, <1>14, <1>15, <1>16, <1>17 DEF FeedIInv

LEMMA StoreStep == ASSUME FeedIInv, NEW p \in Procs, StoreLineup(p) PROVE FeedIInv'
<1> DEFINE d == proc[p]
           t == Team(p)
           After(r) == [r EXCEPT !.starter = Id(r) \in d.xi]
<1>1. /\ d \in Doing /\ d.pc = "store" /\ d.todo # <<>> /\ d.todo \in Seq(Teams) /\ t = Head(d.todo)
      /\ d.read \subseteq Key /\ d.names \subseteq d.read /\ d.xi \subseteq d.names
      /\ \A r \in players : Id(r) \in d.read => r.team = t
      /\ \A i \in d.names : \E r \in players : Id(r) = i
  <2>1. d \in Doing /\ Remembers(d) /\ d.pc = "store" /\ t = Head(d.todo)
        /\ \A i \in d.names : \E r \in players : Id(r) = i
    BY DEF FeedIInv, StoreLineup, At, Team, Matched
  <2> HIDE DEF d, t
  <2>2. d.todo \in Seq(Teams)
    BY <2>1 DEF Doing
  <2> QED
    BY <2>1, <2>2 DEF Remembers
<1>2. t \in Teams
  BY <1>1, HeadTailProperties
<1>3. /\ players' = (players \ Squad(t)) \cup {After(r) : r \in Squad(t)}
      /\ lineup' = [lineup EXCEPT ![t] = {i[2] : i \in d.xi}]
      /\ proc' = [proc EXCEPT ![p] = NextTeam(p)]
      /\ UNCHANGED <<linked, matchExt, groupSeen, rosters, moves, crashes, runs, mixed>>
  BY DEF StoreLineup, Becomes
<1>4. ASSUME NEW r \in players
      PROVE  /\ After(r) \in Player /\ After(r).batch = r.batch /\ After(r).team = r.team
             /\ After(r).who = r.who /\ After(r).starter = (Id(r) \in d.xi) /\ Id(After(r)) = Id(r)
  <2>1. r \in Player /\ (Id(r) \in d.xi) \in BOOLEAN
    BY DEF FeedIInv, FeedTypeOK
  <2>2. PICK yes : yes = (Id(r) \in d.xi)
    OBVIOUS
  <2>3. After(r) = [r EXCEPT !.starter = yes] /\ yes \in BOOLEAN
    BY <2>1, <2>2, Zenon
  <2> HIDE DEF After, d
  <2> QED
    BY <2>1, <2>2, <2>3 DEF Player, Id
<1>5. ASSUME NEW r \in players'
      PROVE  (r \in players /\ r.team # t) \/ \E o \in players : o.team = t /\ r = After(o)
  BY <1>3 DEF Squad
<1>6. ASSUME NEW r \in players PROVE IF r.team = t THEN After(r) \in players' ELSE r \in players'
  BY <1>3 DEF Squad
<1>7. ASSUME NEW r \in players'
      PROVE  \E o \in players : r.team = o.team /\ r.batch = o.batch /\ Id(r) = Id(o) /\ r \in Player
  <2> HIDE DEF After, t, d
  <2> QED
    BY <1>4, <1>5 DEF FeedIInv, FeedTypeOK
<1>8. Light(NextTeam(p))
  BY <1>1, NextLight
<1>9. proc' \in [Procs -> Doing]
  BY <1>3, <1>8 DEF Light, FeedIInv
<1>10. {i[2] : i \in d.xi} \subseteq People
  BY <1>1 DEF Key
<1>11. FeedTypeOK'
  <2>1. players' \subseteq Player
    BY <1>7
  <2>2. lineup' \in [Teams -> SUBSET People]
    BY <1>2, <1>3, <1>10 DEF FeedIInv, FeedTypeOK
  <2>3. \A q \in Procs : proc'[q].pc \in Pc /\ proc'[q].todo \in Seq(Teams)
    BY <1>9 DEF Doing
  <2> QED
    BY <1>3, <1>9, <2>1, <2>2, <2>3 DEF FeedIInv, FeedTypeOK
<1>12. ASSUME NEW q \in Procs PROVE Remembers(proc[q])'
  <2>1. CASE q = p
    BY <1>3, <1>8, <2>1, LightRemembers DEF FeedIInv
  <2>2. CASE q # p
    <3>1. PICK v : v = proc[q] /\ v = proc'[q]
      BY <1>3, <2>2
    <3>2. Remembers(v)
      BY <3>1 DEF FeedIInv
    <3>3. matchExt' = matchExt
      BY <1>3
    <3>4. Remembers(v)'
      BY <1>7, <3>2, <3>3 DEF Remembers, LinksOn
    <3> QED
      BY <3>1, <3>4 DEF Remembers, LinksOn
  <2> QED
    BY <2>1, <2>2
<1>13. OneBatch'
  <2>1. SUFFICES ASSUME NEW s \in Teams, s \notin mixed, NEW r \in players', NEW o \in players',
                        r.team = s, o.team = s
                 PROVE  r.batch = o.batch
    BY <1>3 DEF OneBatch
  <2> QED
    BY <1>7, <2>1 DEF FeedIInv, OneBatch
<1>14. LineupIsWhole'
  <2>1. SUFFICES ASSUME NEW s \in Teams, s \notin mixed
                 PROVE  {r.who : r \in {r \in {r \in players' : r.team = s} : r.starter}} = lineup'[s]
    BY <1>3 DEF LineupIsWhole, Squad
  <2>2. CASE s = t
    <3>1. lineup'[s] = {i[2] : i \in d.xi}
      BY <1>2, <1>3, <2>2 DEF FeedIInv, FeedTypeOK
    <3>2. ASSUME NEW r \in players', r.team = s, r.starter PROVE \E i \in d.xi : r.who = i[2]
      <4>1. PICK o \in players : r = After(o)
        BY <1>5, <2>2, <3>2
      <4>2. Id(o) \in d.xi /\ r.who = o.who
        BY <1>4, <3>2, <4>1
      <4> QED
        BY <4>2 DEF Id
    <3>3. ASSUME NEW i \in d.xi PROVE \E r \in players' : r.team = s /\ r.starter /\ r.who = i[2]
      <4>1. PICK o \in players : Id(o) = i
        BY <1>1
      <4>2. o.team = t
        BY <1>1, <4>1
      <4>3. After(o) \in players' /\ After(o).team = s
        BY <1>4, <1>6, <2>2, <4>2
      <4>4. After(o).starter
        BY <1>4, <4>1
      <4>5. After(o).who = i[2]
        BY <1>4, <4>1 DEF Id
      <4> QED
        BY <4>3, <4>4, <4>5
    <3> QED
      BY <2>2, <3>1, <3>2, <3>3
  <2>3. CASE s # t
    <3>1. lineup'[s] = lineup[s]
      BY <1>3, <2>3 DEF FeedIInv, FeedTypeOK
    <3>2. \A r : r \in players' /\ r.team = s <=> r \in players /\ r.team = s
      BY <1>4, <1>5, <1>6, <2>3
    <3>3. {r \in players' : r.team = s} = {r \in players : r.team = s}
      BY <3>2
    <3>4. {r.who : r \in {r \in {r \in players : r.team = s} : r.starter}} = lineup[s]
      BY <2>1 DEF FeedIInv, LineupIsWhole, Squad
    <3> QED
      BY <3>1, <3>3, <3>4
  <2> QED
    BY <2>2, <2>3
<1>15. LinkedPrefix'
  BY <1>3 DEF FeedIInv, LinkedPrefix
<1>16. BatchOfTeam'
  <2>1. SUFFICES ASSUME NEW r \in players', NEW s \in players', r.batch = s.batch PROVE r.team = s.team
    BY DEF BatchOfTeam
  <2> QED
    BY <1>7, <2>1 DEF FeedIInv, BatchOfTeam
<1> QED
  BY <1>9, <1>11, <1>12, <1>13, <1>14, <1>15, <1>16 DEF FeedIInv

\* Only the next match of the round is ever linked: a pairing counted from a later one is refused.
LEMMA LinkStep == ASSUME FeedIInv, NEW p \in Procs, LinkRow(p) PROVE FeedIInv'
<1> DEFINE d == proc[p]
<1>1. d \in Doing /\ d.pc = "link" /\ LinksOn(d.read) /\ d.read # {}
  <2>1. d \in Doing /\ Remembers(d) /\ d.pc = "link" /\ d.read # {}
    BY DEF FeedIInv, LinkRow, At
  <2> HIDE DEF d
  <2> QED
    BY <2>1 DEF Remembers
<1>2. PICK off \in 0..Rows, i \in 1..(Rows + 1) :
        /\ i > off /\ d.read = {<<m, m - off>> : m \in i..Rows}
        /\ off = 0 => \A m \in 1..Rows : m < i => matchExt[m] = m
        /\ off > 0 => i = off + 1 /\ matchExt[1] = 1
  BY <1>1 DEF LinksOn
<1>3. Rows \in Nat
  BY FeedSyncAssumption
<1>4. i <= Rows
  <2>1. PICK m \in i..Rows : TRUE
    BY <1>1, <1>2
  <2> QED
    BY <1>3, <2>1
<1>5. NextPair(p) = <<i, i - off>>
  <2>1. <<i, i - off>> \in d.read /\ \A y \in d.read : <<i, i - off>>[2] <= y[2]
    BY <1>2, <1>3, <1>4
  <2>2. NextPair(p) \in d.read /\ \A y \in d.read : NextPair(p)[2] <= y[2]
    BY <2>1 DEF NextPair
  <2>3. PICK m \in i..Rows : NextPair(p) = <<m, m - off>>
    BY <1>2, <2>2
  <2>4. m - off <= i - off
    BY <2>1, <2>2, <2>3
  <2>5. m = i
    BY <1>3, <2>3, <2>4
  <2> QED
    BY <2>3, <2>5
<1>6. off = 0
  <2>1. SUFFICES ASSUME off > 0 PROVE FALSE
    BY <1>3
  <2>2. i = off + 1 /\ matchExt[1] = 1 /\ NextPair(p) = <<off + 1, 1>>
    BY <1>2, <1>3, <1>5, <2>1
  <2>3. 1 \in 1..Rows \ {off + 1}
    BY <1>3, <1>4, <2>1
  <2> QED
    BY <2>2, <2>3 DEF LinkRow, Linkable
<1>7. /\ matchExt' = [matchExt EXCEPT ![i] = i]
      /\ proc' = [proc EXCEPT ![p] = [d EXCEPT !.read = d.read \ {<<i, i>>}]]
      /\ UNCHANGED <<players, linked, groupSeen, rosters, moves, crashes, runs, lineup, mixed>>
  <2>1. NextPair(p) = <<i, i>>
    BY <1>3, <1>5, <1>6
  <2>2. NextPair(p)[1] = i /\ NextPair(p)[2] = i
    BY <2>1
  <2> QED
    BY <2>1, <2>2 DEF LinkRow, Becomes
<1>8. matchExt \in [1..Rows -> 0..Rows]
  BY DEF FeedIInv, FeedTypeOK
<1>9. \A m \in 1..Rows : matchExt'[m] = IF m = i THEN i ELSE matchExt[m]
  BY <1>7, <1>8
<1>10. ASSUME NEW read, LinksOn(read) PROVE LinksOn(read)'
  <2>1. PICK f \in 0..Rows, j \in 1..(Rows + 1) :
        /\ j > f /\ read = {<<m, m - f>> : m \in j..Rows}
        /\ f = 0 => \A m \in 1..Rows : m < j => matchExt[m] = m
        /\ f > 0 => j = f + 1 /\ matchExt[1] = 1
    BY <1>10 DEF LinksOn
  <2>2. f = 0 => \A m \in 1..Rows : m < j => matchExt'[m] = m
    BY <1>9, <2>1
  <2>3. f > 0 => matchExt'[1] = 1
    <3>1. 1 \in 1..Rows
      BY <1>3, <1>4
    <3> QED
      BY <1>9, <2>1, <3>1
  <2> QED
    BY <2>1, <2>2, <2>3 DEF LinksOn
<1>11. PICK rest : rest = d.read \ {<<i, i>>}
  OBVIOUS
<1>12. rest = {<<m, m - 0>> : m \in (i + 1)..Rows}
  <2>1. d.read = {<<m, m>> : m \in i..Rows}
    BY <1>2, <1>3, <1>6
  <2>2. \A m \in i..Rows : <<m, m>> # <<i, i>> <=> m \in (i + 1)..Rows
    BY <1>3
  <2>3. \A m \in (i + 1)..Rows : m \in i..Rows /\ m - 0 = m
    BY <1>3
  <2> HIDE DEF d
  <2> QED
    BY <1>11, <2>1, <2>2, <2>3
<1>13. LinksOn(rest)'
  <2>1. i + 1 \in 1..(Rows + 1) /\ 0 \in 0..Rows /\ i + 1 > 0
    BY <1>3, <1>4
  <2>2. \A m \in 1..Rows : m < i + 1 => matchExt'[m] = m
    BY <1>2, <1>3, <1>6, <1>9
  <2> QED
    BY <1>12, <2>1, <2>2 DEF LinksOn
<1>14. proc' \in [Procs -> Doing]
  <2>1. [d EXCEPT !.read = d.read \ {<<i, i>>}] \in Doing
    <3> HIDE DEF d
    <3> QED
      BY <1>1 DEF Doing
  <2> QED
    BY <1>7, <2>1 DEF FeedIInv
<1>15. ASSUME NEW q \in Procs PROVE Remembers(proc[q])'
  <2>1. CASE q = p
    <3>1. PICK u : u = proc'[q]
      OBVIOUS
    <3>2. u.pc = "link" /\ u.read = rest
      BY <1>1, <1>7, <1>11, <2>1, <3>1 DEF FeedIInv, Doing
    <3>3. Remembers(u)'
      BY <1>13, <3>2 DEF Remembers
    <3> QED
      BY <3>1, <3>3 DEF Remembers, LinksOn
  <2>2. CASE q # p
    <3>1. PICK v : v = proc[q] /\ v = proc'[q]
      BY <1>7, <2>2
    <3>2. Remembers(v)
      BY <3>1 DEF FeedIInv
    <3>3. Remembers(v)'
      BY <1>7, <1>10, <3>2 DEF Remembers
    <3> QED
      BY <3>1, <3>3 DEF Remembers, LinksOn
  <2> QED
    BY <2>1, <2>2
<1>16. FeedTypeOK'
  <2>1. matchExt' \in [1..Rows -> 0..Rows]
    BY <1>3, <1>4, <1>7, <1>8
  <2>2. \A q \in Procs : proc'[q].pc \in Pc /\ proc'[q].todo \in Seq(Teams)
    BY <1>14 DEF Doing
  <2> QED
    BY <1>7, <1>14, <2>1, <2>2 DEF FeedIInv, FeedTypeOK
<1>17. OneBatch' /\ BatchOfTeam'
  BY <1>7 DEF FeedIInv, OneBatch, BatchOfTeam
<1>18. LineupIsWhole'
  BY <1>7 DEF FeedIInv, LineupIsWhole, Squad
<1>19. LinkedPrefix'
  <2>1. PICK till \in 0..Rows : \A m \in 1..Rows : matchExt[m] = IF m <= till THEN m ELSE 0
    BY DEF FeedIInv, LinkedPrefix
  <2>2. \A m \in 1..Rows : m < i => m <= till
    BY <1>2, <1>6, <2>1
  <2>3. CASE i <= till
    <3>1. \A m \in 1..Rows : matchExt'[m] = IF m <= till THEN m ELSE 0
      BY <1>9, <2>1, <2>3
    <3> QED
      BY <3>1 DEF LinkedPrefix
  <2>4. CASE i > till
    <3>1. \A m \in 1..Rows : matchExt'[m] = IF m <= i THEN m ELSE 0
      BY <1>3, <1>9, <2>1, <2>2, <2>4
    <3>2. i \in 0..Rows
      BY <1>3, <1>4
    <3> QED
      BY <3>1, <3>2 DEF LinkedPrefix
  <2> QED
    BY <1>3, <2>3, <2>4
<1> QED
  BY <1>14, <1>15, <1>16, <1>17, <1>18, <1>19 DEF FeedIInv

\* The first matches are linked, so the pairing starts right after them.
LEMMA PairStep == ASSUME FeedIInv, NEW p \in Procs, PairUnlinked(p) PROVE FeedIInv'
<1> DEFINE d == proc[p]
           open == {m \in 1..Rows : matchExt[m] = 0}
           read == {<<m, Cardinality({o \in open : o <= m})>> : m \in open}
<1>1. d \in Doing /\ d.pc = "unlinked" /\ proc' = [proc EXCEPT ![p] = [d EXCEPT !.pc = "link", !.read = read]]
      /\ Stay
  BY DEF FeedIInv, PairUnlinked, At, Becomes
<1>2. Rows \in Nat
  BY FeedSyncAssumption
<1>3. PICK till \in 0..Rows : \A m \in 1..Rows : matchExt[m] = IF m <= till THEN m ELSE 0
  BY DEF FeedIInv, LinkedPrefix
<1>4. open = (till + 1)..Rows
  BY <1>2, <1>3
<1>5. ASSUME NEW m \in open PROVE Cardinality({o \in open : o <= m}) = m - till
  <2>1. {o \in open : o <= m} = (till + 1)..m
    BY <1>2, <1>4
  <2>2. till + 1 \in Int /\ m \in Int /\ till + 1 <= m
    BY <1>2, <1>4
  <2>3. Cardinality((till + 1)..m) = m - (till + 1) + 1
    BY <2>2, FS_Interval
  <2>4. m - (till + 1) + 1 = m - till
    BY <2>2
  <2> HIDE DEF open
  <2> QED
    BY <2>1, <2>3, <2>4
<1>6. PICK pairs : pairs = read
  OBVIOUS
<1>7. pairs = {<<m, m - till>> : m \in (till + 1)..Rows}
  <2>1. pairs = {<<m, m - till>> : m \in open}
    BY <1>5, <1>6
  <2> QED
    BY <1>4, <2>1
<1>8. pairs \subseteq Pair
  BY <1>2, <1>7 DEF Pair
<1>9. LinksOn(pairs)
  <2>1. till \in 0..Rows /\ till + 1 \in 1..(Rows + 1) /\ till + 1 > till
    BY <1>2
  <2>2. till = 0 => \A m \in 1..Rows : m < till + 1 => matchExt[m] = m
    BY <1>2
  <2>3. till > 0 => matchExt[1] = 1
    BY <1>2, <1>3
  <2> QED
    BY <1>7, <2>1, <2>2, <2>3 DEF LinksOn
<1>10. PICK w : w = [d EXCEPT !.pc = "link", !.read = pairs]
  OBVIOUS
<1>11. w \in Doing /\ Remembers(w)
  <2> HIDE DEF d
  <2> QED
    BY <1>1, <1>8, <1>9, <1>10 DEF Doing, Pc, Remembers
<1>12. proc' = [proc EXCEPT ![p] = w]
  BY <1>1, <1>6, <1>10
<1> QED
  BY <1>1, <1>11, <1>12, OnlyProcess DEF Stay, FeedIInv, FeedTypeOK

\* A step that leaves a process with nothing to remember.
LEMMA LightStep ==
    ASSUME FeedIInv, NEW p \in Procs, NEW w, Light(w), Becomes(p, w), Stay
    PROVE  FeedIInv'
<1>1. w \in Doing /\ Remembers(w)
  BY LightRemembers DEF Light
<1> QED
  BY <1>1, OnlyProcess DEF Stay, Becomes, FeedIInv, FeedTypeOK

LEMMA FailsStep == ASSUME FeedIInv, NEW p \in Procs, Fails(p) PROVE FeedIInv'
BY EndedLight, LightStep DEF Fails

LEMMA TeamsTyped == TeamOrder \in Seq(Teams) /\ TeamOrder # <<>> /\ <<>> \in Seq(Teams)
                    /\ \A t \in Teams : <<t>> \in Seq(Teams) /\ <<t>> # <<>>
<1>1. TeamOrder \in Seq(Teams) /\ Len(TeamOrder) > 0
  BY FeedSyncAssumption
<1>2. TeamOrder # <<>>
  BY <1>1
<1>3. <<>> \in Seq(Teams)
  BY EmptySeq
<1>4. \A t \in Teams : <<t>> \in Seq(Teams) /\ <<t>> # <<>>
  OBVIOUS
<1> QED
  BY <1>1, <1>2, <1>3, <1>4

LEMMA StartRunStep == ASSUME FeedIInv, StartRun PROVE FeedIInv'
<1>1. PICK w : Becomes(Worker, w) /\ Stay
               /\ w = IF runs = 0 THEN [Blank EXCEPT !.kind = "sync", !.pc = "fetch teams", !.todo = TeamOrder]
                                  ELSE [Blank EXCEPT !.kind = "sync", !.pc = "fetch matches"]
  BY DEF StartRun
<1>2. Light(w)
  <2>1. [x \in People |-> Nowhere] \in [People -> Teams \cup {Nowhere}]
    OBVIOUS
  <2>2. CASE runs = 0
    <3>1. w = [Blank EXCEPT !.kind = "sync", !.pc = "fetch teams", !.todo = TeamOrder]
      BY <1>1, <2>2
    <3> QED
      BY <2>1, <3>1, TeamsTyped, BlankLight DEF Pc
  <2>3. CASE runs # 0
    <3>1. w = [Blank EXCEPT !.kind = "sync", !.pc = "fetch matches"]
      BY <1>1, <2>3
    <3> QED
      BY <2>1, <3>1, TeamsTyped DEF Light, Blank, Doing, Pc
  <2> QED
    BY <2>2, <2>3
<1> QED
  BY <1>1, <1>2, LightStep DEF Procs

LEMMA CallStep == ASSUME FeedIInv, NEW c \in Calls, StartCall(c) PROVE FeedIInv'
<1>1. ASSUME NEW kind \in {"teams", "matches", "crawl", "enrich"},
             NEW pc \in {"fetch teams", "fetch matches", "ask", "read"}, NEW todo \in Seq(Teams),
             pc = "fetch matches" \/ todo # <<>>, Begin(c, kind, pc, todo)
      PROVE  FeedIInv'
  <2>1. PICK w : w = [Blank EXCEPT !.kind = kind, !.pc = pc, !.todo = todo] /\ Becomes(c, w) /\ Stay
    BY <1>1 DEF Begin
  <2>2. [x \in People |-> Nowhere] \in [People -> Teams \cup {Nowhere}]
    OBVIOUS
  <2>3. pc \in Pc \ {"lock", "insert", "store", "link"}
    BY DEF Pc
  <2>4. Light(w)
    BY <1>1, <2>1, <2>2, <2>3, BlankLight
  <2> QED
    BY <2>1, <2>4, LightStep DEF Procs
<1>2. CASE Begin(c, "teams", "fetch teams", TeamOrder)
  BY <1>1, <1>2, TeamsTyped
<1>3. CASE Begin(c, "matches", "fetch matches", <<>>)
  BY <1>1, <1>3, TeamsTyped
<1>4. CASE \E t \in Teams : Begin(c, "teams", "fetch teams", <<t>>)
  BY <1>1, <1>4, TeamsTyped
<1>5. CASE \E todo \in {TeamOrder} \cup {<<t>> : t \in Teams} :
             Begin(c, "crawl", "ask", todo) \/ Begin(c, "enrich", "read", todo)
  <2>1. PICK todo \in Seq(Teams) :
          todo # <<>> /\ (Begin(c, "crawl", "ask", todo) \/ Begin(c, "enrich", "read", todo))
    BY <1>5, TeamsTyped
  <2> QED
    BY <1>1, <2>1
<1> QED
  BY <1>2, <1>3, <1>4, <1>5 DEF StartCall

\* What every process at work on a team knows of it.
LEMMA AtTeam ==
    ASSUME FeedIInv, NEW p \in Procs,
           proc[p].pc \in {"fetch teams", "team", "read", "ask", "lock", "insert", "store"}
    PROVE  /\ proc[p] \in Doing /\ Remembers(proc[p])
           /\ proc[p].todo \in Seq(Teams) /\ proc[p].todo # <<>> /\ Team(p) \in Teams
           /\ Light(NextTeam(p))
<1>1. proc[p] \in Doing /\ Remembers(proc[p])
  BY DEF FeedIInv
<1>2. proc[p].todo \in Seq(Teams) /\ proc[p].todo # <<>>
  BY <1>1 DEF Doing, Remembers
<1>3. Team(p) \in Teams
  BY <1>2, HeadTailProperties DEF Team
<1> QED
  BY <1>1, <1>2, <1>3, NextLight

\* deleteMany has just read the rows of the squad: they are all of them.
LEMMA ReplacingRemembers ==
    ASSUME FeedIInv, NEW p \in Procs, proc[p].pc \in {"team", "ask"},
           NEW names \in SUBSET People, NEW xi \in SUBSET names
    PROVE  Replacing(p, names, xi) \in Doing /\ Remembers(Replacing(p, names, xi))
<1> DEFINE ids == {Id(r) : r \in Squad(Team(p))}
<1>1. PICK d, t, w, read : d = proc[p] /\ t = Team(p) /\ w = Replacing(p, names, xi) /\ read = ids
  OBVIOUS
<1>2. w = [d EXCEPT !.pc = "lock", !.names = names, !.xi = xi, !.read = read]
  BY <1>1 DEF Replacing
<1>3. d \in Doing /\ d.todo \in Seq(Teams) /\ d.todo # <<>> /\ t = Head(d.todo)
  BY <1>1, AtTeam DEF Team
<1>4. /\ read \subseteq Key
      /\ \A r \in players : r.team = t => Id(r) \in read
      /\ \A r \in players : Id(r) \in read => r.team = t
  <2>1. \A r \in players : Id(r) \in Key
    BY DEF FeedIInv, FeedTypeOK, Player, Id, Key
  <2>2. \A r, s \in players : Id(r) = Id(s) => r.team = s.team
    BY DEF FeedIInv, BatchOfTeam, Id
  <2> QED
    BY <1>1, <2>1, <2>2 DEF Squad
<1>5. w \in Doing
  BY <1>2, <1>3, <1>4 DEF Doing, Pc
<1>6. Remembers(w)
  <2>1. /\ w.pc = "lock" /\ w.todo = d.todo /\ w.read = read /\ w.names = names /\ w.xi = xi
    BY <1>2, <1>3 DEF Doing
  <2> QED
    BY <1>3, <1>4, <2>1 DEF Remembers
<1> QED
  BY <1>1, <1>5, <1>6

LEMMA UpdateStep == ASSUME FeedIInv, NEW p \in Procs, UpdateTeam(p) PROVE FeedIInv'
<1>1. /\ proc[p].pc = "team" /\ linked' = linked \cup {Team(p)}
      /\ UNCHANGED <<players, matchExt, groupSeen, rosters, moves, crashes, runs, lineup, mixed>>
  BY DEF UpdateTeam, At
<1>2. PICK names : /\ names = {w \in People : proc[p].snap[w] = Team(p)}
                   /\ Becomes(p, IF names = {} THEN NextTeam(p) ELSE Replacing(p, names, {}))
  BY DEF UpdateTeam
<1>3. PICK w : w = IF names = {} THEN NextTeam(p) ELSE Replacing(p, names, {})
  OBVIOUS
<1>4. w \in Doing /\ Remembers(w)
  <2>1. Light(NextTeam(p))
    BY <1>1, AtTeam
  <2>2. Replacing(p, names, {}) \in Doing /\ Remembers(Replacing(p, names, {}))
    BY <1>1, <1>2, ReplacingRemembers
  <2> QED
    BY <1>3, <2>1, <2>2, LightRemembers DEF Light
<1>5. linked' \subseteq Teams
  BY <1>1, AtTeam DEF FeedIInv, FeedTypeOK
<1>6. proc' = [proc EXCEPT ![p] = w]
  BY <1>2, <1>3 DEF Becomes
<1> QED
  BY <1>1, <1>4, <1>5, <1>6, OnlyProcess DEF FeedIInv, FeedTypeOK

\* A step of one process that changes nothing else.
LEMMA MemoryStep ==
    ASSUME FeedIInv, NEW p \in Procs, NEW w \in Doing, Remembers(w), Becomes(p, w), Stay
    PROVE  FeedIInv'
BY OnlyProcess DEF Stay, Becomes, FeedIInv, FeedTypeOK

LEMMA CrawlStep == ASSUME FeedIInv, NEW p \in Procs, CrawlAnswers(p) PROVE FeedIInv'
<1>1. proc[p].pc = "ask" /\ Stay
  BY DEF CrawlAnswers, At
<1>2. PICK a \in Answers : Becomes(p, IF a.names = {} THEN NextTeam(p) ELSE Replacing(p, a.names, a.xi))
  BY DEF CrawlAnswers
<1>3. a.names \in SUBSET People /\ a.xi \in SUBSET a.names
  BY FeedSyncAssumption
<1>4. CASE a.names = {}
  <2>1. Light(NextTeam(p))
    BY <1>1, AtTeam
  <2> QED
    BY <1>1, <1>2, <1>4, <2>1, LightStep
<1>5. CASE a.names # {}
  <2>1. Replacing(p, a.names, a.xi) \in Doing /\ Remembers(Replacing(p, a.names, a.xi))
    BY <1>1, <1>3, ReplacingRemembers
  <2>2. Becomes(p, Replacing(p, a.names, a.xi))
    BY <1>2, <1>5
  <2> QED
    BY <1>1, <2>1, <2>2, MemoryStep
<1> QED
  BY <1>4, <1>5

\* The rows locked are those remembered that are still there.
LEMMA LockStep == ASSUME FeedIInv, NEW p \in Procs, LockRows(p) PROVE FeedIInv'
<1>1. PICK d, read, w : /\ d = proc[p] /\ read = {Id(r) : r \in Existing(proc[p].read)}
                        /\ w = [proc[p] EXCEPT !.pc = "insert", !.read = {Id(r) : r \in Existing(@)}]
  OBVIOUS
<1>2. d \in Doing /\ Remembers(d) /\ d.pc = "lock" /\ Stay /\ Becomes(p, w)
  BY <1>1 DEF FeedIInv, LockRows, At
<1>3. w = [d EXCEPT !.pc = "insert", !.read = read]
  BY <1>1, <1>2 DEF Doing
<1>4. /\ read \subseteq Key
      /\ \A r \in players : Id(r) \in read <=> Id(r) \in d.read
  <2>1. \A r \in players : Id(r) \in Key
    BY DEF FeedIInv, FeedTypeOK, Player, Id, Key
  <2> QED
    BY <1>1, <2>1 DEF Existing
<1>5. w \in Doing
  BY <1>2, <1>3, <1>4 DEF Doing, Pc
<1>6. Remembers(w)
  <2>1. /\ w.pc = "insert" /\ w.todo = d.todo /\ w.read = read /\ w.names = d.names /\ w.xi = d.xi
        /\ w.raced = d.raced
    BY <1>2, <1>3 DEF Doing
  <2> QED
    BY <1>2, <1>4, <2>1 DEF Remembers
<1> QED
  BY <1>2, <1>5, <1>6, MemoryStep

\* The roster read is that of the team.
LEMMA ReadStep == ASSUME FeedIInv, NEW p \in Procs, ReadRoster(p) PROVE FeedIInv'
<1>1. proc[p].pc = "read" /\ Stay
  BY DEF ReadRoster, At
<1>2. CASE Squad(Team(p)) = {}
  <2>1. Becomes(p, NextTeam(p)) /\ Light(NextTeam(p))
    BY <1>1, <1>2, AtTeam DEF ReadRoster
  <2> QED
    BY <1>1, <2>1, LightStep
<1>3. CASE Squad(Team(p)) # {}
  <2>1. PICK d, t, read : d = proc[p] /\ t = Team(p) /\ read = {Id(r) : r \in Squad(Team(p))}
    OBVIOUS
  <2>2. PICK w : w = [d EXCEPT !.pc = "ask", !.read = read]
    OBVIOUS
  <2>3. Becomes(p, w)
    BY <1>3, <2>1, <2>2 DEF ReadRoster
  <2>4. d \in Doing /\ d.todo \in Seq(Teams) /\ d.todo # <<>> /\ t = Head(d.todo)
    BY <1>1, <2>1, AtTeam DEF Team
  <2>5. read \subseteq Key /\ \A r \in players : Id(r) \in read => r.team = t
    <3>1. \A r \in players : Id(r) \in Key
      BY DEF FeedIInv, FeedTypeOK, Player, Id, Key
    <3>2. \A r, s \in players : Id(r) = Id(s) => r.team = s.team
      BY DEF FeedIInv, BatchOfTeam, Id
    <3> QED
      BY <2>1, <3>1, <3>2 DEF Squad
  <2>6. w \in Doing
    BY <2>2, <2>4, <2>5 DEF Doing, Pc
  <2>7. Remembers(w)
    <3>1. w.pc = "ask" /\ w.todo = d.todo /\ w.read = read
      BY <2>2, <2>4 DEF Doing
    <3> QED
      BY <2>4, <2>5, <3>1 DEF Remembers
  <2> QED
    BY <1>1, <2>3, <2>6, <2>7, MemoryStep
<1> QED
  BY <1>2, <1>3

\* The answer kept names rows of the roster that was read.
LEMMA EnrichStep == ASSUME FeedIInv, NEW p \in Procs, EnrichAnswers(p) PROVE FeedIInv'
<1>1. proc[p].pc = "ask" /\ Stay
  BY DEF EnrichAnswers, At
<1>2. CASE Becomes(p, NextTeam(p))
  <2>1. Light(NextTeam(p))
    BY <1>1, AtTeam
  <2> QED
    BY <1>1, <1>2, <2>1, LightStep
<1>3. CASE \E a \in Answers : \E ids \in SUBSET proc[p].read :
             Becomes(p, [proc[p] EXCEPT !.pc = "store", !.names = ids, !.xi = {i \in ids : i[2] \in a.xi}])
  <2>1. PICK d : d = proc[p]
    OBVIOUS
  <2>2. PICK ids, xi : /\ ids \in SUBSET d.read /\ xi \in SUBSET ids
                       /\ Becomes(p, [d EXCEPT !.pc = "store", !.names = ids, !.xi = xi])
    BY <1>3, <2>1
  <2>3. d \in Doing /\ Remembers(d) /\ d.todo \in Seq(Teams) /\ d.todo # <<>> /\ d.pc = "ask"
    BY <1>1, <2>1, AtTeam
  <2>4. d.read \subseteq Key
    BY <2>3 DEF Remembers
  <2>5. PICK w : w = [d EXCEPT !.pc = "store", !.names = ids, !.xi = xi]
    OBVIOUS
  <2>6. w \in Doing
    BY <2>2, <2>3, <2>4, <2>5 DEF Doing, Pc
  <2>7. Remembers(w)
    <3>1. w.pc = "store" /\ w.todo = d.todo /\ w.read = d.read /\ w.names = ids /\ w.xi = xi
      BY <2>3, <2>5 DEF Doing
    <3> QED
      BY <2>2, <2>3, <3>1 DEF Remembers
  <2>8. Becomes(p, w)
    BY <2>2, <2>5
  <2> QED
    BY <1>1, <2>6, <2>7, <2>8, MemoryStep
<1> QED
  BY <1>2, <1>3 DEF EnrichAnswers

LEMMA FetchTeamsStep == ASSUME FeedIInv, NEW p \in Procs, FetchTeams(p) PROVE FeedIInv'
<1>1. PICK d, w : d = proc[p] /\ w = [d EXCEPT !.snap = rosters, !.pc = "team"]
  OBVIOUS
<1>2. Becomes(p, w) /\ Stay /\ d.pc = "fetch teams"
  BY <1>1 DEF FetchTeams, At
<1>3. d \in Doing /\ d.todo # <<>>
  BY <1>1, <1>2, AtTeam
<1>4. w \in Doing
  BY <1>1, <1>3 DEF Doing, Pc, FeedIInv, FeedTypeOK
<1>5. Remembers(w)
  <2>1. w.pc = "team" /\ w.todo = d.todo
    BY <1>1, <1>3 DEF Doing
  <2> QED
    BY <1>3, <2>1 DEF Remembers
<1> QED
  BY <1>2, <1>4, <1>5, MemoryStep

LEMMA FetchMatchesStep == ASSUME FeedIInv, NEW p \in Procs, FetchMatches(p) PROVE FeedIInv'
<1>1. PICK d, w : d = proc[p] /\ w = [d EXCEPT !.pc = "unlinked", !.known = linked]
  OBVIOUS
<1>2. Becomes(p, w) /\ Stay /\ d \in Doing
  BY <1>1 DEF FetchMatches, FeedIInv
<1>3. w \in Doing
  BY <1>1, <1>2 DEF Doing, Pc, FeedIInv, FeedTypeOK
<1>4. Remembers(w)
  <2>1. w.pc = "unlinked"
    BY <1>1, <1>2 DEF Doing
  <2> QED
    BY <2>1 DEF Remembers
<1> QED
  BY <1>2, <1>3, <1>4, MemoryStep

LEMMA FinishMatchesStep == ASSUME FeedIInv, NEW p \in Procs, FinishMatches(p) PROVE FeedIInv'
<1>1. PICK w : w = IF p = Worker THEN [Blank EXCEPT !.kind = "sync", !.pc = "scorers"] ELSE Ended(p)
  OBVIOUS
<1>2. /\ proc' = [proc EXCEPT ![p] = w] /\ groupSeen' \in BOOLEAN
      /\ UNCHANGED <<players, linked, matchExt, rosters, moves, crashes, runs, lineup, mixed>>
  <2>1. groupSeen' = (groupSeen \/ proc[p].known = Teams)
    BY DEF FinishMatches
  <2>2. groupSeen' \in BOOLEAN
    BY <2>1
  <2> QED
    BY <1>1, <2>2 DEF FinishMatches, Becomes
<1>3. Light([Blank EXCEPT !.kind = "sync", !.pc = "scorers"])
  <2>1. <<>> \in Seq(Teams) /\ [x \in People |-> Nowhere] \in [People -> Teams \cup {Nowhere}]
    BY EmptySeq
  <2> QED
    BY <2>1 DEF Light, Blank, Doing, Pc
<1>4. Light(w)
  BY <1>1, <1>3, EndedLight
<1>5. w \in Doing /\ Remembers(w)
  BY <1>4, LightRemembers DEF Light
<1> QED
  BY <1>2, <1>5, OnlyProcess DEF FeedIInv, FeedTypeOK

\* The run counts, or a process dies.
LEMMA EndStep ==
    ASSUME FeedIInv, NEW p \in Procs, (FinishRun /\ p = Worker) \/ FeedRequestFails(p) \/ Crash(p)
    PROVE  FeedIInv'
<1>1. PICK w : w = Ended(p)
  OBVIOUS
<1>2. w \in Doing /\ Remembers(w)
  BY <1>1, EndedLight, LightRemembers DEF Light
<1>3. /\ proc' = [proc EXCEPT ![p] = w]
      /\ UNCHANGED <<players, linked, matchExt, groupSeen, rosters, moves, lineup, mixed>>
  BY <1>1 DEF FinishRun, FeedRequestFails, Crash, Becomes
<1>4. TeamsEveryRuns \in Nat \ {0} /\ MaxTroubles \in Nat /\ runs \in 0..(TeamsEveryRuns - 1)
      /\ moves \in 0..MaxTroubles /\ crashes \in 0..MaxTroubles
  BY FeedSyncAssumption DEF FeedIInv, FeedTypeOK
<1>5. runs' \in 0..(TeamsEveryRuns - 1) /\ crashes' \in 0..MaxTroubles
  <2>1. CASE FinishRun
    <3>1. runs' = (runs + 1) % TeamsEveryRuns /\ crashes' = crashes
      BY <2>1 DEF FinishRun
    <3>2. runs + 1 \in Int
      BY <1>4
    <3> QED
      BY <1>4, <3>1, <3>2
  <2>2. CASE FeedRequestFails(p) \/ Crash(p)
    <3>1. crashes' = crashes + 1 /\ moves + crashes < MaxTroubles /\ runs' \in {runs, 0}
      BY <2>2 DEF FeedRequestFails, Crash
    <3> QED
      BY <1>4, <3>1
  <2> QED
    BY <2>1, <2>2
<1>6. {moves', crashes'} \subseteq 0..MaxTroubles
  BY <1>3, <1>4, <1>5
<1> QED
  BY <1>2, <1>3, <1>5, <1>6, OnlyProcess DEF FeedIInv, FeedTypeOK

LEMMA ChangeStep == ASSUME FeedIInv, FeedChanges PROVE FeedIInv'
<1>1. PICK d : d = proc[Worker] /\ d \in Doing /\ Remembers(d)
  BY DEF FeedIInv, Procs
<1>2. proc' = [proc EXCEPT ![Worker] = d]
  BY <1>1 DEF FeedChanges, FeedIInv
<1>3. MaxTroubles \in Nat /\ moves \in 0..MaxTroubles /\ crashes \in 0..MaxTroubles
  BY FeedSyncAssumption DEF FeedIInv, FeedTypeOK
<1>4. moves' = moves + 1 /\ moves + crashes < MaxTroubles /\ crashes' = crashes
  BY DEF FeedChanges
<1>5. {moves', crashes'} \subseteq 0..MaxTroubles
  BY <1>3, <1>4
<1>6. rosters' \in [People -> Teams \cup {Nowhere}]
  BY DEF FeedChanges, FeedIInv, FeedTypeOK
<1>7. Worker \in Procs
  BY DEF Procs
<1> QED
  BY <1>1, <1>2, <1>5, <1>6, <1>7, OnlyProcess DEF FeedChanges, FeedIInv, FeedTypeOK

LEMMA FeedStep == ASSUME FeedIInv, [FeedNext]_fvars PROVE FeedIInv'
<1>1. CASE StartRun
  BY <1>1, StartRunStep
<1>2. CASE FinishRun
  BY <1>2, EndStep DEF Procs
<1>3. CASE \E c \in Calls : StartCall(c)
  BY <1>3, CallStep
<1>4. ASSUME NEW p \in Procs, Step(p) PROVE FeedIInv'
  <2>1. CASE SquadStep(p)
    <3>1. CASE InsertRefused(p)
      BY <3>1, FailsStep DEF InsertRefused
    <3> QED
      BY <2>1, <3>1, UpdateStep, CrawlStep, LockStep, InsertStep DEF SquadStep
  <2>2. CASE LineupStep(p)
    <3>1. CASE StoreFails(p)
      BY <3>1, FailsStep DEF StoreFails
    <3> QED
      BY <2>2, <3>1, ReadStep, EnrichStep, StoreStep DEF LineupStep
  <2>3. CASE MatchStep(p)
    <3>1. CASE LinkRefused(p)
      BY <3>1, FailsStep DEF LinkRefused
    <3> QED
      BY <2>3, <3>1, FetchMatchesStep, PairStep, LinkStep, FinishMatchesStep DEF MatchStep
  <2> QED
    BY <1>4, <2>1, <2>2, <2>3, FetchTeamsStep DEF Step
<1>5. CASE \E p \in Procs : FeedRequestFails(p) \/ Crash(p)
  BY <1>5, EndStep
<1>6. CASE FeedChanges
  BY <1>6, ChangeStep
<1>7. CASE UNCHANGED fvars
  <2>1. PICK d : d = proc[Worker] /\ d \in Doing /\ Remembers(d)
    BY DEF FeedIInv, Procs
  <2>2. proc' = [proc EXCEPT ![Worker] = d]
    BY <1>7, <2>1 DEF fvars, FeedIInv
  <2> QED
    BY <1>7, <2>1, <2>2, OnlyProcess DEF fvars, Procs, FeedIInv, FeedTypeOK
<1> QED
  BY <1>1, <1>2, <1>3, <1>4, <1>5, <1>6, <1>7 DEF FeedNext

LEMMA FeedStart == FeedInit => FeedIInv
<1> SUFFICES ASSUME FeedInit PROVE FeedIInv
  OBVIOUS
<1>1. Rows \in Nat /\ MaxTroubles \in Nat /\ TeamsEveryRuns \in Nat \ {0}
  BY FeedSyncAssumption
<1>2. Light(Blank)
  <2>1. <<>> \in Seq(Teams) /\ [x \in People |-> Nowhere] \in [People -> Teams \cup {Nowhere}]
    BY EmptySeq
  <2> QED
    BY <2>1 DEF Light, Blank, Doing, Pc
<1>3. proc \in [Procs -> Doing] /\ \A p \in Procs : Remembers(proc[p])
  BY <1>2, LightRemembers DEF FeedInit, Light
<1>4. FeedTypeOK
  <2>1. \A p \in Procs : proc[p].pc \in Pc /\ proc[p].todo \in Seq(Teams)
    BY <1>3 DEF Doing
  <2>2. {moves, crashes} \subseteq 0..MaxTroubles /\ runs \in 0..(TeamsEveryRuns - 1)
    BY <1>1 DEF FeedInit
  <2>3. matchExt \in [1..Rows -> 0..Rows]
    BY <1>1 DEF FeedInit
  <2>4. DOMAIN proc = Procs
    BY <1>3
  <2> QED
    BY <2>1, <2>2, <2>3, <2>4 DEF FeedInit, FeedTypeOK
<1>5. OneBatch /\ BatchOfTeam /\ LineupIsWhole
  BY DEF FeedInit, OneBatch, BatchOfTeam, LineupIsWhole, Squad
<1>6. LinkedPrefix
  <2>1. \A m \in 1..Rows : matchExt[m] = IF m <= 0 THEN m ELSE 0
    BY <1>1 DEF FeedInit
  <2> QED
    BY <1>1, <2>1 DEF LinkedPrefix
<1> QED
  BY <1>3, <1>4, <1>5, <1>6 DEF FeedIInv

LEMMA FeedKept == FeedIInv => FeedInv
<1> SUFFICES ASSUME FeedIInv PROVE FeedInv
  OBVIOUS
<1>1. SquadFromOneWrite
  <2>1. SUFFICES ASSUME NEW t \in Teams, t \notin mixed
                 PROVE  Cardinality({r.batch : r \in Squad(t)}) <= 1
    BY DEF SquadFromOneWrite
  <2>2. CASE Squad(t) = {}
    <3>1. {r.batch : r \in Squad(t)} = {}
      BY <2>2
    <3> QED
      BY <3>1, FS_EmptySet
  <2>3. CASE Squad(t) # {}
    <3>1. PICK o \in Squad(t) : TRUE
      BY <2>3
    <3>2. \A r \in Squad(t) : r.batch = o.batch
      BY <2>1, <3>1 DEF FeedIInv, OneBatch, Squad
    <3>3. {r.batch : r \in Squad(t)} = {o.batch}
      BY <3>1, <3>2
    <3>4. Cardinality({o.batch}) = 1
      BY FS_Singleton
    <3> QED
      BY <3>3, <3>4
  <2> QED
    BY <2>2, <2>3
<1>2. LinkedInOrder
  BY DEF FeedIInv, LinkedPrefix, LinkedInOrder
<1> QED
  BY <1>1, <1>2 DEF FeedIInv, FeedInv

\* Whatever runs, calls, moves and crashes interleave: a squad is never a mixture of two writes,
\* a line-up is the latest one as a whole, and a match is linked to the feed's match in its place.
THEOREM FeedSound == FeedSpec => []FeedInv
<1>1. FeedIInv /\ [FeedNext]_fvars => FeedIInv'
  BY FeedStep
<1> QED
  BY <1>1, FeedStart, FeedKept, PTL DEF FeedSpec

-----------------------------------------------------------------------------
(* FdClient: one request at a time, and never two too close.                   *)

\* What is left in the chain is the end of what was asked for; the call just taken from it is
\* the one under way.
Taken == Len(order) - Len(promises)
ChainIsRest ==
  /\ Taken \in Nat
  /\ \A k \in 1..Len(promises) : promises[k] = order[Taken + k]
  /\ \A i, j \in 1..Len(order) : order[i] = order[j] => i = j
  /\ stage = "idle" => current = NoGet
  /\ stage # "idle" => Taken > 0 /\ current = order[Taken]

\* The calls taken before it are settled, those behind it wait without a request.
SettledBefore ==
  /\ \A i \in 1..Len(order) :
       /\ i > Taken => outcome[order[i]] = "waiting" /\ sent[order[i]] = 0
       /\ i <= Taken => outcome[order[i]] \in {"ok", "error"} \/ order[i] = current
       /\ outcome[order[i]] # "new"
  /\ \A g \in Gets : outcome[g] = "new" => sent[g] = 0

AttemptsCounted ==
  /\ RetriesBounded
  /\ stage = "sleeping" => sent[current] = attempt
  /\ stage \in {"fetching", "backoff"} => sent[current] = attempt + 1
  /\ stage = "backoff" => attempt < MaxRetries

\* A pause that is heeded is in force until the next request may leave.
PausesKept ==
  /\ stage = "sleeping" => wake >= last + Spacing
  /\ notice = "heeded" =>
       /\ stage = "idle" => quiet <= now \/ quiet <= last
       /\ stage = "sleeping" => wake >= quiet
       /\ stage = "fetching" => quiet <= now
       /\ stage = "backoff" => quiet <= wake

ClientIInv == ClientTypeOK /\ ChainIsRest /\ SettledBefore /\ AttemptsCounted /\ PausesKept

\* The sleep before a request ends Spacing after the last one, and after every pause.
LEMMA SleepSpaces ==
    ASSUME now \in Nat, last \in {Never} \cup Nat
    PROVE  /\ now + SleepFor \in Nat /\ now + SleepFor >= now /\ now + SleepFor >= last + Spacing
           /\ last \in Int
BY FdClientAssumption DEF SleepFor, Never

LEMMA GetStep == ASSUME ClientIInv, NEW g \in Gets, Get(g) PROVE ClientIInv'
<1> USE DEF ClientIInv
<1>1. /\ outcome[g] = "new" /\ outcome' = [outcome EXCEPT ![g] = "waiting"]
      /\ promises' = Append(promises, g) /\ order' = Append(order, g)
      /\ UNCHANGED <<now, last, current, stage, wake, attempt, sent, quiet, notice>>
      /\ outcome \in [Gets -> {"new", "waiting", "ok", "error"}]
      /\ promises \in Seq(Gets) /\ order \in Seq(Gets)
  BY DEF Get, ClientTypeOK
<1>2. /\ Len(promises') = Len(promises) + 1 /\ Len(order') = Len(order) + 1
      /\ Len(promises) \in Nat /\ Len(order) \in Nat
      /\ promises'[Len(promises) + 1] = g /\ order'[Len(order) + 1] = g
      /\ \A k \in 1..Len(promises) : promises'[k] = promises[k]
      /\ \A k \in 1..Len(order) : order'[k] = order[k] /\ order[k] \in Gets
      /\ promises' \in Seq(Gets) /\ order' \in Seq(Gets)
  BY <1>1, AppendProperties, LenProperties, ElementOfSeq
<1>3. Taken' = Taken /\ Taken \in Nat /\ Taken <= Len(order)
  BY <1>2 DEF Taken, ChainIsRest
<1>4. \A i \in 1..Len(order) : order[i] # g
  BY <1>1 DEF SettledBefore
<1>5. ClientTypeOK'
  BY <1>1, <1>2 DEF ClientTypeOK
<1>6. ChainIsRest'
  <2>1. \A k \in 1..Len(promises') : promises'[k] = order'[Taken + k]
    <3> TAKE k \in 1..Len(promises')
    <3>1. CASE k \in 1..Len(promises)
      <4>1. Taken + k \in 1..Len(order)
        BY <1>2, <1>3, <3>1 DEF Taken
      <4> QED
        BY <1>2, <3>1, <4>1 DEF ChainIsRest
    <3>2. CASE k = Len(promises) + 1
      <4>1. Taken + k = Len(order) + 1
        BY <1>2, <3>2 DEF Taken
      <4> QED
        BY <1>2, <3>2, <4>1
    <3> QED
      BY <1>2, <3>1, <3>2
  <2>2. \A i, j \in 1..Len(order') : order'[i] = order'[j] => i = j
    <3> TAKE i, j \in 1..Len(order')
    <3>1. (i \in 1..Len(order) \/ i = Len(order) + 1) /\ (j \in 1..Len(order) \/ j = Len(order) + 1)
      BY <1>2
    <3>2. CASE i \in 1..Len(order) /\ j \in 1..Len(order)
      <4>1. order'[i] = order[i] /\ order'[j] = order[j]
        BY <1>2, <3>2
      <4> QED
        BY <3>2, <4>1 DEF ChainIsRest
    <3>3. CASE i = Len(order) + 1 \/ j = Len(order) + 1
      <4>1. order'[Len(order) + 1] = g /\ \A k \in 1..Len(order) : order'[k] # g
        BY <1>2, <1>4
      <4> QED
        BY <3>1, <3>3, <4>1
    <3> QED
      BY <3>1, <3>2, <3>3
  <2>3. stage # "idle" => Taken > 0 /\ current = order'[Taken]
    BY <1>2, <1>3 DEF ChainIsRest
  <2> QED
    BY <1>1, <1>3, <2>1, <2>2, <2>3 DEF ChainIsRest
<1>7. SettledBefore'
  <2>1. /\ \A h \in Gets : h # g => outcome'[h] = outcome[h]
        /\ outcome'[g] = "waiting" /\ sent[g] = 0 /\ sent' = sent
    BY <1>1 DEF SettledBefore
  <2>2. ASSUME NEW i \in 1..Len(order')
        PROVE  /\ i > Taken => outcome'[order'[i]] = "waiting" /\ sent[order'[i]] = 0
               /\ i <= Taken => outcome'[order'[i]] \in {"ok", "error"} \/ order'[i] = current
               /\ outcome'[order'[i]] # "new"
    <3>1. CASE i \in 1..Len(order)
      <4>1. order'[i] = order[i] /\ order[i] \in Gets /\ order[i] # g
        BY <1>2, <1>4, <3>1
      <4> QED
        BY <2>1, <3>1, <4>1 DEF SettledBefore
    <3>2. CASE i = Len(order) + 1
      <4>1. order'[i] = g /\ ~(i <= Taken)
        BY <1>2, <1>3, <3>2
      <4> QED
        BY <2>1, <4>1
    <3> QED
      BY <1>2, <3>1, <3>2
  <2>3. \A h \in Gets : outcome'[h] = "new" => sent[h] = 0
    BY <2>1 DEF SettledBefore
  <2> QED
    BY <1>1, <1>3, <2>2, <2>3 DEF SettledBefore
<1>8. AttemptsCounted' /\ PausesKept'
  BY <1>1 DEF AttemptsCounted, RetriesBounded, PausesKept
<1> QED
  BY <1>5, <1>6, <1>7, <1>8

LEMMA StartStep == ASSUME ClientIInv, StartNext PROVE ClientIInv'
<1> USE DEF ClientIInv
<1>1. /\ stage = "idle" /\ promises # <<>> /\ current' = Head(promises) /\ promises' = Tail(promises)
      /\ attempt' = 0 /\ stage' = "sleeping" /\ wake' = now + SleepFor
      /\ UNCHANGED <<now, last, outcome, sent, order, quiet, notice>>
      /\ promises \in Seq(Gets) /\ order \in Seq(Gets)
      /\ now \in Nat /\ last \in {Never} \cup Nat /\ quiet \in Nat
  BY DEF StartNext, Sleep, ClientTypeOK
<1>2. /\ Len(promises') = Len(promises) - 1 /\ Len(promises) \in Nat /\ Len(promises) > 0
      /\ Len(order) \in Nat /\ current' = promises[1] /\ promises[1] \in Gets
      /\ \A k \in 1..Len(promises') : promises'[k] = promises[k + 1]
      /\ promises' \in Seq(Gets)
  BY <1>1, HeadTailProperties, LenProperties, EmptySeq, ElementOfSeq
<1>3. Taken' = Taken + 1 /\ Taken \in Nat /\ Taken + 1 <= Len(order)
  BY <1>1, <1>2 DEF Taken, ChainIsRest
<1>4. current' = order[Taken + 1] /\ current = NoGet
  BY <1>1, <1>2 DEF ChainIsRest
<1>5. ClientTypeOK'
  BY <1>1, <1>2, SleepSpaces, FdClientAssumption DEF ClientTypeOK
<1>6. ChainIsRest'
  <2>1. \A k \in 1..Len(promises') : promises'[k] = order[Taken + 1 + k]
    <3> TAKE k \in 1..Len(promises')
    <3>1. k + 1 \in 1..Len(promises) /\ promises'[k] = promises[k + 1]
      BY <1>2
    <3>2. promises[k + 1] = order[Taken + (k + 1)]
      BY <3>1 DEF ChainIsRest
    <3>3. Taken + (k + 1) = Taken + 1 + k
      BY <1>3, <3>1
    <3> QED
      BY <3>1, <3>2, <3>3
  <2> QED
    BY <1>1, <1>3, <1>4, <2>1 DEF ChainIsRest
<1>7. SettledBefore'
  <2>1. \A i \in 1..Len(order) : order[i] # NoGet
    BY <1>1, ElementOfSeq, FdClientAssumption
  <2>2. \A i \in 1..Len(order) : i <= Taken + 1 => i <= Taken \/ i = Taken + 1
    BY <1>3
  <2>3. \A i \in 1..Len(order) : i > Taken + 1 => i > Taken
    BY <1>3
  <2> QED
    BY <1>1, <1>3, <1>4, <2>1, <2>2, <2>3 DEF SettledBefore
<1>8. AttemptsCounted'
  <2>1. sent[current'] = 0
    BY <1>3, <1>4 DEF SettledBefore
  <2> QED
    BY <1>1, <2>1 DEF AttemptsCounted, RetriesBounded
<1>9. PausesKept'
  BY <1>1, SleepSpaces, FdClientAssumption DEF PausesKept
<1> QED
  BY <1>5, <1>6, <1>7, <1>8, <1>9

LEMMA SendStep == ASSUME ClientIInv, SendRequest PROVE ClientIInv'
<1> USE DEF ClientIInv
<1>1. /\ stage = "sleeping" /\ now >= wake /\ last' = now /\ stage' = "fetching"
      /\ sent' = [sent EXCEPT ![current] = @ + 1] /\ sent \in [Gets -> Nat]
      /\ UNCHANGED <<now, promises, current, wake, attempt, outcome, order, quiet, notice>>
      /\ promises \in Seq(Gets) /\ order \in Seq(Gets) /\ attempt \in 0..MaxRetries
      /\ now \in Nat /\ wake \in Nat /\ quiet \in Nat /\ MaxRetries \in Nat
  BY FdClientAssumption DEF SendRequest, ClientTypeOK
<1>2. /\ Taken' = Taken /\ Taken \in Nat /\ Taken > 0 /\ current = order[Taken]
      /\ Taken <= Len(order) /\ Len(order) \in Nat
  BY <1>1, LenProperties DEF Taken, ChainIsRest
<1>3. current \in Gets /\ Taken \in 1..Len(order)
  BY <1>1, <1>2, ElementOfSeq
<1>4. /\ sent' \in [Gets -> Nat] /\ sent'[current] = attempt + 1
      /\ \A g \in Gets : g # current => sent'[g] = sent[g]
  BY <1>1, <1>3 DEF AttemptsCounted
<1>5. ClientTypeOK'
  BY <1>1, <1>4 DEF ClientTypeOK
<1>6. ChainIsRest'
  BY <1>1, <1>2 DEF ChainIsRest
<1>7. SettledBefore'
  <2>1. \A i \in 1..Len(order) : i > Taken => order[i] # current /\ order[i] \in Gets
    BY <1>1, <1>2, <1>3, ElementOfSeq DEF ChainIsRest
  <2>2. outcome[current] # "new"
    BY <1>2, <1>3 DEF SettledBefore
  <2> QED
    BY <1>1, <1>2, <1>4, <2>1, <2>2 DEF SettledBefore
<1>8. AttemptsCounted'
  <2>1. \A g \in Gets : sent'[g] <= 1 + MaxRetries
    BY <1>1, <1>4 DEF AttemptsCounted, RetriesBounded
  <2> QED
    BY <1>1, <1>4, <2>1 DEF AttemptsCounted, RetriesBounded
<1>9. PausesKept'
  BY <1>1 DEF PausesKept
<1> QED
  BY <1>5, <1>6, <1>7, <1>8, <1>9

\* The answer settles the call: an ok answer, a pause or not, or an error.
Settles ==
  \/ GetFails \/ (\E s \in RetryAfters \cup {Window} : RefusedAsking(s))
  \/ \E e \in BOOLEAN, result \in {"ok", "error"} : Succeed(e, result)

LEMMA AnswerStep ==
    ASSUME ClientIInv, Settles
    PROVE  ClientIInv'
<1> USE DEF ClientIInv
<1>1. /\ stage = "fetching" /\ stage' = "idle" /\ current' = NoGet
      /\ UNCHANGED <<now, promises, wake, attempt, sent, order>>
      /\ outcome \in [Gets -> {"new", "waiting", "ok", "error"}]
      /\ promises \in Seq(Gets) /\ order \in Seq(Gets)
      /\ now \in Nat /\ quiet \in Nat /\ last \in {Never} \cup Nat /\ Window \in Nat
      /\ notice \in {"heeded", "lost"} /\ RetryAfters \subseteq Nat
  BY FdClientAssumption DEF Settles, GetFails, RefusedAsking, Succeed, SettleGet, ClientTypeOK
<1>2. PICK verdict \in {"ok", "error"} : outcome' = [outcome EXCEPT ![current] = verdict]
  BY DEF Settles, GetFails, RefusedAsking, Succeed, SettleGet
<1>3. \/ UNCHANGED <<last, quiet, notice>>
      \/ last' = now + Window /\ quiet' = now + Window /\ notice' = "heeded"
      \/ last' = last /\ quiet' \in Nat /\ notice' = "lost"
  <2>1. CASE GetFails \/ (\E e \in BOOLEAN, result \in {"ok", "error"} : Succeed(e, result))
    BY <2>1 DEF GetFails, Succeed, Asked
  <2>2. ASSUME NEW s \in RetryAfters \cup {Window}, RefusedAsking(s)
        PROVE  last' = last /\ quiet' \in Nat /\ notice' = "lost"
    BY <1>1, <2>2 DEF RefusedAsking, Asked
  <2> QED
    BY <2>1, <2>2 DEF Settles
<1>4. /\ Taken' = Taken /\ Taken \in Nat /\ Taken > 0 /\ current = order[Taken]
      /\ Taken <= Len(order) /\ Len(order) \in Nat
  BY <1>1, LenProperties DEF Taken, ChainIsRest
<1>5. current \in Gets /\ Taken \in 1..Len(order)
  BY <1>1, <1>4, ElementOfSeq
<1>6. ClientTypeOK'
  BY <1>1, <1>2, <1>3, <1>5 DEF ClientTypeOK
<1>7. ChainIsRest'
  BY <1>1, <1>4 DEF ChainIsRest
<1>8. SettledBefore'
  <2>1. \A i \in 1..Len(order) : i > Taken => order[i] # current
    BY <1>1, <1>4, <1>5 DEF ChainIsRest
  <2>2. \A g \in Gets : outcome'[g] = IF g = current THEN verdict ELSE outcome[g]
    BY <1>1, <1>2, <1>5
  <2>3. \A i \in 1..Len(order) : order[i] \in Gets
    BY <1>1, ElementOfSeq
  <2> QED
    BY <1>1, <1>4, <2>1, <2>2, <2>3 DEF SettledBefore
<1>9. AttemptsCounted'
  BY <1>1 DEF AttemptsCounted, RetriesBounded
<1>10. PausesKept'
  BY <1>1, <1>3 DEF PausesKept
<1> QED
  BY <1>6, <1>7, <1>8, <1>9, <1>10

\* 429, and its retry.
LEMMA RetryStep ==
    ASSUME ClientIInv, Retry \/ (\E s \in RetryAfters : TooMany(s))
    PROVE  ClientIInv'
<1> USE DEF ClientIInv
<1>1. /\ UNCHANGED <<now, last, promises, current, outcome, sent, order>>
      /\ now \in Nat /\ quiet \in Nat /\ wake \in Nat /\ last \in {Never} \cup Nat
      /\ attempt \in 0..MaxRetries /\ MaxRetries \in Nat /\ notice \in {"heeded", "lost"}
  BY FdClientAssumption DEF Retry, TooMany, Sleep, ClientTypeOK
<1>2. Taken' = Taken
  BY <1>1 DEF Taken
<1>3. CASE Retry
  <2>1. /\ stage = "backoff" /\ now >= wake /\ attempt' = attempt + 1 /\ attempt < MaxRetries
        /\ stage' = "sleeping" /\ wake' = now + SleepFor /\ quiet' = quiet /\ notice' = notice
    BY <1>3 DEF Retry, Sleep, AttemptsCounted
  <2>2. ClientTypeOK'
    BY <1>1, <2>1, SleepSpaces DEF ClientTypeOK
  <2>3. ChainIsRest' /\ SettledBefore'
    BY <1>1, <1>2, <2>1 DEF ChainIsRest, SettledBefore
  <2>4. AttemptsCounted'
    BY <1>1, <2>1 DEF AttemptsCounted, RetriesBounded
  <2>5. PausesKept'
    BY <1>1, <2>1, SleepSpaces, FdClientAssumption DEF PausesKept
  <2> QED
    BY <2>2, <2>3, <2>4, <2>5
<1>4. ASSUME NEW s \in RetryAfters, TooMany(s) PROVE ClientIInv'
  <2>1. /\ stage = "fetching" /\ attempt' = attempt /\ attempt < MaxRetries /\ stage' = "backoff"
        /\ wake' = now + s /\ quiet' = now + s /\ notice' = "heeded" /\ s \in Nat
    BY <1>4, FdClientAssumption DEF TooMany, Asked
  <2>2. ClientTypeOK'
    BY <1>1, <2>1 DEF ClientTypeOK
  <2>3. ChainIsRest' /\ SettledBefore'
    BY <1>1, <1>2, <2>1 DEF ChainIsRest, SettledBefore
  <2>4. AttemptsCounted'
    BY <1>1, <2>1 DEF AttemptsCounted, RetriesBounded
  <2>5. PausesKept'
    BY <1>1, <2>1 DEF PausesKept
  <2> QED
    BY <2>2, <2>3, <2>4, <2>5
<1> QED
  BY <1>3, <1>4

LEMMA ClientInductive == ClientIInv /\ [ClientNext]_cvars => ClientIInv'
<1> SUFFICES ASSUME ClientIInv, [ClientNext]_cvars PROVE ClientIInv'
  OBVIOUS
<1>1. ASSUME NEW g \in Gets, Get(g) PROVE ClientIInv'
  BY <1>1, GetStep
<1>2. ASSUME StartNext PROVE ClientIInv'
  BY <1>2, StartStep
<1>3. ASSUME SendRequest PROVE ClientIInv'
  BY <1>3, SendStep
<1>4. ASSUME Settles PROVE ClientIInv'
  BY <1>4, AnswerStep
<1>5. ASSUME Retry \/ (\E s \in RetryAfters : TooMany(s)) PROVE ClientIInv'
  BY <1>5, RetryStep
<1>6. ASSUME ClientTick \/ UNCHANGED cvars PROVE ClientIInv'
  <2>1. /\ UNCHANGED <<last, promises, current, stage, wake, attempt, outcome, sent, order, quiet, notice>>
        /\ now \in Nat /\ now' \in Nat /\ now' >= now /\ quiet \in Nat
    BY <1>6 DEF ClientTick, cvars, ClientIInv, ClientTypeOK
  <2>2. Taken' = Taken
    BY <2>1 DEF Taken
  <2>3. ClientTypeOK' /\ ChainIsRest' /\ SettledBefore' /\ AttemptsCounted'
    BY <2>1, <2>2 DEF ClientIInv, ClientTypeOK, ChainIsRest, SettledBefore, AttemptsCounted, RetriesBounded
  <2>4. PausesKept'
    BY <2>1 DEF ClientIInv, PausesKept
  <2> QED
    BY <2>3, <2>4 DEF ClientIInv
<1> QED
  BY <1>1, <1>2, <1>3, <1>4, <1>5, <1>6 DEF ClientNext, Progress, Answer, Settles

LEMMA ClientBegins == ClientInit => ClientIInv
<1> SUFFICES ASSUME ClientInit PROVE ClientIInv
  OBVIOUS
<1>1. ClientTypeOK
  BY FdClientAssumption DEF ClientInit, ClientTypeOK
<1>2. Len(order) = 0 /\ Len(promises) = 0
  BY DEF ClientInit
<1>3. ChainIsRest /\ SettledBefore
  BY <1>2 DEF ClientInit, ChainIsRest, SettledBefore, Taken
<1>4. AttemptsCounted /\ PausesKept
  BY FdClientAssumption DEF ClientInit, AttemptsCounted, RetriesBounded, PausesKept
<1> QED
  BY <1>1, <1>3, <1>4 DEF ClientIInv

(* ClientInv, for any number of calls, spacings, pauses, latencies and late timers: the *)
(* client's promise chain (football-data.ts, FdClient.get) serves in order, and a call  *)
(* costs at most 1 + maxRetries requests.                                               *)
THEOREM ClientSound == ClientSpec => []ClientInv
<1>1. ClientIInv => ClientInv
  <2> SUFFICES ASSUME ClientIInv PROVE ServedInOrder
    BY DEF ClientIInv, ClientInv, AttemptsCounted
  <2> SUFFICES ASSUME NEW i \in 1..Len(order), NEW j \in 1..Len(order), i < j, sent[order[j]] > 0
               PROVE  outcome[order[i]] \in {"ok", "error"}
    BY DEF ServedInOrder
  <2>1. Taken \in Nat /\ j <= Taken /\ i < Taken /\ Taken \in 1..Len(order)
    <3>1. Taken \in Nat /\ Taken <= Len(order) /\ Len(order) \in Nat
      BY LenProperties DEF ClientIInv, ClientTypeOK, ChainIsRest, Taken
    <3>2. ~ (j > Taken)
      BY DEF ClientIInv, SettledBefore
    <3> QED
      BY <3>1, <3>2
  <2>2. order[i] # current
    <3>1. order[i] \in Gets /\ order[i] # NoGet
      BY ElementOfSeq, FdClientAssumption DEF ClientIInv, ClientTypeOK
    <3> QED
      BY <2>1, <3>1 DEF ClientIInv, ChainIsRest
  <2> QED
    BY <2>1, <2>2 DEF ClientIInv, SettledBefore
<1> QED
  BY <1>1, ClientBegins, ClientInductive, PTL DEF ClientSpec

(* No request leaves less than minSpacingMs after the one before, nor during a pause the client *)
(* heeded, however late timers fire and whatever the answers are.                               *)
THEOREM RequestsApart == ClientSpec => RequestsSpaced
<1> DEFINE Apart == now >= last + Spacing /\ (notice = "heeded" => now >= quiet)
<1>1. ClientIInv /\ [ClientNext]_cvars => [SendRequest => Apart]_cvars
  <2> SUFFICES ASSUME ClientIInv, SendRequest PROVE Apart
    OBVIOUS
  <2>1. now \in Nat /\ wake \in Nat /\ quiet \in Nat /\ last + Spacing \in Int
    BY SleepSpaces, FdClientAssumption DEF ClientIInv, ClientTypeOK
  <2>2. now >= wake /\ wake >= last + Spacing /\ (notice = "heeded" => wake >= quiet)
    BY DEF SendRequest, ClientIInv, PausesKept
  <2> QED
    BY <2>1, <2>2
<1> QED
  BY <1>1, ClientBegins, ClientInductive, PTL DEF ClientSpec, RequestsSpaced
=============================================================================
