------------------------------ MODULE FeedSync ------------------------------
(* Squads, line-ups and the links of matches to football-data.org: the sync   *)
(* worker's loop (fd-sync.worker.ts), the administrator's syncs of everything *)
(* or of one team, the language model's line-ups (squad.ts: a crawl replaces  *)
(* a squad, an enrichment annotates it), and their overlaps.                  *)
(* A squad is replaced in a transaction whose DELETE locks the rows it saw    *)
(* when it started and, having waited for another transaction, does not see   *)
(* the rows that one inserted (READ COMMITTED).  Rows written together share  *)
(* a batch; a row's id is its batch and its person.                           *)
EXTENDS Integers, Sequences, FiniteSets

CONSTANTS Calls,      \* requests of administrators, and line-up jobs
          Worker,     \* the sync worker
          TeamOrder,  \* the teams, in the order of the feed
          People,     \* players: a person has one football-data.org id and one name
          Answers,    \* line-ups of the language model: the names, and the starters among them
          Rows,       \* the knockout matches of a round are 1..Rows, in order of kick-off
          TeamsEveryRuns, MaxTroubles, Nowhere

Teams == {TeamOrder[i] : i \in 1..Len(TeamOrder)}
Procs == Calls \cup {Worker}
\* Bound: the batches told apart at a time; the instances never use them all.
Batches == 1..(2 * Cardinality(Procs) + 2 * Cardinality(Teams))

ASSUME FeedSyncAssumption ==
  /\ Worker \notin Calls /\ Nowhere \notin Teams
  /\ TeamOrder \in Seq(Teams) /\ Len(TeamOrder) > 0
  /\ \A a \in Answers : a.xi \subseteq a.names /\ a.names \subseteq People
  /\ Rows \in Nat /\ TeamsEveryRuns \in Nat \ {0} /\ MaxTroubles \in Nat

VARIABLES players,   \* the Player rows
          linked,    \* the teams with an externalId
          matchExt,  \* per knockout match its externalId: 0, or the ordinal of the feed's match
          groupSeen, \* the group match was found in the feed and has its externalId
          rosters,   \* per person the team that lists them
          moves, crashes,
          runs,      \* the worker's this.runs, modulo teamsEveryRuns
          proc,      \* per process what it does
          lineup,    \* per team whom the latest write made starters (history)
          mixed      \* teams whose latest replacement overlapped another one (history)
fvars == <<players, linked, matchExt, groupSeen, rosters, moves, crashes, runs, proc, lineup, mixed>>

Player == [batch : Batches, team : Teams, who : People, ext : BOOLEAN, starter : BOOLEAN]
Pc == {"idle", "fetch teams", "team", "read", "ask", "lock", "insert", "store",
       "fetch matches", "unlinked", "link", "scorers", "done"}
Blank == [kind |-> "none", pc |-> "idle", todo |-> <<>>, snap |-> [w \in People |-> Nowhere],
          read |-> {}, names |-> {}, xi |-> {}, known |-> {}, raced |-> FALSE]

FeedTypeOK ==
  /\ players \subseteq Player /\ linked \subseteq Teams
  /\ matchExt \in [1..Rows -> 0..Rows] /\ groupSeen \in BOOLEAN
  /\ rosters \in [People -> Teams \cup {Nowhere}]
  /\ {moves, crashes} \subseteq 0..MaxTroubles /\ runs \in 0..(TeamsEveryRuns - 1)
  /\ DOMAIN proc = Procs
  /\ \A p \in Procs : proc[p].pc \in Pc /\ proc[p].todo \in Seq(Teams)
  /\ lineup \in [Teams -> SUBSET People] /\ mixed \subseteq Teams

FeedInit ==
  /\ players = {} /\ linked = {} /\ matchExt = [m \in 1..Rows |-> 0] /\ groupSeen = FALSE
  /\ rosters \in [People -> Teams \cup {Nowhere}]
  /\ moves = 0 /\ crashes = 0 /\ runs = 0
  /\ proc = [p \in Procs |-> Blank]
  /\ lineup = [t \in Teams |-> {}] /\ mixed = {}

-----------------------------------------------------------------------------
Id(r) == <<r.batch, r.who>>
Squad(t) == {r \in players : r.team = t}
Existing(ids) == {r \in players : Id(r) \in ids}
Team(p) == Head(proc[p].todo)
At(p, pc) == proc[p].pc = pc

\* A batch of ids no row has and no process remembers: ids are only ever compared.
Used == {r.batch : r \in players} \cup UNION {{i[1] : i \in proc[p].read} : p \in Procs}
FreshBatch == CHOOSE b \in Batches : b \notin Used

FdSquad(t) == {w \in People : rosters[w] = t}

LockedByOthers(p) == UNION {proc[q].read : q \in {q \in Procs \ {p} : At(q, "insert")}}

Stay == UNCHANGED <<players, linked, matchExt, groupSeen, rosters, moves, crashes, runs, lineup, mixed>>
Becomes(p, state) == proc' = [proc EXCEPT ![p] = state]
EndedForGood(p) == [Blank EXCEPT !.pc = "done"]
Ended(p) == IF p = Worker THEN Blank ELSE [Blank EXCEPT !.pc = "done"]

\* The loop over the teams goes on; after the last one the worker's run goes on to the matches.
TurnOf(kind) == CASE kind = "crawl" -> "ask" [] kind = "enrich" -> "read" [] OTHER -> "team"
NextTeam(p) ==
  IF Len(proc[p].todo) > 1
  THEN [Blank EXCEPT !.kind = proc[p].kind, !.snap = proc[p].snap, !.todo = Tail(proc[p].todo),
                     !.pc = TurnOf(proc[p].kind)]
  ELSE IF proc[p].kind = "sync" THEN [Blank EXCEPT !.kind = "sync", !.pc = "fetch matches"]
  ELSE Ended(p)

\* An exception leaves the loop: the later teams, and the matches, are not reached.
Fails(p) == Becomes(p, Ended(p)) /\ Stay

-----------------------------------------------------------------------------
\* FdSyncWorker.runOnce: the teams every teamsEveryRuns runs, the matches every time.
StartRun ==
  /\ At(Worker, "idle")
  /\ Becomes(Worker, IF runs = 0 THEN [Blank EXCEPT !.kind = "sync", !.pc = "fetch teams", !.todo = TeamOrder]
                                 ELSE [Blank EXCEPT !.kind = "sync", !.pc = "fetch matches"])
  /\ Stay

\* The administrator's routes and the line-up jobs.
Begin(c, kind, pc, todo) ==
  /\ At(c, "idle")
  /\ Becomes(c, [Blank EXCEPT !.kind = kind, !.pc = pc, !.todo = todo])
  /\ Stay
StartCall(c) ==
  \/ Begin(c, "teams", "fetch teams", TeamOrder)
  \/ Begin(c, "matches", "fetch matches", <<>>)
  \/ \E t \in Teams : Begin(c, "teams", "fetch teams", <<t>>)
  \/ \E todo \in {TeamOrder} \cup {<<t>> : t \in Teams} :
       Begin(c, "crawl", "ask", todo) \/ Begin(c, "enrich", "read", todo)

\* One request returns every team with its squad.
FetchTeams(p) ==
  /\ At(p, "fetch teams")
  /\ Becomes(p, [proc[p] EXCEPT !.snap = rosters, !.pc = "team"]) /\ Stay

\* deleteMany begins: the rows it will delete are those committed now.
Replacing(p, names, xi) ==
  [proc[p] EXCEPT !.pc = "lock", !.names = names, !.xi = xi, !.read = {Id(r) : r \in Squad(Team(p))}]

\* The team's row gets its externalId; an empty squad replaces nothing.
UpdateTeam(p) ==
  /\ At(p, "team")
  /\ linked' = linked \cup {Team(p)}
  /\ LET names == {w \in People : proc[p].snap[w] = Team(p)}
     IN  Becomes(p, IF names = {} THEN NextTeam(p) ELSE Replacing(p, names, {}))
  /\ UNCHANGED <<players, matchExt, groupSeen, rosters, moves, crashes, runs, lineup, mixed>>

\* The model answers a crawl with a squad and its starters, or with nothing usable.
CrawlAnswers(p) ==
  /\ At(p, "ask") /\ proc[p].kind = "crawl"
  /\ \E a \in Answers :
       Becomes(p, IF a.names = {} THEN NextTeam(p) ELSE Replacing(p, a.names, a.xi))
  /\ Stay

\* The DELETE waits for the transactions that hold one of them.
LockRows(p) ==
  /\ At(p, "lock") /\ proc[p].read \cap LockedByOthers(p) = {}
  /\ Becomes(p, [proc[p] EXCEPT !.pc = "insert", !.read = {Id(r) : r \in Existing(@)}]) /\ Stay

FromFeed(p) == proc[p].kind # "crawl"
KeepAll(p) == players
Kept(p) == players \ Existing(proc[p].read)
\* Player.externalId is unique.
ExtTaken(p) == FromFeed(p) /\ \E r \in Kept(p) : r.ext /\ r.who \in proc[p].names

InsertSquad(p) ==
  /\ At(p, "insert") /\ ~ExtTaken(p) /\ Batches \ Used # {}
  /\ LET t == Team(p)  b == FreshBatch
     IN  /\ players' = Kept(p) \cup {[batch |-> b, team |-> t, who |-> w, ext |-> FromFeed(p),
                                      starter |-> w \in proc[p].xi] : w \in proc[p].names}
         /\ lineup' = [lineup EXCEPT ![t] = proc[p].xi]
         /\ mixed' = IF proc[p].raced THEN mixed \cup {t} ELSE mixed \ {t}
         /\ proc' = [q \in Procs |->
              IF q = p THEN NextTeam(p)
              ELSE IF proc[q].pc \in {"lock", "insert"} /\ Team(q) = t THEN [proc[q] EXCEPT !.raced = TRUE]
              ELSE proc[q]]
  /\ UNCHANGED <<linked, matchExt, groupSeen, rosters, moves, crashes, runs>>

\* The unique key refuses a player who still has a row elsewhere: the squad stays as it was.
InsertRefused(p) == At(p, "insert") /\ ExtTaken(p) /\ Fails(p)

\* enrichAndStoreLineup reads the roster; an empty one costs no question.
ReadRoster(p) ==
  /\ At(p, "read")
  /\ Becomes(p, IF Squad(Team(p)) = {} THEN NextTeam(p)
                ELSE [proc[p] EXCEPT !.pc = "ask", !.read = {Id(r) : r \in Squad(Team(p))}])
  /\ Stay

\* applyLineupAssignments: each name of the answer is matched to one row of the roster that bears
\* it; a name nobody bears is dropped.  An unusable answer leaves the team alone.
EnrichAnswers(p) ==
  /\ At(p, "ask") /\ proc[p].kind = "enrich"
  /\ \E a \in Answers :
       \/ a.names = {} /\ Becomes(p, NextTeam(p))
       \/ /\ a.names # {}
          /\ \E ids \in SUBSET proc[p].read :
               /\ \A i, j \in ids : i[2] = j[2] => i = j
               /\ {i[2] : i \in ids} = {i[2] : i \in proc[p].read} \cap a.names
               /\ Becomes(p, [proc[p] EXCEPT !.pc = "store", !.names = ids,
                                             !.xi = {i \in ids : i[2] \in a.xi}])
  /\ Stay

UpdateThoseLeft(p) == TRUE
Matched(p) == proc[p].names \subseteq {Id(r) : r \in players}
NotLocked(p) == {Id(r) : r \in Squad(Team(p))} \cap LockedByOthers(p) = {}

\* The transaction resets the starters of the team and applies the answer row by row.
StoreLineup(p) ==
  /\ At(p, "store") /\ NotLocked(p) /\ Matched(p)
  /\ LET t == Team(p)
     IN  /\ players' = (players \ Squad(t)) \cup {[r EXCEPT !.starter = Id(r) \in proc[p].xi] : r \in Squad(t)}
         /\ lineup' = [lineup EXCEPT ![t] = {i[2] : i \in proc[p].xi}]
  /\ Becomes(p, NextTeam(p))
  /\ UNCHANGED <<linked, matchExt, groupSeen, rosters, moves, crashes, runs, mixed>>

\* A row of the answer is gone: the update throws, and nothing is changed.
StoreFails(p) == At(p, "store") /\ NotLocked(p) /\ ~Matched(p) /\ Fails(p)

-----------------------------------------------------------------------------
FetchUnknown(p) ==
  /\ At(p, "fetch matches")
  /\ Becomes(p, [proc[p] EXCEPT !.pc = "unlinked", !.known = {}]) /\ Stay
\* syncMatches: one request returns every match; then the teams with an externalId are read.
FetchMatches(p) ==
  /\ At(p, "fetch matches")
  /\ Becomes(p, [proc[p] EXCEPT !.pc = "unlinked", !.known = linked]) /\ Stay

\* The knockout rows without an externalId, paired in order with the feed's matches of the round.
PairUnlinked(p) ==
  /\ At(p, "unlinked")
  /\ LET open == {m \in 1..Rows : matchExt[m] = 0}
     IN  Becomes(p, [proc[p] EXCEPT !.pc = "link",
                       !.read = {<<m, Cardinality({o \in open : o <= m})>> : m \in open}])
  /\ Stay

\* One update per pair, in order, outside a transaction; Match.externalId is unique.
NextPair(p) == CHOOSE x \in proc[p].read : \A y \in proc[p].read : x[2] <= y[2]
NotUnique(p) == TRUE
Linkable(p) == \A m \in 1..Rows \ {NextPair(p)[1]} : matchExt[m] # NextPair(p)[2]
LinkRow(p) ==
  /\ At(p, "link") /\ proc[p].read # {} /\ Linkable(p)
  /\ matchExt' = [matchExt EXCEPT ![NextPair(p)[1]] = NextPair(p)[2]]
  /\ Becomes(p, [proc[p] EXCEPT !.read = @ \ {NextPair(p)}])
  /\ UNCHANGED <<players, linked, groupSeen, rosters, moves, crashes, runs, lineup, mixed>>
LinkRefused(p) == At(p, "link") /\ proc[p].read # {} /\ ~Linkable(p) /\ Fails(p)

\* The group match is found by its two teams.
FinishMatches(p) ==
  /\ At(p, "link") /\ proc[p].read = {}
  /\ groupSeen' = (groupSeen \/ proc[p].known = Teams)
  /\ Becomes(p, IF p = Worker THEN [Blank EXCEPT !.kind = "sync", !.pc = "scorers"] ELSE Ended(p))
  /\ UNCHANGED <<players, linked, matchExt, rosters, moves, crashes, runs, lineup, mixed>>

\* The table of scorers is replaced as a whole (it is not modelled), and the run counts.
FinishRun ==
  /\ At(Worker, "scorers") /\ runs' = (runs + 1) % TeamsEveryRuns /\ Becomes(Worker, Ended(Worker))
  /\ UNCHANGED <<players, linked, matchExt, groupSeen, rosters, moves, crashes, lineup, mixed>>

-----------------------------------------------------------------------------
\* A request to the feed fails, or a process dies at an await: its transaction rolls back.
\* The worker's counter of runs is in memory.
FeedRequestFails(p) ==
  /\ proc[p].pc \in {"fetch teams", "fetch matches", "scorers"} /\ moves + crashes < MaxTroubles
  /\ crashes' = crashes + 1 /\ Becomes(p, Ended(p))
  /\ UNCHANGED <<players, linked, matchExt, groupSeen, rosters, moves, runs, lineup, mixed>>
Crash(p) ==
  /\ ~At(p, "idle") /\ ~At(p, "done") /\ moves + crashes < MaxTroubles
  /\ crashes' = crashes + 1 /\ Becomes(p, Ended(p))
  /\ runs' = IF p = Worker THEN 0 ELSE runs
  /\ UNCHANGED <<players, linked, matchExt, groupSeen, rosters, moves, lineup, mixed>>

\* The feed lists a person with another team, or no longer.
FeedChanges ==
  /\ moves + crashes < MaxTroubles /\ moves' = moves + 1
  /\ \E w \in People, t \in Teams \cup {Nowhere} : rosters' = [rosters EXCEPT ![w] = t]
  /\ UNCHANGED <<players, linked, matchExt, groupSeen, crashes, runs, proc, lineup, mixed>>

SquadStep(p) == UpdateTeam(p) \/ CrawlAnswers(p) \/ LockRows(p)
                \/ InsertSquad(p) \/ InsertRefused(p)
LineupStep(p) == ReadRoster(p) \/ EnrichAnswers(p) \/ StoreLineup(p) \/ StoreFails(p)
MatchStep(p) == FetchMatches(p) \/ PairUnlinked(p) \/ LinkRow(p) \/ LinkRefused(p) \/ FinishMatches(p)
Step(p) == FetchTeams(p) \/ SquadStep(p) \/ LineupStep(p) \/ MatchStep(p)

FeedNext ==
  \/ StartRun \/ FinishRun
  \/ \E c \in Calls : StartCall(c)
  \/ \E p \in Procs : Step(p) \/ FeedRequestFails(p) \/ Crash(p)
  \/ FeedChanges

\* The worker's timer fires again after every run, and what was begun goes on.
FeedFairness == WF_fvars(StartRun) /\ WF_fvars(FinishRun) /\ \A p \in Procs : WF_fvars(Step(p))

-----------------------------------------------------------------------------
FeedSpec == FeedInit /\ [][FeedNext]_fvars /\ FeedFairness

(* A squad is never a mixture of two writes, of the feed's players and the model's say, unless *)
(* two replacements of it overlapped; the next replacement that overlaps none repairs it.       *)
SquadFromOneWrite == \A t \in Teams \ mixed : Cardinality({r.batch : r \in Squad(t)}) <= 1

(* The starters of a team are exactly those of the latest write of its line-up: an answer that  *)
(* names players of a roster replaced meanwhile changes nothing, not even in part.              *)
LineupIsWhole == \A t \in Teams \ mixed : {r.who : r \in {r \in Squad(t) : r.starter}} = lineup[t]

(* A knockout match is only ever linked to the feed's match of its own place in the round, also *)
(* when runs overlap or one died between two links.                                             *)
LinkedInOrder == \A m \in 1..Rows : matchExt[m] \in {0, m}

\* Another team holds a row the feed now gives elsewhere, and the sync never gets to that row:
\* that team comes later in the feed, or its squad there is empty.
Place(t) == CHOOSE i \in 1..Len(TeamOrder) : TeamOrder[i] = t
Blocked ==
  \E r \in players : /\ r.ext /\ rosters[r.who] \notin {r.team, Nowhere}
                     /\ Place(rosters[r.who]) < Place(r.team) \/ FdSquad(r.team) = {}
HalfLinked ==
  \E m \in 1..Rows : matchExt[m] = 0 /\ \E n \in 1..Rows : matchExt[n] # 0
InSync ==
  /\ linked = Teams
  /\ \A t \in Teams : FdSquad(t) # {} =>
       /\ {r.who : r \in Squad(t)} = FdSquad(t)
       /\ \A r \in Squad(t) : r.ext
AllLinked == groupSeen /\ \A m \in 1..Rows : matchExt[m] = m

(* The worker keeps bringing the squads back to the feed's, after every change of the feed, every *)
(* line-up and every crash, unless a player's move leaves the unique key in its way for good.     *)
SquadsCatchUp == []<>InSync \/ <>[]Blocked

(* In the end every match is linked, unless the squads block every run before it reaches the      *)
(* matches, or a process died between two links: the next pairing starts at the feed's first      *)
(* match again, which is taken.                                                                    *)
MatchesCatchUp == <>[]AllLinked \/ <>[]Blocked \/ (<>(crashes > 0) /\ <>[]HalfLinked)

(* The rows the syncs leave: whole squads and line-ups, and links in order.                     *)
FeedInv == FeedTypeOK /\ SquadFromOneWrite /\ LineupIsWhole /\ LinkedInOrder

(* The syncs bring squads and links up to date again.                                           *)
FeedCatchesUp == SquadsCatchUp /\ MatchesCatchUp
=============================================================================
