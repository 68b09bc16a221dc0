-------------------------------- MODULE News --------------------------------
(* The news desk: the administrator's generation of drafts and his decisions  *)
(* on them (the admin/news routes), and the worker's runs, which publish what *)
(* is due and fill in missing Vietnamese translations (packages/pipeline      *)
(* news.ts, news.worker.ts), with a language model that fails, answers in     *)
(* part, and gets well again.                                                 *)
(* A draft and its translation read nothing from the database, so storing one *)
(* source is one step.  No article is ever deleted; a later id is newer.      *)
EXTENDS Integers, Sequences, FiniteSets

CONSTANTS Requests,   \* generation requests of administrators
          Sources,    \* the crawled headlines, in order
          Tempers,    \* what the model makes of each: functions into Temper
          Limit,      \* articles translated per run
          LastDay, MaxDecisions

Temper == {"good", "garbled", "throws"}
Titles == {Sources[i] : i \in 1..Len(Sources)}
Full == {"title", "body"}   \* titleVi and bodyVi
NoDate == 0                  \* publishedAt = null, and a decision that does not publish

ASSUME NewsAssumption ==
  \* A headline is named by its item, whatever it says: the items are distinct.
  /\ Sources \in Seq(Titles) /\ Len(Sources) > 0
  /\ \A i, j \in 1..Len(Sources) : Sources[i] = Sources[j] => i = j
  /\ Tempers \subseteq [Titles -> Temper]
  /\ {Limit, LastDay} \subseteq Nat \ {0} /\ MaxDecisions \in Nat

VARIABLES articles,   \* NewsArticle rows, the id is the place
          drafting,   \* per request what is left to store
          working,    \* what the worker's run does, and the articles it listed
          newsEnabled, healthy, temper, time, decisions
nvars == <<articles, drafting, working, newsEnabled, healthy, temper, time, decisions>>

Idle == [pc |-> "idle", batch |-> {}]

NewsTypeOK ==
  /\ \A i \in DOMAIN articles :
       /\ articles[i].vi \subseteq Full /\ articles[i].title \in Titles /\ articles[i].by \in Requests
       /\ articles[i].status \in {"PENDING", "PUBLISHED", "REJECTED"}
       /\ {articles[i].publishedAt, articles[i].approvedFor} \subseteq 0..LastDay
  /\ \A r \in Requests : /\ drafting[r].pc \in {"idle", "storing", "ok", "failed"}
                         /\ drafting[r].todo \in Seq(Titles) /\ drafting[r].attempt \in 1..2
                         /\ drafting[r].real \in BOOLEAN
  /\ working.pc \in {"idle", "list", "translate"} /\ working.batch \subseteq DOMAIN articles
  /\ Cardinality(working.batch) <= Limit
  /\ {newsEnabled, healthy} \subseteq BOOLEAN /\ temper \in [Titles -> Temper]
  /\ time \in 1..LastDay /\ decisions \in 0..MaxDecisions

NewsInit ==
  /\ articles = <<>> /\ working = Idle
  /\ drafting = [r \in Requests |-> [pc |-> "idle", todo |-> <<>>, attempt |-> 1, real |-> FALSE]]
  /\ newsEnabled = TRUE /\ healthy \in BOOLEAN /\ temper \in Tempers
  /\ time = 1 /\ decisions = 0

-----------------------------------------------------------------------------
Missing(i) == "title" \notin articles[i].vi
DueInAnyStatus(i) == articles[i].publishedAt # NoDate /\ articles[i].publishedAt <= time
DueTranslated(i) == DueInAnyStatus(i) /\ articles[i].status = "PENDING" /\ ~Missing(i)
Due(i) == /\ articles[i].status = "PENDING" /\ articles[i].publishedAt # NoDate
          /\ articles[i].publishedAt <= time

\* What the gateway may do with a text: whatever it likes while it is unwell, and with
\* some texts always.
Outcomes(t) == IF healthy /\ temper[t] = "good" THEN {"full"}
               ELSE IF healthy THEN {temper[t]} ELSE {"full", "garbled", "throws"}

\* generate: with the gateway if one is configured, else with the deterministic fallback.
StartRequest(r) ==
  /\ drafting[r].pc = "idle"
  /\ \E real \in BOOLEAN : drafting' =
       [drafting EXCEPT ![r] = [pc |-> "storing", todo |-> Sources, attempt |-> 1, real |-> real]]
  /\ UNCHANGED <<articles, working, newsEnabled, healthy, temper, time, decisions>>

\* Which translations a new article has: the draft's, completed by the translator, whose
\* failure is swallowed; the fallback gateway translates nothing.
DraftVi(r, t) == IF ~drafting[r].real THEN {{}}
                 ELSE IF Outcomes(t) = {"full"} THEN {Full} ELSE SUBSET Full
StoreSource(r) ==
  /\ drafting[r].pc = "storing"
  /\ LET t == Head(drafting[r].todo)
         rest == Tail(drafting[r].todo)
     IN /\ \E vi \in DraftVi(r, t) : articles' = Append(articles,
             [title |-> t, by |-> r, vi |-> vi, status |-> "PENDING", publishedAt |-> NoDate,
              approvedFor |-> NoDate])
        /\ drafting' = [drafting EXCEPT ![r].todo = rest,
                                        ![r].pc = IF rest = <<>> THEN "ok" ELSE "storing"]
  /\ UNCHANGED <<working, newsEnabled, healthy, temper, time, decisions>>

\* The draft or a write throws: what was stored stays, and the first time every source is
\* done again with the fallback gateway.
RestartBehind(d) == IF Len(d.todo) = 1 THEN [d EXCEPT !.pc = "ok", !.todo = <<>>]
                    ELSE [pc |-> "storing", todo |-> Tail(d.todo), attempt |-> 2, real |-> FALSE]
Restart(d) == [pc |-> "storing", todo |-> Sources, attempt |-> 2, real |-> FALSE]
StoreFails(r) ==
  /\ drafting[r].pc = "storing"
  /\ drafting' = [drafting EXCEPT ![r] =
       IF @.attempt = 1 THEN Restart(@) ELSE [@ EXCEPT !.pc = "failed", !.todo = <<>>]]
  /\ UNCHANGED <<articles, working, newsEnabled, healthy, temper, time, decisions>>

-----------------------------------------------------------------------------
(* The decisions: none of them looks at the article's status. *)

Decide(i, article) ==
  /\ decisions < MaxDecisions /\ decisions' = decisions + 1
  /\ articles' = [articles EXCEPT ![i] = article]
  /\ UNCHANGED <<drafting, working, newsEnabled, healthy, temper, time>>
Approve(i) == Decide(i, [articles[i] EXCEPT !.status = "PUBLISHED", !.publishedAt = time,
                                            !.approvedFor = time])
Schedule(i) == \E t \in (time + 1)..LastDay :
  Decide(i, [articles[i] EXCEPT !.status = "PENDING", !.publishedAt = t, !.approvedFor = t])
\* The time of an earlier approval stays in the row.
Reject(i) == Decide(i, [articles[i] EXCEPT !.status = "REJECTED", !.approvedFor = NoDate])

-----------------------------------------------------------------------------
(* The worker's run: publish, list, translate one after the other.  The manual trigger *)
(* starts the same statements next to the loop, which can only translate an article   *)
(* twice.                                                                             *)

PublishDueNews ==
  /\ working.pc = "idle" /\ newsEnabled
  /\ articles' = [i \in DOMAIN articles |->
                    IF Due(i) THEN [articles[i] EXCEPT !.status = "PUBLISHED"] ELSE articles[i]]
  /\ working' = [Idle EXCEPT !.pc = "list"]
  /\ UNCHANGED <<drafting, newsEnabled, healthy, temper, time, decisions>>

\* The newest Limit of them.
Newest(ids) == {i \in ids : Cardinality({j \in ids : j > i}) < Limit}
BatchOfQueue == Newest({i \in DOMAIN articles : Missing(i) /\ articles[i].status = "PENDING"})
Batch == Newest({i \in DOMAIN articles : Missing(i)})
ListUntranslated ==
  /\ working.pc = "list"
  /\ working' = IF Batch = {} THEN Idle ELSE [pc |-> "translate", batch |-> Batch]
  /\ UNCHANGED <<articles, drafting, newsEnabled, healthy, temper, time, decisions>>

\* A text that does not come back whole is left for the next run; an exception ends the batch.
Onwards(i) == IF working.batch = {i} THEN Idle
              ELSE [pc |-> "translate", batch |-> working.batch \ {i}]
Translate ==
  /\ working.pc = "translate"
  /\ \E i \in working.batch :
       /\ \A j \in working.batch : j <= i
       /\ \E outcome \in Outcomes(articles[i].title) :
            /\ working' = (IF outcome = "throws" THEN Idle ELSE Onwards(i))
            /\ articles' = IF outcome = "full" THEN [articles EXCEPT ![i].vi = Full] ELSE articles
  /\ UNCHANGED <<drafting, newsEnabled, healthy, temper, time, decisions>>

-----------------------------------------------------------------------------
\* The switch of the job, the model's recovery, the clock.
Switch == /\ newsEnabled' = ~newsEnabled
          /\ UNCHANGED <<articles, drafting, working, healthy, temper, time, decisions>>
Recover == /\ ~healthy /\ healthy' = TRUE
           /\ UNCHANGED <<articles, drafting, working, newsEnabled, temper, time, decisions>>
NewsTick == /\ time < LastDay /\ time' = time + 1
            /\ UNCHANGED <<articles, drafting, working, newsEnabled, healthy, temper, decisions>>

NewsRunStep == PublishDueNews \/ ListUntranslated \/ Translate
NewsNext ==
  \/ \E r \in Requests : StartRequest(r) \/ StoreSource(r) \/ StoreFails(r)
  \/ \E i \in DOMAIN articles : Approve(i) \/ Schedule(i) \/ Reject(i)
  \/ NewsRunStep
  \/ Switch \/ Recover \/ NewsTick
\* The loop sets its timer again after every run, and a call of the model ends: fetch gives
\* up on a silent server after five minutes.
NewsFairness == WF_nvars(NewsRunStep)
NewsSpec == NewsInit /\ [][NewsNext]_nvars /\ NewsFairness

-----------------------------------------------------------------------------
(* What is public was approved, by the last decision taken on it, for a time that has come:  *)
(* the worker never publishes over a rejection, nor ahead of a later date, though every      *)
(* approval leaves its time in the row and no decision looks at the status.                  *)
PublicByDecision ==
  \A i \in DOMAIN articles :
    articles[i].status = "PUBLISHED" => articles[i].approvedFor \in 1..time

(* A request that answers with a success has stored every headline; it has stored one twice  *)
(* (or left one of a failed first attempt behind) only by starting over with the fallback.   *)
StoredBy(r, t) == Cardinality({i \in DOMAIN articles : articles[i].by = r /\ articles[i].title = t})
RequestStoresEverySource ==
  \A r \in Requests, t \in Titles :
    /\ drafting[r].pc = "ok" => StoredBy(r, t) \in 1..drafting[r].attempt
    /\ StoredBy(r, t) <= drafting[r].attempt

\* A first attempt leaves all headlines but the last behind at most.
Ids == 1..(Cardinality(Requests) * (2 * Len(Sources) - 1))
Has(i) == i \in DOMAIN articles
(* A scheduled article becomes public when its time comes, however the model behaves, unless *)
(* it is decided otherwise or the job is switched off.                                       *)
ScheduledIsPublished ==
  \A i \in Ids :
    LET Waits == Has(i) /\ articles[i].status = "PENDING" /\ articles[i].approvedFor \in 1..time
    IN  Waits ~> (~Waits \/ ~newsEnabled)

(* Once the model is well, an article without a Vietnamese title gets one, unless newer       *)
(* articles keep the runs from it: one whose translation throws ends every batch before it,  *)
(* and Limit whose translation never comes back whole fill every batch.                      *)
Starved(i) == \/ temper[articles[i].title] # "good"
              \/ \E j \in DOMAIN articles : j > i /\ Missing(j) /\ temper[articles[j].title] = "throws"
              \/ Cardinality({j \in DOMAIN articles : /\ j > i /\ Missing(j)
                                                     /\ temper[articles[j].title] = "garbled"}) >= Limit
TranslationsArrive ==
  \A i \in Ids :
    (healthy /\ Has(i) /\ Missing(i)) ~> ((Has(i) /\ (~Missing(i) \/ Starved(i))) \/ ~newsEnabled)

(* Whatever the model answers and whoever decides what: only what was approved is public, and *)
(* a request that succeeded left no headline out.                                              *)
NewsInv == NewsTypeOK /\ PublicByDecision /\ RequestStoresEverySource

(* What was scheduled and what was left untranslated gets out in the end.                     *)
NewsArrives == ScheduledIsPublished /\ TranslationsArrive
=============================================================================
