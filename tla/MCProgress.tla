----------------------------- MODULE MCProgress ------------------------------
(* What must end: the calls that settle a match, and beside them the news     *)
(* job's work.  In a behaviour one of the two runs.                           *)
EXTENDS Settlement, News
CONSTANTS s1, s2
VARIABLE side

\* Bets do not influence which calls run when: there are none.
NoPayout == [p \in Preds |-> [s \in Scores |-> 0]]
NoWins == [p \in Preds |-> [s \in Scores |-> FALSE]]

\* Two headlines, of which the model cannot translate the newer one.
Headlines == <<s1, s2>>
MCTempers == {t \in [{s1, s2} -> Temper] : t[s1] = "good" /\ t[s2] # "good"}
NewsUnused ==
    /\ articles = <<>> /\ working = Idle /\ newsEnabled = FALSE /\ healthy = TRUE
    /\ drafting = [r \in Requests |-> [pc |-> "idle", todo |-> <<>>, attempt |-> 1, real |-> FALSE]]
    /\ temper = [t \in Titles |-> "good"] /\ time = 1 /\ decisions = 0

MCInit == Init /\ \/ side = "match" /\ NewsUnused
                  \/ side = "news" /\ NewsInit
MCNext == /\ UNCHANGED side
          /\ \/ side = "match" /\ Next /\ UNCHANGED nvars
             \/ side = "news" /\ NewsNext /\ UNCHANGED vars
MCSpec == MCInit /\ [][MCNext]_<<vars, nvars, side>> /\ Fairness /\ NewsFairness
=============================================================================
