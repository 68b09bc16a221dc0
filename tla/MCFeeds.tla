------------------------------- MODULE MCFeeds -------------------------------
(* The feed's two modules side by side: in a behaviour one of them runs and   *)
(* the other has nothing left to do, so their states do not multiply.         *)
EXTENDS FeedSync, FdClient
CONSTANTS t1, t2, ann, bob
Order == <<t1, t2>>
\* A usable answer, one that leaves a player out, and an empty one.
LineUps == {[names |-> {ann, bob}, xi |-> {ann}], [names |-> {bob}, xi |-> {bob}], [names |-> {}, xi |-> {}]}

\* At first bob plays with ann or in the other team.
FeedStarts == FeedInit /\ rosters[ann] = t1 /\ rosters[bob] # Nowhere
\* After the tournament: nothing is listed, everything is linked, nobody calls.
FeedOver ==
  /\ players = {} /\ linked = Teams /\ matchExt = [m \in 1..Rows |-> m] /\ groupSeen = TRUE
  /\ rosters = [w \in People |-> Nowhere] /\ moves = 0 /\ crashes = MaxTroubles /\ runs = 0
  /\ proc = [p \in Procs |-> [Blank EXCEPT !.pc = "done"]]
  /\ lineup = [t \in Teams |-> {}] /\ mixed = {}
ClientUnused ==
  /\ now = 0 /\ last = Never /\ promises = <<>> /\ current = NoGet /\ stage = "idle" /\ wake = 0
  /\ attempt = 0 /\ outcome = [g \in Gets |-> "ok"] /\ sent = [g \in Gets |-> 1]
  /\ order = <<>> /\ quiet = 0 /\ notice = "heeded"

Init == (FeedStarts /\ ClientUnused) \/ (FeedOver /\ ClientInit)
Next == (FeedNext /\ UNCHANGED cvars) \/ (ClientNext /\ UNCHANGED fvars)
Spec == Init /\ [][Next]_<<fvars, cvars>> /\ FeedFairness /\ ClientFairness
=============================================================================
