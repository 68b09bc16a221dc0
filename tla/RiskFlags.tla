------------------------------ MODULE RiskFlags ------------------------------
(* The risk engine (packages/risk risk-engine.ts): an administrator's scan of *)
(* the lobbies for suspicious loans, which leaves an OPEN flag on each, next   *)
(* to other scans, to loans and members coming and going, and to the closing  *)
(* of a lobby, which resolves its flags.  Escalating a flag changes no state   *)
(* but the log of moderation actions, and is left out.                        *)
EXTENDS Integers, SequencesExt

CONSTANTS Scans,       \* scan requests
          LobbyOrder,  \* the lobbies, in the order a scan lists them
          Amount,      \* points of one loan
          MaxMembers, MaxLoans

RiskLobbies == {LobbyOrder[i] : i \in 1..Len(LobbyOrder)}
SmallLobby == 2
HighBorrow == 500
Levels == {"High", "Medium", "Low"}

ASSUME RiskFlagsAssumption ==
  /\ LobbyOrder \in Seq(RiskLobbies) /\ Len(LobbyOrder) > 0 /\ Amount \in Nat \ {0}
  /\ MaxMembers \in Nat \ {0} /\ MaxLoans \in Nat

NothingListed == [l \in RiskLobbies |-> "none"]

VARIABLES debts,     \* per lobby what each member has borrowed; the owner is the first
          flags,     \* per lobby its flags
          scanning,  \* per scan the lobbies still to look at, and its verdict on each when it listed them
          raced      \* lobbies flagged by a scan while another one had found no flag (history)
rvars == <<debts, flags, scanning, raced>>

RiskTypeOK ==
  /\ \A l \in RiskLobbies :
       /\ debts[l] \in Seq(Nat) /\ Len(debts[l]) \in 1..MaxMembers
       /\ \A i \in DOMAIN flags[l] : /\ flags[l][i].severity \in Levels
                                     /\ flags[l][i].status \in {"OPEN", "RESOLVED"}
  /\ \A s \in Scans : /\ scanning[s].pc \in {"idle", "look", "create", "done"}
                      /\ scanning[s].todo \in Seq(RiskLobbies)
                      /\ scanning[s].listed \in [RiskLobbies -> Levels \cup {"none"}]
  /\ raced \subseteq RiskLobbies

RiskInit ==
  /\ debts = [l \in RiskLobbies |-> <<0>>] /\ flags = [l \in RiskLobbies |-> <<>>]
  /\ scanning = [s \in Scans |-> [pc |-> "idle", todo |-> <<>>, listed |-> NothingListed]]
  /\ raced = {}

-----------------------------------------------------------------------------
(* What the lobby service does meanwhile. *)
Total(seq) == FoldLeft(+, 0, seq)
Lent == Total([i \in 1..Len(LobbyOrder) |-> Total(debts[LobbyOrder[i]])])
Members(l, seq) == debts' = [debts EXCEPT ![l] = seq] /\ UNCHANGED <<flags, scanning, raced>>
MemberJoins(l) == Len(debts[l]) < MaxMembers /\ Members(l, Append(debts[l], 0))
MemberBorrows(l) == /\ Lent < MaxLoans * Amount
           /\ \E m \in DOMAIN debts[l] : Members(l, [debts[l] EXCEPT ![m] = @ + Amount])
\* kickMember: the membership goes, and its debt with it.
MemberKicked(l) == \E m \in DOMAIN debts[l] \ {1} : Members(l, RemoveAt(debts[l], m))

-----------------------------------------------------------------------------
(* The scan. *)
Heavy(seq) == {m \in DOMAIN seq : seq[m] >= HighBorrow}
Score(seq) == (IF Len(seq) <= SmallLobby /\ Total(seq) > 0 THEN 50 ELSE 0)
            + (IF Total(seq) >= HighBorrow THEN 30 ELSE 0)
            + (IF Heavy(seq) # {} THEN 20 ELSE 0)
Severity(seq) == IF Score(seq) >= 70 THEN "High" ELSE IF Score(seq) >= 40 THEN "Medium" ELSE "Low"
\* The scan judges a lobby by the memberships it listed.
Verdict(seq) == IF Score(seq) = 0 THEN "none" ELSE Severity(seq)

Open(l) == {i \in DOMAIN flags[l] : flags[l][i].status = "OPEN"}
NoFlagOfThis(l, verdict) == \A i \in Open(l) : flags[l][i].severity # verdict
NoOpenFlag(l, verdict) == Open(l) = {}

ListLobbies(s) ==
  /\ scanning[s].pc = "idle"
  /\ scanning' = [scanning EXCEPT ![s] = [pc |-> "look", todo |-> LobbyOrder, 
                                             listed |-> [l \in RiskLobbies |-> Verdict(debts[l])]]]
  /\ UNCHANGED <<debts, flags, raced>>

At(s, l, pc) == scanning[s].pc = pc /\ Head(scanning[s].todo) = l
StopsHere(d) == [d EXCEPT !.pc = "done", !.todo = <<>>]
Onwards(d) == IF Len(d.todo) = 1 THEN [d EXCEPT !.pc = "done", !.todo = <<>>]
              ELSE [d EXCEPT !.pc = "look", !.todo = Tail(@)]
\* continue: a lobby without a reason, or with an OPEN flag, is passed over.
LookAt(s, l) ==
  /\ At(s, l, "look")
  /\ LET verdict == scanning[s].listed[l]
     IN scanning' = [scanning EXCEPT ![s] =
          IF verdict # "none" /\ NoOpenFlag(l, verdict) THEN [@ EXCEPT !.pc = "create"]
          ELSE Onwards(@)]
  /\ UNCHANGED <<debts, flags, raced>>
CreateFlag(s, l) ==
  /\ At(s, l, "create")
  /\ flags' = [flags EXCEPT ![l] =
       Append(@, [severity |-> scanning[s].listed[l], status |-> "OPEN"])]
  /\ scanning' = [scanning EXCEPT ![s] = Onwards(@)]
  /\ raced' = IF \E o \in Scans \ {s} : At(o, l, "create") THEN raced \cup {l} ELSE raced
  /\ UNCHANGED debts

\* Closing a lobby resolves its flags; the scan looks at closed lobbies, too.
CloseLobby(l) ==
  /\ Open(l) # {}
  /\ flags' = [flags EXCEPT ![l] = [i \in DOMAIN @ |-> [@[i] EXCEPT !.status = "RESOLVED"]]]
  /\ raced' = raced \ {l}
  /\ UNCHANGED <<debts, scanning>>

RiskNext ==
  \/ \E l \in RiskLobbies : MemberJoins(l) \/ MemberBorrows(l) \/ MemberKicked(l) \/ CloseLobby(l)
  \/ \E s \in Scans : ListLobbies(s) \/ \E l \in RiskLobbies : LookAt(s, l) \/ CreateFlag(s, l)
RiskSpec == RiskInit /\ [][RiskNext]_rvars

-----------------------------------------------------------------------------
(* A lobby has one OPEN flag at most, however often it is scanned and however its loans change *)
(* in between, unless two scans met between the search for a flag and its creation.            *)
OneOpenFlag == \A l \in RiskLobbies \ raced : Cardinality(Open(l)) <= 1

(* A scan that has ended left no suspicious lobby of its list without a flag, whatever stood   *)
(* before it in the list and whatever happened meanwhile; the flag may be resolved by now.     *)
ScanFlagsRisk ==
  \A s \in Scans, l \in RiskLobbies :
    scanning[s].pc = "done" /\ scanning[s].listed[l] # "none" => flags[l] # <<>>

(* Scans and everything that changes beside them leave each suspicious lobby flagged, once.    *)
RiskInv == RiskTypeOK /\ OneOpenFlag /\ ScanFlagsRisk
=============================================================================
