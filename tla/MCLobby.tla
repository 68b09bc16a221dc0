------------------------------ MODULE MCLobby -------------------------------
(* The lobby's operations, and beside them the risk scans of RiskFlags, which *)
(* see of these operations only the memberships and their debts: in a         *)
(* behaviour one of the two modules runs.                                     *)
EXTENDS Lobby, RiskFlags, TLC

CONSTANTS l1, l2
MCLobbyOrder == <<l1, l2>>
Symmetry == Permutations(Calls) \union Permutations(Requests) \union Permutations(Scans)

VARIABLE side
MCInit == Init /\ RiskInit /\ side \in {"lobby", "risk"}
MCNext == /\ UNCHANGED side
          /\ \/ side = "lobby" /\ Next /\ UNCHANGED rvars
             \/ side = "risk" /\ RiskNext /\ UNCHANGED vars
MCSpec == MCInit /\ [][MCNext]_<<vars, rvars, side>>
=============================================================================
