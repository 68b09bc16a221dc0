----------------------------- MODULE MCParlay -------------------------------
EXTENDS Parlay, TLC
CONSTANT CorrectedMatches   \* the matches that two parlays see corrected

\* Parlays, calls and outcomes are interchangeable.
ParlaySymmetry ==
    Permutations(Parlays) \union Permutations(Calls) \union Permutations(Outcomes)

\* A row is FINISHED from a settlement on, and only these matches get a second result, until
\* a call fails.
FewCorrections ==
    \A m \in Matches :
        /\ result[m] = None <=> was[m] = {}
        /\ result[m] # None => m \in settled
        /\ Cardinality(was[m]) <= 1 \/ (m \in CorrectedMatches /\ ~failed)

\* One parlay is followed whatever is written to the rows; two parlays that pick alike as long
\* as little is.
OneParlay == Cardinality({p \in Parlays : status[p] # "ABSENT"}) <= 1
PicksAlike == \A p, q \in Parlays : pick[p] = pick[q]
Bounds == OneParlay \/ (PicksAlike /\ FewCorrections)
=============================================================================
