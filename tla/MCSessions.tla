------------------------------ MODULE MCSessions ------------------------------
EXTENDS Sessions, TLC

CallSymmetry == Permutations(Calls)

\* Passwords and sessions share only the account, and no property relates them: the
\* passwords change while there is one session, and the sessions once the password
\* of the registration is left alone.
OneAtATime ==
    \/ \A t \in Tokens : session[t] # "none" => t = 1 /\ session[t] = "live" /\ t \notin expired
    \/ /\ pwd < 2 /\ Doing({"change", "reset"}) = {}
       /\ \A r \in Resets : reset[r] = "none"
=============================================================================
