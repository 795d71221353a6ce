----------------------------- MODULE MCReactor -----------------------------
(* Reactor on small instances. *)
EXTENDS Reactor
CONSTANTS c1, c2, SIGHUP
Perms == Permutations({c1, c2})

\* Bound of both runs: a behaviour has signals from outside or a second
\* client, not both.  It restricts the environment alone, of which Fairness assumes
\* nothing.
SignalsOrClients ==
    raised = 0 \/ Cardinality({c \in Conns : peer[c] # "idle"}) <= 1
BoundedSpec == Init /\ [][Next /\ SignalsOrClients']_vars /\ Fairness
============================================================================
