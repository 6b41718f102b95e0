------------------------------ MODULE MCWebApp ------------------------------
(* Instances of WebApp for TLC.                                            *)
EXTENDS WebApp, TLC

CONSTANTS k1

Both == [totp |-> "active", keys |-> {k1}, codes |-> 1]

OneKey == [totp |-> "none", keys |-> {k1}, codes |-> 0]

Accounts == {Both, OneKey}

Symmetry == Permutations(Requests)

(* One question at a time: the factors that come and go, or the pending    *)
(* logins as time passes.                                                  *)
OneQuestion ==
  LET ops == {req[r].op : r \in Requests} \ {"none"} IN
  \/ clock = 0 /\ "second" \notin ops
  \/ ops \subseteq {"login", "second"}

=============================================================================
