------------------------------ MODULE MCAccess ------------------------------
(* Instances of Access for TLC.                                            *)
EXTENDS Access, TLC

(* Tight per host, generous per account, as in NewMemoryLimiter.           *)
SmallBudgets ==
  (<<"password">> :> [burst |-> 2, interval |-> 1])
  @@ (<<"password", "ip">> :> [burst |-> 1, interval |-> 2])
  @@ (<<"register">> :> [burst |-> 1, interval |-> 2])

(* A budget of zero switches the limit off.                                *)
NoLimit == [burst |-> 0, interval |-> 1]

Symmetry == Permutations(Requests)

Began == {r \in Requests : req[r].pc # "idle"}

(* One question at a time: the limiter, idle expiry, the proof a refresh   *)
(* carries over, or an account whose status changes.                       *)
OneQuestion ==
  LET kinds == {req[r].kind : r \in Began} IN
  \/ ~signedIn /\ IdleTimeout = 0 /\ status = "active" /\ clock <= 2
  \/ /\ signedIn /\ IdleTimeout = 2 /\ status = "active"
     /\ kinds \subseteq {"validate", "refresh", "revoke"}
  \/ /\ signedIn /\ IdleTimeout = 0 /\ status = "active" /\ clock <= 3
     /\ kinds \subseteq {"sensitive", "reauth", "refresh"}
  \/ /\ signedIn /\ IdleTimeout = 1 /\ clock <= 1 /\ Cardinality(Began) <= 2
     /\ kinds \subseteq {"validate", "reauth", "refresh"}

=============================================================================
