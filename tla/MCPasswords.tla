---------------------------- MODULE MCPasswords ----------------------------
(* Instances of Passwords for TLC.                                         *)
EXTENDS Passwords, FiniteSets, TLC

Cost(m, t, p) ==
  [c \in Costs |-> CASE c = "Memory" -> m [] c = "Iterations" -> t [] OTHER -> p]

(* Two spellings of one password, and another password.                    *)
TypedForms == {"composed", "decomposed", "other"}

NormalForm ==
  [f \in TypedForms |-> IF f = "decomposed" THEN "composed" ELSE f]

First == Cost(1, 1, 1)

Rolling == {First, Cost(2, 1, 1)}

(* With the first the clamp bites before the cap, with the second after.   *)
Backoffs == {[base |-> 1, max |-> 3], [base |-> 1, max |-> 1]}

Symmetry == Permutations(Requests)

Began == {r \in Requests : req[r].pc # "idle"}

Plain(h) == h.argon2 = First /\ h.of # "decomposed"

(* One question at a time: the screening; four calls that fail, log in or  *)
(* reset with one cost and one spelling while the clock runs; or three     *)
(* calls of every kind.                                                    *)
OneQuestion ==
  \/ /\ screening /\ policy.max = 1
     /\ row.hash = hashPassword("composed", First, None)
  \/ /\ ~screening /\ transport = "unreachable" /\ length = 0 /\ ~listed /\ ~failClosed
     /\ \/ /\ Plain(row.hash) /\ row.hash.of = "composed"
           /\ \A r \in Began : Plain(req[r].new) /\ req[r].old = {}
           /\ \A r \in Began : req[r].job = "set" => req[r].new.of = "composed"
        \/ clock = 1 /\ policy.max = 1 /\ Cardinality(Began) <= 3

=============================================================================
