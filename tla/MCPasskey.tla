----------------------------- MODULE MCPasskey -----------------------------
(* Instances of Passkey for TLC.                                           *)
EXTENDS Passkey, TLC

CONSTANTS u1, c1

OneEnrolled == c1 :> u1

Symmetry == Permutations(Requests)

=============================================================================
