------------------------------- MODULE MCTotp -------------------------------
(* A small instance of Totp: four calls, two enrollments, a window of      *)
(* three time steps, and a code function with collisions: the second       *)
(* secret shows the first one's digits a step earlier, and each secret     *)
(* repeats its digits after three steps.                                   *)
EXTENDS Totp, TLC

MCCodeOf == [x \in Ids \X Counters |-> (x[1] + x[2]) % 3]

CallSymmetry == Permutations(Calls)

=============================================================================
