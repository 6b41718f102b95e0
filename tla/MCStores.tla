------------------------------ MODULE MCStores ------------------------------
(* Two calls at a time, three on the recovery codes, in every              *)
(* implementation: on two TOTP credentials, on the passkeys of a user, on  *)
(* one challenge, on two users, two sessions, two tokens, on the codes of  *)
(* one or two generations.                                                 *)
EXTENDS Stores, TLC

FirstGeneration == {1, 2}
OneGeneration == {{3, 4}}
TwoGenerations == {{3, 4}, {5, 6}}

=============================================================================
