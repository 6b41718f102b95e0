------------------------------ MODULE MCSuites ------------------------------
(* The longest subtest has ten calls.  The subtests name their own users,  *)
(* ids and codes; only TTL, which is in the programs, matters.             *)
EXTENDS Suites

NoCodes == {}

=============================================================================
