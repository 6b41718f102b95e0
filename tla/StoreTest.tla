----------------------------- MODULE StoreTest -----------------------------
(***************************************************************************)
(* The harness of the conformance suites in src/storetest.  A subtest is a *)
(* sequence of calls, some of which race, and the results it accepts.      *)
(* Iterating a race a hundred times becomes every interleaving of it.      *)
(***************************************************************************)
EXTENDS Sql

LOCAL INSTANCE SequencesExt

VARIABLE test      \* the subtest under way

(* race starts 2 to 8 goroutines; the model starts at most this many.      *)
MaxRacers == 3

racers == 1 .. MaxRacers

Unchecked == <<"any">>

Ok == <<"ok">>

(* calls in order; race is the set of those that run at the same time;     *)
(* want is the set of accepted histories of results.                       *)
Subtest(calls, race, want) == [calls |-> calls, race |-> race, want |-> want]

(* steps: pairs of a call and the result expected of it.                   *)
Calls(steps) == [i \in DOMAIN steps |-> steps[i][1]]

Wants(steps) == [i \in DOMAIN steps |-> steps[i][2]]

Sequential(steps) == Subtest(Calls(steps), {}, {Wants(steps)})

(* The calls in rs race once before is done, then after runs; outcomes is  *)
(* the set of accepted results of rs and after together.                   *)
Race(before, rs, after, outcomes) ==
  Subtest(Calls(before) \o rs \o after,
          Len(before) + 1 .. Len(before) + Len(rs),
          {Wants(before) \o o : o \in outcomes})

exactlyOneWinner(n, loser) ==
  {[i \in 1 .. n |-> IF i = winner THEN Ok ELSE loser] : winner \in 1 .. n}

-----------------------------------------------------------------------------

Ready(s, i) ==
  /\ i <= Len(s.calls)
  /\ \A j \in 1 .. i - 1 : Done(j) \/ {i, j} \subseteq s.race

Finished(s) == \A i \in DOMAIN s.calls : Done(i)

(* An expectation names the first parts of a result: Ok is any success.    *)
Matches(s, want) ==
  \A i \in DOMAIN s.calls : want[i] = Unchecked \/ IsPrefix(want[i], txn[i].res)

Passed(s) == Finished(s) => \E want \in s.want : Matches(s, want)

=============================================================================
