--------------------------- MODULE PasswordProofs ---------------------------
(***************************************************************************)
(* Proofs about Password and PasswordPolicy as Passwords composes them:    *)
(* for any number of calls, spellings, deployed parameters and rows of a   *)
(* range response, any threshold, backoff policy and width of a duration.  *)
(***************************************************************************)
EXTENDS Passwords, TLAPS, WellFoundedInduction

-----------------------------------------------------------------------------
(* Powers of two.                                                          *)

(* Every set of naturals with a member has a least one.                    *)
LEMMA LeastNatural ==
  ASSUME NEW T \in SUBSET Nat, NEW m \in T
  PROVE  \E x \in T : \A y \in T : x <= y
<1>1. \E x \in T : \A y \in T : ~(<<y, x>> \in OpToRel(<, Nat))
  BY WFMin, NatLessThanWellFounded, Zenon
<1>2. \A x, y \in Nat : y < x => <<y, x>> \in OpToRel(<, Nat)
  BY DEF OpToRel
<1>3. PICK x \in T : \A y \in T : ~(<<y, x>> \in OpToRel(<, Nat))
  BY <1>1, Zenon
<1>4. \A y \in T : ~(y < x)
  BY <1>2, <1>3, Zenon
<1>5. QED
  BY <1>4

(* The first n + 1 powers of two.                                          *)
Table(g, n) ==
  /\ g \in [0 .. n -> Nat]
  /\ \A i \in 0 .. n : g[i] = IF i = 0 THEN 1 ELSE 2 * g[i - 1]

(* The tables exist: a least n without one would have one, by doubling the *)
(* last entry of the table before.                                         *)
LEMMA TableExists == \A n \in Nat : \E g : Table(g, n)
<1> SUFFICES ASSUME NEW m \in Nat, ~\E g : Table(g, m) PROVE FALSE
  OBVIOUS
<1> DEFINE T == {n \in Nat : ~\E g : Table(g, n)}
<1>1. PICK x \in T : \A y \in T : x <= y
  <2> HIDE DEF Table
  <2>1. T \in SUBSET Nat /\ m \in T
    OBVIOUS
  <2> HIDE DEF T
  <2>2. QED
    BY <2>1, LeastNatural
<1>2. Table([i \in 0 .. 0 |-> 1], 0)
  BY DEF Table
<1>3. x # 0
  BY <1>2
<1>4. x - 1 \in Nat /\ x - 1 \notin T
  BY <1>1, <1>3
<1>5. PICK g : Table(g, x - 1)
  BY <1>4
<1> DEFINE h == [i \in 0 .. x |-> IF i = x THEN 2 * g[x - 1] ELSE g[i]]
<1>6. x \in Nat
  OBVIOUS
<1> HIDE DEF T
<1>7. h \in [0 .. x -> Nat]
  BY <1>3, <1>5, <1>6 DEF Table
<1>8. \A i \in 0 .. x : h[i] = IF i = 0 THEN 1 ELSE 2 * h[i - 1]
  BY <1>3, <1>5, <1>6 DEF Table
<1>9. QED
  BY <1>7, <1>8, Zenon DEF Table, T

(* Two tables agree where both are defined.                                *)
LEMMA TableUnique ==
  ASSUME NEW n \in Nat, NEW m \in Nat, NEW g, NEW h, Table(g, n), Table(h, m),
         NEW i \in Nat, i <= n, i <= m
  PROVE  g[i] = h[i]
<1> DEFINE T == {j \in Nat : j <= n /\ j <= m /\ g[j] # h[j]}
<1> SUFFICES ASSUME i \in T PROVE FALSE
  OBVIOUS
<1>1. PICK x \in T : \A y \in T : x <= y
  BY LeastNatural, Zenon
<1>2. x # 0
  BY DEF Table
<1>3. g[x - 1] = h[x - 1]
  BY <1>1, <1>2
<1>4. QED
  BY <1>2, <1>3 DEF Table

(* The recursive definition of pow2, the model of lockoutBackoff's shift,  *)
(* does define a function.                                                 *)
LEMMA Pow2Def == \A n \in Nat : pow2[n] = (IF n = 0 THEN 1 ELSE 2 * pow2[n - 1])
<1> DEFINE F == [n \in Nat |-> (CHOOSE g : Table(g, n))[n]]
<1>1. ASSUME NEW n \in Nat
      PROVE  Table(CHOOSE g : Table(g, n), n)
  BY TableExists, Zenon
<1>2. ASSUME NEW n \in Nat
      PROVE  F[n] = (IF n = 0 THEN 1 ELSE 2 * F[n - 1])
  <2>1. CASE n = 0
    <3>1. Table(CHOOSE g : Table(g, 0), 0)
      BY <1>1
    <3>2. (CHOOSE g : Table(g, 0))[0] = 1
      BY <3>1 DEF Table
    <3>3. QED
      BY <2>1, <3>2
  <2>2. CASE n # 0
    <3> DEFINE g == CHOOSE f : Table(f, n)
               h == CHOOSE f : Table(f, n - 1)
    <3>0. n - 1 \in Nat
      BY <2>2
    <3>1. Table(g, n) /\ Table(h, n - 1)
      BY <1>1, <3>0
    <3>2. F[n] = g[n] /\ F[n - 1] = h[n - 1]
      BY <3>0
    <3> HIDE DEF g, h, F
    <3>3. g[n - 1] = h[n - 1]
      BY <3>0, <3>1, TableUnique
    <3>4. g[n] = 2 * g[n - 1]
      BY <2>2, <3>1 DEF Table
    <3>5. QED
      BY <2>2, <3>2, <3>3, <3>4
  <2>3. QED
    BY <2>1, <2>2
<1>3. F = [n \in Nat |-> IF n = 0 THEN 1 ELSE 2 * F[n - 1]]
  <2> DEFINE G == [n \in Nat |-> IF n = 0 THEN 1 ELSE 2 * F[n - 1]]
  <2>1. \A n \in Nat : F[n] = G[n]
    BY <1>2, Zenon
  <2>2. QED
    BY <2>1, Zenon
<1>4. pow2 = [n \in Nat |-> IF n = 0 THEN 1 ELSE 2 * pow2[n - 1]]
  <2> HIDE DEF F
  <2>1. QED
    BY <1>3, Zenon DEF pow2
<1>5. QED
  BY <1>4

(* Powers of two are positive and grow with the exponent.                  *)
LEMMA Pow2Facts ==
  /\ pow2[0] = 1
  /\ \A n \in Nat : pow2[n] \in Nat \ {0} /\ pow2[n + 1] = 2 * pow2[n]
<1>1. pow2[0] = 1
  BY Pow2Def
<1>2. \A n \in Nat : pow2[n + 1] = 2 * pow2[n]
  BY Pow2Def
<1>3. ASSUME NEW n \in Nat, pow2[n] \notin Nat \ {0}
      PROVE  FALSE
  <2> DEFINE T == {j \in Nat : pow2[j] \notin Nat \ {0}}
  <2>1. PICK x \in T : \A y \in T : x <= y
    BY <1>3, LeastNatural, Zenon
  <2>2. x # 0
    BY <1>1
  <2>3. x - 1 \in Nat /\ pow2[x - 1] \in Nat \ {0}
    BY <2>1, <2>2
  <2>4. pow2[x] = 2 * pow2[x - 1]
    BY <2>2, Pow2Def
  <2>5. QED
    BY <2>3, <2>4
<1>4. QED
  BY <1>1, <1>2, <1>3

(* A larger exponent gives no smaller power.                               *)
LEMMA Pow2Grows ==
  ASSUME NEW n \in Nat, NEW m \in Nat, n <= m
  PROVE  pow2[n] <= pow2[m]
<1> DEFINE T == {j \in Nat : n <= j /\ ~(pow2[n] <= pow2[j])}
<1> SUFFICES ASSUME m \in T PROVE FALSE
  OBVIOUS
<1>1. PICK x \in T : \A y \in T : x <= y
  BY LeastNatural, Zenon
<1>2. x # n
  BY Pow2Facts
<1>3. x - 1 \in Nat /\ pow2[n] <= pow2[x - 1]
  BY <1>1, <1>2
<1>4. pow2[x] = 2 * pow2[x - 1] /\ pow2[x - 1] \in Nat /\ pow2[n] \in Nat
  BY <1>3, Pow2Facts, Pow2Def
<1>5. QED
  BY <1>3, <1>4

(* A value that fits in the bits of a duration is not changed by wrapping. *)
LEMMA WrapSmall ==
  ASSUME NEW n \in Nat, n < pow2[Width - 1]
  PROVE  Wrap(n) = n
<1>1. Width - 1 \in Nat /\ pow2[Width] = 2 * pow2[Width - 1]
  BY PasswordAssumption, Pow2Facts
<1>2. pow2[Width - 1] \in Nat
  BY <1>1, Pow2Facts
<1>3. n % pow2[Width] = n
  BY <1>1, <1>2
<1>4. QED
  BY <1>3 DEF Wrap

(* lockoutBackoff never loses a bit: its result is base doubled excess     *)
(* times, up to the clamp, or max if that is less.                         *)
LEMMA BackoffAsIntended ==
  ASSUME policy \in Policies, NEW excess \in Nat
  PROVE  LET doubled == policy.base * pow2[clamp(excess)] IN
         /\ doubled \in Nat \ {0}
         /\ lockoutBackoff(excess) = IF doubled > policy.max THEN policy.max ELSE doubled
         /\ lockoutBackoff(excess) \in Nat \ {0}
<1> DEFINE doubled == policy.base * pow2[clamp(excess)]
<1>1. policy.base \in Nat \ {0} /\ policy.max \in Nat \ {0} /\ MaxShift \in Nat
  BY PasswordAssumption
<1>2. clamp(excess) \in Nat /\ clamp(excess) <= MaxShift
  BY <1>1 DEF clamp
<1>3. /\ pow2[clamp(excess)] \in Nat \ {0} /\ pow2[MaxShift] \in Nat
      /\ pow2[clamp(excess)] <= pow2[MaxShift]
  BY <1>1, <1>2, Pow2Facts, Pow2Grows
<1>4. doubled \in Nat \ {0} /\ doubled <= policy.base * pow2[MaxShift]
  <2>1. \A a, b, c \in Nat : b <= c => a * b <= a * c
    OBVIOUS
  <2>2. \A a, b \in Nat \ {0} : a * b \in Nat \ {0}
    OBVIOUS
  <2>3. QED
    BY <1>1, <1>3, <2>1, <2>2
<1>5. policy.base * pow2[MaxShift] \in Nat /\ pow2[Width - 1] \in Nat
  BY <1>1, <1>3, PasswordAssumption, Pow2Facts
<1>6. policy.base * pow2[MaxShift] < pow2[Width - 1]
  BY PasswordAssumption
<1> HIDE DEF doubled
<1>7. doubled < pow2[Width - 1]
  BY <1>4, <1>5, <1>6
<1>8. Wrap(doubled) = doubled
  BY <1>4, <1>7, WrapSmall
<1>9. lockoutBackoff(excess) = IF doubled > policy.max THEN policy.max ELSE doubled
  BY <1>1, <1>4, <1>8 DEF lockoutBackoff, doubled
<1>10. QED
  BY <1>1, <1>4, <1>9 DEF doubled

-----------------------------------------------------------------------------
(* The inductive invariant of Password.                                    *)

Hash == [of : Forms, argon2 : Deployed, salt : Requests \cup {None}]

Row == [hash : Hash, attempts : Nat, until : Nat, version : Nat]

PCs == {"idle", "now", "read", "write", "status", "done"}

Jobs == {"none", "fail", "rehash", "clear", "set"}

Results == {"none", "ok", "err", "invalid", "locked"}

Request ==
  [pc : PCs, job : Jobs, old : SUBSET Forms, new : Hash, seen : Row, cur : Row,
   now : Nat, tries : Nat, locked : BOOLEAN, res : Results]

TypeOK ==
  /\ policy \in Policies /\ clock \in Nat
  /\ row \in Row /\ req \in [Requests -> Request]
  /\ fails \in Nat /\ current \in Forms /\ accepted \subseteq Forms

(* A hash of a string that is not normal is from before normalization.     *)
LegacyIsOldest == normalizePassword(row.hash.of) # row.hash.of => row.hash.argon2 = Oldest

(* The upgrade under way is of the password whose hash was seen, and to    *)
(* no lower cost.                                                          *)
Upgrade(q) ==
  /\ q.new.of = normalizePassword(q.seen.hash.of)
  /\ \A c \in Costs : q.seen.hash.argon2[c] <= q.new.argon2[c]

(* A pending write that can still land is the mutation of the very row it  *)
(* will replace, and its guard still holds there.                          *)
WriteOK(q) ==
  /\ q.cur.version <= row.version
  /\ VersionMatches(q) => Guard(q) /\ q.cur = Mutated(q)
  /\ q.locked => /\ q.cur.attempts >= Threshold
                 /\ q.cur.until = q.now + lockoutBackoff(q.cur.attempts - Threshold)

ReqOK(q) ==
  /\ q.pc \in {"read", "write"} => q.job # "none"
  /\ q.pc = "now" => q.job = "fail"
  /\ q.job \in {"rehash", "set"} => normalizePassword(q.new.of) = q.new.of
  /\ q.job = "rehash" => Upgrade(q)
  /\ q.pc = "write" => WriteOK(q)

IInv ==
  /\ TypeOK
  /\ AttemptsCounted /\ HashOfCurrentPassword /\ AcceptedStaysAccepted
  /\ LegacyIsOldest
  /\ \A r \in Requests : ReqOK(req[r])

-----------------------------------------------------------------------------
(* Types.                                                                  *)

(* What hashPassword returns is a hash of a normalized string.             *)
LEMMA HashType ==
  ASSUME NEW f \in Forms, NEW p \in Deployed, NEW s \in Requests \cup {None}
  PROVE  /\ hashPassword(f, p, s) \in Hash
         /\ hashPassword(f, p, s).of = NFKC[f] /\ hashPassword(f, p, s).argon2 = p
         /\ NFKC[f] \in Forms /\ NFKC[NFKC[f]] = NFKC[f]
BY PasswordAssumption DEF hashPassword, normalizePassword, Hash

(* The constants that fill the fields not in use.                          *)
LEMMA IdleType ==
  ASSUME NEW f \in Forms
  PROVE  NoHash \in Hash /\ NoRow \in Row /\ Idle \in Request
<1>1. NoHash \in Hash
  BY PasswordAssumption DEF NoHash, Hash
<1>2. NoRow \in Row
  BY <1>1 DEF NoRow, Row
<1> HIDE DEF NoHash, NoRow
<1>3. Idle \in Request
  BY <1>1, <1>2 DEF Idle, Request, PCs, Jobs, Results
<1>4. QED
  BY <1>1, <1>2, <1>3

(* What a request that is done consists of.                                *)
LEMMA DoneType ==
  ASSUME NEW f \in Forms, NEW res \in Results
  PROVE  /\ Done(res) \in Request /\ Done(res).pc = "done"
         /\ Done(res).job = "none"
<1>1. Idle \in Request /\ Idle.job = "none"
  BY IdleType, Zenon DEF Idle
<1>2. Done(res) = [Idle EXCEPT !.pc = "done", !.res = res]
  BY DEF Done
<1> HIDE DEF Idle
<1>3. QED
  BY <1>1, <1>2, Zenon DEF Request, PCs

(* Each mutation makes a row of a row, with the version of the row it was  *)
(* made of.                                                                *)
LEMMA MutatedType ==
  ASSUME row \in Row, policy \in Policies, NEW q \in Request, q.job # "none"
  PROVE  Mutated(q) \in Row /\ Mutated(q).version = row.version
<1>1. row.attempts \in Nat /\ q.now \in Nat /\ q.new \in Hash /\ Threshold \in Nat
  BY PasswordAssumption DEF Row, Request
<1>2. CASE q.job = "fail"
  <2>1. row.attempts + 1 >= Threshold =>
          q.now + lockoutBackoff(row.attempts + 1 - Threshold) \in Nat
    <3> SUFFICES ASSUME row.attempts + 1 >= Threshold
                 PROVE  q.now + lockoutBackoff(row.attempts + 1 - Threshold) \in Nat
      OBVIOUS
    <3>1. row.attempts + 1 - Threshold \in Nat
      BY <1>1
    <3>2. QED
      BY <1>1, <3>1, BackoffAsIntended
  <2> DEFINE until == IF row.attempts + 1 >= Threshold
                        THEN q.now + lockoutBackoff(row.attempts + 1 - Threshold)
                        ELSE row.until
  <2>2. until \in Nat
    BY <2>1 DEF Row
  <2>3. Mutated(q) = [row EXCEPT !.attempts = row.attempts + 1, !.until = until]
    BY <1>2 DEF Mutated, Failed
  <2> HIDE DEF until
  <2>4. [row EXCEPT !.attempts = row.attempts + 1, !.until = until] \in Row
    <3>1. row.attempts + 1 \in Nat
      BY <1>1
    <3>2. \A a, t \in Nat : [row EXCEPT !.attempts = a, !.until = t] \in Row
      BY Zenon DEF Row
    <3>3. QED
      BY <2>2, <3>1, <3>2, Zenon
  <2>5. QED
    BY <2>3, <2>4 DEF Row
<1>3. CASE q.job = "rehash"
  BY <1>1, <1>3 DEF Mutated, Row
<1>4. CASE q.job = "clear"
  BY <1>1, <1>4, Zenon DEF Mutated, Cleared, Row
<1>5. CASE q.job = "set"
  BY <1>1, <1>5, Zenon DEF Mutated, Cleared, Row
<1>6. QED
  BY <1>2, <1>3, <1>4, <1>5 DEF Request, Jobs

(* What a counted failure leaves in the row.                               *)
LEMMA FailedFields ==
  ASSUME row \in Row, NEW q \in Request, q.job = "fail"
  PROVE  /\ Mutated(q).attempts = row.attempts + 1
         /\ Mutated(q).until = IF row.attempts + 1 >= Threshold
                                 THEN q.now + lockoutBackoff(row.attempts + 1 - Threshold)
                                 ELSE row.until
<1>1. \A a, t : /\ [row EXCEPT !.attempts = a, !.until = t].attempts = a
                /\ [row EXCEPT !.attempts = a, !.until = t].until = t
  BY DEF Row
<1> DEFINE until == IF row.attempts + 1 >= Threshold
                      THEN q.now + lockoutBackoff(row.attempts + 1 - Threshold)
                      ELSE row.until
<1>2. Mutated(q) = [row EXCEPT !.attempts = row.attempts + 1, !.until = until]
  BY DEF Mutated, Failed
<1>3. Mutated(q).attempts = row.attempts + 1 /\ Mutated(q).until = until
  <2> HIDE DEF until
  <2>1. QED
    BY <1>1, <1>2
<1>4. QED
  BY <1>3

(* An update that is over leaves nothing to be written.                    *)
LEMMA AfterOK ==
  ASSUME NEW q \in Request, ReqOK(q), q.job # "none",
         NEW written \in BOOLEAN, NEW lostRace \in BOOLEAN
  PROVE  After(q, written, lostRace) \in Request /\ ReqOK(After(q, written, lostRace))
<1>1. q.new.of \in Forms
  BY DEF Request, Hash
<1>2. ASSUME NEW res \in Results
      PROVE  Done(res) \in Request /\ ReqOK(Done(res))
  BY <1>1, <1>2, DoneType DEF ReqOK
<1>3. CASE q.job = "rehash"
  <2>1. After(q, written, lostRace) = [q EXCEPT !.pc = "status"]
    BY <1>3 DEF After
  <2>2. [q EXCEPT !.pc = "status"] \in Request
    BY DEF Request, PCs
  <2>3. ReqOK([q EXCEPT !.pc = "status"])
    BY <1>3 DEF ReqOK, Upgrade, Request
  <2>4. QED
    BY <2>1, <2>2, <2>3
<1>4. CASE q.job # "rehash"
  <2>1. \E res \in Results : After(q, written, lostRace) = Done(res)
    BY <1>4 DEF After, Results, Request, Jobs
  <2>2. QED
    BY <2>1, <1>2
<1>5. QED
  BY <1>3, <1>4

-----------------------------------------------------------------------------
(* Steps.                                                                  *)

(* A request that does not move keeps its part of the invariant: a row     *)
(* that was written has a new version, so a pending write will not land.   *)
LEMMA RequestFrame ==
  ASSUME NEW q \in Request, ReqOK(q), row \in Row, row' \in Row, policy' = policy,
         row' = row \/ row'.version = row.version + 1
  PROVE  ReqOK(q)'
<1> SUFFICES ASSUME q.pc = "write"
             PROVE  WriteOK(q)'
  BY DEF ReqOK, Upgrade, normalizePassword
<1>1. q.cur.version \in Nat /\ row.version \in Nat /\ row'.version \in Nat
  BY DEF Request, Row
<1>2. WriteOK(q)
  BY DEF ReqOK
<1>3. CASE row' = row
  BY <1>2, <1>3, Zenon DEF WriteOK, VersionMatches, Guard, RehashGuard, verifyOld,
     verifyPassword, normalizePassword, Mutated, Failed, Cleared, lockoutBackoff
<1>4. CASE row'.version = row.version + 1
  <2>1. q.cur.version <= row'.version /\ q.cur.version # row'.version
    BY <1>1, <1>2, <1>4 DEF WriteOK
  <2>2. QED
    BY <1>2, <2>1 DEF WriteOK, VersionMatches, lockoutBackoff
<1>5. QED
  BY <1>3, <1>4

(* A step of request r that leaves it as p, with everything else in place. *)
LEMMA RequestStep ==
  ASSUME IInv, NEW r \in Requests, NEW p \in Request, Put(r, p), ReqOK(p)',
         TypeOK', policy' = policy, row' = row \/ row'.version = row.version + 1,
         AttemptsCounted', HashOfCurrentPassword', AcceptedStaysAccepted', LegacyIsOldest'
  PROVE  IInv'
<1>1. ASSUME NEW s \in Requests
      PROVE  ReqOK(req[s])'
  <2>1. PICK q \in Request : q = req'[s]
    BY <1>1 DEF TypeOK
  <2>2. ReqOK(q)'
    <3>1. CASE s = r
      BY <2>1, <3>1 DEF Put, IInv, TypeOK
    <3>2. CASE s # r
      <4>1. q = req[s] /\ ReqOK(q)
        BY <1>1, <2>1, <3>2 DEF Put, IInv, TypeOK
      <4>2. QED
        BY <4>1, RequestFrame DEF IInv, TypeOK
    <3>3. QED
      BY <3>1, <3>2
  <2>3. QED
    BY <2>1, <2>2
<1>2. QED
  BY <1>1 DEF IInv

(* A step that writes nothing.                                             *)
LEMMA MoveStep ==
  ASSUME IInv, NEW r \in Requests, NEW p \in Request, Put(r, p), ReqOK(p),
         UNCHANGED <<policy, clock, row, fails, current, accepted>>
  PROVE  IInv'
<1>1. row \in Row /\ row' \in Row /\ policy' = policy
  BY DEF IInv, TypeOK
<1>2. ReqOK(p)'
  BY <1>1, RequestFrame
<1>3. TypeOK'
  BY DEF IInv, TypeOK, Put
<1>4. AttemptsCounted' /\ HashOfCurrentPassword' /\ AcceptedStaysAccepted' /\ LegacyIsOldest'
  BY DEF IInv, AttemptsCounted, HashOfCurrentPassword, AcceptedStaysAccepted,
     LegacyIsOldest, verifyPassword, normalizePassword
<1>5. QED
  BY <1>2, <1>3, <1>4, RequestStep

(* An upgrade starts from the password that verified, and raises the cost: *)
(* a legacy hash has the oldest parameters, and parameters that are dearer *)
(* in one respect are cheaper in none.                                     *)
LEMMA UpgradeStarts ==
  ASSUME IInv, NEW password \in Forms, NEW argon2 \in Deployed,
         verifyPassword(password, row.hash).ok,
         verifyPassword(password, row.hash).legacy \/ needsRehash(row.hash, argon2)
  PROVE  /\ NFKC[password] = NFKC[row.hash.of]
         /\ \A c \in Costs : row.hash.argon2[c] <= argon2[c]
<1>1. row.hash \in Hash /\ row.hash.of \in Forms /\ row.hash.argon2 \in Deployed
  BY DEF IInv, TypeOK, Row, Hash
<1>2. row.hash.of \in {NFKC[password], password}
  BY Zenon DEF verifyPassword, normalizePassword
<1>3. NFKC[password] = NFKC[row.hash.of]
  BY <1>2, PasswordAssumption
<1>4. CASE verifyPassword(password, row.hash).legacy
  <2>1. row.hash.of = password /\ NFKC[password] # password
    BY <1>4, Zenon DEF verifyPassword, normalizePassword
  <2>2. row.hash.argon2 = Oldest
    BY <2>1 DEF IInv, LegacyIsOldest, normalizePassword
  <2>3. QED
    BY <1>3, <2>2, PasswordAssumption
<1>5. CASE needsRehash(row.hash, argon2)
  <2>1. PICK c \in Costs : row.hash.argon2[c] < argon2[c]
    BY <1>5 DEF needsRehash
  <2>2. \A p \in Deployed, d \in Costs : p[d] \in Nat
    BY PasswordAssumption
  <2>3. ~(argon2[c] <= row.hash.argon2[c])
    BY <1>1, <2>1, <2>2
  <2>4. \/ \A d \in Costs : row.hash.argon2[d] <= argon2[d]
        \/ \A d \in Costs : argon2[d] <= row.hash.argon2[d]
    BY <1>1, PasswordAssumption
  <2>5. QED
    BY <1>3, <2>3, <2>4
<1>6. QED
  BY <1>4, <1>5

(* VerifyPassword looks the row up and compares.                           *)
LEMMA VerifyStep ==
  ASSUME IInv, NEW r \in Requests, VerifyPassword(r)
  PROVE  IInv'
<1>1. PICK password \in Forms, argon2 \in Deployed :
        LET v == verifyPassword(password, row.hash)
            q == [Idle EXCEPT !.seen = row, !.new = hashPassword(password, argon2, r)] IN
        /\ accepted' = IF v.ok THEN accepted \cup {password} ELSE accepted
        /\ Put(r, IF ~v.ok THEN [q EXCEPT !.pc = "now", !.job = "fail"]
                  ELSE IF v.legacy \/ needsRehash(row.hash, argon2)
                    THEN [q EXCEPT !.pc = "read", !.job = "rehash"]
                  ELSE [q EXCEPT !.pc = "status"])
  BY Zenon DEF VerifyPassword
<1>2. UNCHANGED <<policy, clock, row, fails, current>>
  BY DEF VerifyPassword
<1> DEFINE v == verifyPassword(password, row.hash)
           new == hashPassword(password, argon2, r)
           q == [Idle EXCEPT !.seen = row, !.new = new]
           rehash == v.legacy \/ needsRehash(row.hash, argon2)
           to == IF ~v.ok THEN [q EXCEPT !.pc = "now", !.job = "fail"]
                 ELSE IF rehash THEN [q EXCEPT !.pc = "read", !.job = "rehash"]
                 ELSE [q EXCEPT !.pc = "status"]
<1>3. row \in Row /\ row.hash.of \in Forms
  BY DEF IInv, TypeOK, Row, Hash
<1>4. /\ new \in Hash /\ new.of = NFKC[password] /\ new.argon2 = argon2
      /\ NFKC[new.of] = new.of
  BY HashType
<1>5. Idle \in Request /\ Idle.job = "none"
  BY IdleType, Zenon DEF Idle
<1>6. Put(r, to)
  BY <1>1
<1>7. v.ok /\ rehash => /\ NFKC[password] = NFKC[row.hash.of]
                        /\ \A c \in Costs : row.hash.argon2[c] <= argon2[c]
  BY UpgradeStarts
<1> HIDE DEF Idle, new, v, rehash
<1>8. q \in Request /\ q.seen = row /\ q.new = new /\ q.job = "none"
  BY <1>3, <1>4, <1>5, Zenon DEF Request
<1> HIDE DEF q
<1>9. to \in Request
  BY <1>8, Zenon DEF Request, PCs, Jobs
<1>10. ReqOK(to)
  BY <1>4, <1>7, <1>8 DEF ReqOK, Upgrade, normalizePassword, Request
<1> HIDE DEF to
<1>11. PICK p \in Request : Put(r, p) /\ ReqOK(p)'
  <2>1. PICK p \in Request : p = to
    BY <1>9
  <2>2. ReqOK(p)'
    BY <1>2, <1>3, <1>10, <2>1, RequestFrame
  <2>3. QED
    BY <1>6, <2>1, <2>2
<1>12. accepted' = IF v.ok THEN accepted \cup {password} ELSE accepted
  BY <1>1 DEF v
<1>13. TypeOK'
  BY <1>2, <1>11, <1>12 DEF IInv, TypeOK, Put
<1>14. AcceptedStaysAccepted'
  <2>1. \A f \in accepted' : verifyPassword(f, row.hash).ok
    BY <1>12 DEF IInv, AcceptedStaysAccepted, v
  <2>2. QED
    BY <1>2, <2>1 DEF AcceptedStaysAccepted, verifyPassword, normalizePassword
<1>15. AttemptsCounted' /\ HashOfCurrentPassword' /\ LegacyIsOldest'
  BY <1>2 DEF IInv, AttemptsCounted, HashOfCurrentPassword, LegacyIsOldest,
     normalizePassword
<1>16. QED
  BY <1>2, <1>11, <1>13, <1>14, <1>15, RequestStep

(* recordFailedLogin reads the clock.                                      *)
LEMMA RecordStep ==
  ASSUME IInv, NEW r \in Requests, recordFailedLogin(r)
  PROVE  IInv'
<1>1. PICK q \in Request : q = req[r] /\ ReqOK(q) /\ clock \in Nat
  BY DEF IInv, TypeOK
<1> DEFINE p == [q EXCEPT !.pc = "read", !.now = clock]
<1>2. p \in Request /\ Put(r, p) /\ q.pc = "now"
  BY <1>1, Zenon DEF recordFailedLogin, Request, PCs
<1>3. ReqOK(p)
  BY <1>1, <1>2 DEF ReqOK, Upgrade, Request
<1> HIDE DEF p
<1>4. QED
  BY <1>2, <1>3, MoveStep DEF recordFailedLogin

(* accountStatus, and whether there is something to clear.                 *)
LEMMA StatusStep ==
  ASSUME IInv, NEW r \in Requests, accountStatus(r)
  PROVE  IInv'
<1>1. PICK q \in Request : q = req[r] /\ ReqOK(q) /\ q.new.of \in Forms
  BY DEF IInv, TypeOK, Request, Hash
<1> DEFINE p == [q EXCEPT !.pc = "read", !.job = "clear", !.tries = 0]
<1>2. p \in Request /\ ReqOK(p)
  BY <1>1, Zenon DEF ReqOK, Request, PCs, Jobs
<1>3. ASSUME NEW res \in Results
      PROVE  Done(res) \in Request /\ ReqOK(Done(res))
  BY <1>1, <1>3, DoneType DEF ReqOK
<1>4. Put(r, p) \/ \E res \in Results : Put(r, Done(res))
  BY <1>1 DEF accountStatus, Results
<1>5. UNCHANGED <<policy, clock, row, fails, current, accepted>>
  BY DEF accountStatus
<1> HIDE DEF p
<1>6. QED
  BY <1>2, <1>3, <1>4, <1>5, MoveStep

(* ChangePassword and ResetPassword begin.                                 *)
LEMMA SetStep ==
  ASSUME IInv, NEW r \in Requests, NEW old \in SUBSET Forms, SetPassword(r, old)
  PROVE  IInv'
<1>1. PICK new \in Forms, argon2 \in Deployed :
        Put(r, [Idle EXCEPT !.pc = "read", !.job = "set", !.old = old,
                            !.new = hashPassword(new, argon2, r)])
  BY Zenon DEF SetPassword
<1> DEFINE hash == hashPassword(new, argon2, r)
           p == [Idle EXCEPT !.pc = "read", !.job = "set", !.old = old, !.new = hash]
<1>2. hash \in Hash /\ NFKC[hash.of] = hash.of
  BY HashType
<1>3. Idle \in Request
  BY IdleType
<1>4. Put(r, p)
  BY <1>1
<1> HIDE DEF hash, Idle
<1>5. p \in Request
  BY <1>2, <1>3, Zenon DEF Request, PCs, Jobs
<1>6. ReqOK(p)
  BY <1>2, <1>3 DEF ReqOK, Request, normalizePassword
<1> HIDE DEF p
<1>7. QED
  BY <1>4, <1>5, <1>6, MoveStep DEF SetPassword

(* The fresh read of updateUserWithRetry: the guard and the mutation.      *)
LEMMA ReadStep ==
  ASSUME IInv, NEW r \in Requests, GetUserByID(r)
  PROVE  IInv'
<1>1. PICK q \in Request : q = req[r] /\ ReqOK(q) /\ q.pc = "read"
  BY DEF IInv, TypeOK, GetUserByID
<1>2. q.job # "none" /\ row \in Row /\ policy \in Policies /\ Threshold \in Nat
  BY <1>1, PasswordAssumption DEF ReqOK, IInv, TypeOK
<1>3. UNCHANGED <<policy, clock, row, fails, current, accepted>>
  BY DEF GetUserByID
<1>4. CASE ~Guard(q)
  <2>1. Put(r, After(q, FALSE, FALSE))
    BY <1>1, <1>4, Zenon DEF GetUserByID
  <2>2. QED
    BY <1>1, <1>2, <1>3, <2>1, AfterOK, MoveStep, Zenon
<1>5. CASE Guard(q)
  <2> DEFINE locked == q.job = "fail" /\ Locks(row)
             cur == Mutated(q)
             p == [q EXCEPT !.pc = "write", !.cur = cur, !.locked = locked]
  <2>1. Put(r, p)
    BY <1>1, <1>5 DEF GetUserByID
  <2>2. cur \in Row /\ cur.version = row.version /\ row.version \in Nat
    BY <1>2, MutatedType DEF Row
  <2>3. locked => /\ cur.attempts >= Threshold
                  /\ cur.until = q.now + lockoutBackoff(cur.attempts - Threshold)
    <3> SUFFICES ASSUME locked
                 PROVE  /\ cur.attempts >= Threshold
                        /\ cur.until = q.now + lockoutBackoff(cur.attempts - Threshold)
      OBVIOUS
    <3>1. q.job = "fail" /\ row.attempts + 1 >= Threshold
      BY DEF Locks
    <3>2. /\ cur.attempts = row.attempts + 1
          /\ cur.until = q.now + lockoutBackoff(row.attempts + 1 - Threshold)
      BY <1>2, <3>1, FailedFields
    <3>3. row.attempts \in Nat
      BY <1>2 DEF Row
    <3> HIDE DEF cur
    <3>4. QED
      BY <1>2, <3>1, <3>2, <3>3
  <2>4. locked \in BOOLEAN
    BY DEF locked
  <2> HIDE DEF locked
  <2>5. Guard(p) /\ Mutated(p) = cur
    BY <1>5, Zenon DEF Guard, RehashGuard, verifyOld, Mutated, Request
  <2> HIDE DEF cur
  <2>6. p \in Request
    BY <2>2, <2>4, Zenon DEF Request, PCs
  <2>7. WriteOK(p)
    BY <2>2, <2>3, <2>5 DEF WriteOK, Request
  <2>8. ReqOK(p)
    BY <1>1, <1>2, <2>7 DEF ReqOK, Upgrade, Request
  <2> HIDE DEF p
  <2>9. QED
    BY <1>3, <2>1, <2>6, <2>8, MoveStep
<1>6. QED
  BY <1>4, <1>5

(* The landing write replaces the row by the mutation of that very row.    *)
LEMMA LandStep ==
  ASSUME IInv, NEW r \in Requests, UpdateUser(r), Land(r)
  PROVE  IInv'
<1>1. PICK q \in Request : q = req[r] /\ ReqOK(q) /\ q.pc = "write"
  BY DEF IInv, TypeOK, UpdateUser
<1>2. /\ q.job # "none" /\ row \in Row /\ policy \in Policies
      /\ Guard(q) /\ q.cur = Mutated(q)
  BY <1>1 DEF ReqOK, WriteOK, Land, IInv, TypeOK
<1>3. /\ row' = [Mutated(q) EXCEPT !.version = row.version + 1]
      /\ policy' = policy /\ clock' = clock
  BY <1>1, <1>2 DEF Land, UpdateUser
<1>4. Mutated(q) \in Row /\ row.version \in Nat /\ fails \in Nat /\ Threshold \in Nat
  BY <1>2, MutatedType, PasswordAssumption DEF Row, IInv, TypeOK
<1>5. row' \in Row /\ row'.version = row.version + 1
      /\ row'.hash = Mutated(q).hash /\ row'.attempts = Mutated(q).attempts
      /\ row'.until = Mutated(q).until
  BY <1>3, <1>4 DEF Row
<1>6. PICK p \in Request : Put(r, p) /\ ReqOK(p)'
  <2>1. PICK p \in Request : p = After(q, TRUE, FALSE) /\ ReqOK(p)
    BY <1>1, <1>2, AfterOK, Zenon
  <2>2. ReqOK(p)'
    BY <1>2, <1>3, <1>5, <2>1, RequestFrame, Zenon
  <2>3. QED
    BY <1>1, <2>1, <2>2, Zenon DEF Land
<1>7. req' \in [Requests -> Request]
  BY <1>6 DEF Put, IInv, TypeOK
<1>8. /\ normalizePassword(row.hash.of) = current
      /\ \A f \in accepted : row.hash.of \in {NFKC[f], f}
      /\ accepted \subseteq Forms /\ current \in Forms
      /\ row.attempts = fails /\ (row.until # 0 => fails >= Threshold)
  BY Zenon DEF IInv, TypeOK, HashOfCurrentPassword, AcceptedStaysAccepted, AttemptsCounted,
     verifyPassword, normalizePassword
<1>9. CASE q.job \in {"fail", "clear"}
  <2>1. row'.hash = row.hash /\ UNCHANGED <<current, accepted>>
    BY <1>1, <1>2, <1>5, <1>9 DEF Mutated, Failed, Cleared, Row, Land
  <2>2. HashOfCurrentPassword' /\ AcceptedStaysAccepted' /\ LegacyIsOldest'
    BY <2>1 DEF IInv, HashOfCurrentPassword, AcceptedStaysAccepted, LegacyIsOldest,
       verifyPassword, normalizePassword
  <2>3. fails' \in Nat /\ AttemptsCounted'
    <3>1. CASE q.job = "fail"
      <4>1. /\ row'.attempts = fails + 1 /\ fails' = fails + 1
            /\ fails + 1 < Threshold => row'.until = row.until
        BY <1>1, <1>2, <1>4, <1>5, <1>8, <3>1, FailedFields DEF Land
      <4>2. QED
        BY <1>4, <1>8, <4>1 DEF AttemptsCounted
    <3>2. CASE q.job = "clear"
      BY <1>1, <1>2, <1>4, <1>5, <3>2, Zenon DEF Mutated, Cleared, Row, Land, AttemptsCounted
    <3>3. QED
      BY <1>9, <3>1, <3>2
  <2>4. TypeOK'
    BY <1>3, <1>5, <1>7, <2>1, <2>3 DEF IInv, TypeOK
  <2>5. QED
    BY <1>3, <1>5, <1>6, <2>2, <2>3, <2>4, RequestStep
<1>10. CASE q.job = "rehash"
  <2>1. /\ row'.hash = q.new /\ row'.attempts = row.attempts /\ row'.until = row.until
        /\ UNCHANGED <<current, accepted, fails>>
    BY <1>1, <1>2, <1>5, <1>10 DEF Mutated, Row, Land
  <2>2. q.new.of = NFKC[row.hash.of] /\ NFKC[q.new.of] = q.new.of
    BY <1>1, <1>2, <1>10 DEF ReqOK, Upgrade, Guard, RehashGuard, normalizePassword
  <2>3. HashOfCurrentPassword' /\ LegacyIsOldest'
    BY <1>8, <2>1, <2>2 DEF HashOfCurrentPassword, LegacyIsOldest, normalizePassword
  <2>4. AcceptedStaysAccepted'
    <3>1. \A f \in accepted : NFKC[row.hash.of] = NFKC[f]
      BY <1>8, PasswordAssumption
    <3>2. QED
      BY <2>1, <2>2, <3>1, Zenon DEF AcceptedStaysAccepted, verifyPassword, normalizePassword
  <2>5. AttemptsCounted'
    BY <1>8, <2>1 DEF AttemptsCounted
  <2>6. TypeOK'
    BY <1>3, <1>5, <1>7, <2>1 DEF IInv, TypeOK
  <2>7. QED
    BY <1>3, <1>5, <1>6, <2>3, <2>4, <2>5, <2>6, RequestStep
<1>11. CASE q.job = "set"
  <2>1. /\ row'.hash = q.new /\ row'.attempts = 0 /\ row'.until = 0
        /\ current' = NFKC[q.new.of] /\ accepted' = {} /\ fails' = 0
    BY <1>1, <1>2, <1>5, <1>11, Zenon DEF Mutated, Cleared, Row, Land, normalizePassword
  <2>2. NFKC[q.new.of] = q.new.of /\ q.new.of \in Forms
    BY <1>1, <1>11 DEF ReqOK, normalizePassword, Request, Hash
  <2>3. /\ HashOfCurrentPassword' /\ LegacyIsOldest' /\ AcceptedStaysAccepted'
        /\ AttemptsCounted'
    BY <2>1, <2>2 DEF HashOfCurrentPassword, LegacyIsOldest, AcceptedStaysAccepted,
       AttemptsCounted, normalizePassword
  <2>4. TypeOK'
    BY <1>2, <1>3, <1>5, <1>7, <2>1, <2>2, SMTT(30) DEF IInv, TypeOK
  <2>5. QED
    BY <1>3, <1>5, <1>6, <2>3, <2>4, RequestStep
<1>12. QED
  BY <1>2, <1>9, <1>10, <1>11 DEF Request, Jobs

(* A write that lost the race is retried, or gives up.                     *)
LEMMA ConflictStep ==
  ASSUME IInv, NEW r \in Requests, UpdateUser(r), Conflict(r)
  PROVE  IInv'
<1>1. PICK q \in Request : q = req[r] /\ ReqOK(q) /\ q.pc = "write"
  BY DEF IInv, TypeOK, UpdateUser
<1>2. q.job # "none" /\ UNCHANGED <<policy, clock, row, fails, current, accepted>>
  BY <1>1 DEF ReqOK, UpdateUser, Conflict
<1> DEFINE p == [q EXCEPT !.tries = q.tries + 1, !.pc = "read"]
<1>3. Put(r, After(q, FALSE, TRUE)) \/ Put(r, p)
  BY <1>1, Zenon DEF Conflict
<1>4. p \in Request
  <2>1. \A n \in Nat : [q EXCEPT !.tries = n, !.pc = "read"] \in Request
    BY Zenon DEF Request, PCs
  <2>2. q.tries + 1 \in Nat
    BY DEF Request
  <2>3. QED
    BY <2>1, <2>2, Zenon
<1>5. ReqOK(p)
  BY <1>1, <1>2 DEF ReqOK, Upgrade, Request
<1> HIDE DEF p
<1>6. QED
  BY <1>1, <1>2, <1>3, <1>4, <1>5, AfterOK, MoveStep, Zenon

(* The store fails a read or a write.                                      *)
LEMMA ErrorStep ==
  ASSUME IInv, NEW r \in Requests, StoreError(r)
  PROVE  IInv'
<1>1. PICK q \in Request : q = req[r] /\ ReqOK(q) /\ q.pc \in {"read", "write"}
  BY DEF IInv, TypeOK, StoreError
<1>2. /\ q.job # "none" /\ Put(r, After(q, FALSE, FALSE))
      /\ UNCHANGED <<policy, clock, row, fails, current, accepted>>
  BY <1>1, Zenon DEF ReqOK, StoreError
<1>3. QED
  BY <1>1, <1>2, AfterOK, MoveStep, Zenon

(* A step that leaves the row and the requests alone.                      *)
LEMMA StillStep ==
  ASSUME IInv, UNCHANGED <<policy, row, req, fails, current, accepted>>, clock' \in Nat
  PROVE  IInv'
<1>1. TypeOK'
  BY DEF IInv, TypeOK
<1>2. AttemptsCounted' /\ HashOfCurrentPassword' /\ AcceptedStaysAccepted' /\ LegacyIsOldest'
  BY DEF IInv, AttemptsCounted, HashOfCurrentPassword, AcceptedStaysAccepted,
     LegacyIsOldest, verifyPassword, normalizePassword
<1>3. ASSUME NEW s \in Requests
      PROVE  ReqOK(req[s])'
  <2>1. PICK q \in Request : q = req[s] /\ ReqOK(q)
    BY <1>3 DEF IInv, TypeOK
  <2>2. ReqOK(q)'
    BY <2>1, RequestFrame DEF IInv, TypeOK
  <2>3. QED
    BY <2>1, <2>2
<1>4. QED
  BY <1>1, <1>2, <1>3 DEF IInv

(* The row found at the start satisfies the invariant.                     *)
LEMMA InitOK == Init => IInv
<1> SUFFICES ASSUME Init
             PROVE  IInv
  OBVIOUS
<1>0. \A r \in Requests : ReqOK(req[r])
  <2>1. Idle.pc = "idle" /\ Idle.job = "none"
    BY DEF Idle
  <2>2. req = [r \in Requests |-> Idle]
    BY DEF Init
  <2> HIDE DEF Idle
  <2>3. QED
    BY <2>1, <2>2, Zenon DEF ReqOK
<1>1. PICK h \in {hashPassword(f, p, None) : f \in Forms, p \in Deployed}
                 \cup {[of |-> f, argon2 |-> Oldest, salt |-> None] : f \in Forms} :
        row = [NoRow EXCEPT !.hash = h] /\ current = normalizePassword(h.of)
  BY DEF Init
<1>2. h \in Hash /\ (normalizePassword(h.of) # h.of => h.argon2 = Oldest)
  <2>1. CASE \E f \in Forms, p \in Deployed : h = hashPassword(f, p, None)
    BY <2>1, HashType DEF normalizePassword
  <2>2. CASE \E f \in Forms : h = [of |-> f, argon2 |-> Oldest, salt |-> None]
    BY <2>2, PasswordAssumption, SMT, SMTT(30) DEF Hash
  <2>3. QED
    BY <2>1, <2>2
<1>3. h.of \in Forms /\ normalizePassword(h.of) \in Forms
  BY <1>2, PasswordAssumption DEF Hash, normalizePassword
<1>4. NoRow \in Row /\ Idle \in Request
  BY <1>3, IdleType
<1>5. NoRow.attempts = 0 /\ NoRow.until = 0
  BY DEF NoRow
<1>6. /\ policy \in Policies /\ clock = 1 /\ fails = 0 /\ accepted = {}
      /\ req = [r \in Requests |-> Idle]
  BY DEF Init
<1> HIDE DEF NoRow, Idle
<1>7. row \in Row /\ row.hash = h /\ row.attempts = 0 /\ row.until = 0
  BY <1>1, <1>2, <1>4, <1>5 DEF Row
<1>8. TypeOK
  BY <1>1, <1>3, <1>4, <1>6, <1>7 DEF TypeOK
<1>9. AttemptsCounted /\ HashOfCurrentPassword /\ AcceptedStaysAccepted /\ LegacyIsOldest
  BY <1>1, <1>2, <1>6, <1>7
     DEF AttemptsCounted, HashOfCurrentPassword, AcceptedStaysAccepted, LegacyIsOldest
<1>10. QED
  BY <1>0, <1>8, <1>9 DEF IInv

(* Every step keeps the invariant.                                         *)
LEMMA NextOK == IInv /\ [Next]_vars => IInv'
<1> SUFFICES ASSUME IInv, [Next]_vars
             PROVE  IInv'
  OBVIOUS
<1>1. CASE UNCHANGED vars
  BY <1>1, StillStep DEF vars, IInv, TypeOK
<1>2. CASE Tick
  <2>1. clock' \in Nat
    BY <1>2 DEF Tick, IInv, TypeOK
  <2>2. QED
    BY <1>2, <2>1, StillStep DEF Tick
<1>3. ASSUME NEW r \in Requests, VerifyPassword(r)
      PROVE  IInv'
  BY <1>3, VerifyStep
<1>4. ASSUME NEW r \in Requests, ChangePassword(r) \/ ResetPassword(r)
      PROVE  IInv'
  BY <1>4, SetStep, Zenon DEF ChangePassword, ResetPassword
<1>5. ASSUME NEW r \in Requests, recordFailedLogin(r)
      PROVE  IInv'
  BY <1>5, RecordStep
<1>6. ASSUME NEW r \in Requests, accountStatus(r)
      PROVE  IInv'
  BY <1>6, StatusStep
<1>7. ASSUME NEW r \in Requests, GetUserByID(r)
      PROVE  IInv'
  BY <1>7, ReadStep
<1>8. ASSUME NEW r \in Requests, UpdateUser(r)
      PROVE  IInv'
  BY <1>8, LandStep, ConflictStep DEF UpdateUser
<1>9. ASSUME NEW r \in Requests, StoreError(r)
      PROVE  IInv'
  BY <1>9, ErrorStep
<1>10. QED
  BY <1>1, <1>2, <1>3, <1>4, <1>5, <1>6, <1>7, <1>8, <1>9 DEF Next

(* A step of the composition is a step of Password, or leaves it alone.    *)
LEMMA RowSteps ==
  [Screening \/ UseRow]_<<screening, vars, screenVars>> => [Next]_vars
BY DEF Screening, UseRow

(* The invariant holds throughout.                                         *)
LEMMA Invariance == PasswordsSpec => []IInv
<1>1. PasswordsInit => IInv
  BY InitOK DEF PasswordsInit
<1>2. QED
  BY <1>1, NextOK, RowSteps, PTL DEF PasswordsSpec

-----------------------------------------------------------------------------
(* The theorems about Password.                                            *)

(* recordFailedLogin's count is exact and a lockout is never early: with   *)
(* any number of failures, logins, upgrades and resets racing on the row.  *)
THEOREM FailuresAreCounted == PasswordsSpec => []AttemptsCounted
BY Invariance, PTL DEF IInv

(* No race of VerifyPassword's upgrade, recordFailedLogin or               *)
(* clearFailedLogins with setPassword brings a replaced password back.     *)
THEOREM ReplacedPasswordStaysReplaced == PasswordsSpec => []HashOfCurrentPassword
BY Invariance, PTL DEF IInv

(* verifyPassword goes on accepting whatever it accepted until the         *)
(* password is set anew, through every upgrade of the hash.                *)
THEOREM OwnerIsNotLockedOut == PasswordsSpec => []AcceptedStaysAccepted
BY Invariance, PTL DEF IInv

(* lockoutBackoff's arithmetic: for every threshold, policy, clamp and     *)
(* width whose largest shift does not overflow, the deadline recorded is   *)
(* the doubled backoff or max, after any number of failures.               *)
THEOREM BackoffNeverShorter == PasswordsSpec => []NeverShorterThanIntended
<1>1. IInv => NeverShorterThanIntended
  <2> SUFFICES ASSUME IInv, NEW r \in Requests, req[r].pc = "write", req[r].locked
               PROVE  LET excess == req[r].cur.attempts - Threshold
                          doubled == policy.base
                                     * pow2[IF excess > MaxShift THEN MaxShift ELSE excess]
                          backoff == req[r].cur.until - req[r].now IN
                      backoff = IF doubled > policy.max THEN policy.max ELSE doubled
    BY DEF NeverShorterThanIntended
  <2>1. PICK q \in Request : q = req[r] /\ ReqOK(q)
    BY DEF IInv, TypeOK
  <2>2. /\ q.cur.attempts >= Threshold
        /\ q.cur.until = q.now + lockoutBackoff(q.cur.attempts - Threshold)
    BY <2>1 DEF ReqOK, WriteOK
  <2>3. q.cur.attempts \in Nat /\ Threshold \in Nat /\ q.now \in Nat /\ policy \in Policies
    BY PasswordAssumption DEF Request, Row, IInv, TypeOK
  <2> DEFINE excess == q.cur.attempts - Threshold
             doubled == policy.base * pow2[clamp(excess)]
  <2>4. excess \in Nat
    BY <2>2, <2>3, SMTT(30)
  <2> HIDE DEF excess
  <2>5. /\ lockoutBackoff(excess) = IF doubled > policy.max THEN policy.max ELSE doubled
        /\ lockoutBackoff(excess) \in Nat
    BY <2>3, <2>4, BackoffAsIntended
  <2>6. q.cur.until - q.now = lockoutBackoff(excess)
    BY <2>2, <2>3, <2>5 DEF excess
  <2>7. QED
    BY <2>1, <2>5, <2>6 DEF clamp, excess
<1>2. QED
  BY <1>1, Invariance, PTL

(* needsRehash and the upgrade's guard: only setting the password anew     *)
(* lowers a cost of the stored hash.                                       *)
THEOREM HashesAreNeverWeakened == PasswordsSpec => NeverWeakened
<1> DEFINE Kept == (\A r \in Requests : req[r].job = "set" => req'[r] = req[r]) =>
                     \A c \in Costs : row'.hash.argon2[c] >= row.hash.argon2[c]
<1>1. IInv /\ [Next]_vars => Kept
  <2> SUFFICES ASSUME IInv, [Next]_vars,
                      \A r \in Requests : req[r].job = "set" => req'[r] = req[r],
                      NEW c \in Costs
               PROVE  row'.hash.argon2[c] >= row.hash.argon2[c]
    OBVIOUS
  <2>1. row.hash.argon2[c] \in Nat /\ row.hash.of \in Forms
    BY PasswordAssumption DEF IInv, TypeOK, Row, Hash
  <2>2. CASE row' = row
    BY <2>1, <2>2
  <2>3. ASSUME NEW r \in Requests, UpdateUser(r), Land(r)
        PROVE  row'.hash.argon2[c] >= row.hash.argon2[c]
    <3>1. PICK q \in Request : q = req[r] /\ ReqOK(q) /\ q.pc = "write"
      BY <2>3 DEF IInv, TypeOK, UpdateUser
    <3>2. /\ Guard(q) /\ q.cur = Mutated(q) /\ q.job # "none"
          /\ row \in Row /\ policy \in Policies
      BY <2>3, <3>1 DEF ReqOK, WriteOK, Land, IInv, TypeOK
    <3>3. row'.hash = Mutated(q).hash
      <4>1. Mutated(q) \in Row
        BY <3>2, MutatedType
      <4>2. QED
        BY <2>3, <3>1, <3>2, <4>1 DEF Land, Row
    <3>4. CASE q.job \in {"fail", "clear"}
      BY <2>1, <3>2, <3>3, <3>4 DEF Mutated, Failed, Cleared, Row
    <3>5. CASE q.job = "rehash"
      <4>1. row'.hash = q.new /\ row.hash = q.seen.hash /\ Upgrade(q)
        BY <3>1, <3>2, <3>3, <3>5 DEF Mutated, Row, ReqOK, Guard, RehashGuard
      <4>2. q.new.argon2[c] \in Nat
        BY PasswordAssumption, SMT, SMTT(30) DEF Request, Hash
      <4>3. QED
        BY <2>1, <4>1, <4>2 DEF Upgrade
    <3>6. CASE q.job = "set"
      <4>1. req'[r] = After(q, TRUE, FALSE)
        BY <2>3, <3>1 DEF Land, Put, IInv, TypeOK
      <4>2. After(q, TRUE, FALSE).pc = "done"
        BY <2>1, <3>6, DoneType DEF After, Results
      <4>3. QED
        BY <3>1, <3>6, <4>1, <4>2, Zenon
    <3>7. QED
      BY <3>2, <3>4, <3>5, <3>6 DEF Request, Jobs
  <2>4. QED
    BY <2>2, <2>3, Zenon DEF Next, vars, Tick, VerifyPassword, ChangePassword, ResetPassword,
       SetPassword, recordFailedLogin, accountStatus, GetUserByID, UpdateUser, Conflict,
       StoreError
<1>2. IInv /\ [Next]_vars => [Kept]_vars
  BY <1>1
<1>3. QED
  BY <1>2, Invariance, RowSteps, PTL DEF PasswordsSpec, NeverWeakened

-----------------------------------------------------------------------------
(* The screening of a new password.                                        *)

(* The rows the scanner has passed are of no account, and a response that  *)
(* never arrived has none.                                                 *)
ScreenInv ==
  /\ pc \in {"policy", "blocklist", "hibp", "lookup", "scan", "done"}
  /\ length \in Nat /\ listed \in BOOLEAN /\ failClosed \in BOOLEAN
  /\ body \in Seq(Screen!Rows) /\ transport \in Screen!Transports
  /\ transport \in {"unreachable", "status"} => body = <<>>
  /\ pc # "done" => answer = "none"
  /\ pc \in {"lookup", "scan"} => length > 0
  /\ pc = "scan" => transport \in {"broken", "whole"}
  /\ next \in Nat \ {0} /\ next <= Len(body) + 1 /\ next <= maxHIBPResponse + 1
  /\ \A i \in 1 .. Len(body) : i < next => body[i] \notin {"hit", "unparsable"}
  /\ CompromisedMeansSeen /\ AcceptedOnWholeAnswer

(* The screening begins with nothing read.                                 *)
LEMMA ScreenInitOK == Screen!Init => ScreenInv
<1> SUFFICES ASSUME Screen!Init
             PROVE  ScreenInv
  OBVIOUS
<1>1. body \in Seq(Screen!Rows) /\ (transport \in {"unreachable", "status"} => body = <<>>)
  <2>1. CASE transport \in {"broken", "whole"}
    <3>1. PICK n \in 0 .. MaxRows : body \in [1 .. n -> Screen!Rows]
      BY <2>1 DEF Screen!Init
    <3>2. n \in Nat
      BY PolicyAssumption
    <3>3. QED
      BY <2>1, <3>1, <3>2
  <2>2. CASE transport \notin {"broken", "whole"}
    BY <2>2 DEF Screen!Init
  <2>3. QED
    BY <2>1, <2>2
<1>2. /\ pc = "policy" /\ next = 1 /\ answer = "none" /\ length \in Nat
      /\ listed \in BOOLEAN /\ failClosed \in BOOLEAN /\ transport \in Screen!Transports
  BY PolicyAssumption DEF Screen!Init
<1>3. Len(body) \in Nat
  BY <1>1
<1>4. QED
  BY <1>1, <1>2, <1>3, PolicyAssumption
     DEF ScreenInv, CompromisedMeansSeen, AcceptedOnWholeAnswer

(* Every step of the screening keeps the invariant.                        *)
LEMMA ScreenNextOK == ScreenInv /\ [Screen!Next]_screenVars => ScreenInv'
<1> SUFFICES ASSUME ScreenInv, [Screen!Next]_screenVars
             PROVE  ScreenInv'
  OBVIOUS
<1>0. /\ Len(body) \in Nat /\ maxHIBPResponse \in Nat
      /\ MinPasswordLength \in Nat /\ MaxPasswordLength \in Nat
  BY PolicyAssumption DEF ScreenInv
<1>1. CASE UNCHANGED screenVars
  BY <1>1 DEF screenVars, ScreenInv, CompromisedMeansSeen, AcceptedOnWholeAnswer, HasRow
<1>2. CASE Screen!checkPasswordPolicy
  BY <1>0, <1>2, SMT, SMTT(30) DEF Screen!checkPasswordPolicy, Screen!Return, Screen!Goto, Screen!input,
     ScreenInv, CompromisedMeansSeen, AcceptedOnWholeAnswer, HasRow
<1>3. CASE Screen!BlocklistCheck
  BY <1>0, <1>3 DEF Screen!BlocklistCheck, Screen!NextChecker, Screen!Return, Screen!Goto,
     Screen!input, ScreenInv, CompromisedMeansSeen, AcceptedOnWholeAnswer, HasRow
<1>4. CASE Screen!HIBPCheck
  BY <1>0, <1>4, SMT, SMTT(30) DEF Screen!HIBPCheck, Screen!Return, Screen!Goto, Screen!input,
     ScreenInv, CompromisedMeansSeen, AcceptedOnWholeAnswer, HasRow
<1>5. CASE Screen!lookup
  BY <1>0, <1>5, SMT, SMTT(30) DEF Screen!lookup, Screen!NoVerdict, Screen!Return, Screen!Goto,
     Screen!input, Screen!Transports, ScreenInv, CompromisedMeansSeen,
     AcceptedOnWholeAnswer, HasRow
<1>6. CASE Screen!ScanRow
  BY <1>0, <1>6, SMT, SMTT(30) DEF Screen!ScanRow, Screen!Within, Screen!Verdict, Screen!NoVerdict,
     Screen!Return, Screen!input, Screen!Rows, ScreenInv, CompromisedMeansSeen,
     AcceptedOnWholeAnswer, HasRow
<1>7. CASE Screen!ScanEnd
  BY <1>0, <1>7, SMT, SMTT(30) DEF Screen!ScanEnd, Screen!Within, Screen!ReadError, Screen!NoVerdict,
     Screen!Return, Screen!input, ScreenInv, CompromisedMeansSeen,
     AcceptedOnWholeAnswer, HasRow
<1>8. QED
  BY <1>1, <1>2, <1>3, <1>4, <1>5, <1>6, <1>7 DEF Screen!Next

(* The invariant of the screening holds throughout.                        *)
LEMMA ScreenInvariance == PasswordsSpec => []ScreenInv
<1>1. PasswordsInit => ScreenInv
  BY ScreenInitOK DEF PasswordsInit
<1>2. [Screening \/ UseRow]_<<screening, vars, screenVars>> => [Screen!Next]_screenVars
  BY DEF Screening, UseRow
<1>3. QED
  BY <1>1, <1>2, ScreenNextOK, PTL DEF PasswordsSpec

(* What lookup and Check of src/passwordcheck answer, for a response of    *)
(* any length, any limits and either failure mode: a compromised password  *)
(* was seen in the data, and one seen within the limit is reported.        *)
THEOREM VerdictsRestOnData == PasswordsSpec => []CompromisedMeansSeen
BY ScreenInvariance, PTL DEF ScreenInv

(* WithHIBPFailClosed: nothing is accepted on a response that broke off or *)
(* has a row of the suffix that does not parse.                            *)
THEOREM FailClosedAcceptsOnWholeAnswers == PasswordsSpec => []AcceptedOnWholeAnswer
BY ScreenInvariance, PTL DEF ScreenInv

=============================================================================
