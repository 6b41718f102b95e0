------------------------------ MODULE Limiter ------------------------------
(***************************************************************************)
(* MemoryLimiter (src/limiter.go), the token-bucket rate limiter, and the  *)
(* flows that consult it.  Allow reads the clock before it takes the       *)
(* mutex, so a caller may enter with a time older than the bucket's.       *)
(*                                                                         *)
(* One tick of the clock is worth one credit and a token is worth          *)
(* budget.interval credits: the fractional tokens of the code, exactly.    *)
(***************************************************************************)
EXTENDS Integers, FiniteSets, Sequences

CONSTANTS Requests,
          Budgets,     \* key prefix -> budget (NewMemoryLimiter, WithBudget)
          fallback,    \* budget of a key no prefix matches
          maxKeys,     \* WithMaxTrackedKeys
          IPs, Emails,
          Flows,       \* the flows that may be called
          MaxTime      \* bound on the clock

VARIABLES clock,
          tracked,     \* the keys of l.buckets
          bucket,      \* their buckets; meaningless for other keys
          req,
          forgotten    \* history: the keys whose bucket was dropped

vars == <<clock, tracked, bucket, req, forgotten>>

NoIP == "none"

Keys == {<<s, "ip", i>> : s \in {"password", "reset", "magic", "register"}, i \in IPs}
        \cup {<<s, e>> : s \in {"password", "reset", "magic"}, e \in Emails}

(* The budget of the longest prefix that matches.                          *)
Matching(key) ==
  {p \in DOMAIN Budgets : Len(key) >= Len(p) /\ SubSeq(key, 1, Len(p)) = p}

budgetFor(key) ==
  IF Matching(key) = {} THEN fallback
  ELSE Budgets[CHOOSE p \in Matching(key) :
                 \A q \in Matching(key) : Len(q) <= Len(p)]

interval(key) == budgetFor(key).interval

full(key) == budgetFor(key).burst * budgetFor(key).interval

Unlimited(key) == budgetFor(key).burst <= 0 \/ budgetFor(key).interval <= 0

Min2(a, b) == IF a <= b THEN a ELSE b

-----------------------------------------------------------------------------
(* The keys that a flow asks for, in order; a request without an address   *)
(* has no IP key.                                                          *)

allowIP(scope, ip) == IF ip = NoIP THEN <<>> ELSE << <<scope, "ip", ip>> >>

MutVerifyPassword(ip, email) ==
  << <<"password", email>> >> \o allowIP("password", ip)

VerifyPassword(ip, email) ==
  allowIP("password", ip) \o << <<"password", email>> >>

createPasswordResetToken(ip, email) ==
  allowIP("reset", ip) \o << <<"reset", email>> >>

CreateMagicLinkToken(ip, email) ==
  allowIP("magic", ip) \o << <<"magic", email>> >>

Register(ip, email) == allowIP("register", ip)

Asks(flow, ip, email) ==
  CASE flow = "VerifyPassword" -> VerifyPassword(ip, email)
    [] flow = "createPasswordResetToken" -> createPasswordResetToken(ip, email)
    [] flow = "CreateMagicLinkToken" -> CreateMagicLinkToken(ip, email)
    [] flow = "Register" -> Register(ip, email)

-----------------------------------------------------------------------------

(* todo: the keys still to be asked for; granted: those that were; at: the *)
(* time read and not yet used.                                             *)
Start(r) ==
  \E flow \in Flows, ip \in IPs \cup {NoIP}, email \in Emails :
    /\ req[r].pc = "idle"
    /\ req' = [req EXCEPT ![r].pc = "allow", ![r].ip = ip,
                          ![r].todo = Asks(flow, ip, email)]
    /\ UNCHANGED <<clock, tracked, bucket, forgotten>>

Answer(r, key) ==
  req' = [req EXCEPT ![r].pc = "allow", ![r].todo = Tail(@),
                     ![r].granted = @ \cup {key}]

Refuse(r) == req' = [req EXCEPT ![r].pc = "refused", ![r].todo = <<>>]

Finish(r) ==
  /\ req[r].pc = "allow" /\ req[r].todo = <<>>
  /\ req' = [req EXCEPT ![r].pc = "allowed"]
  /\ UNCHANGED <<clock, tracked, bucket, forgotten>>

(* Allow up to the mutex.                                                  *)
readClock(r) ==
  /\ req[r].pc = "allow" /\ req[r].todo # <<>>
  /\ IF Unlimited(Head(req[r].todo))
       THEN Answer(r, Head(req[r].todo))
       ELSE req' = [req EXCEPT ![r].pc = "lock", ![r].at = clock]
  /\ UNCHANGED <<clock, tracked, bucket, forgotten>>

Refilled(key) ==
  bucket[key].credit + (clock - bucket[key].last) >= full(key)

(* What the eviction leaves: refilled buckets go first, then an oldest.    *)
evictIfNeededLocked(kept) ==
  LET rest == {k \in tracked : ~Refilled(k)} IN
  IF Cardinality(tracked) < maxKeys THEN kept = tracked
  ELSE IF Cardinality(rest) < maxKeys THEN kept = rest
  ELSE \E oldest \in rest :
         /\ \A k \in rest : bucket[oldest].last <= bucket[k].last
         /\ kept = rest \ {oldest}

(* used and created are for the properties: what the bucket has given, and *)
(* since when.                                                             *)
NewBucket(key, now) ==
  [credit |-> full(key), last |-> now, created |-> now, used |-> 0]

MutTopUp(key, now) ==
  LET b == bucket[key]
      refill == now - b.last IN
  [b EXCEPT !.credit = IF refill > 0 THEN Min2(full(key), @ + refill) ELSE @,
            !.last = now]

TopUp(key, now) ==
  LET b == bucket[key]
      refill == now - b.last IN
  IF refill > 0 THEN [b EXCEPT !.credit = Min2(full(key), @ + refill), !.last = now]
  ELSE b

Spend(r, key, b) ==
  IF b.credit < interval(key)
    THEN bucket' = [bucket EXCEPT ![key] = b] /\ Refuse(r)
    ELSE /\ bucket' = [bucket EXCEPT ![key] = [b EXCEPT !.credit = @ - interval(key),
                                                        !.used = @ + interval(key)]]
         /\ Answer(r, key)

(* Allow under the mutex.                                                  *)
Allow(r) ==
  LET key == Head(req[r].todo)
      now == req[r].at IN
  /\ req[r].pc = "lock"
  /\ \/ /\ key \in tracked
        /\ Spend(r, key, TopUp(key, now))
        /\ UNCHANGED <<tracked, forgotten>>
     \/ /\ key \notin tracked
        /\ \E kept \in SUBSET tracked :
             /\ evictIfNeededLocked(kept)
             /\ tracked' = kept \cup {key}
             /\ forgotten' = forgotten \cup (tracked \ kept)
        /\ Spend(r, key, NewBucket(key, now))
  /\ UNCHANGED clock

Tick ==
  /\ clock < MaxTime
  /\ clock' = clock + 1
  /\ UNCHANGED <<tracked, bucket, req, forgotten>>

Idle == [pc |-> "idle", ip |-> NoIP, todo |-> <<>>, granted |-> {}, at |-> 0]

Init ==
  /\ clock = 0 /\ tracked = {} /\ forgotten = {}
  /\ bucket = [k \in Keys |-> NewBucket(k, 0)]
  /\ req = [r \in Requests |-> Idle]

Next ==
  \/ Tick
  \/ \E r \in Requests : Start(r) \/ readClock(r) \/ Allow(r) \/ Finish(r)

=============================================================================
