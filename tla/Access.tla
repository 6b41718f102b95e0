------------------------------- MODULE Access -------------------------------
(***************************************************************************)
(* What a client's requests have to pass: on the way to a sign-in the rate *)
(* limiter (Limiter), with the session afterwards ValidateSession and the  *)
(* gates behind it (Session).  The limiter keeps its buckets in memory and *)
(* shares nothing with the session rows, so a behaviour is of one or of    *)
(* the other.                                                              *)
(***************************************************************************)
EXTENDS Session, FiniteSets

CONSTANTS Budgets, fallback, maxKeys, IPs, Emails, Flows

VARIABLES signedIn,   \* whether the requests carry a session
          tracked, bucket, asks, forgotten

Limits == INSTANCE Limiter WITH req <- asks

ASSUME LimiterAssumption ==
  /\ \A key \in Limits!Keys : Limits!budgetFor(key) \in [burst : Int, interval : Int]
  /\ Flows \subseteq {"VerifyPassword", "createPasswordResetToken",
                      "CreateMagicLinkToken", "Register"}
  /\ maxKeys \in Nat \ {0}
  /\ IsFiniteSet(Requests) /\ Limits!NoIP \notin IPs

sessionVars == <<IdleTimeout, status, rows, used, proofs, active, minted, req>>

limiterVars == <<tracked, bucket, asks, forgotten>>

AccessInit == signedIn \in BOOLEAN /\ Init /\ Limits!Init

Limited == ~signedIn /\ Limits!Next /\ UNCHANGED <<signedIn, sessionVars>>

WithSession == signedIn /\ Next /\ UNCHANGED <<signedIn, limiterVars>>

AccessSpec == AccessInit /\ [][Limited \/ WithSession]_<<signedIn, vars, limiterVars>>

-----------------------------------------------------------------------------

(* A bucket never gives more than a full burst and a token per interval of *)
(* its life, although callers enter with times older than its own (Allow   *)
(* reads now before it locks): no time is credited twice.                  *)
AdmissionBound ==
  \A k \in tracked :
    /\ bucket[k].used <= Limits!full(k) + (bucket[k].last - bucket[k].created)
    /\ bucket[k].last <= clock /\ bucket[k].credit >= 0

(* Requests from ip that were given a token of an account.                 *)
Charged(scope, ip) ==
  {r \in Requests : asks[r].ip = ip /\ \E e \in Emails : <<scope, e>> \in asks[r].granted}

(* While its bucket is kept, one host takes at most its own budget's worth *)
(* of tokens from all accounts together (allowIP: "a request its IP        *)
(* refuses spends no token of the account it names").                      *)
HostBudgetCapsAccounts ==
  \A s \in {"password", "reset", "magic"}, ip \in IPs :
    LET key == <<s, "ip", ip>>
        charged == Cardinality(Charged(s, ip)) IN
    (charged > 0 /\ key \notin forgotten /\ ~Limits!Unlimited(key)) =>
      charged * Limits!interval(key) <= Limits!full(key) + clock

=============================================================================
