------------------------------ MODULE Passkey ------------------------------
(***************************************************************************)
(* The passkey service (src/passkey/passkey.go, src/passkey/http.go) over  *)
(* the contract of its two stores: registration, sign-in for a named user, *)
(* usernameless sign-in and deletion, store call by store call.  Clients   *)
(* may send a response late, twice, or to the wrong ceremony.              *)
(*                                                                         *)
(* A credential is identified with the authenticator that holds it.  The   *)
(* cryptography is the library's: a response names the challenge, the      *)
(* credential and the counter that were signed.                            *)
(***************************************************************************)
EXTENDS PasskeyStore

CONSTANTS Requests, Users, Creds,
          Enrolled,      \* the user each enrolled credential is registered to
          Counterless,   \* authenticators whose counter stays 0
          Ops,           \* the operations the requests perform
          Bodies,        \* bodies that are no response: "large", "garbled"
          MaxCeremonies, \* bound on the challenges issued
          MaxCount       \* bound on an authenticator's counter

NoUser == "no user"

ASSUME PasskeyAssumption ==
  /\ DOMAIN Enrolled \subseteq Creds
  /\ \A c \in DOMAIN Enrolled : Enrolled[c] \in Users
  /\ Counterless \subseteq Creds
  /\ Ops \subseteq {"beginRegistration", "finishRegistration", "beginLogin", "finishLogin",
                    "beginDiscoverable", "finishDiscoverable", "delete"}
  /\ Bodies \subseteq {"large", "garbled"}
  /\ MaxCeremonies \in Nat /\ NoUser \notin Users

Forever == 1     \* the in-memory challenges never expire: the time stays 0

VARIABLES store,     \* the rows of both stores
          issued,    \* the ceremonies the clients were told to answer
          sent,      \* the responses that authenticators signed
          device,    \* per credential: counter, and the user handle it holds
          verified,  \* history: per challenge, how often it was verified against
          req

vars == <<store, issued, sent, device, verified, req>>

-----------------------------------------------------------------------------

challengeKey(kind, id) == <<kind, id>>

MutLoginKey(user, id) == challengeKey("login", user)

LoginKey(user, id) == challengeKey("login", id)

(* The key under which a ceremony of user, numbered id, is saved.          *)
KeyOf(op, user, id) ==
  CASE op \in {"beginRegistration", "finishRegistration"} -> challengeKey("register", user)
    [] op \in {"beginLogin", "finishLogin"}               -> LoginKey(user, id)
    [] op \in {"beginDiscoverable", "finishDiscoverable"} -> challengeKey("discover", id)

(* The checks of the library's CreateCredential and ValidateLogin on a     *)
(* parsed response, and its clone warning: a counter that does not grow.   *)
CreateCredential(user, data, body) ==
  body.op = "create" /\ body.challenge = data.id /\ data.user = user

ValidateLogin(user, data, body, creds) ==
  /\ body.op = "get" /\ body.challenge = data.id
  /\ data.user \in {user, NoUser}
  /\ \E r \in creds : r.key = body.cred
  /\ data.user # NoUser => body.cred \in data.allowed

CloneWarning(stored, count) == count <= stored.login[1] /\ (count # 0 \/ stored.login[1] # 0)

-----------------------------------------------------------------------------

(* A body that is no response of an authenticator.                         *)
Junk(kind) == [op |-> kind, challenge |-> 0, cred |-> "none", handle |-> NoUser, count |-> 0]

Idle == [pc |-> "idle", op |-> "none", user |-> NoUser, id |-> 0, body |-> Junk("none"),
         creds |-> {}, data |-> {}, failed |-> FALSE, res |-> "none"]

Answer(r, res) ==
  req' = [req EXCEPT ![r] = [Idle EXCEPT !.pc = "done", !.op = req[r].op,
                                         !.id = req[r].id, !.res = res]]

Go(r, pc) == req' = [req EXCEPT ![r].pc = pc]

checkCeremonyBodySize(body) == body.op # "large"

(* What a request may ask for: the Begin operations carry no body, a login *)
(* is finished for some ceremony of its kind that was begun.               *)
Asks(op, user, id, body) ==
  \/ op \in {"beginRegistration", "beginLogin", "delete"} /\ id = 0 /\ body = Junk("none")
  \/ op = "beginDiscoverable" /\ id = 0 /\ body = Junk("none") /\ user = CHOOSE u \in Users : TRUE
  \/ op = "finishRegistration" /\ id = 0 /\ body # Junk("none")
  \/ /\ op = "finishLogin" /\ body # Junk("none")
     /\ \E i \in issued : i.id = id /\ i.op = "beginLogin"
  \/ /\ op = "finishDiscoverable" /\ body # Junk("none") /\ user = CHOOSE u \in Users : TRUE
     /\ \E i \in issued : i.id = id /\ i.op = "beginDiscoverable"

(* The first thing each operation does after the check of the body.        *)
First(op) ==
  CASE op \in {"beginRegistration", "beginLogin", "finishLogin"} -> "creds"
    [] op = "beginDiscoverable" -> "issue"
    [] op \in {"finishRegistration", "finishDiscoverable"} -> "consume"
    [] op = "delete" -> "delete"

Start(r) ==
  \E op \in Ops, user \in Users, id \in 0 .. MaxCeremonies,
     body \in sent \cup {Junk(k) : k \in Bodies \cup {"none"}} :
    LET fits == checkCeremonyBodySize(body) IN
    /\ req[r].pc = "idle"
    /\ Asks(op, user, id, body)
    /\ req' = [req EXCEPT ![r] =
         [Idle EXCEPT !.op = op, !.user = user, !.id = id, !.body = body,
                      !.res = IF fits THEN "none" ELSE "too large",
                      !.pc = IF fits THEN First(op) ELSE "done"]]
    /\ UNCHANGED <<store, issued, sent, device, verified>>

(* Every store call may fail, which ends the request; two of the errors    *)
(* are hidden behind another (failed is a history).                        *)
StoreFailed(r) ==
  /\ req[r].pc \notin {"idle", "done"}
  /\ LET res == CASE req[r].pc = "consume" -> "challenge expired"
                  [] req[r].pc = "lookup"  -> "challenge failed"
                  [] OTHER -> "store failed" IN
     req' = [req EXCEPT ![r] = [Idle EXCEPT !.pc = "done", !.op = req[r].op,
                                            !.id = req[r].id, !.failed = TRUE, !.res = res]]
  /\ UNCHANGED <<store, issued, sent, device, verified>>

LoadCredentials(r) ==
  LET q == req[r]  creds == GetCredentialsByUserID(store, q.user).res[2] IN
  /\ q.pc = "creds"
  /\ IF q.op = "beginLogin" /\ creds = {}
       THEN Answer(r, "not found")
       ELSE req' = [req EXCEPT ![r].creds = creds,
                               ![r].pc = IF q.op = "finishLogin" THEN "consume" ELSE "issue"]
  /\ UNCHANGED <<store, issued, sent, device, verified>>

(* The end of the three Begin operations: the session data, which names    *)
(* the user and the credentials it was built from, goes to the store, and  *)
(* the options to the client.                                              *)
SaveCeremony(r) ==
  LET q == req[r]
      n == Cardinality(issued) + 1
      i == [op |-> q.op, id |-> n,
            user |-> IF q.op = "beginDiscoverable" THEN NoUser ELSE q.user,
            allowed |-> {c.key : c \in q.creds}]
  IN /\ q.pc = "issue"
     /\ n <= MaxCeremonies
     /\ store' = SaveChallenge(store, KeyOf(q.op, q.user, n), i, Forever).rows
     /\ issued' = issued \cup {i}
     /\ Answer(r, "ok")
     /\ UNCHANGED <<sent, device, verified>>

-----------------------------------------------------------------------------

(* ConsumeChallenge and what follows without another store call: parsing,  *)
(* and the library's verification.  The challenge is spent either way.     *)
Consume(r) ==
  LET q == req[r]
      c == ConsumeChallenge(store, KeyOf(q.op, q.user, q.id), 0)
      data == c.res[2]
      stored == CHOOSE s \in q.creds : s.key = q.body.cred
      good == /\ q.body.op # "garbled"
              /\ CASE q.op = "finishRegistration" -> CreateCredential(q.user, data, q.body)
                   [] q.op = "finishLogin"        -> ValidateLogin(q.user, data, q.body, q.creds)
                   [] q.op = "finishDiscoverable" -> TRUE
  IN /\ q.pc = "consume"
     /\ store' = c.rows
     /\ IF c.res[1] # "ok"
          THEN Answer(r, "challenge expired") /\ UNCHANGED verified
          ELSE /\ verified' = [verified EXCEPT ![data.id] = @ + 1]
               /\ IF ~good THEN Answer(r, "challenge failed")
                  ELSE IF q.op = "finishLogin" /\ CloneWarning(stored, q.body.count)
                    THEN Answer(r, "clone warning")
                  ELSE req' = [req EXCEPT ![r].data = {data},
                         ![r].pc = CASE q.op = "finishRegistration" -> "save"
                                     [] q.op = "finishLogin"        -> "update"
                                     [] q.op = "finishDiscoverable" -> "lookup"]
     /\ UNCHANGED <<issued, sent, device>>

(* Registration's SaveCredential.                                          *)
SaveRegistered(r) ==
  /\ req[r].pc = "save"
  /\ store' = SaveCredential(store, req[r].body.cred, req[r].user).rows
  /\ Answer(r, "ok")
  /\ UNCHANGED <<issued, sent, device, verified>>

(* The handler of ValidateDiscoverableLogin: the owner is whoever the      *)
(* store says, and the user handle must agree.                             *)
ResolveOwner(r) ==
  LET q == req[r]
      found == GetCredentialByID(store, q.body.cred).res
      data == CHOOSE d \in q.data : TRUE
  IN /\ q.pc = "lookup"
     /\ IF found[1] # "ok" \/ (found[1] = "ok" /\ q.body.handle # found[2].user)
          THEN Answer(r, "challenge failed")
        ELSE IF ~ValidateLogin(found[2].user, data, q.body, {found[2]})
          THEN Answer(r, "challenge failed")
        ELSE IF CloneWarning(found[2], q.body.count)
          THEN Answer(r, "clone warning")
        ELSE req' = [req EXCEPT ![r].pc = "update", ![r].user = found[2].user]
     /\ UNCHANGED <<store, issued, sent, device, verified>>

(* finishLoginCredential, in two calls.                                    *)
FinishUpdate(r) ==
  LET q == req[r]
      u == UpdateCredentialAfterLogin(store, q.body.cred, <<q.body.count, FALSE, 0>>)
  IN /\ q.pc = "update"
     /\ store' = u.rows
     /\ IF u.res[1] = "ok" THEN Go(r, "reload") ELSE Answer(r, "not found")
     /\ UNCHANGED <<issued, sent, device, verified>>

MutReloaded(rows, q) == TRUE

Reloaded(rows, q) == GetCredentialByID(rows, q.body.cred).res[1] = "ok"

FinishReload(r) ==
  LET q == req[r] IN
  /\ q.pc = "reload"
  /\ IF Reloaded(store, q)
       THEN req' = [req EXCEPT ![r].pc = "done", ![r].res = "ok"]
       ELSE Answer(r, "not found")
  /\ UNCHANGED <<store, issued, sent, device, verified>>

Delete(r) ==
  \E c \in Creds, allowLast \in BOOLEAN :
    LET d == DeleteCredential(store, req[r].user, c, allowLast) IN
    /\ req[r].pc = "delete"
    /\ store' = d.rows
    /\ Answer(r, d.res[1])
    /\ UNCHANGED <<issued, sent, device, verified>>

-----------------------------------------------------------------------------
(* The authenticators.  A device answers a ceremony it was offered: it     *)
(* makes a credential unless it is told it has one, and signs with the one *)
(* it holds.                                                               *)

Sign(c) ==
  \E i \in issued :
    /\ device[c].count < MaxCount
    /\ IF i.op = "beginRegistration"
         THEN c \notin i.allowed /\ device[c].handle = NoUser
         ELSE device[c].handle # NoUser /\ (i.op = "beginLogin" => c \in i.allowed)
    /\ LET handle == IF i.op = "beginRegistration" THEN i.user ELSE device[c].handle
           count  == IF c \in Counterless THEN 0 ELSE device[c].count + 1
       IN
       /\ device' = [device EXCEPT ![c] = [count |-> count, handle |-> handle]]
       /\ sent' = sent \cup {[op |-> IF i.op = "beginRegistration" THEN "create" ELSE "get",
                              challenge |-> i.id, cred |-> c, handle |-> handle,
                              count |-> count]}
    /\ UNCHANGED <<store, issued, verified, req>>

-----------------------------------------------------------------------------

Init ==
  /\ store = {CredentialRow(c, Enrolled[c], Unused, "") : c \in DOMAIN Enrolled}
  /\ issued = {} /\ sent = {}
  /\ device = [c \in Creds |->
       [count |-> 0, handle |-> IF c \in DOMAIN Enrolled THEN Enrolled[c] ELSE NoUser]]
  /\ verified = [n \in 1 .. MaxCeremonies |-> 0]
  /\ req = [r \in Requests |-> Idle]

Step(r) ==
  \/ Start(r) \/ StoreFailed(r) \/ LoadCredentials(r) \/ SaveCeremony(r) \/ Consume(r)
  \/ SaveRegistered(r) \/ ResolveOwner(r) \/ FinishUpdate(r) \/ FinishReload(r) \/ Delete(r)

Next == (\E r \in Requests : Step(r)) \/ (\E c \in Creds : Sign(c))

Spec == Init /\ [][Next]_vars

-----------------------------------------------------------------------------

(* "The challenge is consumed before verification runs, so a failed        *)
(* verification still burns it": however many copies of a response arrive  *)
(* at FinishLoginResponse and its siblings, in whatever order, no          *)
(* challenge is verified against twice.                                    *)
ChallengeVerifiedOnce == \A n \in DOMAIN verified : verified[n] <= 1

(* A ceremony is lost only to itself: a sign-in is told its challenge      *)
(* expired only after another response was verified against that very      *)
(* challenge, or its own store call failed.  BeginLogin for the same user, *)
(* registrations, oversized bodies and deletions leave it alone.           *)
CeremonyNotClobbered ==
  \A r \in Requests :
    (/\ req[r].op \in {"finishLogin", "finishDiscoverable"}
     /\ req[r].res = "challenge expired" /\ ~req[r].failed) => verified[req[r].id] > 0

SignsIn(r) ==
  /\ req[r].op \in {"finishLogin", "finishDiscoverable"}
  /\ req[r].res # "ok" /\ req'[r].res = "ok"

(* A sign-in succeeds only with a credential that is still stored when it  *)
(* succeeds, and belongs to the user that is signed in, although           *)
(* FinishLoginResponse verifies against a list it read before a deletion.  *)
SignsInTheOwner ==
  [][\A r \in Requests : SignsIn(r) => Owned(store, req[r].user, req[r].body.cred) # {}]_vars

=============================================================================
