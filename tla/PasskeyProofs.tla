---------------------------- MODULE PasskeyProofs ----------------------------
(***************************************************************************)
(* Proofs about Passkey: for any number of requests, users, credentials    *)
(* and ceremonies, whatever the clients send and whichever store calls     *)
(* fail.                                                                   *)
(***************************************************************************)
EXTENDS Passkey, Integers, TLAPS, FiniteSetTheorems

-----------------------------------------------------------------------------
(* Types.                                                                  *)

BeginOps == {"beginRegistration", "beginLogin", "beginDiscoverable"}

LoginOps == {"finishLogin", "finishDiscoverable"}

AllOps == BeginOps \cup LoginOps \cup {"finishRegistration", "delete", "none"}

AnyUser == Users \cup {NoUser}

Ceremony == [op : BeginOps, id : 1 .. MaxCeremonies, user : AnyUser, allowed : SUBSET Creds]

Login == Nat \X {FALSE} \X {0}

CredRow == [table : {"passkey_credentials"}, key : Creds, user : Users, login : Login,
            name : {""}]

ChalRow == {ChallengeRow(KeyOf(d.op, d.user, d.id), d, Forever) : d \in Ceremony}

Body == [op : {"create", "get", "large", "garbled", "none"}, challenge : Nat,
         cred : Creds \cup {"none"}, handle : AnyUser, count : Nat]

PCs == {"idle", "creds", "issue", "consume", "save", "lookup", "update", "reload",
        "delete", "done"}

Results == {"none", "ok", "too large", "not found", "store failed", "challenge expired",
            "challenge failed", "clone warning", "notFound", "lastCredential"}

Request == [pc : PCs, op : AllOps, user : AnyUser, id : Nat, body : Body,
            creds : SUBSET CredRow, data : SUBSET Ceremony, failed : BOOLEAN, res : Results]

TypeOK ==
  /\ store \subseteq CredRow \cup ChalRow
  /\ issued \subseteq Ceremony /\ IsFiniteSet(issued)
  /\ sent \subseteq Body
  /\ device \in [Creds -> [count : Nat, handle : AnyUser]]
  /\ verified \in [1 .. MaxCeremonies -> Nat]
  /\ req \in [Requests -> Request]

-----------------------------------------------------------------------------
(* The inductive invariant.                                                *)

(* Ceremonies are numbered as they are begun.                              *)
Numbered ==
  /\ \A i \in issued : i.id <= Cardinality(issued)
  /\ \A i, j \in issued : i.id = j.id => i = j
  /\ \A i \in issued : i.op = "beginRegistration" => i.user \in Users
  /\ \A n \in 1 .. MaxCeremonies : n > Cardinality(issued) => verified[n] = 0

(* A challenge in the store is that of a ceremony nobody verified against. *)
ChallengeOK(c) == c.data \in issued /\ verified[c.data.id] = 0

(* A sign-in ceremony stays in the store until it is verified against.     *)
Kept(i) ==
  i.op \in {"beginLogin", "beginDiscoverable"} =>
    verified[i.id] > 0 \/ ByKey(store, KeyOf(i.op, i.user, i.id)) # {}

(* Who holds a credential never changes.                                   *)
Holds(c, user) == c \in Creds /\ user \in Users /\ device[c].handle = user

(* What an authenticator signed: the user it answered for holds it.        *)
BodyOK(b) ==
  b.op \in {"create", "get"} =>
    /\ Holds(b.cred, b.handle)
    /\ b.op = "create" =>
         \E i \in issued : /\ i.id = b.challenge /\ i.op = "beginRegistration"
                           /\ i.user = b.handle

Begun(op) == IF op = "finishLogin" THEN "beginLogin" ELSE "beginDiscoverable"

ReqOK(q) ==
  /\ BodyOK(q.body)
  /\ q.op \in LoginOps => \E i \in issued : i.id = q.id /\ i.op = Begun(q.op)
  /\ q.pc = "idle" => q.op = "none"
  /\ q.pc = "creds" => q.op \in {"beginRegistration", "beginLogin", "finishLogin"}
  /\ q.pc = "issue" => q.op \in BeginOps
  /\ q.pc = "consume" =>
       /\ q.op \in LoginOps \cup {"finishRegistration"}
       /\ \A s \in q.creds : Holds(s.key, q.user)
  /\ q.pc = "save" => q.op = "finishRegistration" /\ Holds(q.body.cred, q.user)
  /\ q.pc = "lookup" => q.op = "finishDiscoverable"
  /\ q.pc \in {"update", "reload"} => q.op \in LoginOps /\ Holds(q.body.cred, q.user)
  /\ q.pc = "delete" => q.op = "delete"
  /\ q.pc \in {"creds", "issue"} => q.user \in Users
  /\ (q.op \in LoginOps /\ q.res = "challenge expired" /\ ~q.failed) => verified[q.id] > 0

Shared ==
  /\ Numbered /\ ChallengeVerifiedOnce
  /\ \A c \in Challenges(store) : ChallengeOK(c)
  /\ \A i \in issued : Kept(i)
  /\ \A c \in Credentials(store) : Holds(c.key, c.user)
  /\ \A b \in sent : BodyOK(b)

IInv == TypeOK /\ Shared /\ \A r \in Requests : ReqOK(req[r])

-----------------------------------------------------------------------------
(* Keys, rows and frames.                                                  *)

(* The key of a ceremony.                                                  *)
LEMMA Keys ==
  ASSUME NEW user, NEW id
  PROVE  /\ \A op \in {"beginRegistration", "finishRegistration"} :
              KeyOf(op, user, id) = <<"register", user>>
         /\ \A op \in {"beginLogin", "finishLogin"} : KeyOf(op, user, id) = <<"login", id>>
         /\ \A op \in {"beginDiscoverable", "finishDiscoverable"} :
              KeyOf(op, user, id) = <<"discover", id>>
BY DEF KeyOf, LoginKey, challengeKey

(* Two sign-in ceremonies with one key are one.                            *)
LEMMA SameKey ==
  ASSUME NEW op \in {"beginLogin", "beginDiscoverable"}, NEW user, NEW id,
         NEW d \in Ceremony, KeyOf(d.op, d.user, d.id) = KeyOf(op, user, id)
  PROVE  d.op = op /\ d.id = id
<1>1. d.op \in BeginOps
  BY DEF Ceremony
<1>2. \A a, b : <<"login", a>> # <<"discover", b>> /\ <<"login", a>> # <<"register", b>>
                 /\ <<"register", a>> # <<"discover", b>>
  OBVIOUS
<1>3. \A k, a, b : <<k, a>> = <<k, b>> => a = b
  OBVIOUS
<1>4. QED
  BY <1>1, <1>2, <1>3, Keys DEF BeginOps

(* The rows of the two stores.                                             *)
LEMMA Rows ==
  /\ \A c \in CredRow : c.table = "passkey_credentials" /\ c.key \in Creds /\ c.user \in Users
  /\ \A c \in ChalRow : /\ c.table = "passkey_challenges" /\ c.data \in Ceremony
                         /\ c.key = KeyOf(c.data.op, c.data.user, c.data.id) /\ c.exp = 1
<1>1. ASSUME NEW c \in ChalRow
      PROVE  /\ c.table = "passkey_challenges" /\ c.data \in Ceremony
             /\ c.key = KeyOf(c.data.op, c.data.user, c.data.id) /\ c.exp = 1
  <2>1. PICK d \in Ceremony : c = ChallengeRow(KeyOf(d.op, d.user, d.id), d, Forever)
    BY <1>1 DEF ChalRow
  <2>2. /\ c.table = "passkey_challenges" /\ c.data = d /\ c.exp = 1
        /\ c.key = KeyOf(d.op, d.user, d.id)
    BY <2>1 DEF ChallengeRow, Forever
  <2>3. QED
    BY <2>2
<1>2. QED
  BY <1>1, Zenon DEF CredRow

(* The two kinds of row are told apart by their table.                     *)
LEMMA Tables ==
  ASSUME NEW rows \in SUBSET (CredRow \cup ChalRow)
  PROVE  Challenges(rows) = rows \cap ChalRow /\ Credentials(rows) = rows \cap CredRow
BY Rows DEF Challenges, Credentials

(* A row that is saved is a row.                                           *)
LEMMA NewRows ==
  /\ \A d \in Ceremony : ChallengeRow(KeyOf(d.op, d.user, d.id), d, Forever) \in ChalRow
  /\ \A c \in Creds, u \in Users : /\ CredentialRow(c, u, Unused, "") \in CredRow
                                    /\ CredentialRow(c, u, Unused, "").key = c
                                    /\ CredentialRow(c, u, Unused, "").user = u
<1>1. Unused \in Login
  BY Zenon DEF Unused, Login
<1>2. QED
  BY <1>1 DEF ChalRow, CredRow, CredentialRow

(* What other steps do: ceremonies and verifications only grow, and an     *)
(* authenticator keeps its user.                                           *)
Grows ==
  /\ issued \subseteq issued'
  /\ \A c \in Creds : device[c].handle \in Users => device'[c].handle = device[c].handle
  /\ \A n \in 1 .. MaxCeremonies : verified[n] \in Nat /\ verified'[n] >= verified[n]

(* Holders, bodies and requests that do not move.                          *)
LEMMA HoldsFrame ==
  ASSUME Grows, NEW c, NEW u, Holds(c, u)
  PROVE  Holds(c, u)'
BY DEF Grows, Holds

(* The same of a response.                                                 *)
LEMMA BodyFrame ==
  ASSUME Grows, NEW b, BodyOK(b)
  PROVE  BodyOK(b)'
BY HoldsFrame DEF BodyOK, Grows

(* The same of a request.                                                  *)
LEMMA RequestFrame ==
  ASSUME TypeOK, TypeOK', Grows, NEW q \in Request, ReqOK(q)
  PROVE  ReqOK(q)'
<1>1. BodyOK(q.body)' /\ \A c, u : Holds(c, u) => Holds(c, u)'
  BY BodyFrame, HoldsFrame, Zenon DEF ReqOK
<1>2. q.op \in LoginOps => \E i \in issued : i.id = q.id /\ i.op = Begun(q.op) /\ i \in issued'
  BY Zenon DEF ReqOK, Grows
<1>3. (q.op \in LoginOps /\ q.res = "challenge expired" /\ ~q.failed) => verified'[q.id] > 0
  <2>1. q.op \in LoginOps => q.id \in 1 .. MaxCeremonies
    BY <1>2 DEF TypeOK, Ceremony
  <2>2. ASSUME q.op \in LoginOps, verified[q.id] > 0
        PROVE  verified'[q.id] > 0
    BY <2>1, <2>2 DEF Grows, TypeOK
  <2>3. QED
    BY <2>2, Zenon DEF ReqOK
<1>4. QED
  BY <1>1, <1>2, <1>3, Zenon DEF ReqOK, Begun

(* A step of request r that leaves it as p.                                *)
LEMMA RequestStep ==
  ASSUME IInv, NEW r \in Requests, NEW p \in Request, req' = [req EXCEPT ![r] = p],
         ReqOK(p)', TypeOK', Shared', Grows
  PROVE  IInv'
<1>1. ASSUME NEW t \in Requests
      PROVE  ReqOK(req[t])'
  <2>1. PICK q \in Request : q = req'[t]
    BY <1>1 DEF TypeOK
  <2>2. ReqOK(q)'
    BY <1>1, <2>1, RequestFrame DEF IInv, TypeOK
  <2>3. QED
    BY <2>1, <2>2
<1>2. QED
  BY <1>1 DEF IInv

(* A step of a request that shares nothing.                                *)
LEMMA MoveStep ==
  ASSUME IInv, NEW r \in Requests, NEW p \in Request, req' = [req EXCEPT ![r] = p],
         ReqOK(p), UNCHANGED <<store, issued, sent, device, verified>>
  PROVE  IInv'
<1>1. TypeOK' /\ Grows
  BY DEF IInv, TypeOK, Grows
<1>2. Shared'
  BY DEF IInv, Shared, Numbered, ChallengeVerifiedOnce, ChallengeOK, Kept, BodyOK, Holds
<1>3. ReqOK(p)'
  BY <1>1, RequestFrame DEF IInv
<1>4. QED
  BY <1>1, <1>2, <1>3, RequestStep, Zenon

-----------------------------------------------------------------------------
(* The requests.                                                           *)

(* A request that has not begun, and a body that is no response.           *)
LEMMA IdleOK ==
  /\ \A kind \in {"large", "garbled", "none"} :
       /\ Junk(kind) \in Body /\ Junk(kind).op = kind /\ BodyOK(Junk(kind))
  /\ Idle \in Request
  /\ Idle.pc = "idle" /\ Idle.op = "none" /\ Idle.body = Junk("none") /\ Idle.creds = {}
  /\ Idle.failed = FALSE /\ Idle.res = "none"
<1>1. ASSUME NEW kind \in {"large", "garbled", "none"}
      PROVE  Junk(kind) \in Body /\ Junk(kind).op = kind /\ BodyOK(Junk(kind))
  BY <1>1 DEF Junk, Body, BodyOK, AnyUser
<1>2. Idle \in Request
  BY <1>1 DEF Idle, Request, PCs, AllOps, AnyUser, Results
<1>3. QED
  BY <1>1, <1>2 DEF Idle

(* What is left of a request that answers.                                 *)
LEMMA AnswerOK ==
  ASSUME NEW q \in Request, ReqOK(q), NEW res \in Results, NEW failed \in BOOLEAN,
         (q.op \in LoginOps /\ res = "challenge expired" /\ ~failed) => verified[q.id] > 0
  PROVE  LET p == [Idle EXCEPT !.pc = "done", !.op = q.op, !.id = q.id, !.failed = failed,
                               !.res = res] IN
         p \in Request /\ ReqOK(p)
<1> DEFINE p == [Idle EXCEPT !.pc = "done", !.op = q.op, !.id = q.id, !.failed = failed,
                             !.res = res]
<1>1. Idle \in Request /\ Idle.body = Junk("none") /\ BodyOK(Junk("none"))
  BY IdleOK, Zenon
<1> HIDE DEF Idle
<1>2. p \in Request
  BY <1>1, Zenon DEF Request, PCs
<1>3. /\ p.pc = "done" /\ p.op = q.op /\ p.id = q.id /\ p.failed = failed /\ p.res = res
      /\ p.body = Junk("none")
  BY <1>1, Zenon DEF Request
<1> HIDE DEF p
<1>4. ReqOK(p)
  BY <1>1, <1>3, Zenon DEF ReqOK
<1>5. QED
  BY <1>2, <1>4, Zenon DEF p

(* The answer, as Answer writes it.                                        *)
LEMMA Answered ==
  ASSUME IInv, NEW r \in Requests, NEW res \in Results, Answer(r, res),
         (req[r].op \in LoginOps /\ res = "challenge expired") => verified[req[r].id] > 0
  PROVE  \E p \in Request : req' = [req EXCEPT ![r] = p] /\ ReqOK(p)
<1>1. PICK q \in Request : q = req[r] /\ ReqOK(q)
  BY Zenon DEF IInv, TypeOK
<1>2. Idle \in Request /\ Idle.failed = FALSE
  BY IdleOK, Zenon
<1>3. [Idle EXCEPT !.pc = "done", !.op = q.op, !.id = q.id, !.res = res]
        = [Idle EXCEPT !.pc = "done", !.op = q.op, !.id = q.id, !.failed = FALSE, !.res = res]
  <2> HIDE DEF Idle
  <2>1. QED
    BY <1>2, Zenon DEF Request
<1>4. QED
  BY <1>1, <1>3, AnswerOK, Zenon DEF Answer

(* A request begins.                                                       *)
LEMMA StartStep ==
  ASSUME IInv, NEW r \in Requests, Start(r)
  PROVE  IInv'
<1>1. PICK op \in Ops, user \in Users, id \in 0 .. MaxCeremonies,
           body \in sent \cup {Junk(k) : k \in Bodies \cup {"none"}} :
        LET fits == checkCeremonyBodySize(body) IN
        /\ req[r].pc = "idle"
        /\ Asks(op, user, id, body)
        /\ req' = [req EXCEPT ![r] =
             [Idle EXCEPT !.op = op, !.user = user, !.id = id, !.body = body,
                          !.res = IF fits THEN "none" ELSE "too large",
                          !.pc = IF fits THEN First(op) ELSE "done"]]
        /\ UNCHANGED <<store, issued, sent, device, verified>>
  BY Zenon DEF Start
<1>2. op \in AllOps \ {"none"} /\ user \in AnyUser /\ id \in Nat
  BY PasskeyAssumption DEF AllOps, BeginOps, LoginOps, AnyUser
<1>3. body \in Body /\ BodyOK(body)
  <2>1. CASE body \in sent
    BY <2>1 DEF IInv, TypeOK, Shared
  <2>2. CASE body \in {Junk(k) : k \in Bodies \cup {"none"}}
    BY <2>2, IdleOK, PasskeyAssumption
  <2>3. QED
    BY <2>1, <2>2
<1> DEFINE at == IF checkCeremonyBodySize(body) THEN First(op) ELSE "done"
           res == IF checkCeremonyBodySize(body) THEN "none" ELSE "too large"
<1>4. /\ at \in {"creds", "issue", "consume", "delete", "done"}
      /\ at = "creds" => op \in {"beginRegistration", "beginLogin", "finishLogin"}
      /\ at = "issue" => op \in BeginOps
      /\ at = "consume" => op \in LoginOps \cup {"finishRegistration"}
      /\ at = "delete" => op = "delete"
  BY <1>2 DEF First, AllOps, BeginOps, LoginOps
<1>5. res \in Results /\ res # "challenge expired"
  BY DEF Results
<1>6. op \in LoginOps => \E i \in issued : i.id = id /\ i.op = Begun(op)
  BY <1>1 DEF Asks, Begun, LoginOps
<1>7. Idle \in Request /\ Idle.creds = {}
  BY IdleOK
<1>8. req' = [req EXCEPT ![r] = [Idle EXCEPT !.op = op, !.user = user, !.id = id, !.body = body,
                                             !.res = res, !.pc = at]]
  BY <1>1
<1> HIDE DEF at, res, Idle
<1>9. PICK p \in Request : p = [Idle EXCEPT !.op = op, !.user = user, !.id = id, !.body = body,
                                            !.res = res, !.pc = at]
  BY <1>2, <1>3, <1>4, <1>5, <1>7, Zenon DEF Request, PCs
<1>10. /\ p.op = op /\ p.user = user /\ p.id = id /\ p.body = body /\ p.res = res /\ p.pc = at
       /\ p.creds = {}
  BY <1>7, <1>9 DEF Request
<1>11. ReqOK(p)
  BY <1>3, <1>4, <1>5, <1>6, <1>10, Zenon DEF ReqOK
<1>12. QED
  BY <1>8, <1>9, <1>11, MoveStep, Zenon DEF Start

(* A store call fails.                                                     *)
LEMMA FailedStep ==
  ASSUME IInv, NEW r \in Requests, StoreFailed(r)
  PROVE  IInv'
<1>1. PICK q \in Request : q = req[r] /\ ReqOK(q)
  BY DEF IInv, TypeOK
<1>2. PICK res \in Results :
        req' = [req EXCEPT ![r] = [Idle EXCEPT !.pc = "done", !.op = q.op, !.id = q.id,
                                               !.failed = TRUE, !.res = res]]
  BY <1>1, Zenon DEF StoreFailed, Results
<1>3. PICK p \in Request : p = [Idle EXCEPT !.pc = "done", !.op = q.op, !.id = q.id,
                                            !.failed = TRUE, !.res = res] /\ ReqOK(p)
  BY <1>1, AnswerOK, Zenon
<1>4. QED
  BY <1>2, <1>3, MoveStep, Zenon DEF StoreFailed

(* The user's credentials are loaded: each is held by that user.           *)
LEMMA LoadStep ==
  ASSUME IInv, NEW r \in Requests, LoadCredentials(r)
  PROVE  IInv'
<1>1. PICK q \in Request : q = req[r] /\ ReqOK(q) /\ q.pc = "creds"
  BY Zenon DEF IInv, TypeOK, LoadCredentials
<1>2. CASE Answer(r, "not found")
  BY <1>2, Answered, MoveStep, Zenon DEF LoadCredentials, Results
<1>3. CASE ~Answer(r, "not found")
  <2> DEFINE creds == ByUser(store, q.user)
             at == IF q.op = "finishLogin" THEN "consume" ELSE "issue"
  <2>1. req' = [req EXCEPT ![r].creds = creds, ![r].pc = at]
    BY <1>1, <1>3, Zenon DEF LoadCredentials, GetCredentialsByUserID, Ret
  <2>2. creds \in SUBSET CredRow /\ \A s \in creds : Holds(s.key, q.user)
    BY Tables DEF IInv, TypeOK, Shared, ByUser
  <2>3. at \in PCs
    BY DEF PCs
  <2> HIDE DEF creds
  <2>4. PICK p \in Request : p = [q EXCEPT !.creds = creds, !.pc = at]
    BY <2>2, <2>3, Zenon DEF Request
  <2>5. /\ p.pc = at /\ p.op = q.op /\ p.user = q.user /\ p.id = q.id /\ p.body = q.body
        /\ p.creds = creds /\ p.failed = q.failed /\ p.res = q.res
    BY <2>4 DEF Request
  <2>6. ReqOK(p)
    BY <1>1, <2>2, <2>5, Zenon DEF ReqOK, BeginOps, LoginOps
  <2>7. req' = [req EXCEPT ![r] = p]
    BY <1>1, <2>1, <2>4, Zenon DEF IInv, TypeOK
  <2>8. QED
    BY <2>6, <2>7, MoveStep, Zenon DEF LoadCredentials
<1>4. QED
  BY <1>2, <1>3, Zenon


(* A request steps and the challenges stay as they are.                    *)
LEMMA CredentialStep ==
  ASSUME IInv, NEW r \in Requests, NEW p \in Request, req' = [req EXCEPT ![r] = p], ReqOK(p),
         store' \subseteq CredRow \cup ChalRow, Challenges(store') = Challenges(store),
         \A c \in Credentials(store') : Holds(c.key, c.user),
         UNCHANGED <<issued, sent, device, verified>>
  PROVE  IInv'
<1>1. TypeOK' /\ Grows
  BY DEF IInv, TypeOK, Grows
<1>2. \A k : ByKey(store', k) = ByKey(store, k)
  BY DEF ByKey
<1>3. Numbered' /\ ChallengeVerifiedOnce' /\ \A b \in sent' : BodyOK(b)'
  BY DEF IInv, Shared, Numbered, ChallengeVerifiedOnce, BodyOK, Holds
<1>4. (\A c \in Challenges(store) : ChallengeOK(c))' /\ (\A i \in issued : Kept(i))'
  BY <1>2 DEF IInv, Shared, ChallengeOK, Kept
<1>5. \A c \in Credentials(store') : Holds(c.key, c.user)'
  BY DEF Holds
<1>6. Shared'
  BY <1>3, <1>4, <1>5 DEF Shared
<1>7. ReqOK(p)'
  BY <1>1, RequestFrame DEF IInv
<1>8. QED
  BY <1>1, <1>6, <1>7, RequestStep, Zenon

(* A registration is stored for the user who holds the authenticator.      *)
LEMMA SaveStep ==
  ASSUME IInv, NEW r \in Requests, SaveRegistered(r)
  PROVE  IInv'
<1>1. PICK q \in Request : q = req[r] /\ ReqOK(q) /\ q.pc = "save"
  BY DEF IInv, TypeOK, SaveRegistered
<1>2. Holds(q.body.cred, q.user) /\ q.op = "finishRegistration"
  BY <1>1, Zenon DEF ReqOK
<1> DEFINE row == CredentialRow(q.body.cred, q.user, Unused, "")
<1>3. row \in CredRow /\ row.key = q.body.cred /\ row.user = q.user
  BY <1>2, NewRows, Zenon DEF Holds
<1>4. store' = (store \ ByID(store, q.body.cred)) \cup {row}
  BY <1>1, Zenon DEF SaveRegistered, SaveCredential, Ret
<1> HIDE DEF row
<1>5. store \subseteq CredRow \cup ChalRow /\ \A c \in Credentials(store) : Holds(c.key, c.user)
  BY DEF IInv, TypeOK, Shared
<1>6. ByID(store, q.body.cred) \subseteq CredRow
  BY <1>5, Tables DEF ByID
<1>7. store' \subseteq CredRow \cup ChalRow /\ CredRow \cap ChalRow = {}
  BY <1>3, <1>4, <1>5, Rows
<1>8. Challenges(store') = Challenges(store)
  <2>1. Challenges(store') = store' \cap ChalRow /\ Challenges(store) = store \cap ChalRow
    BY <1>5, <1>7, Tables
  <2>2. QED
    BY <1>3, <1>4, <1>6, <1>7, <2>1
<1>9. \A c \in Credentials(store') : Holds(c.key, c.user)
  BY <1>2, <1>3, <1>4, <1>5, <1>7, Tables
<1>10. PICK p \in Request : req' = [req EXCEPT ![r] = p] /\ ReqOK(p)
  BY Answered, Zenon DEF SaveRegistered, Results
<1>11. QED
  BY <1>7, <1>8, <1>9, <1>10, CredentialStep, Zenon DEF SaveRegistered

(* The counter of a credential is written.                                 *)
LEMMA UpdateStep ==
  ASSUME IInv, NEW r \in Requests, FinishUpdate(r)
  PROVE  IInv'
<1>1. PICK q \in Request : q = req[r] /\ ReqOK(q) /\ q.pc = "update"
  BY Zenon DEF IInv, TypeOK, FinishUpdate
<1> DEFINE old == ByID(store, q.body.cred)
           login == <<q.body.count, FALSE, 0>>
<1>2. \/ old = {} /\ store' = store /\ Answer(r, "not found")
      \/ old # {} /\ store' = (store \ old) \cup Updated(old, login) /\ Go(r, "reload")
  BY <1>1, Zenon DEF FinishUpdate, UpdateCredentialAfterLogin, Ret
<1>3. login \in Login
  BY Zenon DEF Request, Body, Login
<1>4. store \subseteq CredRow \cup ChalRow /\ \A c \in Credentials(store) : Holds(c.key, c.user)
  BY DEF IInv, TypeOK, Shared
<1>5. old \subseteq CredRow /\ old \subseteq Credentials(store)
  BY <1>4, Tables DEF ByID
<1> HIDE DEF old, login
<1>6. ASSUME NEW c \in Updated(old, login)
      PROVE  c \in CredRow /\ Holds(c.key, c.user)
  <2>1. PICK s \in old : c = [s EXCEPT !.login = login]
    BY <1>6 DEF Updated
  <2>2. c \in CredRow /\ c.key = s.key /\ c.user = s.user
    BY <1>3, <1>5, <2>1, Zenon DEF CredRow
  <2>3. QED
    BY <1>4, <1>5, <2>2
<1>7. CASE old = {}
  BY <1>2, <1>7, Answered, MoveStep, Zenon DEF FinishUpdate, Results
<1>8. CASE old # {}
  <2>1. store' = (store \ old) \cup Updated(old, login) /\ Go(r, "reload")
    BY <1>2, <1>8, Zenon
  <2>2. store' \subseteq CredRow \cup ChalRow /\ CredRow \cap ChalRow = {}
    BY <1>4, <1>6, <2>1, Rows
  <2>3. Challenges(store') = Challenges(store)
    BY <1>4, <1>5, <1>6, <2>1, <2>2, Tables, ZenonT(30)
  <2>4. \A c \in Credentials(store') : Holds(c.key, c.user)
    BY <1>4, <1>6, <2>1, <2>2, Tables
  <2>5. PICK p \in Request : p = [q EXCEPT !.pc = "reload"]
    BY Zenon DEF Request, PCs
  <2>6. /\ p.pc = "reload" /\ p.op = q.op /\ p.user = q.user /\ p.id = q.id
        /\ p.body = q.body /\ p.creds = q.creds /\ p.failed = q.failed /\ p.res = q.res
    BY <2>5 DEF Request
  <2>7. ReqOK(p)
    BY <1>1, <2>6, Zenon DEF ReqOK
  <2>8. req' = [req EXCEPT ![r] = p]
    BY <1>1, <2>1, <2>5 DEF Go, IInv, TypeOK
  <2>9. QED
    BY <2>2, <2>3, <2>4, <2>7, <2>8, CredentialStep, Zenon DEF FinishUpdate
<1>9. QED
  BY <1>7, <1>8

(* The credential is read back.                                            *)
LEMMA ReloadStep ==
  ASSUME IInv, NEW r \in Requests, FinishReload(r)
  PROVE  IInv'
<1>1. PICK q \in Request : q = req[r] /\ ReqOK(q) /\ q.pc = "reload"
  BY Zenon DEF IInv, TypeOK, FinishReload
<1>2. CASE Answer(r, "not found")
  BY <1>2, Answered, MoveStep, Zenon DEF FinishReload, Results
<1>3. CASE req' = [req EXCEPT ![r].pc = "done", ![r].res = "ok"]
  <2>1. PICK p \in Request : p = [q EXCEPT !.pc = "done", !.res = "ok"]
    BY Zenon DEF Request, PCs, Results
  <2>2. /\ p.pc = "done" /\ p.op = q.op /\ p.id = q.id /\ p.body = q.body /\ p.res = "ok"
    BY <2>1 DEF Request
  <2>3. ReqOK(p)
    BY <1>1, <2>2, Zenon DEF ReqOK
  <2>4. req' = [req EXCEPT ![r] = p]
    BY <1>1, <1>3, <2>1, Zenon DEF IInv, TypeOK
  <2>5. QED
    BY <2>3, <2>4, MoveStep, Zenon DEF FinishReload
<1>4. QED
  BY <1>2, <1>3, Zenon DEF FinishReload

(* A credential is deleted, or kept as the last.                           *)
LEMMA DeleteStep ==
  ASSUME IInv, NEW r \in Requests, Delete(r)
  PROVE  IInv'
<1>1. PICK res \in Results, gone \in SUBSET store :
        /\ Answer(r, res) /\ store' = store \ gone /\ gone \subseteq Credentials(store)
        /\ res # "challenge expired"
  <2>1. PICK c \in Creds, allowLast \in BOOLEAN :
          LET d == DeleteCredential(store, req[r].user, c, allowLast) IN
          store' = d.rows /\ Answer(r, d.res[1])
    BY Zenon DEF Delete
  <2> DEFINE d == DeleteCredential(store, req[r].user, c, allowLast)
             own == Owned(store, req[r].user, c)
  <2>2. /\ d.res[1] \in {"notFound", "lastCredential", "ok"}
        /\ d.rows = store \/ d.rows = store \ own
    BY DEF DeleteCredential, Ret
  <2>3. own \subseteq Credentials(store) /\ own \subseteq store
    BY DEF Owned, ByUser, ByID, Credentials
  <2> HIDE DEF d, own
  <2>4. Answer(r, d.res[1]) /\ store' = d.rows
    BY <2>1 DEF d
  <2>5. PICK res \in Results : res = d.res[1] /\ res # "challenge expired"
    BY <2>2, Zenon DEF Results
  <2>6. PICK gone \in SUBSET store : store' = store \ gone /\ gone \subseteq Credentials(store)
    <3>1. CASE d.rows = store
      <4>1. store' = store \ {}
        BY <2>4, <3>1
      <4>2. {} \in SUBSET store /\ {} \subseteq Credentials(store)
        OBVIOUS
      <4>3. QED
        BY <4>1, <4>2, Zenon
    <3>2. CASE d.rows = store \ own
      BY <2>3, <2>4, <3>2
    <3>3. QED
      BY <2>2, <3>1, <3>2
  <2>7. QED
    BY <2>4, <2>5, <2>6, Zenon
<1>2. store \subseteq CredRow \cup ChalRow /\ CredRow \cap ChalRow = {}
  BY Rows DEF IInv, TypeOK
<1>3. /\ store' \subseteq CredRow \cup ChalRow /\ Challenges(store') = Challenges(store)
      /\ \A c \in Credentials(store') : Holds(c.key, c.user)
  BY <1>1, <1>2, Tables, Zenon DEF IInv, Shared
<1>4. PICK p \in Request : req' = [req EXCEPT ![r] = p] /\ ReqOK(p)
  BY <1>1, Answered, Zenon
<1>5. QED
  BY <1>3, <1>4, CredentialStep, Zenon DEF Delete


(* A usernameless sign-in finds the owner the store names.                 *)
LEMMA ResolveStep ==
  ASSUME IInv, NEW r \in Requests, ResolveOwner(r)
  PROVE  IInv'
<1>1. PICK q \in Request : q = req[r] /\ ReqOK(q) /\ q.pc = "lookup"
  BY Zenon DEF IInv, TypeOK, ResolveOwner
<1>2. CASE \E res \in {"challenge failed", "clone warning"} : Answer(r, res)
  BY <1>2, Answered, MoveStep, Zenon DEF ResolveOwner, Results
<1>3. CASE ~\E res \in {"challenge failed", "clone warning"} : Answer(r, res)
  <2> DEFINE found == GetCredentialByID(store, q.body.cred).res
  <2>1. found[1] = "ok" /\ req' = [req EXCEPT ![r].pc = "update", ![r].user = found[2].user]
    <3> HIDE DEF found
    <3>1. QED
      BY <1>1, <1>3, Zenon DEF ResolveOwner, found
  <2>2. found[2] \in ByID(store, q.body.cred)
    BY <2>1 DEF GetCredentialByID, Ret
  <2>3. PICK owner \in Users : owner = found[2].user /\ Holds(q.body.cred, owner)
    <3>1. found[2] \in Credentials(store) /\ found[2].key = q.body.cred
      BY <2>2 DEF ByID
    <3> HIDE DEF found
    <3>2. QED
      BY <3>1 DEF IInv, Shared, Holds
  <2> HIDE DEF found
  <2>4. PICK p \in Request : p = [q EXCEPT !.pc = "update", !.user = owner]
    BY Zenon DEF Request, PCs, AnyUser
  <2>5. /\ p.pc = "update" /\ p.op = q.op /\ p.user = owner /\ p.id = q.id
        /\ p.body = q.body /\ p.creds = q.creds /\ p.failed = q.failed /\ p.res = q.res
    BY <2>4 DEF Request
  <2>6. ReqOK(p)
    BY <1>1, <2>3, <2>5, Zenon DEF ReqOK, LoginOps
  <2>7. req' = [req EXCEPT ![r] = p]
    BY <1>1, <2>1, <2>3, <2>4, Zenon DEF IInv, TypeOK
  <2>8. QED
    BY <2>6, <2>7, MoveStep, Zenon DEF ResolveOwner
<1>4. QED
  BY <1>2, <1>3, Zenon

-----------------------------------------------------------------------------
(* The ceremonies.                                                         *)

(* A ceremony is begun: it is new, and clobbers no sign-in.                *)
LEMMA SaveCeremonyStep ==
  ASSUME IInv, NEW r \in Requests, SaveCeremony(r)
  PROVE  IInv'
<1>1. PICK q \in Request : q = req[r] /\ ReqOK(q) /\ q.pc = "issue"
  BY DEF IInv, TypeOK, SaveCeremony
<1> DEFINE n == Cardinality(issued) + 1
           user == IF q.op = "beginDiscoverable" THEN NoUser ELSE q.user
           i == [op |-> q.op, id |-> n, user |-> user, allowed |-> {c.key : c \in q.creds}]
           key == KeyOf(q.op, q.user, n)
           row == ChallengeRow(key, i, Forever)
<1>2. /\ n <= MaxCeremonies /\ store' = (store \ ByKey(store, key)) \cup {row}
      /\ issued' = issued \cup {i} /\ Answer(r, "ok")
      /\ UNCHANGED <<sent, device, verified>>
  BY <1>1 DEF SaveCeremony, SaveChallenge, Ret
<1>3. q.op \in BeginOps /\ q.user \in Users
  BY <1>1, Zenon DEF ReqOK
<1>4. /\ store \subseteq CredRow \cup ChalRow /\ issued \subseteq Ceremony
      /\ IsFiniteSet(issued) /\ Cardinality(issued) \in Nat
      /\ verified \in [1 .. MaxCeremonies -> Nat]
  BY FS_CardinalityType DEF IInv, TypeOK
<1>5. n \in 1 .. MaxCeremonies
  BY <1>2, <1>4, PasskeyAssumption
<1>6. i \in Ceremony
  <2>1. {c.key : c \in q.creds} \in SUBSET Creds
    BY Rows DEF Request
  <2>2. user \in AnyUser
    BY <1>3 DEF AnyUser
  <2> HIDE DEF n, user
  <2>3. QED
    BY <1>3, <1>5, <2>1, <2>2 DEF Ceremony
<1>7. i.op = q.op /\ i.id = n /\ i.user = user
  OBVIOUS
<1>8. key = KeyOf(i.op, i.user, i.id)
  BY <1>3, <1>7, Keys DEF BeginOps
<1>9. q.op = "beginRegistration" => user \in Users
  BY <1>3
<1> HIDE DEF i, key, user
<1>10. /\ row \in ChalRow /\ row.data = i /\ row.key = key /\ row.table = "passkey_challenges"
  <2>1. row \in ChalRow
    BY <1>6, <1>8, NewRows, Zenon
  <2>2. QED
    BY <2>1 DEF ChallengeRow
<1> HIDE DEF row
<1>11. i \notin issued /\ \A j \in issued : j.id # n
  BY <1>4, <1>7 DEF IInv, Shared, Numbered, Ceremony
<1>12. Cardinality(issued') = n /\ IsFiniteSet(issued')
  BY <1>2, <1>4, <1>11, FS_AddElement
<1>13. PICK p \in Request : req' = [req EXCEPT ![r] = p] /\ ReqOK(p)
  BY <1>2, Answered, Zenon DEF Results
<1>14. TypeOK'
  BY <1>2, <1>4, <1>6, <1>10, <1>12, <1>13 DEF IInv, TypeOK
<1>15. Grows
  BY <1>2, <1>4 DEF Grows
<1>16. Numbered' /\ ChallengeVerifiedOnce'
  <2>1. \A j \in issued' : j.id <= n
    BY <1>2, <1>4, <1>7 DEF IInv, Shared, Numbered, Ceremony
  <2>2. \A j, k \in issued' : j.id = k.id => j = k
    BY <1>2, <1>7, <1>11 DEF IInv, Shared, Numbered
  <2>3. \A m \in 1 .. MaxCeremonies : m > n => verified[m] = 0
    BY <1>4 DEF IInv, Shared, Numbered
  <2>4. \A j \in issued' : j.op = "beginRegistration" => j.user \in Users
    BY <1>2, <1>7, <1>9 DEF IInv, Shared, Numbered
  <2>5. ChallengeVerifiedOnce'
    BY <1>2 DEF IInv, Shared, ChallengeVerifiedOnce
  <2> HIDE DEF n
  <2>6. QED
    BY <1>2, <1>12, <2>1, <2>2, <2>3, <2>4, <2>5, Zenon DEF Numbered
<1>17. verified[n] = 0
  BY <1>4, <1>5 DEF IInv, Shared, Numbered
<1>18. \A c \in Challenges(store') : ChallengeOK(c)'
  BY <1>2, <1>7, <1>10, <1>17 DEF IInv, Shared, Challenges, ChallengeOK
<1>19. ASSUME NEW j \in issued'
       PROVE  Kept(j)'
  <2> SUFFICES ASSUME j.op \in {"beginLogin", "beginDiscoverable"}, ~(verified'[j.id] > 0)
               PROVE  ByKey(store', KeyOf(j.op, j.user, j.id)) # {}
    BY DEF Kept
  <2>1. CASE j = i
    <3>1. row \in ByKey(store', key)
      BY <1>2, <1>10 DEF ByKey, Challenges
    <3>2. QED
      BY <1>8, <2>1, <3>1
  <2>2. CASE j \in issued
    <3>1. PICK c \in ByKey(store, KeyOf(j.op, j.user, j.id)) : TRUE
      BY <1>2, <2>2 DEF IInv, Shared, Kept
    <3>2. KeyOf(j.op, j.user, j.id) # key
      BY <1>6, <1>7, <1>8, <1>11, <2>2, SameKey
    <3>3. c \in ByKey(store', KeyOf(j.op, j.user, j.id))
      BY <1>2, <3>1, <3>2 DEF ByKey, Challenges
    <3>4. QED
      BY <3>3
  <2>3. QED
    BY <1>2, <2>1, <2>2
<1>20. \A c \in Credentials(store') : Holds(c.key, c.user)'
  BY <1>2, <1>10, <1>15, HoldsFrame DEF IInv, Shared, Credentials
<1>21. \A b \in sent' : BodyOK(b)'
  BY <1>2, <1>15, BodyFrame DEF IInv, Shared
<1>22. Shared'
  BY <1>16, <1>18, <1>19, <1>20, <1>21 DEF Shared
<1>23. ReqOK(p)'
  BY <1>13, <1>14, <1>15, RequestFrame DEF IInv
<1>24. QED
  BY <1>13, <1>14, <1>15, <1>22, <1>23, RequestStep, Zenon


(* A challenge is taken out of the store, and with it is spent.            *)
LEMMA Spent ==
  ASSUME IInv, NEW key, NEW row \in ByKey(store, key), NEW data, data = row.data,
         store' = store \ ByKey(store, key),
         verified' = [verified EXCEPT ![data.id] = @ + 1],
         UNCHANGED <<issued, sent, device>>, req' \in [Requests -> Request]
  PROVE  TypeOK' /\ Shared' /\ Grows /\ data \in issued
<1>1. /\ store \subseteq CredRow \cup ChalRow /\ issued \subseteq Ceremony
      /\ verified \in [1 .. MaxCeremonies -> Nat]
  BY DEF IInv, TypeOK
<1>2. row \in Challenges(store) /\ row.key = key /\ row \in ChalRow
  BY <1>1, Tables DEF ByKey
<1>3. data \in issued /\ verified[data.id] = 0
  BY <1>2 DEF IInv, Shared, ChallengeOK
<1>4. data \in Ceremony /\ data.id \in 1 .. MaxCeremonies /\ key = KeyOf(data.op, data.user, data.id)
  BY <1>1, <1>2, <1>3, Rows DEF Ceremony
<1>5. /\ verified' \in [1 .. MaxCeremonies -> Nat] /\ verified'[data.id] = 1
      /\ \A n \in 1 .. MaxCeremonies : n # data.id => verified'[n] = verified[n]
  BY <1>1, <1>3, <1>4, SMTT(30)
<1>6. TypeOK'
  BY <1>1, <1>5 DEF IInv, TypeOK
<1>7. Grows
  BY <1>1, <1>3, <1>4, <1>5, SMTT(30) DEF Grows
<1>8. ChallengeVerifiedOnce'
  BY <1>1, <1>5, SMT, SMTT(30) DEF IInv, Shared, ChallengeVerifiedOnce
<1>9. Numbered'
  <2>1. data.id <= Cardinality(issued) /\ Cardinality(issued) \in Nat
    BY <1>3, FS_CardinalityType, SMT, SMTT(30) DEF IInv, TypeOK, Shared, Numbered
  <2>2. \A n \in 1 .. MaxCeremonies : n > Cardinality(issued) => verified'[n] = 0
    BY <1>4, <1>5, <2>1, SMT, SMTT(30) DEF IInv, Shared, Numbered
  <2>3. QED
    BY <2>2 DEF IInv, Shared, Numbered
<1>10. ASSUME NEW c \in Challenges(store')
       PROVE  ChallengeOK(c)'
  <2>1. c \in Challenges(store) /\ c \notin ByKey(store, key) /\ c \in ChalRow
    BY <1>1, <1>10, Tables DEF Challenges
  <2>2. c.data \in issued /\ verified[c.data.id] = 0 /\ c.data \in Ceremony
    BY <1>1, <2>1 DEF IInv, Shared, ChallengeOK
  <2>3. c.data.id # data.id
    <3>1. SUFFICES ASSUME c.data.id = data.id
                   PROVE  FALSE
      OBVIOUS
    <3>2. c.data = data
      BY <1>3, <2>2, <3>1 DEF IInv, Shared, Numbered
    <3>3. c.key = key
      BY <1>4, <2>1, <3>2, Rows
    <3>4. QED
      BY <2>1, <3>3 DEF ByKey
  <2>4. verified'[c.data.id] = 0
    BY <1>5, <2>2, <2>3 DEF Ceremony
  <2>5. QED
    BY <2>2, <2>4 DEF ChallengeOK
<1>11. ASSUME NEW j \in issued
       PROVE  Kept(j)'
  <2> SUFFICES ASSUME j.op \in {"beginLogin", "beginDiscoverable"}, ~(verified'[j.id] > 0)
               PROVE  ByKey(store', KeyOf(j.op, j.user, j.id)) # {}
    BY DEF Kept
  <2>1. j.id \in 1 .. MaxCeremonies /\ j.id # data.id
    BY <1>1, <1>5, <1>11 DEF Ceremony
  <2>2. KeyOf(j.op, j.user, j.id) # key
    BY <1>4, <2>1, SameKey
  <2>3. PICK c \in ByKey(store, KeyOf(j.op, j.user, j.id)) : TRUE
    BY <1>5, <1>11, <2>1 DEF IInv, Shared, Kept
  <2>4. c \in ByKey(store', KeyOf(j.op, j.user, j.id))
    BY <2>2, <2>3 DEF ByKey, Challenges
  <2>5. QED
    BY <2>4
<1>12. \A c \in Credentials(store') : Holds(c.key, c.user)'
  BY <1>7, HoldsFrame DEF IInv, Shared, Credentials
<1>13. \A b \in sent' : BodyOK(b)'
  BY <1>7, BodyFrame DEF IInv, Shared
<1>14. Shared'
  BY <1>8, <1>9, <1>10, <1>11, <1>12, <1>13 DEF Shared
<1>15. QED
  BY <1>3, <1>6, <1>7, <1>14

(* A response that passes: the user it is for holds the authenticator.     *)
LEMMA PassedOK ==
  ASSUME IInv, NEW q \in Request, ReqOK(q), q.pc = "consume", NEW data \in issued,
         q.op = "finishRegistration" => CreateCredential(q.user, data, q.body),
         q.op = "finishLogin" => ValidateLogin(q.user, data, q.body, q.creds),
         NEW to, to = CASE q.op = "finishRegistration" -> "save"
                        [] q.op = "finishLogin"        -> "update"
                        [] q.op = "finishDiscoverable" -> "lookup"
  PROVE  LET p == [q EXCEPT !.data = {data}, !.pc = to] IN p \in Request /\ ReqOK(p)
<1>1. /\ q.op \in LoginOps \cup {"finishRegistration"} /\ BodyOK(q.body)
      /\ \A s \in q.creds : Holds(s.key, q.user)
  BY Zenon DEF ReqOK
<1>2. /\ to \in {"save", "update", "lookup"} /\ (to = "save" <=> q.op = "finishRegistration")
      /\ (to = "update" <=> q.op = "finishLogin")
      /\ (to = "lookup" <=> q.op = "finishDiscoverable")
  BY <1>1 DEF LoginOps
<1>3. to # "lookup" => Holds(q.body.cred, q.user)
  <2>1. CASE q.op = "finishRegistration"
    <3>1. q.body.op = "create" /\ q.body.challenge = data.id /\ data.user = q.user
      BY <2>1 DEF CreateCredential
    <3>2. PICK i \in issued : i.id = data.id /\ i.user = q.body.handle
      BY <1>1, <3>1 DEF BodyOK
    <3>3. i = data
      BY <3>2 DEF IInv, Shared, Numbered
    <3>4. QED
      BY <1>1, <3>1, <3>2, <3>3 DEF BodyOK
  <2>2. CASE q.op = "finishLogin"
    BY <1>1, <2>2 DEF ValidateLogin
  <2>3. QED
    BY <1>1, <1>2, <2>1, <2>2 DEF LoginOps
<1>4. PICK p \in Request : p = [q EXCEPT !.data = {data}, !.pc = to]
  <2>1. {data} \in SUBSET Ceremony
    BY DEF IInv, TypeOK
  <2>2. QED
    BY <1>2, <2>1, Zenon DEF Request, PCs
<1>5. /\ p.pc = to /\ p.op = q.op /\ p.user = q.user /\ p.id = q.id /\ p.body = q.body
      /\ p.creds = q.creds /\ p.failed = q.failed /\ p.res = q.res
  BY <1>4, Zenon DEF Request
<1>6. ReqOK(p)
  BY <1>1, <1>2, <1>3, <1>5, Zenon DEF ReqOK, LoginOps
<1>7. QED
  BY <1>4, <1>6, Zenon


(* ConsumeChallenge finds nothing, or the challenge of a ceremony.         *)
LEMMA Consumed ==
  ASSUME IInv, NEW key
  PROVE  LET c == ConsumeChallenge(store, key, 0) IN
         /\ c.rows = store \ ByKey(store, key)
         /\ ByKey(store, key) = {} => c.res[1] # "ok"
         /\ ByKey(store, key) # {} =>
              c.res[1] = "ok" /\ \E row \in ByKey(store, key) : c.res[2] = row.data
<1>1. \A row \in ByKey(store, key) : row.exp = 1
  BY Rows, Tables DEF ByKey, IInv, TypeOK
<1>2. (\A row \in ByKey(store, key) : 0 >= row.exp) <=> ByKey(store, key) = {}
  BY <1>1
<1>3. QED
  BY <1>2, Zenon DEF ConsumeChallenge, Ret

(* A response is verified, or comes too late.                              *)
LEMMA ConsumeStep ==
  ASSUME IInv, NEW r \in Requests, Consume(r)
  PROVE  IInv'
<1>1. PICK q \in Request : q = req[r] /\ ReqOK(q) /\ q.pc = "consume"
  BY Zenon DEF IInv, TypeOK, Consume
<1> DEFINE key == KeyOf(q.op, q.user, q.id)
           c == ConsumeChallenge(store, key, 0)
           data == c.res[2]
           to == CASE q.op = "finishRegistration" -> "save"
                   [] q.op = "finishLogin"        -> "update"
                   [] q.op = "finishDiscoverable" -> "lookup"
<1>2. UNCHANGED <<issued, sent, device>> /\ store' = c.rows
  BY <1>1, Zenon DEF Consume
<1>3. c.rows = store \ ByKey(store, key)
  BY Consumed
<1>4. CASE ByKey(store, key) = {}
  <2>1. c.res[1] # "ok"
    BY <1>4, Consumed
  <2>2. Answer(r, "challenge expired") /\ UNCHANGED verified
    <3> HIDE DEF c
    <3>1. QED
      BY <1>1, <2>1, Zenon DEF Consume, c
  <2>3. store' = store
    BY <1>2, <1>3, <1>4, SMTT(30)
  <2>4. q.op \in LoginOps => verified[q.id] > 0
    <3>1. SUFFICES ASSUME q.op \in LoginOps
                   PROVE  verified[q.id] > 0
      OBVIOUS
    <3>2. PICK i \in issued : i.id = q.id /\ i.op = Begun(q.op)
      BY <1>1, <3>1, Zenon DEF ReqOK
    <3>3. KeyOf(i.op, i.user, i.id) = key /\ i.op \in {"beginLogin", "beginDiscoverable"}
      BY <3>1, <3>2, Keys DEF Begun, LoginOps
    <3>4. QED
      BY <1>4, <3>2, <3>3 DEF IInv, Shared, Kept
  <2>5. QED
    BY <1>1, <1>2, <2>2, <2>3, <2>4, Answered, MoveStep, Zenon DEF Results
<1>5. CASE ByKey(store, key) # {}
  <2>1. c.res[1] = "ok" /\ \E row \in ByKey(store, key) : data = row.data
    BY <1>5, Consumed
  <2>2. PICK row \in ByKey(store, key) : data = row.data
    BY <2>1
  <2> DEFINE good == /\ q.body.op # "garbled"
                     /\ CASE q.op = "finishRegistration" -> CreateCredential(q.user, data, q.body)
                          [] q.op = "finishLogin" -> ValidateLogin(q.user, data, q.body, q.creds)
                          [] q.op = "finishDiscoverable" -> TRUE
  <2>3. /\ verified' = [verified EXCEPT ![data.id] = @ + 1]
        /\ \/ Answer(r, "challenge failed") \/ Answer(r, "clone warning")
           \/ good /\ req' = [req EXCEPT ![r].data = {data}, ![r].pc = to]
    <3> HIDE DEF c
    <3>1. QED
      BY <1>1, <2>1, Zenon DEF Consume, c
  <2>4. PICK d \in issued : d = data
    <3>1. data \in issued
      BY <2>2, Tables DEF IInv, Shared, ChallengeOK, ByKey
    <3>2. QED
      BY <3>1
  <2> HIDE DEF c, data, to
  <2>5. PICK p \in Request : req' = [req EXCEPT ![r] = p] /\ ReqOK(p)
    <3>1. CASE Answer(r, "challenge failed") \/ Answer(r, "clone warning")
      BY <3>1, Answered, Zenon DEF Results
    <3>2. CASE good /\ req' = [req EXCEPT ![r].data = {data}, ![r].pc = to]
      <4>1. /\ q.op = "finishRegistration" => CreateCredential(q.user, d, q.body)
            /\ q.op = "finishLogin" => ValidateLogin(q.user, d, q.body, q.creds)
        BY <2>4, <3>2, Zenon
      <4>2. [q EXCEPT !.data = {d}, !.pc = to] \in Request
            /\ ReqOK([q EXCEPT !.data = {d}, !.pc = to])
        BY <1>1, <4>1, PassedOK, Zenon DEF to
      <4>3. req' = [req EXCEPT ![r] = [q EXCEPT !.data = {d}, !.pc = to]]
        BY <1>1, <2>4, <3>2, Zenon DEF IInv, TypeOK
      <4>4. QED
        BY <4>2, <4>3, Zenon
    <3>3. QED
      BY <2>3, <3>1, <3>2, Zenon
  <2>6. req' \in [Requests -> Request]
    BY <2>5 DEF IInv, TypeOK
  <2>7. TypeOK' /\ Shared' /\ Grows
    BY <1>2, <1>3, <2>2, <2>3, <2>6, Spent, Zenon
  <2>8. ReqOK(p)'
    BY <2>5, <2>7, RequestFrame DEF IInv
  <2>9. QED
    BY <2>5, <2>7, <2>8, RequestStep, Zenon
<1>6. QED
  BY <1>4, <1>5

(* An authenticator signs: it takes a user once, and keeps that user.      *)
LEMMA SignStep ==
  ASSUME IInv, NEW c \in Creds, Sign(c)
  PROVE  IInv'
<1> DEFINE handle(i) == IF i.op = "beginRegistration" THEN i.user ELSE device[c].handle
           count == IF c \in Counterless THEN 0 ELSE device[c].count + 1
           body(i) == [op |-> IF i.op = "beginRegistration" THEN "create" ELSE "get",
                       challenge |-> i.id, cred |-> c, handle |-> handle(i), count |-> count]
<1>1. PICK i \in issued :
        /\ IF i.op = "beginRegistration"
             THEN c \notin i.allowed /\ device[c].handle = NoUser
             ELSE device[c].handle # NoUser /\ (i.op = "beginLogin" => c \in i.allowed)
        /\ device' = [device EXCEPT ![c] = [count |-> count, handle |-> handle(i)]]
        /\ sent' = sent \cup {body(i)}
        /\ UNCHANGED <<store, issued, verified, req>>
  BY Zenon DEF Sign
<1>2. device \in [Creds -> [count : Nat, handle : AnyUser]] /\ i \in Ceremony
  BY DEF IInv, TypeOK
<1>3. PICK h \in Users : /\ h = handle(i)
                         /\ i.op = "beginRegistration" => h = i.user /\ device[c].handle = NoUser
                         /\ i.op # "beginRegistration" => h = device[c].handle
  BY <1>1, <1>2 DEF AnyUser, IInv, Shared, Numbered
<1>4. PICK n \in Nat : n = count
  BY <1>2, SMTT(30)
<1>5. device' = [device EXCEPT ![c] = [count |-> n, handle |-> h]]
  BY <1>1, <1>3, <1>4
<1>6. PICK b \in Body : /\ sent' = sent \cup {b} /\ b.op \in {"create", "get"} /\ b.cred = c
                        /\ b.handle = h /\ b.challenge = i.id
                        /\ b.op = "create" => i.op = "beginRegistration"
  <2> DEFINE op == IF i.op = "beginRegistration" THEN "create" ELSE "get"
  <2>1. sent' = sent \cup {[op |-> op, challenge |-> i.id, cred |-> c, handle |-> h, count |-> n]}
    BY <1>1, <1>3, <1>4
  <2>2. op \in {"create", "get"} /\ (op = "create" => i.op = "beginRegistration")
    OBVIOUS
  <2> HIDE DEF op, count
  <2>3. i.id \in Nat /\ h \in AnyUser
    BY <1>2 DEF Ceremony, AnyUser
  <2>4. [op |-> op, challenge |-> i.id, cred |-> c, handle |-> h, count |-> n] \in Body
    BY <2>2, <2>3, SMT, SMTT(30) DEF Body
  <2>5. QED
    BY <2>1, <2>2, <2>4
<1> HIDE DEF handle, count, body
<1>7. TypeOK'
  <2>1. device' \in [Creds -> [count : Nat, handle : AnyUser]]
    BY <1>2, <1>5, SMTT(30) DEF AnyUser
  <2>2. QED
    BY <1>1, <1>6, <2>1 DEF IInv, TypeOK
<1>8. Grows
  <2>1. \A d \in Creds : device[d].handle \in Users => device'[d].handle = device[d].handle
    <3>1. device'[c].handle = h /\ \A d \in Creds : d # c => device'[d] = device[d]
      BY <1>2, <1>5
    <3>2. QED
      BY <1>3, <3>1, PasskeyAssumption
  <2>2. QED
    BY <1>1, <2>1, SMT, SMTT(30) DEF Grows, IInv, TypeOK
<1>9. /\ Numbered' /\ ChallengeVerifiedOnce' /\ (\A d \in Challenges(store) : ChallengeOK(d))'
      /\ (\A j \in issued : Kept(j))'
  BY <1>1, Zenon DEF IInv, Shared, Numbered, ChallengeVerifiedOnce, ChallengeOK, Kept
<1>10. (\A d \in Credentials(store) : Holds(d.key, d.user))'
  BY <1>1, <1>8, HoldsFrame, Zenon DEF IInv, Shared
<1>11. BodyOK(b)'
  <2>1. Holds(c, h)'
    BY <1>2, <1>5 DEF Holds
  <2>2. b.op = "create" => i.id = b.challenge /\ i.op = "beginRegistration" /\ i.user = b.handle
    BY <1>3, <1>6, SMTT(30)
  <2>3. QED
    BY <1>1, <1>6, <2>1, <2>2 DEF BodyOK
<1>12. \A d \in sent' : BodyOK(d)'
  BY <1>6, <1>8, <1>11, BodyFrame DEF IInv, Shared
<1>13. Shared'
  BY <1>9, <1>10, <1>12 DEF Shared
<1>14. \A r \in Requests : ReqOK(req[r])'
  BY <1>1, <1>7, <1>8, RequestFrame DEF IInv, TypeOK
<1>15. QED
  BY <1>7, <1>13, <1>14 DEF IInv


-----------------------------------------------------------------------------
(* The invariant and the theorems.                                         *)

(* The enrolled credentials, each held by its user, and no ceremony.       *)
LEMMA InitOK == Init => IInv
<1> SUFFICES ASSUME Init
             PROVE  IInv
  OBVIOUS
<1>1. \A c \in DOMAIN Enrolled : c \in Creds /\ Enrolled[c] \in Users
  BY PasskeyAssumption
<1>2. \A s \in store : s \in CredRow /\ Holds(s.key, s.user)
  <2> SUFFICES ASSUME NEW s \in store
               PROVE  s \in CredRow /\ Holds(s.key, s.user)
    OBVIOUS
  <2>1. PICK c \in DOMAIN Enrolled : s = CredentialRow(c, Enrolled[c], Unused, "")
    BY Zenon DEF Init
  <2>2. s \in CredRow /\ s.key = c /\ s.user = Enrolled[c]
    BY <1>1, <2>1, NewRows, Zenon
  <2>3. device[c].handle = Enrolled[c]
    BY <1>1, Zenon DEF Init
  <2>4. QED
    BY <1>1, <2>2, <2>3 DEF Holds
<1>3. device \in [Creds -> [count : Nat, handle : AnyUser]]
  BY <1>1, Zenon DEF Init, AnyUser
<1>4. TypeOK
  BY <1>2, <1>3, IdleOK, FS_EmptySet, PasskeyAssumption, Zenon DEF Init, TypeOK
<1>5. Challenges(store) = {} /\ Credentials(store) \subseteq store
  BY <1>2, Rows DEF Challenges, Credentials
<1>6. Numbered
  BY FS_EmptySet, Zenon DEF Init, Numbered
<1>7. ChallengeVerifiedOnce
  <2>1. \A n \in DOMAIN verified : verified[n] = 0
    BY Zenon DEF Init
  <2>2. QED
    BY <2>1 DEF ChallengeVerifiedOnce
<1>8. Shared
  BY <1>2, <1>5, <1>6, <1>7, Zenon DEF Init, Shared
<1>9. ReqOK(Idle)
  BY IdleOK DEF ReqOK, LoginOps
<1>10. QED
  BY <1>4, <1>8, <1>9, Zenon DEF Init, IInv

(* Every step keeps the invariant.                                         *)
LEMMA NextOK == IInv /\ [Next]_vars => IInv'
<1> SUFFICES ASSUME IInv, [Next]_vars
             PROVE  IInv'
  OBVIOUS
<1>1. CASE UNCHANGED vars
  <2>1. TypeOK' /\ Grows
    BY <1>1, SMTT(30) DEF vars, IInv, TypeOK, Grows
  <2>2. Shared'
    BY <1>1 DEF vars, IInv, Shared, Numbered, ChallengeVerifiedOnce, ChallengeOK, Kept, BodyOK,
                Holds
  <2>3. \A r \in Requests : ReqOK(req[r])'
    BY <1>1, <2>1, RequestFrame DEF vars, IInv, TypeOK
  <2>4. QED
    BY <2>1, <2>2, <2>3 DEF IInv
<1>2. ASSUME NEW r \in Requests, Step(r)
      PROVE  IInv'
  BY <1>2, StartStep, FailedStep, LoadStep, SaveCeremonyStep, ConsumeStep, SaveStep,
     ResolveStep, UpdateStep, ReloadStep, DeleteStep DEF Step
<1>3. QED
  BY <1>1, <1>2, SignStep DEF Next

(* The invariant holds of every behaviour.                                 *)
LEMMA Invariance == Spec => []IInv
BY InitOK, NextOK, PTL DEF Spec

(* ConsumeChallenge comes before verification: no challenge is verified    *)
(* against twice, however often and in whatever order responses arrive.    *)
THEOREM ChallengesAreSpent == Spec => []ChallengeVerifiedOnce
<1>1. IInv => ChallengeVerifiedOnce
  BY DEF IInv, Shared
<1>2. QED
  BY <1>1, Invariance, PTL

(* A sign-in ceremony is lost only to a response verified against it.      *)
THEOREM CeremoniesAreKept == Spec => []CeremonyNotClobbered
<1>1. IInv => CeremonyNotClobbered
  BY Zenon DEF IInv, ReqOK, CeremonyNotClobbered, LoginOps
<1>2. QED
  BY <1>1, Invariance, PTL

(* finishLoginCredential reads the credential back: whoever is signed in   *)
(* owns the credential that is stored at that moment.                      *)
THEOREM OwnersAreSignedIn == Spec => SignsInTheOwner
<1> DEFINE Owner == \A r \in Requests :
                      SignsIn(r) => Owned(store, req[r].user, req[r].body.cred) # {}
<1>1. IInv /\ [Next]_vars => Owner
  <2> SUFFICES ASSUME IInv, [Next]_vars, NEW r \in Requests, SignsIn(r)
               PROVE  Owned(store, req[r].user, req[r].body.cred) # {}
    OBVIOUS
  <2>1. PICK q \in Request : q = req[r] /\ ReqOK(q)
    BY DEF IInv, TypeOK
  <2>2. q.op \in LoginOps /\ q.res # "ok" /\ req'[r].res = "ok"
    BY <2>1 DEF SignsIn, LoginOps
  <2>3. req \in [Requests -> Request]
    BY DEF IInv, TypeOK
  <2>4. Step(r)
    <3>1. ASSUME NEW t \in Requests, Step(t), t # r
          PROVE  FALSE
      <4>1. \A res : Answer(t, res) => req'[r] = req[r]
        BY <2>3, <3>1 DEF Answer
      <4>2. \A pc : Go(t, pc) => req'[r] = req[r]
        BY <2>3, <3>1 DEF Go
      <4>3. CASE Start(t) \/ StoreFailed(t)
        BY <2>1, <2>2, <2>3, <3>1, <4>3, Zenon DEF Start, StoreFailed
      <4>4. CASE LoadCredentials(t) \/ ResolveOwner(t)
        BY <2>1, <2>2, <2>3, <3>1, <4>1, <4>4, Zenon DEF LoadCredentials, ResolveOwner
      <4>5. CASE Consume(t)
        BY <2>1, <2>2, <2>3, <3>1, <4>1, <4>5, Zenon DEF Consume
      <4>6. CASE SaveCeremony(t) \/ SaveRegistered(t) \/ Delete(t)
        BY <2>1, <2>2, <4>1, <4>6, Zenon DEF SaveCeremony, SaveRegistered, Delete
      <4>7. CASE FinishUpdate(t) \/ FinishReload(t)
        BY <2>1, <2>2, <2>3, <3>1, <4>1, <4>2, <4>7, Zenon DEF FinishUpdate, FinishReload
      <4>8. QED
        BY <3>1, <4>3, <4>4, <4>5, <4>6, <4>7 DEF Step
    <3>2. \A c : ~Sign(c) /\ ~UNCHANGED vars
      BY <2>1, <2>2 DEF Sign, vars
    <3>3. QED
      BY <3>1, <3>2 DEF Next
  <2>5. Idle \in Request /\ Idle.res = "none"
    BY IdleOK
  <2> HIDE DEF Idle
  <2>6. \A res \in Results : Answer(r, res) => req'[r].res = res
    BY <2>3, <2>5 DEF Answer, Request
  <2>7. FinishReload(r)
    <3>1. ~Start(r)
      <4>1. SUFFICES ASSUME Start(r)
                     PROVE  FALSE
        OBVIOUS
      <4>2. req'[r].res \in {"none", "too large"}
        BY <2>3, <2>5, <4>1 DEF Start, Request
      <4>3. QED
        BY <2>2, <4>2
    <3>2. ~StoreFailed(r)
      <4>1. SUFFICES ASSUME StoreFailed(r)
                     PROVE  FALSE
        OBVIOUS
      <4>2. req'[r].res \in {"challenge expired", "challenge failed", "store failed"}
        BY <2>3, <2>5, <4>1 DEF StoreFailed, Request
      <4>3. QED
        BY <2>2, <4>2
    <3>3. ~LoadCredentials(r)
      <4>1. SUFFICES ASSUME LoadCredentials(r)
                     PROVE  FALSE
        OBVIOUS
      <4>2. \/ Answer(r, "not found")
            \/ \E creds, to : req' = [req EXCEPT ![r].creds = creds, ![r].pc = to]
        BY <4>1, Zenon DEF LoadCredentials
      <4>3. ASSUME NEW creds, NEW to, req' = [req EXCEPT ![r].creds = creds, ![r].pc = to]
            PROVE  req'[r].res = q.res
        BY <2>1, <2>3, <4>3 DEF Request
      <4>4. QED
        BY <2>2, <2>6, <4>2, <4>3, Zenon DEF Results
    <3>4. ~ResolveOwner(r) /\ ~Consume(r)
      <4>1. SUFFICES ASSUME ResolveOwner(r) \/ Consume(r)
                     PROVE  FALSE
        OBVIOUS
      <4>2. \/ \E res \in {"challenge failed", "clone warning", "challenge expired"} : Answer(r, res)
            \/ \E data, to : req' = [req EXCEPT ![r].data = data, ![r].pc = to]
            \/ \E user, to : req' = [req EXCEPT ![r].pc = to, ![r].user = user]
        <5>1. CASE ResolveOwner(r)
          BY <5>1, Zenon DEF ResolveOwner
        <5>2. CASE Consume(r)
          <6> DEFINE c == ConsumeChallenge(store, KeyOf(q.op, q.user, q.id), 0)
                     to == CASE q.op = "finishRegistration" -> "save"
                             [] q.op = "finishLogin"        -> "update"
                             [] q.op = "finishDiscoverable" -> "lookup"
          <6> HIDE DEF c
          <6>1. \/ Answer(r, "challenge expired") \/ Answer(r, "challenge failed")
                \/ Answer(r, "clone warning")
                \/ req' = [req EXCEPT ![r].data = {c.res[2]}, ![r].pc = to]
            BY <2>1, <5>2, Zenon DEF Consume, c
          <6> HIDE DEF to
          <6>2. QED
            BY <6>1, Zenon
        <5>3. QED
          BY <4>1, <5>1, <5>2, Zenon
      <4>3. ASSUME NEW data, NEW to, req' = [req EXCEPT ![r].data = data, ![r].pc = to]
            PROVE  req'[r].res = q.res
        BY <2>1, <2>3, <4>3 DEF Request
      <4>4. ASSUME NEW user, NEW to, req' = [req EXCEPT ![r].pc = to, ![r].user = user]
            PROVE  req'[r].res = q.res
        BY <2>1, <2>3, <4>4 DEF Request
      <4>5. QED
        BY <2>2, <2>6, <4>2, <4>3, <4>4, Zenon DEF Results
    <3>5. ~SaveCeremony(r) /\ ~SaveRegistered(r) /\ ~Delete(r)
      BY <2>1, <2>2, Zenon DEF SaveCeremony, SaveRegistered, Delete, ReqOK, BeginOps, LoginOps
    <3>6. ~FinishUpdate(r)
      BY <2>1, <2>2, <2>3, <2>6, Zenon DEF FinishUpdate, Go, Results, Request
    <3>7. QED
      BY <2>4, <3>1, <3>2, <3>3, <3>4, <3>5, <3>6 DEF Step
  <2>8. Reloaded(store, q) /\ Holds(q.body.cred, q.user)
    BY <2>1, <2>2, <2>6, <2>7, Zenon DEF FinishReload, ReqOK, Results
  <2>9. ByID(store, q.body.cred) # {}
    BY <2>8 DEF Reloaded, GetCredentialByID, Ret
  <2>10. PICK s \in ByID(store, q.body.cred) : TRUE
    BY <2>9
  <2>11. s \in Credentials(store) /\ s.key = q.body.cred /\ s.user = q.user
    BY <2>8, <2>10 DEF IInv, Shared, ByID, Holds
  <2>12. QED
    BY <2>1, <2>10, <2>11 DEF Owned, ByUser
<1>2. IInv /\ [Next]_vars => [Owner]_vars
  BY <1>1
<1>3. QED
  BY <1>2, Invariance, PTL DEF Spec, SignsInTheOwner

=============================================================================
