---------------------------- MODULE WebAppProofs ----------------------------
(***************************************************************************)
(* Proofs about WebApp: for any number of requests, passkeys, pending      *)
(* logins and addresses, whatever restarts and whichever store calls fail. *)
(***************************************************************************)
EXTENDS WebApp, TLAPS, FiniteSetTheorems

-----------------------------------------------------------------------------
(* The inductive invariant of Factors.                                     *)

AllOps == {"login", "second", "enroll", "confirm", "disable", "generate", "register", "delete"}

Results == {"none", "session", "second factor", "expired", "wrong code", "token invalid",
            "refused", "ok", "error", "lost"}

LoginPCs == {"totp?", "keys?", "token", "add"}

SecondPCs == {"take", "verify", "complete"}

PCs == LoginPCs \cup SecondPCs \cup
       {"idle", "enroll", "confirm", "unenroll", "left?", "purge", "generate", "save",
        "active?", "delete", "done"}

Request == [pc : PCs, op : AllOps \cup {"none"}, token : Nat, key : Keys \cup {"none"},
            recovery : BOOLEAN, saw : BOOLEAN, held : BOOLEAN, stable : BOOLEAN,
            off : BOOLEAN, res : Results]

Token == [id : Nat, expires : Nat]

FactorsTypeOK ==
  /\ clock \in Nat /\ codes \in Nat
  /\ totp \in {"none", "pending", "active"}
  /\ keys \subseteq Keys
  /\ tokens \subseteq Token /\ pending2FA \subseteq Token
  /\ made \in 0 .. MaxTokens
  /\ given \subseteq 1 .. made
  /\ checked \in [1 .. MaxTokens -> Nat]
  /\ req \in [Requests -> Request]

(* A code is tried for a pending login that a browser was given, and then  *)
(* its entry is gone.                                                      *)
PendingOK ==
  /\ \A e \in pending2FA : e.id \in given /\ checked[e.id] = 0
  /\ \A n \in 1 .. MaxTokens : checked[n] <= 1 /\ (checked[n] > 0 => n \in given)

(* Where a request is, what it knows of the account's factors.             *)
ReqOK(q) ==
  /\ q.pc \in LoginPCs => q.op = "login"
  /\ q.pc \in SecondPCs => q.op = "second"
  /\ q.pc # "done" => q.res = "none"
  /\ q.pc = "save" => q.key \in Keys
  /\ q.pc = "take" => q.token \in given
  /\ q.pc = "add" => q.token \in 1 .. made /\ q.token \notin given
  /\ q.pc \in {"totp?", "keys?"} /\ q.held => HasFactor
  /\ q.pc = "keys?" /\ q.stable => totp # "active"
  /\ q.pc = "delete" /\ q.saw => q.off \/ totp = "active"
  /\ (q.op = "login" /\ q.res = "session" /\ q.stable) => ~q.held

(* Two logins never add the same token.                                    *)
OwnTokens ==
  \A r, s \in Requests :
    (r # s /\ req[r].pc = "add" /\ req[s].pc = "add") => req[r].token # req[s].token

FInv ==
  /\ FactorsTypeOK /\ PendingOK /\ OwnTokens
  /\ \A r \in Requests : ReqOK(req[r])

-----------------------------------------------------------------------------
(* The inductive invariant of EmailNotice.                                 *)

Address == Emails \cup {None}

ChangePCs == {"free?", "stage", "token", "add"}

ConfirmPCs == {"take", "consume", "swap"}

Change == [pc : ChangePCs \cup ConfirmPCs \cup {"idle", "purge", "notice", "done"},
           ctx : Address, new : Address, seen : SUBSET Nat, token : Nat,
           oldAddr : Address, lost : Address, due : BOOLEAN,
           res : {"none", "in use", "sent", "invalid", "error", "confirmed", "lost"}]

NoticeTypeOK ==
  /\ email \in Emails /\ PendingEmail \in Address
  /\ minted \in Nat
  /\ mailed \subseteq [id : 1 .. minted, email : Emails]
  /\ emailChanges \subseteq [id : Nat, oldAddr : Emails]
  /\ DOMAIN links \subseteq 1 .. minted /\ links \in [DOMAIN links -> Nat]
  /\ landed \subseteq 1 .. minted
  /\ changeReq \in [Requests -> Change]

Mailed(n) == \E t \in mailed : t.id = n

(* While a token is current, whoever its entry names has the account, and  *)
(* its link was followed at most once.                                     *)
CurrentOK(n) ==
  /\ n \in DOMAIN links
  /\ links[n] <= 1
  /\ \A e \in emailChanges : e.id = n => e.oldAddr = email
  /\ links[n] = 0 => \E e \in emailChanges : e.id = n

ChangeOK(q) ==
  /\ q.pc \in ChangePCs =>
       /\ q.new \in Emails /\ q.ctx \in Emails
       /\ q.seen \subseteq landed
       /\ q.seen = landed => q.ctx = email
  /\ q.pc = "add" => q.token \in 1 .. minted /\ q.token \notin DOMAIN links
  /\ q.pc \in ConfirmPCs => q.token \in DOMAIN links
  /\ q.pc \in ConfirmPCs /\ q.token \in current => links[q.token] = 1
  /\ q.pc = "take" /\ q.token \in current => \E e \in emailChanges : e.id = q.token
  /\ q.pc \in {"consume", "swap"} /\ q.token \in current => q.oldAddr = email
  /\ q.pc = "swap" => ~Mailed(q.token) /\ q.token \notin landed /\ q.new \in Emails
  /\ q.pc \in ChangePCs \cup ConfirmPCs => ~q.due
  /\ q.pc # "done" => q.res = "none"
  /\ q.pc = "idle" => ~q.due
  /\ q.due => q.lost \in Emails /\ q.oldAddr = q.lost
  /\ (q.res = "confirmed" /\ q.due) => [id |-> q.token, to |-> q.lost] \in notices

(* No two requests add one token, consume one token, or follow the link of *)
(* one that is current.                                                    *)
Apart(p, q) ==
  /\ p.pc = "add" /\ q.pc = "add" => p.token # q.token
  /\ p.pc = "swap" /\ q.pc = "swap" => p.token # q.token
  /\ (p.pc \in ConfirmPCs /\ q.pc \in ConfirmPCs /\ p.token = q.token) => p.token \notin current

NShared ==
  /\ \A n \in current : CurrentOK(n)
  /\ \A e \in emailChanges : e.id \in DOMAIN links
  /\ \A n \in landed : ~Mailed(n)

NInv ==
  /\ NoticeTypeOK /\ NShared
  /\ \A r \in Requests : ChangeOK(changeReq[r])
  /\ \A r, s \in Requests : r # s => Apart(changeReq[r], changeReq[s])

-----------------------------------------------------------------------------
(* Factors: frames.                                                        *)

(* A step that leaves the second factors as good as they were.             *)
SameFactors ==
  /\ HasFactor' = HasFactor
  /\ (totp' = "active") = (totp = "active")

(* A request that does not move while the factors do not change.           *)
LEMMA RequestFrame ==
  ASSUME NEW q \in Request, ReqOK(q), SameFactors, made \in Nat, made' \in Nat, made <= made',
         given \subseteq given', q.pc = "add" => q.token \notin given'
  PROVE  ReqOK(q)'
<1>1. q.pc = "add" => q.token \in 1 .. made'
  BY DEF ReqOK, Request
<1>2. QED
  BY <1>1 DEF ReqOK, SameFactors

(* A step of request r that leaves it as p, and the factors as they were.  *)
LEMMA RequestStep ==
  ASSUME FInv, NEW r \in Requests, NEW p \in Request, req' = [req EXCEPT ![r] = p],
         ReqOK(p)', FactorsTypeOK', PendingOK', SameFactors, made <= made',
         given \subseteq given',
         \A s \in Requests \ {r} : req[s].pc = "add" => req[s].token \notin given',
         p.pc = "add" =>
           \A s \in Requests \ {r} : req[s].pc = "add" => req[s].token # p.token
  PROVE  FInv'
<1>1. ASSUME NEW t \in Requests
      PROVE  ReqOK(req[t])'
  <2>1. CASE t = r
    BY <2>1 DEF FInv, FactorsTypeOK
  <2>2. CASE t # r
    <3>1. PICK q \in Request : q = req[t] /\ q = req'[t] /\ ReqOK(q)
      BY <1>1, <2>2 DEF FInv, FactorsTypeOK
    <3>2. made \in Nat /\ made' \in Nat
      BY DEF FInv, FactorsTypeOK
    <3>3. ReqOK(q)'
      BY <1>1, <2>2, <3>1, <3>2, RequestFrame
    <3>4. QED
      BY <3>1, <3>3
  <2>3. QED
    BY <2>1, <2>2
<1>2. OwnTokens'
  <2>1. req'[r] = p /\ \A t \in Requests \ {r} : req'[t] = req[t]
    BY DEF FInv, FactorsTypeOK
  <2>2. QED
    BY <2>1 DEF FInv, OwnTokens
<1>3. QED
  BY <1>1, <1>2 DEF FInv

(* A step of a request that shares nothing.                                *)
LEMMA MoveStep ==
  ASSUME FInv, NEW r \in Requests, NEW p \in Request, req' = [req EXCEPT ![r] = p],
         ReqOK(p), p.pc # "add",
         UNCHANGED <<clock, totp, keys, codes, tokens, pending2FA, given, made, checked>>
  PROVE  FInv'
<1>1. FactorsTypeOK' /\ PendingOK' /\ SameFactors
  BY DEF FInv, FactorsTypeOK, PendingOK, SameFactors, HasFactor
<1>2. made <= made' /\ made \in Nat /\ made' \in Nat
  BY DEF FInv, FactorsTypeOK
<1>3. ReqOK(p)'
  BY <1>1, <1>2, RequestFrame
<1>4. \A s \in Requests \ {r} : req[s].pc = "add" => req[s].token \notin given'
  BY DEF FInv, ReqOK
<1>5. QED
  BY <1>1, <1>2, <1>3, <1>4, RequestStep, Zenon

(* A request that answers, with anything but a session for a password.     *)
LEMMA AnswerOK ==
  ASSUME NEW q \in Request, ReqOK(q), NEW res \in Results,
         (q.op = "login" /\ res = "session" /\ q.stable) => ~q.held
  PROVE  LET p == [q EXCEPT !.pc = "done", !.res = res] IN
         p \in Request /\ p.pc = "done" /\ ReqOK(p) /\ ReqOK(p)'
<1>1. PICK p \in Request : p = [q EXCEPT !.pc = "done", !.res = res]
  BY Zenon DEF Request, PCs
<1>2. /\ p.pc = "done" /\ p.res = res /\ p.op = q.op /\ p.stable = q.stable
      /\ p.held = q.held
  BY <1>1 DEF Request
<1>3. ReqOK(p) /\ ReqOK(p)'
  BY <1>2 DEF ReqOK, LoginPCs, SecondPCs
<1>4. QED
  BY <1>1, <1>2, <1>3

(* The answer, as Answer writes it.                                        *)
LEMMA Answered ==
  ASSUME FInv, NEW r \in Requests, NEW res, Answer(r, res), res \in Results,
         (req[r].op = "login" /\ res = "session" /\ req[r].stable) => ~req[r].held
  PROVE  \E p \in Request : /\ req' = [req EXCEPT ![r] = p] /\ p.pc = "done"
                            /\ ReqOK(p) /\ ReqOK(p)'
<1>1. PICK q \in Request : q = req[r] /\ ReqOK(q)
  BY DEF FInv, FactorsTypeOK
<1>2. req' = [req EXCEPT ![r] = [q EXCEPT !.pc = "done", !.res = res]]
  BY <1>1, Zenon DEF Answer, FInv, FactorsTypeOK, Request
<1>3. QED
  BY <1>1, <1>2, AnswerOK, Zenon

(* A request that moves on, as Go writes it.                               *)
LEMMA Gone ==
  ASSUME FInv, NEW r \in Requests, NEW pc \in PCs, Go(r, pc)
  PROVE  \E q, p \in Request :
           /\ q = req[r] /\ ReqOK(q) /\ req' = [req EXCEPT ![r] = p]
           /\ p.pc = pc /\ p.op = q.op /\ p.res = q.res /\ p.token = q.token
           /\ p.held = q.held /\ p.stable = q.stable /\ p.saw = q.saw /\ p.off = q.off
<1>1. PICK q \in Request : q = req[r] /\ ReqOK(q)
  BY DEF FInv, FactorsTypeOK
<1>2. PICK p \in Request : p = [q EXCEPT !.pc = pc]
  BY Zenon DEF Request
<1>3. req' = [req EXCEPT ![r] = p]
  BY <1>1, <1>2 DEF Go, FInv, FactorsTypeOK, Request
<1>4. /\ p.pc = pc /\ p.op = q.op /\ p.res = q.res /\ p.token = q.token
      /\ p.held = q.held /\ p.stable = q.stable /\ p.saw = q.saw /\ p.off = q.off
  BY <1>2 DEF Request
<1>5. QED
  BY <1>1, <1>3, <1>4, Zenon

-----------------------------------------------------------------------------
(* Factors: the steps.                                                     *)

(* A request that only answers.                                            *)
LEMMA AnswerStep ==
  ASSUME FInv, NEW r \in Requests, NEW res, Answer(r, res), res \in Results,
         (req[r].op = "login" /\ res = "session" /\ req[r].stable) => ~req[r].held,
         UNCHANGED <<clock, totp, keys, codes, tokens, pending2FA, given, made, checked>>
  PROVE  FInv'
<1>1. PICK p \in Request : req' = [req EXCEPT ![r] = p] /\ p.pc = "done" /\ ReqOK(p)
  BY Answered
<1>2. QED
  BY <1>1, MoveStep, Zenon

(* A request that goes to a place where nothing is known of it.            *)
LEMMA GoStep ==
  ASSUME FInv, NEW r \in Requests, NEW pc \in PCs \ {"save", "take", "add", "totp?", "keys?", "delete"},
         Go(r, pc), req[r].pc # "done",
         pc \in LoginPCs => req[r].pc \in LoginPCs,
         pc \in SecondPCs => req[r].pc \in SecondPCs,
         UNCHANGED <<clock, totp, keys, codes, tokens, pending2FA, given, made, checked>>
  PROVE  FInv'
<1>1. PICK q, p \in Request :
        /\ q = req[r] /\ ReqOK(q) /\ req' = [req EXCEPT ![r] = p]
        /\ p.pc = pc /\ p.op = q.op /\ p.res = q.res
  BY Gone
<1>2. ReqOK(p)
  BY <1>1 DEF ReqOK
<1>3. QED
  BY <1>1, <1>2, MoveStep, Zenon

(* A request begins.                                                       *)
LEMMA StartStep ==
  ASSUME FInv, NEW r \in Requests, Start(r)
  PROVE  FInv'
<1>1. PICK op \in Ops, n \in given \cup {0}, k \in Keys, recovery \in BOOLEAN :
        /\ req[r].pc = "idle"
        /\ (op = "second") = (n # 0)
        /\ op # "second" => ~recovery
        /\ op \notin {"register", "delete"} => k = CHOOSE x \in Keys : TRUE
        /\ req' = [req EXCEPT ![r] = [Idle EXCEPT !.op = op, !.pc = First(op), !.token = n,
                                                  !.key = k, !.recovery = recovery,
                                                  !.held = HasFactor]]
        /\ UNCHANGED <<clock, totp, keys, codes, tokens, pending2FA, given, made, checked>>
  BY Zenon DEF Start
<1>2. op \in AllOps /\ n \in Nat /\ HasFactor \in BOOLEAN
  BY FactorsAssumption DEF AllOps, FInv, FactorsTypeOK, HasFactor
<1>3. /\ First(op) \in PCs \ {"idle", "done", "keys?", "add", "delete"}
      /\ First(op) \in LoginPCs => op = "login"
      /\ First(op) \in SecondPCs => op = "second"
  BY <1>2 DEF First, PCs, AllOps, LoginPCs, SecondPCs
<1>4. Idle \in Request /\ Idle.res = "none"
  BY DEF Idle, Request, PCs, AllOps, Results
<1> DEFINE pc == First(op)
           held == HasFactor
<1>5. pc \in PCs /\ held \in BOOLEAN
  BY <1>2, <1>3
<1> HIDE DEF pc, held
<1>6. PICK p \in Request :
        p = [Idle EXCEPT !.op = op, !.pc = pc, !.token = n, !.key = k,
                         !.recovery = recovery, !.held = held]
  <2> HIDE DEF Idle
  <2>1. QED
    BY <1>2, <1>4, <1>5, Zenon DEF Request
<1>7. p.op = op /\ p.pc = pc /\ p.token = n /\ p.key = k /\ p.held = held /\ p.res = "none"
  <2> HIDE DEF Idle
  <2>1. QED
    BY <1>4, <1>6 DEF Request
<1>8. ReqOK(p)
  <2>1. pc = "take" => n \in given
    BY <1>1, <1>3 DEF pc, SecondPCs
  <2>2. QED
    BY <1>3, <1>7, <2>1 DEF pc, held, ReqOK
<1>9. QED
  BY <1>1, <1>3, <1>6, <1>7, <1>8, MoveStep, Zenon DEF pc, held

(* HasSecondFactor asks for TOTP.                                          *)
LEMMA CheckTOTPStep ==
  ASSUME FInv, NEW r \in Requests, CheckTOTP(r)
  PROVE  FInv'
<1>1. CASE totp = "active"
  BY <1>1, GoStep DEF CheckTOTP, PCs, LoginPCs, SecondPCs
<1>2. CASE totp # "active"
  <2>1. Go(r, "keys?") /\ "keys?" \in PCs
    BY <1>2 DEF CheckTOTP, PCs, LoginPCs
  <2>2. PICK q, p \in Request :
          /\ q = req[r] /\ ReqOK(q) /\ req' = [req EXCEPT ![r] = p]
          /\ p.pc = "keys?" /\ p.op = q.op /\ p.res = q.res
          /\ p.held = q.held /\ p.stable = q.stable
    BY <2>1, Gone
  <2>3. ReqOK(p)
    BY <1>2, <2>2 DEF ReqOK, CheckTOTP, LoginPCs, SecondPCs
  <2>4. QED
    BY <2>2, <2>3, MoveStep, Zenon DEF CheckTOTP
<1>3. QED
  BY <1>1, <1>2

(* HasSecondFactor asks for passkeys: none, and TOTP was not active        *)
(* before, so an account whose factors held still has none.                *)
LEMMA CheckKeysStep ==
  ASSUME FInv, NEW r \in Requests, CheckKeys(r)
  PROVE  FInv'
<1>1. CASE AnyKey(keys)
  BY <1>1, GoStep DEF CheckKeys, PCs, LoginPCs, SecondPCs
<1>2. CASE ~AnyKey(keys)
  <2>1. keys = {}
    <3>1. IsFiniteSet(keys)
      BY FactorsAssumption, FS_Subset DEF FInv, FactorsTypeOK
    <3>2. Cardinality(keys) \in Nat /\ (Cardinality(keys) = 0 <=> keys = {})
      BY <3>1, FS_CardinalityType, FS_EmptySet
    <3>3. QED
      BY <1>2, <3>2 DEF AnyKey
  <2>2. PICK q \in Request : q = req[r] /\ ReqOK(q)
    BY DEF FInv, FactorsTypeOK
  <2>3. q.stable => ~q.held
    BY <2>1, <2>2 DEF ReqOK, CheckKeys, HasFactor
  <2>4. QED
    BY <1>2, <2>2, <2>3, AnswerStep, Zenon DEF CheckKeys, Results
<1>3. QED
  BY <1>1, <1>2

(* A login stores its two-factor token, which nobody else has.             *)
LEMMA CreateTokenStep ==
  ASSUME FInv, NEW r \in Requests, CreateToken(r)
  PROVE  FInv'
<1>1. PICK n \in Nat : n = made + 1
  BY DEF FInv, FactorsTypeOK
<1>2. PICK q \in Request : q = req[r] /\ ReqOK(q)
  BY DEF FInv, FactorsTypeOK
<1>3. PICK p \in Request : p = [q EXCEPT !.pc = "add", !.token = n]
  BY <1>1, Zenon DEF Request, PCs, LoginPCs
<1>4. req' = [req EXCEPT ![r] = p]
  BY <1>1, <1>2, <1>3, Zenon DEF CreateToken, FInv, FactorsTypeOK, Request
<1>5. /\ p.pc = "add" /\ p.token = n /\ p.op = q.op /\ p.res = q.res /\ p.held = q.held
      /\ p.stable = q.stable
  BY <1>3 DEF Request
<1>6. made' = n /\ made' \in 0 .. MaxTokens /\ made <= made' /\ given' = given /\ n \notin given
  BY <1>1, FactorsAssumption DEF CreateToken, FInv, FactorsTypeOK
<1>7. FactorsTypeOK'
  <2>1. given' \subseteq 1 .. made'
    BY <1>1, <1>6 DEF FInv, FactorsTypeOK
  <2>2. tokens' \subseteq Token
    BY <1>1, FactorsAssumption DEF CreateToken, FInv, FactorsTypeOK, Token
  <2>3. req' \in [Requests -> Request]
    BY <1>4 DEF FInv, FactorsTypeOK
  <2>4. QED
    BY <1>6, <2>1, <2>2, <2>3 DEF CreateToken, FInv, FactorsTypeOK
<1>8. PendingOK' /\ SameFactors
  BY DEF CreateToken, FInv, PendingOK, SameFactors, HasFactor
<1>9. ReqOK(p)'
  <2>1. q.op = "login" /\ q.res = "none"
    BY <1>2 DEF ReqOK, CreateToken, LoginPCs
  <2>2. p.token \in 1 .. made' /\ p.token \notin given'
    BY <1>1, <1>5, <1>6 DEF FInv, FactorsTypeOK
  <2>3. QED
    BY <1>5, <2>1, <2>2 DEF ReqOK, SecondPCs
<1>10. \A s \in Requests \ {r} :
         req[s].pc = "add" => req[s].token \notin given' /\ req[s].token # n
  <2>1. \A s \in Requests \ {r} :
          req[s].pc = "add" => req[s].token \notin given /\ req[s].token \in 1 .. made
    BY DEF FInv, ReqOK
  <2>2. made \in Nat
    BY DEF FInv, FactorsTypeOK
  <2>3. QED
    BY <1>1, <1>6, <2>1, <2>2
<1>11. QED
  BY <1>4, <1>5, <1>6, <1>7, <1>8, <1>9, <1>10, RequestStep, Zenon

(* The browser is given its pending login.                                 *)
LEMMA LoginResultStep ==
  ASSUME FInv, NEW r \in Requests, handleLoginResult(r)
  PROVE  FInv'
<1>1. PICK q \in Request : q = req[r] /\ ReqOK(q)
  BY DEF FInv, FactorsTypeOK
<1>2. PICK p \in Request : /\ req' = [req EXCEPT ![r] = p] /\ p.pc = "done"
                           /\ ReqOK(p) /\ ReqOK(p)'
  <2>1. Answer(r, "second factor") /\ "second factor" \in Results
    BY Zenon DEF handleLoginResult, Results
  <2>2. QED
    BY <2>1, Answered, Zenon
<1>3. q.token \in 1 .. made /\ q.token \notin given
  BY <1>1, Zenon DEF ReqOK, handleLoginResult
<1>4. q.token \in 1 .. MaxTokens /\ checked[q.token] = 0
  <2>1. q.token \in 1 .. MaxTokens
    BY <1>3, FactorsAssumption DEF FInv, FactorsTypeOK
  <2>2. checked[q.token] \in Nat /\ ~(checked[q.token] > 0)
    BY <1>3, <2>1 DEF FInv, FactorsTypeOK, PendingOK
  <2>3. QED
    BY <2>1, <2>2
<1>5. FactorsTypeOK'
  <2>1. pending2FA' \subseteq Token
    <3>1. [id |-> q.token, expires |-> clock + TTL] \in Token
      BY FactorsAssumption DEF FInv, FactorsTypeOK, Token, Request
    <3>2. QED
      BY <1>1, <3>1, Zenon DEF handleLoginResult, FInv, FactorsTypeOK
  <2>2. given' \subseteq 1 .. made'
    BY <1>1, <1>3, Zenon DEF handleLoginResult, FInv, FactorsTypeOK
  <2>3. req' \in [Requests -> Request]
    BY <1>2 DEF FInv, FactorsTypeOK
  <2>4. QED
    BY <2>1, <2>2, <2>3, Zenon DEF handleLoginResult, FInv, FactorsTypeOK
<1>6. PendingOK'
  <2>1. \A e \in pending2FA' : e \in pending2FA \/ e.id = q.token
    <3>1. pending2FA' = {e \in pending2FA : clock <= e.expires}
                         \cup {[id |-> q.token, expires |-> clock + TTL]}
      BY <1>1, Zenon DEF handleLoginResult
    <3>2. QED
      BY <3>1
  <2>2. given' = given \cup {q.token} /\ checked' = checked
    BY <1>1, Zenon DEF handleLoginResult
  <2>3. QED
    BY <1>4, <2>1, <2>2 DEF FInv, PendingOK
<1>7. SameFactors /\ made <= made' /\ given \subseteq given'
  <2>1. made' = made /\ made \in Nat
    <3>1. made \in Nat
      BY DEF FInv, FactorsTypeOK
    <3>2. QED
      BY <3>1, Zenon DEF handleLoginResult
  <2>2. SameFactors /\ given \subseteq given'
    BY Zenon DEF handleLoginResult, SameFactors, HasFactor
  <2>3. QED
    BY <2>1, <2>2
<1>8. \A s \in Requests \ {r} : req[s].pc = "add" => req[s].token \notin given'
  <2>1. given' = given \cup {q.token} /\ q.pc = "add"
    BY <1>1, Zenon DEF handleLoginResult
  <2>2. \A s \in Requests \ {r} : req[s].pc = "add" => req[s].token # q.token
    BY <1>1, <2>1 DEF FInv, OwnTokens
  <2>3. QED
    BY <2>1, <2>2 DEF FInv, ReqOK
<1>9. QED
  BY <1>2, <1>5, <1>6, <1>7, <1>8, RequestStep, Zenon

(* Tokens that were given are numbered within the bound.                   *)
LEMMA GivenInRange ==
  ASSUME FInv
  PROVE  given \subseteq 1 .. MaxTokens
<1>1. MaxTokens \in Nat
  BY FactorsAssumption
<1>2. made \in 0 .. MaxTokens /\ given \subseteq 1 .. made
  BY DEF FInv, FactorsTypeOK
<1>3. QED
  BY <1>1, <1>2

(* A submission takes its pending login: no other will.                    *)
LEMMA TakeStep ==
  ASSUME FInv, NEW r \in Requests, Take(r)
  PROVE  FInv'
<1>1. PICK q \in Request : q = req[r] /\ ReqOK(q) /\ q.pc = "take"
  BY DEF FInv, FactorsTypeOK, Take
<1>2. PICK id \in 1 .. MaxTokens : id = q.token /\ id \in given
  BY <1>1, GivenInRange DEF ReqOK
<1>3. pending2FA' = pending2FA \ Entry(pending2FA, id)
  BY <1>1, <1>2 DEF Take, Taken
<1>4. UNCHANGED <<clock, totp, keys, codes, tokens, given, made>>
  BY DEF Take
<1>5. SameFactors /\ made <= made' /\ given \subseteq given'
  <2>1. made' = made /\ made \in Nat
    <3>1. made \in Nat
      BY DEF FInv, FactorsTypeOK
    <3>2. QED
      BY <1>4, <3>1
  <2>2. QED
    BY <1>4, <2>1 DEF SameFactors, HasFactor
<1>6. \A s \in Requests \ {r} : req[s].pc = "add" => req[s].token \notin given'
  BY <1>4 DEF FInv, ReqOK
<1>7. CASE \E e \in Entry(pending2FA, id) : clock <= e.expires
  <2>1. Go(r, "verify") /\ checked' = [checked EXCEPT ![id] = @ + 1]
    BY <1>1, <1>2, <1>7 DEF Take
  <2>2. PICK p \in Request :
          /\ req' = [req EXCEPT ![r] = p]
          /\ p.pc = "verify" /\ p.op = "second" /\ p.res = "none"
    <3>1. "verify" \in PCs
      BY DEF PCs, SecondPCs
    <3>2. q.op = "second" /\ q.res = "none"
      BY <1>1 DEF ReqOK, SecondPCs
    <3>3. QED
      BY <1>1, <2>1, <3>1, <3>2, Gone
  <2>3. ReqOK(p)'
    BY <2>2 DEF ReqOK, LoginPCs, SecondPCs
  <2>4. checked[id] = 0
    <3>1. PICK e \in pending2FA : e.id = id
      BY <1>7 DEF Entry
    <3>2. QED
      BY <3>1 DEF FInv, PendingOK
  <2>5. checked' \in [1 .. MaxTokens -> Nat] /\ checked'[id] = 1
        /\ \A n \in 1 .. MaxTokens \ {id} : checked'[n] = checked[n]
    BY <1>2, <2>1, <2>4 DEF FInv, FactorsTypeOK
  <2>6. FactorsTypeOK'
    <3>1. req' \in [Requests -> Request]
      BY <2>2 DEF FInv, FactorsTypeOK
    <3>2. QED
      BY <1>3, <1>4, <2>5, <3>1 DEF FInv, FactorsTypeOK
  <2>7. PendingOK'
    <3>1. \A e \in pending2FA' : e \in pending2FA /\ e.id # id
      BY <1>3 DEF Entry
    <3>2. \A e \in pending2FA : e.id \in 1 .. MaxTokens
      BY GivenInRange DEF FInv, PendingOK
    <3>3. QED
      BY <1>2, <1>4, <2>5, <3>1, <3>2 DEF FInv, PendingOK
  <2>8. p.pc # "add"
    BY <2>2
  <2>9. QED
    BY <1>5, <1>6, <2>2, <2>3, <2>6, <2>7, <2>8, RequestStep, Zenon
<1>8. CASE ~ \E e \in Entry(pending2FA, id) : clock <= e.expires
  <2>1. Answer(r, "expired") /\ checked' = checked
    BY <1>1, <1>2, <1>8 DEF Take
  <2>2. PICK p \in Request :
          /\ req' = [req EXCEPT ![r] = p] /\ p.pc = "done" /\ ReqOK(p)'
    BY <2>1, Answered, Zenon DEF Results
  <2>3. FactorsTypeOK'
    <3>1. req' \in [Requests -> Request]
      BY <2>2 DEF FInv, FactorsTypeOK
    <3>2. QED
      BY <1>3, <1>4, <2>1, <3>1 DEF FInv, FactorsTypeOK
  <2>4. PendingOK'
    BY <1>3, <1>4, <2>1 DEF FInv, PendingOK
  <2>5. p.pc # "add"
    BY <2>2
  <2>6. QED
    BY <1>5, <1>6, <2>2, <2>3, <2>4, <2>5, RequestStep, Zenon
<1>9. QED
  BY <1>7, <1>8

(* A step that changes neither the pending logins nor the factors, and     *)
(* whose request answers or goes on to complete.                           *)
LEMMA BesideStep ==
  ASSUME FInv, NEW r \in Requests, NEW p \in Request, req' = [req EXCEPT ![r] = p],
         ReqOK(p), p.pc # "add", codes' \in Nat, tokens' \subseteq Token, SameFactors,
         totp' \in {"none", "pending", "active"},
         UNCHANGED <<clock, keys, pending2FA, given, made, checked>>
  PROVE  FInv'
<1>1. FactorsTypeOK' /\ PendingOK'
  BY DEF FInv, FactorsTypeOK, PendingOK
<1>2. made <= made' /\ made \in Nat /\ made' \in Nat
  <2>1. made \in Nat /\ made' = made
    BY DEF FInv, FactorsTypeOK
  <2>2. QED
    BY <2>1
<1>3. ReqOK(p)'
  BY <1>2, RequestFrame
<1>4. \A s \in Requests \ {r} : req[s].pc = "add" => req[s].token \notin given'
  BY DEF FInv, ReqOK
<1>5. QED
  BY <1>1, <1>2, <1>3, <1>4, RequestStep, Zenon

(* A code is verified.                                                     *)
LEMMA VerifyFactorStep ==
  ASSUME FInv, NEW r \in Requests, VerifyFactor(r)
  PROVE  FInv'
<1>1. CASE Answer(r, "wrong code") /\ UNCHANGED codes
  BY <1>1, AnswerStep, Zenon DEF VerifyFactor, Results
<1>2. CASE Go(r, "complete") /\ codes' \in Nat
  <2>1. PICK q, p \in Request :
          /\ q = req[r] /\ ReqOK(q) /\ req' = [req EXCEPT ![r] = p]
          /\ p.pc = "complete" /\ p.op = q.op /\ p.res = q.res
    <3>1. "complete" \in PCs
      BY DEF PCs, SecondPCs
    <3>2. QED
      BY <1>2, <3>1, Gone
  <2>2. ReqOK(p)
    BY <2>1, Zenon DEF ReqOK, VerifyFactor, LoginPCs, SecondPCs
  <2>3. SameFactors /\ totp' \in {"none", "pending", "active"} /\ tokens' \subseteq Token
    BY Zenon DEF VerifyFactor, SameFactors, HasFactor, FInv, FactorsTypeOK
  <2>4. QED
    BY <1>2, <2>1, <2>2, <2>3, BesideStep, Zenon DEF VerifyFactor
<1>3. codes > 0 => codes - 1 \in Nat
  BY DEF FInv, FactorsTypeOK
<1>4. codes \in Nat
  BY DEF FInv, FactorsTypeOK
<1>5. QED
  BY <1>1, <1>2, <1>3, <1>4, Zenon DEF VerifyFactor

(* A token is consumed.                                                    *)
LEMMA CompleteTwoFactorStep ==
  ASSUME FInv, NEW r \in Requests, CompleteTwoFactor(r)
  PROVE  FInv'
<1>1. PICK res \in {"session", "token invalid"} : Answer(r, res)
  BY Zenon DEF CompleteTwoFactor
<1>2. req[r].op # "login"
  BY Zenon DEF CompleteTwoFactor, FInv, ReqOK, SecondPCs
<1>3. PICK p \in Request : req' = [req EXCEPT ![r] = p] /\ p.pc = "done" /\ ReqOK(p)
  BY <1>1, <1>2, Answered, Zenon DEF Results
<1>4. SameFactors /\ tokens' \subseteq Token
  BY Zenon DEF CompleteTwoFactor, SameFactors, HasFactor, FInv, FactorsTypeOK
<1>5. codes' \in Nat /\ totp' \in {"none", "pending", "active"}
  BY Zenon DEF CompleteTwoFactor, FInv, FactorsTypeOK
<1>6. QED
  BY <1>3, <1>4, <1>5, BesideStep, Zenon DEF CompleteTwoFactor

(* A second factor is set up, and TOTP is not yet active.                  *)
LEMMA EnrollStep ==
  ASSUME FInv, NEW r \in Requests, handleTOTPEnroll(r)
  PROVE  FInv'
<1>1. CASE totp = "active"
  BY <1>1, AnswerStep, Zenon DEF handleTOTPEnroll, Results
<1>2. CASE totp # "active"
  <2>1. Answer(r, "ok") /\ totp' = "pending"
    BY <1>2 DEF handleTOTPEnroll
  <2>2. PICK p \in Request : req' = [req EXCEPT ![r] = p] /\ p.pc = "done" /\ ReqOK(p)
    BY <2>1, Answered, Zenon DEF Results
  <2>3. SameFactors
    BY <1>2, <2>1 DEF SameFactors, HasFactor, handleTOTPEnroll
  <2>4. codes' \in Nat /\ tokens' \subseteq Token
    BY DEF handleTOTPEnroll, FInv, FactorsTypeOK
  <2>5. QED
    BY <2>1, <2>2, <2>3, <2>4, BesideStep, Zenon DEF handleTOTPEnroll
<1>3. QED
  BY <1>1, <1>2

(* What other requests know after the factors have changed.                *)
LEMMA WatchedOK ==
  ASSUME NEW q \in Request, ReqOK(q), q.pc \notin {"idle", "done"},
         UNCHANGED <<given, made>>
  PROVE  \E w \in Request :
           /\ w = [q EXCEPT
                    !.held   = @ /\ (totp' = "active" \/ keys' # {}),
                    !.stable = @ /\ (totp' = "active") = (totp = "active") /\ keys' = keys,
                    !.off    = @ \/ (totp = "active" /\ ~(totp' = "active"))]
           /\ ReqOK(w)' /\ w.pc = q.pc /\ w.token = q.token
<1> DEFINE held == q.held /\ (totp' = "active" \/ keys' # {})
           stable == q.stable /\ (totp' = "active") = (totp = "active") /\ keys' = keys
           off == q.off \/ (totp = "active" /\ ~(totp' = "active"))
<1>1. held \in BOOLEAN /\ stable \in BOOLEAN /\ off \in BOOLEAN
  OBVIOUS
<1>2. /\ held => q.held /\ HasFactor'
      /\ stable => q.stable /\ (totp' = "active") = (totp = "active")
      /\ (q.off \/ totp = "active") => (off \/ totp' = "active")
  BY Zenon DEF HasFactor
<1> HIDE DEF held, stable, off
<1>3. PICK w \in Request : w = [q EXCEPT !.held = held, !.stable = stable, !.off = off]
  BY <1>1, Zenon DEF Request
<1>4. /\ w.held = held /\ w.stable = stable /\ w.off = off /\ w.pc = q.pc /\ w.op = q.op
      /\ w.saw = q.saw /\ w.token = q.token /\ w.key = q.key /\ w.res = q.res
  BY <1>3 DEF Request
<1>5. ReqOK(w)'
  <2>1. (w.pc = "keys?" /\ w.stable) => totp' # "active"
    BY <1>2, <1>4 DEF ReqOK
  <2>2. (w.pc = "delete" /\ w.saw) => w.off \/ totp' = "active"
    BY <1>2, <1>4 DEF ReqOK
  <2>3. w.res = "none"
    BY <1>4 DEF ReqOK
  <2>4. QED
    BY <1>2, <1>4, <2>1, <2>2, <2>3 DEF ReqOK
<1>6. w = [q EXCEPT
            !.held   = @ /\ (totp' = "active" \/ keys' # {}),
            !.stable = @ /\ (totp' = "active") = (totp = "active") /\ keys' = keys,
            !.off    = @ \/ (totp = "active" /\ ~(totp' = "active"))]
  BY <1>3, Zenon DEF held, stable, off
<1>7. QED
  BY <1>4, <1>5, <1>6, Zenon

(* A step of request r that changes the factors and leaves r as p.         *)
LEMMA FactorStep ==
  ASSUME FInv, NEW r \in Requests, NEW p \in Request,
         req' = [Watch(totp' = "active", keys') EXCEPT ![r] = p],
         ReqOK(p)', p.pc # "add", totp' \in {"none", "pending", "active"}, keys' \subseteq Keys,
         UNCHANGED <<clock, codes, tokens, pending2FA, given, made, checked>>
  PROVE  FInv'
<1>1. ASSUME NEW t \in Requests
      PROVE  /\ req'[t] \in Request /\ ReqOK(req[t])'
             /\ t # r => req'[t].pc = req[t].pc /\ req'[t].token = req[t].token
             /\ t = r => req'[t] = p
  <2>1. CASE t = r
    <3>1. req'[t] = p
      BY <2>1, Zenon DEF Watch
    <3>2. QED
      BY <2>1, <3>1
  <2>2. CASE t # r
    <3>1. PICK q \in Request : q = req[t] /\ ReqOK(q)
      BY DEF FInv, FactorsTypeOK
    <3>2. CASE q.pc \in {"idle", "done"}
      <4>1. req'[t] = q
        BY <2>2, <3>1, <3>2, Zenon DEF Watch
      <4>2. ReqOK(q)'
        BY <3>1, <3>2 DEF ReqOK, LoginPCs, SecondPCs
      <4>3. QED
        BY <2>2, <3>1, <4>1, <4>2
    <3>3. CASE q.pc \notin {"idle", "done"}
      <4>1. PICK w \in Request :
              /\ w = [q EXCEPT
                       !.held   = @ /\ (totp' = "active" \/ keys' # {}),
                       !.stable = @ /\ (totp' = "active") = (totp = "active") /\ keys' = keys,
                       !.off    = @ \/ (totp = "active" /\ ~(totp' = "active"))]
              /\ ReqOK(w)' /\ w.pc = q.pc /\ w.token = q.token
        BY <3>1, <3>3, WatchedOK, Zenon
      <4>2. req'[t] = w
        BY <2>2, <3>1, <3>3, <4>1, Zenon DEF Watch
      <4>3. QED
        BY <2>2, <3>1, <4>1, <4>2, Zenon
    <3>4. QED
      BY <3>2, <3>3
  <2>3. QED
    BY <2>1, <2>2
<1>2. FactorsTypeOK'
  <2>1. req' \in [Requests -> Request]
    <3>1. DOMAIN req' = Requests /\ req' = [t \in DOMAIN req' |-> req'[t]]
      BY Zenon DEF Watch
    <3>2. QED
      BY <1>1, <3>1, Zenon
  <2>2. QED
    BY <2>1 DEF FInv, FactorsTypeOK
<1>3. PendingOK'
  BY DEF FInv, PendingOK
<1>4. OwnTokens'
  BY <1>1, SMT, SMTT(30) DEF FInv, OwnTokens
<1>5. QED
  BY <1>1, <1>2, <1>3, <1>4 DEF FInv

(* TOTP is activated.                                                      *)
LEMMA ConfirmStep ==
  ASSUME FInv, NEW r \in Requests, handleTOTPConfirm(r)
  PROVE  FInv'
<1>1. CASE Answer(r, "wrong code") /\ UNCHANGED totp
  BY <1>1, AnswerStep, Zenon DEF handleTOTPConfirm, Results
<1>2. CASE /\ totp' = "active"
           /\ req' = [Watch(TRUE, keys) EXCEPT ![r] = [req[r] EXCEPT !.pc = "done", !.res = "ok"]]
  <2>1. PICK q \in Request : q = req[r] /\ ReqOK(q)
    BY DEF FInv, FactorsTypeOK
  <2>2. PICK p \in Request :
          p = [q EXCEPT !.pc = "done", !.res = "ok"] /\ p.pc = "done" /\ ReqOK(p)'
    BY <2>1, AnswerOK, Zenon DEF Results
  <2>3. keys' = keys /\ keys' \subseteq Keys /\ (totp' = "active") = TRUE
    BY <1>2, Zenon DEF handleTOTPConfirm, FInv, FactorsTypeOK
  <2>4. req' = [Watch(totp' = "active", keys') EXCEPT ![r] = p]
    BY <1>2, <2>1, <2>2, <2>3, Zenon
  <2>5. QED
    BY <1>2, <2>2, <2>3, <2>4, FactorStep, Zenon DEF handleTOTPConfirm
<1>3. QED
  BY <1>1, <1>2, Zenon DEF handleTOTPConfirm

(* TOTP is disabled.                                                       *)
LEMMA UnenrollStep ==
  ASSUME FInv, NEW r \in Requests, Unenroll(r)
  PROVE  FInv'
<1>1. PICK q \in Request : q = req[r] /\ ReqOK(q) /\ q.pc = "unenroll"
  BY DEF FInv, FactorsTypeOK, Unenroll
<1>2. PICK p \in Request : p = [q EXCEPT !.pc = "left?"]
  BY Zenon DEF Request, PCs
<1>3. p.pc = "left?" /\ p.res = "none"
  BY <1>1, <1>2 DEF Request, ReqOK
<1>4. ReqOK(p)'
  BY <1>3 DEF ReqOK, LoginPCs, SecondPCs
<1>5. keys' = keys /\ keys' \subseteq Keys /\ totp' = "none" /\ (totp' = "active") = FALSE
  BY DEF Unenroll, FInv, FactorsTypeOK
<1>6. req' = [Watch(totp' = "active", keys') EXCEPT ![r] = p]
  BY <1>1, <1>2, <1>5, Zenon DEF Unenroll
<1>7. QED
  BY <1>3, <1>4, <1>5, <1>6, FactorStep, Zenon DEF Unenroll

(* The last steps of disabling TOTP, and a new set of codes.               *)
LEMMA CodesStep ==
  ASSUME FInv, NEW r \in Requests,
         CheckLeft(r) \/ PurgeCodes(r) \/ handleRecoveryGenerate(r)
  PROVE  FInv'
<1>1. CASE CheckLeft(r)
  <2>1. CASE keys = {}
    BY <1>1, <2>1, GoStep DEF CheckLeft, PCs, LoginPCs, SecondPCs
  <2>2. CASE keys # {}
    BY <1>1, <2>2, AnswerStep, Zenon DEF CheckLeft, Results
  <2>3. QED
    BY <2>1, <2>2
<1>2. CASE PurgeCodes(r) \/ handleRecoveryGenerate(r)
  <2>1. Answer(r, "ok") /\ UNCHANGED <<clock, totp, keys, tokens, pending2FA, given, made, checked>>
    BY <1>2 DEF PurgeCodes, handleRecoveryGenerate
  <2>2. codes' \in Nat
    BY <1>2, FactorsAssumption, SMT, SMTT(30) DEF PurgeCodes, handleRecoveryGenerate
  <2>3. PICK p \in Request : req' = [req EXCEPT ![r] = p] /\ p.pc = "done" /\ ReqOK(p)
    BY <2>1, Answered, Zenon DEF Results
  <2>4. SameFactors /\ tokens' \subseteq Token /\ totp' \in {"none", "pending", "active"}
    BY <2>1 DEF SameFactors, HasFactor, FInv, FactorsTypeOK
  <2>5. QED
    BY <2>1, <2>2, <2>3, <2>4, BesideStep, Zenon
<1>3. QED
  BY <1>1, <1>2

(* A passkey is registered.                                                *)
LEMMA RegisterStep ==
  ASSUME FInv, NEW r \in Requests, handlePasskeyRegisterFinish(r)
  PROVE  FInv'
<1>1. PICK q \in Request : q = req[r] /\ ReqOK(q)
  BY DEF FInv, FactorsTypeOK
<1>2. PICK p \in Request :
        p = [q EXCEPT !.pc = "done", !.res = "ok"] /\ p.pc = "done" /\ ReqOK(p)'
  <2>1. q.res = "none" /\ "ok" \in Results
    BY <1>1 DEF ReqOK, handlePasskeyRegisterFinish, Results
  <2>2. QED
    BY <1>1, <2>1, AnswerOK, Zenon
<1>3. keys' \subseteq Keys /\ totp' = totp /\ totp' \in {"none", "pending", "active"}
  BY <1>1 DEF handlePasskeyRegisterFinish, FInv, FactorsTypeOK, ReqOK
<1>4. req' = [Watch(totp' = "active", keys') EXCEPT ![r] = p]
  BY <1>1, <1>2, <1>3 DEF handlePasskeyRegisterFinish
<1>5. QED
  BY <1>2, <1>3, <1>4, FactorStep, Zenon DEF handlePasskeyRegisterFinish

(* handlePasskeyDelete looks at TOTP.                                      *)
LEMMA CheckActiveStep ==
  ASSUME FInv, NEW r \in Requests, CheckActive(r)
  PROVE  FInv'
<1>1. PICK q \in Request : q = req[r] /\ ReqOK(q) /\ q.pc = "active?"
  BY DEF FInv, FactorsTypeOK, CheckActive
<1>2. PICK saw \in BOOLEAN : saw = (totp = "active")
  BY Zenon
<1>3. PICK p \in Request : p = [q EXCEPT !.pc = "delete", !.saw = saw]
  BY Zenon DEF Request, PCs
<1>4. req' = [req EXCEPT ![r] = p]
  BY <1>1, <1>2, <1>3, Zenon DEF CheckActive, AllowLast, FInv, FactorsTypeOK, Request
<1>5. p.pc = "delete" /\ p.saw = saw /\ p.res = "none"
  BY <1>1, <1>3 DEF Request, ReqOK
<1>6. ReqOK(p)
  BY <1>2, <1>5, Zenon DEF ReqOK, LoginPCs, SecondPCs
<1>7. QED
  BY <1>4, <1>5, <1>6, MoveStep, Zenon DEF CheckActive

(* A passkey is deleted, or not.                                           *)
LEMMA DeleteStep ==
  ASSUME FInv, NEW r \in Requests, DeleteCredential(r)
  PROVE  FInv'
<1>1. CASE req[r].key \notin keys \/ (~req[r].saw /\ Cardinality(keys) <= 1)
  <2>1. Answer(r, "refused") /\ keys' = keys
    BY <1>1 DEF DeleteCredential
  <2>2. QED
    BY <2>1, AnswerStep, Zenon DEF DeleteCredential, Results
<1>2. CASE ~(req[r].key \notin keys \/ (~req[r].saw /\ Cardinality(keys) <= 1))
  <2>1. PICK q \in Request : q = req[r] /\ ReqOK(q)
    BY DEF FInv, FactorsTypeOK
  <2>2. PICK p \in Request :
          p = [q EXCEPT !.pc = "done", !.res = "ok"] /\ p.pc = "done" /\ ReqOK(p)'
    BY <2>1, AnswerOK, Zenon DEF Results
  <2>3. /\ keys' = keys \ {q.key} /\ totp' = totp
        /\ req' = [Watch(totp = "active", keys') EXCEPT ![r] = [q EXCEPT !.pc = "done", !.res = "ok"]]
    BY <1>2, <2>1 DEF DeleteCredential
  <2>4. keys' \subseteq Keys /\ totp' \in {"none", "pending", "active"}
    BY <2>3 DEF FInv, FactorsTypeOK
  <2>5. req' = [Watch(totp' = "active", keys') EXCEPT ![r] = p]
    BY <2>2, <2>3
  <2>6. QED
    BY <2>2, <2>4, <2>5, FactorStep, Zenon DEF DeleteCredential
<1>3. QED
  BY <1>1, <1>2

(* The process restarts.                                                   *)
LEMMA RestartStep ==
  ASSUME FInv, Restart
  PROVE  FInv'
<1>1. ASSUME NEW t \in Requests
      PROVE  req'[t] \in Request /\ ReqOK(req[t])' /\ req'[t].pc # "add"
  <2>1. PICK q \in Request : q = req[t] /\ ReqOK(q)
    BY DEF FInv, FactorsTypeOK
  <2>2. CASE q.pc \in {"idle", "done"}
    <3>1. req'[t] = q
      BY <2>1, <2>2, Zenon DEF Restart
    <3>2. ReqOK(q)'
      BY <2>1, <2>2 DEF ReqOK, LoginPCs, SecondPCs
    <3>3. QED
      BY <2>2, <3>1, <3>2
  <2>3. CASE q.pc \notin {"idle", "done"}
    <3>1. PICK i \in Request : i = Idle
      BY Zenon DEF Idle, Request, PCs, AllOps, Results
    <3>2. PICK p \in Request : p = [i EXCEPT !.op = q.op, !.pc = "done", !.res = "lost"]
      <4>1. PICK op \in AllOps \cup {"none"} : op = q.op
        BY DEF Request
      <4>2. "done" \in PCs /\ "lost" \in Results
        BY DEF PCs, Results
      <4>3. [i EXCEPT !.op = op, !.pc = "done", !.res = "lost"] \in Request
        BY <4>2, Zenon DEF Request
      <4>4. QED
        BY <4>1, <4>3, Zenon
    <3>3. p.pc = "done" /\ p.res = "lost"
      BY <3>2 DEF Request
    <3>4. ReqOK(p)'
      BY <3>3 DEF ReqOK, LoginPCs, SecondPCs
    <3>5. req'[t] = p
      BY <2>1, <2>3, <3>1, <3>2, Zenon DEF Restart
    <3>6. QED
      BY <3>3, <3>4, <3>5
  <2>4. QED
    BY <2>2, <2>3
<1>2. FactorsTypeOK'
  <2>1. req' \in [Requests -> Request]
    <3>1. DOMAIN req' = Requests /\ req' = [t \in DOMAIN req' |-> req'[t]]
      BY Zenon DEF Restart
    <3>2. QED
      BY <1>1, <3>1
  <2>2. QED
    BY <2>1, Zenon DEF Restart, FInv, FactorsTypeOK
<1>3. PendingOK'
  BY Zenon DEF Restart, FInv, PendingOK
<1>4. OwnTokens'
  BY <1>1 DEF OwnTokens
<1>5. QED
  BY <1>1, <1>2, <1>3, <1>4 DEF FInv

(* A step that changes nothing but the clock.                              *)
LEMMA TickStep ==
  ASSUME FInv, clock' \in Nat,
         UNCHANGED <<totp, keys, codes, tokens, pending2FA, given, made, checked, req>>
  PROVE  FInv'
<1>1. FactorsTypeOK' /\ PendingOK' /\ OwnTokens'
  BY DEF FInv, FactorsTypeOK, PendingOK, OwnTokens
<1>2. ASSUME NEW r \in Requests
      PROVE  ReqOK(req[r])'
  BY <1>2 DEF FInv, ReqOK, HasFactor
<1>3. QED
  BY <1>1, <1>2 DEF FInv

-----------------------------------------------------------------------------
(* Factors: the theorems.                                                  *)

(* Accounts begin without pending logins.                                  *)
LEMMA FactorsInit ==
  ASSUME Init
  PROVE  FInv
<1>1. Idle \in Request /\ Idle.pc = "idle" /\ Idle.res = "none"
  BY DEF Idle, Request, PCs, AllOps, Results
<1>2. ReqOK(Idle)
  BY <1>1 DEF ReqOK, LoginPCs, SecondPCs
<1>3. /\ totp \in {"none", "pending", "active"} /\ keys \subseteq Keys /\ codes \in Nat
  <2>1. PICK e \in Enrolled : totp = e.totp /\ keys = e.keys /\ codes = e.codes
    BY DEF Init
  <2>2. e \in [totp : {"none", "active"}, keys : SUBSET Keys, codes : 0 .. CodeCount]
    BY FactorsAssumption
  <2>3. QED
    BY <2>1, <2>2
<1>4. FactorsTypeOK
  <2>1. clock \in Nat /\ made \in 0 .. MaxTokens /\ given \subseteq 1 .. made
    BY FactorsAssumption DEF Init
  <2>2. checked \in [1 .. MaxTokens -> Nat] /\ req \in [Requests -> Request]
    BY <1>1 DEF Init
  <2>3. QED
    BY <1>3, <2>1, <2>2 DEF Init, FactorsTypeOK
<1>5. PendingOK
  BY DEF Init, PendingOK
<1>6. \A r \in Requests : req[r] = Idle
  BY DEF Init
<1>7. OwnTokens /\ \A r \in Requests : ReqOK(req[r])
  BY <1>1, <1>2, <1>6 DEF OwnTokens
<1>8. QED
  BY <1>4, <1>5, <1>7 DEF FInv

(* Every step of the security pages keeps it.                              *)
LEMMA FactorsNext ==
  ASSUME FInv, [Next]_vars
  PROVE  FInv'
<1>1. CASE Next
  <2>1. ASSUME NEW r \in Requests, Step(r)
        PROVE  FInv'
    <3>1. CASE StoreFailed(r)
      <4>1. PICK res \in {"ok", "error"} : Answer(r, res)
        BY <3>1 DEF StoreFailed
      <4>2. QED
        BY <3>1, <4>1, AnswerStep, Zenon DEF StoreFailed, Results
    <3>2. QED
      BY <2>1, <3>1, StartStep, CheckTOTPStep, CheckKeysStep, CreateTokenStep, LoginResultStep,
         TakeStep, VerifyFactorStep, CompleteTwoFactorStep, EnrollStep, ConfirmStep,
         UnenrollStep, CodesStep, RegisterStep, CheckActiveStep, DeleteStep DEF Step
  <2>2. CASE Tick
    <3>1. clock' \in Nat
      BY <2>2 DEF Tick, FInv, FactorsTypeOK
    <3>2. QED
      BY <2>2, <3>1, TickStep DEF Tick
  <2>3. QED
    BY <1>1, <2>1, <2>2, RestartStep DEF Next
<1>2. CASE UNCHANGED vars
  <2>1. clock' \in Nat
    BY <1>2 DEF vars, FInv, FactorsTypeOK
  <2>2. QED
    BY <1>2, <2>1, TickStep DEF vars
<1>3. QED
  BY <1>1, <1>2

(* A step of the application, seen from the security pages.                *)
LEMMA SecurityStep ==
  ASSUME [Security \/ ChangeOfAddress]_webVars
  PROVE  [Next]_vars
BY DEF Security, ChangeOfAddress, webVars, vars

(* The inductive invariant holds in the application.                       *)
LEMMA FactorsInvariant == WebSpec => []FInv
<1>1. WebInit => FInv
  BY FactorsInit DEF WebInit
<1>2. FInv /\ [Security \/ ChangeOfAddress]_webVars => FInv'
  BY SecurityStep, FactorsNext
<1>3. QED
  BY <1>1, <1>2, PTL DEF WebSpec

(* One pending login is resolved by one submission (pendingLogins.take),   *)
(* for any number of logins and submissions, and whatever restarts or      *)
(* expires meanwhile.                                                      *)
THEOREM PendingLoginsAreSpent == WebSpec => []PendingResolvedOnce
<1>1. FInv => PendingResolvedOnce
  BY DEF FInv, PendingOK, PendingResolvedOnce, FactorsTypeOK
<1>2. QED
  BY <1>1, FactorsInvariant, PTL

(* A password alone opens a session only for an account without a second   *)
(* factor (completeFirstFactor with HasSecondFactor's two reads), unless   *)
(* its factors were changing while it was asked for.                       *)
THEOREM SecondFactorIsDemanded == WebSpec => []SecondFactorDemanded
<1>1. FInv => SecondFactorDemanded
  BY DEF FInv, ReqOK, SecondFactorDemanded
<1>2. QED
  BY <1>1, FactorsInvariant, PTL

(* Passkey deletions take an account's only second factor away only if its *)
(* TOTP was disabled under the request's feet (handlePasskeyDelete).       *)
THEOREM LastPasskeysAreKept == WebSpec => LastPasskeyKept
<1> DEFINE Taker == \E r \in Requests : req[r].pc = "delete" /\ req'[r].pc = "done" /\ req[r].off
<1>1. ASSUME FInv, Next, HasFactor, ~HasFactor', totp # "active"
      PROVE  Taker
  <2>1. keys # {} /\ keys' = {}
    BY <1>1 DEF HasFactor
  <2>2. PICK r \in Requests : DeleteCredential(r)
    <3>1. \A r \in Requests : Step(r) => DeleteCredential(r)
      BY <2>1, ZenonT(30) DEF Step, Start, CheckTOTP, CheckKeys, CreateToken, handleLoginResult, Take,
        VerifyFactor, CompleteTwoFactor, handleTOTPEnroll, handleTOTPConfirm, Unenroll,
        CheckLeft, PurgeCodes, handleRecoveryGenerate, handlePasskeyRegisterFinish,
        CheckActive, StoreFailed
    <3>2. QED
      BY <1>1, <2>1, <3>1, Zenon DEF Next, Restart, Tick
  <2>3. PICK q \in Request : q = req[r] /\ ReqOK(q) /\ q.pc = "delete"
    BY <1>1, <2>2 DEF FInv, FactorsTypeOK, DeleteCredential
  <2>4. /\ keys' = keys \ {q.key} /\ ~(~q.saw /\ Cardinality(keys) <= 1)
        /\ req' = [Watch(totp = "active", keys') EXCEPT ![r] = [q EXCEPT !.pc = "done", !.res = "ok"]]
    BY <2>1, <2>2, <2>3 DEF DeleteCredential
  <2>5. q.saw
    <3>1. keys = {q.key}
      BY <2>1, <2>4
    <3>2. Cardinality(keys) = 1
      BY <3>1, FS_Singleton
    <3>3. QED
      BY <2>4, <3>2
  <2>6. q.off
    BY <1>1, <2>3, <2>5 DEF ReqOK
  <2>7. req'[r].pc = "done"
    <3>1. req'[r] = [q EXCEPT !.pc = "done", !.res = "ok"]
      BY <2>4, Zenon DEF Watch
    <3>2. QED
      BY <3>1 DEF Request
  <2>8. QED
    BY <2>3, <2>6, <2>7
<1> HIDE DEF Taker
<1>2. FInv /\ [Next]_vars => [(HasFactor /\ ~HasFactor' /\ totp # "active") => Taker]_vars
  BY <1>1
<1>3. FInv /\ [Security \/ ChangeOfAddress]_webVars
        => [(HasFactor /\ ~HasFactor' /\ totp # "active") => Taker]_vars
  BY <1>2, SecurityStep
<1>4. QED
  BY <1>3, FactorsInvariant, PTL DEF WebSpec, LastPasskeyKept, Taker

-----------------------------------------------------------------------------
(* EmailNotice: frames.                                                    *)

(* A step of request r from o to p.                                        *)
LEMMA ChangeStep ==
  ASSUME NInv, NEW r \in Requests, NEW o \in Change, o = changeReq[r], NEW p \in Change,
         changeReq' = [changeReq EXCEPT ![r] = p], NoticeTypeOK', NShared', ChangeOK(p)',
         \A q \in Change : ChangeOK(q) /\ Apart(q, o) => ChangeOK(q)' /\ Apart(q, p)',
         \A q, s \in Change : ChangeOK(q) /\ ChangeOK(s) /\ Apart(q, s) => Apart(q, s)'
  PROVE  NInv'
<1>1. changeReq'[r] = p /\ \A t \in Requests \ {r} : changeReq'[t] = changeReq[t]
  BY DEF NInv, NoticeTypeOK
<1>2. ASSUME NEW t \in Requests
      PROVE  ChangeOK(changeReq[t])'
  <2>1. CASE t = r
    BY <1>1, <2>1
  <2>2. CASE t # r
    <3>1. PICK q \in Change : q = changeReq[t] /\ q = changeReq'[t] /\ ChangeOK(q) /\ Apart(q, o)
      BY <1>1, <2>2 DEF NInv, NoticeTypeOK
    <3>2. ChangeOK(q)'
      BY <3>1
    <3>3. QED
      BY <3>1, <3>2
  <2>3. QED
    BY <2>1, <2>2
<1>3. ASSUME NEW t \in Requests, NEW u \in Requests, t # u
      PROVE  Apart(changeReq[t], changeReq[u])'
  <2>1. ASSUME NEW x \in Requests \ {r}
        PROVE  Apart(changeReq[x], changeReq[r])' /\ Apart(changeReq[r], changeReq[x])'
    <3>1. PICK q \in Change : q = changeReq[x] /\ q = changeReq'[x] /\ ChangeOK(q) /\ Apart(q, o)
      BY <1>1, <2>1 DEF NInv, NoticeTypeOK
    <3>2. Apart(q, p)'
      BY <3>1
    <3>3. Apart(p, q)'
      BY <3>2 DEF Apart
    <3>4. QED
      BY <1>1, <3>1, <3>2, <3>3
  <2>2. ASSUME t # r, u # r
        PROVE  Apart(changeReq[t], changeReq[u])'
    <3>1. PICK q, s \in Change : /\ q = changeReq[t] /\ q = changeReq'[t] /\ ChangeOK(q)
                                 /\ s = changeReq[u] /\ s = changeReq'[u] /\ ChangeOK(s)
                                 /\ Apart(q, s)
      BY <1>1, <1>3, <2>2 DEF NInv, NoticeTypeOK
    <3>2. Apart(q, s)'
      BY <3>1
    <3>3. QED
      BY <3>1, <3>2
  <2>3. QED
    BY <1>3, <2>1, <2>2
<1>4. QED
  BY <1>2, <1>3 DEF NInv

(* A request that goes where it shares no token with another.              *)
LEMMA ChangeMove ==
  ASSUME NInv, NEW r \in Requests, NEW p \in Change,
         changeReq' = [changeReq EXCEPT ![r] = p], ChangeOK(p)',
         p.pc \notin {"add", "take", "consume", "swap"},
         PendingEmail' \in Address, mailed' = mailed, notices \subseteq notices',
         UNCHANGED <<email, emailChanges, minted, links, landed, current>>
  PROVE  NInv'
<1>1. PICK o \in Change : o = changeReq[r]
  BY DEF NInv, NoticeTypeOK
<1>2. NoticeTypeOK' /\ NShared'
  BY DEF NInv, NoticeTypeOK, NShared, CurrentOK, Mailed
<1>3. ASSUME NEW q \in Change, ChangeOK(q)
      PROVE  ChangeOK(q)' /\ Apart(q, p)'
  <2>1. ChangeOK(q)'
    BY <1>3 DEF ChangeOK, Mailed
  <2>2. Apart(q, p)'
    BY DEF Apart, ConfirmPCs
  <2>3. QED
    BY <2>1, <2>2, SMTT(30)
<1>4. \A q, s \in Change : Apart(q, s) => Apart(q, s)'
  BY DEF Apart
<1>5. QED
  BY <1>1, <1>2, <1>3, <1>4, ChangeStep, Zenon

(* A request that answers with anything but a confirmation.                *)
LEMMA ChangeAnswer ==
  ASSUME NInv, NEW r \in Requests, NEW res \in {"in use", "sent", "invalid", "error"},
         Notice!Answer(r, res)
  PROVE  \E p \in Change : /\ changeReq' = [changeReq EXCEPT ![r] = p]
                           /\ p.pc = "done" /\ ChangeOK(p) /\ ChangeOK(p)'
<1>1. PICK q \in Change : q = changeReq[r] /\ ChangeOK(q)
  BY Zenon DEF NInv, NoticeTypeOK
<1>2. PICK p \in Change : p = [q EXCEPT !.pc = "done", !.res = res]
  BY Zenon DEF Change
<1>3. changeReq' = [changeReq EXCEPT ![r] = p]
  BY <1>1, <1>2, Zenon DEF Notice!Answer, NInv, NoticeTypeOK, Change
<1>4. /\ p.pc = "done" /\ p.res = res /\ p.due = q.due /\ p.lost = q.lost
      /\ p.oldAddr = q.oldAddr
  BY <1>2, Zenon DEF Change
<1>5. ChangeOK(p) /\ ChangeOK(p)'
  BY <1>1, <1>4, Zenon DEF ChangeOK, ChangePCs, ConfirmPCs
<1>6. QED
  BY <1>3, <1>4, <1>5, Zenon

(* The same, when that is all that happens.                                *)
LEMMA ChangeAnswerStep ==
  ASSUME NInv, NEW r \in Requests, NEW res \in {"in use", "sent", "invalid", "error"},
         Notice!Answer(r, res),
         UNCHANGED <<email, PendingEmail, mailed, emailChanges, minted, links, notices,
                     landed, current>>
  PROVE  NInv'
<1>1. PICK p \in Change :
        changeReq' = [changeReq EXCEPT ![r] = p] /\ p.pc = "done" /\ ChangeOK(p)'
  BY ChangeAnswer, Zenon
<1>2. PendingEmail' \in Address
  BY Zenon DEF NInv, NoticeTypeOK
<1>3. QED
  BY <1>1, <1>2, ChangeMove, Zenon

(* A request that moves on, as Go writes it.                               *)
LEMMA ChangeGone ==
  ASSUME NInv, NEW r \in Requests, NEW pc \in {"stage", "token", "notice"}, Notice!Go(r, pc)
  PROVE  \E q, p \in Change :
           /\ q = changeReq[r] /\ ChangeOK(q) /\ changeReq' = [changeReq EXCEPT ![r] = p]
           /\ p.pc = pc /\ p.new = q.new /\ p.ctx = q.ctx /\ p.seen = q.seen /\ p.due = q.due
           /\ p.lost = q.lost /\ p.oldAddr = q.oldAddr /\ p.res = q.res /\ p.token = q.token
<1>1. PICK q \in Change : q = changeReq[r] /\ ChangeOK(q)
  BY DEF NInv, NoticeTypeOK
<1>2. PICK p \in Change : p = [q EXCEPT !.pc = pc]
  BY Zenon DEF Change, ChangePCs, ConfirmPCs
<1>3. changeReq' = [changeReq EXCEPT ![r] = p]
  BY <1>1, <1>2, Zenon DEF Notice!Go, NInv, NoticeTypeOK, Change
<1>4. /\ p.pc = pc /\ p.new = q.new /\ p.ctx = q.ctx /\ p.seen = q.seen /\ p.due = q.due
      /\ p.lost = q.lost /\ p.oldAddr = q.oldAddr /\ p.res = q.res /\ p.token = q.token
  BY <1>2, Zenon DEF Change
<1>5. QED
  BY <1>1, <1>3, <1>4, Zenon

(* A request that has not begun.                                           *)
LEMMA IdleChange ==
  /\ Notice!Idle \in Change
  /\ Notice!Idle.pc = "idle" /\ Notice!Idle.due = FALSE /\ Notice!Idle.res = "none"
BY DEF Notice!Idle, Change, Address

-----------------------------------------------------------------------------
(* EmailNotice: the steps.                                                 *)

(* A change is asked for, in the name of the row Authenticate read.        *)
LEMMA ChangeRequestedStep ==
  ASSUME NInv, NEW r \in Requests, Notice!ChangeRequested(r)
  PROVE  NInv'
<1>1. PICK new \in Emails :
        /\ changeReq[r].pc = "idle"
        /\ changeReq' = [changeReq EXCEPT ![r] =
             [Notice!Idle EXCEPT !.pc = "free?", !.ctx = email, !.new = new, !.seen = landed]]
        /\ UNCHANGED <<email, PendingEmail, mailed, emailChanges, minted, links, notices,
                       landed, current>>
  BY Zenon DEF Notice!ChangeRequested
<1>2. email \in Emails /\ landed \in SUBSET Nat /\ PendingEmail \in Address
  BY DEF NInv, NoticeTypeOK
<1> HIDE DEF Notice!Idle
<1>3. PICK p \in Change :
        p = [Notice!Idle EXCEPT !.pc = "free?", !.ctx = email, !.new = new, !.seen = landed]
  BY <1>2, IdleChange, Zenon DEF Change, Address, ChangePCs
<1>4. /\ p.pc = "free?" /\ p.ctx = email /\ p.new = new /\ p.seen = landed /\ p.due = FALSE
      /\ p.res = "none"
  BY <1>3, IdleChange, Zenon DEF Change
<1>5. email' = email /\ landed' = landed
  BY <1>1, SMTT(30)
<1>6. ChangeOK(p)'
  BY <1>2, <1>4, <1>5 DEF ChangeOK, ChangePCs, ConfirmPCs
<1>7. QED
  BY <1>1, <1>2, <1>3, <1>4, <1>6, ChangeMove, Zenon

(* The address is free, and staged.                                        *)
LEMMA StageStep ==
  ASSUME NInv, NEW r \in Requests, Notice!GetUserByEmail(r) \/ Notice!ChangeEmail(r)
  PROVE  NInv'
<1>1. CASE Notice!GetUserByEmail(r) /\ changeReq[r].new = email
  BY <1>1, ChangeAnswerStep, Zenon DEF Notice!GetUserByEmail
<1>2. CASE ~(Notice!GetUserByEmail(r) /\ changeReq[r].new = email)
  <2>1. PICK pc \in {"stage", "token"} :
          /\ Notice!Go(r, pc)
          /\ changeReq[r].pc \in ChangePCs
          /\ PendingEmail' \in {PendingEmail, changeReq[r].new}
          /\ UNCHANGED <<email, mailed, emailChanges, minted, links, notices, landed, current>>
    BY <1>2, ZenonT(30) DEF Notice!GetUserByEmail, Notice!ChangeEmail, ChangePCs
  <2>2. PICK q, p \in Change :
          /\ q = changeReq[r] /\ ChangeOK(q) /\ changeReq' = [changeReq EXCEPT ![r] = p]
          /\ p.pc = pc /\ p.new = q.new /\ p.ctx = q.ctx /\ p.seen = q.seen /\ p.due = q.due
          /\ p.res = q.res
    BY <2>1, ChangeGone, SMT, SMTT(30)
  <2>3. PendingEmail' \in Address
    BY <2>1, <2>2, Zenon DEF NInv, NoticeTypeOK, Change
  <2>4. ChangeOK(p)'
    <3>1. email' = email /\ landed' = landed /\ pc \in ChangePCs /\ q.pc \in ChangePCs
      BY <2>1, <2>2 DEF ChangePCs
    <3>2. q.res = "none" /\ ~q.due
      BY <3>1, <2>2 DEF ChangeOK, ChangePCs
    <3>3. QED
      BY <2>2, <3>1, <3>2 DEF ChangeOK, ConfirmPCs
  <2>5. QED
    BY <2>1, <2>2, <2>3, <2>4, ChangeMove, Zenon
<1>3. QED
  BY <1>1, <1>2

(* A token is minted, which nobody else has.                               *)
LEMMA MintStep ==
  ASSUME NInv, NEW r \in Requests, Notice!createTokenForUserWithEmail(r)
  PROVE  NInv'
<1>1. PICK q \in Change : q = changeReq[r] /\ ChangeOK(q) /\ q.pc = "token"
  BY DEF NInv, NoticeTypeOK, Notice!createTokenForUserWithEmail
<1>2. PICK n \in Nat : n = minted + 1 /\ minted \in Nat
  BY DEF NInv, NoticeTypeOK
<1>3. /\ minted' = n /\ mailed' = mailed \cup {[id |-> n, email |-> q.new]}
      /\ UNCHANGED <<email, PendingEmail, emailChanges, links, notices, landed, current>>
  BY <1>1, <1>2 DEF Notice!createTokenForUserWithEmail
<1>4. PICK p \in Change : p = [q EXCEPT !.pc = "add", !.token = n]
  BY Zenon DEF Change, ChangePCs
<1>5. changeReq' = [changeReq EXCEPT ![r] = p]
  BY <1>1, <1>3, <1>4, ZenonT(30) DEF Notice!createTokenForUserWithEmail, NInv, NoticeTypeOK, Change
<1>6. /\ p.pc = "add" /\ p.token = n /\ p.new = q.new /\ p.ctx = q.ctx /\ p.seen = q.seen
      /\ p.due = q.due /\ p.res = q.res
  BY <1>4, Zenon DEF Change
<1>7. q.new \in Emails /\ q.res = "none" /\ ~q.due
  BY <1>1 DEF ChangeOK, ChangePCs
<1>8. 1 .. minted \subseteq 1 .. n /\ n \notin 1 .. minted /\ n \in 1 .. n
  BY <1>2
<1>9. NoticeTypeOK'
  <2>1. mailed' \subseteq [id : 1 .. n, email : Emails]
    BY <1>3, <1>7, <1>8 DEF NInv, NoticeTypeOK
  <2>2. changeReq' \in [Requests -> Change]
    BY <1>5 DEF NInv, NoticeTypeOK
  <2>3. DOMAIN links' \subseteq 1 .. n /\ links' \in [DOMAIN links' -> Nat]
    BY <1>3, <1>8 DEF NInv, NoticeTypeOK
  <2>4. landed' \subseteq 1 .. n
    BY <1>3, <1>8 DEF NInv, NoticeTypeOK
  <2>5. QED
    BY <1>3, <2>1, <2>2, <2>3, <2>4 DEF NInv, NoticeTypeOK
<1>10. \A m \in 1 .. minted : Mailed(m)' = Mailed(m)
  BY <1>3, <1>8 DEF Mailed
<1>11. NShared'
  <2>1. \A m \in landed : ~Mailed(m)'
    BY <1>10 DEF NInv, NShared, NoticeTypeOK
  <2>2. \A m \in current : CurrentOK(m)'
    BY <1>3 DEF NInv, NShared, CurrentOK
  <2>3. QED
    BY <1>3, <2>1, <2>2 DEF NInv, NShared
<1>12. p.token \notin DOMAIN links
  BY <1>6, <1>8 DEF NInv, NoticeTypeOK
<1>13. ChangeOK(p)'
  <2>1. /\ q.ctx \in Emails /\ q.seen \subseteq landed /\ (q.seen = landed => q.ctx = email)
    BY <1>1 DEF ChangeOK, ChangePCs
  <2>2. QED
    BY <1>3, <1>6, <1>7, <1>8, <1>12, <2>1, ZenonT(30) DEF ChangeOK, ConfirmPCs
<1>14. ASSUME NEW s \in Change, ChangeOK(s)
       PROVE  ChangeOK(s)' /\ Apart(s, p)'
  <2>1. s.pc = "add" => s.token \in 1 .. minted
    BY <1>14 DEF ChangeOK
  <2>2. Apart(s, p)'
    BY <1>6, <1>8, <2>1 DEF Apart, ConfirmPCs
  <2>3. s.pc = "swap" => ~Mailed(s.token)'
    <3>1. s.pc = "swap" => s.token \in 1 .. minted /\ ~Mailed(s.token)
      <4>1. s.pc = "swap" => s.pc \in ConfirmPCs
        BY Zenon DEF ConfirmPCs
      <4>2. s.pc = "swap" => s.token \in DOMAIN links /\ ~Mailed(s.token)
        BY <1>14, <4>1, Zenon DEF ChangeOK
      <4>3. DOMAIN links \subseteq 1 .. minted
        BY Zenon DEF NInv, NoticeTypeOK
      <4>4. QED
        BY <4>2, <4>3, Zenon
    <3>2. QED
      BY <1>10, <3>1, SMTT(30)
  <2>4. ChangeOK(s)'
    BY <1>3, <1>8, <1>14, <2>1, <2>3 DEF ChangeOK
  <2>5. QED
    BY <2>2, <2>4
<1>15. \A t, s \in Change : Apart(t, s) => Apart(t, s)'
  BY <1>3 DEF Apart
<1>16. QED
  BY <1>1, <1>5, <1>9, <1>11, <1>13, <1>14, <1>15, ChangeStep, Zenon

(* The entry is added and the link mailed: it is current if no change      *)
(* landed since the request was authenticated.                             *)
LEMMA AddAndMailStep ==
  ASSUME NInv, NEW r \in Requests, Notice!AddAndMail(r)
  PROVE  NInv'
<1>1. PICK q \in Change : q = changeReq[r] /\ ChangeOK(q) /\ q.pc = "add"
  BY DEF NInv, NoticeTypeOK, Notice!AddAndMail
<1>2. PICK n \in Nat : n = q.token
  BY Zenon DEF Change
<1>3. n \in 1 .. minted /\ n \notin DOMAIN links
  BY <1>1, <1>2, Zenon DEF ChangeOK
<1>4. q.ctx \in Emails /\ (q.seen = landed => q.ctx = email)
  BY <1>1, Zenon DEF ChangeOK, ChangePCs
<1>5. /\ emailChanges' = emailChanges \cup {[id |-> n, oldAddr |-> q.ctx]}
      /\ links' = [m \in DOMAIN links \cup {n} |-> IF m \in DOMAIN links THEN links[m] ELSE 0]
      /\ current' = IF q.seen = landed THEN current \cup {n} ELSE current
      /\ Notice!Answer(r, "sent")
      /\ UNCHANGED <<email, PendingEmail, mailed, minted, notices, landed>>
  BY <1>1, <1>2, Zenon DEF Notice!AddAndMail, Notice!Recorded
<1>6. PICK p \in Change :
        changeReq' = [changeReq EXCEPT ![r] = p] /\ p.pc = "done" /\ ChangeOK(p)'
  BY <1>5, ChangeAnswer, Zenon
<1>7. /\ DOMAIN links' = DOMAIN links \cup {n} /\ links'[n] = 0
      /\ \A m \in DOMAIN links : links'[m] = links[m]
  BY <1>3, <1>5
<1>8. NoticeTypeOK'
  <2>1. links' \in [DOMAIN links' -> Nat] /\ DOMAIN links' \subseteq 1 .. minted'
    <3>1. \A m \in DOMAIN links : links[m] \in Nat
      BY DEF NInv, NoticeTypeOK
    <3>2. links' \in [DOMAIN links \cup {n} -> Nat]
      BY <1>5, <3>1
    <3>3. QED
      BY <1>3, <1>5, <1>7, <3>2 DEF NInv, NoticeTypeOK
  <2>2. emailChanges' \subseteq [id : Nat, oldAddr : Emails]
    BY <1>4, <1>5 DEF NInv, NoticeTypeOK
  <2>3. changeReq' \in [Requests -> Change]
    BY <1>6 DEF NInv, NoticeTypeOK
  <2>4. QED
    BY <1>5, <2>1, <2>2, <2>3 DEF NInv, NoticeTypeOK
<1>9. \A e \in emailChanges : e.id # n
  BY <1>3 DEF NInv, NShared
<1>10. \A m \in current : m \in DOMAIN links
  BY Zenon DEF NInv, NShared, CurrentOK
<1>11. NShared'
  <2>1. ASSUME NEW m \in current
        PROVE  CurrentOK(m)'
    <3>1. m # n /\ m \in DOMAIN links /\ links'[m] = links[m] /\ CurrentOK(m)
      BY <1>3, <1>7, <1>10 DEF NInv, NShared
    <3>2. \A e \in emailChanges' : e.id = m => e \in emailChanges
      BY <1>5, <3>1
    <3>3. QED
      BY <1>5, <1>7, <3>1, <3>2 DEF CurrentOK
  <2>2. ASSUME q.seen = landed
        PROVE  CurrentOK(n)'
    <3>1. \A e \in emailChanges' : e.id = n => e.oldAddr = email'
      BY <1>4, <1>5, <1>9, <2>2
    <3>2. \E e \in emailChanges' : e.id = n
      <4>1. [id |-> n, oldAddr |-> q.ctx] \in emailChanges'
        BY <1>5
      <4>2. [id |-> n, oldAddr |-> q.ctx].id = n
        OBVIOUS
      <4>3. QED
        BY <4>1, <4>2, Zenon
    <3>3. QED
      BY <1>7, <3>1, <3>2 DEF CurrentOK
  <2>3. \A m \in current' : CurrentOK(m)'
    BY <1>5, <2>1, <2>2, SMTT(30)
  <2>4. \A e \in emailChanges' : e.id \in DOMAIN links'
    BY <1>5, <1>7, SMT, SMTT(30) DEF NInv, NShared
  <2>5. \A m \in landed' : ~Mailed(m)'
    BY <1>5 DEF NInv, NShared, Mailed
  <2>6. QED
    BY <2>3, <2>4, <2>5 DEF NShared
<1>12. ASSUME NEW s \in Change, ChangeOK(s), Apart(s, q)
       PROVE  ChangeOK(s)' /\ Apart(s, p)'
  <2>1. s.pc = "add" => s.token # n
    BY <1>1, <1>2, <1>12, SMTT(30) DEF Apart
  <2>2. s.pc \in ConfirmPCs => s.token \in DOMAIN links /\ (s.token \in current' => s.token \in current)
    <3>1. s.pc \in ConfirmPCs => s.token \in DOMAIN links
      BY <1>12, Zenon DEF ChangeOK
    <3>2. \A m \in DOMAIN links : m \in current' => m \in current
      <4>1. \A m \in current' : m \in current \/ m = n
        BY <1>5, Zenon
      <4>2. QED
        BY <1>3, <4>1, Zenon
    <3>3. QED
      BY <3>1, <3>2, Zenon
  <2>3. ChangeOK(s)'
    BY <1>5, <1>7, <1>12, <2>1, <2>2 DEF ChangeOK, Mailed, ConfirmPCs
  <2>4. Apart(s, p)'
    BY <1>6 DEF Apart, ConfirmPCs
  <2>5. QED
    BY <2>3, <2>4
<1>13. ASSUME NEW t \in Change, NEW s \in Change, ChangeOK(t), ChangeOK(s), Apart(t, s)
       PROVE  Apart(t, s)'
  <2>1. t.pc \in ConfirmPCs => (t.token \in current' => t.token \in current)
    BY <1>3, <1>5, <1>13, Zenon DEF ChangeOK
  <2>2. QED
    BY <1>13, <2>1, SMTT(30) DEF Apart
<1>14. QED
  BY <1>1, <1>6, <1>8, <1>11, <1>12, <1>13, ChangeStep, Zenon

(* A link is followed: a second time, and it is no longer current.         *)
LEMMA LinkFollowedStep ==
  ASSUME NInv, NEW r \in Requests, Notice!LinkFollowed(r)
  PROVE  NInv'
<1>1. PICK n \in DOMAIN links :
        /\ changeReq[r].pc = "idle"
        /\ links[n] < MaxClicks
        /\ links' = [links EXCEPT ![n] = @ + 1]
        /\ current' = IF links[n] > 0 THEN current \ {n} ELSE current
        /\ changeReq' = [changeReq EXCEPT ![r] =
             [Notice!Idle EXCEPT !.pc = "take", !.token = n]]
        /\ UNCHANGED <<email, PendingEmail, mailed, emailChanges, minted, notices, landed>>
  BY Zenon DEF Notice!LinkFollowed
<1>2. PICK q \in Change : q = changeReq[r]
  BY DEF NInv, NoticeTypeOK
<1>3. n \in Nat /\ links \in [DOMAIN links -> Nat]
  BY DEF NInv, NoticeTypeOK
<1>4. PICK p \in Change : p = [Notice!Idle EXCEPT !.pc = "take", !.token = n]
  <2> HIDE DEF Notice!Idle
  <2>1. QED
    BY <1>3, IdleChange, Zenon DEF Change, ConfirmPCs
<1>5. p.pc = "take" /\ p.token = n /\ p.due = FALSE /\ p.res = "none"
  <2> HIDE DEF Notice!Idle
  <2>1. QED
    BY <1>4, IdleChange, Zenon DEF Change
<1>6. /\ DOMAIN links' = DOMAIN links /\ links' \in [DOMAIN links' -> Nat]
      /\ links'[n] = links[n] + 1 /\ \A m \in DOMAIN links \ {n} : links'[m] = links[m]
  BY <1>1, <1>3
<1>7. current' \subseteq current /\ (n \in current' => links[n] = 0)
  <2>1. links[n] \in Nat
    BY <1>3
  <2>2. QED
    BY <1>1, <2>1
<1>8. NoticeTypeOK'
  <2>1. changeReq' \in [Requests -> Change]
    BY <1>1, <1>4 DEF NInv, NoticeTypeOK
  <2>2. DOMAIN links' \subseteq 1 .. minted'
    BY <1>1, <1>6 DEF NInv, NoticeTypeOK
  <2>3. QED
    BY <1>1, <1>6, <2>1, <2>2 DEF NInv, NoticeTypeOK
<1>9. NShared'
  <2>1. ASSUME NEW m \in current'
        PROVE  CurrentOK(m)'
    <3>1. CurrentOK(m)
      BY <1>7, <2>1 DEF NInv, NShared
    <3>2. m = n => links'[m] = 1
      BY <1>6, <1>7, <2>1
    <3>3. QED
      BY <1>1, <1>6, <3>1, <3>2 DEF CurrentOK
  <2>2. \A m \in landed' : ~Mailed(m)'
    BY <1>1 DEF NInv, NShared, Mailed
  <2>3. QED
    BY <1>1, <1>6, <2>1, <2>2 DEF NInv, NShared
<1>10. ChangeOK(p)'
  <2>1. n \in current' => links'[n] = 1 /\ \E e \in emailChanges' : e.id = n
    <3>1. n \in current' => CurrentOK(n)
      BY <1>7 DEF NInv, NShared
    <3>2. QED
      BY <1>1, <1>6, <1>7, <3>1 DEF CurrentOK
  <2>2. QED
    BY <1>5, <1>6, <2>1 DEF ChangeOK, ChangePCs
<1>11. ASSUME NEW s \in Change, ChangeOK(s)
       PROVE  ChangeOK(s)' /\ Apart(s, p)'
  <2>1. (s.pc \in ConfirmPCs /\ s.token = n) => n \notin current'
    <3>1. (s.pc \in ConfirmPCs /\ s.token = n /\ n \in current) => links[n] = 1
      BY <1>11 DEF ChangeOK
    <3>2. QED
      BY <1>7, <3>1, SMTT(30)
  <2>2. Apart(s, p)'
    BY <1>5, <2>1 DEF Apart
  <2>3. (s.pc \in ConfirmPCs /\ s.token \in current') => links'[s.token] = 1
    BY <1>6, <1>7, <1>11, <2>1 DEF ChangeOK
  <2>4. ChangeOK(s)'
    BY <1>1, <1>6, <1>7, <1>11, <2>3 DEF ChangeOK, Mailed
  <2>5. QED
    BY <2>2, <2>4
<1>12. \A t, s \in Change : Apart(t, s) => Apart(t, s)'
  BY <1>7 DEF Apart
<1>13. QED
  BY <1>1, <1>2, <1>4, <1>8, <1>9, <1>10, <1>11, <1>12, ChangeStep, Zenon

(* The confirmation takes the entry.                                       *)
LEMMA TakeEntryStep ==
  ASSUME NInv, NEW r \in Requests, Notice!Take(r)
  PROVE  NInv'
<1>1. PICK q \in Change : q = changeReq[r] /\ ChangeOK(q) /\ q.pc = "take"
  BY DEF NInv, NoticeTypeOK, Notice!Take
<1> DEFINE had == {e \in emailChanges : e.id = q.token}
           old == IF had = {} THEN None ELSE (CHOOSE e \in had : TRUE).oldAddr
<1>2. /\ emailChanges' = emailChanges \ had
      /\ changeReq' = [changeReq EXCEPT ![r].pc = "consume", ![r].oldAddr = old]
      /\ UNCHANGED <<email, PendingEmail, mailed, minted, links, notices, landed, current>>
  BY <1>1 DEF Notice!Take
<1>3. had # {} => \E e \in emailChanges : e.id = q.token /\ old = e.oldAddr
  <2>1. had # {} => (CHOOSE e \in had : TRUE) \in had
    OBVIOUS
  <2>2. QED
    BY <2>1, Zenon
<1>4. old \in Address
  BY <1>3 DEF Address, NInv, NoticeTypeOK
<1>5. q.token \in current => old = email
  <2>1. q.token \in current => had # {}
    BY <1>1 DEF ChangeOK
  <2>2. q.token \in current => CurrentOK(q.token)
    BY DEF NInv, NShared
  <2>3. QED
    BY <1>3, <2>1, <2>2, SMTT(30) DEF CurrentOK
<1>6. \A e \in emailChanges : e.id # q.token => e \in emailChanges'
  BY <1>2
<1>7. emailChanges' \subseteq emailChanges
  BY <1>2
<1>8. PICK old1 \in Address : old1 = old
  BY <1>4, Zenon
<1> HIDE DEF had, old
<1>9. PICK p \in Change : p = [q EXCEPT !.pc = "consume", !.oldAddr = old1]
  BY Zenon DEF Change, ConfirmPCs
<1>10. changeReq' = [changeReq EXCEPT ![r] = p]
  BY <1>1, <1>2, <1>8, <1>9, Zenon DEF NInv, NoticeTypeOK, Change
<1>11. /\ p.pc = "consume" /\ p.oldAddr = old1 /\ p.token = q.token /\ p.due = q.due
       /\ p.res = q.res
  BY <1>9, Zenon DEF Change
<1>12. NoticeTypeOK'
  <2>1. changeReq' \in [Requests -> Change]
    BY <1>10 DEF NInv, NoticeTypeOK
  <2>2. QED
    BY <1>2, <1>7, <2>1 DEF NInv, NoticeTypeOK
<1>13. NShared'
  <2>1. ASSUME NEW m \in current
        PROVE  CurrentOK(m)'
    <3>1. CurrentOK(m) /\ (m = q.token => links[m] = 1)
      BY <1>1, <2>1, Zenon DEF NInv, NShared, ChangeOK, ConfirmPCs
    <3>2. QED
      BY <1>2, <1>6, <1>7, <3>1 DEF CurrentOK
  <2>2. \A m \in landed' : ~Mailed(m)'
    BY <1>2 DEF NInv, NShared, Mailed
  <2>3. QED
    BY <1>2, <1>7, <2>1, <2>2 DEF NInv, NShared
<1>14. ChangeOK(p)'
  <2>1. /\ q.token \in DOMAIN links /\ ~q.due /\ q.res = "none"
        /\ q.token \in current => links[q.token] = 1
    BY <1>1, Zenon DEF ChangeOK, ConfirmPCs
  <2>2. QED
    BY <1>2, <1>5, <1>8, <1>11, <2>1 DEF ChangeOK, ChangePCs, ConfirmPCs
<1>15. ASSUME NEW s \in Change, ChangeOK(s), Apart(s, q)
       PROVE  ChangeOK(s)' /\ Apart(s, p)'
  <2>1. (s.pc = "take" /\ s.token \in current) => \E e \in emailChanges' : e.id = s.token
    <3>1. (s.pc = "take" /\ s.token \in current) => s.token # q.token
      BY <1>1, <1>15 DEF Apart, ConfirmPCs
    <3>2. QED
      <4>1. s.pc = "take" /\ s.token \in current => \E e \in emailChanges : e.id = s.token
        BY <1>15, Zenon DEF ChangeOK
      <4>2. QED
        BY <1>6, <3>1, <4>1, Zenon
  <2>2. ChangeOK(s)'
    BY <1>2, <1>15, <2>1 DEF ChangeOK, Mailed
  <2>3. Apart(s, p)'
    BY <1>1, <1>2, <1>11, <1>15 DEF Apart, ConfirmPCs
  <2>4. QED
    BY <2>2, <2>3, SMTT(30)
<1>16. \A t, s \in Change : Apart(t, s) => Apart(t, s)'
  BY <1>2, SMTT(30) DEF Apart
<1>17. QED
  BY <1>1, <1>10, <1>12, <1>13, <1>14, <1>15, <1>16, ChangeStep, Zenon

(* The token is consumed: no other confirmation has it.                    *)
LEMMA ConsumeStep ==
  ASSUME NInv, NEW r \in Requests, Notice!consumeToken(r)
  PROVE  NInv'
<1>1. PICK q \in Change : q = changeReq[r] /\ ChangeOK(q) /\ q.pc = "consume"
  BY DEF NInv, NoticeTypeOK, Notice!consumeToken
<1> DEFINE t == {u \in mailed : u.id = q.token}
<1>2. /\ mailed' = mailed \ t
      /\ UNCHANGED <<email, PendingEmail, emailChanges, minted, links, notices, landed, current>>
  BY <1>1 DEF Notice!consumeToken
<1>3. CASE t = {}
  <2>1. Notice!Answer(r, "invalid")
    BY <1>1, <1>3 DEF Notice!consumeToken, Notice!Refuse
  <2>2. mailed' = mailed
    BY <1>2, <1>3
  <2>3. QED
    BY <1>2, <2>1, <2>2, ChangeAnswerStep, Zenon
<1>4. CASE t # {}
  <2> DEFINE new == (CHOOSE u \in t : TRUE).email
  <2>1. changeReq' = [changeReq EXCEPT ![r].pc = "swap", ![r].new = new]
    BY <1>1, <1>4 DEF Notice!consumeToken
  <2>2. PICK a \in Emails : a = new
    <3>1. (CHOOSE u \in t : TRUE) \in mailed
      BY <1>4
    <3>2. QED
      BY <3>1, Zenon DEF NInv, NoticeTypeOK
  <2>3. PICK u \in mailed : u.id = q.token
    BY <1>4, SMTT(30)
  <2>4. Mailed(q.token) /\ \A m : Mailed(m)' => Mailed(m) /\ m # q.token
    BY <1>2, <2>3 DEF Mailed
  <2> HIDE DEF new, t
  <2>5. PICK p \in Change : p = [q EXCEPT !.pc = "swap", !.new = a]
    BY Zenon DEF Change, ConfirmPCs, Address
  <2>6. changeReq' = [changeReq EXCEPT ![r] = p]
    BY <1>1, <2>1, <2>2, <2>5, Zenon DEF NInv, NoticeTypeOK, Change
  <2>7. /\ p.pc = "swap" /\ p.new = a /\ p.token = q.token /\ p.due = q.due
        /\ p.oldAddr = q.oldAddr /\ p.res = q.res
    BY <2>5, Zenon DEF Change
  <2>8. NoticeTypeOK'
    <3>1. changeReq' \in [Requests -> Change]
      BY <2>6 DEF NInv, NoticeTypeOK
    <3>2. mailed' \subseteq [id : 1 .. minted', email : Emails]
      BY <1>2 DEF NInv, NoticeTypeOK
    <3>3. QED
      BY <1>2, <3>1, <3>2 DEF NInv, NoticeTypeOK
  <2>9. NShared'
    <3>1. \A m \in current : CurrentOK(m)'
      BY <1>2, Zenon DEF NInv, NShared, CurrentOK
    <3>2. QED
      BY <1>2, <2>4, <3>1, Zenon DEF NInv, NShared
  <2>10. ChangeOK(p)'
    <3>1. /\ q.token \in DOMAIN links /\ ~q.due /\ q.res = "none"
          /\ q.token \in current => links[q.token] = 1
          /\ q.token \in current => q.oldAddr = email
      BY <1>1, Zenon DEF ChangeOK, ConfirmPCs
    <3>2. q.token \notin landed /\ ~Mailed(q.token)'
      BY <2>4, Zenon DEF NInv, NShared
    <3>3. QED
      BY <1>2, <2>7, <3>1, <3>2, Zenon DEF ChangeOK, ChangePCs, ConfirmPCs
  <2>11. ASSUME NEW s \in Change, ChangeOK(s), Apart(s, q)
         PROVE  ChangeOK(s)' /\ Apart(s, p)'
    <3>1. ChangeOK(s)'
      BY <1>2, <2>4, <2>11, Zenon DEF ChangeOK
    <3>2. s.pc = "swap" => s.token # q.token
      BY <2>4, <2>11, Zenon DEF ChangeOK
    <3>3. Apart(s, p)'
      BY <1>1, <1>2, <2>7, <2>11, <3>2, Zenon DEF Apart, ConfirmPCs
    <3>4. QED
      BY <3>1, <3>3
  <2>12. \A x, s \in Change : Apart(x, s) => Apart(x, s)'
    BY <1>2 DEF Apart
  <2>13. QED
    BY <1>1, <2>6, <2>8, <2>9, <2>10, <2>11, <2>12, ChangeStep, Zenon
<1>5. QED
  BY <1>3, <1>4

(* The address is swapped: whoever loses it is the one the entry named, if *)
(* the token was current.                                                  *)
LEMMA SwapStep ==
  ASSUME NInv, NEW r \in Requests, Notice!ConfirmEmailChange(r)
  PROVE  NInv'
<1>1. PICK q \in Change : q = changeReq[r] /\ ChangeOK(q) /\ q.pc = "swap"
  BY DEF NInv, NoticeTypeOK, Notice!ConfirmEmailChange
<1>2. CASE q.new # PendingEmail \/ PendingEmail = email
  <2>1. Notice!Answer(r, "invalid") /\ UNCHANGED <<email, PendingEmail, landed, current>>
    BY <1>1, <1>2 DEF Notice!ConfirmEmailChange, Notice!Refuse
  <2>2. QED
    BY <2>1, ChangeAnswerStep, Zenon DEF Notice!ConfirmEmailChange
<1>3. CASE ~(q.new # PendingEmail \/ PendingEmail = email)
  <2>1. PICK due \in BOOLEAN : due = (q.token \in current)
    <3>1. CASE q.token \in current
      BY <3>1, TRUE \in BOOLEAN, TRUE = (q.token \in current), Zenon
    <3>2. CASE q.token \notin current
      BY <3>2, FALSE \in BOOLEAN, FALSE = (q.token \in current), Zenon
    <3>3. QED
      BY <3>1, <3>2
  <2>2. /\ email' = PendingEmail /\ PendingEmail' = None
        /\ landed' = landed \cup {q.token} /\ current' = {}
        /\ changeReq' = [changeReq EXCEPT ![r].pc = "purge", ![r].lost = email, ![r].due = due]
        /\ UNCHANGED <<mailed, emailChanges, minted, links, notices>>
    BY <1>1, <1>3, <2>1 DEF Notice!ConfirmEmailChange
  <2>3. PICK lost \in Emails : lost = email
    BY DEF NInv, NoticeTypeOK
  <2>4. PICK p \in Change : p = [q EXCEPT !.pc = "purge", !.lost = lost, !.due = due]
    BY Zenon DEF Change, Address
  <2>5. changeReq' = [changeReq EXCEPT ![r] = p]
    BY <1>1, <2>2, <2>3, <2>4, Zenon DEF NInv, NoticeTypeOK, Change
  <2>6. /\ p.pc = "purge" /\ p.lost = lost /\ p.due = due /\ p.oldAddr = q.oldAddr
        /\ p.res = q.res
    BY <2>4, ZenonT(30) DEF Change
  <2>7. /\ q.token \in DOMAIN links /\ ~Mailed(q.token) /\ q.token \notin landed
        /\ q.new \in Emails /\ q.res = "none" /\ (q.token \in current => q.oldAddr = email)
    <3>1. q.pc \in ConfirmPCs
      BY <1>1, Zenon DEF ConfirmPCs
    <3>2. QED
      BY <1>1, <3>1, Zenon DEF ChangeOK
  <2>8. NoticeTypeOK'
    <3>1. changeReq' \in [Requests -> Change]
      BY <2>5 DEF NInv, NoticeTypeOK
    <3>2. landed' \subseteq 1 .. minted'
      BY <2>2, <2>7 DEF NInv, NoticeTypeOK
    <3>3. email' \in Emails /\ PendingEmail' \in Address
      BY <1>3, <2>2, <2>7 DEF Address
    <3>4. QED
      BY <2>2, <3>1, <3>2, <3>3 DEF NInv, NoticeTypeOK
  <2>9. NShared'
    BY <2>2, <2>7 DEF NInv, NShared, Mailed
  <2>10. ChangeOK(p)'
    BY <2>1, <2>3, <2>6, <2>7, Zenon DEF ChangeOK, ChangePCs, ConfirmPCs
  <2>11. ASSUME NEW s \in Change, ChangeOK(s), Apart(s, q)
         PROVE  ChangeOK(s)' /\ Apart(s, p)'
    <3>1. s.pc \in ChangePCs => s.seen \subseteq landed' /\ s.seen # landed'
      BY <2>2, <2>7, <2>11 DEF ChangeOK
    <3>2. s.pc = "swap" => s.token \notin landed'
      BY <1>1, <2>2, <2>11 DEF ChangeOK, Apart
    <3>3. ChangeOK(s)'
      BY <2>2, <2>11, <3>1, <3>2 DEF ChangeOK, Mailed
    <3>4. Apart(s, p)'
      BY <2>6 DEF Apart, ConfirmPCs
    <3>5. QED
      BY <3>3, <3>4
  <2>12. \A t, s \in Change : Apart(t, s) => Apart(t, s)'
    BY <2>2 DEF Apart
  <2>13. QED
    BY <1>1, <2>5, <2>8, <2>9, <2>10, <2>11, <2>12, ChangeStep, Zenon
<1>4. QED
  BY <1>2, <1>3

(* The sessions are purged, or the call fails.                             *)
LEMMA PurgeStep ==
  ASSUME NInv, NEW r \in Requests, Notice!Purge(r)
  PROVE  NInv'
<1>1. CASE Notice!Answer(r, "error")
  BY <1>1, ChangeAnswerStep, Zenon DEF Notice!Purge
<1>2. CASE Notice!Go(r, "notice")
  <2>1. PICK q, p \in Change :
          /\ q = changeReq[r] /\ ChangeOK(q) /\ changeReq' = [changeReq EXCEPT ![r] = p]
          /\ p.pc = "notice" /\ p.due = q.due /\ p.lost = q.lost /\ p.oldAddr = q.oldAddr
          /\ p.res = q.res
    BY <1>2, ChangeGone, SMT, SMTT(30)
  <2>2. ChangeOK(p)'
    BY <2>1 DEF ChangeOK, Notice!Purge, ChangePCs, ConfirmPCs
  <2>3. PendingEmail' \in Address
    BY DEF Notice!Purge, NInv, NoticeTypeOK
  <2>4. QED
    BY <2>1, <2>2, <2>3, ChangeMove, Zenon DEF Notice!Purge
<1>3. QED
  BY <1>1, <1>2 DEF Notice!Purge

(* The loser of the address is told.                                       *)
LEMMA SendNoticeStep ==
  ASSUME NInv, NEW r \in Requests, Notice!SendNotice(r)
  PROVE  NInv'
<1>1. PICK q \in Change : q = changeReq[r] /\ ChangeOK(q)
  BY DEF NInv, NoticeTypeOK
<1>2. PICK p \in Change : p = [q EXCEPT !.pc = "done", !.res = "confirmed"]
  BY Zenon DEF Change
<1>3. changeReq' = [changeReq EXCEPT ![r] = p]
  BY <1>1, <1>2, Zenon DEF Notice!SendNotice, Notice!Answer, NInv, NoticeTypeOK, Change
<1>4. /\ p.pc = "done" /\ p.res = "confirmed" /\ p.due = q.due /\ p.lost = q.lost
      /\ p.oldAddr = q.oldAddr /\ p.token = q.token
  BY <1>2, Zenon DEF Change
<1>5. notices' = notices \cup
        (IF q.oldAddr = None THEN {} ELSE {[id |-> q.token, to |-> q.oldAddr]})
  BY <1>1, Zenon DEF Notice!SendNotice
<1>6. q.due => q.lost \in Emails /\ q.oldAddr = q.lost /\ q.lost # None
  BY <1>1, NoticeAssumption, Zenon DEF ChangeOK
<1>7. q.due => [id |-> q.token, to |-> q.lost] \in notices'
  BY <1>5, <1>6, Zenon
<1>8. ChangeOK(p)'
  BY <1>4, <1>6, <1>7, Zenon DEF ChangeOK, ChangePCs, ConfirmPCs
<1>9. PendingEmail' \in Address /\ notices \subseteq notices'
  BY <1>5 DEF Notice!SendNotice, NInv, NoticeTypeOK
<1>10. QED
  BY <1>3, <1>4, <1>8, <1>9, ChangeMove, Zenon DEF Notice!SendNotice

(* The process restarts: nothing is current any more.                      *)
LEMMA NoticeRestartStep ==
  ASSUME NInv, Notice!Restart
  PROVE  NInv'
<1>1. ASSUME NEW t \in Requests
      PROVE  /\ changeReq'[t] \in Change /\ ChangeOK(changeReq[t])'
             /\ changeReq'[t].pc \in {"idle", "done"}
  <2>1. PICK q \in Change : q = changeReq[t] /\ ChangeOK(q)
    BY DEF NInv, NoticeTypeOK
  <2>2. CASE q.pc \in {"idle", "done"}
    <3>1. changeReq'[t] = q
      BY <2>1, <2>2 DEF Notice!Restart
    <3>2. ChangeOK(q)'
      BY <2>1, <2>2 DEF ChangeOK, ChangePCs, ConfirmPCs, Notice!Restart
    <3>3. QED
      BY <2>2, <3>1, <3>2
  <2>3. CASE q.pc \notin {"idle", "done"}
    <3>1. PICK p \in Change : p = [Notice!Idle EXCEPT !.pc = "done", !.res = "lost"]
      <4> HIDE DEF Notice!Idle
      <4>1. QED
        BY IdleChange, Zenon DEF Change
    <3>2. p.pc = "done" /\ p.res = "lost" /\ p.due = FALSE
      <4> HIDE DEF Notice!Idle
      <4>1. QED
        BY <3>1, IdleChange, Zenon DEF Change
    <3>3. ChangeOK(p)'
      BY <3>2 DEF ChangeOK, ChangePCs, ConfirmPCs
    <3>4. changeReq'[t] = p
      BY <2>1, <2>3, <3>1 DEF Notice!Restart
    <3>5. QED
      BY <3>2, <3>3, <3>4
  <2>4. QED
    BY <2>2, <2>3
<1>2. NoticeTypeOK'
  <2>1. changeReq' \in [Requests -> Change]
    <3>1. DOMAIN changeReq' = Requests /\ changeReq' = [t \in DOMAIN changeReq' |-> changeReq'[t]]
      BY DEF Notice!Restart
    <3>2. QED
      BY <1>1, <3>1
  <2>2. QED
    BY <2>1 DEF Notice!Restart, NInv, NoticeTypeOK
<1>3. NShared'
  BY DEF Notice!Restart, NInv, NShared, Mailed
<1>4. \A t, u \in Requests : Apart(changeReq[t], changeReq[u])'
  BY <1>1 DEF Apart, ConfirmPCs
<1>5. QED
  BY <1>1, <1>2, <1>3, <1>4, Zenon DEF NInv

-----------------------------------------------------------------------------
(* EmailNotice: the theorem.                                               *)

(* Nothing was asked for yet.                                              *)
LEMMA NoticeInit ==
  ASSUME Notice!Init
  PROVE  NInv
<1>1. ChangeOK(Notice!Idle) /\ Notice!Idle \in Change /\ Apart(Notice!Idle, Notice!Idle)
  <2> HIDE DEF Notice!Idle
  <2>1. QED
    BY IdleChange DEF ChangeOK, ChangePCs, ConfirmPCs, Apart
<1>2. NoticeTypeOK
  <2>1. links = <<>> /\ DOMAIN links = {} /\ links \in [DOMAIN links -> Nat]
    BY DEF Notice!Init
  <2>2. changeReq \in [Requests -> Change]
    BY <1>1 DEF Notice!Init
  <2>3. email \in Emails /\ PendingEmail \in Address
    BY NoticeAssumption DEF Notice!Init, Address
  <2>4. QED
    BY <2>1, <2>2, <2>3 DEF Notice!Init, NoticeTypeOK
<1>3. NShared
  BY DEF Notice!Init, NShared
<1>4. \A r \in Requests : changeReq[r] = Notice!Idle
  BY DEF Notice!Init
<1>5. QED
  BY <1>1, <1>2, <1>3, <1>4, SMTT(30) DEF NInv

(* Every step of a change of address keeps it.                             *)
LEMMA NoticeNext ==
  ASSUME NInv, [Notice!Next]_noticeVars
  PROVE  NInv'
<1>1. CASE Notice!Next
  BY <1>1, ChangeRequestedStep, StageStep, MintStep, AddAndMailStep, LinkFollowedStep,
     TakeEntryStep, ConsumeStep, SwapStep, PurgeStep, SendNoticeStep, NoticeRestartStep
     DEF Notice!Next, Notice!Step
<1>2. CASE UNCHANGED noticeVars
  <2>1. NoticeTypeOK' /\ NShared'
    BY <1>2 DEF noticeVars, NInv, NoticeTypeOK, NShared, CurrentOK, Mailed
  <2>2. \A r \in Requests : ChangeOK(changeReq[r])'
    BY <1>2, ZenonT(30) DEF noticeVars, NInv, ChangeOK, Mailed
  <2>3. \A r, s \in Requests : r # s => Apart(changeReq[r], changeReq[s])'
    BY <1>2, Zenon DEF noticeVars, NInv, Apart
  <2>4. QED
    BY <2>1, <2>2, <2>3 DEF NInv
<1>3. QED
  BY <1>1, <1>2

(* When a confirmation reports success, the address that lost the account  *)
(* has been told (pendingEmailChanges, handleEmailConfirm), if the link    *)
(* was followed once, no other change landed since the request was         *)
(* authenticated, and the process did not restart: for any number of       *)
(* requests and addresses, and any order of their steps.                   *)
THEOREM LosersAreTold == WebSpec => []LoserToldIfCurrent
<1>1. WebInit => NInv
  BY NoticeInit DEF WebInit
<1>2. [Security \/ ChangeOfAddress]_webVars => [Notice!Next]_noticeVars
  BY DEF Security, ChangeOfAddress, webVars, noticeVars
<1>3. NInv /\ [Security \/ ChangeOfAddress]_webVars => NInv'
  BY <1>2, NoticeNext
<1>4. NInv => LoserToldIfCurrent
  BY Zenon DEF NInv, ChangeOK, LoserToldIfCurrent
<1>5. QED
  BY <1>1, <1>3, <1>4, PTL DEF WebSpec

=============================================================================
