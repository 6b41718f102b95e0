-------------------------------- MODULE Totp --------------------------------
(***************************************************************************)
(* The TOTP second factor: totp.Service (src/totp/totp.go) over the        *)
(* in-memory totp.Store (src/memstore/totp.go), for one user.  Every store *)
(* method works on the slots of a single user under one mutex, so users do *)
(* not interact and each store method is one step; the calls of the        *)
(* service are the processes, and they interleave between store calls.     *)
(*                                                                         *)
(* A credential's secret is random and never shared, so the secret is      *)
(* identified with the credential's id.  CodeOf[id, c] is the code that    *)
(* secret id shows for time step c; nothing is assumed of CodeOf, so two   *)
(* time steps or two secrets may show the same digits.                     *)
(***************************************************************************)
EXTENDS Integers, FiniteSets

CONSTANTS Calls,      \* service calls made concurrently
          Ids,        \* credential ids available to uuid.NewV7
          Codes,      \* six-digit codes
          Skew,       \* Config.Skew, in time steps
          MaxStep,    \* bound on the clock
          CodeOf      \* generateCode: [Ids \X Counters -> Codes]

Counters == 0 .. (MaxStep + Skew)

ASSUME TotpAssumption ==
  /\ Skew \in Nat
  /\ MaxStep \in Nat
  /\ Codes # {}
  /\ CodeOf \in [Ids \X Counters -> Codes]

VARIABLES active,   \* the active slot: {} or {credential}
          pending,  \* the pending slot: {} or {credential}
          issued,   \* ids already given to an enrollment
          clock,    \* the current time step
          epoch,    \* how many Unenroll calls have completed
          call      \* the state of every service call

vars == <<active, pending, issued, clock, epoch, call>>

-----------------------------------------------------------------------------
(* State.  `kind' and `born' are history: which method stored the          *)
(* enrollment, and how many Unenroll calls had completed by then.          *)

Kinds == {"enroll", "replace"}

Credential == [id : Ids, last : Counters, kind : Kinds, born : Nat]

PCs == {"idle", "getActive", "getPending", "peek", "match", "matchPending",
        "save", "promote", "done"}

Results == {"none", "ok", "alreadyEnrolled", "notEnrolled", "notVerified",
            "invalid", "replayed", "storeError"}

(* cred is the copy the call has read, counter the time step its code      *)
(* matched.                                                                *)
CallState == [op : {"none", "Enroll", "Confirm", "Validate", "Unenroll"},
              pc : PCs, code : Codes, cred : SUBSET Credential,
              counter : Counters, res : Results]

Idle == [op |-> "none", pc |-> "idle", code |-> CHOOSE k \in Codes : TRUE,
         cred |-> {}, counter |-> 0, res |-> "none"]

Init ==
  /\ active = {}
  /\ pending = {}
  /\ issued = {}
  /\ clock = 0
  /\ epoch = 0
  /\ call = [c \in Calls |-> Idle]

-----------------------------------------------------------------------------
(* Bookkeeping of a call.                                                  *)

Begin(c, op, pc, code) ==
  /\ call[c].pc = "idle"
  /\ call' = [call EXCEPT ![c].op = op, ![c].pc = pc, ![c].code = code]

Return(c, res) ==
  call' = [call EXCEPT ![c].pc = "done", ![c].res = res]

(* An enrollment or removal is one store call: it begins and returns here. *)
ReturnAtOnce(c, op, res) ==
  /\ call[c].pc = "idle"
  /\ call' = [call EXCEPT ![c].op = op, ![c].pc = "done", ![c].res = res]

-----------------------------------------------------------------------------
(* matchCode: the first time step of the window around now whose code      *)
(* equals the submitted one.  Steps before the epoch are skipped.          *)

Window == {n \in Counters : clock - Skew <= n /\ n <= clock + Skew}

Matches(id, code) == {n \in Window : CodeOf[<<id, n>>] = code}

matchCode(id, code, n) ==
  /\ n \in Matches(id, code)
  /\ \A m \in Matches(id, code) : n <= m

-----------------------------------------------------------------------------
(* enroll: a fresh secret and id, then EnrollPending or ReplacePending.    *)

Fresh(id) == id \in Ids \ issued

SetPending(id, kind) ==
  /\ pending' = {[id |-> id, last |-> 0, kind |-> kind, born |-> epoch]}
  /\ issued' = issued \cup {id}

MutEnrollPending(id) == SetPending(id, "enroll")

EnrollPending(id) == active = {} /\ SetPending(id, "enroll")

ReplacePending(id) == SetPending(id, "replace")

Enroll(c) ==
  /\ \E id \in Ids :
       /\ Fresh(id)
       /\ \/ /\ EnrollPending(id)
             /\ ReturnAtOnce(c, "Enroll", "ok")
          \/ /\ active # {}
             /\ ReturnAtOnce(c, "Enroll", "alreadyEnrolled")
             /\ UNCHANGED <<pending, issued>>
  /\ UNCHANGED <<active, clock, epoch>>

ReplaceEnrollment(c) ==
  /\ \E id \in Ids : Fresh(id) /\ ReplacePending(id)
  /\ ReturnAtOnce(c, "Enroll", "ok")
  /\ UNCHANGED <<active, clock, epoch>>

-----------------------------------------------------------------------------
(* ConfirmEnrollment: read the pending enrollment, match the code against  *)
(* its secret, then ask the store to promote exactly that enrollment.      *)

ConfirmEnrollment(c) ==
  /\ \E code \in Codes : Begin(c, "Confirm", "getPending", code)
  /\ UNCHANGED <<active, pending, issued, clock, epoch>>

GetPendingTOTP(c) ==
  /\ call[c].pc = "getPending"
  /\ IF pending = {}
       THEN Return(c, "notEnrolled")
       ELSE call' = [call EXCEPT ![c].pc = "matchPending", ![c].cred = pending]
  /\ UNCHANGED <<active, pending, issued, clock, epoch>>

MatchPending(c) ==
  /\ call[c].pc = "matchPending"
  /\ \E p \in call[c].cred :
       IF Matches(p.id, call[c].code) = {}
         THEN Return(c, "invalid")
         ELSE \E n \in Counters :
                /\ matchCode(p.id, call[c].code, n)
                /\ call' = [call EXCEPT ![c].pc = "promote", ![c].counter = n]
  /\ UNCHANGED <<active, pending, issued, clock, epoch>>

(* The store's ConfirmEnrollment: the promoted credential keeps the higher *)
(* of the matched counter and the replaced credential's.                   *)
MutIsStill(slot, cred) == slot # {}

IsStill(slot, cred) == \E p \in slot : \E q \in cred : p.id = q.id

MutKeptCounter(counter) == counter

KeptCounter(counter) ==
  IF \E a \in active : a.last > counter
    THEN (CHOOSE a \in active : TRUE).last
    ELSE counter

StoreConfirm(c) ==
  /\ call[c].pc = "promote"
  /\ IF IsStill(pending, call[c].cred)
       THEN /\ active' = {[p EXCEPT !.last = KeptCounter(call[c].counter)] :
                            p \in pending}
            /\ pending' = {}
            /\ Return(c, "ok")
       ELSE /\ Return(c, "notEnrolled")
            /\ UNCHANGED <<active, pending>>
  /\ UNCHANGED <<issued, clock, epoch>>

-----------------------------------------------------------------------------
(* Validate: read the active credential, match the code, refuse a counter  *)
(* not above the one read, then SaveTOTP, which re-checks both.            *)

Validate(c) ==
  /\ \E code \in Codes : Begin(c, "Validate", "getActive", code)
  /\ UNCHANGED <<active, pending, issued, clock, epoch>>

GetActiveTOTP(c) ==
  /\ call[c].pc = "getActive"
  /\ call' = [call EXCEPT ![c].pc = IF active = {} THEN "peek" ELSE "match",
                          ![c].cred = active]
  /\ UNCHANGED <<active, pending, issued, clock, epoch>>

(* Nothing active: a second read tells a pending enrollment from none.     *)
PeekPending(c) ==
  /\ call[c].pc = "peek"
  /\ Return(c, IF pending = {} THEN "notEnrolled" ELSE "notVerified")
  /\ UNCHANGED <<active, pending, issued, clock, epoch>>

MatchActive(c) ==
  /\ call[c].pc = "match"
  /\ \E a \in call[c].cred :
       IF Matches(a.id, call[c].code) = {}
         THEN Return(c, "invalid")
         ELSE \E n \in Counters :
                /\ matchCode(a.id, call[c].code, n)
                /\ IF n <= a.last
                     THEN Return(c, "replayed")
                     ELSE call' = [call EXCEPT ![c].pc = "save",
                                               ![c].counter = n]
  /\ UNCHANGED <<active, pending, issued, clock, epoch>>

MutRaisesCounter(counter) == TRUE

RaisesCounter(counter) == \A a \in active : counter > a.last

SaveTOTP(c) ==
  /\ call[c].pc = "save"
  /\ \/ /\ ~IsStill(active, call[c].cred)
        /\ Return(c, "notEnrolled")
        /\ UNCHANGED active
     \/ /\ IsStill(active, call[c].cred)
        /\ ~RaisesCounter(call[c].counter)
        /\ Return(c, "replayed")
        /\ UNCHANGED active
     \/ /\ IsStill(active, call[c].cred)
        /\ RaisesCounter(call[c].counter)
        /\ active' = {[a EXCEPT !.last = call[c].counter] : a \in active}
        /\ Return(c, "ok")
  /\ UNCHANGED <<pending, issued, clock, epoch>>

-----------------------------------------------------------------------------
(* Unenroll: DeleteTOTP empties both slots in one step.                    *)

MutDeleteTOTP ==
  /\ active' = {}
  /\ UNCHANGED pending

DeleteTOTP ==
  /\ active' = {}
  /\ pending' = {}

Unenroll(c) ==
  /\ DeleteTOTP
  /\ ReturnAtOnce(c, "Unenroll", "ok")
  /\ epoch' = epoch + 1
  /\ UNCHANGED <<issued, clock>>

(* A store read or write, or the decryption of a secret, fails: the call   *)
(* returns some error and writes nothing.                                  *)
StoreError(c) ==
  /\ call[c].pc \notin {"idle", "done"}
  /\ Return(c, "storeError")
  /\ UNCHANGED <<active, pending, issued, clock, epoch>>

Tick ==
  /\ clock < MaxStep
  /\ clock' = clock + 1
  /\ UNCHANGED <<active, pending, issued, epoch, call>>

Step(c) ==
  \/ GetPendingTOTP(c)
  \/ MatchPending(c)
  \/ StoreConfirm(c)
  \/ GetActiveTOTP(c)
  \/ PeekPending(c)
  \/ MatchActive(c)
  \/ SaveTOTP(c)
  \/ StoreError(c)

Start(c) ==
  \/ Enroll(c)
  \/ ReplaceEnrollment(c)
  \/ ConfirmEnrollment(c)
  \/ Validate(c)
  \/ Unenroll(c)

Next == Tick \/ \E c \in Calls : Start(c) \/ Step(c)

Spec == Init /\ [][Next]_vars

-----------------------------------------------------------------------------
(* Properties.                                                             *)

(* The slots hold at most one credential each, and every variable has its  *)
(* type.                                                                   *)
TypeOK ==
  /\ active \subseteq Credential
  /\ pending \subseteq Credential
  /\ \A a, b \in active : a = b
  /\ \A p, q \in pending : p = q
  /\ issued \subseteq Ids
  /\ clock \in 0 .. MaxStep
  /\ epoch \in Nat
  /\ call \in [Calls -> CallState]

Accepted(c) == call[c].op \in {"Confirm", "Validate"} /\ call[c].res = "ok"

(* Replay protection (Validate's doc comment: "a code is only accepted     *)
(* once"): no two calls, whether they confirm or validate, are ever both   *)
(* accepted for the same secret at the same time step, however their reads *)
(* and saves interleave.                                                   *)
NoCodeTwice ==
  \A c, d \in Calls :
    c # d /\ Accepted(c) /\ Accepted(d) =>
      \A p \in call[c].cred, q \in call[d].cred :
        p.id = q.id => call[c].counter # call[d].counter

(* Enroll never supersedes a working factor: an enrollment stored by       *)
(* EnrollPending never coexists with an active credential, so confirming   *)
(* it replaces nothing, even when a confirmation of another enrollment     *)
(* runs at the same time.                                                  *)
EnrollDisplacesNothing ==
  \A p \in pending : p.kind = "enroll" => active = {}

(* Unenroll is final: whatever is active or pending was stored after the   *)
(* last Unenroll, so no confirmation in flight across it brings the old    *)
(* factor back.                                                            *)
UnenrollSticks ==
  \A k \in active \cup pending : k.born = epoch

(* Only a proven secret becomes active: the active credential was promoted *)
(* by a confirmation whose code matched that very secret, never by one     *)
(* that matched a pending enrollment superseded in the meantime.           *)
ActiveWasProven ==
  \A a \in active : \E c \in Calls :
    /\ call[c].op = "Confirm"
    /\ call[c].res = "ok"
    /\ \E p \in call[c].cred : p.id = a.id
    /\ CodeOf[<<a.id, call[c].counter>>] = call[c].code

(* The replay clock never runs backwards: while the user stays enrolled,   *)
(* neither a save nor the promotion of a replacement lowers                *)
(* LastUsedCounter.                                                        *)
CounterNeverLowered ==
  [][\A a \in active, b \in active' : a.last <= b.last]_active

=============================================================================
