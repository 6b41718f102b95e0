----------------------------- MODULE TotpProofs -----------------------------
(***************************************************************************)
(* Proofs about Totp, for any number of calls, enrollments and time steps  *)
(* and for any code function.                                              *)
(***************************************************************************)
EXTENDS Totp, TLAPS

(* A call that returns any of the results keeps the type of call.          *)
LEMMA ReturnType ==
  ASSUME NEW c \in Calls, NEW res \in Results, Return(c, res),
         call \in [Calls -> CallState]
  PROVE  call' \in [Calls -> CallState]
<1>1. call' = [call EXCEPT ![c] = [call[c] EXCEPT !.pc = "done", !.res = res]]
  BY Zenon DEF Return
<1>2. [call[c] EXCEPT !.pc = "done", !.res = res] \in CallState
  BY Zenon DEF CallState, PCs
<1>3. QED
  BY <1>1, <1>2

(* What Return leaves of the call that returns, and of the others.         *)
LEMMA ReturnEffect ==
  ASSUME NEW c \in Calls, NEW res, Return(c, res),
         call \in [Calls -> CallState]
  PROVE  /\ call'[c].pc = "done" /\ call'[c].res = res
         /\ call'[c].op = call[c].op /\ call'[c].code = call[c].code
         /\ call'[c].cred = call[c].cred /\ call'[c].counter = call[c].counter
         /\ \A d \in Calls : d # c => call'[d] = call[d]
BY DEF Return, CallState

(* Each action keeps every variable in its type.                           *)
LEMMA TypeStep == TypeOK /\ [Next]_vars => TypeOK'
<1> SUFFICES ASSUME TypeOK, [Next]_vars
             PROVE  TypeOK'
  OBVIOUS
<1> USE DEF TypeOK, Credential, CallState, PCs, Results, Kinds
<1>1. CASE UNCHANGED vars
  BY <1>1 DEF vars
<1>2. CASE Tick
  BY <1>2, TotpAssumption DEF Tick
<1>3. ASSUME NEW c \in Calls, Enroll(c)
      PROVE  TypeOK'
  <2>1. call' \in [Calls -> CallState]
    BY <1>3 DEF Enroll, ReturnAtOnce
  <2>2. QED
    BY <1>3, <2>1, TotpAssumption
       DEF Enroll, EnrollPending, SetPending, Fresh, Counters
<1>4. ASSUME NEW c \in Calls, ReplaceEnrollment(c)
      PROVE  TypeOK'
  <2>1. call' \in [Calls -> CallState]
    BY <1>4 DEF ReplaceEnrollment, ReturnAtOnce
  <2>2. QED
    BY <1>4, <2>1, TotpAssumption
       DEF ReplaceEnrollment, ReplacePending, SetPending, Fresh, Counters
<1>5. ASSUME NEW c \in Calls, ConfirmEnrollment(c)
      PROVE  TypeOK'
  BY <1>5 DEF ConfirmEnrollment, Begin
<1>6. ASSUME NEW c \in Calls, Validate(c)
      PROVE  TypeOK'
  BY <1>6 DEF Validate, Begin
<1>7. ASSUME NEW c \in Calls, Unenroll(c)
      PROVE  TypeOK'
  BY <1>7 DEF Unenroll, DeleteTOTP, ReturnAtOnce
<1>8. ASSUME NEW c \in Calls, GetPendingTOTP(c)
      PROVE  TypeOK'
  BY <1>8 DEF GetPendingTOTP, Return
<1>9. ASSUME NEW c \in Calls, MatchPending(c)
      PROVE  TypeOK'
  BY <1>9 DEF MatchPending, Return
<1>10. ASSUME NEW c \in Calls, StoreConfirm(c)
       PROVE  TypeOK'
  <2>1. call' \in [Calls -> CallState]
    BY <1>10 DEF StoreConfirm, Return
  <2>2. KeptCounter(call[c].counter) \in Counters
    BY DEF KeptCounter
  <2>3. \A p \in pending :
          [p EXCEPT !.last = KeptCounter(call[c].counter)] \in Credential
    BY <2>2
  <2>4. CASE IsStill(pending, call[c].cred)
    <3>1. active' = {[p EXCEPT !.last = KeptCounter(call[c].counter)] :
                       p \in pending}
      BY <1>10, <2>4 DEF StoreConfirm
    <3>2. active' \subseteq Credential
      BY <2>3, <3>1
    <3>3. \A a, b \in active' : a = b
      BY <3>1
    <3>4. QED
      BY <1>10, <2>1, <2>4, <3>2, <3>3 DEF StoreConfirm
  <2>5. CASE ~IsStill(pending, call[c].cred)
    BY <1>10, <2>1, <2>5 DEF StoreConfirm
  <2>6. QED
    BY <2>4, <2>5
<1>11. ASSUME NEW c \in Calls, GetActiveTOTP(c)
       PROVE  TypeOK'
  <2>1. call' \in [Calls -> CallState]
    <3>1. PICK pc \in PCs :
            call' = [call EXCEPT ![c] = [call[c] EXCEPT !.pc = pc, !.cred = active]]
      BY <1>11, Zenon DEF GetActiveTOTP
    <3>2. [call[c] EXCEPT !.pc = pc, !.cred = active] \in CallState
      <4>1. active \in SUBSET Credential
        OBVIOUS
      <4> HIDE DEF Credential, PCs, Results
      <4>2. QED
        BY <4>1, Zenon
    <3> HIDE DEF CallState
    <3>3. QED
      BY <3>1, <3>2
  <2>2. QED
    BY <1>11, <2>1, Zenon DEF GetActiveTOTP
<1>12. ASSUME NEW c \in Calls, PeekPending(c)
       PROVE  TypeOK'
  <2>1. call' \in [Calls -> CallState]
    BY <1>12, ReturnType DEF PeekPending
  <2>2. QED
    BY <1>12, <2>1 DEF PeekPending
<1>13. ASSUME NEW c \in Calls, MatchActive(c)
       PROVE  TypeOK'
  BY <1>13 DEF MatchActive, Return
<1>14. ASSUME NEW c \in Calls, SaveTOTP(c)
       PROVE  TypeOK'
  <2>1. call' \in [Calls -> CallState]
    BY <1>14 DEF SaveTOTP, Return
  <2>2. QED
    <3>1. CASE active' = active
      BY <1>14, <2>1, <3>1 DEF SaveTOTP
    <3>2. CASE active' = {[a EXCEPT !.last = call[c].counter] : a \in active}
      <4>1. \A a \in active : [a EXCEPT !.last = call[c].counter] \in Credential
        OBVIOUS
      <4>2. QED
        BY <1>14, <2>1, <3>2, <4>1 DEF SaveTOTP
    <3>3. QED
      BY <1>14, <3>1, <3>2 DEF SaveTOTP
<1>15. ASSUME NEW c \in Calls, StoreError(c)
       PROVE  TypeOK'
  <2>1. call' \in [Calls -> CallState]
    BY <1>15, ReturnType DEF StoreError
  <2>2. QED
    BY <1>15, <2>1 DEF StoreError
<1>16. QED
  BY <1>1, <1>2, <1>3, <1>4, <1>5, <1>6, <1>7, <1>8, <1>9, <1>10, <1>11, Zenon,
     <1>12, <1>13, <1>14, <1>15
     DEF Next, Start, Step

(* Every variable keeps its type and each slot holds at most one           *)
(* credential, whichever store call comes next.                            *)
THEOREM TypeCorrect == Spec => []TypeOK
<1>1. Init => TypeOK
  BY TotpAssumption DEF Init, TypeOK, Idle, CallState, PCs, Results, Counters
<1>2. QED
  BY <1>1, TypeStep, PTL DEF Spec

-----------------------------------------------------------------------------
(* The inductive invariant.  A call has a result only once it has          *)
(* returned, and works on a copy of at most one credential.                *)
CallsWellFormed ==
  \A c \in Calls :
    /\ call[c].pc # "done" => call[c].res = "none"
    /\ call[c].pc \in {"getPending", "matchPending", "promote"} =>
         call[c].op = "Confirm"
    /\ \A p, q \in call[c].cred : p = q

(* Every id in a slot or in a copy was issued, so an id that is issued now *)
(* is new everywhere.                                                      *)
IdsIssued ==
  /\ \A k \in active \cup pending : k.id \in issued
  /\ \A c \in Calls : \A k \in call[c].cred : k.id \in issued

(* A call about to promote or to save has matched its code against the     *)
(* secret of its copy.                                                     *)
MatchedBeforeWrite ==
  \A c \in Calls : call[c].pc = "promote" =>
    \A k \in call[c].cred : CodeOf[<<k.id, call[c].counter>>] = call[c].code

(* An id leaves the pending slot for good: what is pending is not active   *)
(* and has never been accepted by any call.                                *)
PendingIsNew ==
  \A p \in pending :
    /\ \A a \in active : a.id # p.id
    /\ \A c \in Calls : Accepted(c) => \A k \in call[c].cred : k.id # p.id

(* LastUsedCounter dominates every counter accepted for the active secret. *)
CounterCovers ==
  \A a \in active : \A c \in Calls : Accepted(c) =>
    \A k \in call[c].cred : k.id = a.id => call[c].counter <= a.last

IInv ==
  /\ TypeOK
  /\ CallsWellFormed
  /\ IdsIssued
  /\ MatchedBeforeWrite
  /\ PendingIsNew
  /\ CounterCovers
  /\ NoCodeTwice
  /\ EnrollDisplacesNothing
  /\ UnenrollSticks
  /\ ActiveWasProven

(* A step that changes no slot, issues no id and accepts no code keeps the *)
(* invariant, provided the call works on a copy of a slot and is ready to  *)
(* promote only after a match.                                             *)
LEMMA QuietStep ==
  ASSUME IInv, TypeOK', NEW c \in Calls, NEW s \in CallState,
         call[c].pc # "done",
         call' = [call EXCEPT ![c] = s],
         UNCHANGED <<active, pending, issued, epoch>>,
         s.res # "ok",
         s.pc # "done" => s.res = "none",
         s.pc \in {"getPending", "matchPending", "promote"} => s.op = "Confirm",
         s.cred = call[c].cred \/ s.cred = active \/ s.cred = pending,
         s.pc = "promote" =>
           \A k \in s.cred : CodeOf[<<k.id, s.counter>>] = s.code
  PROVE  IInv'
<1> USE DEF IInv
<1>1. call'[c] = s /\ \A d \in Calls : d # c => call'[d] = call[d]
  BY DEF TypeOK
<1>2. \A d \in Calls : Accepted(d)' <=> Accepted(d) /\ d # c
  BY <1>1 DEF Accepted, CallsWellFormed
<1>3. CallsWellFormed'
  BY <1>1 DEF CallsWellFormed, TypeOK
<1>4. IdsIssued'
  BY <1>1 DEF IdsIssued
<1>5. MatchedBeforeWrite'
  BY <1>1 DEF MatchedBeforeWrite
<1>6. PendingIsNew'
  BY <1>1, <1>2 DEF PendingIsNew
<1>7. CounterCovers'
  BY <1>1, <1>2 DEF CounterCovers
<1>8. NoCodeTwice'
  BY <1>1, <1>2 DEF NoCodeTwice
<1>9. EnrollDisplacesNothing' /\ UnenrollSticks'
  BY DEF EnrollDisplacesNothing, UnenrollSticks
<1>10. ActiveWasProven'
  <2> SUFFICES ASSUME NEW a \in active
               PROVE  \E d \in Calls :
                        /\ call'[d].op = "Confirm"
                        /\ call'[d].res = "ok"
                        /\ \E p \in call'[d].cred : p.id = a.id
                        /\ CodeOf[<<a.id, call'[d].counter>>] = call'[d].code
    BY DEF ActiveWasProven
  <2>1. PICK d \in Calls :
          /\ call[d].op = "Confirm"
          /\ call[d].res = "ok"
          /\ \E p \in call[d].cred : p.id = a.id
          /\ CodeOf[<<a.id, call[d].counter>>] = call[d].code
    BY DEF ActiveWasProven
  <2>2. call'[d] = call[d]
    BY <1>1, <2>1 DEF CallsWellFormed
  <2>3. QED
    BY <2>1, <2>2, Zenon
<1>11. QED
  BY <1>3, <1>4, <1>5, <1>6, <1>7, <1>8, <1>9, <1>10

(* The invariant holds initially.                                          *)
LEMMA IInvInit == Init => IInv
<1> SUFFICES ASSUME Init PROVE IInv
  OBVIOUS
<1>1. TypeOK
  BY TotpAssumption DEF Init, TypeOK, Idle, CallState, PCs, Results, Counters
<1>2. QED
  BY <1>1 DEF Init, Idle, IInv, CallsWellFormed, IdsIssued, MatchedBeforeWrite,
              PendingIsNew, CounterCovers, NoCodeTwice, Accepted,
              EnrollDisplacesNothing, UnenrollSticks, ActiveWasProven

(* Storing a fresh pending enrollment keeps the invariant; one stored by   *)
(* EnrollPending needs an empty active slot.                               *)
LEMMA StoresPending ==
  ASSUME IInv, TypeOK', NEW c \in Calls, NEW id \in Ids, NEW kind \in Kinds,
         Fresh(id), SetPending(id, kind), kind = "enroll" => active = {},
         ReturnAtOnce(c, "Enroll", "ok"), UNCHANGED <<active, epoch>>
  PROVE  IInv'
<1> DEFINE new == [id |-> id, last |-> 0, kind |-> kind, born |-> epoch]
<1>1. pending' = {new} /\ issued' = issued \cup {id}
  BY DEF SetPending
<1>2. new.id = id /\ new.kind = kind /\ new.born = epoch
  OBVIOUS
<1> HIDE DEF new
<1>3. id \notin issued
  BY DEF Fresh
<1>4. /\ call'[c].cred = call[c].cred /\ call'[c].op = "Enroll"
      /\ call'[c].pc = "done" /\ call[c].res = "none"
      /\ \A d \in Calls : d # c => call'[d] = call[d]
  BY DEF ReturnAtOnce, IInv, TypeOK, CallState, CallsWellFormed
<1>5. \A d \in Calls : Accepted(d)' => Accepted(d) /\ d # c
  BY <1>4 DEF Accepted
<1>6. CallsWellFormed' /\ IdsIssued' /\ MatchedBeforeWrite'
  BY <1>1, <1>2, <1>4 DEF IInv, CallsWellFormed, IdsIssued, MatchedBeforeWrite
<1>7. PendingIsNew'
  BY <1>1, <1>2, <1>3, <1>4, <1>5 DEF IInv, PendingIsNew, IdsIssued
<1>8. CounterCovers'
  BY <1>4, <1>5 DEF IInv, CounterCovers
<1>9. NoCodeTwice'
  BY <1>4, <1>5 DEF IInv, NoCodeTwice
<1>10. EnrollDisplacesNothing' /\ UnenrollSticks'
  BY <1>1, <1>2 DEF IInv, EnrollDisplacesNothing, UnenrollSticks
<1>11. ActiveWasProven'
  <2> SUFFICES ASSUME NEW a \in active
               PROVE  \E d \in Calls :
                        /\ call'[d].op = "Confirm"
                        /\ call'[d].res = "ok"
                        /\ \E p \in call'[d].cred : p.id = a.id
                        /\ CodeOf[<<a.id, call'[d].counter>>] = call'[d].code
    BY DEF ActiveWasProven
  <2>1. PICK d \in Calls :
          /\ call[d].op = "Confirm"
          /\ call[d].res = "ok"
          /\ \E p \in call[d].cred : p.id = a.id
          /\ CodeOf[<<a.id, call[d].counter>>] = call[d].code
    BY DEF IInv, ActiveWasProven
  <2>2. QED
    BY <1>4, <2>1
<1>12. QED
  BY <1>6, <1>7, <1>8, <1>9, <1>10, <1>11 DEF IInv

(* Every step keeps the invariant.                                         *)
LEMMA IInvStep == IInv /\ [Next]_vars => IInv'
<1> SUFFICES ASSUME IInv, [Next]_vars
             PROVE  IInv'
  OBVIOUS
<1>1. TypeOK'
  BY TypeStep DEF IInv
<1>2. CASE UNCHANGED vars \/ Tick
  BY <1>1, <1>2
     DEF vars, Tick, IInv, CallsWellFormed, IdsIssued, MatchedBeforeWrite,
         PendingIsNew, CounterCovers, NoCodeTwice, Accepted,
         EnrollDisplacesNothing, UnenrollSticks, ActiveWasProven
<1>3. ASSUME NEW c \in Calls, Start(c)
      PROVE  IInv'
  <2>1. CASE Enroll(c)
    <3>1. PICK id \in Ids :
            /\ Fresh(id)
            /\ \/ EnrollPending(id) /\ ReturnAtOnce(c, "Enroll", "ok")
               \/ /\ ReturnAtOnce(c, "Enroll", "alreadyEnrolled")
                  /\ UNCHANGED <<pending, issued>>
      BY <2>1 DEF Enroll
    <3>2. CASE EnrollPending(id) /\ ReturnAtOnce(c, "Enroll", "ok")
      <4>1. /\ SetPending(id, "enroll") /\ active = {}
            /\ UNCHANGED <<active, epoch>> /\ "enroll" \in Kinds
        BY <2>1, <3>2 DEF EnrollPending, Enroll, Kinds
      <4>2. QED
        BY <1>1, <3>1, <3>2, <4>1, StoresPending
    <3>3. CASE /\ ReturnAtOnce(c, "Enroll", "alreadyEnrolled")
               /\ UNCHANGED <<pending, issued>>
      <4> DEFINE s == [call[c] EXCEPT !.op = "Enroll", !.pc = "done",
                                      !.res = "alreadyEnrolled"]
      <4>1. /\ s \in CallState /\ s.res = "alreadyEnrolled" /\ s.pc = "done"
            /\ s.cred = call[c].cred
        BY ZenonT(30) DEF IInv, TypeOK, CallState, PCs, Results
      <4>2. call' = [call EXCEPT ![c] = s] /\ call[c].pc # "done"
        BY <3>3, Zenon DEF ReturnAtOnce
      <4>3. UNCHANGED <<active, pending, issued, epoch>>
        BY <2>1, <3>3 DEF Enroll
      <4> HIDE DEF s
      <4>4. QED
        BY <1>1, <4>1, <4>2, <4>3, QuietStep, Zenon
    <3>4. QED
      BY <3>1, <3>2, <3>3
  <2>2. CASE ReplaceEnrollment(c)
    <3>1. PICK id \in Ids : Fresh(id) /\ SetPending(id, "replace")
      BY <2>2 DEF ReplaceEnrollment, ReplacePending
    <3>2. /\ UNCHANGED <<active, epoch>> /\ "replace" \in Kinds
          /\ ReturnAtOnce(c, "Enroll", "ok")
      BY <2>2 DEF ReplaceEnrollment, Kinds
    <3>3. QED
      BY <1>1, <3>1, <3>2, StoresPending
  <2>3. CASE ConfirmEnrollment(c) \/ Validate(c)
    <3>1. PICK code \in Codes, op \in {"Confirm", "Validate"},
               pc \in {"getPending", "getActive"} :
            /\ pc = "getPending" => op = "Confirm"
            /\ call' = [call EXCEPT ![c] = [call[c] EXCEPT !.op = op, !.pc = pc,
                                                           !.code = code]]
      BY <2>3, ZenonT(40) DEF ConfirmEnrollment, Validate, Begin
    <3>2. [call[c] EXCEPT !.op = op, !.pc = pc, !.code = code] \in CallState
      BY Zenon DEF IInv, TypeOK, CallState, PCs
    <3> DEFINE s == [call[c] EXCEPT !.op = op, !.pc = pc, !.code = code]
    <3>3. call[c].pc = "idle" /\ call[c].res = "none"
      BY <2>3 DEF ConfirmEnrollment, Validate, Begin, IInv, CallsWellFormed
    <3>4. s.res = "none" /\ s.pc = pc /\ s.op = op /\ s.cred = call[c].cred
      BY <3>3 DEF IInv, TypeOK, CallState
    <3>5. UNCHANGED <<active, pending, issued, epoch>>
      BY <2>3 DEF ConfirmEnrollment, Validate
    <3> HIDE DEF s
    <3>6. s \in CallState /\ call' = [call EXCEPT ![c] = s]
      BY <3>1, <3>2 DEF s
    <3>7. QED
      BY <1>1, <3>1, <3>3, <3>4, <3>5, <3>6, QuietStep, Zenon
  <2>4. CASE Unenroll(c)
    <3>1. active' = {} /\ pending' = {} /\ issued' = issued
      BY <2>4 DEF Unenroll, DeleteTOTP
    <3>2. ReturnAtOnce(c, "Unenroll", "ok")
      BY <2>4 DEF Unenroll
    <3>3. /\ call'[c].cred = call[c].cred /\ call'[c].op = "Unenroll"
          /\ call'[c].pc = "done"
          /\ \A d \in Calls : d # c => call'[d] = call[d]
      BY <3>2 DEF ReturnAtOnce, IInv, TypeOK, CallState
    <3>4. CallsWellFormed' /\ IdsIssued' /\ MatchedBeforeWrite'
      BY <3>1, <3>3 DEF IInv, CallsWellFormed, IdsIssued, MatchedBeforeWrite
    <3>5. NoCodeTwice'
      BY <3>3 DEF IInv, NoCodeTwice, Accepted
    <3>6. QED
      BY <1>1, <3>1, <3>4, <3>5
         DEF IInv, PendingIsNew, CounterCovers, EnrollDisplacesNothing,
             UnenrollSticks, ActiveWasProven
  <2>5. QED
    BY <1>3, <2>1, <2>2, <2>3, <2>4 DEF Start
<1>4. ASSUME NEW c \in Calls, Step(c)
      PROVE  IInv'
  <2>1. call[c].pc \notin {"idle", "done"} /\ call[c].res = "none"
    BY <1>4 DEF Step, GetPendingTOTP, MatchPending, StoreConfirm, GetActiveTOTP,
                PeekPending, MatchActive, SaveTOTP, StoreError, IInv,
                CallsWellFormed
  <2>2. ASSUME NEW res \in Results, res # "ok", Return(c, res),
               UNCHANGED <<active, pending, issued, epoch>>
        PROVE  IInv'
    <3> DEFINE s == [call[c] EXCEPT !.pc = "done", !.res = res]
    <3>1. s \in CallState /\ s.res = res /\ s.pc = "done" /\ s.cred = call[c].cred
      BY Zenon DEF IInv, TypeOK, CallState, PCs
    <3>2. call' = [call EXCEPT ![c] = s]
      BY <2>2, Zenon DEF Return
    <3> HIDE DEF s
    <3>3. QED
      BY <1>1, <2>1, <2>2, <3>1, <3>2, QuietStep, Zenon
  <2>3. ASSUME NEW pc \in {"matchPending", "peek", "match"},
               NEW slot \in {active, pending},
               call' = [call EXCEPT ![c] = [call[c] EXCEPT !.pc = pc,
                                                           !.cred = slot]],
               pc = "matchPending" => call[c].op = "Confirm",
               UNCHANGED <<active, pending, issued, epoch>>
        PROVE  IInv'
    <3> DEFINE s == [call[c] EXCEPT !.pc = pc, !.cred = slot]
    <3>1. /\ s \in CallState /\ s.res = "none" /\ s.pc = pc /\ s.cred = slot
          /\ s.pc # "promote" /\ s.pc # "getPending" /\ s.op = call[c].op
      BY <2>1, ZenonT(30) DEF IInv, TypeOK, CallState, PCs
    <3> HIDE DEF s
    <3>2. call' = [call EXCEPT ![c] = s]
      BY <2>3 DEF s
    <3>3. QED
      BY <1>1, <2>1, <2>3, <3>1, <3>2, QuietStep, Zenon
  <2>4. ASSUME NEW n \in Counters, NEW pc \in {"save", "promote"},
               call' = [call EXCEPT ![c] = [call[c] EXCEPT !.pc = pc,
                                                           !.counter = n]],
               \A k \in call[c].cred : CodeOf[<<k.id, n>>] = call[c].code,
               pc = "promote" => call[c].op = "Confirm",
               UNCHANGED <<active, pending, issued, epoch>>
        PROVE  IInv'
    <3> DEFINE s == [call[c] EXCEPT !.pc = pc, !.counter = n]
    <3>1. /\ s \in CallState /\ s.res = "none" /\ s.cred = call[c].cred
          /\ s.code = call[c].code /\ s.counter = n
          /\ s.op = call[c].op /\ s.pc = pc
      BY <2>1, Zenon DEF IInv, TypeOK, CallState, PCs
    <3> HIDE DEF s
    <3>2. call' = [call EXCEPT ![c] = s]
      BY <2>4 DEF s
    <3>3. QED
      BY <1>1, <2>1, <2>4, <3>1, <3>2, QuietStep, Zenon
  <2>5. CASE GetPendingTOTP(c)
    BY <2>2, <2>3, <2>5, Zenon DEF GetPendingTOTP, Results, IInv, CallsWellFormed
  <2>6. CASE GetActiveTOTP(c)
    <3>1. PICK pc \in {"peek", "match"} :
            call' = [call EXCEPT ![c] = [call[c] EXCEPT !.pc = pc,
                                                        !.cred = active]]
      BY <2>6, Zenon DEF GetActiveTOTP
    <3>2. QED
      BY <2>3, <2>6, <3>1, Zenon DEF GetActiveTOTP
  <2>7. CASE PeekPending(c)
    BY <2>2, <2>7 DEF PeekPending, Results
  <2>8. CASE StoreError(c)
    BY <2>2, <2>8 DEF StoreError, Results
  <2>9. CASE MatchPending(c)
    <3>1. PICK p \in call[c].cred :
            IF Matches(p.id, call[c].code) = {}
              THEN Return(c, "invalid")
              ELSE \E n \in Counters :
                     /\ matchCode(p.id, call[c].code, n)
                     /\ call' = [call EXCEPT ![c].pc = "promote",
                                             ![c].counter = n]
      BY <2>9, ZenonT(40) DEF MatchPending
    <3>2. CASE Return(c, "invalid")
      BY <2>2, <2>9, <3>2 DEF MatchPending, Results
    <3>3. ASSUME NEW n \in Counters, matchCode(p.id, call[c].code, n),
                 call' = [call EXCEPT ![c].pc = "promote", ![c].counter = n]
          PROVE  IInv'
      <4>1. \A k \in call[c].cred : CodeOf[<<k.id, n>>] = call[c].code
        BY <3>3 DEF matchCode, Matches, IInv, CallsWellFormed
      <4>2. call[c].op = "Confirm"
        BY <2>9 DEF MatchPending, IInv, CallsWellFormed
      <4>3. QED
        BY <2>4, <2>9, <3>3, <4>1, <4>2, ZenonT(40) DEF MatchPending
    <3>4. QED
      BY <3>1, <3>2, <3>3
  <2>10. CASE MatchActive(c)
    <3>1. PICK a \in call[c].cred :
            IF Matches(a.id, call[c].code) = {}
              THEN Return(c, "invalid")
              ELSE \E n \in Counters :
                     /\ matchCode(a.id, call[c].code, n)
                     /\ IF n <= a.last
                          THEN Return(c, "replayed")
                          ELSE call' = [call EXCEPT ![c].pc = "save",
                                                    ![c].counter = n]
      BY <2>10 DEF MatchActive
    <3>2. CASE Return(c, "invalid") \/ Return(c, "replayed")
      BY <2>2, <2>10, <3>2 DEF MatchActive, Results
    <3>3. ASSUME NEW n \in Counters, matchCode(a.id, call[c].code, n),
                 call' = [call EXCEPT ![c].pc = "save", ![c].counter = n]
          PROVE  IInv'
      <4>1. \A k \in call[c].cred : CodeOf[<<k.id, n>>] = call[c].code
        BY <3>3 DEF matchCode, Matches, IInv, CallsWellFormed
      <4>2. QED
        BY <2>4, <2>10, <3>3, <4>1, Zenon DEF MatchActive
    <3>4. QED
      BY <3>1, <3>2, <3>3
  <2>11. CASE StoreConfirm(c)
    <3>1. CASE ~IsStill(pending, call[c].cred)
      BY <2>2, <2>11, <3>1 DEF StoreConfirm, Results
    <3>2. CASE IsStill(pending, call[c].cred)
      <4>1. PICK p \in pending, q \in call[c].cred : p.id = q.id
        BY <3>2 DEF IsStill
      <4>2. /\ pending = {p} /\ call[c].cred = {q}
            /\ p \in Credential /\ q \in Credential
        BY <4>1 DEF IInv, TypeOK, CallState, CallsWellFormed
      <4>3. PICK b \in active' :
              /\ active' = {b} /\ b.id = p.id /\ b.born = p.born
              /\ b.last = KeptCounter(call[c].counter)
        <5> DEFINE b0 == [p EXCEPT !.last = KeptCounter(call[c].counter)]
        <5>1. active' = {[k EXCEPT !.last = KeptCounter(call[c].counter)] :
                           k \in pending}
          BY <2>11, <3>2 DEF StoreConfirm
        <5>2. active' = {b0}
          BY <4>2, <5>1
        <5>3. b0.id = p.id /\ b0.born = p.born
              /\ b0.last = KeptCounter(call[c].counter)
          BY <4>2 DEF Credential
        <5> HIDE DEF b0
        <5>4. QED
          BY <5>2, <5>3
      <4>4. pending' = {} /\ issued' = issued /\ epoch' = epoch
        BY <2>11, <3>2 DEF StoreConfirm
      <4>5. call[c].counter <= b.last
        BY <4>3 DEF KeptCounter, IInv, TypeOK, CallState, Credential, Counters
      <4>6. /\ call'[c].cred = {q} /\ call'[c].op = "Confirm"
            /\ call'[c].res = "ok" /\ call'[c].counter = call[c].counter
            /\ call'[c].code = call[c].code /\ call'[c].pc = "done"
            /\ \A d \in Calls : d # c => call'[d] = call[d]
        <5>1. call[c].op = "Confirm" /\ Return(c, "ok")
          BY <2>11, <3>2 DEF StoreConfirm, IInv, CallsWellFormed
        <5>2. QED
          BY <4>2, <5>1, ReturnEffect DEF IInv, TypeOK
      <4>7. \A d \in Calls : d # c => (Accepted(d)' <=> Accepted(d))
        BY <4>6 DEF Accepted
      <4>8. CallsWellFormed'
        BY <4>6 DEF IInv, CallsWellFormed
      <4>9. IdsIssued' /\ MatchedBeforeWrite' /\ PendingIsNew'
        BY <4>1, <4>2, <4>3, <4>4, <4>6
           DEF IInv, IdsIssued, MatchedBeforeWrite, PendingIsNew
      <4>10. CounterCovers'
        BY <4>1, <4>2, <4>3, <4>5, <4>6, <4>7
           DEF IInv, CounterCovers, PendingIsNew
      <4>11. NoCodeTwice'
        BY <4>1, <4>2, <4>6, <4>7 DEF IInv, NoCodeTwice, PendingIsNew
      <4>12. EnrollDisplacesNothing' /\ UnenrollSticks'
        BY <4>2, <4>3, <4>4 DEF IInv, EnrollDisplacesNothing, UnenrollSticks
      <4>13. ActiveWasProven'
        <5>1. CodeOf[<<q.id, call[c].counter>>] = call[c].code
          BY <2>11, <4>1 DEF StoreConfirm, IInv, MatchedBeforeWrite
        <5>2. QED
          BY <4>1, <4>3, <4>6, <5>1 DEF ActiveWasProven
      <4>14. QED
        BY <1>1, <4>8, <4>9, <4>10, <4>11, <4>12, <4>13 DEF IInv
    <3>3. QED
      BY <3>1, <3>2
  <2>12. CASE SaveTOTP(c)
    <3>1. CASE ~IsStill(active, call[c].cred) \/ ~RaisesCounter(call[c].counter)
      <4>1. UNCHANGED <<active, pending, issued, epoch>>
        BY <2>12, <3>1 DEF SaveTOTP
      <4>2. Return(c, "notEnrolled") \/ Return(c, "replayed")
        BY <2>12, <3>1 DEF SaveTOTP
      <4>3. QED
        BY <2>2, <4>1, <4>2 DEF Results
    <3>2. CASE IsStill(active, call[c].cred) /\ RaisesCounter(call[c].counter)
      <4>1. PICK a \in active, q \in call[c].cred : a.id = q.id
        BY <3>2 DEF IsStill
      <4>2. /\ active = {a} /\ call[c].cred = {q}
            /\ a \in Credential /\ q \in Credential
        BY <4>1 DEF IInv, TypeOK, CallState, CallsWellFormed
      <4>3. PICK b \in active' :
              /\ active' = {b} /\ b.id = a.id /\ b.born = a.born
              /\ b.last = call[c].counter
        <5> DEFINE b0 == [a EXCEPT !.last = call[c].counter]
        <5>1. active' = {[k EXCEPT !.last = call[c].counter] : k \in active}
          BY <2>12, <3>2 DEF SaveTOTP
        <5>2. active' = {b0}
          BY <4>2, <5>1
        <5>3. b0.id = a.id /\ b0.born = a.born /\ b0.last = call[c].counter
          BY <4>2 DEF Credential
        <5> HIDE DEF b0
        <5>4. QED
          BY <5>2, <5>3
      <4>4. UNCHANGED <<pending, issued, epoch>> /\ a.last < b.last
        BY <2>12, <3>2, <4>2, <4>3
           DEF SaveTOTP, RaisesCounter, IInv, TypeOK, CallState, Credential,
               Counters
      <4>5. /\ call'[c].cred = {q} /\ call'[c].op = call[c].op
            /\ call'[c].res = "ok" /\ call'[c].counter = b.last
            /\ call'[c].code = call[c].code /\ call'[c].pc = "done"
            /\ \A d \in Calls : d # c => call'[d] = call[d]
        <5>1. Return(c, "ok")
          BY <2>12, <3>2 DEF SaveTOTP
        <5>2. QED
          BY <4>2, <4>3, <5>1, ReturnEffect DEF IInv, TypeOK
      <4>6. \A d \in Calls : d # c => (Accepted(d)' <=> Accepted(d))
        BY <4>5 DEF Accepted
      <4>7. CallsWellFormed'
        BY <4>5 DEF IInv, CallsWellFormed
      <4>8. IdsIssued' /\ MatchedBeforeWrite' /\ PendingIsNew'
        BY <4>1, <4>2, <4>3, <4>4, <4>5, <4>6
           DEF IInv, IdsIssued, MatchedBeforeWrite, PendingIsNew
      <4>9. \A d \in Calls : d # c /\ Accepted(d) =>
              \A k \in call[d].cred : k.id = a.id => call[d].counter < b.last
        <5> SUFFICES ASSUME NEW d \in Calls, Accepted(d),
                            NEW k \in call[d].cred, k.id = a.id
                     PROVE  call[d].counter < b.last
          OBVIOUS
        <5>1. call[d].counter <= a.last
          BY DEF IInv, CounterCovers
        <5>2. call[d].counter \in Int /\ a.last \in Int /\ call[c].counter \in Int
          BY <4>2, TotpAssumption DEF IInv, TypeOK, CallState, Credential, Counters
        <5>3. QED
          BY <4>3, <4>4, <5>1, <5>2
      <4>10. CounterCovers'
        <5> SUFFICES ASSUME NEW d \in Calls, Accepted(d)',
                            NEW k \in call'[d].cred, k.id = b.id
                     PROVE  call'[d].counter <= b.last
          BY <4>3 DEF CounterCovers
        <5>1. call'[d].counter \in Int /\ b.last \in Int
          BY <1>1, <4>3, TotpAssumption
             DEF TypeOK, CallState, Credential, Counters
        <5>2. QED
          BY <4>3, <4>5, <4>6, <4>9, <5>1
      <4>11. NoCodeTwice'
        <5>1. \A d \in Calls : d # c /\ Accepted(d)' =>
                \A k \in call'[d].cred :
                  k.id = q.id => call'[d].counter # call'[c].counter
          <6> SUFFICES ASSUME NEW d \in Calls, d # c, Accepted(d)',
                              NEW k \in call'[d].cred, k.id = q.id
                       PROVE  call'[d].counter # call'[c].counter
            OBVIOUS
          <6>1. call'[d].counter \in Int /\ b.last \in Int
            BY <1>1, <4>3, TotpAssumption
               DEF TypeOK, CallState, Credential, Counters
          <6>2. QED
            BY <4>1, <4>3, <4>5, <4>6, <4>9, <6>1
        <5>2. QED
          BY <4>5, <4>6, <5>1 DEF IInv, NoCodeTwice
      <4>12. EnrollDisplacesNothing' /\ UnenrollSticks'
        BY <4>2, <4>3, <4>4 DEF IInv, EnrollDisplacesNothing, UnenrollSticks
      <4>13. ActiveWasProven'
        <5>1. PICK d \in Calls :
                /\ call[d].op = "Confirm"
                /\ call[d].res = "ok"
                /\ \E p \in call[d].cred : p.id = a.id
                /\ CodeOf[<<a.id, call[d].counter>>] = call[d].code
          BY DEF IInv, ActiveWasProven
        <5>2. call'[d] = call[d]
          BY <2>1, <4>5, <5>1
        <5>3. QED
          BY <4>3, <5>1, <5>2 DEF ActiveWasProven
      <4>14. QED
        BY <1>1, <4>7, <4>8, <4>10, <4>11, <4>12, <4>13 DEF IInv
    <3>3. QED
      BY <3>1, <3>2
  <2>13. QED
    BY <1>4, <2>5, <2>6, <2>7, <2>8, <2>9, <2>10, <2>11, <2>12 DEF Step
<1>5. QED
  BY <1>2, <1>3, <1>4 DEF Next

(* The invariant holds in every reachable state.                           *)
LEMMA IInvAlways == Spec => []IInv
BY IInvInit, IInvStep, PTL DEF Spec

(* Replay protection: across any interleaving of reads and saves, no two   *)
(* calls are accepted for one secret at one time step.                     *)
THEOREM ReplayProtection == Spec => []NoCodeTwice
<1>1. IInv => NoCodeTwice
  BY DEF IInv
<1>2. QED
  BY <1>1, IInvAlways, PTL

(* Enroll leaves a working factor alone: what EnrollPending stored never   *)
(* coexists with an active credential.                                     *)
THEOREM EnrollIsSafe == Spec => []EnrollDisplacesNothing
<1>1. IInv => EnrollDisplacesNothing
  BY DEF IInv
<1>2. QED
  BY <1>1, IInvAlways, PTL

(* The active secret was proven by a confirmation that matched it.         *)
THEOREM ActiveSecretsProven == Spec => []ActiveWasProven
<1>1. IInv => ActiveWasProven
  BY DEF IInv
<1>2. QED
  BY <1>1, IInvAlways, PTL

(* DeleteTOTP is final for confirmations in flight across it.              *)
THEOREM UnenrollIsFinal == Spec => []UnenrollSticks
<1>1. IInv => UnenrollSticks
  BY DEF IInv
<1>2. QED
  BY <1>1, IInvAlways, PTL

(* LastUsedCounter never goes down while the user stays enrolled, neither  *)
(* by a save nor by the promotion of a replacement.                        *)
THEOREM CounterMonotone == Spec => CounterNeverLowered
<1>1. IInv /\ [Next]_vars => [\A a \in active, b \in active' : a.last <= b.last]_active
  <2> SUFFICES ASSUME IInv, [Next]_vars, active' # active,
                      NEW a \in active, NEW b \in active'
               PROVE  a.last <= b.last
    OBVIOUS
  <2>1. PICK c \in Calls : StoreConfirm(c) \/ SaveTOTP(c) \/ Unenroll(c)
    BY Zenon DEF Next, vars, Tick, Start, Step, Enroll, ReplaceEnrollment,
           ConfirmEnrollment, Validate, GetPendingTOTP, MatchPending,
           GetActiveTOTP, PeekPending, MatchActive, StoreError
  <2>2. /\ active = {a} /\ a.last \in Int /\ call[c].counter \in Int
        /\ call[c] \in CallState
    BY TotpAssumption DEF IInv, TypeOK, Credential, CallState, Counters
  <2>3. CASE StoreConfirm(c)
    <3>1. PICK p \in pending : b = [p EXCEPT !.last = KeptCounter(call[c].counter)]
      BY <2>3 DEF StoreConfirm
    <3>2. b.last = KeptCounter(call[c].counter)
      BY <3>1 DEF IInv, TypeOK, Credential
    <3>3. QED
      BY <2>2, <3>2 DEF KeptCounter
  <2>4. CASE SaveTOTP(c)
    <3>1. /\ RaisesCounter(call[c].counter)
          /\ \E k \in active : b = [k EXCEPT !.last = call[c].counter]
      BY <2>4 DEF SaveTOTP
    <3>2. b.last = call[c].counter
      BY <3>1 DEF IInv, TypeOK, Credential
    <3>3. QED
      BY <2>2, <3>1, <3>2 DEF RaisesCounter
  <2>5. CASE Unenroll(c)
    BY <2>5 DEF Unenroll, DeleteTOTP
  <2>6. QED
    BY <2>1, <2>3, <2>4, <2>5
<1>2. QED
  BY <1>1, IInvAlways, PTL DEF Spec, CounterNeverLowered

=============================================================================
