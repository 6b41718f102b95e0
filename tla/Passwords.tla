----------------------------- MODULE Passwords -----------------------------
(***************************************************************************)
(* The passwords of an account: a new one is screened (PasswordPolicy)     *)
(* before it is hashed and stored, and what is stored is verified,         *)
(* upgraded and guarded by the lockout (Password).  The screening of a     *)
(* password reads nothing of the row, so a behaviour is of one or of the   *)
(* other.                                                                  *)
(***************************************************************************)
EXTENDS Password, Sequences

CONSTANTS MinPasswordLength, MaxPasswordLength, Lengths, FailClosed,
          maxHIBPResponse, MaxRows

ASSUME PolicyAssumption ==
  /\ MinPasswordLength \in Nat /\ MaxPasswordLength \in Nat
  /\ Lengths \subseteq Nat /\ FailClosed \subseteq BOOLEAN
  /\ maxHIBPResponse \in Nat /\ MaxRows \in Nat

VARIABLES screening,   \* whether the behaviour is one of the screening
          pc, length, listed, failClosed, transport, body, next, answer

Screen == INSTANCE PasswordPolicy

screenVars == <<pc, length, listed, failClosed, transport, body, next, answer>>

PasswordsInit == screening \in BOOLEAN /\ Init /\ Screen!Init

Screening == screening /\ Screen!Next /\ UNCHANGED <<screening, vars>>

UseRow == ~screening /\ Next /\ UNCHANGED <<screening, screenVars>>

PasswordsSpec ==
  PasswordsInit /\ [][Screening \/ UseRow]_<<screening, vars, screenVars>>

-----------------------------------------------------------------------------

HasRow(kind) == \E i \in 1 .. Len(body) : body[i] = kind

(* A verdict rests on data: ErrCompromised comes from the blocklist or     *)
(* from a row with a positive count, never from a lookup that failed       *)
(* ("telling a user their password is breached when nobody actually looked *)
(* is a lie").  Conversely "A genuine hit further down the response must   *)
(* still be seen": whatever noise and padding precede it, and whichever    *)
(* way lookups fail, unless the row of this very suffix does not parse.    *)
CompromisedMeansSeen ==
  /\ answer = "ErrCompromised" => listed \/ HasRow("hit")
  /\ (/\ pc = "done" /\ length \in MinPasswordLength .. MaxPasswordLength
      /\ length > 0 /\ Len(body) <= maxHIBPResponse
      /\ HasRow("hit") /\ ~HasRow("unparsable"))
     => answer = "ErrCompromised"

(* Failing closed, a password is accepted only on an answer that arrived   *)
(* whole, with no row of its suffix left unread for not parsing; answers   *)
(* shorter than the limit.                                                 *)
AcceptedOnWholeAnswer ==
  failClosed /\ answer = "accepted" /\ length > 0 /\ Len(body) < maxHIBPResponse
  => transport = "whole" /\ ~HasRow("unparsable")

=============================================================================
