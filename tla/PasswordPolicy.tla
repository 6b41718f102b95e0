--------------------------- MODULE PasswordPolicy ---------------------------
(***************************************************************************)
(* checkPasswordPolicy (src/sulis.go) with the blocklist and the breach    *)
(* corpus of src/passwordcheck composed by All: one password about to be   *)
(* stored, screened against a range response that is read row by row.      *)
(***************************************************************************)
EXTENDS Naturals, Sequences

CONSTANTS
  MinPasswordLength, MaxPasswordLength,
  Lengths,           \* of the normalized password
  FailClosed,        \* the settings of WithHIBPFailClosed to check
  maxHIBPResponse,   \* in rows
  MaxRows            \* bound on the rows of a response

(* A row: no colon in it; another suffix; ours with count zero, with a     *)
(* count that does not parse, with a positive count.                       *)
Rows == {"noise", "other", "padding", "unparsable", "hit"}

(* What becomes of the lookup: no answer, another status than 200, a body  *)
(* that breaks off, one that ends.                                         *)
Transports == {"unreachable", "status", "broken", "whole"}

VARIABLES
  pc, length, listed, failClosed,
  transport, body,   \* the answer of the service
  next,              \* the row the scanner is at
  answer

vars == <<pc, length, listed, failClosed, transport, body, next, answer>>

input == <<length, listed, failClosed, transport, body>>

Init ==
  /\ pc = "policy" /\ next = 1 /\ answer = "none"
  /\ length \in Lengths /\ listed \in BOOLEAN /\ failClosed \in FailClosed
  /\ transport \in Transports
  /\ body \in IF transport \in {"broken", "whole"}
              THEN UNION {[1 .. n -> Rows] : n \in 0 .. MaxRows} ELSE {<<>>}

Return(a) == pc' = "done" /\ answer' = a /\ UNCHANGED <<next, input>>

Goto(p) == pc' = p /\ UNCHANGED <<answer, next, input>>

-----------------------------------------------------------------------------

checkPasswordPolicy ==
  /\ pc = "policy"
  /\ \/ length < MinPasswordLength /\ Return("ErrPasswordTooShort")
     \/ length > MaxPasswordLength /\ Return("ErrPasswordTooLong")
     \/ length \in MinPasswordLength .. MaxPasswordLength /\ Goto("blocklist")

(* All stops at the first checker with an error.                           *)
NextChecker == Goto("hibp")

(* Both checkers accept the empty password.                                *)
BlocklistCheck ==
  /\ pc = "blocklist"
  /\ IF length > 0 /\ listed THEN Return("ErrCompromised") ELSE NextChecker

(* What Check makes of a lookup without a verdict.                         *)
NoVerdict == Return(IF failClosed THEN "error" ELSE "accepted")

HIBPCheck ==
  /\ pc = "hibp"
  /\ \/ length = 0 /\ Return("accepted")
     \/ length > 0 /\ Goto("lookup")

lookup ==
  /\ pc = "lookup"
  /\ IF transport \in {"unreachable", "status"} THEN NoVerdict ELSE Goto("scan")

(* The rows the scanner gets to see.                                       *)
Within == next <= Len(body) /\ next <= maxHIBPResponse

(* What a row makes of the scan: on to the next, an error, or a verdict.   *)
MutVerdict(row) ==
  CASE row = "hit" -> "found"
    [] row \in {"unparsable", "noise"} -> "error"
    [] OTHER -> "continue"

Verdict(row) ==
  CASE row = "hit" -> "found"
    [] row = "unparsable" -> "error"
    [] OTHER -> "continue"

ScanRow ==
  /\ pc = "scan" /\ Within
  /\ LET verdict == Verdict(body[next]) IN
     \/ verdict = "found" /\ Return("ErrCompromised")
     \/ verdict = "error" /\ NoVerdict
     \/ verdict = "continue" /\ next' = next + 1 /\ UNCHANGED <<pc, answer, input>>

(* The scanner has stopped: scanner.Err, which is nil where the limit cut  *)
(* the body off.                                                           *)
MutReadError == FALSE

ReadError == transport = "broken" /\ next <= maxHIBPResponse

ScanEnd ==
  /\ pc = "scan" /\ ~Within
  /\ IF ReadError THEN NoVerdict ELSE Return("accepted")

Next ==
  \/ checkPasswordPolicy \/ BlocklistCheck \/ HIBPCheck
  \/ lookup \/ ScanRow \/ ScanEnd

=============================================================================
