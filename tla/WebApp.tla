------------------------------- MODULE WebApp -------------------------------
(***************************************************************************)
(* The example application (src/examples/webapp): its sign-in and security *)
(* pages (Factors) and its change of address (EmailNotice).  The two share *)
(* the account and no other state, so a behaviour is of one or the other.  *)
(***************************************************************************)
EXTENDS Factors

CONSTANTS Emails, None, FirstEmail, MaxClicks

ASSUME NoticeAssumption == FirstEmail \in Emails /\ None \notin Emails /\ MaxClicks \in Nat

VARIABLES page,       \* the pages that are used: "security" or "email"
          email, PendingEmail, mailed, emailChanges, minted, links, notices,
          landed, current, changeReq

Notice == INSTANCE EmailNotice WITH
            tokens <- mailed, made <- minted, req <- changeReq

noticeVars == <<email, PendingEmail, mailed, emailChanges, minted, links, notices,
                landed, current, changeReq>>

webVars == <<page, vars, noticeVars>>

WebInit == page \in {"security", "email"} /\ Init /\ Notice!Init

Security == page = "security" /\ Next /\ UNCHANGED <<page, noticeVars>>

ChangeOfAddress == page = "email" /\ Notice!Next /\ UNCHANGED <<page, vars>>

WebSpec == WebInit /\ [][Security \/ ChangeOfAddress]_webVars

-----------------------------------------------------------------------------

(* pendingEmailChanges and handleEmailConfirm: when a confirmation reports *)
(* success, the address that lost the account has been told, if the link   *)
(* was followed once, no other change landed since the request that staged *)
(* it was authenticated, and the process did not restart in between.       *)
LoserToldIfCurrent ==
  \A r \in Requests :
    (changeReq[r].res = "confirmed" /\ changeReq[r].due) =>
      [id |-> changeReq[r].token, to |-> changeReq[r].lost] \in notices

=============================================================================
