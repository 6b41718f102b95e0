---------------------------- MODULE EmailNotice ----------------------------
(***************************************************************************)
(* Who is told of an address change in the example application             *)
(* (src/examples/webapp/handlers_account.go, mailbox.go).  ChangeEmail     *)
(* stages an address, the application remembers in memory, per token,      *)
(* which address to tell, and the confirmation swaps the address and sends *)
(* the notice.  One account; Sulis has the flows of several accounts, the  *)
(* retries of a write and what a swap revokes.  Expiry is left out: an     *)
(* entry is added after its token with the same lifetime, so an expired    *)
(* entry belongs to an expired token and the confirmation fails anyhow.    *)
(***************************************************************************)
EXTENDS Integers

CONSTANTS Requests, Emails, None,
          FirstEmail,  \* the address the account begins with
          MaxClicks    \* bound on how often one link is followed

VARIABLES email,         \* the account's Email
          PendingEmail,
          tokens,        \* unused tokens: [id, email]
          emailChanges,  \* the map in memory: [id, oldAddr]
          made,          \* how many tokens were minted
          links,         \* per link mailed, how often it was followed
          notices,       \* the notices sent: [id, to]
          landed,        \* history: the tokens whose change landed
          current,       \* history: the tokens whose entry is still good to tell the loser
          req

vars == <<email, PendingEmail, tokens, emailChanges, made, links, notices, landed, current, req>>

Idle == [pc |-> "idle", ctx |-> None, new |-> None, seen |-> {}, token |-> 0,
         oldAddr |-> None, lost |-> None, due |-> FALSE, res |-> "none"]

Go(r, pc) == req' = [req EXCEPT ![r].pc = pc]

Answer(r, res) == req' = [req EXCEPT ![r].pc = "done", ![r].res = res]

-----------------------------------------------------------------------------
(* handleChangeEmail: the context holds the row that Authenticate read.    *)

ChangeRequested(r) ==
  \E new \in Emails :
    /\ req[r].pc = "idle"
    /\ req' = [req EXCEPT ![r] = [Idle EXCEPT !.pc = "free?", !.ctx = email, !.new = new,
                                              !.seen = landed]]
    /\ UNCHANGED <<email, PendingEmail, tokens, emailChanges, made, links, notices, landed, current>>

GetUserByEmail(r) ==
  /\ req[r].pc = "free?"
  /\ IF req[r].new = email THEN Answer(r, "in use") ELSE Go(r, "stage")
  /\ UNCHANGED <<email, PendingEmail, tokens, emailChanges, made, links, notices, landed, current>>

ChangeEmail(r) ==
  /\ req[r].pc = "stage"
  /\ PendingEmail' = req[r].new
  /\ Go(r, "token")
  /\ UNCHANGED <<email, tokens, emailChanges, made, links, notices, landed, current>>

createTokenForUserWithEmail(r) ==
  /\ req[r].pc = "token"
  /\ made' = made + 1
  /\ tokens' = tokens \cup {[id |-> made', email |-> req[r].new]}
  /\ req' = [req EXCEPT ![r].pc = "add", ![r].token = made']
  /\ UNCHANGED <<email, PendingEmail, emailChanges, links, notices, landed, current>>

MutRecorded(q) == q.new

Recorded(q) == q.ctx

(* The entry is added before the link is mailed, so nobody follows a link  *)
(* without one; the notice of the request goes to the same address.        *)
AddAndMail(r) ==
  LET q == req[r] IN
  /\ q.pc = "add"
  /\ emailChanges' = emailChanges \cup {[id |-> q.token, oldAddr |-> Recorded(q)]}
  /\ links' = [n \in DOMAIN links \cup {q.token} |-> IF n \in DOMAIN links THEN links[n] ELSE 0]
  /\ current' = IF q.seen = landed THEN current \cup {q.token} ELSE current
  /\ Answer(r, "sent")
  /\ UNCHANGED <<email, PendingEmail, tokens, made, notices, landed>>

-----------------------------------------------------------------------------
(* handleEmailConfirm and ConfirmEmailChange.                              *)

LinkFollowed(r) ==
  \E n \in DOMAIN links :
    /\ req[r].pc = "idle"
    /\ links[n] < MaxClicks
    /\ links' = [links EXCEPT ![n] = @ + 1]
    /\ current' = IF links[n] > 0 THEN current \ {n} ELSE current
    /\ req' = [req EXCEPT ![r] = [Idle EXCEPT !.pc = "take", !.token = n]]
    /\ UNCHANGED <<email, PendingEmail, tokens, emailChanges, made, notices, landed>>

Take(r) ==
  LET had == {e \in emailChanges : e.id = req[r].token} IN
  /\ req[r].pc = "take"
  /\ emailChanges' = emailChanges \ had
  /\ req' = [req EXCEPT ![r].pc = "consume",
                        ![r].oldAddr = IF had = {} THEN None ELSE (CHOOSE e \in had : TRUE).oldAddr]
  /\ UNCHANGED <<email, PendingEmail, tokens, made, links, notices, landed, current>>

Refuse(r) == Answer(r, "invalid")

consumeToken(r) ==
  LET t == {u \in tokens : u.id = req[r].token} IN
  /\ req[r].pc = "consume"
  /\ tokens' = tokens \ t
  /\ IF t = {} THEN Refuse(r)
               ELSE req' = [req EXCEPT ![r].pc = "swap", ![r].new = (CHOOSE u \in t : TRUE).email]
  /\ UNCHANGED <<email, PendingEmail, emailChanges, made, links, notices, landed, current>>

(* The checks and the write, which the row's version makes one step.       *)
ConfirmEmailChange(r) ==
  LET q == req[r] IN
  /\ q.pc = "swap"
  /\ IF q.new # PendingEmail \/ PendingEmail = email
       THEN Refuse(r) /\ UNCHANGED <<email, PendingEmail, landed, current>>
       ELSE /\ email' = PendingEmail
            /\ PendingEmail' = None
            /\ landed' = landed \cup {q.token}
            /\ current' = {}
            /\ req' = [req EXCEPT ![r].pc = "purge", ![r].lost = email,
                                  ![r].due = q.token \in current]
  /\ UNCHANGED <<tokens, emailChanges, made, links, notices>>

(* The sessions and tokens are purged; an error is the call's answer.      *)
Purge(r) ==
  /\ req[r].pc = "purge"
  /\ Go(r, "notice") \/ Answer(r, "error")
  /\ UNCHANGED <<email, PendingEmail, tokens, emailChanges, made, links, notices, landed, current>>

SendNotice(r) ==
  LET q == req[r] IN
  /\ q.pc = "notice"
  /\ notices' = notices \cup (IF q.oldAddr = None THEN {} ELSE {[id |-> q.token, to |-> q.oldAddr]})
  /\ Answer(r, "confirmed")
  /\ UNCHANGED <<email, PendingEmail, tokens, emailChanges, made, links, landed, current>>

(* The map is in memory only.                                              *)
Restart ==
  /\ emailChanges # {}
  /\ emailChanges' = {} /\ current' = {}
  /\ req' = [r \in Requests |-> IF req[r].pc \in {"idle", "done"} THEN req[r]
                                ELSE [Idle EXCEPT !.pc = "done", !.res = "lost"]]
  /\ UNCHANGED <<email, PendingEmail, tokens, made, links, notices, landed>>

Init ==
  /\ email = FirstEmail /\ PendingEmail = None
  /\ tokens = {} /\ emailChanges = {} /\ made = 0 /\ links = <<>>
  /\ notices = {} /\ landed = {} /\ current = {}
  /\ req = [r \in Requests |-> Idle]

Step(r) ==
  \/ ChangeRequested(r) \/ GetUserByEmail(r) \/ ChangeEmail(r)
  \/ createTokenForUserWithEmail(r) \/ AddAndMail(r)
  \/ LinkFollowed(r) \/ Take(r) \/ consumeToken(r) \/ ConfirmEmailChange(r)
  \/ Purge(r) \/ SendNotice(r)

Next == (\E r \in Requests : Step(r)) \/ Restart

Spec == Init /\ [][Next]_vars

=============================================================================
