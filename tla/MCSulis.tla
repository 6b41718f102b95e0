------------------------------ MODULE MCSulis -------------------------------
(***************************************************************************)
(* Instances of Sulis for TLC: what the stores hold at start.              *)
(***************************************************************************)
EXTENDS Sulis, FiniteSets, TLC

RequestSymmetry == Permutations(Requests)

Weak(p) == {[pw |-> p, gen |-> 0, weak |-> TRUE]}
Strong(p) == {[pw |-> p, gen |-> 0, weak |-> FALSE]}

Account(e, hash, verified) ==
  [NewRow(e, hash) EXCEPT !.verified = verified, !.version = 1]

Outstanding(id, purpose, uid, email, mailbox) ==
  [id |-> id, purpose |-> purpose, uid |-> uid, email |-> email,
   used |-> FALSE, born |-> 1, mailbox |-> mailbox, against |-> {}]

SignedIn(id, u, via) ==
  [id |-> id, uid |-> u, root |-> id, born |-> 1, via |-> via]

(* One verified account, signed in, with every kind of token outstanding   *)
(* that a password set purges.                                             *)
SeedWith(hash) ==
  [users |-> (1 :> Account("a", hash, TRUE)),
   sessions |-> {SignedIn(1, 1, "Login")},
   tokens |-> {Outstanding(2, "password_reset", {1}, {}, {"a"}),
               Outstanding(3, "two_factor", {1}, {}, {}),
               Outstanding(4, "magic_link", {1}, {}, {"a"})},
   proven |-> {"a"}, nextId |-> 5]

PasswordSeeds == {SeedWith({}), SeedWith(Weak("p"))}

StrongSeeds == {SeedWith(Strong("p"))}

(* The same account with no more than a password reset outstanding.        *)
RetrySeeds ==
  {[SeedWith(Weak("p")) EXCEPT !.tokens =
      {t \in @ : t.purpose = "password_reset"}]}

(* A signed-up account that has not verified its address yet, and a        *)
(* verified one, which staged "c" after it had staged "d"; mail is on its  *)
(* way to both and to an address that has no account.                      *)
EmailSeeds ==
  {[users |-> (1 :> Account("a", Strong("p"), FALSE) @@
               2 :> [Account("b", {}, TRUE) EXCEPT !.pending = {"c"}]),
    sessions |-> {SignedIn(1, 1, "Register"), SignedIn(2, 2, "RedeemMagicLink")},
    tokens |-> {Outstanding(3, "email_verification", {1}, {"a"}, {"a"}),
                Outstanding(4, "magic_link", {1}, {}, {"a"}),
                Outstanding(5, "magic_link", {}, {"c"}, {"c"}),
                Outstanding(6, "email_change", {2}, {"d"}, {"d"}),
                Outstanding(7, "email_change", {2}, {"c"}, {"c"})},
    proven |-> {"b"}, nextId |-> 8]}

AccountSeeds == PasswordSeeds \cup EmailSeeds

(* The calls of one behaviour answer one question at a time: at most       *)
(* MaxConcurrent calls, of one group, with the passwords it types and the  *)
(* one it sets, on the stores that group starts from.  Every call of a group meets every   *)
(* other one, itself included; calls of different groups share no more     *)
(* than the rows, whose versioned update every group contains.             *)
MaxConcurrent == 3

Groups ==
  {[ops |-> {"Login", "ChangePassword", "SetInitialPassword", "ResetPassword"},
    passwords |-> {"p", "q"}, new |-> "q", accounts |-> 1],
   [ops |-> {"Login", "IssueSessionUnchecked", "RefreshSession",
             "RevokeSession", "RevokeAllSessions", "DisableUser",
             "EnableUser", "CompleteTwoFactor"},
    passwords |-> {"p"}, new |-> "p", accounts |-> 1],
   [ops |-> {"Register", "RefreshSession", "RedeemMagicLink", "VerifyEmail",
             "ChangeEmail", "ConfirmEmailChange"},
    passwords |-> {"p"}, new |-> "p", accounts |-> 2],
   [ops |-> {"CreateMagicLinkToken", "RedeemMagicLink",
             "CreateEmailVerificationToken", "VerifyEmail",
             "CreatePasswordResetToken", "ResetPassword",
             "CreateTwoFactorToken", "CompleteTwoFactor"},
    passwords |-> {"p"}, new |-> "p", accounts |-> 2]}

Begun == {r \in Requests : req[r].pc # "idle"}

(* The address whose change was superseded before the behaviour begins: of *)
(* its mailbox only the outstanding link is used.                          *)
Superseded == "d"

OneGroup ==
  /\ \A r \in Begun :
       req[r].email = Superseded => req[r].op = "ConfirmEmailChange"
  /\ \E g \in Groups :
       /\ g.accounts = Cardinality({u \in DOMAIN users : u <= 2})
       /\ \A r \in Begun :
            /\ req[r].op \in g.ops
            /\ req[r].pw \in g.passwords
            /\ req[r].op \in SetsPassword \cup {"Register"} => req[r].new = g.new

=============================================================================
