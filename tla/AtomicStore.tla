----------------------------- MODULE AtomicStore -----------------------------
(***************************************************************************)
(* What a store promises its callers: each call takes effect at one moment *)
(* between its start and its return, and returns what the contract gives   *)
(* at that moment.  A call that returns an error of the database may or    *)
(* may not have taken effect.                                              *)
(***************************************************************************)
CONSTANTS Txns,           \* calls
          Calls,          \* what a call may ask for
          Method(_, _)    \* the contract: rows after the call, and its result

VARIABLES rows,
          out   \* per call: nothing, its result and "pending", or its result

Init == out = [t \in Txns |-> <<>>]

Err == <<"err">>

(* The call takes effect; it returns at once, or later.                    *)
Perform(t, c) ==
  LET m == Method(c, rows) IN
  /\ out[t] = <<>>
  /\ rows' = m.rows
  /\ out' \in {[out EXCEPT ![t] = <<c, m.res>>],
               [out EXCEPT ![t] = <<c, m.res, "pending">>]}

Lose(t, c) ==
  /\ out[t] = <<>>
  /\ rows' \in {rows, Method(c, rows).rows}
  /\ out' = [out EXCEPT ![t] = <<c, Err>>]

Reply(t, c) ==
  /\ out[t] # <<>>
  /\ \E res \in {out[t][2], Err} :
       out[t] = <<c, out[t][2], "pending">> /\ out' = [out EXCEPT ![t] = <<c, res>>]
  /\ UNCHANGED rows

(* A step records the call it is about.                                    *)
Next ==
  \E t \in Txns :
    /\ out'[t] # <<>> /\ out'[t] # out[t]
    /\ LET c == out'[t][1] IN
         c \in Calls /\ (Perform(t, c) \/ Lose(t, c) \/ Reply(t, c))

Spec == Init /\ [][Next]_<<rows, out>>

=============================================================================
