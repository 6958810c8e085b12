------------------------------ MODULE Delivery ------------------------------
(***************************************************************************)
(* What leased delivery promises to the producer of a message and to its   *)
(* recipients, without workers, leases, tokens, clocks or budgets.         *)
(*                                                                         *)
(* A message is open while the system may still work on it, and then sent, *)
(* skipped, unknown (an operator must look at the provider's records) or   *)
(* parked (an operator may open it again).                                 *)
(***************************************************************************)
EXTENDS Naturals

CONSTANTS Msgs, Earlier, Requests

VARIABLES
    state,      \* state of every message
    emails      \* emails[m][i]: emails sent for request i of message m

States == {"new", "open", "sent", "skipped", "parked", "unknown"}

Init ==
    /\ state = [m \in Msgs |-> "new"]
    /\ emails = [m \in Msgs |-> [i \in Requests |-> 0]]

Open(m) ==
    /\ state[m] \in {"new", "parked"}
    /\ state' = [state EXCEPT ![m] = "open"]
    /\ UNCHANGED emails

\* The only email for a request leaves while its message is open and no earlier
\* version of the aggregate can still change.
Email(m, i) ==
    /\ state[m] = "open" /\ emails[m][i] = 0
    /\ \A e \in Earlier[m] : state[e] \in {"sent", "skipped"}
    /\ emails' = [emails EXCEPT ![m][i] = 1]
    /\ UNCHANGED state

\* Any open messages end together; only complete ones end as sent.
MayEnd(m, s) ==
    /\ state[m] = "open"
    /\ s \in {"sent", "skipped", "parked", "unknown"}
    /\ s = "sent" => \A i \in Requests : emails[m][i] = 1

End ==
    /\ state' \in [Msgs -> States]
    /\ \A m \in Msgs : state'[m] = state[m] \/ MayEnd(m, state'[m])
    /\ UNCHANGED emails

Next ==
    \/ \E m \in Msgs : Open(m)
    \/ \E m \in Msgs, i \in Requests : Email(m, i)
    \/ End

Spec == Init /\ [][Next]_<<state, emails>>
=============================================================================
