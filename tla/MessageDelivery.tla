--------------------------- MODULE MessageDelivery ---------------------------
(***************************************************************************)
(* What a consumer group of the pipeline promises about the messages of    *)
(* one Redis stream, without saying how: a message is handed out at most   *)
(* once, and it leaves the group's pending list only when there is a       *)
(* reason on record for letting it go (it was handled, it was parked in    *)
(* the dead-letter table or its parking was attempted, or the stream no    *)
(* longer holds it).  StreamConsumer implements this module.               *)
(***************************************************************************)
CONSTANT Messages

VARIABLES
    seen,      \* messages the group has moved past
    pending,   \* messages handed out and not yet let go
    reason     \* messages there is a reason to let go

vars == <<seen, pending, reason>>

TypeOK ==
    /\ seen \in SUBSET Messages
    /\ pending \in SUBSET seen
    /\ reason \in SUBSET Messages

Init ==
    /\ seen = {}
    /\ pending = {}
    /\ reason = {}

\* A read moves the group past the messages of S and hands out those of D;
\* it may skip a message without handing it out only for a reason.
Deliver(S, D) ==
    /\ S \cap seen = {}
    /\ D \subseteq S
    /\ S \ D \subseteq reason
    /\ seen' = seen \cup S
    /\ pending' = pending \cup D
    /\ UNCHANGED reason

\* New reasons come to light.
Justify(R) ==
    /\ reason' = reason \cup R
    /\ UNCHANGED <<seen, pending>>

\* A pending message is let go.
Settle(m) ==
    /\ m \in pending \cap reason
    /\ pending' = pending \ {m}
    /\ UNCHANGED <<seen, reason>>

Next ==
    \/ \E S \in SUBSET Messages : \E D \in SUBSET S : Deliver(S, D)
    \/ \E R \in SUBSET Messages : Justify(R)
    \/ \E m \in Messages : Settle(m)

Safety == Init /\ [][Next]_vars

Spec == Safety /\ \A m \in Messages : WF_vars(Settle(m))
=============================================================================
