-------------------------- MODULE AtLeastOnceQueue --------------------------
(* What the outbox promises to the code that inserts rows into it: a row is *)
(* delivered at least once before it counts as done, and a settled row      *)
(* stays settled until a fault has made some claim late.  Claims, leases,   *)
(* retries and workers do not appear.                                       *)
CONSTANT Events

VARIABLES
    state,      \* per row: absent, open, done or failed
    delivered,  \* rows whose handler has had its effect
    late        \* a claim may have outlived its lease

qvars == <<state, delivered, late>>

QInit ==
    /\ state = [e \in Events |-> "absent"]
    /\ delivered = {}
    /\ late = FALSE

Insert(e) ==
    /\ state[e] = "absent"
    /\ state' = [state EXCEPT ![e] = "open"]
    /\ UNCHANGED <<delivered, late>>

(* Rows of one task are delivered together.                                 *)
Deliver(rows) ==
    /\ \A e \in rows : IF late THEN state[e] # "absent" ELSE state[e] = "open"
    /\ delivered' = delivered \cup rows
    /\ UNCHANGED <<state, late>>

(* A row can only be settled once, unless something is late.                *)
MayMove(e) == IF late' THEN state[e] # "absent" ELSE state[e] = "open"

Complete(rows) ==
    /\ rows \subseteq delivered
    /\ \A e \in rows : MayMove(e)
    /\ state' = [e \in Events |-> IF e \in rows THEN "done" ELSE state[e]]
    /\ late' \in {late, TRUE}
    /\ UNCHANGED delivered

GiveUp(e) ==
    /\ MayMove(e)
    /\ state' = [state EXCEPT ![e] = "failed"]
    /\ UNCHANGED <<delivered, late>>

Reopen(e) ==
    /\ late /\ state[e] \in {"done", "failed"}
    /\ state' = [state EXCEPT ![e] = "open"]
    /\ UNCHANGED <<delivered, late>>

BecomeLate == late' = TRUE /\ UNCHANGED <<state, delivered>>

QNext ==
    \/ \E e \in Events : Insert(e) \/ GiveUp(e) \/ Reopen(e)
    \/ \E rows \in SUBSET Events : Deliver(rows) \/ Complete(rows)
    \/ BecomeLate

QSpec == QInit /\ [][QNext]_qvars
=============================================================================
