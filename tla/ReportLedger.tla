---------------------------- MODULE ReportLedger ----------------------------
(***************************************************************************)
(* What the work reports promise. The chain's ledger of this worker's files *)
(* changes by one accepted report at a time. A report adds only what the    *)
(* worker does not know the ledger to hold and deletes only what it knows   *)
(* it to hold, and the worker takes note of each accepted report, of that   *)
(* one and no other, before the next one is accepted. A reply may get lost, *)
(* and a worker that is killed goes on with what it saved: some of what it  *)
(* has known since it first saved anything.                                 *)
(***************************************************************************)
CONSTANT Files

VARIABLES
    ledger,    \* files the chain counts as stored by this worker
    acked,     \* files the worker knows the chain to count
    pending,   \* the accepted report the worker has not taken note of, if any
    saved,     \* files that metadata, or a part of it, says the chain counts
    calm       \* no reply was lost and the worker was not killed

lvars == <<ledger, acked, pending, saved, calm>>

Report(added, deleted) == [added |-> added, deleted |-> deleted]

Init ==
    /\ ledger = {} /\ acked = {} /\ pending = {} /\ saved = {}
    /\ calm = TRUE

\* The chain takes a report that fits what the worker knows.
Apply(added, deleted) ==
    /\ pending = {}
    /\ added \cap acked = {}
    /\ deleted \subseteq acked
    /\ ledger' = (ledger \ deleted) \cup added
    /\ UNCHANGED <<acked, saved>>

Accept(added, deleted) ==
    /\ Apply(added, deleted)
    /\ pending' = {Report(added, deleted)}
    /\ UNCHANGED calm

\* The worker never learns that the report was accepted.
LoseReply(added, deleted) ==
    /\ Apply(added, deleted)
    /\ calm' = FALSE
    /\ UNCHANGED pending

Acknowledge ==
    /\ \E report \in pending :
           acked' = (acked \ report.deleted) \cup report.added
    /\ pending' = {}
    /\ UNCHANGED <<ledger, saved, calm>>

\* Metadata is written while reports go on, piece by piece, or not at all.
Save ==
    /\ saved' \in SUBSET (saved \cup acked)
    /\ UNCHANGED <<ledger, acked, pending, calm>>

Restart ==
    /\ acked' \in SUBSET saved
    /\ saved' \in SUBSET saved
    /\ pending' = {}
    /\ calm' = FALSE
    /\ UNCHANGED ledger

Next ==
    \/ \E added, deleted \in SUBSET Files :
           Accept(added, deleted) \/ LoseReply(added, deleted)
    \/ Acknowledge \/ Save \/ Restart

Spec == Init /\ [][Next]_lvars

\* A worker that was not disturbed knows the ledger, up to the report it has
\* yet to take note of.
Agree ==
    calm => IF pending = {} THEN ledger = acked
            ELSE \E report \in pending :
                     /\ pending = {report}
                     /\ ledger = (acked \ report.deleted) \cup report.added
=============================================================================
