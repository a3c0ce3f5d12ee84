---------------------------- MODULE OutboxPromise ----------------------------
(***************************************************************************)
(* What the outbox promises of each event, with leases, clocks, retries    *)
(* and callers left out: at-least-once delivery, an explicit quarantine    *)
(* for what cannot be delivered, and a bounded number of ways out of it.   *)
(***************************************************************************)
EXTENDS Integers

CONSTANTS Events, Redrives      \* Redrives: how often an event may be re-driven

VARIABLES
    posture,    \* event -> absent, pending, published or quarantined
    delivered,  \* the events the broker has accepted at least once
    redriven    \* event -> number of re-drives granted

promiseVars == <<posture, delivered, redriven>>

PromiseInit ==
    /\ posture = [e \in Events |-> "absent"]
    /\ delivered = {}
    /\ redriven = [e \in Events |-> 0]

Accept(e) ==
    /\ posture[e] = "absent"
    /\ posture' = [posture EXCEPT ![e] = "pending"]
    /\ UNCHANGED <<delivered, redriven>>

\* Delivery may happen again, and even after the event was settled: a slow
\* attempt may reach the broker when its lease is long gone.
Deliver(e) ==
    /\ posture[e] # "absent"
    /\ delivered' = delivered \cup {e}
    /\ UNCHANGED <<posture, redriven>>

Settle(e) ==
    /\ posture[e] = "pending"
    /\ e \in delivered
    /\ posture' = [posture EXCEPT ![e] = "published"]
    /\ UNCHANGED <<delivered, redriven>>

Quarantine(e) ==
    /\ posture[e] = "pending"
    /\ posture' = [posture EXCEPT ![e] = "quarantined"]
    /\ UNCHANGED <<delivered, redriven>>

Redrive(e) ==
    /\ posture[e] = "quarantined"
    /\ redriven[e] < Redrives
    /\ posture' = [posture EXCEPT ![e] = "pending"]
    /\ redriven' = [redriven EXCEPT ![e] = @ + 1]
    /\ UNCHANGED delivered

PromiseNext == \E e \in Events :
    Accept(e) \/ Deliver(e) \/ Settle(e) \/ Quarantine(e) \/ Redrive(e)

PromiseSpec == PromiseInit /\ [][PromiseNext]_promiseVars
=============================================================================
