--------------------------- MODULE OutboxDelivery ---------------------------
(***************************************************************************)
(* The durable outbox of lotus-idea: operator-invoked delivery runs that   *)
(* lease a batch of events, hand each one to the broker publisher and      *)
(* record what it answered, and the governed re-drive that gives one       *)
(* dead-lettered event one more publication.                               *)
(*                                                                         *)
(* Every database transaction of the code is one action here; what a call  *)
(* remembers between two of them is its entry of "call".  A call may crash *)
(* between any two of its steps.  Timestamps are ticks of one clock.       *)
(***************************************************************************)
EXTENDS Integers, FiniteSets

CONSTANTS
    Events,          \* outbox events, numbered by (occurred_at_utc, event_id)
    DeliveryCalls,   \* invocations of POST .../outbox-delivery/run-once
    RecoveryCalls,   \* invocations of POST .../dead-letters/{ref}/redrive
    DeliveryKeys,    \* Idempotency-Key values of delivery runs
    RecoveryKeys,    \* Idempotency-Key values of re-drives
    RetryLimits,     \* values of maxRetryCount a caller may ask for
    BatchLimit,      \* limit of one run
    LeaseDuration,   \* lease_duration_seconds, in ticks
    BackoffBase,     \* OUTBOX_RETRY_BACKOFF_BASE_SECONDS, in ticks
    BackoffCap,      \* OUTBOX_RETRY_BACKOFF_MAX_SECONDS, in ticks
    MaxRecoveries,   \* MAX_OUTBOX_RECOVERY_ATTEMPTS
    ClockSkew,       \* how far deliveredAtUtc may be from the server's clock
    MaxTime,         \* bound of the clock
    None             \* the NULL of a column

ASSUME OutboxAssumption ==
    /\ Events \subseteq Nat
    /\ RetryLimits \subseteq Nat \ {0}
    /\ BatchLimit \in Nat \ {0}
    /\ LeaseDuration \in Nat \ {0}
    /\ BackoffBase \in Nat \ {0}
    /\ BackoffCap \in Nat \ {0}
    /\ MaxRecoveries \in Nat \ {0}
    /\ ClockSkew \in Nat
    /\ MaxTime \in Nat
    /\ DeliveryCalls \cap RecoveryCalls = {}
    /\ DeliveryKeys \cap RecoveryKeys = {}
    /\ None \notin DeliveryKeys \cup RecoveryKeys \cup RetryLimits \cup Events

Calls == DeliveryCalls \cup RecoveryCalls
Keys == DeliveryKeys \cup RecoveryKeys

VARIABLES
    now,         \* the server's clock
    status,      \* idea_outbox_event.status, "absent" before the row exists
    retries,     \* .retry_count
    nextAttempt, \* .next_attempt_at_utc
    leasedBy,    \* .lease_attempt_id
    leaseUntil,  \* .lease_expires_at_utc
    runRequest,  \* idempotency records of delivery runs: key -> maxRetryCount
    audit,       \* idea_outbox_recovery_audit: records [event, key]
    call,        \* what each invocation holds in memory
    result,      \* the run_status a re-drive answered with
    acked,       \* event -> attempts whose publication the broker accepted
    nacked       \* event -> attempts whose publication was refused or unanswered

row == <<status, retries, nextAttempt, leasedBy, leaseUntil>>
broker == <<acked, nacked>>
vars == <<now, row, runRequest, audit, call, result, broker>>

Statuses == {"absent", "pending", "leased", "failed", "dead_letter", "published"}
Running == {"lookup", "claim", "publish", "mark"}
Results == {"published", "replayed", "conflict", "not_found", "quarantined",
            "lease_lost", "dead_lettered"}

\* What an invocation knows when it begins.
Begun(pc, key, target, at, limit) ==
    [pc |-> pc, key |-> key, at |-> at, limit |-> limit, target |-> target,
     todo |-> {}, sending |-> None, accepted |-> FALSE]

NoCall == Begun("idle", None, None, 0, 0)

\* A call that is over remembers only who it was.
Over(c, pc) == Begun(pc, call[c].key, call[c].target, 0, 0)

-----------------------------------------------------------------------------
(* What the code asks of a row.                                            *)

\* Deviations of the definitions of this module, each a bug the properties
\* must notice, carry a suffix that says what is wrong with them.
Ready_AnyLease(e, t, limit) ==
    \/ status[e] \in {"pending", "leased"}
    \/ status[e] = "failed" /\ retries[e] < limit /\ nextAttempt[e] <= t

\* _outbox_event_delivery_ready, and the WHERE of the claim
Ready(e, t, limit) ==
    \/ status[e] = "pending"
    \/ status[e] = "failed" /\ retries[e] < limit /\ nextAttempt[e] <= t
    \/ status[e] = "leased" /\ leaseUntil[e] <= t

\* ORDER BY occurred_at_utc, outbox_event_id LIMIT n
OldestOf(S, n) == {e \in S : Cardinality({d \in S : d < e}) < n}

Owns_AnyAttempt(e, key) == status[e] = "leased"

\* _event_owned_by_delivery_attempt: the expiry of the lease is not looked at
Owns(e, key) == status[e] = "leased" /\ leasedBy[e] = key

\* next_outbox_retry_attempt_at_utc: min(base * 2^(n - 1), cap)
RetryDelay(n) ==
    LET uncapped == BackoffBase * 2 ^ (n - 1)
    IN  IF uncapped \in 0 .. BackoffCap THEN uncapped ELSE BackoffCap

RecoveriesOf(e) == {r \in audit : r.event = e}

\* The timestamps a delivery run may carry: deliveredAtUtc or the clock
DeliveryTimes == {t \in 0 .. (MaxTime + ClockSkew) :
                    t <= now + ClockSkew /\ now <= t + ClockSkew}

-----------------------------------------------------------------------------
Init ==
    /\ now = 0
    /\ status = [e \in Events |-> "absent"]
    /\ retries = [e \in Events |-> 0]
    /\ nextAttempt = [e \in Events |-> None]
    /\ leasedBy = [e \in Events |-> None]
    /\ leaseUntil = [e \in Events |-> None]
    /\ runRequest = [k \in DeliveryKeys |-> None]
    /\ audit = {}
    /\ call = [c \in Calls |-> NoCall]
    /\ result = [c \in RecoveryCalls |-> None]
    /\ acked = [e \in Events |-> {}]
    /\ nacked = [e \in Events |-> {}]

Tick ==
    /\ now < MaxTime
    /\ now' = now + 1
    /\ UNCHANGED <<row, runRequest, audit, call, result, broker>>

\* A candidate mutation commits its event together with the aggregate.
AppendEvent(e) ==
    /\ status[e] = "absent"
    /\ status' = [status EXCEPT ![e] = "pending"]
    /\ UNCHANGED <<now, retries, nextAttempt, leasedBy, leaseUntil, runRequest,
                   audit, call, result, broker>>

Lease_CountsRetry(S, key, until) ==
    /\ status' = [e \in Events |-> IF e \in S THEN "leased" ELSE status[e]]
    /\ nextAttempt' = [e \in Events |-> IF e \in S THEN None ELSE nextAttempt[e]]
    /\ leasedBy' = [e \in Events |-> IF e \in S THEN key ELSE leasedBy[e]]
    /\ leaseUntil' = [e \in Events |-> IF e \in S THEN until ELSE leaseUntil[e]]
    /\ retries' = [e \in Events |-> IF e \in S THEN retries[e] + 1 ELSE retries[e]]

Lease(S, key, until) ==
    /\ status' = [e \in Events |-> IF e \in S THEN "leased" ELSE status[e]]
    /\ nextAttempt' = [e \in Events |-> IF e \in S THEN None ELSE nextAttempt[e]]
    /\ leasedBy' = [e \in Events |-> IF e \in S THEN key ELSE leasedBy[e]]
    /\ leaseUntil' = [e \in Events |-> IF e \in S THEN until ELSE leaseUntil[e]]
    /\ UNCHANGED retries

(***************************************************************************)
(* A delivery run reads its clock once, then records its request under the *)
(* idempotency key.  Only the first request of a key goes on to claim.     *)
(***************************************************************************)
BeginRun(c) ==
    /\ call[c].pc = "idle"
    /\ \E key \in DeliveryKeys, limit \in RetryLimits, at \in DeliveryTimes :
         \/ /\ runRequest[key] = None
            /\ runRequest' = [runRequest EXCEPT ![key] = limit]
            /\ call' = [call EXCEPT ![c] = Begun("claim", key, None, at, limit)]
         \/ /\ runRequest[key] # None          \* REPLAYED or CONFLICT
            /\ call' = [call EXCEPT ![c] = Over(c, "done")]
            /\ UNCHANGED runRequest
    /\ UNCHANGED <<now, row, audit, result, broker>>

(***************************************************************************)
(* One statement selects and leases the batch.  SKIP LOCKED passes over    *)
(* the rows some other transaction has locked at that moment.              *)
(***************************************************************************)
ClaimBatch(c) ==
    /\ call[c].pc = "claim"
    /\ LET me == call[c]
           ready == {e \in Events : Ready(e, me.at, me.limit)}
       IN  \E locked \in SUBSET ready :
             LET batch == OldestOf(ready \ locked, BatchLimit)
             IN  /\ Lease(batch, me.key, me.at + LeaseDuration)
                 /\ call' = [call EXCEPT ![c] =
                       IF batch = {} THEN Over(c, "done")
                       ELSE [me EXCEPT !.pc = "publish", !.todo = batch]]
    /\ UNCHANGED <<now, runRequest, audit, result, broker>>

(***************************************************************************)
(* publish_outbox_event_safely: the broker accepts, or the call is told    *)
(* that it did not (a refusal, a timeout, an exception).  The rows of a    *)
(* batch come back from RETURNING in no particular order.                  *)
(***************************************************************************)
Publish(c) ==
    /\ call[c].pc = "publish"
    /\ \E e \in call[c].todo, ok \in BOOLEAN :
         /\ call' = [call EXCEPT ![c] =
               [@ EXCEPT !.pc = "mark", !.sending = e, !.accepted = ok]]
         /\ acked' = IF ok THEN [acked EXCEPT ![e] = @ \cup {call[c].key}]
                           ELSE acked
         /\ nacked' = IF ok THEN nacked
                            ELSE [nacked EXCEPT ![e] = @ \cup {call[c].key}]
    /\ UNCHANGED <<now, row, runRequest, audit, result>>

MarkPublished_KeepsLease(e) ==
    /\ status' = [status EXCEPT ![e] = "published"]
    /\ nextAttempt' = [nextAttempt EXCEPT ![e] = None]
    /\ UNCHANGED <<retries, leasedBy, leaseUntil>>

MarkPublished(e) ==
    /\ status' = [status EXCEPT ![e] = "published"]
    /\ nextAttempt' = [nextAttempt EXCEPT ![e] = None]
    /\ leasedBy' = [leasedBy EXCEPT ![e] = None]
    /\ leaseUntil' = [leaseUntil EXCEPT ![e] = None]
    /\ UNCHANGED retries

MarkFailed(e, at, limit) ==
    LET n == retries[e] + 1
        exhausted == n >= limit
    IN  /\ retries' = [retries EXCEPT ![e] = n]
        /\ status' = [status EXCEPT ![e] =
                         IF exhausted THEN "dead_letter" ELSE "failed"]
        /\ nextAttempt' = [nextAttempt EXCEPT ![e] =
                         IF exhausted THEN None ELSE at + RetryDelay(n)]
        /\ leasedBy' = [leasedBy EXCEPT ![e] = None]
        /\ leaseUntil' = [leaseUntil EXCEPT ![e] = None]

RecordOutcome_IgnoresAnswer(c) ==
    LET me == call[c] IN
    \/ Owns(me.sending, me.key) /\ MarkPublished(me.sending)
    \/ ~Owns(me.sending, me.key) /\ UNCHANGED row

\* What the owner of the lease writes; a call that lost it writes nothing.
RecordOutcome(c) ==
    LET me == call[c] IN
    \/ /\ Owns(me.sending, me.key)
       /\ me.accepted
       /\ MarkPublished(me.sending)
    \/ /\ Owns(me.sending, me.key)
       /\ ~me.accepted
       /\ MarkFailed(me.sending, me.at, me.limit)
    \/ /\ ~Owns(me.sending, me.key)
       /\ UNCHANGED row

MarkDelivery_StopsAtRefusal(c) ==
    /\ call[c].pc = "mark"
    /\ RecordOutcome(c)
    /\ LET rest == call[c].todo \ {call[c].sending}
       IN  call' = [call EXCEPT ![c] =
               IF rest = {} \/ ~call[c].accepted THEN Over(c, "done")
               ELSE [@ EXCEPT !.pc = "publish", !.todo = rest, !.sending = None]]
    /\ UNCHANGED <<now, runRequest, audit, result, broker>>

MarkDelivery(c) ==
    /\ call[c].pc = "mark"
    /\ RecordOutcome(c)
    /\ LET rest == call[c].todo \ {call[c].sending}
       IN  call' = [call EXCEPT ![c] =
               IF rest = {} THEN Over(c, "done")
               ELSE [@ EXCEPT !.pc = "publish", !.todo = rest, !.sending = None]]
    /\ UNCHANGED <<now, runRequest, audit, result, broker>>

-----------------------------------------------------------------------------
(* The governed re-drive of one dead-lettered event.                       *)

BeginRecovery(c) ==
    /\ call[c].pc = "idle"
    /\ \E key \in RecoveryKeys, e \in Events :
         call' = [call EXCEPT ![c] = Begun("lookup", key, e, now, 0)]
    /\ UNCHANGED <<now, row, runRequest, audit, result, broker>>

Answer(c, r) ==
    /\ result' = [result EXCEPT ![c] = r]
    /\ call' = [call EXCEPT ![c] = Over(c, "done")]

(***************************************************************************)
(* The idempotency lookup reads the audit table without a lock.  A record  *)
(* of the same request is a replay, of another request a conflict.         *)
(***************************************************************************)
LookupRecovery(c) ==
    /\ call[c].pc = "lookup"
    /\ \/ /\ \E r \in audit : /\ r.key = call[c].key
                              /\ Answer(c, IF r.event = call[c].target
                                           THEN "replayed" ELSE "conflict")
       \/ /\ \A r \in audit : r.key # call[c].key
          /\ call' = [call EXCEPT ![c] = [@ EXCEPT !.pc = "claim"]]
          /\ UNCHANGED result
    /\ UNCHANGED <<now, row, runRequest, audit, broker>>

\* The row is read FOR UPDATE; what it says then decides.
RejectRecovery(c, e) ==
    /\ \/ status[e] = "absent" /\ Answer(c, "not_found")
       \/ status[e] = "leased" /\ Answer(c, "lease_lost")
       \/ status[e] \in {"pending", "failed", "published"}
             /\ Answer(c, "quarantined")
       \/ /\ status[e] = "dead_letter"
          /\ Cardinality(RecoveriesOf(e)) >= MaxRecoveries
          /\ Answer(c, "quarantined")
    /\ UNCHANGED <<row, audit>>

(***************************************************************************)
(* Audit record and lease commit together.  The audit table is unique on   *)
(* the key and on the event: when another call of the same key got there   *)
(* after the lookup, the insert fails and the call with it.                *)
(***************************************************************************)
AcceptRecovery(c, e) ==
    /\ status[e] = "dead_letter"
    /\ Cardinality(RecoveriesOf(e)) < MaxRecoveries
    /\ \/ /\ \A r \in audit : r.key # call[c].key /\ r.event # e
          /\ audit' = audit \cup {[event |-> e, key |-> call[c].key]}
          /\ Lease({e}, call[c].key, call[c].at + LeaseDuration)
          /\ call' = [call EXCEPT ![c] = [@ EXCEPT !.pc = "publish",
                             !.todo = {e}, !.limit = retries[e] + 1]]
       \/ /\ \E r \in audit : r.key = call[c].key \/ r.event = e
          /\ call' = [call EXCEPT ![c] = Over(c, "crashed")]
          /\ UNCHANGED <<audit, row>>
    /\ UNCHANGED result

ClaimDeadLetter(c) ==
    /\ call[c].pc = "claim"
    /\ \/ RejectRecovery(c, call[c].target)
       \/ AcceptRecovery(c, call[c].target)
    /\ UNCHANGED <<now, runRequest, broker>>

\* The run_status: DEAD_LETTERED is what the row says, whoever wrote it.
RecoveryStatus(c) ==
    LET me == call[c] IN
    CASE Owns(me.sending, me.key) /\ me.accepted -> "published"
      [] Owns(me.sending, me.key) /\ ~me.accepted -> "dead_lettered"
      [] status[me.sending] = "dead_letter" -> "dead_lettered"
      [] OTHER -> "lease_lost"

MarkRecovery(c) ==
    /\ call[c].pc = "mark"
    /\ RecordOutcome(c)
    /\ result' = [result EXCEPT ![c] = RecoveryStatus(c)]
    /\ call' = [call EXCEPT ![c] = Over(c, "done")]
    /\ UNCHANGED <<now, runRequest, audit, broker>>

\* The process dies, or a database error ends the call.
Crash(c) ==
    /\ call[c].pc \in Running
    /\ call' = [call EXCEPT ![c] = Over(c, "crashed")]
    /\ UNCHANGED <<now, row, runRequest, audit, result, broker>>

-----------------------------------------------------------------------------
RunStep(c) == ClaimBatch(c) \/ Publish(c) \/ MarkDelivery(c)
RecoveryStep(c) ==
    LookupRecovery(c) \/ ClaimDeadLetter(c) \/ Publish(c) \/ MarkRecovery(c)

Next ==
    \/ Tick
    \/ \E e \in Events : AppendEvent(e)
    \/ \E c \in DeliveryCalls : BeginRun(c) \/ RunStep(c)
    \/ \E c \in RecoveryCalls : BeginRecovery(c) \/ RecoveryStep(c)
    \/ \E c \in Calls : Crash(c)

Spec == Init /\ [][Next]_vars

(***************************************************************************)
(* A call that has begun is a thread running straight-line code: nothing   *)
(* but a crash keeps it from its next step.  Nothing obliges anyone to     *)
(* begin a call, and the clock is not assumed to move.                     *)
(***************************************************************************)
FairSpec ==
    /\ Spec
    /\ \A c \in DeliveryCalls : WF_vars(RunStep(c))
    /\ \A c \in RecoveryCalls : WF_vars(RecoveryStep(c))

-----------------------------------------------------------------------------
(* Properties                                                              *)

CallType == [pc : Running \cup {"idle", "done", "crashed"},
             key : Keys \cup {None}, at : Nat, limit : Nat,
             target : Events \cup {None}, todo : SUBSET Events,
             sending : Events \cup {None}, accepted : BOOLEAN]

\* The rows have the shape OutboxEventRecord.__post_init__ demands: lease
\* columns exactly on leased rows, a due time exactly on failed ones.
RowsOK ==
    /\ status \in [Events -> Statuses]
    /\ retries \in [Events -> Nat]
    /\ nextAttempt \in [Events -> Nat \cup {None}]
    /\ leasedBy \in [Events -> Keys \cup {None}]
    /\ leaseUntil \in [Events -> Nat \cup {None}]
    /\ \A e \in Events :
         /\ IF status[e] = "leased"
            THEN leasedBy[e] \in Keys /\ leaseUntil[e] \in Nat
            ELSE leasedBy[e] = None /\ leaseUntil[e] = None
         /\ IF status[e] = "failed" THEN nextAttempt[e] \in Nat
                                    ELSE nextAttempt[e] = None

CallOK(c) == call[c].pc \in Running =>
    /\ c \in DeliveryCalls => call[c].key \in DeliveryKeys
    /\ c \in RecoveryCalls => /\ call[c].key \in RecoveryKeys
                             /\ call[c].target \in Events
    /\ call[c].pc = "mark" => call[c].sending \in Events

\* Every variable has its type, every row the shape its status demands, and a
\* running call knows its key and, when it has published, the event.
TypeOK ==
    /\ now \in 0 .. MaxTime
    /\ RowsOK
    /\ runRequest \in [DeliveryKeys -> RetryLimits \cup {None}]
    /\ audit \subseteq [event : Events, key : RecoveryKeys]
    /\ result \in [RecoveryCalls -> Results \cup {None}]
    /\ acked \in [Events -> SUBSET Keys]
    /\ nacked \in [Events -> SUBSET Keys]
    /\ call \in [Calls -> CallType]
    /\ \A c \in Calls : CallOK(c)

\* What leaves a lease is the outcome of the attempt that holds it: a row is
\* marked published only if the broker accepted the publication of the very
\* attempt that owns it, failed or dead-lettered only if that attempt was
\* refused.  A slow call whose lease was reclaimed cannot write over its
\* successor (mark_outbox_event_published / _failed WHERE lease_attempt_id).
OutcomeBelongsToOwner ==
    [][\A e \in Events : status[e] = "leased" =>
         /\ status'[e] = "published" => leasedBy[e] \in acked[e]
         /\ status'[e] \in {"failed", "dead_letter"} => leasedBy[e] \in nacked[e]]_vars

\* A call that is about to write down an answer has had that answer from the
\* broker.  (With TypeOK this makes OutcomeBelongsToOwner inductive.)
AnswerKnown ==
    \A c \in Calls : call[c].pc = "mark" =>
        IF call[c].accepted THEN call[c].key \in acked[call[c].sending]
                            ELSE call[c].key \in nacked[call[c].sending]

\* The outbox never gives up on an event that the broker refused fewer times
\* than the smallest retry limit, and a retry is counted only for a refusal:
\* neither a crash, an expired lease nor a stale mark consumes one.
RetriesAreRefusals ==
    \A e \in Events :
        /\ retries[e] <= Cardinality(nacked[e])
        /\ status[e] = "dead_letter" =>
               \E limit \in RetryLimits : retries[e] >= limit

\* Two attempts are never both handing an event to the broker while the lease
\* of each is still running.
OnePublisherPerLiveLease ==
    \A c, d \in Calls : \A e \in Events :
        /\ c # d
        /\ e \in call[c].todo \cap call[d].todo
        => \/ call[c].at + LeaseDuration <= now
           \/ call[d].at + LeaseDuration <= now

\* A call that does not crash leaves none of its leases behind: each event it
\* claimed ends published, failed, quarantined or in the hands of another.
ClaimsAreSettled ==
    \A c \in Calls, e \in Events :
        (call[c].pc \in {"publish", "mark"} /\ Owns(e, call[c].key))
            ~> (~Owns(e, call[c].key) \/ call[c].pc = "crashed")

-----------------------------------------------------------------------------
(* The outbox implements its promise.                                      *)

PostureOf(e) ==
    CASE status[e] \in {"pending", "leased", "failed"} -> "pending"
      [] status[e] = "dead_letter" -> "quarantined"
      [] OTHER -> status[e]

Promise == INSTANCE OutboxPromise WITH
    Redrives <- MaxRecoveries,
    posture <- [e \in Events |-> PostureOf(e)],
    delivered <- {e \in Events : acked[e] # {}},
    redriven <- [e \in Events |-> Cardinality(RecoveriesOf(e))]

\* Every step of the runs, the re-drives and the crashes is a step of the
\* at-least-once promise of OutboxPromise, or none: no event is marked
\* published that the broker never accepted, none leaves the quarantine but by
\* one of its re-drives, and none disappears.
ImplementsPromise == Promise!PromiseSpec
=============================================================================
