------------------------ MODULE DownstreamSubmission ------------------------
(***************************************************************************)
(* Submission of one candidate's work to its downstream owners.            *)
(*                                                                         *)
(* A caller submits a conversion intent to Advise or Manage, or a report   *)
(* evidence pack to Report, under an idempotency key.  The claim is a row  *)
(* committed before the first POST; the answer is recorded in a second     *)
(* transaction.  A call whose outcome is not known leaves its row open     *)
(* for the operator or for a recovery that reads the owner.  Claims and    *)
(* the erasure of the candidate exclude each other by a lock on the        *)
(* candidate's lifecycle control, "fence" here.                            *)
(*                                                                         *)
(* Every database transaction, every request that reaches an owner and     *)
(* every read of an owner is one action.  A call may crash anywhere.       *)
(***************************************************************************)
EXTENDS Integers, FiniteSets

CONSTANTS
    AdviseIntents,   \* conversion intents for lotus-advise
    ManageIntents,   \* conversion intents for lotus-manage
    ReportPacks,     \* report evidence packs for lotus-report
    Keys,            \* Idempotency-Key values, one support reference each
    SubmitCalls,     \* invocations of POST .../downstream-submissions
    RecoveryCalls,   \* invocations of the three owner reconciliation routes
    MaxTries,        \* retry_max_attempts of the HTTP client
    MaxVersion,      \* bound of an owner's event version
    None             \* the NULL of a column

Intents == AdviseIntents \cup ManageIntents
Resources == Intents \cup ReportPacks
Calls == SubmitCalls \cup RecoveryCalls

ASSUME SubmissionAssumption ==
    /\ AdviseIntents \cap ManageIntents = {}
    /\ Intents \cap ReportPacks = {}
    /\ SubmitCalls \cap RecoveryCalls = {}
    /\ MaxTries \in Nat \ {0}
    /\ MaxVersion \in Nat \ {0}
    /\ None \notin Calls \cup Keys \cup Resources
    /\ "lifecycle" \notin Calls \cup {None}

VARIABLES
    posture,    \* idea_downstream_submission.status, "absent" without a row
    subject,    \* (resource_type, resource_id, target) of the row
    receipt,    \* source_event_version of its owner receipt, 0 for none
    leaseLive,  \* lease_expires_at_utc is still ahead
    author,     \* who wrote the last entry of audit_json
    change,     \* owner version its change_reference names, 0 otherwise
    history,    \* version of the local copy of the owner's history, 0 for none
    state,      \* idea_data_lifecycle_control.state of the candidate
    heldFrom,   \* .held_from_state
    fence,      \* who holds the row lock of that control
    erasure,    \* what the erasure under way has counted
    erased,     \* how the last erasure ended
    authorized, \* intents whose evidence and review authority are current
    call,       \* what each invocation holds in memory
    transit,    \* requests <<call, try>> on their way to an owner
    posted,     \* resource -> calls that ever sent a POST for it
    owner       \* what each owner decided, and its current version

submission == <<posture, subject, receipt, leaseLive, author, change, history>>
lifecycle == <<state, heldFrom, fence, erasure, erased>>
wire == <<transit, posted, owner>>
vars == <<submission, lifecycle, authorized, call, wire>>

Postures == {"absent", "in_flight", "accepted", "rejected", "not_configured",
             "reconciliation_required", "quarantined"}
Open == {"in_flight", "reconciliation_required"}
Answers == {"none", "accepted", "rejected", "refused", "unknown", "unconfigured"}
Versions == 0 .. MaxVersion

\* A call in one of these has a committed claim and has not recorded its end.
Submitting == {"post", "await", "finalize"}
Running == {"lookup", "fence", "insert"} \cup Submitting
              \cup {"read", "reconcile", "persist"}

\* What an invocation knows when it begins.
Begun(pc, key, resource, valid, seen) ==
    [pc |-> pc, key |-> key, resource |-> resource, valid |-> valid,
     seen |-> seen, tries |-> 0, answer |-> "none", version |-> 0]

NoCall == Begun("idle", None, None, FALSE, 0)

\* A call that is over remembers only who it was.
Over(c, pc) == Begun(pc, call[c].key, call[c].resource, FALSE, 0)

\* held_from_state or state
EffectiveState == IF state = "held" THEN heldFrom ELSE state

Rows == {k \in Keys : posture[k] # "absent"}

-----------------------------------------------------------------------------
Init ==
    /\ posture = [k \in Keys |-> "absent"]
    /\ subject = [k \in Keys |-> None]
    /\ receipt = [k \in Keys |-> 0]
    /\ leaseLive = [k \in Keys |-> FALSE]
    /\ author = [k \in Keys |-> "nobody"]
    /\ change = [k \in Keys |-> 0]
    /\ history = [k \in Keys |-> 0]
    /\ state = "active"
    /\ heldFrom = "active"
    /\ fence = None
    /\ erasure = "idle"
    /\ erased = "never"
    /\ authorized = Intents
    /\ call = [c \in Calls |-> NoCall]
    /\ transit = {}
    /\ posted = [r \in Resources |-> {}]
    /\ owner = [r \in Resources |-> [decision |-> "none", version |-> 0]]

\* A grant expires or is revoked, or the candidate's evidence moves on.
AuthorityLapses(r) ==
    /\ r \in authorized
    /\ authorized' = authorized \ {r}
    /\ UNCHANGED <<submission, lifecycle, call, wire>>

-----------------------------------------------------------------------------
(* A submission, up to its claim.                                          *)

\* The candidate is loaded first, and what it says of the intent is kept.
BeginSubmit(c) ==
    /\ call[c].pc = "idle"
    /\ \E key \in Keys, r \in Resources :
         call' = [call EXCEPT ![c] =
                     Begun("lookup", key, r, r \notin Intents \/ r \in authorized, 0)]
    /\ UNCHANGED <<submission, lifecycle, authorized, wire>>

\* Only the first attempt under a key is validated; a report pack never is.
LookupKey(c) ==
    /\ call[c].pc = "lookup"
    /\ \/ /\ posture[call[c].key] # "absent" \/ call[c].valid
          /\ call' = [call EXCEPT ![c] = [@ EXCEPT !.pc = "fence"]]
       \/ /\ posture[call[c].key] = "absent" /\ ~call[c].valid
          /\ call' = [call EXCEPT ![c] = Over(c, "done")]   \* AUTHORITY_CONFLICT
    /\ UNCHANGED <<submission, lifecycle, authorized, wire>>

\* Deviations of the definitions of this module, each a bug the properties
\* must notice, carry a suffix that says what is wrong with them.
TakeFence_NoStateCheck(c) ==
    /\ call[c].pc = "fence"
    /\ fence = None
    /\ fence' = c
    /\ call' = [call EXCEPT ![c] = [@ EXCEPT !.pc = "insert"]]
    /\ UNCHANGED <<submission, state, heldFrom, erasure, erased, authorized, wire>>

\* SELECT ... FOR UPDATE OF lifecycle: waits for the lock, then looks.
TakeFence(c) ==
    /\ call[c].pc = "fence"
    /\ fence = None
    /\ \/ /\ EffectiveState = "active"
          /\ fence' = c
          /\ call' = [call EXCEPT ![c] = [@ EXCEPT !.pc = "insert"]]
       \/ /\ EffectiveState # "active"
          /\ call' = [call EXCEPT ![c] = Over(c, "done")]
          /\ UNCHANGED fence
    /\ UNCHANGED <<submission, state, heldFrom, erasure, erased, authorized, wire>>

InsertRow(k, r) ==
    /\ posture' = [posture EXCEPT ![k] = "in_flight"]
    /\ subject' = [subject EXCEPT ![k] = r]
    /\ leaseLive' = [leaseLive EXCEPT ![k] = TRUE]
    /\ author' = [author EXCEPT ![k] = "claimant"]
    /\ UNCHANGED <<receipt, change, history>>

Unclaimed_KeyOnly(k, r) == posture[k] = "absent"

\* Both unique indexes of the table let the row in.
Unclaimed(k, r) == posture[k] = "absent" /\ \A j \in Rows : subject[j] # r

(***************************************************************************)
(* INSERT ... ON CONFLICT DO NOTHING and the commit that drops the lock.   *)
(* Only the claim that inserted its row goes on to the owner; a replay, a  *)
(* conflict and an open submission all end the call here.                  *)
(***************************************************************************)
InsertClaim(c) ==
    /\ call[c].pc = "insert"
    /\ fence' = None
    /\ LET k == call[c].key
           r == call[c].resource
       IN  \/ /\ Unclaimed(k, r)
              /\ InsertRow(k, r)
              /\ \/ call' = [call EXCEPT ![c] = [@ EXCEPT !.pc = "post"]]
                 \/ call' = [call EXCEPT ![c] =        \* no adapter configured
                       [@ EXCEPT !.pc = "finalize", !.answer = "unconfigured"]]
           \/ /\ ~Unclaimed(k, r)
              /\ call' = [call EXCEPT ![c] = Over(c, "done")]
              /\ UNCHANGED submission
    /\ UNCHANGED <<state, heldFrom, erasure, erased, authorized, wire>>

-----------------------------------------------------------------------------
(* The POST, its retries, and the owner at the other end.                  *)

Post(c) ==
    /\ call[c].pc = "post"
    /\ transit' = transit \cup {<<c, call[c].tries + 1>>}
    /\ posted' = [posted EXCEPT ![call[c].resource] = @ \cup {c}]
    /\ call' = [call EXCEPT ![c] =
                   [@ EXCEPT !.pc = "await", !.tries = call[c].tries + 1]]
    /\ UNCHANGED <<submission, lifecycle, authorized, owner>>

\* The response reaches a call that still waits for this very try.
Hears(c, n) == call[c].pc = "await" /\ call[c].tries = n

Hear(c, answer, version) ==
    call' = [call EXCEPT ![c] =
                [@ EXCEPT !.pc = "finalize", !.answer = answer, !.version = version]]

\* source_event_version of the receipt: of an intake its first event
ReceiptVersion(r, answer) ==
    IF answer = "accepted"
    THEN IF r \in ReportPacks /\ owner[r].version > 0 THEN owner[r].version ELSE 1
    ELSE IF r \in AdviseIntents THEN 1 ELSE 0

(***************************************************************************)
(* The owner, who knows a resource by its identity, decides once and       *)
(* repeats its decision.  Advise keeps rejections, Manage does not and     *)
(* Report answers none.  Its response may be lost, late or unreadable:     *)
(* then nobody hears it.                                                   *)
(***************************************************************************)
OwnerServes(c, n) ==
    /\ <<c, n>> \in transit
    /\ transit' = transit \ {<<c, n>>}
    /\ LET r == call[c].resource
       IN \E answer \in {"accepted", "rejected"} :
            /\ owner[r].decision \in {"none", answer}
            /\ answer = "rejected" => r \in Intents
            /\ owner' = [owner EXCEPT ![r] =
                  IF @.decision = "none" /\ (answer = "accepted" \/ r \in AdviseIntents)
                  THEN [decision |-> answer, version |-> 1] ELSE @]
            /\ \/ Hears(c, n) /\ Hear(c, answer, ReceiptVersion(r, answer))
               \/ UNCHANGED call
    /\ UNCHANGED <<submission, lifecycle, authorized, posted>>

\* A 4xx: nothing was done.  A 429 is tried again while tries are left.
OwnerRefuses(c, n) ==
    /\ <<c, n>> \in transit
    /\ transit' = transit \ {<<c, n>>}
    /\ \/ Hears(c, n) /\ Hear(c, "refused", 0)
       \/ /\ Hears(c, n) /\ n < MaxTries
          /\ call' = [call EXCEPT ![c] = [@ EXCEPT !.pc = "post"]]
       \/ UNCHANGED call
    /\ UNCHANGED <<submission, lifecycle, authorized, posted, owner>>

LoseRequest(c, n) ==
    /\ <<c, n>> \in transit
    /\ transit' = transit \ {<<c, n>>}
    /\ UNCHANGED <<submission, lifecycle, authorized, call, posted, owner>>

GiveUp_NoLimit(c) ==
    /\ call[c].pc = "await"
    /\ \/ call' = [call EXCEPT ![c] = [@ EXCEPT !.pc = "post"]]
       \/ Hear(c, "unknown", 0)
    /\ UNCHANGED <<submission, lifecycle, authorized, wire>>

GiveUp_OnlyRetries(c) ==
    /\ call[c].pc = "await"
    /\ call[c].tries < MaxTries
    /\ call' = [call EXCEPT ![c] = [@ EXCEPT !.pc = "post"]]
    /\ UNCHANGED <<submission, lifecycle, authorized, wire>>

GiveUp_AssumesRejected(c) ==
    /\ call[c].pc = "await"
    /\ \/ /\ call[c].tries < MaxTries
          /\ call' = [call EXCEPT ![c] = [@ EXCEPT !.pc = "post"]]
       \/ Hear(c, "rejected", 0)
    /\ UNCHANGED <<submission, lifecycle, authorized, wire>>

\* Timeout, broken connection, 5xx, unreadable answer: a retry or "unknown".
GiveUp(c) ==
    /\ call[c].pc = "await"
    /\ \/ /\ call[c].tries < MaxTries
          /\ call' = [call EXCEPT ![c] = [@ EXCEPT !.pc = "post"]]
       \/ Hear(c, "unknown", 0)
    /\ UNCHANGED <<submission, lifecycle, authorized, wire>>

\* Later events of accepted work.
OwnerAdvances(r) ==
    /\ owner[r].decision = "accepted"
    /\ owner[r].version < MaxVersion
    /\ owner' = [owner EXCEPT ![r] = [@ EXCEPT !.version = owner[r].version + 1]]
    /\ UNCHANGED <<submission, lifecycle, authorized, call, transit, posted>>

-----------------------------------------------------------------------------
(* Recording the outcome.                                                  *)

\* _posture_from_outcome, and the two postures a call without outcome gets
FinalPosture(answer) ==
    CASE answer = "accepted"                  -> "accepted"
      [] answer \in {"rejected", "refused"}   -> "rejected"
      [] answer = "unconfigured"              -> "not_configured"
      [] OTHER                                -> "reconciliation_required"

\* One more entry of audit_json; a receipt is kept unless a new one comes.
Transition(k, to, by, version, ref) ==
    /\ posture' = [posture EXCEPT ![k] = to]
    /\ author' = [author EXCEPT ![k] = by]
    /\ change' = [change EXCEPT ![k] = ref]
    /\ receipt' = [receipt EXCEPT ![k] = IF version > 0 THEN version ELSE @]
    /\ UNCHANGED <<subject, leaseLive, history>>

Finalizable_AnyPosture(k) == posture[k] # "absent"

\* The lease of a row is its claimant's for good; its expiry is not looked at.
Finalizable(k) == posture[k] = "in_flight"

Finalize(c) ==
    /\ call[c].pc = "finalize"
    /\ LET me == call[c] IN
       \/ /\ Finalizable(me.key)
          /\ Transition(me.key, FinalPosture(me.answer), "adapter", me.version, 0)
       \/ /\ ~Finalizable(me.key)
          /\ UNCHANGED submission
    /\ call' = [call EXCEPT ![c] = Over(c, "done")]
    /\ UNCHANGED <<lifecycle, authorized, wire>>

LeaseExpires(k) ==
    /\ posture[k] = "in_flight" /\ leaseLive[k]
    /\ leaseLive' = [leaseLive EXCEPT ![k] = FALSE]
    /\ UNCHANGED <<posture, subject, receipt, author, change, history, lifecycle,
                   authorized, call, wire>>

(***************************************************************************)
(* The operator resolves an open submission, leased or not, after looking  *)
(* at the owner by other means.                                            *)
(***************************************************************************)
OperatorResolves(k) ==
    /\ posture[k] \in Open
    /\ \E resolution \in {"accepted", "rejected", "quarantined"} :
         Transition(k, resolution, "operator", 0, 0)
    /\ UNCHANGED <<lifecycle, authorized, call, wire>>

-----------------------------------------------------------------------------
(* Recovery: load the row, read the owner, reconcile, keep the history.    *)

\* _submission_eligibility_blocker of the three routes
Recoverable(k) ==
    \/ posture[k] = "in_flight" /\ ~leaseLive[k]
    \/ posture[k] = "reconciliation_required"
    \/ posture[k] = "accepted" /\ receipt[k] > 0
    \/ posture[k] = "rejected" /\ receipt[k] > 0 /\ subject[k] \in Intents

BeginRecovery(c) ==
    /\ call[c].pc = "idle"
    /\ \E k \in Rows :
         /\ Recoverable(k)
         /\ call' = [call EXCEPT ![c] =
                        Begun("read", k, subject[k], FALSE, receipt[k])]
    /\ UNCHANGED <<submission, lifecycle, authorized, wire>>

(***************************************************************************)
(* A read that finds nothing, fails or finds an older version than the     *)
(* stored receipt's ends the recovery, as does the version already stored. *)
(* An intent with a receipt goes straight on to its history.               *)
(***************************************************************************)
ReadOwner(c) ==
    /\ call[c].pc = "read"
    /\ LET me == call[c]
           o == owner[me.resource]
           pc == IF me.resource \in Intents /\ me.seen > 0
                 THEN "persist" ELSE "reconcile"
       IN  \/ call' = [call EXCEPT ![c] = Over(c, "done")]
           \/ /\ o.decision # "none"
              /\ me.resource \in ReportPacks => o.version > me.seen
              /\ call' = [call EXCEPT ![c] = [@ EXCEPT !.pc = pc,
                             !.answer = o.decision, !.version = o.version]]
    /\ UNCHANGED <<submission, lifecycle, authorized, wire>>

\* classify_report_owner_receipt_progress = ADVANCED
Advances(k, version) == posture[k] = "accepted" /\ receipt[k] > 0 /\ version > receipt[k]

Reconcilable_TrustsLoad(k, me) ==
    \/ posture[k] \in Open
    \/ posture[k] = "accepted" /\ me.resource \in ReportPacks

\* reconcile_downstream_submission, asked again of the locked row
Reconcilable(k, me) ==
    \/ posture[k] \in Open
    \/ me.resource \in ReportPacks /\ Advances(k, me.version)

\* Another recovery by the same actor got there with the same owner version.
Replays(k, me) == /\ author[k] = "recovery"
                  /\ change[k] = me.version
                  /\ posture[k] = me.answer

Reconcile(c) ==
    /\ call[c].pc = "reconcile"
    /\ LET me == call[c]
           k == me.key
           isPack == me.resource \in ReportPacks
           next == [call EXCEPT ![c] = IF isPack THEN Over(c, "done")
                                       ELSE [me EXCEPT !.pc = "persist"]]
       IN  \/ /\ Reconcilable(k, me)
              /\ Transition(k, me.answer, "recovery",
                            IF isPack THEN me.version ELSE 1, me.version)
              /\ call' = next
           \/ /\ Replays(k, me)
              /\ call' = next
              /\ UNCHANGED submission
           \/ /\ ~Reconcilable(k, me)
              /\ call' = [call EXCEPT ![c] = Over(c, "done")]
              /\ UNCHANGED submission
    /\ UNCHANGED <<lifecycle, authorized, wire>>

\* evaluate_*_realization_history_mutation: strictly later than the copy
Extends(k, version) == version >= receipt[k] /\ version > history[k]

PersistHistory(c) ==
    /\ call[c].pc = "persist"
    /\ LET me == call[c]
           k == me.key
           fits == posture[k] \in {"accepted", "rejected"} /\ receipt[k] > 0
       IN  \/ /\ fits /\ Extends(k, me.version)
              /\ history' = [history EXCEPT ![k] = me.version]
           \/ /\ ~(fits /\ Extends(k, me.version))
              /\ UNCHANGED history
    /\ call' = [call EXCEPT ![c] = Over(c, "done")]
    /\ UNCHANGED <<posture, subject, receipt, leaseLive, author, change, lifecycle,
                   authorized, wire>>

-----------------------------------------------------------------------------
(* The lifecycle of the candidate.                                         *)

\* The erasure locks the control first and counts what is active after.
CountForErasure ==
    /\ fence = None
    /\ state = "active"
    /\ fence' = "lifecycle"
    /\ \E outboxPending \in BOOLEAN :
         erasure' = IF outboxPending \/ \E k \in Keys : posture[k] \in Open
                    THEN "busy" ELSE "clear"
    /\ UNCHANGED <<submission, state, heldFrom, erased, authorized, call, wire>>

(***************************************************************************)
(* The redaction writes an object into audit_json, which the table accepts *)
(* only as an array: it can succeed only where it meets no row.            *)
(***************************************************************************)
Redactable == Rows = {}

ApplyErasure ==
    /\ erasure # "idle"
    /\ erasure' = "idle"
    /\ fence' = None
    /\ \/ /\ erasure = "busy"
          /\ erased' = "blocked"
          /\ UNCHANGED state
       \/ /\ erasure = "clear" /\ Redactable
          /\ erased' = "applied"
          /\ state' = "erased"
       \/ /\ erasure = "clear" /\ ~Redactable      \* CheckViolation, rollback
          /\ erased' = "failed"
          /\ UNCHANGED state
    /\ UNCHANGED <<submission, heldFrom, authorized, call, wire>>

ApplyHold ==
    /\ fence = None
    /\ state # "held"
    /\ state' = "held"
    /\ heldFrom' = state
    /\ UNCHANGED <<submission, fence, erasure, erased, authorized, call, wire>>

ReleaseHold ==
    /\ fence = None
    /\ state = "held"
    /\ state' = heldFrom
    /\ heldFrom' = "active"
    /\ UNCHANGED <<submission, fence, erasure, erased, authorized, call, wire>>

\* After the retention period: the rows go, and with them the histories.
Purge ==
    /\ fence = None
    /\ state = "erased"
    /\ \A k \in Keys : posture[k] \notin Open
    /\ state' = "purged"
    /\ posture' = [k \in Keys |-> "absent"]
    /\ subject' = [k \in Keys |-> None]
    /\ receipt' = [k \in Keys |-> 0]
    /\ leaseLive' = [k \in Keys |-> FALSE]
    /\ author' = [k \in Keys |-> "nobody"]
    /\ change' = [k \in Keys |-> 0]
    /\ history' = [k \in Keys |-> 0]
    /\ UNCHANGED <<heldFrom, fence, erasure, erased, authorized, call, wire>>

-----------------------------------------------------------------------------
\* The process dies; the database rolls its open transaction back.
Crash(c) ==
    /\ call[c].pc \in Running
    /\ call' = [call EXCEPT ![c] = Over(c, "crashed")]
    /\ fence' = IF fence = c THEN None ELSE fence
    /\ UNCHANGED <<submission, state, heldFrom, erasure, erased, authorized, wire>>

SubmitStep(c) ==
    \/ LookupKey(c) \/ TakeFence(c) \/ InsertClaim(c) \/ Post(c) \/ GiveUp(c)
    \/ Finalize(c)

RecoveryStep(c) == ReadOwner(c) \/ Reconcile(c) \/ PersistHistory(c)

Network == \E c \in SubmitCalls, n \in 1 .. MaxTries :
              OwnerServes(c, n) \/ OwnerRefuses(c, n) \/ LoseRequest(c, n)

Lifecycle == CountForErasure \/ ApplyErasure \/ ApplyHold \/ ReleaseHold \/ Purge

Next ==
    \/ \E c \in SubmitCalls : BeginSubmit(c) \/ SubmitStep(c)
    \/ \E c \in RecoveryCalls : BeginRecovery(c) \/ RecoveryStep(c)
    \/ \E c \in Calls : Crash(c)
    \/ Network
    \/ \E r \in Resources : OwnerAdvances(r) \/ AuthorityLapses(r)
    \/ \E k \in Keys : OperatorResolves(k) \/ LeaseExpires(k)
    \/ Lifecycle

Spec == Init /\ [][Next]_vars

(***************************************************************************)
(* A begun call is a thread running straight-line code with timeouts, and  *)
(* an erasure that holds the lock a transaction on its way to commit: each *)
(* takes its next step.  The lock passes on (strong fairness); nobody else *)
(* is bound to act.                                                        *)
(***************************************************************************)
FairSpec ==
    /\ Spec
    /\ WF_vars(ApplyErasure)
    /\ \A c \in SubmitCalls : WF_vars(SubmitStep(c)) /\ SF_vars(TakeFence(c))
    /\ \A c \in RecoveryCalls : WF_vars(RecoveryStep(c))

-----------------------------------------------------------------------------
(* What the submission must keep.                                          *)

CallType == [pc : Running \cup {"idle", "done", "crashed"},
             key : Keys \cup {None},
             resource : Resources \cup {None},
             valid : BOOLEAN,
             seen : Versions,
             tries : 0 .. MaxTries,
             answer : Answers,
             version : Versions]

RowsOK ==
    /\ posture \in [Keys -> Postures]
    /\ subject \in [Keys -> Resources \cup {None}]
    /\ receipt \in [Keys -> Versions]
    /\ leaseLive \in [Keys -> BOOLEAN]
    /\ author \in [Keys -> {"nobody", "claimant", "adapter", "operator", "recovery"}]
    /\ change \in [Keys -> Versions]
    /\ history \in [Keys -> Versions]
    /\ \A k \in Rows : subject[k] \in Resources

LifecycleOK ==
    /\ state \in {"active", "held", "erased", "purged"}
    /\ heldFrom \in {"active", "erased", "purged"}
    /\ fence \in Calls \cup {"lifecycle", None}
    /\ erasure \in {"idle", "busy", "clear"}
    /\ erased \in {"never", "blocked", "applied", "failed"}

WireOK ==
    /\ transit \in SUBSET (SubmitCalls \X (1 .. MaxTries))
    /\ posted \in [Resources -> SUBSET SubmitCalls]
    /\ owner \in [Resources -> [decision : {"none", "accepted", "rejected"},
                                version : Versions]]

\* Every column and every variable of a call holds a value of its kind.
TypeOK ==
    /\ RowsOK
    /\ LifecycleOK
    /\ WireOK
    /\ authorized \in SUBSET Intents
    /\ call \in [Calls -> CallType]

(***************************************************************************)
(* However many keys, calls, crashes and erasures there are, one call at   *)
(* most ever sends a POST for a resource (downstream-realization-readiness *)
(* .md:94, "exactly one local submission identity").                       *)
(***************************************************************************)
OneSenderPerResource ==
    \A r \in Resources : \A c, d \in posted[r] : c = d

(***************************************************************************)
(* No call talks to an owner about a candidate whose data has been erased: *)
(* the claim and the erasure exclude each other (data-lifecycle-operations *)
(* .md:191).                                                               *)
(***************************************************************************)
ErasureExcludesDelivery ==
    \A c \in SubmitCalls : call[c].pc \in Submitting => EffectiveState = "active"

(***************************************************************************)
(* What was not decided by an operator is what the owner decided: accepted *)
(* work is accepted there, and work recorded as rejected is not.  For a    *)
(* client that tries once, the default.                                    *)
(***************************************************************************)
PostureIsTheOwnersWord ==
    \A k \in Rows : author[k] \in {"adapter", "recovery"} =>
        /\ posture[k] = "accepted" => owner[subject[k]].decision = "accepted"
        /\ posture[k] = "rejected" => owner[subject[k]].decision # "accepted"

(***************************************************************************)
(* A resolution is final: a late answer never overwrites what an operator  *)
(* or a recovery has settled, and nothing reopens a submission.            *)
(***************************************************************************)
ResolutionIsFinal ==
    [][\A k \in Rows : posture[k] \notin Open =>
           posture'[k] \in {posture[k], "absent"}]_vars

\* Receipts and histories only ever move on to later owner versions, whatever
\* the order in which concurrent recoveries commit what they read.
EvidenceNeverRegresses ==
    [][\A k \in Keys : posture'[k] # "absent" =>
           receipt'[k] >= receipt[k] /\ history'[k] >= history[k]]_vars

(***************************************************************************)
(* A claim does not stay in flight because of its caller: it is resolved,  *)
(* or the call that holds it has crashed.                                  *)
(***************************************************************************)
ClaimsSettle ==
    \A k \in Keys : posture[k] = "in_flight" ~>
        \/ posture[k] # "in_flight"
        \/ \E c \in SubmitCalls : call[c].key = k /\ call[c].pc = "crashed"

-----------------------------------------------------------------------------
(* What the documents say of the program and the code does not keep.       *)

\* An erasure either wins or records an active-delivery blocker
\* (data-lifecycle-operations.md:191).
ErasureWinsOrIsBlocked == erased \in {"never", "applied", "blocked"}
=============================================================================
