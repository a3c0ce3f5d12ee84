------------------------- MODULE CandidateAggregate -------------------------
(***************************************************************************)
(* One idea candidate under concurrent requests.                           *)
(*                                                                         *)
(* A source evaluation persists or expires the candidate, operators move   *)
(* it along its lifecycle, reviewers decide on it and give feedback, and   *)
(* approved candidates are converted and packed for reports.  A request    *)
(* first loads the candidate without a lock and judges what it loaded; a   *)
(* transaction then takes the advisory lock of the candidate, loads it     *)
(* again, rules on the request and writes.  Two things do not take that    *)
(* lock: the erasure of the candidate, and the reservation of a key for a  *)
(* request that repeats a review or a feedback event.                      *)
(*                                                                         *)
(* updated_at_utc is left out: where the code compares whole candidates    *)
(* the model compares what it keeps of them, and so refuses less.          *)
(***************************************************************************)
EXTENDS CandidatePolicy, FiniteSets

CONSTANTS
    Callers,      \* requests under way at one time
    Keys,         \* Idempotency-Key values that may be sent more than once
    Fresh,        \* any key that is never sent again
    Reviews,      \* review ids
    Feedbacks,    \* feedback ids
    ReadyProofs,  \* those of READY evidence from an authoritative source cut
    Requests,     \* the operations the clients of an instance use
    Keyed,        \* those they may send again under the same key
    Steps,        \* the statuses they set
    Actions,      \* the review actions they take
    Targets,      \* the conversion targets they name
    MaxMaterial,  \* bound of material versions
    MaxEvidence   \* bound of evidence versions

Ops == {"persist", "transition", "expire", "review", "feedback", "intent", "pack"}

CallerSettable == Discovery \cup {"ready_for_review"}

ReviewActions == {"approve", "reject", "no_action", "suppress", "snooze",
                  "escalate_to_pm", "escalate_to_compliance"}
ConversionTargets == {"proposal", "manage_review", "report"}

ASSUME AggregateAssumption ==
    /\ Fresh \notin Keys
    /\ None \notin Callers
    /\ ReadyProofs \subseteq Proofs
    /\ Arrival \in {"advisor_review_required", "pm_review_required"}
    /\ Requests \subseteq Ops
    /\ Keyed \subseteq Requests
    /\ Steps \subseteq CallerSettable
    /\ Actions \subseteq ReviewActions
    /\ Targets \subseteq ConversionTargets

VARIABLES
    cand,       \* the candidate row
    decisions,  \* review decisions; an approval is also a grant
    feedback,   \* feedback events
    intents,    \* conversion intents, each under the review that grants it
    packs,      \* report evidence packs
    keys,       \* key -> request it was recorded for
    expiries,   \* material versions whose expiry key is recorded
    erased,     \* the lifecycle control of the candidate says erased
    lock,       \* who holds the advisory lock of the candidate
    call,       \* caller -> its request
    faults      \* server faults that were answered

record == <<cand, decisions, feedback, intents, packs>>
recordedKeys == <<keys, expiries>>
vars == <<record, recordedKeys, erased, lock, call, faults>>

Evidence == [mv : Nat, ev : Nat, proof : Proofs]

\* CandidateEvidenceIdentity
IdentityOf(c) == [mv |-> c.mv, ev |-> c.ev, proof |-> c.proof]

\* The candidate as every load sees it: an erased one is not found.
Present == cand.status # "absent" /\ ~erased

\* id: of a review or feedback event; to: status, action or target; about:
\* the facts evaluated, or the intent packed; at: the evidence identity.
Cmd(op, key, id, to, about, at) ==
    [op |-> op, key |-> key, id |-> id, to |-> to, about |-> about, at |-> at]

NoCall == [stage |-> "idle", cmd |-> Cmd("persist", Fresh, None, "none", None, None),
           src |-> Absent, attempt |-> 0, bare |-> FALSE]

-----------------------------------------------------------------------------
(* What reviews and conversions make of a candidate.                       *)

\* Statuses in which a review action is open.
Decidable == {"ready_for_review", "reviewed_by_advisor"}
OpenFor(action) ==
    IF action \in {"approve", "reject", "no_action"} THEN Decidable
    ELSE Decidable \cup (Discovery \ {"detected"})

Reviewed(c, action) ==
    CASE action = "approve" -> Transitioned(c, "approved")
      [] action = "reject" -> Transitioned(c, "rejected")
      [] action = "no_action" -> Transitioned(c, "closed")
      [] action = "suppress" -> [c EXCEPT !.posture = "suppressed"]
      [] action = "escalate_to_pm" -> [c EXCEPT !.posture = "pm_review_required"]
      [] action = "escalate_to_compliance"
           -> [c EXCEPT !.posture = "compliance_review_required"]
      [] OTHER -> c

ConvertedTo_ItsTarget(target) == target

ConvertedTo(target) ==
    CASE target = "proposal" -> "converted_to_proposal"
      [] target = "manage_review" -> "converted_to_manage_review"
      [] OTHER -> "converted_to_report"

-----------------------------------------------------------------------------
(* What a request has to say of the records it would add.                  *)

Decision(cmd) == [review |-> cmd.id, action |-> cmd.to, at |-> cmd.at]
Event(cmd) == [id |-> cmd.id, proof |-> cmd.at.proof]   \* knows no versions
Intent(cmd) == [review |-> cmd.id, at |-> cmd.at, target |-> cmd.to]
Pack(cmd) == [intent |-> cmd.about, proof |-> cmd.at.proof]

\* An approval carries the authority to convert what was approved.
Grant(review, at) == [review |-> review, action |-> "approve", at |-> at]

\* The id of the request names a review, or a feedback event, on record.
Claimed(cmd) ==
    \/ cmd.op = "review" /\ \E d \in decisions : d.review = cmd.id
    \/ cmd.op = "feedback" /\ \E e \in feedback : e.id = cmd.id

\* ... and the request is the very same.
Repeated(cmd) ==
    \/ cmd.op = "review" /\ Decision(cmd) \in decisions
    \/ cmd.op = "feedback" /\ Event(cmd) \in feedback

(***************************************************************************)
(* What the request's key is recorded for.  The key of an expiry is made   *)
(* of the candidate and of the material version that was loaded.           *)
(***************************************************************************)
Stored(cmd, src) ==
    IF cmd.op = "expire" THEN IF src.mv \in expiries THEN cmd ELSE None
    ELSE IF cmd.key = Fresh THEN None ELSE keys[cmd.key]

RecordKey(cmd, src) ==
    /\ keys' = IF cmd.op = "expire" \/ cmd.key = Fresh THEN keys
               ELSE [keys EXCEPT ![cmd.key] = cmd]
    /\ expiries' = IF cmd.op = "expire" THEN expiries \cup {src.mv} ELSE expiries

-----------------------------------------------------------------------------
Init ==
    /\ cand = Absent
    /\ decisions = {} /\ feedback = {} /\ intents = {} /\ packs = {}
    /\ keys = [k \in Keys |-> None]
    /\ expiries = {}
    /\ erased = FALSE
    /\ lock = None
    /\ call = [c \in Callers |-> NoCall]
    /\ faults = {}

-----------------------------------------------------------------------------
(* The unlocked load.  A request that is refused here, or answered from    *)
(* the key it was already recorded under, changes nothing and is left out. *)

Start(c, cmd, src) ==
    /\ call[c].stage = "idle"
    /\ cmd.op \in Requests
    /\ cmd.key # Fresh => cmd.op \in Keyed
    /\ Stored(cmd, src) = None
    /\ call' = [call EXCEPT ![c] = [stage |-> "loaded", cmd |-> cmd, src |-> src,
                                    attempt |-> 1, bare |-> FALSE]]
    /\ UNCHANGED <<record, recordedKeys, erased, lock, faults>>

\* Evaluations under way, each of which may add a version.
Arriving == Cardinality({c \in Callers : call[c].stage # "idle" /\ call[c].cmd.op = "persist"})

WithinBounds(f) ==
    \/ erased                          \* none of them will
    \/ cand.mv + Arriving < MaxMaterial /\ cand.ev + Arriving < MaxEvidence
    \/ Arriving = 0 /\ f.material = cand.material /\ cand.ev < MaxEvidence

\* An evaluation is judged by the transaction alone.
LoadPersist(c) ==
    \E k \in Keys \cup {Fresh}, f \in Facts :
        /\ WithinBounds(f)
        /\ Start(c, Cmd("persist", k, None, "none", f, None), Absent)

LoadTransition(c) ==
    /\ Present
    /\ \E k \in Keys \cup {Fresh}, to \in Steps :
         Start(c, Cmd("transition", k, None, to, None, None), Absent)

LoadExpiry(c) ==
    /\ Present
    /\ "expired" \in Onward(cand.status)
    /\ Start(c, Cmd("expire", Fresh, None, "expired", None, None), cand)

LoadReview(c) ==
    /\ Present
    /\ \E k \in Keys \cup {Fresh}, r \in Reviews, a \in Actions :
         LET cmd == Cmd("review", k, r, a, None, IdentityOf(cand))
         IN  /\ ~Claimed(cmd)
             /\ cand.status \in OpenFor(a)
             /\ a = "approve" => cand.proof \in ReadyProofs
             /\ Start(c, cmd, cand)

LoadFeedback(c) ==
    /\ Present
    /\ \E k \in Keys \cup {Fresh}, i \in Feedbacks :
         LET cmd == Cmd("feedback", k, i, "none", None, IdentityOf(cand))
         IN  ~Claimed(cmd) /\ Start(c, cmd, Absent)

\* Two reviews never share an id, so the id names one grant.
LoadIntent(c) ==
    /\ Present
    /\ cand.status = "approved" /\ cand.posture = "approved_for_conversion"
    /\ cand.proof \in ReadyProofs
    /\ \E k \in Keys \cup {Fresh}, r \in Reviews, t \in Targets :
         /\ Grant(r, IdentityOf(cand)) \in decisions
         /\ Start(c, Cmd("intent", k, r, t, None, IdentityOf(cand)), cand)

LoadPack(c) ==
    /\ Present
    /\ cand.status = "converted_to_report" /\ cand.posture = "approved_for_conversion"
    /\ cand.proof \in ReadyProofs
    /\ \E k \in Keys \cup {Fresh}, i \in intents :
         /\ i.target = "report" /\ i.at.proof = cand.proof
         /\ Start(c, Cmd("pack", k, None, "none", i, IdentityOf(cand)), Absent)

\* The evidence a client says it looked at: the current, or an older one.
Seen == {IdentityOf(cand)} \cup {d.at : d \in decisions}

(***************************************************************************)
(* A review or feedback event on record, sent again under a key that is    *)
(* not: the key alone is recorded, at once and without the advisory lock.  *)
(***************************************************************************)
Reserve(k) ==
    /\ Present
    /\ keys[k] = None
    /\ \E op \in {"review", "feedback"} \cap Keyed, i \in Reviews \cup Feedbacks,
          to \in Actions \cup {"none"}, at \in Seen :
         LET cmd == Cmd(op, k, i, to, None, at)
         IN  /\ op = "feedback" => to = "none" /\ at = IdentityOf(cand)
             /\ Repeated(cmd)
             /\ keys' = [keys EXCEPT ![k] = cmd]
    /\ UNCHANGED <<record, expiries, erased, lock, call, faults>>

(***************************************************************************)
(* The answer to a feedback event is looked up under the identity the      *)
(* request would have now, not under the one it was recorded with.         *)
(***************************************************************************)
Found(id) == [id |-> id, proof |-> cand.proof] \in feedback

ReplayFeedback(k) ==
    /\ Present
    /\ keys[k] # None
    /\ keys[k].op = "feedback"
    /\ ~Found(keys[k].id)
    /\ faults' = faults \cup {"evidence_unavailable"}
    /\ UNCHANGED <<record, recordedKeys, erased, lock, call>>

-----------------------------------------------------------------------------
(* The transaction: take the advisory lock, load again, rule.              *)

\* A command judged on a load holds only while the candidate is as loaded.
Standing(me) ==
    CASE me.cmd.op \in {"transition", "expire"} -> me.cmd.to \in Onward(cand.status)
      [] me.cmd.op = "review" -> IF Claimed(me.cmd) THEN Repeated(me.cmd) ELSE cand = me.src
      [] me.cmd.op = "feedback" -> Claimed(me.cmd) => Repeated(me.cmd)
      [] me.cmd.op = "intent" -> cand = me.src /\ Grant(me.cmd.id, me.cmd.at) \in decisions
      [] OTHER -> TRUE

\* Nothing to write but the key.
Bare(me) ==
    \/ Repeated(me.cmd)
    \/ me.cmd.op = "persist" /\ Present /\ Reconciled(cand, me.cmd.about) = cand

Admitted_KeyUnseen(me) ==
    /\ me.attempt = 1 => Stored(me.cmd, me.src) = None
    /\ me.cmd.op = "persist" \/ Present
    /\ Standing(me)

\* An evaluation of a candidate that is not found is a new candidate.
Admitted(me) ==
    /\ Stored(me.cmd, me.src) = None
    /\ me.cmd.op = "persist" \/ Present
    /\ Standing(me)

\* Found under its key, but not under the identity its answer is sought by;
\* that identity is no part of the payload the key is recorded with.
Unanswerable(me) ==
    /\ me.cmd.op = "feedback" /\ Present
    /\ Stored(me.cmd, me.src) # None
    /\ Stored(me.cmd, me.src).op = "feedback" /\ Stored(me.cmd, me.src).id = me.cmd.id
    /\ ~Found(me.cmd.id)

Enter(c) ==
    /\ call[c].stage = "loaded"
    /\ lock = None
    /\ LET me == call[c] IN
       \/ /\ Admitted(me)
          /\ lock' = c
          /\ call' = [call EXCEPT ![c] = [@ EXCEPT !.stage = "writing", !.bare = Bare(me)]]
          /\ UNCHANGED faults
       \/ /\ ~Admitted(me)
          /\ call' = [call EXCEPT ![c] = NoCall]
          /\ faults' = faults \cup
                 (IF Unanswerable(me) THEN {"evidence_unavailable"} ELSE {})
          /\ UNCHANGED lock
    /\ UNCHANGED <<record, recordedKeys, erased>>

Leave(c) ==
    /\ lock' = None
    /\ call' = [call EXCEPT ![c] = NoCall]

\* The write finds the candidate erased since: rollback.
Blocked(c) ==
    /\ call[c].stage = "writing"
    /\ ~call[c].bare /\ erased
    /\ Leave(c)
    /\ UNCHANGED <<record, recordedKeys, erased, faults>>

Passes_Unchecked(me) == TRUE

\* The lifecycle control is looked at only if the candidate is written.
Passes(me) == me.bare \/ ~erased

\* The key was recorded since by a reservation: once more, with a new load.
Collide(c) ==
    /\ call[c].stage = "writing"
    /\ Passes(call[c])
    /\ Stored(call[c].cmd, call[c].src) # None
    /\ lock' = None
    /\ call' = [call EXCEPT ![c] =
                   IF call[c].attempt = 1 THEN [@ EXCEPT !.stage = "loaded", !.attempt = 2]
                                          ELSE NoCall]
    /\ faults' = faults \cup (IF call[c].attempt = 1 THEN {} ELSE {"raced"})
    /\ UNCHANGED <<record, recordedKeys, erased>>

Writable(c) ==
    /\ call[c].stage = "writing"
    /\ Passes(call[c])
    /\ Stored(call[c].cmd, call[c].src) = None

Write(c, op) ==
    /\ Writable(c)
    /\ ~call[c].bare
    /\ call[c].cmd.op = op
    /\ RecordKey(call[c].cmd, call[c].src)
    /\ Leave(c)
    /\ UNCHANGED erased

WriteKey(c) ==
    /\ Writable(c)
    /\ call[c].bare
    /\ RecordKey(call[c].cmd, call[c].src)
    /\ Leave(c)
    /\ faults' = faults \cup
           (IF call[c].cmd.op = "feedback" /\ ~Found(call[c].cmd.id)
            THEN {"evidence_unavailable"} ELSE {})
    /\ UNCHANGED <<record, erased>>

WritePersist(c) ==
    /\ Write(c, "persist")
    /\ cand' = Reconciled(cand, call[c].cmd.about)
    /\ UNCHANGED <<decisions, feedback, intents, packs, faults>>

\* A transition an operator asks for, or an expiry.
WriteTransition(c) ==
    /\ Write(c, "transition") \/ Write(c, "expire")
    /\ cand' = Transitioned(cand, call[c].cmd.to)
    /\ UNCHANGED <<decisions, feedback, intents, packs, faults>>

WriteReview(c) ==
    /\ Write(c, "review")
    /\ cand' = Reviewed(call[c].src, call[c].cmd.to)
    /\ decisions' = decisions \cup {Decision(call[c].cmd)}
    /\ UNCHANGED <<feedback, intents, packs, faults>>

\* The answer is sought under the identity the candidate has by now.
WriteFeedback(c) ==
    /\ Write(c, "feedback")
    /\ feedback' = feedback \cup {Event(call[c].cmd)}
    /\ faults' = faults \cup
           (IF call[c].cmd.at.proof # cand.proof
            THEN {"evidence_unavailable"} ELSE {})
    /\ UNCHANGED <<cand, decisions, intents, packs>>

WriteIntent(c) ==
    /\ Write(c, "intent")
    /\ cand' = Transitioned(call[c].src, ConvertedTo(call[c].cmd.to))
    /\ intents' = intents \cup {Intent(call[c].cmd)}
    /\ UNCHANGED <<decisions, feedback, packs, faults>>

\* The candidate the pack was allowed for is not looked at again.
WritePack(c) ==
    /\ Write(c, "pack")
    /\ packs' = packs \cup {Pack(call[c].cmd)}
    /\ UNCHANGED <<cand, decisions, feedback, intents, faults>>

-----------------------------------------------------------------------------
\* The process dies; the database drops the lock of its open transaction.
Crash(c) ==
    /\ call[c].stage # "idle"
    /\ call' = [call EXCEPT ![c] = NoCall]
    /\ lock' = IF lock = c THEN None ELSE lock
    /\ UNCHANGED <<record, recordedKeys, erased, faults>>

\* The erasure locks the row of the candidate and not its advisory lock.
Erase ==
    /\ Present
    /\ erased' = TRUE
    /\ UNCHANGED <<record, recordedKeys, lock, call, faults>>

Load(c) ==
    \/ LoadPersist(c) \/ LoadTransition(c) \/ LoadExpiry(c) \/ LoadReview(c)
    \/ LoadFeedback(c) \/ LoadIntent(c) \/ LoadPack(c)

Finish(c) ==
    \/ Blocked(c) \/ Collide(c) \/ WriteKey(c)
    \/ WritePersist(c) \/ WriteTransition(c) \/ WriteReview(c)
    \/ WriteFeedback(c) \/ WriteIntent(c) \/ WritePack(c)

Next ==
    \/ \E c \in Callers : Load(c) \/ Enter(c) \/ Finish(c) \/ Crash(c)
    \/ \E k \in Keys : Reserve(k) \/ ReplayFeedback(k)
    \/ Erase

Spec == Init /\ [][Next]_vars

-----------------------------------------------------------------------------
(* What the candidate must keep.                                           *)

CmdOK(cmd) ==
    /\ cmd.op \in Ops
    /\ cmd.key \in Keys \cup {Fresh}
    /\ cmd.op = "persist" => cmd.about \in Facts \cup {None}
    /\ cmd.op \in {"transition", "expire"} => cmd.to \in CallerSettable \cup {"expired"}
    /\ cmd.op = "review" => cmd.to \in Actions /\ cmd.id \in Reviews
    /\ cmd.op = "feedback" => cmd.id \in Feedbacks
    /\ cmd.op = "intent" => cmd.to \in Targets /\ cmd.id \in Reviews
    /\ cmd.op \in {"review", "feedback", "intent", "pack"} => cmd.at \in Evidence

\* Every record, and every request under way, holds values of its kind.
TypeOK ==
    /\ cand \in Candidate
    /\ Present => IdentityOf(cand) \in Evidence /\ cand.material \in Materials
    /\ \A d \in decisions : d.review \in Reviews /\ d.action \in Actions /\ d.at \in Evidence
    /\ \A e \in feedback : e.id \in Feedbacks /\ e.proof \in Proofs
    /\ \A i \in intents : i.review \in Reviews /\ i.target \in Targets /\ i.at \in Evidence
    /\ \A p \in packs : p.intent \in intents /\ p.proof \in Proofs
    /\ \A k \in Keys : keys[k] = None \/ CmdOK(keys[k])
    /\ expiries \subseteq Nat /\ erased \in BOOLEAN
    /\ lock \in Callers \cup {None}
    /\ \A c \in Callers : /\ call[c].stage \in {"idle", "loaded", "writing"}
                          /\ CmdOK(call[c].cmd)
                          /\ call[c].src \in Candidate
                          /\ call[c].attempt \in 0 .. 2
    /\ faults \subseteq {"evidence_unavailable", "raced"}

(***************************************************************************)
(* Whatever evaluations, reviews and conversions run at the same time, an  *)
(* approved candidate has an approval of exactly the evidence it carries   *)
(* (exact-review-authority.md:13).                                         *)
(***************************************************************************)
ApprovedUnderExactGrant ==
    cand.status = "approved" =>
        \E d \in decisions : d.action = "approve" /\ d.at = IdentityOf(cand)

\* A grant converts a candidate once, to one owner, however many conversion
\* requests were judged against it.
OneConversionPerGrant ==
    \A i, j \in intents : i.review = j.review => i = j

\* The review posture is one the lifecycle status allows, after any sequence
\* of transitions, reviews, refreshes and conversions.
PostureFitsStatus == cand.status # "absent" => cand.posture \in Fitting(cand.status)

\* The one retry after a collision of keys is enough: no request fails twice.
RetryWins == "raced" \notin faults

\* A decision is about the evidence the candidate has when it is recorded,
\* not about the evidence the reviewer was shown some refreshes ago.
DecidedOnCurrent ==
    [][\A d \in decisions' \ decisions : d.at = IdentityOf(cand)]_vars

\* A candidate that has ended stays ended, until its condition recurs with
\* new material facts; a decision of the same facts is never undone.
EndedUntilItRecurs ==
    [][cand.status \in Terminal =>
           cand'.status \in {cand.status, "closed"} \/ cand'.mv > cand.mv]_vars

\* Nothing is written about an erased candidate, by whoever loaded it before.
ErasedIsFrozen == [][erased => record' = record]_vars

\* A key keeps the request it was recorded for, though two requests may try
\* to record it with and without the lock.
KeyKeepsItsRequest ==
    [][\A k \in Keys : keys[k] # None => keys'[k] = keys[k]]_vars

-----------------------------------------------------------------------------
(* The authority of an exact review, which this module implements.         *)

Authority == INSTANCE ExactReviewAuthority WITH
    current <- IdentityOf(cand),
    approved <- cand.status = "approved",
    grants <- {[review |-> d.review, at |-> d.at] :
                   d \in {e \in decisions : e.action = "approve"}},
    conversions <- {[review |-> i.review, at |-> i.at, target |-> i.target] : i \in intents}

ImplementsAuthority == Authority!Spec

=============================================================================
