---------------------- MODULE CandidateAggregate_proofs ----------------------
(***************************************************************************)
(* Proofs about CandidateAggregate, for any number of callers, keys, ids,  *)
(* facts, versions and retries.                                            *)
(***************************************************************************)
EXTENDS CandidateAggregate, TLAPS

-----------------------------------------------------------------------------
(* The inductive invariant: types, and what a request under way knows.     *)

DecisionType == [review : Reviews, action : Actions, at : Evidence]
IntentType == [review : Reviews, at : Evidence, target : Targets]
Words == CallerSettable \cup {"expired", "none"} \cup Actions \cup Targets

CmdType == [op : Ops, key : Keys \cup {Fresh}, id : Reviews \cup Feedbacks \cup {None},
            to : Words, about : Facts \cup {None} \cup IntentType,
            at : Evidence \cup {None}]
CallType == [stage : {"idle", "loaded", "writing"}, cmd : CmdType, src : Candidate,
             attempt : 0 .. 2, bare : BOOLEAN]

CandOK ==
    /\ cand \in Candidate
    /\ cand.status = "absent" => cand.mv = 0
    /\ cand.status # "absent" => cand.material \in Materials /\ cand.proof \in Proofs

RecordsOK ==
    /\ decisions \subseteq DecisionType
    /\ intents \subseteq IntentType
    /\ feedback \subseteq [id : Feedbacks, proof : Proofs]
    /\ \A p \in packs : p.intent \in intents /\ p.proof \in Proofs

KeysOK ==
    /\ DOMAIN keys = Keys
    /\ \A k \in Keys : keys[k] = None \/ CmdOK(keys[k])
    /\ expiries \subseteq Nat

\* What the unlocked load made sure of.
Judged(cmd, src) ==
    /\ cmd.op = "persist" => cmd.about \in Facts
    /\ cmd.op = "review" => cmd.at = IdentityOf(src) /\ src.status \in OpenFor(cmd.to)
    /\ cmd.op = "intent" => cmd.at = IdentityOf(src) /\ src.status = "approved"

CallOK(r) == CmdOK(r.cmd) /\ (r.stage # "idle" => Judged(r.cmd, r.src))

CallsOK ==
    /\ call \in [Callers -> CallType]
    /\ \A c \in Callers : CallOK(call[c])
    /\ \A c \in Callers : call[c].stage # "idle" /\ call[c].cmd.op = "pack" =>
           call[c].cmd.about \in intents

TypeInv ==
    /\ CandOK /\ RecordsOK /\ KeysOK /\ CallsOK
    /\ erased \in BOOLEAN
    /\ lock \in Callers \cup {None}
    /\ faults \subseteq {"evidence_unavailable", "raced"}

\* What the ruling under the lock made sure of, and the lock keeps true.
Ruled(r) ==
    /\ r.cmd.op = "review" => cand = r.src /\ ~Claimed(r.cmd)
    /\ r.cmd.op = "intent" => cand = r.src /\ Grant(r.cmd.id, r.cmd.at) \in decisions
    /\ r.cmd.op \in {"transition", "expire"} => r.cmd.to \in Onward(cand.status)

Firm == \A c \in Callers : call[c].stage = "writing" =>
            /\ lock = c
            /\ ~call[c].bare => Ruled(call[c])

-----------------------------------------------------------------------------
(* Types.                                                                  *)

\* The smallest facts about the constants, and about a caller at rest.
LEMMA Constants ==
    /\ Actions \subseteq ReviewActions /\ Targets \subseteq ConversionTargets
    /\ Steps \subseteq CallerSettable
    /\ None \notin Callers
    /\ Absent \in Candidate /\ Absent.mv = 0 /\ Absent.status = "absent"
    /\ NoCall \in CallType /\ NoCall.stage = "idle" /\ CallOK(NoCall)
<1>1. /\ Actions \subseteq ReviewActions /\ Targets \subseteq ConversionTargets
      /\ Steps \subseteq CallerSettable
      /\ None \notin Callers
  BY AggregateAssumption DEF AggregateAssumption
<1>2. Absent \in Candidate /\ Absent.mv = 0 /\ Absent.status = "absent"
  BY DEF Absent, Candidate, Postures
<1> DEFINE cmd == Cmd("persist", Fresh, None, "none", None, None)
<1>3. cmd \in CmdType /\ CmdOK(cmd)
  BY DEF Cmd, CmdType, CmdOK, Ops, Words
<1> HIDE DEF cmd
<1>4. NoCall = [stage |-> "idle", cmd |-> cmd, src |-> Absent, attempt |-> 0, bare |-> FALSE]
  BY DEF NoCall, cmd
<1>5. NoCall \in CallType /\ NoCall.stage = "idle" /\ CallOK(NoCall)
  BY <1>2, <1>3, <1>4 DEF CallType, CallOK
<1> QED
  BY <1>1, <1>2, <1>5

\* The type invariant is all that TypeOK asks, and more.
LEMMA TypeInvImpliesTypeOK == TypeInv => TypeOK
<1> SUFFICES ASSUME TypeInv PROVE TypeOK
  OBVIOUS
<1>1. /\ cand \in Candidate
      /\ Present => IdentityOf(cand) \in Evidence /\ cand.material \in Materials
  BY DEF TypeInv, CandOK, Present, IdentityOf, Evidence, Candidate
<1>2. /\ \A d \in decisions : d.review \in Reviews /\ d.action \in Actions /\ d.at \in Evidence
      /\ \A i \in intents : i.review \in Reviews /\ i.target \in Targets /\ i.at \in Evidence
      /\ \A e \in feedback : e.id \in Feedbacks /\ e.proof \in Proofs
      /\ \A p \in packs : p.intent \in intents /\ p.proof \in Proofs
  BY DEF TypeInv, RecordsOK, DecisionType, IntentType
<1>3. \A c \in Callers : /\ call[c].stage \in {"idle", "loaded", "writing"}
                         /\ CmdOK(call[c].cmd)
                         /\ call[c].src \in Candidate
                         /\ call[c].attempt \in 0 .. 2
  BY DEF TypeInv, CallsOK, CallType, CallOK
<1> QED
  BY <1>1, <1>2, <1>3 DEF TypeInv, KeysOK, TypeOK

\* One caller's record is replaced and no conversion is lost.
LEMMA CallsStep ==
    ASSUME CallsOK, NEW c \in Callers, NEW new \in CallType, CallOK(new),
           call' = [call EXCEPT ![c] = new],
           new.stage # "idle" /\ new.cmd.op = "pack" => new.cmd.about \in intents,
           intents \subseteq intents'
    PROVE  CallsOK'
<1>1. call' \in [Callers -> CallType]
  BY DEF CallsOK
<1>2. \A d \in Callers : call'[d] = IF d = c THEN new ELSE call[d]
  BY DEF CallsOK
<1>3. \A d \in Callers : CallOK(call'[d])
  BY <1>2 DEF CallsOK
<1>4. \A d \in Callers : call'[d].stage # "idle" /\ call'[d].cmd.op = "pack" =>
          call'[d].cmd.about \in intents'
  BY <1>2 DEF CallsOK
<1> QED
  BY <1>1, <1>3, <1>4 DEF CallsOK, CallOK

\* The caller is done, or dead.
LEMMA CallsDone ==
    ASSUME CallsOK, NEW c \in Callers, call' = [call EXCEPT ![c] = NoCall],
           intents \subseteq intents'
    PROVE  CallsOK'
BY Constants, CallsStep

\* A request that has been loaded and judged.
LEMMA StartType ==
    ASSUME TypeInv, NEW c \in Callers, NEW cmd \in CmdType, NEW src \in Candidate,
           CmdOK(cmd), Judged(cmd, src), cmd.op = "pack" => cmd.about \in intents,
           Start(c, cmd, src)
    PROVE  TypeInv'
<1> DEFINE new == [stage |-> "loaded", cmd |-> cmd, src |-> src, attempt |-> 1, bare |-> FALSE]
<1>1. new \in CallType /\ new.cmd = cmd /\ new.src = src
  BY DEF CallType
<1>2. call' = [call EXCEPT ![c] = new]
  BY DEF Start
<1> HIDE DEF new
<1>3. CallsOK'
  BY <1>1, <1>2, CallsStep DEF CallOK, Start, TypeInv, record
<1> QED
  BY <1>3 DEF Start, TypeInv, CandOK, RecordsOK, KeysOK, record, recordedKeys

LEMMA CandTyped ==
    ASSUME TypeInv, Present
    PROVE  /\ cand \in Candidate /\ IdentityOf(cand) \in Evidence
           /\ cand.mv \in Nat /\ cand.ev \in Nat /\ cand.proof \in Proofs
BY DEF TypeInv, CandOK, Present, IdentityOf, Evidence, Candidate

LEMMA TypeLoadPersist ==
    ASSUME TypeInv, NEW c \in Callers, LoadPersist(c)
    PROVE  TypeInv'
<1>1. PICK k \in Keys \cup {Fresh}, f \in Facts :
          Start(c, Cmd("persist", k, None, "none", f, None), Absent)
  BY DEF LoadPersist
<1> DEFINE cmd == Cmd("persist", k, None, "none", f, None)
<1>2. cmd \in CmdType /\ CmdOK(cmd) /\ cmd.op = "persist" /\ cmd.about = f
  BY DEF Cmd, CmdType, CmdOK, Ops, Words
<1> HIDE DEF cmd
<1> QED
  BY <1>1, <1>2, StartType, Constants DEF Judged, cmd

LEMMA TypeLoadTransition ==
    ASSUME TypeInv, NEW c \in Callers, LoadTransition(c)
    PROVE  TypeInv'
<1>1. PICK k \in Keys \cup {Fresh}, to \in Steps :
          Start(c, Cmd("transition", k, None, to, None, None), Absent)
  BY DEF LoadTransition
<1> DEFINE cmd == Cmd("transition", k, None, to, None, None)
<1>2. cmd \in CmdType /\ CmdOK(cmd) /\ cmd.op = "transition"
  BY Constants DEF Cmd, CmdType, CmdOK, Ops, Words
<1> HIDE DEF cmd
<1> QED
  BY <1>1, <1>2, StartType, Constants DEF Judged, cmd

LEMMA TypeLoadExpiry ==
    ASSUME TypeInv, NEW c \in Callers, LoadExpiry(c)
    PROVE  TypeInv'
<1>1. Start(c, Cmd("expire", Fresh, None, "expired", None, None), cand) /\ cand \in Candidate
  BY CandTyped DEF LoadExpiry
<1> DEFINE cmd == Cmd("expire", Fresh, None, "expired", None, None)
<1>2. cmd \in CmdType /\ CmdOK(cmd) /\ cmd.op = "expire"
  BY DEF Cmd, CmdType, CmdOK, Ops, Words
<1> HIDE DEF cmd
<1> QED
  BY <1>1, <1>2, StartType DEF Judged, cmd

LEMMA TypeLoadReview ==
    ASSUME TypeInv, NEW c \in Callers, LoadReview(c)
    PROVE  TypeInv'
<1>1. PICK k \in Keys \cup {Fresh}, r \in Reviews, a \in Actions :
          /\ cand.status \in OpenFor(a)
          /\ Start(c, Cmd("review", k, r, a, None, IdentityOf(cand)), cand)
  BY DEF LoadReview
<1> DEFINE at == IdentityOf(cand)
           cmd == Cmd("review", k, r, a, None, at)
<1>2. at \in Evidence /\ cand \in Candidate
  BY CandTyped DEF LoadReview
<1>3. Start(c, cmd, cand)
  BY <1>1
<1> HIDE DEF at
<1>4. /\ cmd \in CmdType /\ CmdOK(cmd)
      /\ cmd.op = "review" /\ cmd.to = a /\ cmd.at = at
  BY <1>2 DEF Cmd, CmdType, CmdOK, Ops, Words
<1> HIDE DEF cmd
<1>5. Judged(cmd, cand)
  BY <1>1, <1>4 DEF Judged, at
<1> QED
  BY <1>2, <1>3, <1>4, <1>5, StartType

LEMMA TypeLoadFeedback ==
    ASSUME TypeInv, NEW c \in Callers, LoadFeedback(c)
    PROVE  TypeInv'
<1>1. PICK k \in Keys \cup {Fresh}, i \in Feedbacks :
          Start(c, Cmd("feedback", k, i, "none", None, IdentityOf(cand)), Absent)
  BY DEF LoadFeedback
<1> DEFINE at == IdentityOf(cand)
           cmd == Cmd("feedback", k, i, "none", None, at)
<1>2. at \in Evidence
  BY CandTyped DEF LoadFeedback
<1>3. Start(c, cmd, Absent)
  BY <1>1
<1> HIDE DEF at
<1>4. cmd \in CmdType /\ CmdOK(cmd) /\ cmd.op = "feedback"
  BY <1>2 DEF Cmd, CmdType, CmdOK, Ops, Words
<1> HIDE DEF cmd
<1> QED
  BY <1>3, <1>4, StartType, Constants DEF Judged

LEMMA TypeLoadIntent ==
    ASSUME TypeInv, NEW c \in Callers, LoadIntent(c)
    PROVE  TypeInv'
<1>1. PICK k \in Keys \cup {Fresh}, r \in Reviews, t \in Targets :
          Start(c, Cmd("intent", k, r, t, None, IdentityOf(cand)), cand)
  BY DEF LoadIntent
<1> DEFINE at == IdentityOf(cand)
           cmd == Cmd("intent", k, r, t, None, at)
<1>2. at \in Evidence /\ cand \in Candidate /\ cand.status = "approved"
  BY CandTyped DEF LoadIntent
<1>3. Start(c, cmd, cand)
  BY <1>1
<1> HIDE DEF at
<1>4. cmd \in CmdType /\ CmdOK(cmd) /\ cmd.op = "intent" /\ cmd.at = at
  BY <1>2 DEF Cmd, CmdType, CmdOK, Ops, Words
<1> HIDE DEF cmd
<1>5. Judged(cmd, cand)
  BY <1>2, <1>4 DEF Judged, at
<1> QED
  BY <1>2, <1>3, <1>4, <1>5, StartType

LEMMA TypeLoadPack ==
    ASSUME TypeInv, NEW c \in Callers, LoadPack(c)
    PROVE  TypeInv'
<1>1. PICK k \in Keys \cup {Fresh}, i \in intents :
          Start(c, Cmd("pack", k, None, "none", i, IdentityOf(cand)), Absent)
  BY DEF LoadPack
<1> DEFINE at == IdentityOf(cand)
           cmd == Cmd("pack", k, None, "none", i, at)
<1>2. at \in Evidence /\ i \in IntentType
  BY CandTyped DEF LoadPack, TypeInv, RecordsOK
<1>3. Start(c, cmd, Absent)
  BY <1>1
<1> HIDE DEF at
<1>4. cmd \in CmdType /\ CmdOK(cmd) /\ cmd.op = "pack" /\ cmd.about = i
  BY <1>2 DEF Cmd, CmdType, CmdOK, Ops, Words
<1> HIDE DEF cmd
<1> QED
  BY <1>3, <1>4, StartType, Constants DEF Judged

\* A key recorded without the lock is recorded for a request on record.
LEMMA TypeReserve ==
    ASSUME TypeInv, NEW k \in Keys, Reserve(k)
    PROVE  TypeInv'
<1>1. PICK op \in {"review", "feedback"}, i \in Reviews \cup Feedbacks,
           to \in Actions \cup {"none"}, at \in Seen :
          /\ op = "feedback" => to = "none" /\ at = IdentityOf(cand)
          /\ Repeated(Cmd(op, k, i, to, None, at))
          /\ keys' = [keys EXCEPT ![k] = Cmd(op, k, i, to, None, at)]
  BY DEF Reserve
<1> DEFINE cmd == Cmd(op, k, i, to, None, at)
<1>2. /\ cmd.op = op /\ cmd.key = k /\ cmd.id = i /\ cmd.to = to
      /\ cmd.about = None /\ cmd.at = at
  BY DEF Cmd
<1>3. keys' = [keys EXCEPT ![k] = cmd] /\ Repeated(cmd)
  BY <1>1
<1> HIDE DEF cmd
<1>4. at \in Evidence
  BY CandTyped DEF Reserve, Seen, TypeInv, RecordsOK, DecisionType
<1>5. op = "review" => to \in Actions /\ i \in Reviews
  BY <1>2, <1>3 DEF Repeated, Decision, TypeInv, RecordsOK, DecisionType
<1>6. op = "feedback" => i \in Feedbacks
  BY <1>2, <1>3 DEF Repeated, Event, TypeInv, RecordsOK
<1>7. CmdOK(cmd)
  BY <1>2, <1>4, <1>5, <1>6 DEF CmdOK, Ops
<1>8. KeysOK'
  BY <1>3, <1>7 DEF KeysOK, TypeInv, Reserve, CmdOK
<1> QED
  BY <1>8 DEF Reserve, TypeInv, CandOK, RecordsOK, CallsOK, CallOK, record

\* The transaction is entered, and the request ruled on.
LEMMA TypeEnter ==
    ASSUME TypeInv, NEW c \in Callers, Enter(c)
    PROVE  TypeInv'
<1> DEFINE me == call[c]
           b == Bare(me)
           new == [me EXCEPT !.stage = "writing", !.bare = b]
<1>1. me \in CallType /\ CallOK(me) /\ me.stage = "loaded"
  BY DEF TypeInv, CallsOK, Enter
<1>2. b \in BOOLEAN
  BY DEF Bare
<1>3. me.cmd.op = "pack" => me.cmd.about \in intents
  BY <1>1 DEF TypeInv, CallsOK
<1>4. CallsOK' /\ lock' \in Callers \cup {None}
      /\ faults' \subseteq {"evidence_unavailable", "raced"}
  <2>1. CASE /\ call' = [call EXCEPT ![c] = new]
             /\ lock' = c /\ faults' = faults
    <3> HIDE DEF b
    <3>1. new \in CallType /\ new.cmd = me.cmd /\ new.src = me.src
      BY <1>1, <1>2 DEF CallType
    <3>2. CallOK(new)
      BY <1>1, <3>1 DEF CallOK
    <3> HIDE DEF new
    <3>3. CallsOK'
      BY <1>3, <2>1, <3>1, <3>2, CallsStep DEF TypeInv, Enter, record
    <3> QED
      BY <2>1, <3>3 DEF TypeInv
  <2>2. CASE /\ call' = [call EXCEPT ![c] = NoCall]
             /\ faults' = faults \cup (IF Unanswerable(me) THEN {"evidence_unavailable"}
                                                         ELSE {})
             /\ lock' = lock
    <3>1. CallsOK'
      BY <2>2, CallsDone DEF TypeInv, Enter, record
    <3> QED
      BY <2>2, <3>1 DEF TypeInv
  <2> QED
    BY <2>1, <2>2 DEF Enter
<1> QED
  BY <1>4 DEF Enter, TypeInv, CandOK, RecordsOK, KeysOK, record, recordedKeys

LEMMA TypeBlocked ==
    ASSUME TypeInv, NEW c \in Callers, Blocked(c)
    PROVE  TypeInv'
<1>1. CallsOK'
  BY CallsDone DEF Blocked, Leave, TypeInv, record
<1> QED
  BY <1>1 DEF Blocked, Leave, TypeInv, CandOK, RecordsOK, KeysOK, record, recordedKeys

LEMMA TypeCollide ==
    ASSUME TypeInv, NEW c \in Callers, Collide(c)
    PROVE  TypeInv'
<1> DEFINE me == call[c]
           new == [me EXCEPT !.stage = "loaded", !.attempt = 2]
<1>1. me \in CallType /\ CallOK(me) /\ me.stage = "writing"
  BY DEF TypeInv, CallsOK, Collide
<1>2. me.cmd.op = "pack" => me.cmd.about \in intents
  BY <1>1 DEF TypeInv, CallsOK
<1>3. CallsOK'
  <2>1. CASE call' = [call EXCEPT ![c] = new]
    <3> HIDE DEF me
    <3>1. new \in CallType /\ new.cmd = me.cmd /\ new.src = me.src
      BY <1>1, 2 \in 0 .. 2 DEF CallType
    <3>2. CallOK(new)
      BY <1>1, <3>1 DEF CallOK
    <3> HIDE DEF new
    <3> QED
      BY <1>2, <2>1, <3>1, <3>2, CallsStep DEF TypeInv, Collide, record, me
  <2>2. CASE call' = [call EXCEPT ![c] = NoCall]
    BY <2>2, CallsDone DEF TypeInv, Collide, record
  <2> QED
    BY <2>1, <2>2 DEF Collide
<1> QED
  BY <1>3 DEF Collide, TypeInv, CandOK, RecordsOK, KeysOK, record, recordedKeys

LEMMA TypeCrash ==
    ASSUME TypeInv, NEW c \in Callers, Crash(c)
    PROVE  TypeInv'
<1>1. CallsOK'
  BY CallsDone DEF Crash, TypeInv, record
<1> QED
  BY <1>1 DEF Crash, TypeInv, CandOK, RecordsOK, KeysOK, record, recordedKeys

\* The key, or the material version of an expiry, is recorded.
LEMMA KeysStep ==
    ASSUME TypeInv, NEW c \in Callers, call[c].stage = "writing",
           RecordKey(call[c].cmd, call[c].src)
    PROVE  KeysOK'
<1> DEFINE cmd == call[c].cmd
           src == call[c].src
<1>1. cmd \in CmdType /\ CmdOK(cmd) /\ src.mv \in Nat
  BY DEF TypeInv, CallsOK, CallType, CallOK, Candidate
<1> HIDE DEF cmd, src
<1>2. RecordKey(cmd, src)
  BY DEF cmd, src
<1>3. expiries' \subseteq Nat
  BY <1>1, <1>2 DEF RecordKey, TypeInv, KeysOK
<1>4. keys' = keys \/ (cmd.key \in Keys /\ keys' = [keys EXCEPT ![cmd.key] = cmd])
  BY <1>1, <1>2 DEF RecordKey, CmdType
<1>5. DOMAIN keys' = Keys /\ \A k \in Keys : keys'[k] \in {keys[k], cmd}
  BY <1>4 DEF TypeInv, KeysOK
<1>6. \A k \in Keys : keys'[k] = None \/ CmdOK(keys'[k])
  BY <1>1, <1>5 DEF TypeInv, KeysOK
<1> QED
  BY <1>3, <1>5, <1>6 DEF KeysOK, CmdOK

LEMMA TypeWriteKey ==
    ASSUME TypeInv, NEW c \in Callers, WriteKey(c)
    PROVE  TypeInv'
<1>1. KeysOK'
  BY KeysStep DEF WriteKey, Writable
<1>2. CallsOK'
  BY CallsDone DEF WriteKey, Leave, TypeInv, record
<1> QED
  BY <1>1, <1>2 DEF WriteKey, Leave, TypeInv, CandOK, RecordsOK, record

\* What every write has in common.
LEMMA TypeWrite ==
    ASSUME TypeInv, NEW c \in Callers, NEW op, Write(c, op), intents \subseteq intents',
           CandOK', RecordsOK', faults' \subseteq {"evidence_unavailable", "raced"}
    PROVE  TypeInv'
<1>1. KeysOK'
  BY KeysStep DEF Write, Writable
<1>2. CallsOK'
  BY CallsDone DEF Write, Leave, TypeInv
<1> QED
  BY <1>1, <1>2 DEF Write, Leave, TypeInv

-----------------------------------------------------------------------------
(* What the operators of the state policy and the reconciliation return.   *)

\* Two candidates that carry the same facts.
SameFacts(x, y) == /\ x.mv = y.mv /\ x.ev = y.ev
                   /\ x.material = y.material /\ x.proof = y.proof

LEMMA TransitionedFacts ==
    ASSUME NEW x \in Candidate, NEW to \in Statuses
    PROVE  /\ Transitioned(x, to) \in Candidate
           /\ Transitioned(x, to).status = to
           /\ SameFacts(Transitioned(x, to), x)
<1> DEFINE q == PostureAfter(x.posture, to)
<1>1. q \in Postures
  BY DEF PostureAfter, Postures, Candidate, Escalated
<1>2. Transitioned(x, to) = [x EXCEPT !.status = to, !.posture = q]
  BY DEF Transitioned
<1> HIDE DEF q
<1> QED
  BY <1>1, <1>2 DEF Candidate, SameFacts

LEMMA ReviewedFacts ==
    ASSUME NEW x \in Candidate, NEW action \in ReviewActions
    PROVE  /\ Reviewed(x, action) \in Candidate
           /\ SameFacts(Reviewed(x, action), x)
           /\ Reviewed(x, action).status \in {x.status, "approved", "rejected", "closed"}
           /\ Reviewed(x, action).status = "approved" =>
                  action = "approve" \/ x.status = "approved"
           /\ action = "approve" => Reviewed(x, action).status = "approved"
<1>1. {"approved", "rejected", "closed"} \subseteq Statuses
  BY DEF Statuses, Terminal
<1>2. CASE action \in {"approve", "reject", "no_action"}
  <2>1. \/ action = "approve" /\ Reviewed(x, action) = Transitioned(x, "approved")
        \/ action = "reject" /\ Reviewed(x, action) = Transitioned(x, "rejected")
        \/ action = "no_action" /\ Reviewed(x, action) = Transitioned(x, "closed")
    BY <1>2 DEF Reviewed
  <2> QED
    BY <1>1, <2>1, TransitionedFacts
<1>3. CASE action \in {"suppress", "escalate_to_pm", "escalate_to_compliance"}
  <2>1. PICK q \in Escalated : Reviewed(x, action) = [x EXCEPT !.posture = q]
    BY <1>3 DEF Reviewed, Escalated
  <2> QED
    BY <1>3, <2>1 DEF Candidate, Postures, SameFacts
<1>4. CASE action = "snooze"
  BY <1>4 DEF Reviewed, SameFacts
<1> QED
  BY <1>2, <1>3, <1>4 DEF ReviewActions

\* The identity of an evaluated candidate moves on, or nothing does.
Later(x, y) == x.mv > y.mv \/ (x.mv = y.mv /\ x.ev > y.ev)

LEMMA ReconciledFacts ==
    ASSUME NEW x \in Candidate, NEW f \in Facts, x.status = "absent" => x.mv = 0,
           Arrival \in Postures
    PROVE  /\ Reconciled(x, f) \in Candidate
           /\ \/ Reconciled(x, f) = x /\ x.status # "absent"
              \/ /\ Later(Reconciled(x, f), x)
                 /\ Reconciled(x, f).status \notin {"approved", "absent"}
                 /\ Reconciled(x, f).material \in Materials
                 /\ Reconciled(x, f).proof \in Proofs
                 /\ \/ Reconciled(x, f).mv > x.mv
                    \/ Reconciled(x, f).status = x.status
                    \/ x.status = "approved"
<1> DEFINE new == Reconciled(x, f)
<1>0. /\ f.material \in Materials /\ f.proof \in Proofs
      /\ {"generated", "ready_for_review"} \subseteq Statuses
      /\ x.mv \in Nat /\ x.ev \in Nat /\ x.status \in Statuses \cup {"absent"}
  BY DEF Facts, Statuses, Discovery, Candidate
<1>1. CASE x.status = "absent"
  <2>1. new = [status |-> "generated", posture |-> Arrival, mv |-> 1, ev |-> 1,
               material |-> f.material, proof |-> f.proof]
    BY <1>1 DEF Reconciled, FirstVersion
  <2> QED
    BY <1>0, <1>1, <2>1 DEF Candidate, Later
<1>2. CASE x.status # "absent" /\ f.material # x.material
  <2> DEFINE v == x.mv + 1
  <2>1. new = [x EXCEPT !.status = "generated", !.posture = Arrival, !.mv = v, !.ev = 1,
                        !.material = f.material, !.proof = f.proof]
    BY <1>2 DEF Reconciled, NewMaterial
  <2>2. v \in Nat /\ v > x.mv
    BY <1>0
  <2> HIDE DEF v, new
  <2>3. new \in Candidate /\ new.status = "generated" /\ new.mv = v
        /\ new.material = f.material /\ new.proof = f.proof
    BY <1>0, <2>1, <2>2 DEF Candidate
  <2> QED
    BY <1>0, <2>2, <2>3 DEF Later, new
<1>3. CASE x.status # "absent" /\ f.material = x.material /\ f.proof # x.proof
  <2> DEFINE v == x.ev + 1
             s == IF x.status = "approved" THEN "ready_for_review" ELSE x.status
             q == IF x.status = "approved" THEN "advisor_review_required" ELSE x.posture
  <2>1. new = [x EXCEPT !.status = s, !.posture = q, !.ev = v, !.proof = f.proof]
    BY <1>3 DEF Reconciled, Refreshed
  <2>2. /\ v \in Nat /\ v > x.ev
        /\ s \in Statuses /\ s \notin {"approved", "absent"}
        /\ s = x.status \/ x.status = "approved"
        /\ q \in Postures
    BY <1>0, <1>3 DEF Candidate, Postures
  <2> HIDE DEF v, s, q, new
  <2>3. new \in Candidate /\ new.status = s /\ new.mv = x.mv /\ new.ev = v
        /\ new.material = x.material /\ new.proof = f.proof
    BY <1>0, <2>1, <2>2 DEF Candidate
  <2> QED
    BY <1>0, <1>3, <2>2, <2>3 DEF Later, new
<1>4. CASE x.status # "absent" /\ f.material = x.material /\ f.proof = x.proof
  BY <1>4 DEF Reconciled
<1> QED
  BY <1>1, <1>2, <1>3, <1>4

-----------------------------------------------------------------------------
(* What a caller has in hand when it writes.                               *)

LEMMA ArrivalFits == Arrival \in Postures
BY AggregateAssumption DEF AggregateAssumption, Postures, Escalated

LEMMA Writing ==
    ASSUME TypeInv, Firm, NEW c \in Callers, NEW op, Write(c, op)
    PROVE  /\ call[c] \in CallType /\ CallOK(call[c]) /\ call[c].stage = "writing"
           /\ call[c].cmd.op = op /\ Judged(call[c].cmd, call[c].src)
           /\ Ruled(call[c]) /\ ~erased
           /\ lock = c
           /\ cand \in Candidate
BY DEF TypeInv, CallsOK, CandOK, CallOK, Firm, Write, Writable, Passes

\* An evaluation writes what reconciliation makes of the locked candidate.
LEMMA PersistFacts ==
    ASSUME TypeInv, Firm, NEW c \in Callers, WritePersist(c)
    PROVE  /\ CandOK' /\ cand'.status # "absent"
           /\ \/ cand' = cand
              \/ /\ Later(cand', cand) /\ cand'.status # "approved"
                 /\ \/ cand'.mv > cand.mv
                    \/ cand'.status = cand.status
                    \/ cand.status = "approved"
<1> DEFINE f == call[c].cmd.about
           new == Reconciled(cand, f)
<1>1. f \in Facts /\ cand' = new
  BY Writing DEF WritePersist, Judged
<1> HIDE DEF f
<1>2. /\ new \in Candidate
      /\ \/ new = cand /\ cand.status # "absent"
         \/ /\ Later(new, cand) /\ new.status \notin {"approved", "absent"}
            /\ new.material \in Materials /\ new.proof \in Proofs
            /\ new.mv > cand.mv \/ new.status = cand.status \/ cand.status = "approved"
  BY <1>1, ReconciledFacts, ArrivalFits DEF TypeInv, CandOK
<1> HIDE DEF new
<1> QED
  BY <1>1, <1>2 DEF TypeInv, CandOK

LEMMA TypeWritePersist ==
    ASSUME TypeInv, Firm, NEW c \in Callers, WritePersist(c)
    PROVE  TypeInv'
BY PersistFacts, TypeWrite DEF WritePersist, TypeInv, RecordsOK

\* A transition and an expiry go where the locked candidate may go.
LEMMA TransitionFacts ==
    ASSUME TypeInv, Firm, NEW c \in Callers, WriteTransition(c)
    PROVE  /\ cand' \in Candidate /\ SameFacts(cand', cand)
           /\ cand.status # "absent"
           /\ cand'.status \in CallerSettable \cup {"expired"}
           /\ cand'.status \in Onward(cand.status)
<1> DEFINE to == call[c].cmd.to
<1>1. PICK op \in {"transition", "expire"} : Write(c, op)
  BY DEF WriteTransition
<1>2. /\ to \in CallerSettable \cup {"expired"} /\ to \in Onward(cand.status)
      /\ cand' = Transitioned(cand, to) /\ cand \in Candidate
  BY <1>1, Writing DEF WriteTransition, Ruled, CallOK, CmdOK
<1> HIDE DEF to
<1>3. to \in Statuses
  BY <1>2 DEF CallerSettable, Statuses, Terminal
<1>4. cand.status # "absent"
  BY <1>2 DEF Onward, Converted, Terminal, Statuses, Discovery
<1> QED
  BY <1>2, <1>3, <1>4, TransitionedFacts

\* What keeps the facts of a present candidate leaves it well-formed.
LEMMA SameFactsOK ==
    ASSUME CandOK, cand' \in Candidate, SameFacts(cand', cand),
           cand.status # "absent", cand'.status # "absent"
    PROVE  CandOK'
BY DEF CandOK, SameFacts

LEMMA TypeWriteTransition ==
    ASSUME TypeInv, Firm, NEW c \in Callers, WriteTransition(c)
    PROVE  TypeInv'
<1>1. cand'.status # "absent"
  BY TransitionFacts DEF CallerSettable, Discovery
<1>2. CandOK'
  BY <1>1, TransitionFacts, SameFactsOK DEF TypeInv
<1>3. PICK op \in {"transition", "expire"} : Write(c, op)
  BY DEF WriteTransition
<1> QED
  BY <1>2, <1>3, TypeWrite DEF WriteTransition, TypeInv, RecordsOK

\* A review is written on the candidate it was judged on, under a new id.
LEMMA ReviewFacts ==
    ASSUME TypeInv, Firm, NEW c \in Callers, WriteReview(c)
    PROVE  /\ cand' \in Candidate /\ SameFacts(cand', cand)
           /\ cand.status # "absent" /\ cand'.status # "absent"
           /\ call[c].cmd.id \in Reviews /\ call[c].cmd.to \in Actions
           /\ call[c].cmd.at \in Evidence
           /\ call[c].cmd.at = IdentityOf(cand)
           /\ cand.status \in OpenFor(call[c].cmd.to)
           /\ \A d \in decisions : d.review # call[c].cmd.id
           /\ cand'.status = "approved" => call[c].cmd.to = "approve"
           /\ call[c].cmd.to = "approve" => cand'.status = "approved"
           /\ decisions' = decisions \cup {Decision(call[c].cmd)}
<1> DEFINE to == call[c].cmd.to
<1>1. /\ cand = call[c].src /\ ~Claimed(call[c].cmd)
      /\ call[c].cmd.op = "review"
      /\ call[c].cmd.id \in Reviews /\ to \in Actions
      /\ call[c].cmd.at \in Evidence /\ call[c].cmd.at = IdentityOf(cand)
      /\ cand.status \in OpenFor(to)
      /\ cand' = Reviewed(cand, to) /\ cand \in Candidate
  BY Writing DEF WriteReview, Ruled, CallOK, CmdOK, Judged
<1>2. \A d \in decisions : d.review # call[c].cmd.id
  BY <1>1 DEF Claimed
<1> HIDE DEF to
<1>3. to \in ReviewActions
  BY <1>1, Constants
<1>4. cand.status \notin {"absent", "approved"}
  BY <1>1, <1>3 DEF OpenFor, Decidable, Discovery, ReviewActions
<1>5. /\ cand' \in Candidate /\ SameFacts(cand', cand)
      /\ cand'.status # "absent"
      /\ cand'.status = "approved" => to = "approve"
      /\ to = "approve" => cand'.status = "approved"
  BY <1>1, <1>3, <1>4, ReviewedFacts
<1> QED
  BY <1>1, <1>2, <1>4, <1>5 DEF WriteReview, to

LEMMA TypeWriteReview ==
    ASSUME TypeInv, Firm, NEW c \in Callers, WriteReview(c)
    PROVE  TypeInv'
<1>1. CandOK'
  BY ReviewFacts, SameFactsOK DEF TypeInv
<1>2. Decision(call[c].cmd) \in DecisionType
  BY ReviewFacts DEF Decision, DecisionType
<1>3. RecordsOK'
  BY <1>2, ReviewFacts DEF WriteReview, TypeInv, RecordsOK
<1> QED
  BY <1>1, <1>3, TypeWrite DEF WriteReview, TypeInv

LEMMA TypeWriteFeedback ==
    ASSUME TypeInv, Firm, NEW c \in Callers, WriteFeedback(c)
    PROVE  TypeInv'
<1>1. call[c].cmd.op = "feedback" /\ CmdOK(call[c].cmd)
  BY Writing DEF WriteFeedback, CallOK
<1>2. Event(call[c].cmd) \in [id : Feedbacks, proof : Proofs]
  BY <1>1 DEF Event, CmdOK, Evidence
<1>3. RecordsOK'
  BY <1>2 DEF WriteFeedback, TypeInv, RecordsOK
<1>4. CandOK'
  BY DEF WriteFeedback, TypeInv, CandOK
<1> QED
  BY <1>3, <1>4, TypeWrite DEF WriteFeedback, TypeInv

\* A conversion is written on the candidate it was judged on.
LEMMA IntentFacts ==
    ASSUME TypeInv, Firm, NEW c \in Callers, WriteIntent(c)
    PROVE  /\ cand' \in Candidate /\ SameFacts(cand', cand)
           /\ cand.status = "approved"
           /\ cand'.status \in Converted
           /\ call[c].cmd.id \in Reviews /\ call[c].cmd.to \in Targets
           /\ call[c].cmd.at \in Evidence
           /\ call[c].cmd.at = IdentityOf(cand)
           /\ Grant(call[c].cmd.id, call[c].cmd.at) \in decisions
           /\ intents' = intents \cup {Intent(call[c].cmd)}
<1> DEFINE to == call[c].cmd.to
<1>1. /\ cand = call[c].src
      /\ Grant(call[c].cmd.id, call[c].cmd.at) \in decisions
      /\ call[c].cmd.id \in Reviews /\ to \in Targets
      /\ call[c].cmd.at \in Evidence /\ call[c].cmd.at = IdentityOf(cand)
      /\ cand.status = "approved"
      /\ cand' = Transitioned(cand, ConvertedTo(to)) /\ cand \in Candidate
  BY Writing DEF WriteIntent, Ruled, CallOK, CmdOK, Judged
<1> HIDE DEF to
<1>2. ConvertedTo(to) \in Converted /\ Converted \subseteq Statuses
  BY DEF ConvertedTo, Converted, Statuses
<1>3. cand' \in Candidate /\ SameFacts(cand', cand) /\ cand'.status \in Converted
  BY <1>1, <1>2, TransitionedFacts
<1> QED
  BY <1>1, <1>3 DEF WriteIntent, to

LEMMA TypeWriteIntent ==
    ASSUME TypeInv, Firm, NEW c \in Callers, WriteIntent(c)
    PROVE  TypeInv'
<1>1. CandOK'
  BY IntentFacts, SameFactsOK DEF TypeInv, Converted
<1>2. Intent(call[c].cmd) \in IntentType
  BY IntentFacts DEF Intent, IntentType
<1>3. RecordsOK'
  BY <1>2, IntentFacts DEF WriteIntent, TypeInv, RecordsOK
<1> QED
  BY <1>1, <1>3, IntentFacts, TypeWrite DEF WriteIntent, TypeInv

LEMMA TypeWritePack ==
    ASSUME TypeInv, Firm, NEW c \in Callers, WritePack(c)
    PROVE  TypeInv'
<1>1. call[c].cmd.op = "pack" /\ CmdOK(call[c].cmd) /\ call[c].stage = "writing"
  BY Writing DEF WritePack, CallOK
<1>2. call[c].cmd.about \in intents
  BY <1>1 DEF TypeInv, CallsOK
<1>3. Pack(call[c].cmd).intent \in intents /\ Pack(call[c].cmd).proof \in Proofs
  BY <1>1, <1>2 DEF Pack, CmdOK, Evidence
<1>4. RecordsOK'
  BY <1>3 DEF WritePack, TypeInv, RecordsOK
<1>5. CandOK'
  BY DEF WritePack, TypeInv, CandOK
<1> QED
  BY <1>4, <1>5, TypeWrite DEF WritePack, TypeInv
LEMMA TypeReplayFeedback ==
    ASSUME TypeInv, NEW k \in Keys, ReplayFeedback(k)
    PROVE  TypeInv'
BY DEF ReplayFeedback, TypeInv, CandOK, RecordsOK, KeysOK, CallsOK, CallOK, record, recordedKeys

LEMMA TypeErase ==
    ASSUME TypeInv, Erase
    PROVE  TypeInv'
BY DEF Erase, TypeInv, CandOK, RecordsOK, KeysOK, CallsOK, CallOK, record, recordedKeys

LEMMA TypeStutter ==
    ASSUME TypeInv, UNCHANGED vars
    PROVE  TypeInv'
BY DEF vars, TypeInv, CandOK, RecordsOK, KeysOK, CallsOK, CallOK, record, recordedKeys

LEMMA TypeInit == Init => TypeInv
<1> SUFFICES ASSUME Init PROVE TypeInv
  OBVIOUS
<1>1. CandOK
  BY Constants DEF Init, CandOK
<1>2. RecordsOK /\ KeysOK
  BY DEF Init, RecordsOK, KeysOK
<1>3. CallsOK
  BY Constants DEF Init, CallsOK
<1> QED
  BY <1>1, <1>2, <1>3 DEF Init, TypeInv

\* Every step keeps the types.
LEMMA TypeStep == TypeInv /\ Firm /\ [Next]_vars => TypeInv'
<1> SUFFICES ASSUME TypeInv, Firm, [Next]_vars PROVE TypeInv'
  OBVIOUS
<1>1. ASSUME NEW c \in Callers, Load(c) PROVE TypeInv'
  BY <1>1, TypeLoadPersist, TypeLoadTransition, TypeLoadExpiry, TypeLoadReview,
     TypeLoadFeedback, TypeLoadIntent, TypeLoadPack DEF Load
<1>2. ASSUME NEW c \in Callers, Finish(c) PROVE TypeInv'
  BY <1>2, TypeBlocked, TypeCollide, TypeWriteKey, TypeWritePersist, TypeWriteTransition,
     TypeWriteReview, TypeWriteFeedback, TypeWriteIntent, TypeWritePack DEF Finish
<1>3. ASSUME NEW c \in Callers, Enter(c) \/ Crash(c) PROVE TypeInv'
  BY <1>3, TypeEnter, TypeCrash
<1>4. ASSUME NEW k \in Keys, Reserve(k) \/ ReplayFeedback(k) PROVE TypeInv'
  BY <1>4, TypeReserve, TypeReplayFeedback
<1>5. CASE Erase
  BY <1>5, TypeErase
<1>6. CASE UNCHANGED vars
  BY <1>6, TypeStutter
<1> QED
  BY <1>1, <1>2, <1>3, <1>4, <1>5, <1>6 DEF Next

-----------------------------------------------------------------------------
(* What the lock keeps true: nobody else writes under it, and whoever      *)
(* writes has been ruled on with the records as they still are.            *)

\* A step that leaves the records, the writers and their lock alone.
LEMMA FirmSame ==
    ASSUME Firm, UNCHANGED record,
           \A d \in Callers : call'[d].stage = "writing" =>
               call'[d] = call[d] /\ lock' = lock
    PROVE  Firm'
BY DEF Firm, Ruled, Claimed, record

\* The one writer stops writing.
LEMMA FirmLeft ==
    ASSUME TypeInv, Firm, NEW c \in Callers, call[c].stage = "writing",
           NEW new, new.stage # "writing", call' = [call EXCEPT ![c] = new]
    PROVE  Firm'
<1>1. \A d \in Callers : call'[d] = IF d = c THEN new ELSE call[d]
  BY DEF TypeInv, CallsOK
<1>2. \A d \in Callers : call'[d].stage # "writing"
  BY <1>1 DEF Firm
<1> QED
  BY <1>2 DEF Firm

LEMMA FirmStart ==
    ASSUME TypeInv, Firm, NEW c \in Callers, NEW cmd, NEW src, Start(c, cmd, src)
    PROVE  Firm'
<1> DEFINE new == [stage |-> "loaded", cmd |-> cmd, src |-> src, attempt |-> 1, bare |-> FALSE]
<1>1. call' = [call EXCEPT ![c] = new] /\ new.stage # "writing"
  BY DEF Start
<1> HIDE DEF new
<1>2. \A d \in Callers : call'[d] = IF d = c THEN new ELSE call[d]
  BY <1>1 DEF TypeInv, CallsOK
<1> QED
  BY <1>1, <1>2, FirmSame DEF Start

LEMMA FirmLoad ==
    ASSUME TypeInv, Firm, NEW c \in Callers, Load(c)
    PROVE  Firm'
<1>1. \E cmd, src : Start(c, cmd, src)
  BY DEF Load, LoadPersist, LoadTransition, LoadExpiry, LoadReview, LoadFeedback,
         LoadIntent, LoadPack
<1> QED
  BY <1>1, FirmStart

\* Ruled on under the lock, which nobody else had.
LEMMA FirmEnter ==
    ASSUME TypeInv, Firm, NEW c \in Callers, Enter(c)
    PROVE  Firm'
<1> DEFINE me == call[c]
           b == Bare(me)
           new == [me EXCEPT !.stage = "writing", !.bare = b]
<1>1. me \in CallType /\ UNCHANGED record
  BY DEF TypeInv, CallsOK, Enter
<1>2. \A d \in Callers : call[d].stage # "writing"
  BY Constants DEF Firm, Enter
<1>3. CASE Admitted(me) /\ lock' = c /\ call' = [call EXCEPT ![c] = new]
  <2>1. Standing(me)
    BY <1>3 DEF Admitted
  <2>2. ~b => Ruled(me)
    BY <2>1 DEF Bare, Standing, Ruled, Repeated
  <2>3. b \in BOOLEAN
    BY DEF Bare
  <2> HIDE DEF b, me
  <2>4. /\ new.cmd = me.cmd /\ new.src = me.src /\ new.bare = b
    BY <1>1, <2>3 DEF CallType
  <2> HIDE DEF new
  <2>5. \A d \in Callers : call'[d] = IF d = c THEN new ELSE call[d]
    BY <1>3 DEF TypeInv, CallsOK
  <2>6. (~call[c].bare => Ruled(call[c]))'
    BY <1>1, <2>2, <2>4, <2>5 DEF Ruled, Claimed, record
  <2>7. \A d \in Callers : (call[d].stage = "writing")' => d = c /\ lock' = c
    BY <1>2, <1>3, <2>5
  <2> QED
    BY <2>6, <2>7 DEF Firm
<1>4. CASE call' = [call EXCEPT ![c] = NoCall]
  <2>1. \A d \in Callers : call'[d] = IF d = c THEN NoCall ELSE call[d]
    BY <1>4 DEF TypeInv, CallsOK
  <2> QED
    BY <1>2, <2>1, Constants DEF Firm
<1> QED
  BY <1>3, <1>4 DEF Enter

LEMMA FirmFinish ==
    ASSUME TypeInv, Firm, NEW c \in Callers, Finish(c)
    PROVE  Firm'
<1>1. call[c].stage = "writing"
  BY DEF Finish, Blocked, Collide, WriteKey, WritePersist, WriteTransition, WriteReview,
         WriteFeedback, WriteIntent, WritePack, Write, Writable
<1>2. CASE call' = [call EXCEPT ![c] = NoCall]
  BY <1>1, <1>2, FirmLeft, Constants
<1>3. CASE Collide(c)
  <2> DEFINE new == [call[c] EXCEPT !.stage = "loaded", !.attempt = 2]
  <2>1. CASE call' = [call EXCEPT ![c] = new]
    <3>1. new.stage = "loaded"
      BY DEF TypeInv, CallsOK, CallType
    <3> HIDE DEF new
    <3> QED
      BY <1>1, <2>1, <3>1, FirmLeft
  <2> QED
    BY <1>2, <1>3, <2>1 DEF Collide
<1>4. CASE ~Collide(c)
  BY <1>2, <1>4 DEF Finish, Blocked, WriteKey, WritePersist, WriteTransition, WriteReview,
                    WriteFeedback, WriteIntent, WritePack, Write, Leave
<1> QED
  BY <1>3, <1>4

LEMMA FirmCrash ==
    ASSUME TypeInv, Firm, NEW c \in Callers, Crash(c)
    PROVE  Firm'
<1>1. \A d \in Callers : call'[d] = IF d = c THEN NoCall ELSE call[d]
  BY DEF Crash, TypeInv, CallsOK
<1>2. \A d \in Callers : call'[d].stage = "writing" =>
          call'[d] = call[d] /\ lock' = lock
  BY <1>1, Constants DEF Crash, Firm
<1> QED
  BY <1>2, FirmSame DEF Crash

\* Every step keeps what the lock protects.
LEMMA FirmStep == TypeInv /\ Firm /\ [Next]_vars => Firm'
<1> SUFFICES ASSUME TypeInv, Firm, [Next]_vars PROVE Firm'
  OBVIOUS
<1>1. ASSUME NEW c \in Callers, Load(c) \/ Enter(c) \/ Finish(c) \/ Crash(c) PROVE Firm'
  BY <1>1, FirmLoad, FirmEnter, FirmFinish, FirmCrash
<1>2. ASSUME NEW k \in Keys, Reserve(k) \/ ReplayFeedback(k) PROVE Firm'
  BY <1>2, FirmSame DEF Reserve, ReplayFeedback
<1>3. CASE Erase \/ UNCHANGED vars
  BY <1>3, FirmSame DEF Erase, vars
<1> QED
  BY <1>1, <1>2, <1>3 DEF Next

-----------------------------------------------------------------------------
(* The four writes that change the candidate or what was decided of it.    *)

Decisive(c) == WritePersist(c) \/ WriteTransition(c) \/ WriteReview(c) \/ WriteIntent(c)

LEMMA StepKinds ==
    ASSUME [Next]_vars
    PROVE  UNCHANGED <<cand, decisions, intents>> \/ \E c \in Callers : Decisive(c)
<1>1. ASSUME NEW c \in Callers, Load(c)
      PROVE  UNCHANGED <<cand, decisions, intents>>
  BY <1>1 DEF Load, LoadPersist, LoadTransition, LoadExpiry, LoadReview, LoadFeedback,
              LoadIntent, LoadPack, Start, record
<1>2. ASSUME NEW c \in Callers, Finish(c)
      PROVE  UNCHANGED <<cand, decisions, intents>> \/ Decisive(c)
  BY <1>2 DEF Finish, Blocked, Collide, WriteKey, WriteFeedback, WritePack, Decisive, record
<1>3. ASSUME NEW c \in Callers, Enter(c) \/ Crash(c)
      PROVE  UNCHANGED <<cand, decisions, intents>>
  BY <1>3 DEF Enter, Crash, record
<1>4. ASSUME NEW k \in Keys, Reserve(k) \/ ReplayFeedback(k)
      PROVE  UNCHANGED <<cand, decisions, intents>>
  BY <1>4 DEF Reserve, ReplayFeedback, record
<1>5. CASE Erase \/ UNCHANGED vars
  BY <1>5 DEF Erase, vars, record
<1> QED
  BY <1>1, <1>2, <1>3, <1>4, <1>5 DEF Next

-----------------------------------------------------------------------------
(* Status and posture.                                                     *)

\* The postures an open candidate may have, status by status.
LEMMA FittingOpen ==
    /\ \A s \in Discovery :
          Fitting(s) = {"not_reviewed", "advisor_review_required"} \cup Escalated
    /\ Fitting("ready_for_review") = {"advisor_review_required"} \cup Escalated
    /\ Fitting("reviewed_by_advisor") = {"advisor_reviewed"} \cup Escalated
BY DEF Fitting, Discovery, Converted

LEMMA TransitionedFits ==
    ASSUME NEW x \in Candidate, x.posture \in Fitting(x.status), NEW to \in Onward(x.status)
    PROVE  Transitioned(x, to).posture \in Fitting(to)
<1> DEFINE q == PostureAfter(x.posture, to)
<1>1. to \in Statuses
  BY DEF Onward, Statuses, Converted, Terminal, Discovery
<1>2. Transitioned(x, to).posture = q
  BY DEF Transitioned, Candidate
<1>3. CASE to \in Discovery
  <2>1. x.status \in Discovery
    BY <1>3 DEF Onward, Discovery, Converted, Terminal, Statuses
  <2>2. q = x.posture
    BY <1>3 DEF PostureAfter, Discovery, Converted
  <2> QED
    BY <1>2, <1>3, <2>1, <2>2, FittingOpen
<1>4. CASE to = "ready_for_review"
  BY <1>2, <1>4 DEF PostureAfter, Converted, Fitting, Discovery
<1>5. CASE to \in {"reviewed_by_advisor", "approved"} \cup Converted \cup Terminal
  BY <1>2, <1>5 DEF PostureAfter, Fitting, Converted, Terminal, Discovery
<1> QED
  BY <1>1, <1>3, <1>4, <1>5 DEF Statuses

LEMMA ReviewedFits ==
    ASSUME NEW x \in Candidate, x.posture \in Fitting(x.status),
           NEW action \in ReviewActions, x.status \in OpenFor(action)
    PROVE  Reviewed(x, action).posture \in Fitting(Reviewed(x, action).status)
<1>1. ASSUME NEW to \in {"approved", "rejected", "closed"}
      PROVE  /\ Transitioned(x, to).posture \in Fitting(to)
             /\ Transitioned(x, to).status = to
  <2>1. Transitioned(x, to).posture = PostureAfter(x.posture, to)
        /\ Transitioned(x, to).status = to
    BY DEF Transitioned, Candidate
  <2> QED
    BY <2>1 DEF PostureAfter, Fitting, Converted, Terminal, Discovery
<1>2. CASE action \in {"approve", "reject", "no_action"}
  <2>1. \/ Reviewed(x, action) = Transitioned(x, "approved")
        \/ Reviewed(x, action) = Transitioned(x, "rejected")
        \/ Reviewed(x, action) = Transitioned(x, "closed")
    BY <1>2 DEF Reviewed
  <2> QED
    BY <1>1, <2>1
<1>3. CASE action \in {"suppress", "escalate_to_pm", "escalate_to_compliance"}
  <2>1. PICK q \in Escalated : Reviewed(x, action) = [x EXCEPT !.posture = q]
    BY <1>3 DEF Reviewed, Escalated
  <2>2. Reviewed(x, action).posture = q /\ Reviewed(x, action).status = x.status
    BY <2>1 DEF Candidate
  <2>3. x.status \in Discovery \cup {"ready_for_review", "reviewed_by_advisor"}
    BY <1>3 DEF OpenFor, Decidable
  <2> QED
    BY <2>2, <2>3, FittingOpen
<1>4. CASE action = "snooze"
  BY <1>4 DEF Reviewed
<1> QED
  BY <1>2, <1>3, <1>4 DEF ReviewActions

LEMMA ReconciledFits ==
    ASSUME NEW x \in Candidate, NEW f \in Facts,
           x.status # "absent" => x.posture \in Fitting(x.status)
    PROVE  Reconciled(x, f).posture \in Fitting(Reconciled(x, f).status)
<1>1. Arrival \in Fitting("generated")
  BY AggregateAssumption, FittingOpen DEF AggregateAssumption, Discovery, Escalated
<1>2. CASE x.status = "absent"
  BY <1>1, <1>2 DEF Reconciled, FirstVersion
<1>3. CASE x.status # "absent" /\ f.material # x.material
  <2> DEFINE v == x.mv + 1
  <2>1. Reconciled(x, f) = [x EXCEPT !.status = "generated", !.posture = Arrival,
                                     !.mv = v, !.ev = 1,
                                     !.material = f.material, !.proof = f.proof]
    BY <1>3 DEF Reconciled, NewMaterial
  <2> HIDE DEF v
  <2>2. Reconciled(x, f).posture = Arrival /\ Reconciled(x, f).status = "generated"
    BY <2>1 DEF Candidate
  <2> QED
    BY <1>1, <2>2
<1>4. CASE x.status # "absent" /\ f.material = x.material /\ f.proof # x.proof
  <2> DEFINE v == x.ev + 1
             s == IF x.status = "approved" THEN "ready_for_review" ELSE x.status
             q == IF x.status = "approved" THEN "advisor_review_required" ELSE x.posture
  <2>1. Reconciled(x, f) = [x EXCEPT !.status = s, !.posture = q, !.ev = v, !.proof = f.proof]
    BY <1>4 DEF Reconciled, Refreshed
  <2>2. q \in Fitting(s)
    BY <1>4, FittingOpen
  <2> HIDE DEF v, s, q
  <2>3. Reconciled(x, f).posture = q /\ Reconciled(x, f).status = s
    BY <2>1 DEF Candidate
  <2> QED
    BY <2>2, <2>3
<1>5. CASE x.status # "absent" /\ f.material = x.material /\ f.proof = x.proof
  BY <1>5 DEF Reconciled
<1> QED
  BY <1>2, <1>3, <1>4, <1>5

\* Every step leaves the candidate with a posture its status allows.
LEMMA PostureStep == TypeInv /\ Firm /\ PostureFitsStatus /\ [Next]_vars => PostureFitsStatus'
<1> SUFFICES ASSUME TypeInv, Firm, PostureFitsStatus, [Next]_vars
             PROVE  PostureFitsStatus'
  OBVIOUS
<1>1. CASE UNCHANGED <<cand, decisions, intents>>
  BY <1>1 DEF PostureFitsStatus
<1>2. ASSUME NEW c \in Callers, WritePersist(c) PROVE PostureFitsStatus'
  <2> DEFINE f == call[c].cmd.about
  <2>1. f \in Facts /\ cand' = Reconciled(cand, f) /\ cand \in Candidate
    BY <1>2, Writing DEF WritePersist, Judged
  <2> HIDE DEF f
  <2> QED
    BY <2>1, ReconciledFits DEF PostureFitsStatus
<1>3. ASSUME NEW c \in Callers, WriteTransition(c) PROVE PostureFitsStatus'
  <2> DEFINE to == call[c].cmd.to
  <2>1. PICK op \in {"transition", "expire"} : Write(c, op)
    BY <1>3 DEF WriteTransition
  <2>2. to \in Onward(cand.status) /\ cand' = Transitioned(cand, to) /\ cand \in Candidate
    BY <1>3, <2>1, Writing DEF WriteTransition, Ruled
  <2>3. cand.status # "absent"
    BY <1>3, TransitionFacts
  <2> HIDE DEF to
  <2>4. to \in Statuses
    BY <2>2 DEF Onward, Statuses, Converted, Terminal, Discovery
  <2>5. cand'.status = to /\ cand'.posture \in Fitting(to)
    BY <2>2, <2>3, <2>4, TransitionedFits, TransitionedFacts DEF PostureFitsStatus
  <2> QED
    BY <2>5 DEF PostureFitsStatus
<1>4. ASSUME NEW c \in Callers, WriteReview(c) PROVE PostureFitsStatus'
  <2> DEFINE to == call[c].cmd.to
  <2>1. /\ to \in Actions /\ cand.status \in OpenFor(to) /\ cand.status # "absent"
    BY <1>4, ReviewFacts
  <2>2. cand' = Reviewed(cand, to) /\ cand \in Candidate
    BY <1>4, Writing DEF WriteReview, Ruled
  <2> HIDE DEF to
  <2> QED
    BY <2>1, <2>2, Constants, ReviewedFits DEF PostureFitsStatus
<1>5. ASSUME NEW c \in Callers, WriteIntent(c) PROVE PostureFitsStatus'
  <2> DEFINE to == ConvertedTo(call[c].cmd.to)
  <2>1. cand' = Transitioned(cand, to) /\ cand \in Candidate
    BY <1>5, Writing DEF WriteIntent, Ruled
  <2>2. cand.status = "approved"
    BY <1>5, IntentFacts
  <2>3. to \in Converted
    BY DEF ConvertedTo, Converted
  <2> HIDE DEF to
  <2>4. to \in Onward(cand.status) /\ to \in Statuses
    BY <2>2, <2>3 DEF Onward, Converted, Statuses
  <2> QED
    BY <2>1, <2>2, <2>4, TransitionedFits, TransitionedFacts DEF PostureFitsStatus
<1> QED
  BY <1>1, <1>2, <1>3, <1>4, <1>5, StepKinds DEF Decisive

-----------------------------------------------------------------------------
(* Grants and the conversions they allow.                                  *)

UniqueReviews == \A d, e \in decisions : d.review = e.review => d = e

\* Nothing was decided or converted on evidence that is yet to come.
NotAhead ==
    /\ \A d \in decisions : ~Later(d.at, cand)
    /\ \A i \in intents : ~Later(i.at, cand)

Granted == \A i \in intents : Grant(i.review, i.at) \in decisions

\* The current evidence, once approved, is never again open for a review ...
Given == \A d \in decisions :
             d.action = "approve" /\ d.at = IdentityOf(cand) =>
                 cand.status \in {"approved"} \cup Converted \cup Terminal

\* ... and, once converted, is never approved again.
Used == \A i \in intents :
            i.at = IdentityOf(cand) => cand.status \in Converted \cup Terminal

AuthorityInv == /\ UniqueReviews /\ NotAhead /\ Granted /\ Given /\ Used
                /\ ApprovedUnderExactGrant /\ OneConversionPerGrant

LEMMA AuthorityPersist ==
    ASSUME TypeInv, Firm, AuthorityInv, NEW c \in Callers, WritePersist(c)
    PROVE  AuthorityInv'
<1>1. UNCHANGED <<decisions, intents>>
  BY DEF WritePersist
<1>2. CASE cand' = cand
  BY <1>1, <1>2 DEF AuthorityInv, UniqueReviews, NotAhead, Granted, Given, Used,
                    ApprovedUnderExactGrant, OneConversionPerGrant
<1>3. CASE Later(cand', cand) /\ cand'.status # "approved"
  <2>1. /\ cand.mv \in Nat /\ cand.ev \in Nat /\ cand'.mv \in Nat /\ cand'.ev \in Nat
    BY PersistFacts DEF TypeInv, CandOK, Candidate
  <2>2. ASSUME NEW at \in Evidence, ~Later(at, cand)
        PROVE  ~Later(at, cand') /\ at # IdentityOf(cand')
    BY <1>3, <2>1, <2>2 DEF Later, IdentityOf, Evidence
  <2>3. /\ \A d \in decisions : ~Later(d.at, cand') /\ d.at # IdentityOf(cand')
        /\ \A i \in intents : ~Later(i.at, cand') /\ i.at # IdentityOf(cand')
    BY <2>2 DEF AuthorityInv, NotAhead, TypeInv, RecordsOK, DecisionType, IntentType
  <2> QED
    BY <1>1, <1>3, <2>3 DEF AuthorityInv, UniqueReviews, NotAhead, Granted, Given, Used,
                            ApprovedUnderExactGrant, OneConversionPerGrant
<1> QED
  BY <1>2, <1>3, PersistFacts

\* What keeps the facts keeps the identity of the evidence.
LEMMA SameIdentity ==
    ASSUME SameFacts(cand', cand)
    PROVE  /\ IdentityOf(cand') = IdentityOf(cand)
           /\ \A at : Later(at, cand') <=> Later(at, cand)
BY DEF SameFacts, IdentityOf, Later

LEMMA AuthorityTransition ==
    ASSUME TypeInv, Firm, AuthorityInv, NEW c \in Callers, WriteTransition(c)
    PROVE  AuthorityInv'
<1>1. UNCHANGED <<decisions, intents>>
  BY DEF WriteTransition
<1>2. /\ cand'.status \in CallerSettable \cup {"expired"}
      /\ cand'.status \in Onward(cand.status)
      /\ IdentityOf(cand') = IdentityOf(cand)
      /\ \A at : Later(at, cand') <=> Later(at, cand)
  BY TransitionFacts, SameIdentity
<1>3. cand.status \notin Converted \cup Terminal
  BY <1>2 DEF Onward, Converted, Terminal, CallerSettable, Discovery, Statuses
<1>4. cand.status = "approved" => cand'.status = "expired"
  BY <1>2 DEF Onward, Converted, Terminal, CallerSettable, Discovery, Statuses
<1>5. cand'.status # "approved"
  BY <1>2 DEF CallerSettable, Discovery
<1>6. "expired" \in Terminal
  BY DEF Terminal
<1> QED
  BY <1>1, <1>2, <1>3, <1>4, <1>5, <1>6
     DEF AuthorityInv, UniqueReviews, NotAhead, Granted, Given, Used,
         ApprovedUnderExactGrant, OneConversionPerGrant

\* The candidate is open, so its evidence was neither approved nor converted.
LEMMA AuthorityReview ==
    ASSUME TypeInv, Firm, AuthorityInv, NEW c \in Callers, WriteReview(c)
    PROVE  AuthorityInv'
<1> DEFINE new == Decision(call[c].cmd)
           to == call[c].cmd.to
<1>1. /\ new.review = call[c].cmd.id /\ new.action = to
      /\ new.at = IdentityOf(cand)
      /\ decisions' = decisions \cup {new} /\ intents' = intents
      /\ \A d \in decisions : d.review # new.review
      /\ cand'.status = "approved" <=> to = "approve"
  BY ReviewFacts DEF Decision, WriteReview
<1>2. /\ IdentityOf(cand') = IdentityOf(cand)
      /\ \A at : Later(at, cand') <=> Later(at, cand)
  BY ReviewFacts, SameIdentity
<1>3. cand.status \notin {"approved"} \cup Converted \cup Terminal
  BY ReviewFacts, Constants
     DEF OpenFor, Decidable, Discovery, ReviewActions, Converted, Terminal
<1> HIDE DEF new, to
<1>4. /\ \A d \in decisions : ~(d.action = "approve" /\ d.at = IdentityOf(cand))
      /\ \A i \in intents : i.at # IdentityOf(cand)
  BY <1>3 DEF AuthorityInv, Given, Used
<1>5. ~Later(new.at, cand)
  BY <1>1, CandTyped DEF Later, IdentityOf, TypeInv, CandOK, Candidate
<1>6. UniqueReviews' /\ NotAhead' /\ Granted'
  BY <1>1, <1>2, <1>5 DEF AuthorityInv, UniqueReviews, NotAhead, Granted
<1>7. Given' /\ Used' /\ ApprovedUnderExactGrant' /\ OneConversionPerGrant'
  BY <1>1, <1>2, <1>4 DEF AuthorityInv, Given, Used, ApprovedUnderExactGrant,
                          OneConversionPerGrant
<1> QED
  BY <1>6, <1>7 DEF AuthorityInv

\* The candidate is approved, so its evidence was not converted before.
LEMMA AuthorityIntent ==
    ASSUME TypeInv, Firm, AuthorityInv, NEW c \in Callers, WriteIntent(c)
    PROVE  AuthorityInv'
<1> DEFINE new == Intent(call[c].cmd)
<1>1. /\ new.at = IdentityOf(cand)
      /\ Grant(new.review, new.at) \in decisions
      /\ intents' = intents \cup {new} /\ decisions' = decisions
      /\ cand.status = "approved" /\ cand'.status \in Converted
      /\ new.review \in Reviews
  BY IntentFacts DEF Intent, WriteIntent
<1>2. /\ IdentityOf(cand') = IdentityOf(cand)
      /\ \A at : Later(at, cand') <=> Later(at, cand)
  BY IntentFacts, SameIdentity
<1>3. "approved" \notin Converted \cup Terminal
  BY DEF Converted, Terminal
<1> HIDE DEF new
<1>4. \A i \in intents : i.at # IdentityOf(cand)
  BY <1>1, <1>3 DEF AuthorityInv, Used
<1>5. ~Later(new.at, cand)
  BY <1>1 DEF Later, IdentityOf, TypeInv, CandOK, Candidate
<1>6. \A i \in intents : i.review # new.review
  <2> SUFFICES ASSUME NEW i \in intents, i.review = new.review PROVE FALSE
    OBVIOUS
  <2>1. Grant(i.review, i.at) = Grant(new.review, new.at)
    BY <1>1 DEF AuthorityInv, Granted, UniqueReviews, Grant
  <2>2. i.at = new.at
    BY <2>1 DEF Grant
  <2> QED
    BY <1>1, <1>4, <2>2
<1>7. UniqueReviews' /\ NotAhead' /\ Granted'
  BY <1>1, <1>2, <1>5 DEF AuthorityInv, UniqueReviews, NotAhead, Granted
<1>8. Given' /\ Used' /\ ApprovedUnderExactGrant'
  BY <1>1, <1>2, <1>3 DEF AuthorityInv, Given, Used, ApprovedUnderExactGrant
<1>9. OneConversionPerGrant'
  BY <1>1, <1>6 DEF AuthorityInv, OneConversionPerGrant
<1> QED
  BY <1>7, <1>8, <1>9 DEF AuthorityInv

LEMMA AuthorityStep == TypeInv /\ Firm /\ AuthorityInv /\ [Next]_vars => AuthorityInv'
<1> SUFFICES ASSUME TypeInv, Firm, AuthorityInv, [Next]_vars PROVE AuthorityInv'
  OBVIOUS
<1>1. CASE UNCHANGED <<cand, decisions, intents>>
  BY <1>1 DEF AuthorityInv, UniqueReviews, NotAhead, Granted, Given, Used,
              ApprovedUnderExactGrant, OneConversionPerGrant
<1>2. ASSUME NEW c \in Callers, Decisive(c) PROVE AuthorityInv'
  BY <1>2, AuthorityPersist, AuthorityTransition, AuthorityReview, AuthorityIntent
     DEF Decisive
<1> QED
  BY <1>1, <1>2, StepKinds

-----------------------------------------------------------------------------
(* The invariant, and what follows from it.                                *)

IInv == TypeInv /\ Firm /\ PostureFitsStatus /\ AuthorityInv

\* The invariant holds in every reachable state.
LEMMA Invariance == Spec => []IInv
<1>1. Init => IInv
  <2> SUFFICES ASSUME Init PROVE IInv
    OBVIOUS
  <2>1. Firm
    BY Constants DEF Init, Firm
  <2>2. PostureFitsStatus
    BY Constants DEF Init, PostureFitsStatus
  <2>3. AuthorityInv
    BY Constants DEF Init, AuthorityInv, UniqueReviews, NotAhead, Granted, Given, Used,
                     ApprovedUnderExactGrant, OneConversionPerGrant
  <2> QED
    BY <2>1, <2>2, <2>3, TypeInit DEF IInv
<1>2. IInv /\ [Next]_vars => IInv'
  BY TypeStep, FirmStep, PostureStep, AuthorityStep DEF IInv
<1> QED
  BY <1>1, <1>2, PTL DEF Spec

\* Every record of a candidate, and every request under way, holds values of
\* its kind, whatever runs at the same time.
THEOREM TypeCorrect == Spec => []TypeOK
<1>1. IInv => TypeOK
  BY TypeInvImpliesTypeOK DEF IInv
<1> QED
  BY <1>1, Invariance, PTL

\* An approved candidate carries exactly the evidence of one of its approvals.
THEOREM ExactGrant == Spec => []ApprovedUnderExactGrant
<1>1. IInv => ApprovedUnderExactGrant
  BY DEF IInv, AuthorityInv
<1> QED
  BY <1>1, Invariance, PTL

\* A grant converts a candidate once, however many requests were judged on it.
THEOREM ConversionOnce == Spec => []OneConversionPerGrant
<1>1. IInv => OneConversionPerGrant
  BY DEF IInv, AuthorityInv
<1> QED
  BY <1>1, Invariance, PTL

\* No sequence of transitions, reviews, refreshes and conversions leaves a
\* candidate in a posture its status does not allow.
THEOREM PostureCorrect == Spec => []PostureFitsStatus
<1>1. IInv => PostureFitsStatus
  BY DEF IInv
<1> QED
  BY <1>1, Invariance, PTL

\* A decision is recorded on the evidence the candidate has at that moment.
THEOREM DecisionsAreCurrent == Spec => DecidedOnCurrent
<1>1. IInv /\ [Next]_vars => [\A d \in decisions' \ decisions : d.at = IdentityOf(cand)]_vars
  <2> SUFFICES ASSUME IInv, [Next]_vars
               PROVE  \A d \in decisions' \ decisions : d.at = IdentityOf(cand)
    OBVIOUS
  <2>1. ASSUME NEW c \in Callers, WriteReview(c)
        PROVE  \A d \in decisions' \ decisions : d.at = IdentityOf(cand)
    BY <2>1, ReviewFacts DEF IInv, Decision
  <2>2. ASSUME NEW c \in Callers, WritePersist(c) \/ WriteTransition(c) \/ WriteIntent(c)
        PROVE  decisions' = decisions
    BY <2>2 DEF WritePersist, WriteTransition, WriteIntent
  <2> QED
    BY <2>1, <2>2, StepKinds DEF Decisive
<1> QED
  BY <1>1, Invariance, PTL DEF Spec, DecidedOnCurrent

\* A candidate that has ended is not reopened on the same material facts.
THEOREM EndedStaysEnded == Spec => EndedUntilItRecurs
<1>1. IInv /\ [Next]_vars =>
          [cand.status \in Terminal =>
               cand'.status \in {cand.status, "closed"} \/ cand'.mv > cand.mv]_vars
  <2> SUFFICES ASSUME IInv, [Next]_vars, cand.status \in Terminal
               PROVE  cand'.status \in {cand.status, "closed"} \/ cand'.mv > cand.mv
    OBVIOUS
  <2>1. ASSUME NEW c \in Callers, WritePersist(c)
        PROVE  cand'.status = cand.status \/ cand'.mv > cand.mv
    BY <2>1, PersistFacts DEF IInv, Terminal
  <2>2. ASSUME NEW c \in Callers, WriteTransition(c)
        PROVE  FALSE
    BY <2>2, TransitionFacts
       DEF IInv, Onward, Terminal, Converted, CallerSettable, Discovery, Statuses
  <2>3. ASSUME NEW c \in Callers, WriteReview(c)
        PROVE  FALSE
    BY <2>3, ReviewFacts, Constants
       DEF IInv, OpenFor, Decidable, Discovery, ReviewActions, Terminal
  <2>4. ASSUME NEW c \in Callers, WriteIntent(c)
        PROVE  FALSE
    BY <2>4, IntentFacts DEF IInv, Terminal
  <2> QED
    BY <2>1, <2>2, <2>3, <2>4, StepKinds DEF Decisive
<1> QED
  BY <1>1, Invariance, PTL DEF Spec, EndedUntilItRecurs

\* No request changes what is on record of an erased candidate, whenever it
\* loaded the candidate.
THEOREM ErasureFreezes == Spec => ErasedIsFrozen
<1>1. [Next]_vars => [erased => record' = record]_vars
  <2> SUFFICES ASSUME [Next]_vars, erased PROVE record' = record
    OBVIOUS
  <2>1. ASSUME NEW c \in Callers, NEW op, Write(c, op) PROVE FALSE
    BY <2>1 DEF Write, Writable, Passes
  <2>2. ASSUME NEW c \in Callers, Finish(c) PROVE record' = record
    BY <2>1, <2>2 DEF Finish, Blocked, Collide, WriteKey, WritePersist, WriteTransition,
                      WriteReview, WriteFeedback, WriteIntent, WritePack, record
  <2>3. ASSUME NEW c \in Callers, Load(c) \/ Enter(c) \/ Crash(c) PROVE record' = record
    BY <2>3 DEF Load, LoadPersist, LoadTransition, LoadExpiry, LoadReview, LoadFeedback,
                LoadIntent, LoadPack, Start, Enter, Crash, record
  <2> QED
    BY <2>2, <2>3 DEF Next, Reserve, ReplayFeedback, Erase, vars, record
<1> QED
  BY <1>1, PTL DEF Spec, ErasedIsFrozen

\* Recorded keys and expiries are never lost.
LEMMA KeysGrow ==
    ASSUME TypeInv, [Next]_vars
    PROVE  /\ expiries \subseteq expiries'
           /\ \A k \in Keys : keys[k] # None => keys'[k] = keys[k]
<1>0. DOMAIN keys = Keys
  BY DEF TypeInv, KeysOK
<1>1. ASSUME NEW c \in Callers, Writable(c), RecordKey(call[c].cmd, call[c].src)
      PROVE  /\ expiries \subseteq expiries'
             /\ \A k \in Keys : keys[k] # None => keys'[k] = keys[k]
  <2> DEFINE cmd == call[c].cmd
  <2>1. expiries \subseteq expiries'
    BY <1>1 DEF RecordKey
  <2>2. CASE cmd.op = "expire" \/ cmd.key = Fresh
    BY <1>1, <2>1, <2>2 DEF RecordKey
  <2>3. CASE cmd.op # "expire" /\ cmd.key # Fresh
    <3>1. keys[cmd.key] = None /\ keys' = [keys EXCEPT ![cmd.key] = cmd]
      BY <1>1, <2>3 DEF RecordKey, Writable, Stored
    <3> HIDE DEF cmd
    <3> QED
      BY <1>0, <2>1, <3>1
  <2> QED
    BY <2>2, <2>3
<1>2. CASE UNCHANGED recordedKeys
  BY <1>2 DEF recordedKeys
<1>3. ASSUME NEW c \in Callers, Finish(c)
      PROVE  \/ UNCHANGED recordedKeys
             \/ Writable(c) /\ RecordKey(call[c].cmd, call[c].src)
  BY <1>3 DEF Finish, Blocked, Collide, WriteKey, WritePersist, WriteTransition,
              WriteReview, WriteFeedback, WriteIntent, WritePack, Write
<1>4. ASSUME NEW c \in Callers, Load(c) \/ Enter(c) \/ Crash(c)
      PROVE  UNCHANGED recordedKeys
  BY <1>4 DEF Load, LoadPersist, LoadTransition, LoadExpiry, LoadReview, LoadFeedback,
              LoadIntent, LoadPack, Start, Enter, Crash
<1>5. ASSUME NEW l \in Keys, Reserve(l)
      PROVE  /\ expiries \subseteq expiries'
             /\ \A k \in Keys : keys[k] # None => keys'[k] = keys[k]
  BY <1>0, <1>5 DEF Reserve
<1>6. ASSUME NEW l \in Keys, ReplayFeedback(l)
      PROVE  UNCHANGED recordedKeys
  BY <1>6 DEF ReplayFeedback
<1>7. CASE Erase \/ UNCHANGED vars
  BY <1>2, <1>7 DEF Erase, vars
<1> QED
  BY <1>1, <1>2, <1>3, <1>4, <1>5, <1>6, <1>7 DEF Next

\* A key is never recorded over another request: neither by a transaction nor
\* by the reservation that takes no lock.
THEOREM KeysAreKept == Spec => KeyKeepsItsRequest
<1>1. IInv /\ [Next]_vars => [\A k \in Keys : keys[k] # None => keys'[k] = keys[k]]_vars
  BY KeysGrow DEF IInv
<1> QED
  BY <1>1, Invariance, PTL DEF Spec, KeyKeepsItsRequest

-----------------------------------------------------------------------------
(* The candidate implements the authority of an exact review.              *)

Grants == {[review |-> d.review, at |-> d.at] : d \in {e \in decisions : e.action = "approve"}}
Conversions == {[review |-> i.review, at |-> i.at, target |-> i.target] : i \in intents}
Approved == cand.status = "approved"

\* The authority changes as the identity, the approval, the grants and the
\* conversions do.
LEMMA AuthorityStutters ==
    ASSUME IdentityOf(cand') = IdentityOf(cand), Approved' = Approved,
           Grants' = Grants, Conversions' = Conversions
    PROVE  UNCHANGED Authority!vars
BY DEF Authority!vars, Approved, Grants, Conversions

LEMMA RefinePersist ==
    ASSUME TypeInv, Firm, NEW c \in Callers, WritePersist(c)
    PROVE  Authority!Next \/ UNCHANGED Authority!vars
<1>1. Grants' = Grants /\ Conversions' = Conversions
  BY DEF WritePersist, Grants, Conversions
<1>2. CASE cand' = cand
  <2>1. Approved' = Approved
    BY <1>2 DEF Approved
  <2> QED
    BY <1>1, <1>2, <2>1, AuthorityStutters
<1>3. CASE Later(cand', cand) /\ cand'.status # "approved"
  <2>1. Authority!Newer(IdentityOf(cand'), IdentityOf(cand))
    BY <1>3 DEF Later, IdentityOf, Authority!Newer
  <2>2. Approved' = FALSE
    BY <1>3 DEF Approved
  <2> QED
    BY <1>1, <2>1, <2>2 DEF Authority!Next, Authority!Revise, Approved, Grants, Conversions
<1> QED
  BY <1>2, <1>3, PersistFacts

LEMMA RefineTransition ==
    ASSUME TypeInv, Firm, NEW c \in Callers, WriteTransition(c)
    PROVE  Authority!Next \/ UNCHANGED Authority!vars
<1>1. Grants' = Grants /\ Conversions' = Conversions
  BY DEF WriteTransition, Grants, Conversions
<1>2. IdentityOf(cand') = IdentityOf(cand)
  BY TransitionFacts, SameIdentity
<1>3. Approved' = FALSE
  BY TransitionFacts DEF CallerSettable, Discovery, Approved
<1>4. CASE Approved
  BY <1>1, <1>2, <1>3, <1>4 DEF Authority!Next, Authority!Withdraw, Approved, Grants, Conversions
<1>5. CASE ~Approved
  <2>1. Approved' = Approved
    BY <1>3, <1>5 DEF Approved
  <2> QED
    BY <1>1, <1>2, <2>1, AuthorityStutters
<1> QED
  BY <1>4, <1>5

LEMMA RefineReview ==
    ASSUME TypeInv, Firm, AuthorityInv, NEW c \in Callers, WriteReview(c)
    PROVE  Authority!Next \/ UNCHANGED Authority!vars
<1> DEFINE new == Decision(call[c].cmd)
           to == call[c].cmd.to
<1>1. /\ new.review = call[c].cmd.id /\ new.action = to /\ new.review \in Reviews
      /\ new.at = IdentityOf(cand)
      /\ decisions' = decisions \cup {new} /\ intents' = intents
      /\ \A d \in decisions : d.review # new.review
      /\ cand'.status = "approved" <=> to = "approve"
  BY ReviewFacts DEF Decision, WriteReview
<1>2. IdentityOf(cand') = IdentityOf(cand) /\ Conversions' = Conversions
  BY <1>1, ReviewFacts, SameIdentity DEF Conversions
<1>3. cand.status \notin {"approved"} \cup Converted \cup Terminal
  BY ReviewFacts, Constants
     DEF OpenFor, Decidable, Discovery, ReviewActions, Converted, Terminal
<1> HIDE DEF new, to
<1>4. CASE to = "approve"
  <2>1. Grants' = Grants \cup {[review |-> new.review, at |-> IdentityOf(cand)]}
    BY <1>1, <1>4 DEF Grants
  <2>2. /\ \A g \in Grants : g.at # IdentityOf(cand)
        /\ \A g \in Grants : g.review # new.review
    BY <1>1, <1>3 DEF Grants, AuthorityInv, Given
  <2>3. ~Approved /\ Approved' = TRUE
    BY <1>1, <1>3, <1>4 DEF Approved
  <2> QED
    BY <1>1, <1>2, <2>1, <2>2, <2>3
       DEF Authority!Next, Authority!Approve, Approved, Grants, Conversions
<1>5. CASE to # "approve"
  <2>1. Grants' = Grants
    BY <1>1, <1>5 DEF Grants
  <2>2. Approved' = Approved
    BY <1>1, <1>3, <1>5 DEF Approved
  <2> QED
    BY <1>2, <2>1, <2>2, AuthorityStutters
<1> QED
  BY <1>4, <1>5

LEMMA RefineIntent ==
    ASSUME TypeInv, Firm, NEW c \in Callers, WriteIntent(c)
    PROVE  Authority!Next \/ UNCHANGED Authority!vars
<1> DEFINE new == Intent(call[c].cmd)
           g == [review |-> new.review, at |-> IdentityOf(cand)]
<1>1. /\ new.at = IdentityOf(cand)
      /\ Grant(new.review, new.at) \in decisions
      /\ intents' = intents \cup {new} /\ decisions' = decisions
      /\ cand.status = "approved" /\ cand'.status \in Converted
      /\ new.target \in Targets
  BY IntentFacts DEF Intent, WriteIntent
<1>2. IdentityOf(cand') = IdentityOf(cand) /\ Grants' = Grants
  BY <1>1, IntentFacts, SameIdentity DEF Grants
<1> HIDE DEF new
<1>3. Approved /\ Approved' = FALSE
  BY <1>1 DEF Approved, Converted
<1>4. Conversions' = Conversions \cup
          {[review |-> new.review, at |-> IdentityOf(cand), target |-> new.target]}
  BY <1>1 DEF Conversions
<1>5. g \in Grants /\ g.at = IdentityOf(cand) /\ g.review = new.review
  BY <1>1 DEF Grants, Grant
<1> HIDE DEF g
<1> QED
  BY <1>1, <1>2, <1>3, <1>4, <1>5
     DEF Authority!Next, Authority!Convert, Approved, Grants, Conversions

\* Seen without its requests, locks, loads, retries and keys, the candidate
\* does what an exact review authorizes and nothing else.
THEOREM AuthorityImplemented == Spec => ImplementsAuthority
<1>1. Init => Authority!Init
  BY Constants DEF Init, Authority!Init, IdentityOf, Absent
<1>2. IInv /\ [Next]_vars => [Authority!Next]_(Authority!vars)
  <2> SUFFICES ASSUME IInv, [Next]_vars
               PROVE  Authority!Next \/ UNCHANGED Authority!vars
    OBVIOUS
  <2>1. CASE UNCHANGED <<cand, decisions, intents>>
    BY <2>1, AuthorityStutters DEF Approved, Grants, Conversions
  <2>2. ASSUME NEW c \in Callers, Decisive(c)
        PROVE  Authority!Next \/ UNCHANGED Authority!vars
    BY <2>2, RefinePersist, RefineTransition, RefineReview, RefineIntent DEF Decisive, IInv
  <2> QED
    BY <2>1, <2>2, StepKinds
<1> QED
  BY <1>1, <1>2, Invariance, PTL DEF Spec, ImplementsAuthority, Authority!Spec

-----------------------------------------------------------------------------
(* One retry suffices: the key a request collides on stays recorded, so    *)
(* the second attempt is answered by it and never writes.                  *)

\* Among the keys ks and the expiries xs recorded is that of the request.
Taken(r, ks, xs) ==
    IF r.cmd.op = "expire" THEN r.src.mv \in xs /\ r.cmd # None
    ELSE r.cmd.key # Fresh /\ ks[r.cmd.key] # None

Retrying(r, ks, xs) == r.stage # "idle" =>
    \/ r.attempt = 1
    \/ r.stage = "loaded" /\ Taken(r, ks, xs)

RetryInv == RetryWins /\ \A c \in Callers : Retrying(call[c], keys, expiries)

LEMMA TakenIsStored ==
    ASSUME NEW r
    PROVE  Taken(r, keys, expiries) <=> Stored(r.cmd, r.src) # None
BY DEF Taken, Stored

LEMMA TakenStays ==
    ASSUME TypeInv, [Next]_vars, NEW r \in CallType, Taken(r, keys, expiries)
    PROVE  Taken(r, keys', expiries')
<1>1. /\ expiries \subseteq expiries'
      /\ \A k \in Keys : keys[k] # None => keys'[k] = keys[k]
  BY KeysGrow
<1> QED
  BY <1>1 DEF Taken, CallType, CmdType

LEMMA RetryStep == TypeInv /\ RetryInv /\ [Next]_vars => RetryInv'
<1> SUFFICES ASSUME TypeInv, RetryInv, [Next]_vars PROVE RetryInv'
  OBVIOUS
<1>1. \A c \in Callers : call[c] \in CallType
  BY DEF TypeInv, CallsOK
<1>2. ASSUME NEW d \in Callers, call'[d] = call[d]
      PROVE  Retrying(call'[d], keys', expiries')
  BY <1>1, <1>2, TakenStays DEF RetryInv, Retrying
<1>3. ASSUME NEW c \in Callers, NEW new, call' = [call EXCEPT ![c] = new],
             new.stage # "idle" =>
                 new.attempt = 1 \/ (new.stage = "loaded" /\ Taken(new, keys', expiries')),
             RetryWins'
      PROVE  RetryInv'
  <2>1. \A d \in Callers : d # c => call'[d] = call[d]
    BY <1>3
  <2>2. call'[c] = new
    BY <1>3 DEF TypeInv, CallsOK
  <2>3. Retrying(call'[c], keys', expiries')
    BY <1>3, <2>2 DEF Retrying
  <2>4. \A d \in Callers : Retrying(call'[d], keys', expiries')
    BY <1>2, <2>1, <2>3
  <2> QED
    BY <1>3, <2>4 DEF RetryInv
<1>4. ASSUME NEW c \in Callers, call' = [call EXCEPT ![c] = NoCall], RetryWins'
      PROVE  RetryInv'
  BY <1>3, <1>4, Constants
<1>5. CASE UNCHANGED call /\ RetryWins'
  <2>1. \A d \in Callers : Retrying(call'[d], keys', expiries')
    BY <1>2, <1>5
  <2> QED
    BY <1>5, <2>1 DEF RetryInv
<1>6. ASSUME NEW c \in Callers, NEW cmd, NEW src, Start(c, cmd, src)
      PROVE  RetryInv'
  <2> DEFINE new == [stage |-> "loaded", cmd |-> cmd, src |-> src, attempt |-> 1, bare |-> FALSE]
  <2>1. call' = [call EXCEPT ![c] = new] /\ new.attempt = 1 /\ RetryWins'
    BY <1>6 DEF Start, RetryInv, RetryWins
  <2> HIDE DEF new
  <2> QED
    BY <1>3, <2>1
<1>7. ASSUME NEW c \in Callers, Enter(c)
      PROVE  RetryInv'
  <2> DEFINE me == call[c]
             b == Bare(me)
             new == [me EXCEPT !.stage = "writing", !.bare = b]
  <2>1. RetryWins'
    BY <1>7 DEF Enter, RetryInv, RetryWins
  <2>2. ASSUME Admitted(me), call' = [call EXCEPT ![c] = new]
        PROVE  RetryInv'
    <3>1. me.attempt = 1
      BY <1>7, <2>2, TakenIsStored DEF Enter, Admitted, RetryInv, Retrying
    <3>2. new.attempt = 1
      BY <1>1, <3>1 DEF CallType
    <3> HIDE DEF new
    <3> QED
      BY <1>3, <2>1, <2>2, <3>2
  <2> QED
    BY <1>4, <1>7, <2>1, <2>2 DEF Enter
<1>8. ASSUME NEW c \in Callers, Collide(c)
      PROVE  RetryInv'
  <2> DEFINE me == call[c]
             new == [me EXCEPT !.stage = "loaded", !.attempt = 2]
  <2>1. /\ me.stage = "writing" /\ Taken(me, keys, expiries) /\ me.attempt = 1
    BY <1>8, TakenIsStored DEF Collide, RetryInv, Retrying
  <2>2. RetryWins' /\ call' = [call EXCEPT ![c] = new]
    BY <1>8, <2>1 DEF Collide, RetryInv, RetryWins
  <2>3. new.stage = "loaded" /\ new.cmd = me.cmd /\ new.src = me.src
    BY <1>1 DEF CallType
  <2>4. UNCHANGED recordedKeys
    BY <1>8 DEF Collide
  <2>5. Taken(new, keys', expiries')
    BY <2>1, <2>3, <2>4 DEF Taken, recordedKeys
  <2> HIDE DEF new, me
  <2> QED
    BY <1>3, <2>2, <2>3, <2>5
<1>9. ASSUME NEW c \in Callers, Finish(c), ~Collide(c)
      PROVE  call' = [call EXCEPT ![c] = NoCall] /\ RetryWins'
  BY <1>9 DEF Finish, Blocked, WriteKey, WritePersist, WriteTransition, WriteReview,
              WriteFeedback, WriteIntent, WritePack, Write, Leave, RetryInv, RetryWins
<1>10. ASSUME NEW c \in Callers, Crash(c)
       PROVE  call' = [call EXCEPT ![c] = NoCall] /\ RetryWins'
  BY <1>10 DEF Crash, RetryInv, RetryWins
<1>11. ASSUME NEW c \in Callers, Load(c)
       PROVE  RetryInv'
  <2>1. \E cmd, src : Start(c, cmd, src)
    BY <1>11 DEF Load, LoadPersist, LoadTransition, LoadExpiry, LoadReview, LoadFeedback,
                 LoadIntent, LoadPack
  <2> QED
    BY <1>6, <2>1
<1>12. ASSUME NEW k \in Keys, Reserve(k) \/ ReplayFeedback(k)
       PROVE  UNCHANGED call /\ RetryWins'
  BY <1>12 DEF Reserve, ReplayFeedback, RetryInv, RetryWins
<1>13. CASE Erase \/ UNCHANGED vars
  BY <1>5, <1>13 DEF Erase, vars, RetryInv, RetryWins
<1> QED
  BY <1>4, <1>5, <1>7, <1>8, <1>9, <1>10, <1>11, <1>12, <1>13 DEF Next

\* The one retry after a collision of keys is enough: a request collides only
\* with a reservation of its own key, and the reservation then answers it.
THEOREM RetrySuffices == Spec => []RetryWins
<1>1. Init => RetryInv
  BY Constants DEF Init, RetryInv, RetryWins, Retrying
<1>2. TypeInv /\ RetryInv /\ [Next]_vars => RetryInv'
  BY RetryStep
<1>3. RetryInv => RetryWins
  BY DEF RetryInv
<1>4. IInv => TypeInv
  BY DEF IInv
<1> QED
  BY <1>1, <1>2, <1>3, <1>4, Invariance, PTL DEF Spec
-----------------------------------------------------------------------------
(* What the authority gives the owners of downstream work.                 *)

\* One approval for each evidence there ever was, and one conversion of it.
OneApprovalEach == \A g, h \in Grants : g.at = h.at => g = h

EvidenceUsedOnce ==
    /\ OneApprovalEach
    /\ \A i, j \in intents : i.at = j.at => i = j

\* However many reviewers and converters judge the same evidence at once, it is
\* approved by one of them and becomes work of one owner: what it was once
\* approved for does not come back with another review (record_review_action
\* and record_conversion_intent ask again under the candidate's lock).  From the
\* authority.
THEOREM EvidenceIsUsedOnce == Spec => []EvidenceUsedOnce
<1>1. Authority!Init => OneApprovalEach
  BY DEF Authority!Init, OneApprovalEach, Grants
<1>2. OneApprovalEach /\ [Authority!Next]_(Authority!vars) => OneApprovalEach'
  <2> SUFFICES ASSUME OneApprovalEach, [Authority!Next]_(Authority!vars)
               PROVE  OneApprovalEach'
    OBVIOUS
  <2>1. CASE Authority!Approve
    <3>1. /\ \A g \in Grants : g.at # IdentityOf(cand)
          /\ \E r : Grants' = Grants \cup {[review |-> r, at |-> IdentityOf(cand)]}
      BY <2>1 DEF Authority!Approve, Grants
    <3> HIDE DEF Grants
    <3> QED
      BY <3>1 DEF OneApprovalEach
  <2>2. CASE UNCHANGED Grants
    BY <2>2 DEF OneApprovalEach
  <2>3. CASE Authority!Revise \/ Authority!Convert \/ Authority!Withdraw \/ UNCHANGED Authority!vars
    <3>1. UNCHANGED Grants
      BY <2>3 DEF Authority!Revise, Authority!Convert, Authority!Withdraw, Authority!vars, Grants
    <3> QED
      BY <2>2, <3>1
  <2> QED
    BY <2>1, <2>3 DEF Authority!Next
<1>3. IInv /\ OneApprovalEach => EvidenceUsedOnce
  <2> SUFFICES ASSUME IInv, OneApprovalEach, NEW i \in intents, NEW j \in intents, i.at = j.at
               PROVE  i = j
    BY DEF EvidenceUsedOnce
  <2>1. ASSUME NEW n \in intents PROVE [review |-> n.review, at |-> n.at] \in Grants
    <3>1. Grant(n.review, n.at) \in decisions
      BY DEF IInv, AuthorityInv, Granted
    <3> QED
      BY <3>1 DEF Grants, Grant
  <2>2. [review |-> i.review, at |-> i.at] = [review |-> j.review, at |-> j.at]
    BY <2>1 DEF OneApprovalEach
  <2> QED
    BY <2>2 DEF IInv, AuthorityInv, OneConversionPerGrant
<1> QED
  BY <1>1, <1>2, <1>3, Invariance, AuthorityImplemented, PTL
     DEF ImplementsAuthority, Authority!Spec
=============================================================================
