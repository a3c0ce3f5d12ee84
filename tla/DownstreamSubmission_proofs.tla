-------------------- MODULE DownstreamSubmission_proofs --------------------
(***************************************************************************)
(* Proofs about DownstreamSubmission, for any number of resources, keys,   *)
(* calls, tries and owner versions.                                        *)
(***************************************************************************)
EXTENDS DownstreamSubmission, TLAPS

-----------------------------------------------------------------------------
(* The inductive invariant.                                                *)

\* What a call has in hand for its next step.
CallKnows(c) ==
    /\ call[c].pc \in Running => call[c].key \in Keys /\ call[c].resource \in Resources
    /\ call[c].pc \in {"lookup", "fence", "insert", "post"} => call[c].tries < MaxTries
    /\ call[c].pc = "reconcile" => call[c].answer \in {"accepted", "rejected"}

TypeInv == TypeOK /\ \A c \in Calls : CallKnows(c)

\* Call c has sent a POST for r, or holds a claim under which it will.
Involved(c, r) ==
    \/ c \in posted[r]
    \/ call[c].pc \in Submitting /\ call[c].resource = r

\* Who is about to insert holds the lock and has seen the candidate active.
Fenced == \A c \in SubmitCalls : call[c].pc = "insert" =>
              fence = c /\ EffectiveState = "active"

\* An erasure under way holds the lock and has seen the candidate active.
Locked == erasure # "idle" => fence = "lifecycle" /\ state = "active"

\* A resource somebody is involved in has its row, until the purge.
Tracked == \A r \in Resources, c \in SubmitCalls : Involved(c, r) =>
              \/ \E k \in Rows : subject[k] = r
              \/ EffectiveState = "purged"

Unique == \A r \in Resources : \A c, d \in SubmitCalls :
              Involved(c, r) /\ Involved(d, r) => c = d

ClaimsInv == Fenced /\ Locked /\ Tracked /\ Unique /\ ErasureExcludesDelivery
IInv == TypeInv /\ ClaimsInv
-----------------------------------------------------------------------------
(* Type correctness.                                                       *)

LEMMA Constants ==
    /\ MaxTries \in Nat \ {0} /\ MaxVersion \in Nat \ {0}
    /\ 0 \in Versions /\ 1 \in Versions /\ 0 \in 0 .. MaxTries
    /\ SubmitCalls \subseteq Calls /\ RecoveryCalls \subseteq Calls
BY SubmissionAssumption DEF SubmissionAssumption, Versions, Calls

\* A call that is over is a well-formed call with nothing left to know.
LEMMA OverType ==
    ASSUME TypeInv, NEW c \in Calls, NEW pc \in {"done", "crashed"}
    PROVE  /\ Over(c, pc) \in CallType
           /\ Over(c, pc).pc \notin Running
BY Constants DEF TypeInv, TypeOK, CallType, Over, Begun, Answers, Running, Submitting

\* A step of call c replaces its record and touches no other call.
LEMMA CallsStep ==
    ASSUME TypeInv, NEW c \in Calls, NEW new \in CallType,
           call' = [call EXCEPT ![c] = new],
           new.pc \in Running => new.key \in Keys /\ new.resource \in Resources,
           new.pc \in {"lookup", "fence", "insert", "post"} => new.tries < MaxTries,
           new.pc = "reconcile" => new.answer \in {"accepted", "rejected"}
    PROVE  call' \in [Calls -> CallType] /\ \A d \in Calls : CallKnows(d)'
BY DEF TypeInv, TypeOK, CallKnows

\* The end of a call, whatever ended it.
LEMMA CallsOver ==
    ASSUME TypeInv, NEW c \in Calls, NEW pc \in {"done", "crashed"},
           call' = [call EXCEPT ![c] = Over(c, pc)]
    PROVE  call' \in [Calls -> CallType] /\ \A d \in Calls : CallKnows(d)'
BY OverType, CallsStep DEF Running, Submitting

\* One more entry in the history of a row leaves well-formed rows.
LEMMA TransitionRows ==
    ASSUME RowsOK, NEW k \in Keys, posture[k] # "absent", NEW to \in Postures,
           NEW by \in {"adapter", "operator", "recovery"},
           NEW version \in Versions, NEW ref \in Versions,
           Transition(k, to, by, version, ref)
    PROVE  RowsOK'
<1>1. /\ posture' \in [Keys -> Postures]
      /\ receipt' \in [Keys -> Versions] /\ change' \in [Keys -> Versions]
      /\ author' \in [Keys -> {"nobody", "claimant", "adapter", "operator", "recovery"}]
  BY DEF RowsOK, Transition
<1>2. \A j \in Keys : posture'[j] # "absent" => posture[j] # "absent"
  BY DEF RowsOK, Transition
<1> QED
  BY <1>1, <1>2 DEF RowsOK, Rows, Transition

LEMMA TypeInvInit == Init => TypeInv
<1> SUFFICES ASSUME Init PROVE TypeInv
  OBVIOUS
<1>1. NoCall \in CallType /\ NoCall.pc = "idle" /\ NoCall.pc \notin Running
  BY Constants DEF Begun, NoCall, CallType, Answers, Running, Submitting
<1>2. RowsOK
  BY Constants DEF Init, RowsOK, Rows, Postures
<1>3. LifecycleOK
  BY DEF Init, LifecycleOK
<1>4. WireOK
  BY Constants DEF Init, WireOK
<1>5. call \in [Calls -> CallType] /\ \A c \in Calls : CallKnows(c)
  BY <1>1 DEF Init, CallKnows
<1> QED
  BY <1>2, <1>3, <1>4, <1>5 DEF Init, TypeInv, TypeOK

\* Steps of a submission before its POST.
LEMMA TypeBeginSubmit ==
    ASSUME TypeInv, NEW c \in SubmitCalls, BeginSubmit(c)
    PROVE  TypeInv'
<1>1. PICK key \in Keys, r \in Resources :
        call' = [call EXCEPT ![c] =
                    Begun("lookup", key, r, r \notin Intents \/ r \in authorized, 0)]
  BY DEF BeginSubmit
<1> DEFINE new == Begun("lookup", key, r, r \notin Intents \/ r \in authorized, 0)
<1>2. (r \notin Intents \/ r \in authorized) \in BOOLEAN
  OBVIOUS
<1>3. /\ new \in CallType
      /\ new.pc = "lookup" /\ new.key = key /\ new.resource = r
      /\ new.tries < MaxTries
  BY <1>2, Constants DEF Begun, CallType, Running, Answers
<1>4. c \in Calls /\ call' = [call EXCEPT ![c] = new]
  BY <1>1, Constants
<1> HIDE DEF new
<1>5. call' \in [Calls -> CallType] /\ \A d \in Calls : CallKnows(d)'
  BY <1>3, <1>4, CallsStep
<1> QED
  BY <1>5 DEF BeginSubmit, TypeInv, TypeOK, RowsOK, Rows, LifecycleOK, WireOK,
              submission, lifecycle, wire

LEMMA TypeLookupKey ==
    ASSUME TypeInv, NEW c \in SubmitCalls, LookupKey(c)
    PROVE  TypeInv'
<1> DEFINE new == [call[c] EXCEPT !.pc = "fence"]
<1>1. c \in Calls /\ call[c] \in CallType /\ call[c].pc = "lookup" /\ CallKnows(c)
  BY Constants DEF TypeInv, TypeOK, LookupKey
<1>2. call' \in [Calls -> CallType] /\ \A d \in Calls : CallKnows(d)'
  <2>1. CASE call' = [call EXCEPT ![c] = new]
    <3>1. /\ new \in CallType /\ new.pc = "fence"
          /\ new.key = call[c].key /\ new.resource = call[c].resource
          /\ new.tries = call[c].tries
      BY <1>1 DEF CallType, Running
    <3> QED
      BY <1>1, <2>1, <3>1, CallsStep DEF CallKnows, Running
  <2>2. CASE call' = [call EXCEPT ![c] = Over(c, "done")]
    BY <1>1, <2>2, CallsOver
  <2> QED
    BY <2>1, <2>2 DEF LookupKey
<1> QED
  BY <1>2 DEF LookupKey, TypeInv, TypeOK, RowsOK, Rows, LifecycleOK, WireOK,
              submission, lifecycle, wire

LEMMA TypeTakeFence ==
    ASSUME TypeInv, NEW c \in SubmitCalls, TakeFence(c)
    PROVE  TypeInv'
<1> DEFINE new == [call[c] EXCEPT !.pc = "insert"]
<1>1. c \in Calls /\ call[c] \in CallType /\ call[c].pc = "fence" /\ CallKnows(c)
  BY Constants DEF TypeInv, TypeOK, TakeFence
<1>2. call' \in [Calls -> CallType] /\ \A d \in Calls : CallKnows(d)'
  <2>1. CASE call' = [call EXCEPT ![c] = new]
    <3>1. /\ new \in CallType /\ new.pc = "insert"
          /\ new.key = call[c].key /\ new.resource = call[c].resource
          /\ new.tries = call[c].tries
      BY <1>1 DEF CallType, Running
    <3> QED
      BY <1>1, <2>1, <3>1, CallsStep DEF CallKnows, Running
  <2>2. CASE call' = [call EXCEPT ![c] = Over(c, "done")]
    BY <1>1, <2>2, CallsOver
  <2> QED
    BY <2>1, <2>2 DEF TakeFence
<1>3. fence' \in Calls \cup {"lifecycle", None}
  BY <1>1 DEF TakeFence, TypeInv, TypeOK, LifecycleOK
<1> QED
  BY <1>2, <1>3 DEF TakeFence, TypeInv, TypeOK, RowsOK, Rows, LifecycleOK, WireOK,
                    submission, wire

LEMMA TypeInsertClaim ==
    ASSUME TypeInv, NEW c \in SubmitCalls, InsertClaim(c)
    PROVE  TypeInv'
<1> DEFINE me == call[c]
           toPost == [me EXCEPT !.pc = "post"]
           toEnd == [me EXCEPT !.pc = "finalize", !.answer = "unconfigured"]
<1>1. c \in Calls /\ me \in CallType /\ me.pc = "insert" /\ CallKnows(c)
  BY Constants DEF TypeInv, TypeOK, InsertClaim
<1>2. call' \in [Calls -> CallType] /\ \A d \in Calls : CallKnows(d)'
  <2>1. CASE call' = [call EXCEPT ![c] = toPost]
    <3>1. /\ toPost \in CallType /\ toPost.pc = "post" /\ toPost.tries = me.tries
          /\ toPost.key = me.key /\ toPost.resource = me.resource
      BY <1>1 DEF CallType, Running, Submitting
    <3> QED
      BY <1>1, <2>1, <3>1, CallsStep DEF CallKnows, Running
  <2>2. CASE call' = [call EXCEPT ![c] = toEnd]
    <3>1. /\ toEnd \in CallType /\ toEnd.pc = "finalize"
          /\ toEnd.key = me.key /\ toEnd.resource = me.resource
      BY <1>1 DEF CallType, Running, Submitting, Answers
    <3> QED
      BY <1>1, <2>2, <3>1, CallsStep DEF CallKnows, Running
  <2>3. CASE call' = [call EXCEPT ![c] = Over(c, "done")]
    BY <1>1, <2>3, CallsOver
  <2> QED
    BY <2>1, <2>2, <2>3 DEF InsertClaim
<1>3. RowsOK'
  <2>1. CASE InsertRow(me.key, me.resource)
    BY <1>1, <2>1
       DEF InsertRow, TypeInv, TypeOK, RowsOK, Rows, Postures, CallKnows, Running
  <2>2. CASE UNCHANGED submission
    BY <2>2 DEF submission, TypeInv, TypeOK, RowsOK, Rows
  <2> QED
    BY <2>1, <2>2 DEF InsertClaim
<1> QED
  BY <1>2, <1>3 DEF InsertClaim, TypeInv, TypeOK, LifecycleOK, WireOK, wire

\* Steps of the POST.
LEMMA TypePost ==
    ASSUME TypeInv, NEW c \in SubmitCalls, Post(c)
    PROVE  TypeInv'
<1> DEFINE me == call[c]
           new == [me EXCEPT !.pc = "await", !.tries = me.tries + 1]
<1>1. /\ c \in Calls /\ me \in CallType /\ me.pc = "post"
      /\ me.tries \in 0 .. MaxTries /\ me.tries < MaxTries
      /\ me.key \in Keys /\ me.resource \in Resources
  BY Constants DEF TypeInv, TypeOK, Post, CallKnows, CallType, Running, Submitting
<1>2. me.tries + 1 \in 1 .. MaxTries /\ me.tries + 1 \in 0 .. MaxTries
  BY <1>1, Constants
<1>3. /\ new \in CallType /\ new.pc = "await"
      /\ new.key = me.key /\ new.resource = me.resource
  BY <1>1, <1>2 DEF CallType, Running, Submitting
<1>4. call' = [call EXCEPT ![c] = new]
  BY DEF Post
<1>5. transit' \in SUBSET (SubmitCalls \X (1 .. MaxTries))
  <2> DEFINE W == SubmitCalls \X (1 .. MaxTries)
  <2>1. <<c, me.tries + 1>> \in W
    BY <1>2
  <2>2. transit \in SUBSET W
    BY DEF TypeInv, TypeOK, WireOK
  <2>3. transit' = transit \cup {<<c, me.tries + 1>>}
    BY DEF Post
  <2> HIDE DEF W
  <2>4. transit' \in SUBSET W
    BY <2>1, <2>2, <2>3
  <2> QED
    BY <2>4 DEF W
<1>6. WireOK'
  BY <1>5 DEF Post, TypeInv, TypeOK, WireOK
<1> HIDE DEF new
<1>7. call' \in [Calls -> CallType] /\ \A d \in Calls : CallKnows(d)'
  BY <1>1, <1>3, <1>4, CallsStep
<1> QED
  BY <1>6, <1>7 DEF Post, TypeInv, TypeOK, RowsOK, Rows, LifecycleOK, submission, lifecycle

\* What a waiting call can hear or decide.
LEMMA WaitingCall ==
    ASSUME TypeInv, NEW c \in SubmitCalls, call[c].pc = "await",
           \/ \E answer \in Answers, version \in Versions : Hear(c, answer, version)
           \/ /\ call[c].tries < MaxTries
              /\ call' = [call EXCEPT ![c] = [@ EXCEPT !.pc = "post"]]
    PROVE  call' \in [Calls -> CallType] /\ \A d \in Calls : CallKnows(d)'
<1>1. /\ c \in Calls /\ call[c] \in CallType
      /\ call[c].key \in Keys /\ call[c].resource \in Resources
  BY Constants DEF TypeInv, TypeOK, CallKnows, Running, Submitting
<1>2. CASE \E answer \in Answers, version \in Versions : Hear(c, answer, version)
  <2>1. PICK answer \in Answers, version \in Versions : Hear(c, answer, version)
    BY <1>2
  <2> DEFINE new == [call[c] EXCEPT !.pc = "finalize", !.answer = answer,
                                    !.version = version]
  <2>2. /\ new \in CallType /\ new.pc = "finalize"
        /\ new.key = call[c].key /\ new.resource = call[c].resource
    BY <1>1 DEF CallType, Running, Submitting
  <2>3. call' = [call EXCEPT ![c] = new]
    BY <2>1 DEF Hear
  <2> QED
    BY <1>1, <2>2, <2>3, CallsStep
<1>3. CASE /\ call[c].tries < MaxTries
           /\ call' = [call EXCEPT ![c] = [@ EXCEPT !.pc = "post"]]
  <2> DEFINE new == [call[c] EXCEPT !.pc = "post"]
  <2>1. /\ new \in CallType /\ new.pc = "post" /\ new.tries = call[c].tries
        /\ new.key = call[c].key /\ new.resource = call[c].resource
    BY <1>1 DEF CallType, Running, Submitting
  <2>2. call' = [call EXCEPT ![c] = new]
    BY <1>3
  <2> QED
    BY <1>1, <1>3, <2>1, <2>2, CallsStep
<1> QED
  BY <1>2, <1>3

LEMMA TypeOwnerServes ==
    ASSUME TypeInv, NEW c \in SubmitCalls, NEW n \in 1 .. MaxTries, OwnerServes(c, n)
    PROVE  TypeInv'
<1> DEFINE r == call[c].resource
<1>1. PICK answer \in {"accepted", "rejected"} :
        /\ owner' = [owner EXCEPT ![r] =
              IF @.decision = "none" /\ (answer = "accepted" \/ r \in AdviseIntents)
              THEN [decision |-> answer, version |-> 1] ELSE @]
        /\ \/ Hears(c, n) /\ Hear(c, answer, ReceiptVersion(r, answer))
           \/ UNCHANGED call
  BY DEF OwnerServes
<1>2. WireOK'
  BY <1>1, Constants DEF OwnerServes, TypeInv, TypeOK, WireOK
<1>3. ReceiptVersion(r, answer) \in Versions
  BY Constants DEF ReceiptVersion, TypeInv, TypeOK, WireOK, Resources
<1>4. call' \in [Calls -> CallType] /\ \A d \in Calls : CallKnows(d)'
  <2>1. CASE Hears(c, n) /\ Hear(c, answer, ReceiptVersion(r, answer))
    <3>1. answer \in Answers
      BY DEF Answers
    <3> QED
      BY <1>3, <2>1, <3>1, WaitingCall DEF Hears
  <2>2. CASE UNCHANGED call
    BY <2>2 DEF TypeInv, TypeOK, CallKnows
  <2> QED
    BY <1>1, <2>1, <2>2
<1> QED
  BY <1>2, <1>4 DEF OwnerServes, TypeInv, TypeOK, RowsOK, Rows, LifecycleOK,
                    submission, lifecycle

LEMMA TypeOwnerRefuses ==
    ASSUME TypeInv, NEW c \in SubmitCalls, NEW n \in 1 .. MaxTries, OwnerRefuses(c, n)
    PROVE  TypeInv'
<1>1. call' \in [Calls -> CallType] /\ \A d \in Calls : CallKnows(d)'
  <2>1. CASE Hears(c, n) /\ Hear(c, "refused", 0)
    BY <2>1, Constants, WaitingCall DEF Hears, Answers
  <2>2. CASE /\ Hears(c, n) /\ n < MaxTries
             /\ call' = [call EXCEPT ![c] = [@ EXCEPT !.pc = "post"]]
    BY <2>2, WaitingCall DEF Hears
  <2>3. CASE UNCHANGED call
    BY <2>3 DEF TypeInv, TypeOK, CallKnows
  <2> QED
    BY <2>1, <2>2, <2>3 DEF OwnerRefuses
<1> QED
  BY <1>1 DEF OwnerRefuses, TypeInv, TypeOK, RowsOK, Rows, LifecycleOK, WireOK,
              submission, lifecycle

LEMMA TypeGiveUp ==
    ASSUME TypeInv, NEW c \in SubmitCalls, GiveUp(c)
    PROVE  TypeInv'
<1>1. call' \in [Calls -> CallType] /\ \A d \in Calls : CallKnows(d)'
  <2>1. CASE Hear(c, "unknown", 0)
    BY <2>1, Constants, WaitingCall DEF GiveUp, Answers
  <2>2. CASE ~Hear(c, "unknown", 0)
    BY <2>2, WaitingCall DEF GiveUp
  <2> QED
    BY <2>1, <2>2
<1> QED
  BY <1>1 DEF GiveUp, TypeInv, TypeOK, RowsOK, Rows, LifecycleOK, WireOK,
              submission, lifecycle, wire

LEMMA TypeOwners ==
    ASSUME TypeInv,
           \/ \E c \in SubmitCalls, n \in 1 .. MaxTries : LoseRequest(c, n)
           \/ \E r \in Resources : OwnerAdvances(r) \/ AuthorityLapses(r)
    PROVE  TypeInv'
<1>1. WireOK' /\ authorized' \in SUBSET Intents
  <2>1. CASE \E c \in SubmitCalls, n \in 1 .. MaxTries : LoseRequest(c, n)
    BY <2>1 DEF LoseRequest, TypeInv, TypeOK, WireOK
  <2>2. ASSUME NEW r \in Resources, OwnerAdvances(r)
        PROVE  WireOK' /\ authorized' \in SUBSET Intents
    <3> DEFINE O == [decision : {"none", "accepted", "rejected"}, version : Versions]
               new == [owner[r] EXCEPT !.version = owner[r].version + 1]
    <3>1. owner \in [Resources -> O]
      BY DEF TypeInv, TypeOK, WireOK
    <3>2. owner' = [owner EXCEPT ![r] = new]
      BY <2>2 DEF OwnerAdvances
    <3>3. owner[r].version + 1 \in Versions
      BY <2>2, <3>1, Constants DEF OwnerAdvances, Versions
    <3>4. new \in O
      BY <3>1, <3>3
    <3> HIDE DEF O, new
    <3>5. owner' \in [Resources -> O]
      BY <3>1, <3>2, <3>4
    <3> QED
      BY <2>2, <3>5 DEF O, OwnerAdvances, TypeInv, TypeOK, WireOK
  <2>3. CASE \E r \in Resources : AuthorityLapses(r)
    BY <2>3 DEF AuthorityLapses, TypeInv, TypeOK, WireOK, wire
  <2> QED
    BY <2>1, <2>2, <2>3
<1>2. UNCHANGED <<submission, lifecycle, call>>
  BY DEF LoseRequest, OwnerAdvances, AuthorityLapses
<1> QED
  BY <1>1, <1>2 DEF TypeInv, TypeOK, RowsOK, Rows, LifecycleOK, CallKnows,
                    submission, lifecycle

\* Steps that record an outcome.
LEMMA TypeFinalize ==
    ASSUME TypeInv, NEW c \in SubmitCalls, Finalize(c)
    PROVE  TypeInv'
<1> DEFINE me == call[c]
<1>1. c \in Calls /\ me \in CallType /\ me.key \in Keys
  BY Constants DEF TypeInv, TypeOK, Finalize, CallKnows, Running, Submitting
<1>2. RowsOK'
  <2>1. CASE UNCHANGED submission
    BY <2>1 DEF submission, TypeInv, TypeOK, RowsOK, Rows
  <2>2. CASE /\ Finalizable(me.key)
             /\ Transition(me.key, FinalPosture(me.answer), "adapter", me.version, 0)
    <3>1. FinalPosture(me.answer) \in Postures
      BY DEF FinalPosture, Postures
    <3>2. me.version \in Versions
      BY <1>1 DEF CallType
    <3> QED
      BY <1>1, <2>2, <3>1, <3>2, Constants, TransitionRows
         DEF Finalizable, TypeInv, TypeOK
  <2> QED
    BY <2>1, <2>2 DEF Finalize
<1>3. call' \in [Calls -> CallType] /\ \A d \in Calls : CallKnows(d)'
  BY <1>1, CallsOver DEF Finalize
<1> QED
  BY <1>2, <1>3 DEF Finalize, TypeInv, TypeOK, LifecycleOK, WireOK, lifecycle, wire

LEMMA TypeOperator ==
    ASSUME TypeInv, NEW k \in Keys, OperatorResolves(k) \/ LeaseExpires(k)
    PROVE  TypeInv'
<1>1. RowsOK'
  <2>1. CASE OperatorResolves(k)
    <3>1. PICK to \in {"accepted", "rejected", "quarantined"} :
            Transition(k, to, "operator", 0, 0)
      BY <2>1 DEF OperatorResolves
    <3>2. to \in Postures
      BY DEF Postures
    <3> QED
      BY <2>1, <3>1, <3>2, Constants, TransitionRows
         DEF OperatorResolves, Open, TypeInv, TypeOK
  <2>2. CASE LeaseExpires(k)
    BY <2>2 DEF LeaseExpires, TypeInv, TypeOK, RowsOK, Rows
  <2> QED
    BY <2>1, <2>2
<1>2. UNCHANGED <<lifecycle, authorized, call, wire>>
  BY DEF OperatorResolves, LeaseExpires
<1> QED
  BY <1>1, <1>2 DEF TypeInv, TypeOK, LifecycleOK, WireOK, CallKnows, lifecycle, wire

\* Steps of a recovery.
LEMMA TypeBeginRecovery ==
    ASSUME TypeInv, NEW c \in RecoveryCalls, BeginRecovery(c)
    PROVE  TypeInv'
<1>1. PICK k \in Rows :
        call' = [call EXCEPT ![c] = Begun("read", k, subject[k], FALSE, receipt[k])]
  BY DEF BeginRecovery
<1> DEFINE new == Begun("read", k, subject[k], FALSE, receipt[k])
<1>2. /\ new \in CallType /\ new.pc = "read"
      /\ new.key \in Keys /\ new.resource \in Resources
  BY Constants DEF Begun, CallType, Running, Answers, TypeInv, TypeOK, RowsOK, Rows
<1>3. c \in Calls /\ call' = [call EXCEPT ![c] = new]
  BY <1>1, Constants
<1> HIDE DEF new
<1>4. call' \in [Calls -> CallType] /\ \A d \in Calls : CallKnows(d)'
  BY <1>2, <1>3, CallsStep
<1> QED
  BY <1>4 DEF BeginRecovery, TypeInv, TypeOK, RowsOK, Rows, LifecycleOK, WireOK,
              submission, lifecycle, wire

LEMMA TypeReadOwner ==
    ASSUME TypeInv, NEW c \in RecoveryCalls, ReadOwner(c)
    PROVE  TypeInv'
<1> DEFINE me == call[c]
           o == owner[me.resource]
           pc == IF me.resource \in Intents /\ me.seen > 0
                 THEN "persist" ELSE "reconcile"
           new == [me EXCEPT !.pc = pc, !.answer = o.decision, !.version = o.version]
<1>1. /\ c \in Calls /\ me \in CallType
      /\ me.key \in Keys /\ me.resource \in Resources
  BY Constants DEF TypeInv, TypeOK, ReadOwner, CallKnows, Running
<1>2. CASE call' = [call EXCEPT ![c] = Over(c, "done")]
  <2>1. call' \in [Calls -> CallType] /\ \A d \in Calls : CallKnows(d)'
    BY <1>1, <1>2, CallsOver
  <2> QED
    BY <2>1 DEF ReadOwner, TypeInv, TypeOK, RowsOK, Rows, LifecycleOK, WireOK,
                submission, lifecycle, wire
<1>3. CASE o.decision # "none" /\ call' = [call EXCEPT ![c] = new]
  <2>1. o.decision \in {"accepted", "rejected"} /\ o.version \in Versions
    BY <1>1, <1>3 DEF TypeInv, TypeOK, WireOK
  <2>2. /\ new \in CallType /\ new.answer = o.decision
        /\ new.pc \in {"persist", "reconcile"}
        /\ new.key = me.key /\ new.resource = me.resource
    BY <1>1, <2>1 DEF CallType, Running, Answers
  <2> HIDE DEF new
  <2>3. call' \in [Calls -> CallType] /\ \A d \in Calls : CallKnows(d)'
    BY <1>1, <1>3, <2>1, <2>2, CallsStep
  <2> QED
    BY <2>3 DEF ReadOwner, TypeInv, TypeOK, RowsOK, Rows, LifecycleOK, WireOK,
                submission, lifecycle, wire
<1> QED
  BY <1>2, <1>3 DEF ReadOwner

LEMMA TypeReconcile ==
    ASSUME TypeInv, NEW c \in RecoveryCalls, Reconcile(c)
    PROVE  TypeInv'
<1> DEFINE me == call[c]
           k == me.key
           isPack == me.resource \in ReportPacks
           toPersist == [me EXCEPT !.pc = "persist"]
<1>1. /\ c \in Calls /\ me \in CallType /\ k \in Keys /\ me.resource \in Resources
      /\ me.answer \in {"accepted", "rejected"} /\ me.version \in Versions
  BY Constants DEF TypeInv, TypeOK, CallType, Reconcile, CallKnows, Running
<1>2. RowsOK'
  <2>1. CASE UNCHANGED submission
    BY <2>1 DEF submission, TypeInv, TypeOK, RowsOK, Rows
  <2>2. CASE /\ Reconcilable(k, me)
             /\ Transition(k, me.answer, "recovery",
                           IF isPack THEN me.version ELSE 1, me.version)
    <3>1. posture[k] # "absent" /\ me.answer \in Postures
      BY <1>1, <2>2 DEF Reconcilable, Advances, Open, Postures
    <3>2. (IF isPack THEN me.version ELSE 1) \in Versions
      BY <1>1, Constants
    <3> QED
      BY <1>1, <2>2, <3>1, <3>2, TransitionRows DEF TypeInv, TypeOK
  <2> QED
    BY <2>1, <2>2 DEF Reconcile
<1>3. call' \in [Calls -> CallType] /\ \A d \in Calls : CallKnows(d)'
  <2>1. CASE call' = [call EXCEPT ![c] = Over(c, "done")]
    BY <1>1, <2>1, CallsOver
  <2>2. CASE call' = [call EXCEPT ![c] = toPersist]
    <3>1. /\ toPersist \in CallType /\ toPersist.pc = "persist"
          /\ toPersist.key = k /\ toPersist.resource = me.resource
      BY <1>1 DEF CallType, Running
    <3> HIDE DEF toPersist
    <3> QED
      BY <1>1, <2>2, <3>1, CallsStep
  <2> QED
    BY <2>1, <2>2 DEF Reconcile
<1> QED
  BY <1>2, <1>3 DEF Reconcile, TypeInv, TypeOK, LifecycleOK, WireOK, lifecycle, wire

LEMMA TypePersistHistory ==
    ASSUME TypeInv, NEW c \in RecoveryCalls, PersistHistory(c)
    PROVE  TypeInv'
<1>1. c \in Calls /\ call[c].version \in Versions
  BY Constants DEF TypeInv, TypeOK, CallType
<1>2. RowsOK'
  BY <1>1 DEF PersistHistory, TypeInv, TypeOK, RowsOK, Rows
<1>3. call' \in [Calls -> CallType] /\ \A d \in Calls : CallKnows(d)'
  BY <1>1, CallsOver DEF PersistHistory
<1> QED
  BY <1>2, <1>3 DEF PersistHistory, TypeInv, TypeOK, LifecycleOK, WireOK,
                    lifecycle, wire

\* Steps of the candidate's lifecycle, and a crash.
LEMMA TypeLifecycle ==
    ASSUME TypeInv, Lifecycle
    PROVE  TypeInv'
<1>1. LifecycleOK'
  BY DEF Lifecycle, CountForErasure, ApplyErasure, ApplyHold, ReleaseHold, Purge,
         TypeInv, TypeOK, LifecycleOK
<1>2. RowsOK'
  <2>1. CASE Purge
    BY <2>1, Constants DEF Purge, RowsOK, Rows, Postures
  <2>2. CASE UNCHANGED submission
    BY <2>2 DEF submission, TypeInv, TypeOK, RowsOK, Rows
  <2> QED
    BY <2>1, <2>2 DEF Lifecycle, CountForErasure, ApplyErasure, ApplyHold, ReleaseHold
<1>3. UNCHANGED <<authorized, call, wire>>
  BY DEF Lifecycle, CountForErasure, ApplyErasure, ApplyHold, ReleaseHold, Purge
<1> QED
  BY <1>1, <1>2, <1>3 DEF TypeInv, TypeOK, WireOK, CallKnows, wire

LEMMA TypeCrash ==
    ASSUME TypeInv, NEW c \in Calls, Crash(c)
    PROVE  TypeInv'
<1>1. call' \in [Calls -> CallType] /\ \A d \in Calls : CallKnows(d)'
  BY CallsOver DEF Crash
<1>2. LifecycleOK'
  BY DEF Crash, TypeInv, TypeOK, LifecycleOK
<1> QED
  BY <1>1, <1>2 DEF Crash, TypeInv, TypeOK, RowsOK, Rows, WireOK, submission, wire

LEMMA TypeInvNext == TypeInv /\ [Next]_vars => TypeInv'
<1> SUFFICES ASSUME TypeInv, [Next]_vars PROVE TypeInv'
  OBVIOUS
<1>1. ASSUME NEW c \in SubmitCalls, BeginSubmit(c) \/ SubmitStep(c)
      PROVE  TypeInv'
  BY <1>1, TypeBeginSubmit, TypeLookupKey, TypeTakeFence, TypeInsertClaim, TypePost,
     TypeGiveUp, TypeFinalize DEF SubmitStep
<1>2. ASSUME NEW c \in RecoveryCalls, BeginRecovery(c) \/ RecoveryStep(c)
      PROVE  TypeInv'
  BY <1>2, TypeBeginRecovery, TypeReadOwner, TypeReconcile, TypePersistHistory
     DEF RecoveryStep
<1>3. CASE Network
  BY <1>3, TypeOwnerServes, TypeOwnerRefuses, TypeOwners DEF Network
<1>4. CASE UNCHANGED vars
  BY <1>4 DEF vars, TypeInv, TypeOK, RowsOK, Rows, LifecycleOK, WireOK, CallKnows,
              submission, lifecycle, wire
<1> QED
  BY <1>1, <1>2, <1>3, <1>4, TypeCrash, TypeOwners, TypeOperator, TypeLifecycle DEF Next

\* The submission rows keep the shape the record class demands, and every call
\* in progress knows what it needs for its next step, in every reachable state.
THEOREM TypeCorrect == Spec => []TypeOK
<1>1. Init => TypeInv
  BY TypeInvInit
<1>2. TypeInv /\ [Next]_vars => TypeInv'
  BY TypeInvNext
<1>3. TypeInv => TypeOK
  BY DEF TypeInv
<1> QED
  BY <1>1, <1>2, <1>3, PTL DEF Spec

-----------------------------------------------------------------------------
(* One sender per resource, and none once the candidate is erased.         *)

LEMMA ClaimsInit == Init => ClaimsInv
<1> SUFFICES ASSUME Init PROVE ClaimsInv
  OBVIOUS
<1>1. \A c \in SubmitCalls : call[c].pc = "idle"
  BY Constants DEF Init, NoCall, Begun
<1>2. \A c \in SubmitCalls, r \in Resources : ~Involved(c, r)
  BY <1>1 DEF Init, Involved, Submitting
<1> QED
  BY <1>1, <1>2
     DEF Init, ClaimsInv, Fenced, Locked, Tracked, Unique, ErasureExcludesDelivery,
         Submitting

\* No call is at a claim that was not there before.
NoNewClaim ==
    \A c \in SubmitCalls :
        /\ call'[c].pc = "insert" => call[c].pc = "insert"
        /\ call'[c].pc \in Submitting =>
              call[c].pc \in Submitting /\ call'[c].resource = call[c].resource
        /\ \A r \in Resources : c \in posted'[r] => Involved(c, r)

\* The rows that were there are still there.
RowsStay == \A k \in Rows : k \in Rows' /\ subject'[k] = subject[k]

LEMMA InvolvedBefore ==
    ASSUME NoNewClaim, NEW c \in SubmitCalls, NEW r \in Resources, Involved(c, r)'
    PROVE  Involved(c, r)
BY DEF NoNewClaim, Involved

\* Steps that touch neither the claims nor the lifecycle of the candidate.
LEMMA ClaimsQuiet ==
    ASSUME ClaimsInv, NoNewClaim, RowsStay, UNCHANGED lifecycle
    PROVE  ClaimsInv'
<1>1. EffectiveState' = EffectiveState
  BY DEF EffectiveState, lifecycle
<1>2. Fenced' /\ Locked' /\ ErasureExcludesDelivery'
  BY <1>1 DEF ClaimsInv, Fenced, Locked, ErasureExcludesDelivery, NoNewClaim, lifecycle
<1>3. Tracked'
  BY <1>1, InvolvedBefore DEF ClaimsInv, Tracked, RowsStay
<1>4. Unique'
  BY InvolvedBefore DEF ClaimsInv, Unique
<1> QED
  BY <1>2, <1>3, <1>4 DEF ClaimsInv

\* A step of one call alone that does not bring it to a claim of its own.
LEMMA OneCallQuiet ==
    ASSUME TypeInv, NEW c \in Calls, NEW new,
           call' = [call EXCEPT ![c] = new],
           new.pc # "insert",
           new.pc \in Submitting =>
               call[c].pc \in Submitting /\ new.resource = call[c].resource,
           UNCHANGED posted
    PROVE  NoNewClaim
BY Constants DEF NoNewClaim, Involved, TypeInv, TypeOK

LEMMA OverQuiet ==
    ASSUME TypeInv, NEW c \in Calls, NEW pc \in {"done", "crashed"},
           call' = [call EXCEPT ![c] = Over(c, pc)], UNCHANGED posted
    PROVE  NoNewClaim
<1>1. Over(c, pc).pc \notin {"insert"} \cup Submitting
  BY DEF Over, Begun, Submitting
<1> QED
  BY <1>1, OneCallQuiet

LEMMA SameCallsQuiet ==
    ASSUME UNCHANGED <<call, posted>>
    PROVE  NoNewClaim
BY DEF NoNewClaim, Involved

LEMMA SameRows ==
    ASSUME UNCHANGED <<posture, subject>>
    PROVE  RowsStay
BY DEF RowsStay, Rows

\* A new entry in a row's history neither adds nor removes a row.
LEMMA TransitionStays ==
    ASSUME TypeInv, NEW k \in Keys, NEW to \in Postures \ {"absent"}, NEW by,
           NEW version, NEW ref, Transition(k, to, by, version, ref)
    PROVE  RowsStay
BY DEF TypeInv, TypeOK, RowsOK, Transition, RowsStay, Rows

\* The steps of a submission.
LEMMA ClaimsSubmitQuiet ==
    ASSUME TypeInv, NEW c \in SubmitCalls, BeginSubmit(c) \/ LookupKey(c)
    PROVE  NoNewClaim /\ RowsStay /\ UNCHANGED lifecycle
<1>1. c \in Calls /\ call[c] \in CallType
  BY Constants DEF TypeInv, TypeOK
<1>2. NoNewClaim
  <2>1. CASE BeginSubmit(c)
    <3>1. PICK key, r, valid :
            call' = [call EXCEPT ![c] = Begun("lookup", key, r, valid, 0)]
      BY <2>1 DEF BeginSubmit
    <3>2. Begun("lookup", key, r, valid, 0).pc \notin {"insert"} \cup Submitting
      BY DEF Begun, Submitting
    <3> QED
      BY <1>1, <2>1, <3>1, <3>2, OneCallQuiet DEF BeginSubmit, wire
  <2>2. CASE LookupKey(c) /\ call' = [call EXCEPT ![c] = Over(c, "done")]
    BY <1>1, <2>2, OverQuiet DEF LookupKey, wire
  <2>3. CASE LookupKey(c) /\ call' = [call EXCEPT ![c] = [@ EXCEPT !.pc = "fence"]]
    <3>1. [call[c] EXCEPT !.pc = "fence"].pc \notin {"insert"} \cup Submitting
      BY <1>1 DEF CallType, Submitting
    <3> QED
      BY <1>1, <2>3, <3>1, OneCallQuiet DEF LookupKey, wire
  <2> QED
    BY <2>1, <2>2, <2>3 DEF LookupKey
<1> QED
  BY <1>2, SameRows DEF BeginSubmit, LookupKey, submission

LEMMA ClaimsTakeFence ==
    ASSUME IInv, NEW c \in SubmitCalls, TakeFence(c)
    PROVE  ClaimsInv'
<1>1. c \in Calls /\ call[c] \in CallType /\ call[c].pc = "fence" /\ fence = None
  BY Constants DEF IInv, TypeInv, TypeOK, TakeFence
<1>2. UNCHANGED <<posture, subject, state, heldFrom, erasure, erased, posted>>
  BY DEF TakeFence, submission, wire
<1>3. CASE EffectiveState # "active"
  <2>1. call' = [call EXCEPT ![c] = Over(c, "done")] /\ UNCHANGED lifecycle
    BY <1>2, <1>3 DEF TakeFence, lifecycle
  <2> QED
    BY <1>1, <1>2, <2>1, OverQuiet, SameRows, ClaimsQuiet DEF IInv
<1>4. CASE EffectiveState = "active"
  <2> DEFINE new == [call[c] EXCEPT !.pc = "insert"]
  <2>1. call' = [call EXCEPT ![c] = new] /\ fence' = c
    BY <1>4 DEF TakeFence
  <2>2. new.pc = "insert"
    BY <1>1 DEF CallType
  <2> HIDE DEF new
  <2>3. EffectiveState' = EffectiveState
    BY <1>2 DEF EffectiveState
  <2>4. \A d \in SubmitCalls : d # c => call'[d] = call[d]
    BY <2>1
  <2>5. call'[c].pc = "insert"
    BY <1>1, <2>1, <2>2 DEF IInv, TypeInv, TypeOK
  <2>6. erasure = "idle"
    BY <1>1, SubmissionAssumption DEF IInv, ClaimsInv, Locked, SubmissionAssumption
  <2>7. Fenced'
    <3>1. \A d \in SubmitCalls : call[d].pc # "insert"
      BY <1>1, Constants, SubmissionAssumption
         DEF IInv, ClaimsInv, Fenced, SubmissionAssumption
    <3> QED
      BY <1>4, <2>1, <2>3, <2>4, <3>1 DEF Fenced
  <2>8. Locked'
    BY <1>2, <2>6 DEF Locked
  <2>9. ASSUME NEW d \in SubmitCalls, NEW r \in Resources, Involved(d, r)'
        PROVE  Involved(d, r)
    BY <1>2, <2>4, <2>5, <2>9 DEF Involved, Submitting
  <2>10. Tracked' /\ Unique'
    BY <1>2, <2>3, <2>9 DEF IInv, ClaimsInv, Tracked, Unique, Rows
  <2>11. ErasureExcludesDelivery'
    BY <2>3, <2>4, <2>5 DEF IInv, ClaimsInv, ErasureExcludesDelivery, Submitting
  <2> QED
    BY <2>7, <2>8, <2>10, <2>11 DEF ClaimsInv
<1> QED
  BY <1>3, <1>4

LEMMA ClaimsInsertClaim ==
    ASSUME IInv, NEW c \in SubmitCalls, InsertClaim(c)
    PROVE  ClaimsInv'
<1> DEFINE k == call[c].key
           r == call[c].resource
<1>1. /\ c \in Calls /\ call[c] \in CallType /\ call[c].pc = "insert"
      /\ k \in Keys /\ r \in Resources
      /\ fence = c /\ EffectiveState = "active"
  <2>1. c \in Calls /\ call[c] \in CallType /\ CallKnows(c) /\ call[c].pc = "insert"
    BY Constants DEF IInv, TypeInv, TypeOK, InsertClaim
  <2>2. fence = c /\ EffectiveState = "active"
    BY <2>1 DEF IInv, ClaimsInv, Fenced
  <2> QED
    BY <2>1, <2>2 DEF CallKnows, Running
<1>2. /\ UNCHANGED <<state, heldFrom, erasure, posted>>
      /\ EffectiveState' = EffectiveState
  BY DEF InsertClaim, wire, EffectiveState
<1>3. erasure = "idle"
  BY <1>1, SubmissionAssumption DEF IInv, ClaimsInv, Locked, SubmissionAssumption
<1>4. \A d \in SubmitCalls : d # c => call'[d] = call[d] /\ call[d].pc # "insert"
  <2>1. \E new : call' = [call EXCEPT ![c] = new]
    BY DEF InsertClaim
  <2>2. \A d \in SubmitCalls : d # c => call[d].pc # "insert"
    BY <1>1 DEF IInv, ClaimsInv, Fenced
  <2> QED
    BY <2>1, <2>2, Constants DEF IInv, TypeInv, TypeOK
<1>5. CASE call' = [call EXCEPT ![c] = Over(c, "done")] /\ UNCHANGED submission
  <2>1. NoNewClaim /\ RowsStay
    BY <1>1, <1>2, <1>5, OverQuiet, SameRows DEF IInv, submission
  <2>2. call'[c].pc = "done"
    BY <1>1, <1>5 DEF Over, Begun, IInv, TypeInv, TypeOK
  <2>3. Fenced' /\ Locked'
    BY <1>2, <1>3, <1>4, <2>2 DEF Fenced, Locked
  <2>4. Tracked' /\ Unique'
    BY <1>2, <2>1, InvolvedBefore DEF IInv, ClaimsInv, Tracked, Unique, RowsStay
  <2>5. ErasureExcludesDelivery'
    BY <1>1, <1>2 DEF ErasureExcludesDelivery
  <2> QED
    BY <2>3, <2>4, <2>5 DEF ClaimsInv
<1>6. CASE Unclaimed(k, r) /\ InsertRow(k, r) /\ call'[c].pc \in {"post", "finalize"}
           /\ call'[c].resource = r
  <2>1. \A d \in SubmitCalls : ~Involved(d, r)
    BY <1>1, <1>6 DEF Unclaimed, IInv, ClaimsInv, Tracked
  <2>2. k \in Rows' /\ subject'[k] = r
    BY <1>1, <1>6 DEF InsertRow, Rows, IInv, TypeInv, TypeOK, RowsOK
  <2>3. RowsStay
    BY <1>1, <1>6 DEF InsertRow, Unclaimed, RowsStay, Rows, IInv, TypeInv, TypeOK, RowsOK
  <2>4. ASSUME NEW d \in SubmitCalls, NEW q \in Resources, Involved(d, q)'
        PROVE  Involved(d, q) \/ (d = c /\ q = r)
    BY <1>2, <1>4, <1>6, <2>4 DEF Involved
  <2>5. Fenced' /\ Locked'
    BY <1>2, <1>3, <1>4, <1>6 DEF Fenced, Locked
  <2>6. Tracked'
    BY <1>2, <2>2, <2>3, <2>4 DEF IInv, ClaimsInv, Tracked, RowsStay
  <2>7. Unique'
    BY <2>1, <2>4 DEF IInv, ClaimsInv, Unique
  <2>8. ErasureExcludesDelivery'
    BY <1>1, <1>2 DEF ErasureExcludesDelivery
  <2> QED
    BY <2>5, <2>6, <2>7, <2>8 DEF ClaimsInv
<1>7. CASE /\ Unclaimed(k, r) /\ InsertRow(k, r)
           /\ \/ call' = [call EXCEPT ![c] = [@ EXCEPT !.pc = "post"]]
              \/ call' = [call EXCEPT ![c] =
                    [@ EXCEPT !.pc = "finalize", !.answer = "unconfigured"]]
  <2> DEFINE toPost == [call[c] EXCEPT !.pc = "post"]
             toEnd == [call[c] EXCEPT !.pc = "finalize", !.answer = "unconfigured"]
  <2>1. /\ toPost.pc = "post" /\ toPost.resource = r
        /\ toEnd.pc = "finalize" /\ toEnd.resource = r
    BY <1>1 DEF CallType
  <2>2. call' = [call EXCEPT ![c] = toPost] \/ call' = [call EXCEPT ![c] = toEnd]
    BY <1>7
  <2> HIDE DEF toPost, toEnd
  <2>3. call'[c] = toPost \/ call'[c] = toEnd
    BY <1>1, <2>2 DEF IInv, TypeInv, TypeOK
  <2>4. call'[c].pc \in {"post", "finalize"} /\ call'[c].resource = r
    BY <2>1, <2>3
  <2> QED
    BY <1>6, <1>7, <2>4
<1> QED
  BY <1>5, <1>7 DEF InsertClaim

\* The call that sends the POST is the one that holds the claim.
LEMMA ClaimsPost ==
    ASSUME IInv, NEW c \in SubmitCalls, Post(c)
    PROVE  NoNewClaim /\ RowsStay /\ UNCHANGED lifecycle
<1> DEFINE new == [call[c] EXCEPT !.pc = "await", !.tries = call[c].tries + 1]
<1>1. c \in Calls /\ call[c] \in CallType /\ call[c].pc = "post"
  BY Constants DEF IInv, TypeInv, TypeOK, Post
<1>2. call' = [call EXCEPT ![c] = new]
  BY DEF Post
<1>3. new.pc = "await" /\ new.resource = call[c].resource
  BY <1>1 DEF CallType
<1> HIDE DEF new
<1>4. /\ call'[c].pc = "await" /\ call'[c].resource = call[c].resource
      /\ \A d \in SubmitCalls : d # c => call'[d] = call[d]
  BY <1>1, <1>2, <1>3 DEF IInv, TypeInv, TypeOK
<1>5. \A d \in SubmitCalls, r \in Resources :
        d \in posted'[r] => d \in posted[r] \/ (d = c /\ r = call[c].resource)
  BY DEF Post, IInv, TypeInv, TypeOK, WireOK
<1>6. NoNewClaim
  BY <1>1, <1>4, <1>5 DEF NoNewClaim, Involved, Submitting
<1> QED
  BY <1>6, SameRows DEF Post, submission

\* A call waiting for an answer stays at its claim.
LEMMA ClaimsWaiting ==
    ASSUME IInv, NEW c \in SubmitCalls, call[c].pc = "await", UNCHANGED posted,
           \/ \E answer, version : Hear(c, answer, version)
           \/ call' = [call EXCEPT ![c] = [@ EXCEPT !.pc = "post"]]
    PROVE  NoNewClaim
<1>1. c \in Calls /\ call[c] \in CallType
  BY Constants DEF IInv, TypeInv, TypeOK
<1>2. CASE \E answer, version : Hear(c, answer, version)
  <2>1. PICK answer, version : Hear(c, answer, version)
    BY <1>2
  <2> DEFINE new == [call[c] EXCEPT !.pc = "finalize", !.answer = answer,
                                    !.version = version]
  <2>2. new.pc = "finalize" /\ new.resource = call[c].resource
    BY <1>1 DEF CallType
  <2>3. call' = [call EXCEPT ![c] = new]
    BY <2>1 DEF Hear
  <2> HIDE DEF new
  <2> QED
    BY <1>1, <2>2, <2>3, OneCallQuiet DEF IInv, Submitting
<1>3. CASE call' = [call EXCEPT ![c] = [@ EXCEPT !.pc = "post"]]
  <2> DEFINE new == [call[c] EXCEPT !.pc = "post"]
  <2>1. new.pc = "post" /\ new.resource = call[c].resource
    BY <1>1 DEF CallType
  <2>2. call' = [call EXCEPT ![c] = new]
    BY <1>3
  <2> HIDE DEF new
  <2> QED
    BY <1>1, <2>1, <2>2, OneCallQuiet DEF IInv, Submitting
<1> QED
  BY <1>2, <1>3

LEMMA ClaimsNetwork ==
    ASSUME IInv, \/ \E c \in SubmitCalls : GiveUp(c)
                 \/ Network
    PROVE  NoNewClaim /\ RowsStay /\ UNCHANGED lifecycle
<1>1. UNCHANGED <<lifecycle, posture, subject, posted>>
  BY DEF GiveUp, Network, OwnerServes, OwnerRefuses, LoseRequest, submission, wire
<1>2. CASE UNCHANGED call
  BY <1>1, <1>2, SameCallsQuiet, SameRows
<1>3. CASE ~UNCHANGED call
  <2>1. PICK c \in SubmitCalls :
          /\ call[c].pc = "await"
          /\ \/ \E answer, version : Hear(c, answer, version)
             \/ call' = [call EXCEPT ![c] = [@ EXCEPT !.pc = "post"]]
    BY <1>3 DEF GiveUp, Network, OwnerServes, OwnerRefuses, LoseRequest, Hears
  <2> QED
    BY <1>1, <2>1, ClaimsWaiting, SameRows
<1> QED
  BY <1>2, <1>3

LEMMA ClaimsFinalize ==
    ASSUME IInv, NEW c \in SubmitCalls, Finalize(c)
    PROVE  NoNewClaim /\ RowsStay /\ UNCHANGED lifecycle
<1> DEFINE me == call[c]
<1>1. c \in Calls /\ me.key \in Keys
  BY Constants DEF IInv, TypeInv, TypeOK, Finalize, CallKnows, Running, Submitting
<1>2. NoNewClaim
  BY <1>1, OverQuiet DEF IInv, Finalize, wire
<1>3. RowsStay
  <2>1. CASE UNCHANGED submission
    BY <2>1, SameRows DEF submission
  <2>2. CASE Transition(me.key, FinalPosture(me.answer), "adapter", me.version, 0)
    <3>1. FinalPosture(me.answer) \in Postures \ {"absent"}
      BY DEF FinalPosture, Postures
    <3> QED
      BY <1>1, <2>2, <3>1, TransitionStays DEF IInv
  <2> QED
    BY <2>1, <2>2 DEF Finalize
<1> QED
  BY <1>2, <1>3 DEF Finalize

\* Operators and recoveries leave the claims alone.
LEMMA ClaimsRecovery ==
    ASSUME IInv,
           \/ \E c \in RecoveryCalls : BeginRecovery(c) \/ RecoveryStep(c)
           \/ \E k \in Keys : OperatorResolves(k) \/ LeaseExpires(k)
           \/ \E r \in Resources : OwnerAdvances(r) \/ AuthorityLapses(r)
    PROVE  NoNewClaim /\ RowsStay /\ UNCHANGED lifecycle
<1>1. UNCHANGED <<lifecycle, posted>>
  BY DEF BeginRecovery, RecoveryStep, ReadOwner, Reconcile, PersistHistory,
         OperatorResolves, LeaseExpires, OwnerAdvances, AuthorityLapses, wire
<1>2. NoNewClaim
  <2>1. CASE \E c \in RecoveryCalls : \A d \in SubmitCalls : call'[d] = call[d]
    BY <1>1, <2>1 DEF NoNewClaim, Involved
  <2>2. CASE UNCHANGED call
    BY <1>1, <2>2, SameCallsQuiet
  <2>3. ASSUME NEW c \in RecoveryCalls, BeginRecovery(c) \/ RecoveryStep(c)
        PROVE  \A d \in SubmitCalls : call'[d] = call[d]
    <3>1. \E new : call' = [call EXCEPT ![c] = new]
      BY <2>3 DEF BeginRecovery, RecoveryStep, ReadOwner, Reconcile, PersistHistory
    <3>2. c \notin SubmitCalls
      BY SubmissionAssumption DEF SubmissionAssumption
    <3> QED
      BY <3>1, <3>2, Constants DEF IInv, TypeInv, TypeOK
  <2> QED
    BY <2>1, <2>2, <2>3 DEF OperatorResolves, LeaseExpires, OwnerAdvances, AuthorityLapses
<1>3. RowsStay
  <2>1. CASE UNCHANGED <<posture, subject>>
    BY <2>1, SameRows
  <2>2. ASSUME NEW k \in Keys, OperatorResolves(k)
        PROVE  RowsStay
    <3>1. PICK to \in {"accepted", "rejected", "quarantined"} :
            Transition(k, to, "operator", 0, 0)
      BY <2>2 DEF OperatorResolves
    <3>2. to \in Postures \ {"absent"}
      BY DEF Postures
    <3> QED
      BY <3>1, <3>2, TransitionStays DEF IInv
  <2>3. ASSUME NEW c \in RecoveryCalls, Reconcile(c), ~UNCHANGED submission
        PROVE  RowsStay
    <3> DEFINE me == call[c]
    <3>1. c \in Calls /\ me.key \in Keys /\ me.answer \in {"accepted", "rejected"}
      BY <2>3, Constants DEF IInv, TypeInv, Reconcile, CallKnows, Running
    <3>2. \E version, ref : Transition(me.key, me.answer, "recovery", version, ref)
      BY <2>3 DEF Reconcile
    <3>3. me.answer \in Postures \ {"absent"}
      BY <3>1 DEF Postures
    <3> QED
      BY <3>1, <3>2, <3>3, TransitionStays DEF IInv
  <2> QED
    BY <2>1, <2>2, <2>3
       DEF BeginRecovery, RecoveryStep, ReadOwner, PersistHistory, LeaseExpires,
           OwnerAdvances, AuthorityLapses, submission
<1> QED
  BY <1>1, <1>2, <1>3

\* A crash gives the lock back only if the call held it.
LEMMA ClaimsCrash ==
    ASSUME IInv, NEW c \in Calls, Crash(c)
    PROVE  ClaimsInv'
<1>1. NoNewClaim /\ RowsStay
  BY OverQuiet, SameRows DEF IInv, Crash, submission, wire
<1>2. /\ UNCHANGED <<state, heldFrom, erasure>> /\ EffectiveState' = EffectiveState
      /\ call'[c].pc = "crashed"
  BY DEF Crash, EffectiveState, Over, Begun, IInv, TypeInv, TypeOK
<1>3. Fenced'
  BY <1>1, <1>2 DEF IInv, ClaimsInv, Fenced, NoNewClaim, Crash
<1>4. Locked'
  BY <1>2, SubmissionAssumption
     DEF IInv, ClaimsInv, Locked, Crash, SubmissionAssumption
<1>5. Tracked' /\ Unique'
  BY <1>1, <1>2, InvolvedBefore DEF IInv, ClaimsInv, Tracked, Unique, RowsStay
<1>6. ErasureExcludesDelivery'
  BY <1>1, <1>2 DEF IInv, ClaimsInv, ErasureExcludesDelivery, NoNewClaim
<1> QED
  BY <1>3, <1>4, <1>5, <1>6 DEF ClaimsInv

\* The lifecycle moves only while no claim is being inserted, and away from
\* "active" only when there is no row.
LEMMA ClaimsLifecycle ==
    ASSUME IInv, Lifecycle
    PROVE  ClaimsInv'
<1>1. NoNewClaim
  BY SameCallsQuiet
     DEF Lifecycle, CountForErasure, ApplyErasure, ApplyHold, ReleaseHold, Purge, wire
<1>2. ASSUME NEW c \in SubmitCalls
      PROVE  call'[c].pc # "insert"
  <2>1. fence \in {None, "lifecycle"}
    BY DEF Lifecycle, CountForErasure, ApplyErasure, ApplyHold, ReleaseHold, Purge,
           IInv, ClaimsInv, Locked
  <2>2. fence # c
    BY <2>1, Constants, SubmissionAssumption DEF SubmissionAssumption
  <2> QED
    BY <1>1, <2>2 DEF IInv, ClaimsInv, Fenced, NoNewClaim
<1>3. Locked'
  <2>1. fence = None => erasure = "idle"
    BY SubmissionAssumption DEF IInv, ClaimsInv, Locked, SubmissionAssumption
  <2> QED
    BY <2>1 DEF Lifecycle, CountForErasure, ApplyErasure, ApplyHold, ReleaseHold,
                Purge, Locked
<1>4. CASE Purge
  <2>1. EffectiveState = "erased" /\ EffectiveState' = "purged"
    BY <1>4 DEF Purge, EffectiveState
  <2>2. ErasureExcludesDelivery'
    BY <1>1, <2>1 DEF IInv, ClaimsInv, ErasureExcludesDelivery, NoNewClaim
  <2>3. Tracked' /\ Unique'
    BY <1>1, <2>1, InvolvedBefore DEF IInv, ClaimsInv, Tracked, Unique
  <2> QED
    BY <1>2, <1>3, <2>2, <2>3 DEF ClaimsInv, Fenced
<1>5. CASE ApplyErasure /\ state' # state
  <2>1. Rows = {} /\ EffectiveState = "active" /\ RowsStay
    BY <1>5, SameRows DEF ApplyErasure, Redactable, IInv, ClaimsInv, Locked,
                          EffectiveState, submission
  <2>2. \A c \in SubmitCalls, r \in Resources : ~Involved(c, r)
    BY <2>1 DEF IInv, ClaimsInv, Tracked
  <2>3. \A c \in SubmitCalls, r \in Resources : ~Involved(c, r)'
    BY <1>1, <2>2, InvolvedBefore
  <2>4. \A c \in SubmitCalls : call'[c].pc \notin Submitting
    BY <1>1, <2>2, Constants
       DEF NoNewClaim, Involved, IInv, TypeInv, CallKnows, Running
  <2> QED
    BY <1>2, <1>3, <2>3, <2>4
       DEF ClaimsInv, Fenced, Tracked, Unique, ErasureExcludesDelivery
<1>6. CASE UNCHANGED <<submission, EffectiveState>>
  <2>1. RowsStay
    BY <1>6, SameRows DEF submission
  <2>2. Tracked' /\ Unique'
    BY <1>1, <1>6, <2>1, InvolvedBefore DEF IInv, ClaimsInv, Tracked, Unique, RowsStay
  <2>3. ErasureExcludesDelivery'
    BY <1>1, <1>6 DEF IInv, ClaimsInv, ErasureExcludesDelivery, NoNewClaim
  <2> QED
    BY <1>2, <1>3, <2>2, <2>3 DEF ClaimsInv, Fenced
<1>7. CASE CountForErasure \/ ApplyHold \/ ReleaseHold \/ (ApplyErasure /\ state' = state)
  BY <1>6, <1>7
     DEF CountForErasure, ApplyErasure, ApplyHold, ReleaseHold, EffectiveState, IInv,
         TypeInv, TypeOK, LifecycleOK
<1> QED
  BY <1>4, <1>5, <1>7 DEF Lifecycle

LEMMA ClaimsNext == IInv /\ [Next]_vars => ClaimsInv'
<1> SUFFICES ASSUME IInv, [Next]_vars PROVE ClaimsInv'
  OBVIOUS
<1>1. CASE NoNewClaim /\ RowsStay /\ UNCHANGED lifecycle
  BY <1>1, ClaimsQuiet DEF IInv
<1>2. ASSUME NEW c \in SubmitCalls, BeginSubmit(c) \/ SubmitStep(c)
      PROVE  ClaimsInv'
  BY <1>1, <1>2, ClaimsSubmitQuiet, ClaimsTakeFence, ClaimsInsertClaim, ClaimsPost,
     ClaimsNetwork, ClaimsFinalize DEF SubmitStep, IInv
<1>3. CASE UNCHANGED vars
  BY <1>1, <1>3, SameCallsQuiet, SameRows DEF vars, submission, wire
<1> QED
  BY <1>1, <1>2, <1>3, ClaimsRecovery, ClaimsCrash, ClaimsLifecycle, ClaimsNetwork
     DEF Next

LEMMA Invariance == Spec => []IInv
<1>1. Init => IInv
  BY TypeInvInit, ClaimsInit DEF IInv
<1>2. IInv /\ [Next]_vars => IInv'
  BY TypeInvNext, ClaimsNext DEF IInv
<1> QED
  BY <1>1, <1>2, PTL DEF Spec

\* However many keys, callers, crashes, retries and erasures there are, one
\* submission call at most ever sends a POST for a resource.
THEOREM OneSender == Spec => []OneSenderPerResource
<1>1. IInv => OneSenderPerResource
  BY DEF IInv, TypeInv, TypeOK, WireOK, ClaimsInv, Unique, Involved,
         OneSenderPerResource
<1> QED
  BY <1>1, Invariance, PTL

\* No call is at its POST, or about to record one, for a candidate whose data
\* has been erased or purged.
THEOREM ErasureAndDeliveryExclude == Spec => []ErasureExcludesDelivery
<1>1. IInv => ErasureExcludesDelivery
  BY DEF IInv, ClaimsInv
<1> QED
  BY <1>1, Invariance, PTL

-----------------------------------------------------------------------------
(* Resolutions are final and evidence only advances.  An open row has no   *)
(* receipt; a call brings a version to its row only with an answer that    *)
(* closes it; owners never reject a report pack, so that advancing the     *)
(* receipt of an accepted one leaves it accepted.                          *)

Sound(m) ==
    /\ m.pc = "finalize" =>
          m.version = 0 \/ m.answer \in {"accepted", "rejected", "unconfigured"}
    /\ m.pc = "reconcile" /\ m.resource \in ReportPacks => m.answer = "accepted"

PacksAccepted == \A r \in ReportPacks : owner[r].decision # "rejected"

OutcomeInv ==
    /\ \A k \in Keys : posture[k] \in Open \cup {"absent"} => receipt[k] = 0
    /\ \A c \in Calls : Sound(call[c])
    /\ PacksAccepted

LEMMA PacksNext == TypeInv /\ PacksAccepted /\ [Next]_vars => PacksAccepted'
<1> SUFFICES ASSUME TypeInv, PacksAccepted, [Next]_vars PROVE PacksAccepted'
  OBVIOUS
<1>1. CASE UNCHANGED owner
  BY <1>1 DEF PacksAccepted
<1>2. ASSUME NEW c \in SubmitCalls, NEW n \in 1 .. MaxTries, OwnerServes(c, n)
      PROVE  PacksAccepted'
  <2> DEFINE r == call[c].resource
  <2>1. PICK answer \in {"accepted", "rejected"} :
          /\ answer = "rejected" => r \in Intents
          /\ owner' = [owner EXCEPT ![r] =
                IF @.decision = "none" /\ (answer = "accepted" \/ r \in AdviseIntents)
                THEN [decision |-> answer, version |-> 1] ELSE @]
    BY <1>2 DEF OwnerServes
  <2>2. r \in ReportPacks => answer = "accepted"
    BY <2>1, SubmissionAssumption DEF SubmissionAssumption
  <2> QED
    BY <2>1, <2>2 DEF PacksAccepted, TypeInv, TypeOK, WireOK, Resources
<1>3. ASSUME NEW s \in Resources, OwnerAdvances(s)
      PROVE  PacksAccepted'
  BY <1>3 DEF OwnerAdvances, PacksAccepted, TypeInv, TypeOK, WireOK, Resources
<1> QED
  BY <1>1, <1>2, <1>3
     DEF Next, vars, wire, BeginSubmit, SubmitStep, LookupKey, TakeFence, InsertClaim, Post,
         GiveUp, Finalize, BeginRecovery, RecoveryStep, ReadOwner, Reconcile,
         PersistHistory, Crash, Network, OwnerRefuses, LoseRequest, AuthorityLapses,
         OperatorResolves, LeaseExpires, Lifecycle, CountForErasure, ApplyErasure,
         ApplyHold, ReleaseHold, Purge

\* A call that goes elsewhere than to its finalization or reconciliation is
\* sound, and so is one that is over.
LEMMA SoundStep ==
    ASSUME TypeInv, \A d \in Calls : Sound(call[d]), NEW c \in Calls, NEW new,
           call' = [call EXCEPT ![c] = new], Sound(new)
    PROVE  \A d \in Calls : Sound(call'[d])
BY DEF TypeInv, TypeOK

LEMMA SoundOver ==
    ASSUME TypeInv, \A d \in Calls : Sound(call[d]), NEW c \in Calls,
           NEW pc \in {"done", "crashed"}, call' = [call EXCEPT ![c] = Over(c, pc)]
    PROVE  \A d \in Calls : Sound(call'[d])
<1>1. Sound(Over(c, pc))
  BY DEF Sound, Over, Begun
<1> QED
  BY <1>1, SoundStep

LEMMA SoundSubmit ==
    ASSUME TypeInv, \A d \in Calls : Sound(call[d]), NEW c \in SubmitCalls,
           BeginSubmit(c) \/ SubmitStep(c)
    PROVE  \A d \in Calls : Sound(call'[d])
<1>1. c \in Calls /\ call[c] \in CallType
  BY Constants DEF TypeInv, TypeOK
<1>2. CASE \E pc \in {"done", "crashed"} : call' = [call EXCEPT ![c] = Over(c, pc)]
  BY <1>1, <1>2, SoundOver
<1>3. ASSUME NEW pc \in {"fence", "insert", "post"},
             call' = [call EXCEPT ![c] = [call[c] EXCEPT !.pc = pc]]
      PROVE  \A d \in Calls : Sound(call'[d])
  <2>1. Sound([call[c] EXCEPT !.pc = pc])
    BY <1>1 DEF Sound, CallType
  <2> QED
    BY <1>1, <1>3, <2>1, SoundStep
<1>4. CASE BeginSubmit(c)
  <2>1. PICK key, r, valid :
          call' = [call EXCEPT ![c] = Begun("lookup", key, r, valid, 0)]
    BY <1>4 DEF BeginSubmit
  <2>2. Sound(Begun("lookup", key, r, valid, 0))
    BY DEF Sound, Begun
  <2> QED
    BY <1>1, <2>1, <2>2, SoundStep
<1>5. CASE call' = [call EXCEPT ![c] =
                       [call[c] EXCEPT !.pc = "finalize", !.answer = "unconfigured"]]
  <2>1. Sound([call[c] EXCEPT !.pc = "finalize", !.answer = "unconfigured"])
    BY <1>1 DEF Sound, CallType
  <2> QED
    BY <1>1, <1>5, <2>1, SoundStep
<1>6. CASE Post(c)
  <2>1. call' = [call EXCEPT ![c] =
                    [call[c] EXCEPT !.pc = "await", !.tries = call[c].tries + 1]]
    BY <1>6 DEF Post
  <2>2. Sound([call[c] EXCEPT !.pc = "await", !.tries = call[c].tries + 1])
    BY <1>1 DEF Sound, CallType
  <2> QED
    BY <1>1, <2>1, <2>2, SoundStep
<1>7. CASE Hear(c, "unknown", 0)
  <2>1. Sound([call[c] EXCEPT !.pc = "finalize", !.answer = "unknown", !.version = 0])
    BY <1>1 DEF Sound, CallType
  <2> QED
    BY <1>1, <1>7, <2>1, SoundStep DEF Hear
<1>8. CASE LookupKey(c) \/ TakeFence(c) \/ InsertClaim(c) \/ GiveUp(c) \/ Finalize(c)
  BY <1>2, <1>3, <1>5, <1>7, <1>8
     DEF LookupKey, TakeFence, InsertClaim, GiveUp, Finalize
<1> QED
  BY <1>4, <1>6, <1>8 DEF SubmitStep

LEMMA SoundNetwork ==
    ASSUME TypeInv, \A d \in Calls : Sound(call[d]), Network
    PROVE  \A d \in Calls : Sound(call'[d])
<1>1. CASE UNCHANGED call
  BY <1>1
<1>2. PICK c \in SubmitCalls :
        \/ UNCHANGED call
        \/ \E answer \in {"accepted", "rejected"} : \E version : Hear(c, answer, version)
        \/ Hear(c, "refused", 0)
        \/ call' = [call EXCEPT ![c] = [call[c] EXCEPT !.pc = "post"]]
  BY DEF Network, OwnerServes, OwnerRefuses, LoseRequest
<1>3. c \in Calls /\ call[c] \in CallType
  BY Constants DEF TypeInv, TypeOK
<1>4. ASSUME NEW answer, NEW version, Hear(c, answer, version),
             answer \in {"accepted", "rejected"} \/ version = 0
      PROVE  \A d \in Calls : Sound(call'[d])
  <2>1. Sound([call[c] EXCEPT !.pc = "finalize", !.answer = answer, !.version = version])
    BY <1>3, <1>4 DEF Sound, CallType
  <2> QED
    BY <1>3, <1>4, <2>1, SoundStep DEF Hear
<1>5. CASE call' = [call EXCEPT ![c] = [call[c] EXCEPT !.pc = "post"]]
  <2>1. Sound([call[c] EXCEPT !.pc = "post"])
    BY <1>3 DEF Sound, CallType
  <2> QED
    BY <1>3, <1>5, <2>1, SoundStep
<1> QED
  BY <1>1, <1>2, <1>4, <1>5

LEMMA SoundRecovery ==
    ASSUME TypeInv, \A d \in Calls : Sound(call[d]), PacksAccepted,
           NEW c \in RecoveryCalls, BeginRecovery(c) \/ RecoveryStep(c)
    PROVE  \A d \in Calls : Sound(call'[d])
<1>1. c \in Calls /\ call[c] \in CallType
  BY Constants DEF TypeInv, TypeOK
<1>2. CASE call' = [call EXCEPT ![c] = Over(c, "done")]
  BY <1>1, <1>2, SoundOver
<1>3. CASE BeginRecovery(c)
  <2>1. PICK key, r, seen :
          call' = [call EXCEPT ![c] = Begun("read", key, r, FALSE, seen)]
    BY <1>3 DEF BeginRecovery
  <2>2. Sound(Begun("read", key, r, FALSE, seen))
    BY DEF Sound, Begun
  <2> QED
    BY <1>1, <2>1, <2>2, SoundStep
<1>4. CASE ReadOwner(c) /\ call' # [call EXCEPT ![c] = Over(c, "done")]
  <2>1. /\ call[c].resource \in Resources
        /\ owner[call[c].resource].decision # "none"
    BY <1>1, <1>4 DEF ReadOwner, TypeInv, CallKnows, Running
  <2>2. PICK pc \in {"persist", "reconcile"} : \E version :
          call' = [call EXCEPT ![c] = [call[c] EXCEPT !.pc = pc,
              !.answer = owner[call[c].resource].decision, !.version = version]]
    BY <1>4 DEF ReadOwner
  <2>3. call[c].resource \in ReportPacks => owner[call[c].resource].decision = "accepted"
    BY <2>1 DEF PacksAccepted, TypeInv, TypeOK, WireOK
  <2>4. ASSUME NEW version
        PROVE  Sound([call[c] EXCEPT !.pc = pc,
                  !.answer = owner[call[c].resource].decision, !.version = version])
    BY <1>1, <2>3 DEF Sound, CallType
  <2> QED
    BY <1>1, <2>2, <2>4, SoundStep
<1>5. CASE call' = [call EXCEPT ![c] = [call[c] EXCEPT !.pc = "persist"]]
  <2>1. Sound([call[c] EXCEPT !.pc = "persist"])
    BY <1>1 DEF Sound, CallType
  <2> QED
    BY <1>1, <1>5, <2>1, SoundStep
<1> QED
  BY <1>2, <1>3, <1>4, <1>5 DEF RecoveryStep, Reconcile, PersistHistory

LEMMA SoundNext ==
    ASSUME TypeInv, \A d \in Calls : Sound(call[d]), PacksAccepted, [Next]_vars
    PROVE  \A d \in Calls : Sound(call'[d])
<1>1. CASE UNCHANGED call
  BY <1>1
<1>2. ASSUME NEW c \in Calls, Crash(c)
      PROVE  \A d \in Calls : Sound(call'[d])
  BY <1>2, SoundOver DEF Crash
<1> QED
  BY <1>1, <1>2, SoundSubmit, SoundNetwork, SoundRecovery
     DEF Next, vars, OwnerAdvances, AuthorityLapses, OperatorResolves, LeaseExpires,
         Lifecycle, CountForErasure, ApplyErasure, ApplyHold, ReleaseHold, Purge

\* What a step may do to a row: a settled one stays or goes, receipts and
\* histories do not fall, and no open row gets a receipt.
RowAdvances(k) ==
    /\ posture[k] \notin Open \cup {"absent"} => posture'[k] \in {posture[k], "absent"}
    /\ posture'[k] # "absent" => receipt'[k] >= receipt[k] /\ history'[k] >= history[k]
    /\ posture'[k] \in Open \cup {"absent"} => receipt'[k] = 0

LEMMA RowsAdvance ==
    ASSUME TypeInv, OutcomeInv, [Next]_vars
    PROVE  \A k \in Keys : RowAdvances(k)
<1>1. /\ \A k \in Keys : receipt[k] \in Int /\ history[k] \in Int
      /\ posture \in [Keys -> Postures] /\ receipt \in [Keys -> Versions]
      /\ history \in [Keys -> Versions] /\ Versions \subseteq Int
      /\ \A k \in Keys : posture[k] \in Open \cup {"absent"} => receipt[k] = 0
  BY DEF TypeInv, TypeOK, RowsOK, Versions, OutcomeInv
<1>2. CASE UNCHANGED <<posture, receipt, history>>
  BY <1>1, <1>2 DEF RowAdvances
<1>3. ASSUME NEW k \in Keys, NEW to \in Postures, NEW by, NEW v \in Versions, NEW ref,
             Transition(k, to, by, v, ref),
             posture[k] \notin Open => posture[k] = to,
             v > 0 => v > receipt[k],
             to # "absent", to \in Open => receipt[k] = 0 /\ v = 0
      PROVE  \A j \in Keys : RowAdvances(j)
  <2>1. /\ posture'[k] = to /\ receipt'[k] = (IF v > 0 THEN v ELSE receipt[k])
        /\ history' = history
        /\ \A j \in Keys : j # k => posture'[j] = posture[j] /\ receipt'[j] = receipt[j]
    BY <1>1, <1>3 DEF Transition
  <2>2. v \in Int
    BY <1>1
  <2> QED
    BY <1>1, <1>3, <2>1, <2>2 DEF RowAdvances
<1>4. ASSUME NEW c \in SubmitCalls, InsertClaim(c)
      PROVE  \A j \in Keys : RowAdvances(j)
  <2>1. PICK k : k = call[c].key
    OBVIOUS
  <2>2. \/ UNCHANGED submission
        \/ posture[k] = "absent" /\ InsertRow(k, call[c].resource)
    BY <1>4, <2>1 DEF InsertClaim, Unclaimed
  <2>3. CASE posture[k] = "absent" /\ InsertRow(k, call[c].resource)
    <3>1. /\ UNCHANGED <<receipt, history>>
          /\ \A j \in Keys : posture'[j] = posture[j]
                                \/ (j = k /\ posture[j] = "absent" /\ posture'[j] = "in_flight")
      BY <1>1, <2>3 DEF InsertRow
    <3> QED
      BY <1>1, <3>1 DEF RowAdvances, Open
  <2> QED
    BY <1>2, <2>2, <2>3 DEF submission
<1>5. ASSUME NEW c \in SubmitCalls, Finalize(c)
      PROVE  \A j \in Keys : RowAdvances(j)
  <2> DEFINE me == call[c]
  <2>1. /\ c \in Calls /\ me.key \in Keys /\ me.version \in Versions /\ Sound(me)
        /\ me.pc = "finalize"
    BY <1>5, Constants
       DEF TypeInv, TypeOK, CallType, CallKnows, Finalize, Running, Submitting, OutcomeInv
  <2>2. CASE UNCHANGED submission
    BY <1>2, <2>2 DEF submission
  <2>3. CASE /\ posture[me.key] = "in_flight"
             /\ Transition(me.key, FinalPosture(me.answer), "adapter", me.version, 0)
    <3>1. /\ FinalPosture(me.answer) \in Postures \ {"absent"}
          /\ FinalPosture(me.answer) \in Open => me.version = 0
      BY <2>1 DEF FinalPosture, Postures, Open, Sound
    <3>2. posture[me.key] \in Open /\ receipt[me.key] = 0
      BY <1>1, <2>1, <2>3 DEF Open
    <3>3. me.version > 0 => me.version > receipt[me.key]
      BY <3>2
    <3> HIDE DEF me
    <3> QED
      BY <1>3, <2>1, <2>3, <3>1, <3>2, <3>3
  <2> QED
    BY <1>5, <2>2, <2>3 DEF Finalize, Finalizable
<1>6. ASSUME NEW k \in Keys, OperatorResolves(k)
      PROVE  \A j \in Keys : RowAdvances(j)
  <2>1. PICK to \in {"accepted", "rejected", "quarantined"} :
          Transition(k, to, "operator", 0, 0) /\ posture[k] \in Open
    BY <1>6 DEF OperatorResolves
  <2>2. to \in Postures /\ to # "absent" /\ to \notin Open /\ ~(0 > 0)
    BY DEF Postures, Open
  <2> QED
    BY <1>3, <2>1, <2>2, Constants
<1>7. ASSUME NEW c \in RecoveryCalls, Reconcile(c)
      PROVE  \A j \in Keys : RowAdvances(j)
  <2> DEFINE me == call[c]
             v == IF me.resource \in ReportPacks THEN me.version ELSE 1
  <2>1. /\ c \in Calls /\ me.key \in Keys /\ me.version \in Versions /\ Sound(me)
        /\ me.pc = "reconcile" /\ me.answer \in {"accepted", "rejected"}
    BY <1>7, Constants
       DEF TypeInv, TypeOK, CallType, CallKnows, Reconcile, Running, OutcomeInv
  <2>2. CASE UNCHANGED submission
    BY <1>2, <2>2 DEF submission
  <2>3. CASE Reconcilable(me.key, me) /\ Transition(me.key, me.answer, "recovery", v, me.version)
    <3>1. /\ me.answer \in Postures /\ me.answer # "absent" /\ me.answer \notin Open
          /\ v \in Versions
      BY <2>1, Constants DEF Postures, Open
    <3>2. /\ posture[me.key] \notin Open => posture[me.key] = me.answer
          /\ v > 0 => v > receipt[me.key]
      BY <1>1, <2>1, <2>3 DEF Reconcilable, Advances, Sound
    <3> HIDE DEF me, v
    <3> QED
      BY <1>3, <2>1, <2>3, <3>1, <3>2
  <2> QED
    BY <1>7, <2>2, <2>3 DEF Reconcile
<1>8. ASSUME NEW c \in RecoveryCalls, PersistHistory(c)
      PROVE  \A j \in Keys : RowAdvances(j)
  <2>1. PICK k \in Keys, v \in Versions : k = call[c].key /\ v = call[c].version
    BY <1>8, Constants DEF PersistHistory, TypeInv, TypeOK, CallType, CallKnows, Running
  <2>2. /\ UNCHANGED <<posture, receipt>>
        /\ \/ UNCHANGED history
           \/ v > history[k] /\ history' = [history EXCEPT ![k] = v]
    BY <1>8, <2>1 DEF PersistHistory, Extends
  <2>3. v \in Int
    BY <1>1
  <2> QED
    BY <1>1, <2>2, <2>3 DEF RowAdvances
<1>9. CASE Purge
  BY <1>1, <1>9 DEF Purge, RowAdvances
<1> QED
  BY <1>2, <1>4, <1>5, <1>6, <1>7, <1>8, <1>9
     DEF Next, vars, submission, BeginSubmit, SubmitStep, LookupKey, TakeFence, Post,
         GiveUp, BeginRecovery, RecoveryStep, ReadOwner, Crash, Network, OwnerServes,
         OwnerRefuses, LoseRequest, OwnerAdvances, AuthorityLapses, LeaseExpires,
         Lifecycle, CountForErasure, ApplyErasure, ApplyHold, ReleaseHold

LEMMA OutcomeInvariance == Spec => [](TypeInv /\ OutcomeInv)
<1>1. Init => OutcomeInv
  BY DEF Init, OutcomeInv, Sound, PacksAccepted, NoCall, Begun, Resources
<1>2. TypeInv /\ OutcomeInv /\ [Next]_vars => OutcomeInv'
  BY RowsAdvance, SoundNext, PacksNext DEF OutcomeInv, RowAdvances
<1> QED
  BY <1>1, <1>2, TypeInvInit, TypeInvNext, PTL DEF Spec

\* What an operator, a recovery or an answer has settled is never overwritten
\* nor reopened, by whatever answers come late.
THEOREM ResolutionsAreFinal == Spec => ResolutionIsFinal
<1>1. TypeInv /\ OutcomeInv /\ [Next]_vars =>
        [\A k \in Rows : posture[k] \notin Open =>
             posture'[k] \in {posture[k], "absent"}]_vars
  BY RowsAdvance DEF RowAdvances, Rows
<1> QED
  BY <1>1, OutcomeInvariance, PTL DEF Spec, ResolutionIsFinal

\* Receipts and histories only move on to later owner versions, in whatever
\* order concurrent recoveries commit what they read.
THEOREM EvidenceOnlyAdvances == Spec => EvidenceNeverRegresses
<1>1. TypeInv /\ OutcomeInv /\ [Next]_vars =>
        [\A k \in Keys : posture'[k] # "absent" =>
             receipt'[k] >= receipt[k] /\ history'[k] >= history[k]]_vars
  BY RowsAdvance DEF RowAdvances
<1> QED
  BY <1>1, OutcomeInvariance, PTL DEF Spec, EvidenceNeverRegresses

-----------------------------------------------------------------------------
(* What a row says of its owner is what the owner said, for a client that  *)
(* tries once.  A resource then meets one POST at most: an answer that is  *)
(* heard is the answer to all there will ever be, and a row closed without *)
(* work at the owner is closed after the last message to the owner.        *)

\* Stages of a call whose POST has been sent.
Sent == {"await", "finalize", "done", "crashed"}
Reading == {"read", "reconcile", "persist"}

\* The POST for r has been sent, and is no longer on its way.
Served(r) ==
    /\ posted[r] # {}
    /\ \A c \in SubmitCalls, n \in 1 .. MaxTries : <<c, n>> \in transit => call[c].resource # r

PostsInv ==
    /\ \A c \in SubmitCalls, r \in Resources : c \in posted[r] =>
          call[c].resource = r /\ call[c].pc \in Sent
    /\ \A c \in SubmitCalls, n \in 1 .. MaxTries : <<c, n>> \in transit =>
          \E r \in Resources : /\ r = call[c].resource /\ c \in posted[r]
                               /\ owner[r].decision = "none"
    /\ \A r \in Resources : owner[r].decision # "none" => posted[r] # {}
    /\ \A c \in SubmitCalls : call[c].pc = "await" => call[c].tries = 1

\* What a call is about to record of its resource r is true, and stays true.
Heard(answer, r) ==
    /\ answer = "accepted" => owner[r].decision = "accepted"
    /\ answer \in {"rejected", "refused"} => owner[r].decision # "accepted" /\ Served(r)

HeardInv == \A c \in SubmitCalls, r \in Resources :
    call[c].pc = "finalize" /\ call[c].resource = r => Heard(call[c].answer, r)

ReadInv == \A c \in RecoveryCalls, r \in Resources :
    call[c].pc = "reconcile" /\ call[c].resource = r =>
        owner[r].decision # "none" /\ call[c].answer = owner[r].decision

\* A call that has a claim, or has loaded one, knows the subject of its row.
KnownInv ==
    /\ EffectiveState = "purged" => Rows = {}
    /\ \A c \in SubmitCalls : call[c].pc \in Submitting =>
          call[c].key \in Rows /\ subject[call[c].key] = call[c].resource
    /\ \A c \in RecoveryCalls : call[c].pc \in Reading =>
          \/ call[c].key \in Rows /\ subject[call[c].key] = call[c].resource
          \/ EffectiveState = "purged"

\* What a row says of its subject r is true, and stays true.
Tells(by, says, r) == by \in {"adapter", "recovery"} =>
    /\ says = "accepted" => owner[r].decision = "accepted"
    /\ says = "rejected" => \/ owner[r].decision = "rejected"
                            \/ owner[r].decision # "accepted" /\ Served(r)

RowsTell == \A k \in Rows, r \in Resources : subject[k] = r => Tells(author[k], posture[k], r)

WordInv == PostsInv /\ HeardInv /\ ReadInv /\ KnownInv /\ RowsTell

\* How any step of a client that tries once moves a call.
Moves(old, new) ==
    /\ old.pc # "idle" =>
          /\ new.pc # "idle" /\ new.key = old.key /\ new.resource = old.resource
          /\ old.pc \in Sent => new.pc \in Sent
    /\ new.pc = "await" => new = old \/ new.tries = 1

\* ... and what it makes of a call but for an answer that is heard.
Mute(old, new) ==
    new.pc = "finalize" => new = old \/ new.answer \in {"unconfigured", "unknown"}

Steps(old, new) == Moves(old, new) /\ Mute(old, new)

LEMMA OneSteps ==
    ASSUME TypeInv, NEW c \in Calls, NEW new, call' = [call EXCEPT ![c] = new],
           Steps(call[c], new)
    PROVE  \A d \in Calls : Steps(call[d], call'[d])
BY DEF TypeInv, TypeOK, Steps, Moves, Mute

LEMMA OverSteps ==
    ASSUME TypeInv, NEW c \in Calls, NEW pc \in {"done", "crashed"},
           call' = [call EXCEPT ![c] = Over(c, pc)]
    PROVE  \A d \in Calls : Steps(call[d], call'[d])
<1>1. Steps(call[c], Over(c, pc))
  BY DEF Steps, Moves, Mute, Over, Begun, Sent
<1> QED
  BY <1>1, OneSteps

LEMMA StepsSubmit ==
    ASSUME TypeInv, PostsInv, MaxTries = 1, NEW c \in SubmitCalls,
           BeginSubmit(c) \/ SubmitStep(c)
    PROVE  \A d \in Calls : Steps(call[d], call'[d])
<1>1. c \in Calls /\ call[c] \in CallType
  BY Constants DEF TypeInv, TypeOK
<1>2. CASE \E pc \in {"done", "crashed"} : call' = [call EXCEPT ![c] = Over(c, pc)]
  BY <1>1, <1>2, OverSteps
<1>3. ASSUME NEW pc \in {"fence", "insert", "post"}, call[c].pc \notin Sent,
             call' = [call EXCEPT ![c] = [call[c] EXCEPT !.pc = pc]]
      PROVE  \A d \in Calls : Steps(call[d], call'[d])
  <2>1. Steps(call[c], [call[c] EXCEPT !.pc = pc])
    BY <1>1, <1>3 DEF Steps, Moves, Mute, CallType
  <2> QED
    BY <1>1, <1>3, <2>1, OneSteps
<1>4. CASE BeginSubmit(c)
  <2>1. PICK key, r, valid :
          call' = [call EXCEPT ![c] = Begun("lookup", key, r, valid, 0)]
    BY <1>4 DEF BeginSubmit
  <2>2. Steps(call[c], Begun("lookup", key, r, valid, 0))
    BY <1>4 DEF BeginSubmit, Steps, Moves, Mute, Begun
  <2> QED
    BY <1>1, <2>1, <2>2, OneSteps
<1>5. CASE call' = [call EXCEPT ![c] =
                       [call[c] EXCEPT !.pc = "finalize", !.answer = "unconfigured"]]
  <2>1. Steps(call[c], [call[c] EXCEPT !.pc = "finalize", !.answer = "unconfigured"])
    BY <1>1 DEF Steps, Moves, Mute, Sent, CallType
  <2> QED
    BY <1>1, <1>5, <2>1, OneSteps
<1>6. CASE Post(c)
  <2>1. call' = [call EXCEPT ![c] =
                    [call[c] EXCEPT !.pc = "await", !.tries = call[c].tries + 1]]
    BY <1>6 DEF Post
  <2>2. call[c].tries = 0
    BY <1>1, <1>6 DEF Post, CallType, TypeInv, CallKnows
  <2>3. Steps(call[c], [call[c] EXCEPT !.pc = "await", !.tries = call[c].tries + 1])
    BY <1>1, <2>2 DEF Steps, Moves, Mute, Sent, CallType
  <2> QED
    BY <1>1, <2>1, <2>3, OneSteps
<1>7. CASE GiveUp(c)
  <2>1. call' = [call EXCEPT ![c] =
           [call[c] EXCEPT !.pc = "finalize", !.answer = "unknown", !.version = 0]]
    BY <1>7 DEF GiveUp, Hear, PostsInv
  <2>2. Steps(call[c],
           [call[c] EXCEPT !.pc = "finalize", !.answer = "unknown", !.version = 0])
    BY <1>1 DEF Steps, Moves, Mute, Sent, CallType
  <2> QED
    BY <1>1, <2>1, <2>2, OneSteps
<1>8. CASE LookupKey(c) \/ TakeFence(c) \/ InsertClaim(c) \/ Finalize(c)
  BY <1>2, <1>3, <1>5, <1>8 DEF LookupKey, TakeFence, InsertClaim, Finalize, Sent
<1> QED
  BY <1>4, <1>6, <1>7, <1>8 DEF SubmitStep

LEMMA MovesNetwork ==
    ASSUME TypeInv, MaxTries = 1, Network
    PROVE  \A d \in Calls : Moves(call[d], call'[d])
<1>0. ASSUME NEW c \in Calls, NEW new, call' = [call EXCEPT ![c] = new], Moves(call[c], new)
      PROVE  \A d \in Calls : Moves(call[d], call'[d])
  BY <1>0 DEF TypeInv, TypeOK, Moves
<1>1. CASE UNCHANGED call
  BY <1>1 DEF Moves
<1>2. PICK c \in SubmitCalls :
        \/ UNCHANGED call
        \/ \E answer, version : Hear(c, answer, version)
  BY DEF Network, OwnerServes, OwnerRefuses, LoseRequest
<1>3. c \in Calls /\ call[c] \in CallType
  BY Constants DEF TypeInv, TypeOK
<1>4. ASSUME NEW answer, NEW version, Hear(c, answer, version)
      PROVE  \A d \in Calls : Moves(call[d], call'[d])
  <2>1. Moves(call[c],
           [call[c] EXCEPT !.pc = "finalize", !.answer = answer, !.version = version])
    BY <1>3 DEF Moves, Sent, CallType
  <2> QED
    BY <1>0, <1>3, <1>4, <2>1 DEF Hear
<1> QED
  BY <1>1, <1>2, <1>4

LEMMA StepsRecovery ==
    ASSUME TypeInv, NEW c \in RecoveryCalls, BeginRecovery(c) \/ RecoveryStep(c)
    PROVE  \A d \in Calls : Steps(call[d], call'[d])
<1>1. c \in Calls /\ call[c] \in CallType
  BY Constants DEF TypeInv, TypeOK
<1>2. CASE call' = [call EXCEPT ![c] = Over(c, "done")]
  BY <1>1, <1>2, OverSteps
<1>3. CASE BeginRecovery(c)
  <2>1. PICK new : call' = [call EXCEPT ![c] = new] /\ new.pc \notin {"await", "finalize"}
    BY <1>3 DEF BeginRecovery, Begun
  <2> QED
    BY <1>1, <1>3, <2>1, OneSteps DEF BeginRecovery, Steps, Moves, Mute
<1>4. CASE ReadOwner(c) /\ call' # [call EXCEPT ![c] = Over(c, "done")]
  <2>1. PICK pc \in {"persist", "reconcile"} : \E answer, version :
          call' = [call EXCEPT ![c] = [call[c] EXCEPT !.pc = pc,
                       !.answer = answer, !.version = version]]
    BY <1>4 DEF ReadOwner
  <2>2. ASSUME NEW answer, NEW version
        PROVE  Steps(call[c], [call[c] EXCEPT !.pc = pc, !.answer = answer,
                                              !.version = version])
    BY <1>1, <1>4 DEF ReadOwner, Steps, Moves, Mute, Sent, CallType
  <2> QED
    BY <1>1, <2>1, <2>2, OneSteps
<1>5. CASE Reconcile(c) /\ call' = [call EXCEPT ![c] = [call[c] EXCEPT !.pc = "persist"]]
  <2>1. Steps(call[c], [call[c] EXCEPT !.pc = "persist"])
    BY <1>1, <1>5 DEF Reconcile, Steps, Moves, Mute, Sent, CallType
  <2> QED
    BY <1>1, <1>5, <2>1, OneSteps
<1> QED
  BY <1>2, <1>3, <1>4, <1>5 DEF RecoveryStep, Reconcile, PersistHistory

LEMMA StepsElse ==
    ASSUME TypeInv, UNCHANGED call \/ \E c \in Calls : Crash(c)
    PROVE  \A d \in Calls : Steps(call[d], call'[d])
<1>1. CASE UNCHANGED call
  BY <1>1 DEF Steps, Moves, Mute
<1>2. ASSUME NEW c \in Calls, Crash(c)
      PROVE  \A d \in Calls : Steps(call[d], call'[d])
  BY <1>2, OverSteps DEF Crash
<1> QED
  BY <1>1, <1>2

\* Only what comes over the network brings a call an answer.
LEMMA CallSteps ==
    ASSUME TypeInv, PostsInv, MaxTries = 1, [Next]_vars, ~Network
    PROVE  \A d \in Calls : Steps(call[d], call'[d])
BY StepsSubmit, StepsRecovery, StepsElse
   DEF Next, vars, OwnerAdvances, AuthorityLapses, OperatorResolves, LeaseExpires,
       Lifecycle, CountForErasure, ApplyErasure, ApplyHold, ReleaseHold, Purge

LEMMA CallMoves ==
    ASSUME TypeInv, PostsInv, MaxTries = 1, [Next]_vars
    PROVE  \A d \in Calls : Moves(call[d], call'[d])
<1>1. CASE Network
  BY <1>1, MovesNetwork
<1>2. CASE ~Network
  BY <1>2, CallSteps DEF Steps
<1> QED
  BY <1>1, <1>2

\* How any step of any client moves a call, but for an acceptance that is heard.
Keeps(old, new) ==
    old.pc # "idle" => new.pc # "idle" /\ new.key = old.key /\ new.resource = old.resource

Goes(old, new) ==
    /\ Keeps(old, new)
    /\ new.pc = "finalize" /\ new.answer = "accepted" => new = old

LEMMA OneGoes ==
    ASSUME TypeInv, NEW c \in Calls, NEW new, call' = [call EXCEPT ![c] = new],
           Goes(call[c], new)
    PROVE  \A d \in Calls : Goes(call[d], call'[d])
BY DEF TypeInv, TypeOK, Goes, Keeps

LEMMA StepsAreGoes ==
    ASSUME \A d \in Calls : Steps(call[d], call'[d])
    PROVE  \A d \in Calls : Goes(call[d], call'[d])
BY DEF Steps, Moves, Mute, Goes, Keeps

LEMMA GoesSubmit ==
    ASSUME TypeInv, NEW c \in SubmitCalls, BeginSubmit(c) \/ SubmitStep(c)
    PROVE  \A d \in Calls : Goes(call[d], call'[d])
<1>1. c \in Calls /\ call[c] \in CallType
  BY Constants DEF TypeInv, TypeOK
<1>2. CASE \E pc \in {"done", "crashed"} : call' = [call EXCEPT ![c] = Over(c, pc)]
  BY <1>1, <1>2, OverSteps, StepsAreGoes
<1>3. ASSUME NEW pc \in {"fence", "insert", "post"},
             call' = [call EXCEPT ![c] = [call[c] EXCEPT !.pc = pc]]
      PROVE  \A d \in Calls : Goes(call[d], call'[d])
  <2>1. Goes(call[c], [call[c] EXCEPT !.pc = pc])
    BY <1>1, <1>3 DEF Goes, Keeps, CallType
  <2> QED
    BY <1>1, <1>3, <2>1, OneGoes
<1>4. CASE BeginSubmit(c)
  <2>1. PICK key, r, valid :
          call' = [call EXCEPT ![c] = Begun("lookup", key, r, valid, 0)]
    BY <1>4 DEF BeginSubmit
  <2>2. Goes(call[c], Begun("lookup", key, r, valid, 0))
    BY <1>4 DEF BeginSubmit, Goes, Keeps, Begun
  <2> QED
    BY <1>1, <2>1, <2>2, OneGoes
<1>5. ASSUME NEW new, NEW answer \in {"unconfigured", "unknown"}, NEW version,
             \/ new = [call[c] EXCEPT !.pc = "finalize", !.answer = answer]
             \/ new = [call[c] EXCEPT !.pc = "finalize", !.answer = answer, !.version = version],
             call' = [call EXCEPT ![c] = new]
      PROVE  \A d \in Calls : Goes(call[d], call'[d])
  <2>1. Goes(call[c], new)
    BY <1>1, <1>5 DEF Goes, Keeps, CallType
  <2> QED
    BY <1>1, <1>5, <2>1, OneGoes
<1>6. CASE Post(c)
  <2>1. call' = [call EXCEPT ![c] =
                    [call[c] EXCEPT !.pc = "await", !.tries = call[c].tries + 1]]
    BY <1>6 DEF Post
  <2>2. Goes(call[c], [call[c] EXCEPT !.pc = "await", !.tries = call[c].tries + 1])
    BY <1>1 DEF Goes, Keeps, CallType
  <2> QED
    BY <1>1, <2>1, <2>2, OneGoes
<1>7. CASE GiveUp(c)
  BY <1>3, <1>5, <1>7 DEF GiveUp, Hear
<1>8. CASE LookupKey(c) \/ TakeFence(c) \/ InsertClaim(c) \/ Finalize(c)
  BY <1>2, <1>3, <1>5, <1>8 DEF LookupKey, TakeFence, InsertClaim, Finalize
<1> QED
  BY <1>4, <1>6, <1>7, <1>8 DEF SubmitStep

\* A try that is answered, or to be repeated.
LEMMA KeepsNetwork ==
    ASSUME TypeInv, Network
    PROVE  \A d \in Calls : Keeps(call[d], call'[d])
<1>1. CASE UNCHANGED call
  BY <1>1 DEF Keeps
<1>2. PICK c \in SubmitCalls :
        \/ UNCHANGED call
        \/ call' = [call EXCEPT ![c] = [call[c] EXCEPT !.pc = "post"]]
        \/ \E answer, version : Hear(c, answer, version)
  BY DEF Network, OwnerServes, OwnerRefuses, LoseRequest
<1>3. c \in Calls /\ call[c] \in CallType
  BY Constants DEF TypeInv, TypeOK
<1>4. ASSUME NEW new, call' = [call EXCEPT ![c] = new], Keeps(call[c], new)
      PROVE  \A d \in Calls : Keeps(call[d], call'[d])
  BY <1>4 DEF TypeInv, TypeOK, Keeps
<1>5. ASSUME NEW answer, NEW version, Hear(c, answer, version)
      PROVE  \A d \in Calls : Keeps(call[d], call'[d])
  <2>1. Keeps(call[c],
           [call[c] EXCEPT !.pc = "finalize", !.answer = answer, !.version = version])
    BY <1>3 DEF Keeps, CallType
  <2> QED
    BY <1>4, <1>5, <2>1 DEF Hear
<1>6. CASE call' = [call EXCEPT ![c] = [call[c] EXCEPT !.pc = "post"]]
  <2>1. Keeps(call[c], [call[c] EXCEPT !.pc = "post"])
    BY <1>3 DEF Keeps, CallType
  <2> QED
    BY <1>4, <1>6, <2>1
<1> QED
  BY <1>1, <1>2, <1>5, <1>6

LEMMA CallsGo ==
    ASSUME TypeInv, [Next]_vars
    PROVE  /\ \A d \in Calls : Keeps(call[d], call'[d])
           /\ ~Network => \A d \in Calls : Goes(call[d], call'[d])
<1>1. CASE Network
  BY <1>1, KeepsNetwork
<1>2. CASE ~Network
  <2>1. \A d \in Calls : Goes(call[d], call'[d])
    BY <1>2, GoesSubmit, StepsRecovery, StepsElse, StepsAreGoes
       DEF Next, vars, OwnerAdvances, AuthorityLapses, OperatorResolves, LeaseExpires,
           Lifecycle, CountForErasure, ApplyErasure, ApplyHold, ReleaseHold, Purge
  <2> QED
    BY <1>2, <2>1 DEF Goes
<1> QED
  BY <1>1, <1>2

\* Decisions stand, however often a client tries.
OwnersStand == \A r \in Resources :
    owner[r].decision # "none" => owner'[r].decision = owner[r].decision

\* Decisions stand, and what has been served is never decided again.
OwnersKeep == \A r \in Resources :
    /\ owner[r].decision # "none" => owner'[r].decision = owner[r].decision
    /\ Served(r) => Served(r)' /\ owner'[r].decision = owner[r].decision

\* No POST is sent and none is decided.
LEMMA PostsQuiet ==
    ASSUME TypeInv, PostsInv, \A d \in Calls : Moves(call[d], call'[d]),
           transit' \subseteq transit, UNCHANGED posted,
           \A r \in Resources : owner'[r].decision = owner[r].decision
    PROVE  PostsInv' /\ OwnersKeep
<1>1. \A c \in SubmitCalls : Moves(call[c], call'[c])
  BY Constants
<1>2. \A c \in SubmitCalls : call[c].pc \in Sent =>
        call'[c].pc \in Sent /\ call'[c].resource = call[c].resource
  BY <1>1 DEF Moves, Sent
<1>3. \A c \in SubmitCalls, n \in 1 .. MaxTries : <<c, n>> \in transit =>
        call'[c].resource = call[c].resource
  BY <1>2 DEF PostsInv
<1>4. \A c \in SubmitCalls, r \in Resources : c \in posted'[r] =>
        call'[c].resource = r /\ call'[c].pc \in Sent
  BY <1>2 DEF PostsInv
<1>5. \A c \in SubmitCalls, n \in 1 .. MaxTries : <<c, n>> \in transit' =>
        \E r \in Resources : /\ r = call'[c].resource /\ c \in posted'[r]
                             /\ owner'[r].decision = "none"
  BY <1>3 DEF PostsInv
<1>6. \A c \in SubmitCalls : call'[c].pc = "await" => call'[c].tries = 1
  BY <1>1 DEF PostsInv, Moves
<1>7. \A r \in Resources : owner'[r].decision # "none" => posted'[r] # {}
  BY DEF PostsInv
<1>8. PostsInv'
  BY <1>4, <1>5, <1>6, <1>7 DEF PostsInv
<1>9. \A r \in Resources : Served(r) => Served(r)'
  BY <1>3 DEF Served
<1> QED
  BY <1>8, <1>9 DEF OwnersKeep

\* The first and only POST for a resource.
LEMMA PostsSent ==
    ASSUME TypeInv, PostsInv, Unique, MaxTries = 1,
           \A d \in Calls : Moves(call[d], call'[d]),
           NEW c \in SubmitCalls, Post(c)
    PROVE  PostsInv' /\ OwnersKeep
<1>1. PICK r \in Resources : r = call[c].resource
  BY Constants DEF TypeInv, CallKnows, Post, Running, Submitting
<1>2. /\ c \in Calls /\ call[c] \in CallType /\ call[c].pc = "post"
      /\ call[c].tries = 0
  BY Constants DEF Post, CallType, TypeInv, TypeOK, CallKnows
<1>3. posted[r] = {} /\ owner[r].decision = "none"
  <2>1. posted[r] \subseteq SubmitCalls
    BY DEF TypeInv, TypeOK, WireOK
  <2>2. ASSUME NEW d \in SubmitCalls, d \in posted[r]
        PROVE  FALSE
    <3>1. d = c
      BY <1>1, <1>2, <2>2 DEF Unique, Involved, Submitting
    <3> QED
      BY <1>2, <2>2, <3>1 DEF PostsInv, Sent
  <2> QED
    BY <2>1, <2>2 DEF PostsInv
<1>4. /\ transit' = transit \cup {<<c, 1>>} /\ owner' = owner
      /\ posted' = [posted EXCEPT ![r] = @ \cup {c}]
  BY <1>1, <1>2 DEF Post
<1>5. /\ c \in posted'[r]
      /\ \A s \in Resources : s # r => posted'[s] = posted[s]
      /\ \A s \in Resources : posted[s] \subseteq posted'[s]
      /\ posted'[r] = {c}
  BY <1>3, <1>4 DEF TypeInv, TypeOK, WireOK
<1>6. /\ call'[c].pc = "await" /\ call'[c].resource = r
      /\ \A d \in SubmitCalls : d # c => call'[d] = call[d]
  <2> DEFINE new == [call[c] EXCEPT !.pc = "await", !.tries = call[c].tries + 1]
  <2>1. call' = [call EXCEPT ![c] = new]
    BY DEF Post
  <2>2. new.pc = "await" /\ new.resource = r
    BY <1>1, <1>2 DEF CallType
  <2> HIDE DEF new
  <2> QED
    BY <1>2, <2>1, <2>2 DEF TypeInv, TypeOK
<1>7. \A d \in SubmitCalls, s \in Resources : d \in posted'[s] =>
        call'[d].resource = s /\ call'[d].pc \in Sent
  <2> TAKE d \in SubmitCalls, s \in Resources
  <2>1. CASE s = r
    BY <1>5, <1>6, <2>1 DEF Sent
  <2>2. CASE s # r
    <3>1. d \in posted'[s] => d \in posted[s] /\ d # c
      BY <1>2, <1>5, <2>2 DEF PostsInv, Sent
    <3> QED
      BY <1>6, <3>1 DEF PostsInv
  <2> QED
    BY <2>1, <2>2
<1>8. \A d \in SubmitCalls, n \in 1 .. MaxTries : <<d, n>> \in transit' =>
        \E s \in Resources : /\ s = call'[d].resource /\ d \in posted'[s]
                             /\ owner'[s].decision = "none"
  <2> TAKE d \in SubmitCalls, n \in 1 .. MaxTries
  <2>1. CASE d = c
    BY <1>3, <1>4, <1>5, <1>6, <2>1
  <2>2. CASE d # c
    <3>1. <<d, n>> \in transit' => <<d, n>> \in transit
      BY <1>4, <2>2
    <3> QED
      BY <1>4, <1>5, <1>6, <2>2, <3>1 DEF PostsInv
  <2> QED
    BY <2>1, <2>2
<1>9. \A d \in SubmitCalls : call'[d].pc = "await" => call'[d].tries = 1
  BY Constants DEF PostsInv, Moves
<1>10. PostsInv'
  BY <1>4, <1>5, <1>7, <1>8, <1>9 DEF PostsInv
<1>11. \A s \in Resources : Served(s) => Served(s)'
  <2> SUFFICES ASSUME NEW s \in Resources, Served(s) PROVE Served(s)'
    OBVIOUS
  <2>1. s # r
    BY <1>3 DEF Served
  <2>2. \A d \in SubmitCalls, n \in 1 .. MaxTries : <<d, n>> \in transit' => call'[d].resource # s
    BY <1>4, <1>6, <2>1 DEF Served
  <2> QED
    BY <1>5, <2>2 DEF Served
<1> QED
  BY <1>4, <1>10, <1>11 DEF OwnersKeep

\* The owner decides on the POST that was sent, and it is on its way no more.
LEMMA PostsServed ==
    ASSUME TypeInv, PostsInv, Unique, MaxTries = 1,
           \A d \in Calls : Moves(call[d], call'[d]),
           NEW c \in SubmitCalls, NEW n \in 1 .. MaxTries, OwnerServes(c, n)
    PROVE  /\ PostsInv' /\ OwnersKeep
           /\ \A r \in Resources : r = call[c].resource => Served(r)'
<1>1. n = 1 /\ <<c, 1>> \in transit /\ transit' = transit \ {<<c, 1>>} /\ UNCHANGED posted
  BY DEF OwnerServes
<1>2. PICK r \in Resources : r = call[c].resource /\ c \in posted[r] /\ owner[r].decision = "none"
  BY <1>1 DEF PostsInv
<1>3. \A s \in Resources : s # r => owner'[s] = owner[s]
  BY <1>2 DEF OwnerServes, TypeInv, TypeOK, WireOK
<1>4. \A d \in SubmitCalls : Moves(call[d], call'[d])
  BY Constants
<1>5. \A d \in SubmitCalls : call[d].pc \in Sent =>
        call'[d].pc \in Sent /\ call'[d].resource = call[d].resource
  BY <1>4 DEF Moves, Sent
<1>6. \A d \in SubmitCalls, m \in 1 .. MaxTries : <<d, m>> \in transit' =>
        <<d, m>> \in transit /\ call[d].resource # r /\ call'[d].resource = call[d].resource
  <2> SUFFICES ASSUME NEW d \in SubmitCalls, NEW m \in 1 .. MaxTries, <<d, m>> \in transit'
               PROVE  <<d, m>> \in transit /\ call[d].resource # r
                        /\ call'[d].resource = call[d].resource
    OBVIOUS
  <2>1. m = 1 /\ <<d, m>> \in transit /\ d # c
    BY <1>1
  <2>2. PICK s \in Resources : s = call[d].resource /\ d \in posted[s]
    BY <2>1 DEF PostsInv
  <2>3. s # r
    BY <1>2, <2>1, <2>2 DEF Unique, Involved
  <2> QED
    BY <1>5, <2>1, <2>2, <2>3 DEF PostsInv
<1>7. \A d \in SubmitCalls, s \in Resources : d \in posted'[s] =>
        call'[d].resource = s /\ call'[d].pc \in Sent
  BY <1>1, <1>5 DEF PostsInv
<1>8. \A d \in SubmitCalls, m \in 1 .. MaxTries : <<d, m>> \in transit' =>
        \E s \in Resources : /\ s = call'[d].resource /\ d \in posted'[s]
                             /\ owner'[s].decision = "none"
  BY <1>1, <1>3, <1>6 DEF PostsInv
<1>9. \A d \in SubmitCalls : call'[d].pc = "await" => call'[d].tries = 1
  BY <1>4 DEF PostsInv, Moves
<1>10. \A s \in Resources : owner'[s].decision # "none" => posted'[s] # {}
  BY <1>1, <1>2, <1>3 DEF PostsInv
<1>11. PostsInv'
  BY <1>7, <1>8, <1>9, <1>10 DEF PostsInv
<1>12. Served(r)'
  BY <1>1, <1>2, <1>6 DEF Served
<1>13. \A s \in Resources : Served(s) => s # r
  BY <1>1, <1>2 DEF Served
<1>14. \A s \in Resources : Served(s) => Served(s)'
  BY <1>1, <1>6 DEF Served
<1> QED
  BY <1>2, <1>3, <1>11, <1>12, <1>13, <1>14 DEF OwnersKeep

LEMMA PostsNext ==
    ASSUME IInv, PostsInv, MaxTries = 1, [Next]_vars
    PROVE  PostsInv' /\ OwnersKeep
<1>1. /\ TypeInv /\ Unique /\ \A d \in Calls : Moves(call[d], call'[d])
  BY CallMoves DEF IInv, ClaimsInv
<1>2. CASE UNCHANGED wire
  BY <1>1, <1>2, PostsQuiet DEF wire
<1>3. ASSUME NEW c \in SubmitCalls, Post(c)
      PROVE  PostsInv' /\ OwnersKeep
  BY <1>1, <1>3, PostsSent
<1>4. ASSUME NEW c \in SubmitCalls, NEW n \in 1 .. MaxTries, OwnerServes(c, n)
      PROVE  PostsInv' /\ OwnersKeep
  BY <1>1, <1>4, PostsServed
<1>5. ASSUME NEW c \in SubmitCalls, NEW n \in 1 .. MaxTries,
             OwnerRefuses(c, n) \/ LoseRequest(c, n)
      PROVE  PostsInv' /\ OwnersKeep
  BY <1>1, <1>5, PostsQuiet DEF OwnerRefuses, LoseRequest
<1>6. ASSUME NEW r \in Resources, OwnerAdvances(r)
      PROVE  PostsInv' /\ OwnersKeep
  <2>1. \A s \in Resources : owner'[s].decision = owner[s].decision
    BY <1>6 DEF OwnerAdvances, IInv, TypeInv, TypeOK, WireOK
  <2> QED
    BY <1>1, <1>6, <2>1, PostsQuiet DEF OwnerAdvances
<1> QED
  BY <1>2, <1>3, <1>4, <1>5, <1>6
     DEF Next, vars, BeginSubmit, SubmitStep, LookupKey, TakeFence, InsertClaim, GiveUp,
         Finalize, BeginRecovery, RecoveryStep, ReadOwner, Reconcile, PersistHistory, Crash,
         Network, AuthorityLapses, OperatorResolves, LeaseExpires, Lifecycle,
         CountForErasure, ApplyErasure, ApplyHold, ReleaseHold, Purge

\* An answer that was heard stays true.
LEMMA HeardStays ==
    ASSUME OwnersKeep, NEW answer, NEW r \in Resources, Heard(answer, r)
    PROVE  Heard(answer, r)'
BY DEF OwnersKeep, Heard

LEMMA HeardMute ==
    ASSUME HeardInv, OwnersKeep, \A d \in Calls : Mute(call[d], call'[d])
    PROVE  HeardInv'
<1> SUFFICES ASSUME NEW c \in SubmitCalls, NEW r \in Resources,
                    call'[c].pc = "finalize", call'[c].resource = r
             PROVE  Heard(call[c].answer, r)'
  BY DEF HeardInv
<1>1. PICK a : a = call'[c].answer
  OBVIOUS
<1>2. Heard(a, r)'
  <2>1. CASE call'[c] = call[c]
    BY <1>1, <2>1, HeardStays DEF HeardInv
  <2>2. CASE call'[c] # call[c]
    <3>1. a \in {"unconfigured", "unknown"}
      BY <1>1, <2>2, Constants DEF Mute
    <3> QED
      BY <3>1 DEF Heard
  <2> QED
    BY <2>1, <2>2
<1> QED
  BY <1>1, <1>2 DEF Heard

\* One call hears an answer.
LEMMA HeardOne ==
    ASSUME TypeInv, HeardInv, OwnersKeep, NEW c \in SubmitCalls, NEW answer, NEW version,
           Hear(c, answer, version), NEW r \in Resources, r = call[c].resource,
           Heard(answer, r)'
    PROVE  HeardInv'
<1> SUFFICES ASSUME NEW d \in SubmitCalls, NEW s \in Resources,
                    call'[d].pc = "finalize", call'[d].resource = s
             PROVE  Heard(call[d].answer, s)'
  BY DEF HeardInv
<1>1. PICK a : a = call'[d].answer
  OBVIOUS
<1>2. c \in Calls /\ d \in Calls /\ call[c] \in CallType
  BY Constants DEF TypeInv, TypeOK
<1>3. Heard(a, s)'
  <2>1. CASE d = c
    <3>1. a = answer /\ s = r
      BY <1>1, <1>2, <2>1 DEF Hear, TypeInv, TypeOK, CallType
    <3> QED
      BY <3>1
  <2>2. CASE d # c
    <3>1. call'[d] = call[d]
      BY <1>2, <2>2 DEF Hear, TypeInv, TypeOK
    <3> QED
      BY <1>1, <3>1, HeardStays DEF HeardInv
  <2> QED
    BY <2>1, <2>2
<1> QED
  BY <1>1, <1>3 DEF Heard

LEMMA HeardNext ==
    ASSUME IInv, PostsInv, HeardInv, MaxTries = 1, OwnersKeep, [Next]_vars
    PROVE  HeardInv'
<1>1. TypeInv /\ Unique /\ \A d \in Calls : Moves(call[d], call'[d])
  BY CallMoves DEF IInv, ClaimsInv
<1>2. CASE ~Network
  BY <1>1, <1>2, CallSteps, HeardMute DEF Steps
<1>3. CASE UNCHANGED call
  BY <1>3, HeardMute DEF Mute
<1>4. ASSUME NEW c \in SubmitCalls, NEW n \in 1 .. MaxTries, OwnerServes(c, n),
             NEW answer \in {"accepted", "rejected"}, NEW version,
             Hear(c, answer, version), NEW r \in Resources, r = call[c].resource,
             owner[r].decision \in {"none", answer},
             owner' = [owner EXCEPT ![r] =
                  IF @.decision = "none" /\ (answer = "accepted" \/ r \in AdviseIntents)
                  THEN [decision |-> answer, version |-> 1] ELSE @]
      PROVE  HeardInv'
  <2>1. Served(r)'
    BY <1>1, <1>4, PostsServed
  <2>2. /\ answer = "accepted" => owner'[r].decision = "accepted"
        /\ answer = "rejected" => owner'[r].decision # "accepted"
    BY <1>1, <1>4 DEF TypeInv, TypeOK, WireOK
  <2>3. Heard(answer, r)'
    BY <2>1, <2>2 DEF Heard
  <2> QED
    BY <1>1, <1>4, <2>3, HeardOne
<1>5. ASSUME NEW c \in SubmitCalls, NEW n \in 1 .. MaxTries, OwnerServes(c, n)
      PROVE  HeardInv'
  <2>1. PICK r \in Resources : r = call[c].resource
    BY <1>5 DEF OwnerServes, PostsInv
  <2>2. PICK answer \in {"accepted", "rejected"} :
          /\ owner[r].decision \in {"none", answer}
          /\ owner' = [owner EXCEPT ![r] =
                  IF @.decision = "none" /\ (answer = "accepted" \/ r \in AdviseIntents)
                  THEN [decision |-> answer, version |-> 1] ELSE @]
          /\ \/ \E version : Hear(c, answer, version)
             \/ UNCHANGED call
    BY <1>5, <2>1 DEF OwnerServes
  <2> QED
    BY <1>3, <1>4, <1>5, <2>1, <2>2
<1>6. ASSUME NEW c \in SubmitCalls, NEW n \in 1 .. MaxTries, OwnerRefuses(c, n)
      PROVE  HeardInv'
  <2>1. n = 1 /\ <<c, 1>> \in transit /\ transit' = transit \ {<<c, 1>>}
        /\ UNCHANGED <<posted, owner>> /\ (Hear(c, "refused", 0) \/ UNCHANGED call)
    BY <1>6 DEF OwnerRefuses
  <2>2. PICK r \in Resources : r = call[c].resource /\ c \in posted[r] /\ owner[r].decision = "none"
    BY <2>1 DEF PostsInv
  <2>3. ASSUME NEW d \in SubmitCalls, NEW m \in 1 .. MaxTries, <<d, m>> \in transit'
        PROVE  call'[d].resource # r
    <3>1. m = 1 /\ <<d, m>> \in transit /\ d # c
      BY <2>1, <2>3
    <3>2. PICK s \in Resources : s = call[d].resource /\ d \in posted[s]
      BY <3>1 DEF PostsInv
    <3>3. s # r
      BY <1>1, <2>2, <3>1, <3>2 DEF Unique, Involved
    <3>4. call[d].pc # "idle"
      BY <3>2 DEF PostsInv, Sent
    <3> QED
      BY <1>1, <3>2, <3>3, <3>4, Constants DEF Moves
  <2>4. Heard("refused", r)'
    BY <2>1, <2>2, <2>3 DEF Heard, Served
  <2>5. CASE Hear(c, "refused", 0)
    BY <1>1, <2>2, <2>4, <2>5, HeardOne
  <2> QED
    BY <1>3, <2>1, <2>5
<1>7. ASSUME NEW c \in SubmitCalls, NEW n \in 1 .. MaxTries, LoseRequest(c, n)
      PROVE  UNCHANGED call
  BY <1>7 DEF LoseRequest
<1> QED
  BY <1>2, <1>3, <1>5, <1>6, <1>7 DEF Network

\* What a recovery has read of its owner stays true.
LEMMA ReadNext ==
    ASSUME TypeInv, ReadInv, OwnersStand, [Next]_vars
    PROVE  ReadInv'
<1>1. ASSUME NEW c \in RecoveryCalls,
             call'[c] = call[c] \/ call'[c].pc # "reconcile",
             NEW r \in Resources, call'[c].pc = "reconcile", call'[c].resource = r
      PROVE  owner'[r].decision # "none" /\ call'[c].answer = owner'[r].decision
  BY <1>1 DEF ReadInv, OwnersStand
<1>2. CASE \A c \in RecoveryCalls : call'[c] = call[c] \/ call'[c].pc # "reconcile"
  BY <1>1, <1>2 DEF ReadInv
<1>3. ASSUME NEW c \in Calls, NEW new, call' = [call EXCEPT ![c] = new],
             c \in RecoveryCalls => new.pc # "reconcile"
      PROVE  ReadInv'
  <2>1. \A d \in RecoveryCalls : call'[d] = call[d] \/ call'[d].pc # "reconcile"
    BY <1>3, Constants DEF TypeInv, TypeOK
  <2> QED
    BY <1>2, <2>1
<1>4. ASSUME NEW c \in SubmitCalls, NEW new, call' = [call EXCEPT ![c] = new]
      PROVE  ReadInv'
  BY <1>3, <1>4, Constants, SubmissionAssumption DEF SubmissionAssumption
<1>5. ASSUME NEW c \in Calls, NEW pc \in {"done", "crashed"},
             call' = [call EXCEPT ![c] = Over(c, pc)]
      PROVE  ReadInv'
  <2>1. Over(c, pc).pc # "reconcile"
    BY DEF Over, Begun
  <2> QED
    BY <1>3, <1>5, <2>1
<1>6. CASE UNCHANGED call
  BY <1>2, <1>6
<1>7. ASSUME NEW c \in SubmitCalls, BeginSubmit(c) \/ SubmitStep(c)
      PROVE  ReadInv'
  <2>1. \E new : call' = [call EXCEPT ![c] = new]
    BY <1>7 DEF BeginSubmit, SubmitStep, LookupKey, TakeFence, InsertClaim, Post, GiveUp,
                Hear, Finalize
  <2> QED
    BY <1>4, <2>1
<1>8. CASE Network
  <2>1. \/ UNCHANGED call
        \/ \E c \in SubmitCalls : \E new : call' = [call EXCEPT ![c] = new]
    BY <1>8 DEF Network, OwnerServes, OwnerRefuses, LoseRequest, Hear
  <2> QED
    BY <1>4, <1>6, <2>1
<1>9. ASSUME NEW c \in RecoveryCalls, BeginRecovery(c) \/ Reconcile(c) \/ PersistHistory(c)
      PROVE  ReadInv'
  <2>1. c \in Calls /\ call[c] \in CallType
    BY Constants DEF TypeInv, TypeOK
  <2>2. CASE call' = [call EXCEPT ![c] = [call[c] EXCEPT !.pc = "persist"]]
    <3>1. [call[c] EXCEPT !.pc = "persist"].pc # "reconcile"
      BY <2>1 DEF CallType
    <3> QED
      BY <1>3, <2>1, <2>2, <3>1
  <2>3. CASE BeginRecovery(c)
    <3>1. PICK key, r, seen :
            call' = [call EXCEPT ![c] = Begun("read", key, r, FALSE, seen)]
      BY <2>3 DEF BeginRecovery
    <3>2. Begun("read", key, r, FALSE, seen).pc # "reconcile"
      BY DEF Begun
    <3> QED
      BY <1>3, <2>1, <3>1, <3>2
  <2> QED
    BY <1>5, <1>9, <2>1, <2>2, <2>3 DEF Reconcile, PersistHistory
<1>10. ASSUME NEW c \in RecoveryCalls, ReadOwner(c)
       PROVE  ReadInv'
  <2>1. c \in Calls /\ call[c] \in CallType
    BY Constants DEF TypeInv, TypeOK
  <2>2. PICK r \in Resources : r = call[c].resource
    BY <1>10, Constants DEF ReadOwner, TypeInv, CallKnows, Running
  <2>3. CASE call' = [call EXCEPT ![c] = Over(c, "done")]
    BY <1>5, <2>1, <2>3
  <2>4. CASE call' # [call EXCEPT ![c] = Over(c, "done")]
    <3>1. PICK pc, version : /\ owner[r].decision # "none"
                             /\ call' = [call EXCEPT ![c] = [call[c] EXCEPT !.pc = pc,
                                    !.answer = owner[r].decision, !.version = version]]
      BY <1>10, <2>2, <2>4 DEF ReadOwner
    <3>2. /\ call'[c].resource = r /\ call'[c].answer = owner[r].decision
          /\ \A d \in Calls : d # c => call'[d] = call[d]
      BY <2>1, <2>2, <3>1 DEF TypeInv, TypeOK, CallType
    <3>3. owner' = owner
      BY <1>10 DEF ReadOwner, wire
    <3> QED
      BY <3>1, <3>2, <3>3, Constants DEF ReadInv
  <2> QED
    BY <2>3, <2>4
<1>11. ASSUME NEW c \in Calls, Crash(c)
       PROVE  ReadInv'
  BY <1>5, <1>11 DEF Crash
<1> QED
  BY <1>6, <1>7, <1>8, <1>9, <1>10, <1>11
     DEF Next, vars, RecoveryStep, OwnerAdvances, AuthorityLapses, OperatorResolves,
         LeaseExpires, Lifecycle, CountForErasure, ApplyErasure, ApplyHold, ReleaseHold, Purge

-----------------------------------------------------------------------------
(* Rows and those who know them.                                           *)

\* How a step treats the rows: an inserted one belongs to an active candidate,
\* a purge takes all.
Inserted(c, k) ==
    /\ call[c].pc = "insert" /\ k = call[c].key /\ posture[k] = "absent"
    /\ EffectiveState = "active"
    /\ \A j \in Keys : j # k => posture'[j] = posture[j] /\ subject'[j] = subject[j]
                                   /\ author'[j] = author[j]
    /\ posture'[k] = "in_flight" /\ subject'[k] = call[c].resource /\ author'[k] = "claimant"

\* One row is closed, or found again by a recovery.
Recorded(k, by, says) ==
    /\ posture[k] # "absent" /\ says # "absent"
    /\ subject' = subject
    /\ \A j \in Keys : j # k => posture'[j] = posture[j] /\ author'[j] = author[j]
    /\ posture'[k] = says /\ author'[k] = by

RowStep ==
    \/ UNCHANGED <<posture, subject, author>>
    \/ \E c \in SubmitCalls, k \in Keys : Inserted(c, k)
    \/ \E c \in SubmitCalls : call[c].pc = "finalize" /\
          Recorded(call[c].key, "adapter", FinalPosture(call[c].answer))
    \/ \E k \in Keys : \E says : Recorded(k, "operator", says)
    \/ \E c \in RecoveryCalls : call[c].pc = "reconcile" /\
          Recorded(call[c].key, "recovery", call[c].answer)
    \/ Purge

LEMMA RowSteps == IInv /\ [Next]_vars => RowStep
<1> SUFFICES ASSUME IInv, [Next]_vars PROVE RowStep
  OBVIOUS
<1>1. CASE UNCHANGED <<posture, subject, author>>
  BY <1>1 DEF RowStep
<1>2. /\ posture \in [Keys -> Postures] /\ DOMAIN subject = Keys /\ DOMAIN author = Keys
  BY DEF IInv, TypeInv, TypeOK, RowsOK
<1>3. ASSUME NEW k \in Keys, NEW by, NEW says, NEW v, NEW ref,
             Transition(k, says, by, v, ref), posture[k] # "absent", says # "absent"
      PROVE  Recorded(k, by, says)
  BY <1>2, <1>3 DEF Transition, Recorded
<1>4. ASSUME NEW c \in SubmitCalls, InsertClaim(c)
      PROVE  RowStep
  <2>1. CASE UNCHANGED submission
    BY <1>1, <2>1 DEF submission
  <2>2. PICK k \in Keys : k = call[c].key
    BY <1>4, Constants DEF InsertClaim, IInv, TypeInv, CallKnows, Running
  <2>3. CASE Unclaimed(k, call[c].resource) /\ InsertRow(k, call[c].resource)
    <3>1. call[c].pc = "insert" /\ EffectiveState = "active"
      BY <1>4 DEF InsertClaim, IInv, ClaimsInv, Fenced
    <3>2. Inserted(c, k)
      BY <1>2, <2>2, <2>3, <3>1 DEF Unclaimed, InsertRow, Inserted
    <3> QED
      BY <3>2 DEF RowStep
  <2> QED
    BY <1>4, <2>1, <2>2, <2>3 DEF InsertClaim
<1>5. ASSUME NEW c \in SubmitCalls, Finalize(c)
      PROVE  RowStep
  <2>1. CASE UNCHANGED submission
    BY <1>1, <2>1 DEF submission
  <2>2. PICK k \in Keys : k = call[c].key
    BY <1>5, Constants DEF Finalize, IInv, TypeInv, CallKnows, Running, Submitting
  <2>3. CASE /\ posture[k] = "in_flight"
             /\ Transition(k, FinalPosture(call[c].answer), "adapter", call[c].version, 0)
    <3>1. FinalPosture(call[c].answer) # "absent"
      BY DEF FinalPosture
    <3>2. Recorded(k, "adapter", FinalPosture(call[c].answer))
      BY <1>3, <2>3, <3>1
    <3> QED
      BY <1>5, <2>2, <3>2 DEF RowStep, Finalize
  <2> QED
    BY <1>5, <2>1, <2>2, <2>3 DEF Finalize, Finalizable
<1>6. ASSUME NEW k \in Keys, OperatorResolves(k)
      PROVE  RowStep
  <2>1. PICK says \in {"accepted", "rejected", "quarantined"} :
          posture[k] \in Open /\ Transition(k, says, "operator", 0, 0)
    BY <1>6 DEF OperatorResolves
  <2>2. posture[k] # "absent" /\ says # "absent"
    BY <2>1 DEF Open
  <2>3. Recorded(k, "operator", says)
    BY <1>3, <2>1, <2>2
  <2> QED
    BY <2>3 DEF RowStep
<1>7. ASSUME NEW c \in RecoveryCalls, Reconcile(c)
      PROVE  RowStep
  <2>1. CASE UNCHANGED submission
    BY <1>1, <2>1 DEF submission
  <2>2. PICK k \in Keys : k = call[c].key
    BY <1>7, Constants DEF Reconcile, IInv, TypeInv, CallKnows, Running
  <2>3. call[c].pc = "reconcile" /\ call[c].answer # "absent"
    BY <1>7, Constants DEF Reconcile, IInv, TypeInv, CallKnows
  <2>4. ASSUME NEW v, NEW ref, Reconcilable(k, call[c]),
               Transition(k, call[c].answer, "recovery", v, ref)
        PROVE  RowStep
    <3>1. posture[k] # "absent"
      BY <2>4 DEF Reconcilable, Open, Advances
    <3>2. Recorded(k, "recovery", call[c].answer)
      BY <1>3, <2>3, <2>4, <3>1
    <3> QED
      BY <2>2, <2>3, <3>2 DEF RowStep
  <2> QED
    BY <1>7, <2>1, <2>2, <2>4 DEF Reconcile
<1>8. CASE Purge
  BY <1>8 DEF RowStep
<1> QED
  BY <1>1, <1>4, <1>5, <1>6, <1>7, <1>8
     DEF Next, vars, submission, BeginSubmit, SubmitStep, LookupKey, TakeFence, Post,
         GiveUp, BeginRecovery, RecoveryStep, ReadOwner, PersistHistory, Crash, Network,
         OwnerServes, OwnerRefuses, LoseRequest, OwnerAdvances, AuthorityLapses,
         LeaseExpires, Lifecycle, CountForErasure, ApplyErasure, ApplyHold, ReleaseHold

\* How the candidate's lifecycle meets the rows: what is purged stays purged,
\* and rows are purged only once the candidate is erased.
LEMMA PurgeSteps ==
    ASSUME IInv, [Next]_vars
    PROVE  /\ EffectiveState = "purged" => EffectiveState' = "purged"
           /\ Purge => EffectiveState = "erased"
           /\ EffectiveState' = "purged" => EffectiveState = "purged" \/ Purge
<1>1. CASE UNCHANGED <<state, heldFrom>>
  BY <1>1 DEF EffectiveState, Purge
<1>2. CASE ApplyErasure
  BY <1>2 DEF ApplyErasure, EffectiveState, Purge, IInv, ClaimsInv, Locked
<1>3. CASE ApplyHold \/ ReleaseHold
  BY <1>3 DEF ApplyHold, ReleaseHold, EffectiveState, Purge, IInv, TypeInv, TypeOK, LifecycleOK
<1>4. CASE Purge
  BY <1>4 DEF Purge, EffectiveState
<1> QED
  BY <1>1, <1>2, <1>3, <1>4
     DEF Next, vars, lifecycle, BeginSubmit, SubmitStep, LookupKey, TakeFence, InsertClaim,
         Post, GiveUp, Finalize, BeginRecovery, RecoveryStep, ReadOwner, Reconcile,
         PersistHistory, Crash, Network, OwnerServes, OwnerRefuses, LoseRequest,
         OwnerAdvances, AuthorityLapses, OperatorResolves, LeaseExpires, Lifecycle,
         CountForErasure

\* A row that is there stays, with its subject, unless all are purged.
LEMMA RowsStayOrGo ==
    ASSUME RowStep, ~Purge
    PROVE  \A k \in Rows : k \in Rows' /\ subject'[k] = subject[k]
BY DEF RowStep, Inserted, Recorded, Rows, FinalPosture

\* Rows come only to an active candidate.
LEMMA RowsCome ==
    ASSUME RowStep, Rows' # {}
    PROVE  Rows # {} \/ EffectiveState = "active"
BY DEF RowStep, Inserted, Recorded, Rows, Purge

\* Where a call gets a claim, or loads one.
LEMMA NewClaims ==
    ASSUME IInv, [Next]_vars
    PROVE  /\ \A c \in SubmitCalls :
                 call'[c].pc \in Submitting /\ call[c].pc \notin Submitting =>
                    call'[c].key \in Rows' /\ subject'[call'[c].key] = call'[c].resource
           /\ \A c \in RecoveryCalls :
                 call'[c].pc \in Reading /\ call[c].pc \notin Reading =>
                    call'[c].key \in Rows' /\ subject'[call'[c].key] = call'[c].resource
<1> DEFINE P == /\ \A c \in SubmitCalls :
                      call'[c].pc \in Submitting /\ call[c].pc \notin Submitting =>
                         call'[c].key \in Rows' /\ subject'[call'[c].key] = call'[c].resource
                /\ \A c \in RecoveryCalls :
                      call'[c].pc \in Reading /\ call[c].pc \notin Reading =>
                         call'[c].key \in Rows' /\ subject'[call'[c].key] = call'[c].resource
<1> SUFFICES P
  OBVIOUS
<1>1. CASE UNCHANGED call
  BY <1>1
<1>2. ASSUME NEW c \in Calls, NEW new, call' = [call EXCEPT ![c] = new],
             c \in SubmitCalls => new.pc \notin Submitting \/ call[c].pc \in Submitting,
             c \in RecoveryCalls => new.pc \notin Reading \/ call[c].pc \in Reading
      PROVE  P
  BY <1>2, Constants DEF IInv, TypeInv, TypeOK
<1>3. ASSUME NEW c \in Calls, NEW pc \in {"done", "crashed"},
             call' = [call EXCEPT ![c] = Over(c, pc)]
      PROVE  P
  <2>1. Over(c, pc).pc \notin Submitting \cup Reading
    BY DEF Over, Begun, Submitting, Reading
  <2> QED
    BY <1>2, <1>3, <2>1
<1>4. ASSUME NEW c \in SubmitCalls, InsertClaim(c)
      PROVE  P
  <2> DEFINE toPost == [call[c] EXCEPT !.pc = "post"]
             toEnd == [call[c] EXCEPT !.pc = "finalize", !.answer = "unconfigured"]
  <2>1. c \in Calls /\ call[c] \in CallType /\ c \notin RecoveryCalls
    BY Constants, SubmissionAssumption DEF IInv, TypeInv, TypeOK, SubmissionAssumption
  <2>2. PICK k \in Keys, r \in Resources : k = call[c].key /\ r = call[c].resource
    BY <1>4, Constants DEF InsertClaim, IInv, TypeInv, CallKnows, Running
  <2>3. CASE call' = [call EXCEPT ![c] = Over(c, "done")]
    BY <1>3, <2>1, <2>3
  <2>4. CASE /\ InsertRow(k, r)
             /\ call' = [call EXCEPT ![c] = toPost] \/ call' = [call EXCEPT ![c] = toEnd]
    <3>1. /\ toPost.key = k /\ toPost.resource = r
          /\ toEnd.key = k /\ toEnd.resource = r
      BY <2>1, <2>2 DEF CallType
    <3> HIDE DEF toPost, toEnd
    <3>2. /\ call'[c].key = k /\ call'[c].resource = r
          /\ \A d \in Calls : d # c => call'[d] = call[d]
      BY <2>1, <2>4, <3>1 DEF IInv, TypeInv, TypeOK
    <3>3. k \in Rows' /\ subject'[k] = r
      BY <2>2, <2>4 DEF InsertRow, Rows, IInv, TypeInv, TypeOK, RowsOK
    <3> QED
      BY <2>1, <3>2, <3>3, Constants
  <2> QED
    BY <1>4, <2>2, <2>3, <2>4 DEF InsertClaim
<1>5. ASSUME NEW c \in SubmitCalls, NEW pc \in {"fence", "insert"},
             call' = [call EXCEPT ![c] = [call[c] EXCEPT !.pc = pc]]
      PROVE  P
  <2>1. [call[c] EXCEPT !.pc = pc].pc \notin Submitting /\ c \in Calls /\ c \notin RecoveryCalls
    BY Constants, SubmissionAssumption
       DEF IInv, TypeInv, TypeOK, CallType, Submitting, SubmissionAssumption
  <2> QED
    BY <1>2, <1>5, <2>1
<1>6. ASSUME NEW c \in SubmitCalls, BeginSubmit(c)
      PROVE  P
  <2>1. PICK key, r, valid :
          call' = [call EXCEPT ![c] = Begun("lookup", key, r, valid, 0)]
    BY <1>6 DEF BeginSubmit
  <2>2. /\ Begun("lookup", key, r, valid, 0).pc \notin Submitting
        /\ c \in Calls /\ c \notin RecoveryCalls
    BY Constants, SubmissionAssumption DEF SubmissionAssumption, Begun, Submitting
  <2> QED
    BY <1>2, <2>1, <2>2
<1>7. ASSUME NEW c \in SubmitCalls, call[c].pc \in Submitting,
             NEW new, call' = [call EXCEPT ![c] = new]
      PROVE  P
  BY <1>2, <1>7, Constants, SubmissionAssumption DEF SubmissionAssumption
<1>8. ASSUME NEW c \in SubmitCalls, Post(c) \/ GiveUp(c) \/ Finalize(c)
      PROVE  P
  <2>1. call[c].pc \in Submitting /\ \E new : call' = [call EXCEPT ![c] = new]
    BY <1>8 DEF Post, GiveUp, Hear, Finalize, Submitting
  <2> QED
    BY <1>7, <2>1
<1>9. CASE Network
  <2>1. \/ UNCHANGED call
        \/ \E c \in SubmitCalls : \E new :
              call[c].pc \in Submitting /\ call' = [call EXCEPT ![c] = new]
    BY <1>9 DEF Network, OwnerServes, OwnerRefuses, LoseRequest, Hear, Hears, Submitting
  <2> QED
    BY <1>1, <1>7, <2>1
<1>10. ASSUME NEW c \in RecoveryCalls, BeginRecovery(c)
       PROVE  P
  <2>1. PICK k \in Rows : call' = [call EXCEPT ![c] =
                               Begun("read", k, subject[k], FALSE, receipt[k])]
    BY <1>10 DEF BeginRecovery
  <2>2. /\ call'[c].key = k /\ call'[c].resource = subject[k]
        /\ \A d \in Calls : d # c => call'[d] = call[d]
    BY <2>1, Constants DEF Begun, IInv, TypeInv, TypeOK
  <2>3. k \in Rows' /\ subject'[k] = subject[k]
    BY <1>10 DEF BeginRecovery, submission, Rows
  <2>4. c \notin SubmitCalls
    BY SubmissionAssumption DEF SubmissionAssumption
  <2> QED
    BY <2>2, <2>3, <2>4, Constants
<1>11. ASSUME NEW c \in RecoveryCalls, RecoveryStep(c)
       PROVE  P
  <2>1. /\ call[c].pc \in Reading /\ c \in Calls /\ c \notin SubmitCalls
        /\ \E new : call' = [call EXCEPT ![c] = new]
    BY <1>11, Constants, SubmissionAssumption
       DEF RecoveryStep, ReadOwner, Reconcile, PersistHistory, Reading, SubmissionAssumption
  <2> QED
    BY <1>2, <2>1
<1>12. ASSUME NEW c \in SubmitCalls, LookupKey(c) \/ TakeFence(c)
       PROVE  P
  BY <1>3, <1>5, <1>12, Constants DEF LookupKey, TakeFence
<1>13. ASSUME NEW c \in Calls, Crash(c)
       PROVE  P
  BY <1>3, <1>13 DEF Crash
<1>14. ASSUME NEW c \in SubmitCalls, BeginSubmit(c) \/ SubmitStep(c)
       PROVE  P
  BY <1>4, <1>6, <1>8, <1>12, <1>14 DEF SubmitStep
<1>15. CASE \/ \E r \in Resources : OwnerAdvances(r) \/ AuthorityLapses(r)
            \/ \E k \in Keys : OperatorResolves(k) \/ LeaseExpires(k)
            \/ Lifecycle \/ UNCHANGED vars
  <2>1. UNCHANGED call
    BY <1>15 DEF vars, OwnerAdvances, AuthorityLapses, OperatorResolves, LeaseExpires,
                 Lifecycle, CountForErasure, ApplyErasure, ApplyHold, ReleaseHold, Purge
  <2> QED
    BY <1>1, <2>1
<1> HIDE DEF P
<1> QED
  BY <1>9, <1>10, <1>11, <1>13, <1>14, <1>15 DEF Next

LEMMA KnownNext ==
    ASSUME IInv, KnownInv, [Next]_vars
    PROVE  KnownInv'
<1>1. RowStep /\ \A d \in Calls : Keeps(call[d], call'[d])
  BY RowSteps, CallsGo DEF IInv
<1>2. /\ EffectiveState = "purged" => EffectiveState' = "purged"
      /\ Purge => EffectiveState = "erased"
      /\ EffectiveState' = "purged" => EffectiveState = "purged" \/ Purge
  BY PurgeSteps
<1>3. EffectiveState' = "purged" => Rows' = {}
  <2>1. CASE Purge
    BY <2>1 DEF Purge, Rows
  <2>2. CASE ~Purge
    BY <1>1, <1>2, <2>2, RowsCome DEF KnownInv
  <2> QED
    BY <2>1, <2>2
<1>4. ASSUME NEW c \in SubmitCalls, call'[c].pc \in Submitting
      PROVE  call'[c].key \in Rows' /\ subject'[call'[c].key] = call'[c].resource
  <2>1. CASE call[c].pc \in Submitting
    <3>1. call'[c].key = call[c].key /\ call'[c].resource = call[c].resource
      BY <1>1, <2>1, Constants DEF Keeps, Submitting
    <3>2. ~Purge
      BY <1>2, <2>1 DEF IInv, ClaimsInv, ErasureExcludesDelivery
    <3>3. PICK k : k = call[c].key
      OBVIOUS
    <3>4. k \in Rows /\ subject[k] = call[c].resource
      BY <2>1, <3>3 DEF KnownInv
    <3>5. k \in Rows' /\ subject'[k] = subject[k]
      BY <1>1, <3>2, <3>4, RowsStayOrGo
    <3> QED
      BY <3>1, <3>3, <3>4, <3>5
  <2>2. CASE call[c].pc \notin Submitting
    BY <1>4, <2>2, NewClaims
  <2> QED
    BY <2>1, <2>2
<1>5. ASSUME NEW c \in RecoveryCalls, call'[c].pc \in Reading
      PROVE  \/ call'[c].key \in Rows' /\ subject'[call'[c].key] = call'[c].resource
             \/ EffectiveState' = "purged"
  <2>1. CASE call[c].pc \in Reading
    <3>1. call'[c].key = call[c].key /\ call'[c].resource = call[c].resource
      BY <1>1, <2>1, Constants DEF Keeps, Reading
    <3>2. CASE EffectiveState = "purged" \/ Purge
      BY <1>2, <3>2 DEF Purge, EffectiveState
    <3>3. CASE EffectiveState # "purged" /\ ~Purge
      <4>1. PICK k : k = call[c].key
        OBVIOUS
      <4>2. k \in Rows /\ subject[k] = call[c].resource
        BY <2>1, <3>3, <4>1 DEF KnownInv
      <4>3. k \in Rows' /\ subject'[k] = subject[k]
        BY <1>1, <3>3, <4>2, RowsStayOrGo
      <4> QED
        BY <3>1, <4>1, <4>2, <4>3
    <3> QED
      BY <3>2, <3>3
  <2>2. CASE call[c].pc \notin Reading
    BY <1>5, <2>2, NewClaims
  <2> QED
    BY <2>1, <2>2
<1> QED
  BY <1>3, <1>4, <1>5 DEF KnownInv

\* What a row tells stays true.
LEMMA TellsStays ==
    ASSUME OwnersKeep, NEW by, NEW says, NEW r \in Resources, Tells(by, says, r)
    PROVE  Tells(by, says, r)'
BY DEF OwnersKeep, Tells

LEMMA RowsTellNext ==
    ASSUME IInv, WordInv, OwnersKeep, [Next]_vars
    PROVE  RowsTell'
<1> SUFFICES ASSUME NEW k \in Keys, NEW r \in Resources, NEW by, NEW says,
                    posture'[k] # "absent", subject'[k] = r,
                    by = author'[k], says = posture'[k]
             PROVE  Tells(by, says, r)'
  BY DEF RowsTell, Rows, Tells
<1>1. RowStep
  BY RowSteps
<1>2. CASE /\ posture'[k] = posture[k] /\ subject'[k] = subject[k] /\ author'[k] = author[k]
  BY <1>2, TellsStays DEF WordInv, RowsTell, Rows
<1>3. ASSUME NEW j, NEW writer, NEW what, Recorded(j, writer, what)
      PROVE  \/ /\ posture'[k] = posture[k] /\ subject'[k] = subject[k]
                /\ author'[k] = author[k]
             \/ j = k /\ by = writer /\ says = what /\ subject[k] = r /\ k \in Rows
  BY <1>3 DEF Recorded, Rows
<1>4. ASSUME NEW c \in SubmitCalls, NEW j \in Keys, Inserted(c, j)
      PROVE  Tells(by, says, r)'
  BY <1>2, <1>4 DEF Inserted, Tells
<1>5. ASSUME NEW c \in SubmitCalls, call[c].pc = "finalize",
             Recorded(call[c].key, "adapter", FinalPosture(call[c].answer))
      PROVE  Tells(by, says, r)'
  <2>1. CASE /\ call[c].key = k /\ by = "adapter" /\ says = FinalPosture(call[c].answer)
             /\ subject[k] = r
    <3>1. call[c].resource = r
      BY <1>5, <2>1 DEF WordInv, KnownInv, Submitting
    <3>2. PICK a : a = call[c].answer
      OBVIOUS
    <3>3. Heard(a, r)'
      BY <1>5, <3>1, <3>2, HeardStays DEF WordInv, HeardInv
    <3>4. /\ says = "accepted" => a = "accepted"
          /\ says = "rejected" => a \in {"rejected", "refused"}
      BY <2>1, <3>2 DEF FinalPosture
    <3> QED
      BY <3>3, <3>4 DEF Heard, Tells
  <2> QED
    BY <1>2, <1>3, <1>5, <2>1
<1>6. ASSUME NEW j \in Keys, NEW what, Recorded(j, "operator", what)
      PROVE  Tells(by, says, r)'
  BY <1>2, <1>3, <1>6 DEF Tells
<1>7. ASSUME NEW c \in RecoveryCalls, call[c].pc = "reconcile",
             Recorded(call[c].key, "recovery", call[c].answer)
      PROVE  Tells(by, says, r)'
  <2>1. CASE /\ call[c].key = k /\ by = "recovery" /\ says = call[c].answer
             /\ subject[k] = r /\ k \in Rows
    <3>1. call[c].resource = r
      BY <1>7, <2>1 DEF WordInv, KnownInv, Reading
    <3>2. says = owner[r].decision /\ owner[r].decision # "none"
      BY <1>7, <2>1, <3>1 DEF WordInv, ReadInv
    <3>3. owner'[r].decision = says
      BY <3>2 DEF OwnersKeep
    <3> QED
      BY <3>3 DEF Tells
  <2> QED
    BY <1>2, <1>3, <1>7, <2>1
<1>8. CASE Purge
  BY <1>8 DEF Purge
<1> QED
  BY <1>1, <1>2, <1>4, <1>5, <1>6, <1>7, <1>8 DEF RowStep

\* For a client that tries once: what was not decided by an operator is what
\* the owner decided, whatever was lost, late, retried, recovered or erased.
THEOREM OwnersWord == ASSUME MaxTries = 1 PROVE Spec => []PostureIsTheOwnersWord
<1>1. Init => WordInv
  <2> SUFFICES ASSUME Init PROVE WordInv
    OBVIOUS
  <2>1. \A c \in Calls : call[c].pc = "idle"
    BY DEF Init, NoCall, Begun
  <2>2. PostsInv
    BY <2>1, Constants DEF Init, PostsInv
  <2>3. HeardInv /\ ReadInv
    BY <2>1, Constants DEF HeardInv, ReadInv
  <2>4. Rows = {}
    BY DEF Init, Rows
  <2>5. KnownInv /\ RowsTell
    BY <2>1, <2>4, Constants DEF KnownInv, RowsTell, Submitting, Reading
  <2> QED
    BY <2>2, <2>3, <2>5 DEF WordInv
<1>2. IInv /\ WordInv /\ [Next]_vars => WordInv'
  <2> SUFFICES ASSUME IInv, WordInv, [Next]_vars PROVE WordInv'
    OBVIOUS
  <2>1. PostsInv' /\ OwnersKeep /\ OwnersStand
    BY PostsNext DEF WordInv, OwnersKeep, OwnersStand
  <2>2. HeardInv' /\ ReadInv'
    BY <2>1, HeardNext, ReadNext DEF WordInv, IInv
  <2>3. KnownInv' /\ RowsTell'
    BY <2>1, KnownNext, RowsTellNext DEF WordInv
  <2> QED
    BY <2>1, <2>2, <2>3 DEF WordInv
<1>3. IInv /\ WordInv => PostureIsTheOwnersWord
  <2> SUFFICES ASSUME IInv, WordInv, NEW k \in Rows, author[k] \in {"adapter", "recovery"}
               PROVE  /\ posture[k] = "accepted" => owner[subject[k]].decision = "accepted"
                      /\ posture[k] = "rejected" => owner[subject[k]].decision # "accepted"
    BY DEF PostureIsTheOwnersWord
  <2>1. PICK r \in Resources : r = subject[k]
    BY DEF IInv, TypeInv, TypeOK, RowsOK
  <2> QED
    BY <2>1 DEF WordInv, RowsTell, Tells
<1> QED
  BY <1>1, <1>2, <1>3, Invariance, PTL DEF Spec

-----------------------------------------------------------------------------
(* For a client that tries as often as it likes.  A rejection it hears may *)
(* be overtaken by another of its tries; an acceptance may not.            *)

LEMMA StandNext ==
    ASSUME TypeInv, [Next]_vars
    PROVE  OwnersStand
<1>1. CASE UNCHANGED owner
  BY <1>1 DEF OwnersStand
<1>2. ASSUME NEW c \in SubmitCalls, NEW n \in 1 .. MaxTries, OwnerServes(c, n)
      PROVE  OwnersStand
  <2>1. PICK answer : owner' = [owner EXCEPT ![call[c].resource] =
             IF @.decision = "none" /\ (answer = "accepted" \/ call[c].resource \in AdviseIntents)
             THEN [decision |-> answer, version |-> 1] ELSE @]
    BY <1>2 DEF OwnerServes
  <2>2. ASSUME NEW r \in Resources, owner[r].decision # "none"
        PROVE  owner'[r] = owner[r]
    BY <2>1, <2>2 DEF TypeInv, TypeOK, WireOK
  <2> QED
    BY <2>2 DEF OwnersStand
<1>3. ASSUME NEW r \in Resources, OwnerAdvances(r)
      PROVE  OwnersStand
  BY <1>3 DEF OwnerAdvances, OwnersStand, TypeInv, TypeOK, WireOK
<1> QED
  BY <1>1, <1>2, <1>3
     DEF Next, vars, wire, BeginSubmit, SubmitStep, LookupKey, TakeFence, InsertClaim, Post, GiveUp,
         Finalize, BeginRecovery, RecoveryStep, ReadOwner, Reconcile, PersistHistory, Crash,
         Network, OwnerRefuses, LoseRequest, AuthorityLapses, OperatorResolves, LeaseExpires,
         Lifecycle, CountForErasure, ApplyErasure, ApplyHold, ReleaseHold, Purge

\* An acceptance a call is about to record is the owner's.
AcceptedInv == \A c \in SubmitCalls, r \in Resources :
    call[c].pc = "finalize" /\ call[c].answer = "accepted" /\ call[c].resource = r =>
        owner[r].decision = "accepted"

LEMMA AcceptedNext ==
    ASSUME IInv, AcceptedInv, [Next]_vars
    PROVE  AcceptedInv'
<1>1. TypeInv /\ OwnersStand
  BY StandNext DEF IInv
<1>2. ASSUME \A d \in Calls : Goes(call[d], call'[d])
      PROVE  AcceptedInv'
  <2> SUFFICES ASSUME NEW c \in SubmitCalls, NEW r \in Resources, call'[c].pc = "finalize",
                      call'[c].answer = "accepted", call'[c].resource = r
               PROVE  owner'[r].decision = "accepted"
    BY DEF AcceptedInv
  <2>1. call'[c] = call[c]
    BY <1>2, Constants DEF Goes
  <2>2. owner[r].decision = "accepted"
    BY <2>1 DEF AcceptedInv
  <2> QED
    BY <1>1, <2>2 DEF OwnersStand
<1>3. CASE UNCHANGED call
  BY <1>2, <1>3 DEF Goes, Keeps
<1>4. ASSUME NEW c \in SubmitCalls, NEW new, call' = [call EXCEPT ![c] = new],
             new.pc = "finalize" /\ new.answer = "accepted" =>
                 \A r \in Resources : new.resource = r => owner'[r].decision = "accepted"
      PROVE  AcceptedInv'
  <2> SUFFICES ASSUME NEW d \in SubmitCalls, NEW r \in Resources, call'[d].pc = "finalize",
                      call'[d].answer = "accepted", call'[d].resource = r
               PROVE  owner'[r].decision = "accepted"
    BY DEF AcceptedInv
  <2>1. CASE d = c
    <3>1. call'[d] = new
      BY <1>1, <1>4, <2>1, Constants DEF TypeInv, TypeOK
    <3> QED
      BY <1>4, <3>1
  <2>2. CASE d # c
    <3>1. call'[d] = call[d]
      BY <1>1, <1>4, <2>2, Constants DEF TypeInv, TypeOK
    <3>2. owner[r].decision = "accepted"
      BY <3>1 DEF AcceptedInv
    <3> QED
      BY <1>1, <3>2 DEF OwnersStand
  <2> QED
    BY <2>1, <2>2
<1>5. ASSUME NEW c \in SubmitCalls, NEW n \in 1 .. MaxTries, OwnerServes(c, n)
      PROVE  AcceptedInv'
  <2>1. PICK answer \in {"accepted", "rejected"} :
          /\ owner[call[c].resource].decision \in {"none", answer}
          /\ owner' = [owner EXCEPT ![call[c].resource] =
                IF @.decision = "none" /\ (answer = "accepted" \/ call[c].resource \in AdviseIntents)
                THEN [decision |-> answer, version |-> 1] ELSE @]
          /\ \/ \E version : Hear(c, answer, version)
             \/ UNCHANGED call
    BY <1>5 DEF OwnerServes
  <2>2. ASSUME NEW version, Hear(c, answer, version)
        PROVE  AcceptedInv'
    <3> DEFINE new == [call[c] EXCEPT !.pc = "finalize", !.answer = answer, !.version = version]
    <3>1. call[c] \in CallType
      BY <1>1, Constants DEF TypeInv, TypeOK
    <3>2. new.resource = call[c].resource /\ new.answer = answer
      BY <3>1 DEF CallType
    <3>3. ASSUME NEW r \in Resources, call[c].resource = r, answer = "accepted"
          PROVE  owner'[r].decision = "accepted"
      BY <1>1, <2>1, <3>3 DEF TypeInv, TypeOK, WireOK
    <3>4. call' = [call EXCEPT ![c] = new]
      BY <2>2 DEF Hear
    <3> HIDE DEF new
    <3> QED
      BY <1>4, <3>2, <3>3, <3>4
  <2> QED
    BY <1>3, <2>1, <2>2
<1>6. ASSUME NEW c \in SubmitCalls, NEW n \in 1 .. MaxTries, OwnerRefuses(c, n)
      PROVE  AcceptedInv'
  <2> DEFINE refused == [call[c] EXCEPT !.pc = "finalize", !.answer = "refused", !.version = 0]
             again == [call[c] EXCEPT !.pc = "post"]
  <2>1. call[c] \in CallType
    BY <1>1, Constants DEF TypeInv, TypeOK
  <2>2. refused.answer # "accepted" /\ again.pc # "finalize"
    BY <2>1 DEF CallType
  <2>3. \/ call' = [call EXCEPT ![c] = refused]
        \/ call' = [call EXCEPT ![c] = again]
        \/ UNCHANGED call
    BY <1>6 DEF OwnerRefuses, Hear
  <2> HIDE DEF refused, again
  <2> QED
    BY <1>3, <1>4, <2>2, <2>3
<1>7. CASE ~Network
  BY <1>1, <1>2, <1>7, CallsGo
<1>8. ASSUME NEW c \in SubmitCalls, NEW n \in 1 .. MaxTries, LoseRequest(c, n)
      PROVE  UNCHANGED call
  BY <1>8 DEF LoseRequest
<1> QED
  BY <1>3, <1>5, <1>6, <1>7, <1>8 DEF Network

\* What a row says that is final at its owner.
Says(by, says, r) ==
    /\ by \in {"adapter", "recovery"} /\ says = "accepted" => owner[r].decision = "accepted"
    /\ by = "recovery" /\ says = "rejected" => owner[r].decision = "rejected"

RowsSay == \A k \in Rows, r \in Resources : subject[k] = r => Says(author[k], posture[k], r)

LEMMA SaysStays ==
    ASSUME OwnersStand, NEW by, NEW says, NEW r \in Resources, Says(by, says, r)
    PROVE  Says(by, says, r)'
BY DEF OwnersStand, Says

LEMMA RowsSayNext ==
    ASSUME IInv, AcceptedInv, ReadInv, KnownInv, RowsSay, [Next]_vars
    PROVE  RowsSay'
<1> SUFFICES ASSUME NEW k \in Keys, NEW r \in Resources, NEW by, NEW says,
                    posture'[k] # "absent", subject'[k] = r,
                    by = author'[k], says = posture'[k]
             PROVE  Says(by, says, r)'
  BY DEF RowsSay, Rows, Says
<1>1. RowStep /\ OwnersStand
  BY RowSteps, StandNext DEF IInv
<1>2. CASE /\ posture'[k] = posture[k] /\ subject'[k] = subject[k] /\ author'[k] = author[k]
  BY <1>1, <1>2, SaysStays DEF RowsSay, Rows
<1>3. ASSUME NEW j, NEW writer, NEW what, Recorded(j, writer, what)
      PROVE  \/ /\ posture'[k] = posture[k] /\ subject'[k] = subject[k]
                /\ author'[k] = author[k]
             \/ j = k /\ by = writer /\ says = what /\ subject[k] = r /\ k \in Rows
  BY <1>3 DEF Recorded, Rows
<1>4. ASSUME NEW c \in SubmitCalls, NEW j \in Keys, Inserted(c, j)
      PROVE  Says(by, says, r)'
  BY <1>2, <1>4 DEF Inserted, Says
<1>5. ASSUME NEW c \in SubmitCalls, call[c].pc = "finalize",
             Recorded(call[c].key, "adapter", FinalPosture(call[c].answer))
      PROVE  Says(by, says, r)'
  <2>1. CASE /\ call[c].key = k /\ by = "adapter" /\ says = FinalPosture(call[c].answer)
             /\ subject[k] = r
    <3>1. call[c].resource = r
      BY <1>5, <2>1 DEF KnownInv, Submitting
    <3>2. says = "accepted" => call[c].answer = "accepted"
      BY <2>1 DEF FinalPosture
    <3>3. says = "accepted" => owner[r].decision = "accepted"
      BY <1>5, <3>1, <3>2 DEF AcceptedInv
    <3> QED
      BY <1>1, <2>1, <3>3 DEF OwnersStand, Says
  <2> QED
    BY <1>2, <1>3, <1>5, <2>1
<1>6. ASSUME NEW j \in Keys, NEW what, Recorded(j, "operator", what)
      PROVE  Says(by, says, r)'
  BY <1>2, <1>3, <1>6 DEF Says
<1>7. ASSUME NEW c \in RecoveryCalls, call[c].pc = "reconcile",
             Recorded(call[c].key, "recovery", call[c].answer)
      PROVE  Says(by, says, r)'
  <2>1. CASE /\ call[c].key = k /\ by = "recovery" /\ says = call[c].answer
             /\ subject[k] = r /\ k \in Rows
    <3>1. call[c].resource = r
      BY <1>7, <2>1 DEF KnownInv, Reading
    <3>2. says = owner[r].decision /\ owner[r].decision # "none"
      BY <1>7, <2>1, <3>1 DEF ReadInv
    <3>3. owner'[r].decision = says
      BY <1>1, <3>2 DEF OwnersStand
    <3> QED
      BY <3>3 DEF Says
  <2> QED
    BY <1>2, <1>3, <1>7, <2>1
<1>8. CASE Purge
  BY <1>8 DEF Purge
<1> QED
  BY <1>1, <1>2, <1>4, <1>5, <1>6, <1>7, <1>8 DEF RowStep

\* Work on record as accepted is accepted by its owner, and work a recovery
\* recorded as rejected is rejected there.
FinalWordIsTheOwners ==
    \A k \in Rows :
        /\ author[k] \in {"adapter", "recovery"} /\ posture[k] = "accepted" =>
              owner[subject[k]].decision = "accepted"
        /\ author[k] = "recovery" /\ posture[k] = "rejected" =>
              owner[subject[k]].decision = "rejected"

\* However often a client tries (retry_max_attempts): of what
\* PostureIsTheOwnersWord says for one try, all but the rejection that the
\* client itself heard, which another of its tries may have overtaken.
THEOREM AcceptancesAreTheOwners == Spec => []FinalWordIsTheOwners
<1> DEFINE Inv == AcceptedInv /\ ReadInv /\ KnownInv /\ RowsSay
<1>1. Init => Inv
  <2> SUFFICES ASSUME Init PROVE Inv
    OBVIOUS
  <2>1. \A c \in Calls : call[c].pc = "idle"
    BY DEF Init, NoCall, Begun
  <2>2. AcceptedInv /\ ReadInv
    BY <2>1, Constants DEF AcceptedInv, ReadInv
  <2>3. Rows = {}
    BY DEF Init, Rows
  <2>4. KnownInv /\ RowsSay
    BY <2>1, <2>3, Constants DEF KnownInv, RowsSay, Submitting, Reading
  <2> QED
    BY <2>2, <2>4
<1>2. IInv /\ Inv /\ [Next]_vars => Inv'
  BY AcceptedNext, StandNext, ReadNext, KnownNext, RowsSayNext DEF IInv
<1>3. IInv /\ Inv => FinalWordIsTheOwners
  <2> SUFFICES ASSUME IInv, Inv, NEW k \in Rows
               PROVE  /\ author[k] \in {"adapter", "recovery"} /\ posture[k] = "accepted" =>
                            owner[subject[k]].decision = "accepted"
                      /\ author[k] = "recovery" /\ posture[k] = "rejected" =>
                            owner[subject[k]].decision = "rejected"
    BY DEF FinalWordIsTheOwners
  <2>1. PICK r \in Resources : r = subject[k]
    BY DEF IInv, TypeInv, TypeOK, RowsOK
  <2> QED
    BY <2>1 DEF RowsSay, Says
<1> HIDE DEF Inv
<1> QED
  BY <1>1, <1>2, <1>3, Invariance, PTL DEF Spec
=============================================================================
