----------------------- MODULE OutboxDelivery_proofs -----------------------
(***************************************************************************)
(* Proofs about OutboxDelivery, for any number of events, calls and keys,  *)
(* any lease, backoff and clock skew.                                      *)
(***************************************************************************)
EXTENDS OutboxDelivery, FiniteSetTheorems, TLAPS

-----------------------------------------------------------------------------
(* What the four ways of writing a row make of it.                         *)

\* Leasing any set of rows under some key leaves well-formed rows.
LEMMA LeaseRows ==
    ASSUME RowsOK, NEW S \in SUBSET Events, NEW key \in Keys, NEW until \in Nat,
           Lease(S, key, until)
    PROVE  RowsOK'
BY DEF RowsOK, Lease, Statuses

\* Marking a leased row published leaves well-formed rows.
LEMMA MarkPublishedRows ==
    ASSUME RowsOK, NEW e \in Events, status[e] = "leased", MarkPublished(e)
    PROVE  RowsOK'
BY DEF RowsOK, MarkPublished, Statuses

\* The backoff is a number of ticks whatever the power of two comes to.
LEMMA RetryDelayType ==
    ASSUME NEW n \in Nat
    PROVE  RetryDelay(n) \in Nat
BY OutboxAssumption DEF RetryDelay, OutboxAssumption

\* Marking a leased row failed leaves well-formed rows.
LEMMA MarkFailedRows ==
    ASSUME RowsOK, NEW e \in Events, status[e] = "leased",
           NEW at \in Nat, NEW limit \in Nat, MarkFailed(e, at, limit)
    PROVE  RowsOK'
<1> DEFINE n == retries[e] + 1
<1>1. n \in Nat
  BY DEF RowsOK
<1>2. at + RetryDelay(n) \in Nat
  BY <1>1, RetryDelayType
<1> QED
  BY <1>1, <1>2 DEF RowsOK, MarkFailed, Statuses

\* So whatever a call writes down of the answer it got.
LEMMA RecordOutcomeRows ==
    ASSUME TypeOK, NEW c \in Calls, call[c].pc = "mark", RecordOutcome(c)
    PROVE  RowsOK'
<1> DEFINE me == call[c]
<1>1. me.sending \in Events /\ me.at \in Nat /\ me.limit \in Nat
  BY DEF TypeOK, CallOK, CallType, Running
<1>2. RowsOK
  BY DEF TypeOK
<1>3. CASE Owns(me.sending, me.key) /\ MarkPublished(me.sending)
  BY <1>1, <1>2, <1>3, MarkPublishedRows DEF Owns
<1>4. CASE Owns(me.sending, me.key) /\ MarkFailed(me.sending, me.at, me.limit)
  BY <1>1, <1>2, <1>4, MarkFailedRows DEF Owns
<1>5. CASE UNCHANGED row
  BY <1>2, <1>5 DEF RowsOK, row
<1> QED
  BY <1>3, <1>4, <1>5 DEF RecordOutcome

\* A call that is over is a well-formed call that is not running.
LEMMA OverType ==
    ASSUME TypeOK, NEW c \in Calls, NEW pc \in {"done", "crashed"}
    PROVE  Over(c, pc) \in CallType /\ Over(c, pc).pc \notin Running
BY DEF TypeOK, CallType, Over, Begun, Running

\* A step of call c replaces its record and touches no other call.
LEMMA CallsStep ==
    ASSUME TypeOK, NEW c \in Calls, NEW new \in CallType,
           call' = [call EXCEPT ![c] = new],
           new.pc \in Running =>
             /\ c \in DeliveryCalls => new.key \in DeliveryKeys
             /\ c \in RecoveryCalls => /\ new.key \in RecoveryKeys
                                       /\ new.target \in Events
             /\ new.pc = "mark" => new.sending \in Events
    PROVE  call' \in [Calls -> CallType] /\ \A d \in Calls : CallOK(d)'
BY DEF TypeOK, CallOK

\* The end of a call, whatever ended it.
LEMMA CallsOver ==
    ASSUME TypeOK, NEW c \in Calls, NEW pc \in {"done", "crashed"},
           call' = [call EXCEPT ![c] = Over(c, pc)]
    PROVE  call' \in [Calls -> CallType] /\ \A d \in Calls : CallOK(d)'
BY OverType, CallsStep

-----------------------------------------------------------------------------
(* Type correctness.                                                       *)

LEMMA TypeOKInit == Init => TypeOK
<1> SUFFICES ASSUME Init PROVE TypeOK
  OBVIOUS
<1>1. NoCall \in CallType /\ NoCall.pc \notin Running
  BY DEF Begun, NoCall, CallType, Running
<1>2. RowsOK
  BY DEF Init, RowsOK, Statuses
<1>3. call \in [Calls -> CallType] /\ \A c \in Calls : CallOK(c)
  BY <1>1 DEF Init, CallOK
<1> QED
  BY <1>2, <1>3, OutboxAssumption DEF Init, TypeOK, OutboxAssumption

LEMMA TypeOKBeginRun ==
    ASSUME TypeOK, NEW c \in DeliveryCalls, BeginRun(c)
    PROVE  TypeOK'
<1>1. PICK key \in DeliveryKeys, limit \in RetryLimits, at \in DeliveryTimes :
         \/ /\ runRequest' = [runRequest EXCEPT ![key] = limit]
            /\ call' = [call EXCEPT ![c] = Begun("claim", key, None, at, limit)]
         \/ /\ call' = [call EXCEPT ![c] = Over(c, "done")]
            /\ UNCHANGED runRequest
  BY DEF BeginRun
<1> DEFINE new == Begun("claim", key, None, at, limit)
<1>2. /\ new \in CallType
      /\ new.pc = "claim" /\ new.key = key
  BY OutboxAssumption
     DEF Begun, NoCall, CallType, Keys, Running, DeliveryTimes, OutboxAssumption
<1>3. c \in Calls /\ c \notin RecoveryCalls
  BY OutboxAssumption DEF Calls, OutboxAssumption
<1>4. /\ call' \in [Calls -> CallType]
      /\ \A d \in Calls : CallOK(d)'
  <2>1. CASE call' = [call EXCEPT ![c] = new]
    BY <1>2, <1>3, <2>1, CallsStep
  <2>2. CASE call' = [call EXCEPT ![c] = Over(c, "done")]
    BY <1>3, <2>2, CallsOver
  <2> QED
    BY <1>1, <2>1, <2>2
<1>5. runRequest' \in [DeliveryKeys -> RetryLimits \cup {None}]
  BY <1>1 DEF TypeOK
<1>6. RowsOK'
  BY DEF BeginRun, TypeOK, RowsOK, row
<1> QED
  BY <1>4, <1>5, <1>6 DEF BeginRun, TypeOK, broker

LEMMA TypeOKClaimBatch ==
    ASSUME TypeOK, NEW c \in DeliveryCalls, ClaimBatch(c)
    PROVE  TypeOK'
<1> DEFINE me == call[c]
           Selected(locked) ==
               OldestOf({e \in Events : Ready(e, me.at, me.limit)} \ locked,
                        BatchLimit)
<1>1. PICK locked : /\ Lease(Selected(locked), me.key, me.at + LeaseDuration)
                    /\ call' = [call EXCEPT ![c] =
                          IF Selected(locked) = {} THEN Over(c, "done")
                          ELSE [me EXCEPT !.pc = "publish",
                                          !.todo = Selected(locked)]]
  BY DEF ClaimBatch
<1>2. c \in Calls /\ c \notin RecoveryCalls
  BY OutboxAssumption DEF Calls, OutboxAssumption
<1>3. /\ me \in CallType
      /\ me.pc = "claim" /\ me.key \in DeliveryKeys /\ me.key \in Keys
  BY <1>2 DEF TypeOK, CallOK, ClaimBatch, Running, Keys
<1>4. Selected(locked) \in SUBSET Events
  BY DEF OldestOf
<1>5. me.at + LeaseDuration \in Nat
  BY <1>3, OutboxAssumption DEF CallType, OutboxAssumption
<1>6. RowsOK'
  BY <1>1, <1>3, <1>4, <1>5, LeaseRows DEF TypeOK
<1> HIDE DEF Selected
<1>7. call' \in [Calls -> CallType] /\ \A d \in Calls : CallOK(d)'
  <2>1. CASE Selected(locked) = {}
    BY <1>1, <1>2, <2>1, CallsOver
  <2>2. CASE Selected(locked) # {}
    <3> DEFINE new == [me EXCEPT !.pc = "publish", !.todo = Selected(locked)]
    <3>1. /\ new \in CallType
          /\ new.pc = "publish" /\ new.key = me.key
      BY <1>3, <1>4 DEF CallType, Running
    <3>2. call' = [call EXCEPT ![c] = new]
      BY <1>1, <2>2
    <3> QED
      BY <1>2, <1>3, <3>1, <3>2, CallsStep
  <2> QED
    BY <2>1, <2>2
<1> QED
  BY <1>6, <1>7 DEF ClaimBatch, TypeOK, broker

LEMMA TypeOKPublish ==
    ASSUME TypeOK, NEW c \in Calls, Publish(c)
    PROVE  TypeOK'
<1> DEFINE me == call[c]
<1>1. PICK e \in me.todo, ok \in BOOLEAN :
         /\ call' = [call EXCEPT ![c] =
               [me EXCEPT !.pc = "mark", !.sending = e, !.accepted = ok]]
         /\ acked' = IF ok THEN [acked EXCEPT ![e] = @ \cup {me.key}] ELSE acked
         /\ nacked' = IF ok THEN nacked
                            ELSE [nacked EXCEPT ![e] = @ \cup {me.key}]
  BY DEF Publish
<1> DEFINE new == [me EXCEPT !.pc = "mark", !.sending = e, !.accepted = ok]
<1>2. me \in CallType /\ CallOK(c) /\ me.pc = "publish" /\ e \in Events
  BY DEF TypeOK, CallType, Publish
<1>3. c \in DeliveryCalls \/ c \in RecoveryCalls
  BY DEF Calls
<1>4. me.key \in Keys
  BY <1>2, <1>3 DEF CallOK, Running, Keys
<1>5. /\ new \in CallType
      /\ new.key = me.key /\ new.target = me.target /\ new.sending = e
  BY <1>2 DEF CallType, Running
<1>6. call' \in [Calls -> CallType] /\ \A d \in Calls : CallOK(d)'
  BY <1>1, <1>2, <1>5, CallsStep DEF CallOK, Running
<1>7. acked' \in [Events -> SUBSET Keys] /\ nacked' \in [Events -> SUBSET Keys]
  BY <1>1, <1>2, <1>4 DEF TypeOK
<1>8. RowsOK'
  BY DEF Publish, TypeOK, RowsOK, row
<1> QED
  BY <1>6, <1>7, <1>8 DEF Publish, TypeOK

LEMMA TypeOKMarkDelivery ==
    ASSUME TypeOK, NEW c \in DeliveryCalls, MarkDelivery(c)
    PROVE  TypeOK'
<1> DEFINE me == call[c]
           rest == me.todo \ {me.sending}
           new == [me EXCEPT !.pc = "publish", !.todo = rest, !.sending = None]
<1>1. c \in Calls /\ c \notin RecoveryCalls
  BY OutboxAssumption DEF Calls, OutboxAssumption
<1>2. RowsOK'
  BY <1>1, RecordOutcomeRows DEF MarkDelivery
<1>3. call' \in [Calls -> CallType] /\ \A d \in Calls : CallOK(d)'
  <2>1. CASE rest = {}
    <3>1. call' = [call EXCEPT ![c] = Over(c, "done")]
      BY <2>1 DEF MarkDelivery
    <3> QED
      BY <1>1, <3>1, CallsOver
  <2>2. CASE rest # {}
    <3>1. call' = [call EXCEPT ![c] = new]
      BY <2>2 DEF MarkDelivery
    <3>2. me \in CallType /\ me.key \in DeliveryKeys
      BY <1>1 DEF TypeOK, CallOK, MarkDelivery, Running
    <3>3. new \in CallType /\ new.pc = "publish" /\ new.key = me.key
      BY <3>2 DEF CallType, Running
    <3> QED
      BY <1>1, <3>1, <3>2, <3>3, CallsStep
  <2> QED
    BY <2>1, <2>2
<1> QED
  BY <1>2, <1>3 DEF MarkDelivery, TypeOK, broker

LEMMA TypeOKBeginRecovery ==
    ASSUME TypeOK, NEW c \in RecoveryCalls, BeginRecovery(c)
    PROVE  TypeOK'
<1>1. PICK key \in RecoveryKeys, e \in Events :
         call' = [call EXCEPT ![c] = Begun("lookup", key, e, now, 0)]
  BY DEF BeginRecovery
<1> DEFINE new == Begun("lookup", key, e, now, 0)
<1>2. c \in Calls /\ c \notin DeliveryCalls
  BY OutboxAssumption DEF Calls, OutboxAssumption
<1>3. now \in Nat
  BY OutboxAssumption DEF TypeOK, OutboxAssumption
<1>4. /\ new \in CallType
      /\ new.pc = "lookup" /\ new.key = key /\ new.target = e
  BY <1>3 DEF Begun, CallType, Keys, Running
<1>5. call' \in [Calls -> CallType] /\ \A d \in Calls : CallOK(d)'
  BY <1>1, <1>2, <1>4, CallsStep
<1> QED
  BY <1>5 DEF BeginRecovery, TypeOK, RowsOK, row, broker

\* What a re-drive knows between its first and its last transaction.
LEMMA RecoveryKnows ==
    ASSUME TypeOK, NEW c \in RecoveryCalls, call[c].pc \in Running
    PROVE  /\ c \in Calls /\ c \notin DeliveryCalls
           /\ call[c] \in CallType
           /\ call[c].key \in RecoveryKeys /\ call[c].key \in Keys
           /\ call[c].target \in Events
BY OutboxAssumption DEF TypeOK, CallOK, Calls, Keys, OutboxAssumption

\* An answered re-drive is over and has a run_status.
LEMMA AnswerTypes ==
    ASSUME TypeOK, NEW c \in RecoveryCalls, NEW r \in Results, Answer(c, r)
    PROVE  /\ call' \in [Calls -> CallType] /\ \A d \in Calls : CallOK(d)'
           /\ result' \in [RecoveryCalls -> Results \cup {None}]
<1>1. c \in Calls
  BY DEF Calls
<1> QED
  BY <1>1, CallsOver DEF Answer, TypeOK

LEMMA TypeOKLookupRecovery ==
    ASSUME TypeOK, NEW c \in RecoveryCalls, LookupRecovery(c)
    PROVE  TypeOK'
<1> DEFINE new == [call[c] EXCEPT !.pc = "claim"]
<1>1. /\ call' \in [Calls -> CallType] /\ \A d \in Calls : CallOK(d)'
      /\ result' \in [RecoveryCalls -> Results \cup {None}]
  <2>1. CASE \E r \in {"replayed", "conflict"} : Answer(c, r)
    <3>1. PICK r \in {"replayed", "conflict"} : Answer(c, r)
      BY <2>1
    <3>2. r \in Results
      BY DEF Results
    <3> QED
      BY <3>1, <3>2, AnswerTypes
  <2>2. CASE call' = [call EXCEPT ![c] = new] /\ UNCHANGED result
    <3>1. call[c].pc \in Running
      BY DEF LookupRecovery, Running
    <3>2. /\ new \in CallType /\ new.pc = "claim"
          /\ new.key = call[c].key /\ new.target = call[c].target
      BY <3>1, RecoveryKnows DEF CallType, Running
    <3>3. call' \in [Calls -> CallType] /\ \A d \in Calls : CallOK(d)'
      BY <2>2, <3>1, <3>2, RecoveryKnows, CallsStep
    <3> QED
      BY <2>2, <3>3 DEF TypeOK
  <2> QED
    BY <2>1, <2>2 DEF LookupRecovery
<1> QED
  BY <1>1 DEF LookupRecovery, TypeOK, RowsOK, row, broker

LEMMA TypeOKClaimDeadLetter ==
    ASSUME TypeOK, NEW c \in RecoveryCalls, ClaimDeadLetter(c)
    PROVE  TypeOK'
<1> DEFINE me == call[c]
           e == me.target
           CallsFine == call' \in [Calls -> CallType] /\ \A d \in Calls : CallOK(d)'
<1>1. /\ me.pc \in Running /\ me.pc = "claim"
      /\ RowsOK /\ retries[e] + 1 \in Nat /\ me.at + LeaseDuration \in Nat
  <2>1. me.pc \in Running /\ me.pc = "claim"
    BY DEF ClaimDeadLetter, Running
  <2>2. me \in CallType /\ e \in Events
    BY <2>1, RecoveryKnows
  <2>3. me.at + LeaseDuration \in Nat
    BY <2>2, OutboxAssumption DEF CallType, OutboxAssumption
  <2> QED
    BY <2>1, <2>2, <2>3 DEF TypeOK, RowsOK
<1>2. CASE RejectRecovery(c, e)
  <2>1. PICK r \in {"not_found", "lease_lost", "quarantined"} : Answer(c, r)
    BY <1>2 DEF RejectRecovery
  <2>2. r \in Results
    BY DEF Results
  <2>3. CallsFine /\ result' \in [RecoveryCalls -> Results \cup {None}]
    BY <2>1, <2>2, AnswerTypes
  <2> QED
    BY <1>2, <2>3 DEF RejectRecovery, ClaimDeadLetter, TypeOK, RowsOK, row, broker
<1>3. CASE AcceptRecovery(c, e)
  <2>1. CASE /\ audit' = audit \cup {[event |-> e, key |-> me.key]}
             /\ Lease({e}, me.key, me.at + LeaseDuration)
             /\ call' = [call EXCEPT ![c] = [me EXCEPT !.pc = "publish",
                             !.todo = {e}, !.limit = retries[e] + 1]]
    <3> DEFINE new == [me EXCEPT !.pc = "publish", !.todo = {e},
                                 !.limit = retries[e] + 1]
    <3>1. /\ new \in CallType /\ new.pc = "publish"
          /\ new.key = me.key /\ new.target = me.target
      BY <1>1, RecoveryKnows DEF CallType, Running
    <3>2. CallsFine
      BY <1>1, <2>1, <3>1, RecoveryKnows, CallsStep
    <3>3. RowsOK'
      <4>1. {e} \in SUBSET Events /\ me.key \in Keys
        BY <1>1, RecoveryKnows
      <4> QED
        BY <1>1, <2>1, <4>1, LeaseRows
    <3>4. audit' \subseteq [event : Events, key : RecoveryKeys]
      BY <1>1, <2>1, RecoveryKnows DEF TypeOK
    <3> QED
      BY <1>3, <3>2, <3>3, <3>4 DEF AcceptRecovery, ClaimDeadLetter, TypeOK, broker
  <2>2. CASE call' = [call EXCEPT ![c] = Over(c, "crashed")] /\ UNCHANGED <<audit, row>>
    <3>1. CallsFine
      BY <1>1, <2>2, RecoveryKnows, CallsOver
    <3> QED
      BY <1>3, <2>2, <3>1
         DEF AcceptRecovery, ClaimDeadLetter, TypeOK, RowsOK, row, broker
  <2> QED
    BY <1>3, <2>1, <2>2 DEF AcceptRecovery
<1> QED
  BY <1>2, <1>3 DEF ClaimDeadLetter

LEMMA TypeOKMarkRecovery ==
    ASSUME TypeOK, NEW c \in RecoveryCalls, MarkRecovery(c)
    PROVE  TypeOK'
<1>1. c \in Calls
  BY DEF Calls
<1>2. RowsOK'
  BY <1>1, RecordOutcomeRows DEF MarkRecovery
<1>3. call' \in [Calls -> CallType] /\ \A d \in Calls : CallOK(d)'
  BY <1>1, CallsOver DEF MarkRecovery
<1>4. result' \in [RecoveryCalls -> Results \cup {None}]
  <2>1. RecoveryStatus(c) \in {"published", "dead_lettered", "lease_lost"}
    BY DEF RecoveryStatus
  <2> QED
    BY <2>1 DEF MarkRecovery, TypeOK, Results
<1> QED
  BY <1>2, <1>3, <1>4 DEF MarkRecovery, TypeOK, broker

LEMMA TypeOKCrash ==
    ASSUME TypeOK, NEW c \in Calls, Crash(c)
    PROVE  TypeOK'
<1>1. call' \in [Calls -> CallType] /\ \A d \in Calls : CallOK(d)'
  BY CallsOver DEF Crash
<1> QED
  BY <1>1 DEF Crash, TypeOK, RowsOK, row, broker

LEMMA TypeOKNext == TypeOK /\ [Next]_vars => TypeOK'
<1> SUFFICES ASSUME TypeOK, [Next]_vars PROVE TypeOK'
  OBVIOUS
<1>1. CASE Tick
  BY <1>1, OutboxAssumption
     DEF Tick, TypeOK, RowsOK, CallOK, row, broker, OutboxAssumption
<1>2. CASE \E e \in Events : AppendEvent(e)
  BY <1>2 DEF AppendEvent, TypeOK, RowsOK, CallOK, Statuses, broker
<1>3. ASSUME NEW c \in DeliveryCalls, BeginRun(c) \/ RunStep(c)
      PROVE  TypeOK'
  <2>1. c \in Calls
    BY DEF Calls
  <2> QED
    BY <1>3, <2>1, TypeOKBeginRun, TypeOKClaimBatch, TypeOKPublish,
       TypeOKMarkDelivery DEF RunStep
<1>4. ASSUME NEW c \in RecoveryCalls, BeginRecovery(c) \/ RecoveryStep(c)
      PROVE  TypeOK'
  <2>1. c \in Calls
    BY DEF Calls
  <2> QED
    BY <1>4, <2>1, TypeOKBeginRecovery, TypeOKLookupRecovery,
       TypeOKClaimDeadLetter, TypeOKPublish, TypeOKMarkRecovery DEF RecoveryStep
<1>5. CASE \E c \in Calls : Crash(c)
  BY <1>5, TypeOKCrash
<1>6. CASE UNCHANGED vars
  BY <1>6 DEF vars, TypeOK, RowsOK, CallOK, row, broker
<1> QED
  BY <1>1, <1>2, <1>3, <1>4, <1>5, <1>6 DEF Next

\* The outbox rows keep the shape the record class demands, and every call in
\* progress knows what it needs for its next step, in every reachable state.
THEOREM TypeCorrect == Spec => []TypeOK
<1>1. Init => TypeOK
  BY TypeOKInit
<1>2. TypeOK /\ [Next]_vars => TypeOK'
  BY TypeOKNext
<1> QED
  BY <1>1, <1>2, PTL DEF Spec

-----------------------------------------------------------------------------
(* Fencing: what ends a lease is the outcome of the attempt that holds it. *)

\* A call that does not arrive at its mark keeps the answers known.
LEMMA NotMarking ==
    ASSUME TypeOK, AnswerKnown, NEW c \in Calls, NEW new,
           call' = [call EXCEPT ![c] = new], new.pc # "mark", UNCHANGED broker
    PROVE  AnswerKnown'
BY DEF TypeOK, AnswerKnown, broker

\* The broker's log only grows, and Publish is the one step to a mark.
LEMMA AnswerKnownNext == TypeOK /\ AnswerKnown /\ [Next]_vars => AnswerKnown'
<1> SUFFICES ASSUME TypeOK, AnswerKnown, [Next]_vars PROVE AnswerKnown'
  OBVIOUS
<1>1. CASE Tick \/ (\E e \in Events : AppendEvent(e)) \/ UNCHANGED vars
  <2>1. UNCHANGED <<call, broker>>
    BY <1>1 DEF Tick, AppendEvent, vars
  <2> QED
    BY <2>1 DEF AnswerKnown, broker
<1>2. ASSUME NEW c \in Calls, NEW pc \in {"done", "crashed"},
             call' = [call EXCEPT ![c] = Over(c, pc)], UNCHANGED broker
      PROVE  AnswerKnown'
  <2>1. Over(c, pc).pc # "mark"
    BY DEF Over, Begun
  <2> QED
    BY <1>2, <2>1, NotMarking
<1>3. ASSUME NEW c \in DeliveryCalls, BeginRun(c)
      PROVE  AnswerKnown'
  <2>1. PICK key, at, limit :
          \/ call' = [call EXCEPT ![c] = Begun("claim", key, None, at, limit)]
          \/ call' = [call EXCEPT ![c] = Over(c, "done")]
    BY <1>3 DEF BeginRun
  <2>2. Begun("claim", key, None, at, limit).pc # "mark"
    BY DEF Begun
  <2> QED
    BY <1>2, <1>3, <2>1, <2>2, NotMarking DEF BeginRun, Calls
<1>4. ASSUME NEW c \in RecoveryCalls, BeginRecovery(c)
      PROVE  AnswerKnown'
  <2>1. PICK key, e : call' = [call EXCEPT ![c] = Begun("lookup", key, e, now, 0)]
    BY <1>4 DEF BeginRecovery
  <2>2. Begun("lookup", key, e, now, 0).pc # "mark"
    BY DEF Begun
  <2> QED
    BY <1>4, <2>1, <2>2, NotMarking DEF BeginRecovery, Calls
<1>5. ASSUME NEW c \in DeliveryCalls, ClaimBatch(c)
      PROVE  AnswerKnown'
  <2>1. c \in Calls /\ call[c] \in CallType
    BY DEF TypeOK, Calls
  <2>2. PICK S : call' = [call EXCEPT ![c] =
                       IF S = {} THEN Over(c, "done")
                       ELSE [call[c] EXCEPT !.pc = "publish", !.todo = S]]
    BY <1>5 DEF ClaimBatch
  <2>3. [call[c] EXCEPT !.pc = "publish", !.todo = S].pc # "mark"
    BY <2>1 DEF CallType
  <2> QED
    BY <1>2, <1>5, <2>1, <2>2, <2>3, NotMarking DEF ClaimBatch
<1>6. ASSUME NEW c \in Calls, Publish(c)
      PROVE  AnswerKnown'
  <2>1. PICK e \in call[c].todo, ok \in BOOLEAN :
         /\ call' = [call EXCEPT ![c] =
               [call[c] EXCEPT !.pc = "mark", !.sending = e, !.accepted = ok]]
         /\ acked' = IF ok THEN [acked EXCEPT ![e] = @ \cup {call[c].key}]
                           ELSE acked
         /\ nacked' = IF ok THEN nacked
                            ELSE [nacked EXCEPT ![e] = @ \cup {call[c].key}]
    BY <1>6 DEF Publish
  <2>2. call[c] \in CallType /\ e \in Events
    BY DEF TypeOK, CallType
  <2>3. \A f \in Events : acked[f] \subseteq acked'[f] /\ nacked[f] \subseteq nacked'[f]
    BY <2>1, <2>2 DEF TypeOK
  <2>4. IF ok THEN call[c].key \in acked'[e] ELSE call[c].key \in nacked'[e]
    BY <2>1, <2>2 DEF TypeOK
  <2>5. ASSUME NEW d \in Calls, call'[d].pc = "mark"
        PROVE  IF call'[d].accepted THEN call'[d].key \in acked'[call'[d].sending]
                                    ELSE call'[d].key \in nacked'[call'[d].sending]
    <3>1. CASE d = c
      BY <2>1, <2>2, <2>4, <3>1 DEF TypeOK, CallType
    <3>2. CASE d # c
      <4>1. call'[d] = call[d] /\ call[d].pc = "mark" /\ call[d].sending \in Events
        BY <2>1, <2>5, <3>2 DEF TypeOK, CallOK, Running
      <4> QED
        BY <2>3, <4>1 DEF AnswerKnown
    <3> QED
      BY <3>1, <3>2
  <2> QED
    BY <2>5 DEF AnswerKnown
<1>7. ASSUME NEW c \in DeliveryCalls, MarkDelivery(c)
      PROVE  AnswerKnown'
  <2>1. c \in Calls /\ call[c] \in CallType
    BY DEF TypeOK, Calls
  <2>2. PICK S : call' = [call EXCEPT ![c] =
               IF S = {} THEN Over(c, "done")
               ELSE [call[c] EXCEPT !.pc = "publish", !.todo = S, !.sending = None]]
    BY <1>7 DEF MarkDelivery
  <2>3. [call[c] EXCEPT !.pc = "publish", !.todo = S, !.sending = None].pc # "mark"
    BY <2>1 DEF CallType
  <2> QED
    BY <1>2, <1>7, <2>1, <2>2, <2>3, NotMarking DEF MarkDelivery
<1>8. ASSUME NEW c \in RecoveryCalls, LookupRecovery(c) \/ ClaimDeadLetter(c)
      PROVE  AnswerKnown'
  <2>1. c \in Calls /\ call[c] \in CallType
    BY DEF TypeOK, Calls
  <2>2. /\ [call[c] EXCEPT !.pc = "claim"].pc # "mark"
        /\ \A S, n : [call[c] EXCEPT !.pc = "publish", !.todo = S, !.limit = n].pc
                        # "mark"
    BY <2>1 DEF CallType
  <2>3. UNCHANGED broker
    BY <1>8 DEF LookupRecovery, ClaimDeadLetter
  <2>4. \/ \E pc \in {"done", "crashed"} : call' = [call EXCEPT ![c] = Over(c, pc)]
        \/ call' = [call EXCEPT ![c] = [call[c] EXCEPT !.pc = "claim"]]
        \/ \E S, n : call' = [call EXCEPT ![c] =
              [call[c] EXCEPT !.pc = "publish", !.todo = S, !.limit = n]]
    BY <1>8 DEF LookupRecovery, ClaimDeadLetter, RejectRecovery, AcceptRecovery, Answer
  <2>5. CASE \E pc \in {"done", "crashed"} : call' = [call EXCEPT ![c] = Over(c, pc)]
    BY <1>2, <2>1, <2>3, <2>5
  <2>6. CASE call' = [call EXCEPT ![c] = [call[c] EXCEPT !.pc = "claim"]]
    BY <2>1, <2>2, <2>3, <2>6, NotMarking
  <2>7. CASE \E S, n : call' = [call EXCEPT ![c] =
              [call[c] EXCEPT !.pc = "publish", !.todo = S, !.limit = n]]
    <3>1. PICK S, n : call' = [call EXCEPT ![c] =
              [call[c] EXCEPT !.pc = "publish", !.todo = S, !.limit = n]]
      BY <2>7
    <3>2. [call[c] EXCEPT !.pc = "publish", !.todo = S, !.limit = n].pc # "mark"
      BY <2>2
    <3> QED
      BY <2>1, <2>3, <3>1, <3>2, NotMarking
  <2> QED
    BY <2>4, <2>5, <2>6, <2>7
<1>9. ASSUME NEW c \in RecoveryCalls, MarkRecovery(c)
      PROVE  AnswerKnown'
  BY <1>2, <1>9 DEF MarkRecovery, Calls
<1>10. ASSUME NEW c \in Calls, Crash(c)
       PROVE  AnswerKnown'
  BY <1>2, <1>10 DEF Crash
<1> QED
  BY <1>1, <1>3, <1>4, <1>5, <1>6, <1>7, <1>8, <1>9, <1>10
     DEF Next, RunStep, RecoveryStep, Calls

\* Recording an outcome ends at most the lease of the call's own attempt, and
\* ends it as the broker answered that attempt.
LEMMA RecordedIsAnswered ==
    ASSUME TypeOK, AnswerKnown, NEW c \in Calls, call[c].pc = "mark",
           RecordOutcome(c), NEW e \in Events, status[e] = "leased"
    PROVE  /\ status'[e] = "published" => leasedBy[e] \in acked[e]
           /\ status'[e] \in {"failed", "dead_letter"} => leasedBy[e] \in nacked[e]
<1> DEFINE me == call[c]
<1>1. /\ me.sending \in Events
      /\ IF me.accepted THEN me.key \in acked[me.sending]
                        ELSE me.key \in nacked[me.sending]
  BY DEF TypeOK, CallOK, Running, AnswerKnown
<1>2. CASE e # me.sending \/ UNCHANGED row
  <2>1. status'[e] = "leased"
    BY <1>1, <1>2
       DEF RecordOutcome, MarkPublished, MarkFailed, row, TypeOK, RowsOK
  <2> QED
    BY <2>1
<1>3. CASE e = me.sending /\ Owns(e, me.key) /\ me.accepted /\ MarkPublished(e)
  BY <1>1, <1>3 DEF MarkPublished, Owns, TypeOK, RowsOK
<1>4. CASE /\ e = me.sending /\ Owns(e, me.key) /\ ~me.accepted
           /\ MarkFailed(e, me.at, me.limit)
  BY <1>1, <1>4 DEF MarkFailed, Owns, TypeOK, RowsOK
<1> QED
  BY <1>2, <1>3, <1>4 DEF RecordOutcome

\* Every other step leaves a leased row leased or publishes nothing.
LEMMA LeaseEndsAtMark ==
    ASSUME TypeOK, [Next]_vars, NEW e \in Events, status[e] = "leased",
           status'[e] # "leased"
    PROVE  \E c \in Calls : call[c].pc = "mark" /\ RecordOutcome(c)
<1>1. ASSUME NEW S, NEW k, NEW t, Lease(S, k, t)
      PROVE  status'[e] = "leased"
  BY <1>1 DEF Lease
<1>2. CASE UNCHANGED row
  BY <1>2 DEF row
<1>3. CASE \E f \in Events : AppendEvent(f)
  BY <1>3 DEF AppendEvent, TypeOK, RowsOK
<1>4. ASSUME NEW c \in DeliveryCalls, ClaimBatch(c)
      PROVE  FALSE
  BY <1>1, <1>4 DEF ClaimBatch
<1>5. ASSUME NEW c \in RecoveryCalls, ClaimDeadLetter(c)
      PROVE  FALSE
  <2>0. PICK f : RejectRecovery(c, f) \/ AcceptRecovery(c, f)
    BY <1>5 DEF ClaimDeadLetter
  <2>1. UNCHANGED row \/ Lease({f}, call[c].key, call[c].at + LeaseDuration)
    BY <2>0 DEF RejectRecovery, AcceptRecovery
  <2> QED
    BY <1>1, <2>1 DEF row
<1> QED
  BY <1>2, <1>3, <1>4, <1>5
     DEF Next, RunStep, RecoveryStep, Tick, BeginRun, Publish, MarkDelivery,
         BeginRecovery, LookupRecovery, MarkRecovery, Crash, Calls, vars

\* A row is marked published only for the attempt that holds its lease and
\* that the broker accepted, failed or dead-lettered only for one it refused,
\* however slow the other attempts are and whatever clocks the callers use.
THEOREM OutcomeOfTheOwner == Spec => OutcomeBelongsToOwner
<1>1. Init => TypeOK /\ AnswerKnown
  BY TypeOKInit DEF Init, AnswerKnown, NoCall, Begun
<1>2. TypeOK /\ AnswerKnown /\ [Next]_vars => (TypeOK /\ AnswerKnown)'
  BY TypeOKNext, AnswerKnownNext
<1>3. TypeOK /\ AnswerKnown /\ [Next]_vars =>
        [\A e \in Events : status[e] = "leased" =>
           /\ status'[e] = "published" => leasedBy[e] \in acked[e]
           /\ status'[e] \in {"failed", "dead_letter"} => leasedBy[e] \in nacked[e]]_vars
  <2> SUFFICES ASSUME TypeOK, AnswerKnown, [Next]_vars, NEW e \in Events,
                      status[e] = "leased"
               PROVE  /\ status'[e] = "published" => leasedBy[e] \in acked[e]
                      /\ status'[e] \in {"failed", "dead_letter"} =>
                            leasedBy[e] \in nacked[e]
    OBVIOUS
  <2>1. CASE status'[e] = "leased"
    BY <2>1
  <2>2. CASE status'[e] # "leased"
    BY <2>2, LeaseEndsAtMark, RecordedIsAnswered
  <2> QED
    BY <2>1, <2>2
<1> QED
  BY <1>1, <1>2, <1>3, PTL DEF Spec, OutcomeBelongsToOwner

-----------------------------------------------------------------------------
(* Whose key a key is.  A delivery key is in one call's hands from the     *)
(* moment it is recorded, a re-drive's from the moment its audit record is *)
(* written; whoever has been refused had its key by then.                  *)

Holding(c) ==
    /\ call[c].pc \in Running
    /\ c \in RecoveryCalls => call[c].pc \in {"publish", "mark"}

KeysRecorded ==
    /\ \A c \in DeliveryCalls : Holding(c) =>
          runRequest[call[c].key] # None /\ call[c].limit \in RetryLimits
    /\ \A c \in RecoveryCalls : Holding(c) => \E r \in audit : r.key = call[c].key

KeysApart ==
    \A c, d \in Calls : c # d /\ Holding(c) /\ Holding(d) => call[c].key # call[d].key

RefusalsRecorded ==
    \A e \in Events : \A k \in nacked[e] :
        /\ k \in DeliveryKeys =>
             /\ runRequest[k] # None
             /\ \A c \in DeliveryCalls : call[c].pc = "claim" => call[c].key # k
        /\ k \in RecoveryKeys => \E r \in audit : r.key = k

KeysInv == KeysRecorded /\ KeysApart /\ RefusalsRecorded

\* A call that is over, or a re-drive not yet granted, holds no key.
LEMMA KeysNotHeld ==
    ASSUME TypeOK, KeysInv, NEW c \in Calls, NEW new,
           call' = [call EXCEPT ![c] = new],
           new.pc \in Running => c \notin DeliveryCalls /\ new.pc \notin {"publish", "mark"},
           UNCHANGED <<runRequest, audit, nacked>>
    PROVE  KeysInv'
<1>1. ~Holding(c)'
  BY DEF Holding, TypeOK, Calls
<1>2. \A d \in Calls : d # c => call'[d] = call[d] /\ (Holding(d)' <=> Holding(d))
  BY DEF Holding, TypeOK
<1>3. KeysRecorded'
  BY <1>1, <1>2 DEF KeysInv, KeysRecorded, Calls
<1>4. KeysApart'
  BY <1>1, <1>2 DEF KeysInv, KeysApart
<1>5. RefusalsRecorded'
  <2>1. \A d \in DeliveryCalls : call'[d].pc = "claim" => call[d].pc = "claim" /\ call'[d] = call[d]
    BY <1>1, <1>2, OutboxAssumption DEF Holding, Running, Calls, OutboxAssumption
  <2> QED
    BY <2>1 DEF KeysInv, RefusalsRecorded
<1> QED
  BY <1>3, <1>4, <1>5 DEF KeysInv

\* A call that goes on with the key it holds keeps it.
LEMMA KeysHeld ==
    ASSUME TypeOK, KeysInv, NEW c \in Calls, NEW new,
           call' = [call EXCEPT ![c] = new], Holding(c),
           new.pc \in {"publish", "mark"}, new.key = call[c].key,
           c \in DeliveryCalls => new.limit = call[c].limit,
           UNCHANGED <<runRequest, audit, nacked>>
    PROVE  KeysInv'
<1>1. call'[c] = new /\ Holding(c)'
  BY DEF Holding, TypeOK, Running
<1>2. \A d \in Calls : d # c => call'[d] = call[d] /\ (Holding(d)' <=> Holding(d))
  BY DEF Holding, TypeOK
<1>3. KeysRecorded'
  BY <1>1, <1>2 DEF KeysInv, KeysRecorded, Calls
<1>4. KeysApart'
  BY <1>1, <1>2 DEF KeysInv, KeysApart
<1>5. RefusalsRecorded'
  <2>1. \A d \in DeliveryCalls : call'[d].pc = "claim" => call[d].pc = "claim" /\ call'[d] = call[d]
    BY <1>1, <1>2 DEF Calls
  <2> QED
    BY <2>1 DEF KeysInv, RefusalsRecorded
<1> QED
  BY <1>3, <1>4, <1>5 DEF KeysInv

\* The end of a call, whatever ended it.
LEMMA KeysOver ==
    ASSUME TypeOK, KeysInv, NEW c \in Calls, NEW pc \in {"done", "crashed"},
           call' = [call EXCEPT ![c] = Over(c, pc)],
           UNCHANGED <<runRequest, audit, nacked>>
    PROVE  KeysInv'
<1>1. Over(c, pc).pc \notin Running
  BY DEF Over, Begun, Running
<1> QED
  BY <1>1, KeysNotHeld

LEMMA KeysBeginRun ==
    ASSUME TypeOK, KeysInv, NEW c \in DeliveryCalls, BeginRun(c)
    PROVE  KeysInv'
<1>1. c \in Calls /\ UNCHANGED <<audit, nacked>>
  BY DEF Calls, BeginRun, broker
<1>2. PICK key \in DeliveryKeys, limit \in RetryLimits, at \in DeliveryTimes :
         \/ /\ runRequest[key] = None
            /\ runRequest' = [runRequest EXCEPT ![key] = limit]
            /\ call' = [call EXCEPT ![c] = Begun("claim", key, None, at, limit)]
         \/ /\ call' = [call EXCEPT ![c] = Over(c, "done")]
            /\ UNCHANGED runRequest
  BY DEF BeginRun
<1>3. CASE /\ runRequest[key] = None
           /\ runRequest' = [runRequest EXCEPT ![key] = limit]
           /\ call' = [call EXCEPT ![c] = Begun("claim", key, None, at, limit)]
  <2>1. /\ call'[c].pc = "claim" /\ call'[c].key = key /\ call'[c].limit = limit
        /\ \A d \in Calls : d # c => call'[d] = call[d] /\ (Holding(d)' <=> Holding(d))
    BY <1>1, <1>3 DEF Holding, TypeOK, Begun
  <2>2. runRequest'[key] # None /\ \A k \in DeliveryKeys : k # key => runRequest'[k] = runRequest[k]
    BY <1>3, OutboxAssumption DEF TypeOK, OutboxAssumption
  <2>3. \A d \in DeliveryCalls : Holding(d) => call[d].key \in DeliveryKeys /\ call[d].key # key
    BY <1>3 DEF KeysInv, KeysRecorded, TypeOK, CallOK, Holding, Calls
  <2>4. \A d \in RecoveryCalls : Holding(d) => call[d].key # key
    BY OutboxAssumption DEF TypeOK, CallOK, Holding, Calls, OutboxAssumption
  <2>5. \A e \in Events : key \notin nacked[e]
    BY <1>3 DEF KeysInv, RefusalsRecorded
  <2>6. KeysRecorded'
    BY <1>1, <2>1, <2>2, <2>3, OutboxAssumption DEF KeysInv, KeysRecorded, Calls, OutboxAssumption
  <2>7. KeysApart'
    BY <2>1, <2>3, <2>4 DEF KeysInv, KeysApart, Calls
  <2>8. RefusalsRecorded'
    BY <1>1, <2>1, <2>2, <2>5 DEF KeysInv, RefusalsRecorded, Calls
  <2> QED
    BY <2>6, <2>7, <2>8 DEF KeysInv
<1>4. CASE call' = [call EXCEPT ![c] = Over(c, "done")] /\ UNCHANGED runRequest
  BY <1>1, <1>4, KeysOver
<1> QED
  BY <1>2, <1>3, <1>4

LEMMA KeysClaimBatch ==
    ASSUME TypeOK, KeysInv, NEW c \in DeliveryCalls, ClaimBatch(c)
    PROVE  KeysInv'
<1>1. /\ c \in Calls /\ call[c] \in CallType /\ Holding(c)
      /\ UNCHANGED <<runRequest, audit, nacked>>
  BY OutboxAssumption
     DEF TypeOK, Calls, ClaimBatch, Holding, Running, broker, OutboxAssumption
<1>2. PICK S : call' = [call EXCEPT ![c] =
                     IF S = {} THEN Over(c, "done")
                     ELSE [call[c] EXCEPT !.pc = "publish", !.todo = S]]
  BY DEF ClaimBatch
<1>3. CASE S = {}
  BY <1>1, <1>2, <1>3, KeysOver
<1>4. CASE S # {}
  <2> DEFINE new == [call[c] EXCEPT !.pc = "publish", !.todo = S]
  <2>1. new.pc = "publish" /\ new.key = call[c].key /\ new.limit = call[c].limit
    BY <1>1 DEF CallType
  <2>2. call' = [call EXCEPT ![c] = new]
    BY <1>2, <1>4
  <2> HIDE DEF new
  <2> QED
    BY <1>1, <2>1, <2>2, KeysHeld
<1> QED
  BY <1>3, <1>4

\* What a call at its mark or about to publish holds, it holds alone.
LEMMA KeysPublish ==
    ASSUME TypeOK, KeysInv, NEW c \in Calls, Publish(c)
    PROVE  KeysInv'
<1>1. PICK e \in call[c].todo, ok \in BOOLEAN :
         /\ call' = [call EXCEPT ![c] =
               [call[c] EXCEPT !.pc = "mark", !.sending = e, !.accepted = ok]]
         /\ nacked' = IF ok THEN nacked
                            ELSE [nacked EXCEPT ![e] = @ \cup {call[c].key}]
  BY DEF Publish
<1>2. /\ call[c] \in CallType /\ e \in Events /\ Holding(c)
      /\ call[c].pc = "publish" /\ UNCHANGED <<runRequest, audit>>
  BY DEF TypeOK, CallType, Publish, Holding, Running
<1>3. /\ call'[c].pc = "mark" /\ call'[c].key = call[c].key /\ call'[c].limit = call[c].limit
      /\ \A d \in Calls : d # c => call'[d] = call[d]
  BY <1>1, <1>2 DEF TypeOK, CallType
<1>4. \A d \in Calls : Holding(d)' <=> Holding(d)
  BY <1>2, <1>3 DEF Holding, Running
<1>5. KeysRecorded' /\ KeysApart'
  BY <1>2, <1>3, <1>4 DEF KeysInv, KeysRecorded, KeysApart, Calls
<1>6. \A f \in Events : \A k \in nacked'[f] : k \in nacked[f] \/ k = call[c].key
  BY <1>1, <1>2 DEF TypeOK
<1>7. \A d \in DeliveryCalls : call'[d].pc = "claim" =>
         call[d].pc = "claim" /\ call'[d].key = call[d].key /\ call[d].key # call[c].key
  <2>1. \A d \in DeliveryCalls : call'[d].pc = "claim" => d \in Calls /\ d # c /\ Holding(d)'
    BY <1>3, OutboxAssumption DEF Calls, Holding, Running, OutboxAssumption
  <2> QED
    BY <1>2, <1>3, <1>4, <2>1 DEF KeysInv, KeysApart
<1>8. /\ call[c].key \in DeliveryKeys => runRequest[call[c].key] # None
      /\ call[c].key \in RecoveryKeys => \E r \in audit : r.key = call[c].key
  BY <1>2, OutboxAssumption
     DEF KeysInv, KeysRecorded, TypeOK, CallOK, Calls, Holding, OutboxAssumption
<1>9. RefusalsRecorded'
  BY <1>2, <1>6, <1>7, <1>8 DEF KeysInv, RefusalsRecorded
<1> QED
  BY <1>5, <1>9 DEF KeysInv

LEMMA KeysMarkDelivery ==
    ASSUME TypeOK, KeysInv, NEW c \in DeliveryCalls, MarkDelivery(c)
    PROVE  KeysInv'
<1>1. /\ c \in Calls /\ call[c] \in CallType /\ Holding(c)
      /\ UNCHANGED <<runRequest, audit, nacked>>
  BY OutboxAssumption
     DEF TypeOK, Calls, MarkDelivery, Holding, Running, broker, OutboxAssumption
<1>2. PICK S : call' = [call EXCEPT ![c] =
             IF S = {} THEN Over(c, "done")
             ELSE [call[c] EXCEPT !.pc = "publish", !.todo = S, !.sending = None]]
  BY DEF MarkDelivery
<1>3. CASE S = {}
  BY <1>1, <1>2, <1>3, KeysOver
<1>4. CASE S # {}
  <2> DEFINE new == [call[c] EXCEPT !.pc = "publish", !.todo = S, !.sending = None]
  <2>1. new.pc = "publish" /\ new.key = call[c].key /\ new.limit = call[c].limit
    BY <1>1 DEF CallType
  <2>2. call' = [call EXCEPT ![c] = new]
    BY <1>2, <1>4
  <2> HIDE DEF new
  <2> QED
    BY <1>1, <2>1, <2>2, KeysHeld
<1> QED
  BY <1>3, <1>4

LEMMA KeysBeginRecovery ==
    ASSUME TypeOK, KeysInv, NEW c \in RecoveryCalls,
           BeginRecovery(c) \/ LookupRecovery(c)
    PROVE  KeysInv'
<1>1. /\ c \in Calls /\ c \notin DeliveryCalls /\ call[c] \in CallType
      /\ UNCHANGED <<runRequest, audit, nacked>>
  BY OutboxAssumption
     DEF TypeOK, Calls, BeginRecovery, LookupRecovery, broker, OutboxAssumption
<1>2. \/ \E k, e : call' = [call EXCEPT ![c] = Begun("lookup", k, e, now, 0)]
      \/ call' = [call EXCEPT ![c] = [call[c] EXCEPT !.pc = "claim"]]
      \/ call' = [call EXCEPT ![c] = Over(c, "done")]
  BY DEF BeginRecovery, LookupRecovery, Answer
<1>3. ASSUME NEW k, NEW e, call' = [call EXCEPT ![c] = Begun("lookup", k, e, now, 0)]
      PROVE  KeysInv'
  <2>1. Begun("lookup", k, e, now, 0).pc = "lookup"
    BY DEF Begun
  <2> QED
    BY <1>1, <1>3, <2>1, KeysNotHeld
<1>4. CASE call' = [call EXCEPT ![c] = [call[c] EXCEPT !.pc = "claim"]]
  <2>1. [call[c] EXCEPT !.pc = "claim"].pc = "claim"
    BY <1>1 DEF CallType
  <2> QED
    BY <1>1, <1>4, <2>1, KeysNotHeld
<1>5. CASE call' = [call EXCEPT ![c] = Over(c, "done")]
  BY <1>1, <1>5, KeysOver
<1> QED
  BY <1>2, <1>3, <1>4, <1>5

LEMMA KeysClaimDeadLetter ==
    ASSUME TypeOK, KeysInv, NEW c \in RecoveryCalls, ClaimDeadLetter(c)
    PROVE  KeysInv'
<1>1. /\ c \in Calls /\ c \notin DeliveryCalls /\ call[c] \in CallType
      /\ call[c].key \in RecoveryKeys /\ call[c].target \in Events
      /\ UNCHANGED <<runRequest, nacked>>
  BY RecoveryKnows DEF ClaimDeadLetter, broker, Running
<1>2. \/ /\ \E pc \in {"done", "crashed"} : call' = [call EXCEPT ![c] = Over(c, pc)]
         /\ UNCHANGED audit
      \/ /\ \A r \in audit : r.key # call[c].key
         /\ audit' = audit \cup {[event |-> call[c].target, key |-> call[c].key]}
         /\ call' = [call EXCEPT ![c] = [call[c] EXCEPT !.pc = "publish",
                        !.todo = {call[c].target}, !.limit = retries[call[c].target] + 1]]
  BY DEF ClaimDeadLetter, RejectRecovery, AcceptRecovery, Answer
<1>3. CASE /\ \E pc \in {"done", "crashed"} : call' = [call EXCEPT ![c] = Over(c, pc)]
           /\ UNCHANGED audit
  BY <1>1, <1>3, KeysOver
<1>4. CASE /\ \A r \in audit : r.key # call[c].key
           /\ audit' = audit \cup {[event |-> call[c].target, key |-> call[c].key]}
           /\ call' = [call EXCEPT ![c] = [call[c] EXCEPT !.pc = "publish",
                        !.todo = {call[c].target}, !.limit = retries[call[c].target] + 1]]
  <2>1. /\ call'[c].pc = "publish" /\ call'[c].key = call[c].key
        /\ \A d \in Calls : d # c => call'[d] = call[d] /\ (Holding(d)' <=> Holding(d))
    BY <1>1, <1>4 DEF Holding, TypeOK, CallType
  <2>2. audit \subseteq audit' /\ \E r \in audit' : r.key = call[c].key
    <3> DEFINE granted == [event |-> call[c].target, key |-> call[c].key]
    <3>1. granted.key = call[c].key
      OBVIOUS
    <3>2. audit' = audit \cup {granted}
      BY <1>4
    <3> HIDE DEF granted
    <3> QED
      BY <3>1, <3>2
  <2>3. \A d \in Calls : Holding(d) => call[d].key # call[c].key
    BY <1>1, <1>4, OutboxAssumption
       DEF KeysInv, KeysRecorded, TypeOK, CallOK, Holding, Calls, OutboxAssumption
  <2>4. KeysRecorded'
    BY <1>1, <2>1, <2>2 DEF KeysInv, KeysRecorded, Calls
  <2>5. KeysApart'
    BY <2>1, <2>3 DEF KeysInv, KeysApart
  <2>6. RefusalsRecorded'
    BY <1>1, <2>1, <2>2 DEF KeysInv, RefusalsRecorded, Calls
  <2> QED
    BY <2>4, <2>5, <2>6 DEF KeysInv
<1> QED
  BY <1>2, <1>3, <1>4

LEMMA KeysNext == TypeOK /\ KeysInv /\ [Next]_vars => KeysInv'
<1> SUFFICES ASSUME TypeOK, KeysInv, [Next]_vars PROVE KeysInv'
  OBVIOUS
<1>1. CASE Tick \/ (\E e \in Events : AppendEvent(e)) \/ UNCHANGED vars
  <2>1. UNCHANGED <<call, runRequest, audit, nacked>>
    BY <1>1 DEF Tick, AppendEvent, vars, broker
  <2> QED
    BY <2>1 DEF KeysInv, KeysRecorded, KeysApart, RefusalsRecorded, Holding
<1>2. ASSUME NEW c \in DeliveryCalls, BeginRun(c) \/ RunStep(c)
      PROVE  KeysInv'
  BY <1>2, KeysBeginRun, KeysClaimBatch, KeysPublish, KeysMarkDelivery DEF RunStep, Calls
<1>3. ASSUME NEW c \in RecoveryCalls, MarkRecovery(c)
      PROVE  KeysInv'
  BY <1>3, KeysOver DEF MarkRecovery, Calls, broker
<1>4. ASSUME NEW c \in RecoveryCalls, BeginRecovery(c) \/ RecoveryStep(c)
      PROVE  KeysInv'
  BY <1>3, <1>4, KeysBeginRecovery, KeysClaimDeadLetter, KeysPublish
     DEF RecoveryStep, Calls
<1>5. ASSUME NEW c \in Calls, Crash(c)
      PROVE  KeysInv'
  BY <1>5, KeysOver DEF Crash, broker
<1> QED
  BY <1>1, <1>2, <1>4, <1>5 DEF Next

-----------------------------------------------------------------------------
(* A retry is a refusal.  What makes it inductive: while the lease of a    *)
(* refused attempt is held, its refusal is not counted yet, and only an    *)
(* event that was given up on is leased to a re-drive.                     *)

RetryInv ==
    \A e \in Events :
        /\ IsFiniteSet(nacked[e])
        /\ retries[e] <= Cardinality(nacked[e])
        /\ status[e] = "leased" /\ leasedBy[e] \in nacked[e] =>
               retries[e] + 1 <= Cardinality(nacked[e])
        /\ \/ status[e] = "dead_letter"
           \/ status[e] = "leased" /\ leasedBy[e] \in RecoveryKeys
           => \E limit \in RetryLimits : retries[e] >= limit

\* A lease under a key nobody was refused with leaves the count right.
LEMMA RetryLease ==
    ASSUME TypeOK, RetryInv, NEW S \in SUBSET Events, NEW key \in Keys, NEW until,
           Lease(S, key, until), UNCHANGED nacked,
           \A e \in S : key \notin nacked[e],
           key \in RecoveryKeys => \A e \in S : status[e] = "dead_letter"
    PROVE  RetryInv'
<1> SUFFICES ASSUME NEW e \in Events
             PROVE  /\ IsFiniteSet(nacked[e])
                    /\ retries[e] <= Cardinality(nacked[e])
                    /\ status'[e] = "leased" /\ leasedBy'[e] \in nacked[e] =>
                           retries[e] + 1 <= Cardinality(nacked[e])
                    /\ \/ status'[e] = "dead_letter"
                       \/ status'[e] = "leased" /\ leasedBy'[e] \in RecoveryKeys
                       => \E limit \in RetryLimits : retries[e] >= limit
  BY DEF RetryInv, Lease
<1>1. IF e \in S THEN status'[e] = "leased" /\ leasedBy'[e] = key
                 ELSE status'[e] = status[e] /\ leasedBy'[e] = leasedBy[e]
  BY DEF Lease
<1> QED
  BY <1>1 DEF RetryInv

\* Writing down the outcome of the attempt that holds the lease.
LEMMA RetryOutcome ==
    ASSUME TypeOK, KeysInv, AnswerKnown, RetryInv,
           NEW c \in Calls, call[c].pc = "mark", RecordOutcome(c), UNCHANGED nacked
    PROVE  RetryInv'
<1> DEFINE me == call[c]
           s == me.sending
<1>1. /\ s \in Events /\ me.limit \in Nat
      /\ ~me.accepted => me.key \in nacked[s]
      /\ c \in RecoveryCalls => me.key \in RecoveryKeys
      /\ c \in DeliveryCalls => me.limit \in RetryLimits
      /\ c \in RecoveryCalls \/ c \in DeliveryCalls
  BY OutboxAssumption
     DEF TypeOK, CallOK, CallType, Running, AnswerKnown, KeysInv, KeysRecorded, Holding,
         Calls, OutboxAssumption
<1>2. CASE UNCHANGED row
  BY <1>2 DEF row, RetryInv
<1>3. CASE Owns(s, me.key) /\ MarkPublished(s)
  <2>1. /\ UNCHANGED retries /\ status'[s] = "published"
        /\ \A e \in Events : e # s => status'[e] = status[e] /\ leasedBy'[e] = leasedBy[e]
    BY <1>1, <1>3 DEF MarkPublished, TypeOK, RowsOK
  <2> QED
    BY <2>1 DEF RetryInv
<1>4. CASE Owns(s, me.key) /\ ~me.accepted /\ MarkFailed(s, me.at, me.limit)
  <2>1. /\ retries'[s] = retries[s] + 1 /\ retries[s] \in Nat
        /\ status'[s] = "failed" \/ (status'[s] = "dead_letter" /\ retries[s] + 1 >= me.limit)
        /\ \A e \in Events : e # s => /\ status'[e] = status[e] /\ leasedBy'[e] = leasedBy[e]
                                      /\ retries'[e] = retries[e]
    <3>1. /\ retries \in [Events -> Nat] /\ status \in [Events -> Statuses]
          /\ leasedBy \in [Events -> Keys \cup {None}]
      BY DEF TypeOK, RowsOK
    <3>2. /\ retries' = [retries EXCEPT ![s] = retries[s] + 1]
          /\ leasedBy' = [leasedBy EXCEPT ![s] = None]
          /\ status' = [status EXCEPT ![s] =
                 IF retries[s] + 1 >= me.limit THEN "dead_letter" ELSE "failed"]
      BY <1>4 DEF MarkFailed
    <3> QED
      BY <1>1, <3>1, <3>2
  <2>2. /\ status[s] = "leased" /\ leasedBy[s] = me.key
        /\ retries[s] + 1 <= Cardinality(nacked[s])
    BY <1>1, <1>4 DEF Owns, RetryInv
  <2>3. status'[s] = "dead_letter" => \E limit \in RetryLimits : retries[s] + 1 >= limit
    <3>1. CASE c \in DeliveryCalls
      BY <1>1, <2>1, <3>1
    <3>2. CASE c \in RecoveryCalls
      <4>1. PICK limit \in RetryLimits : retries[s] >= limit
        BY <1>1, <2>2, <3>2 DEF RetryInv
      <4>2. limit \in Nat
        BY OutboxAssumption DEF OutboxAssumption
      <4> QED
        BY <2>1, <4>1, <4>2
    <3> QED
      BY <1>1, <3>1, <3>2
  <2> QED
    BY <2>1, <2>2, <2>3 DEF RetryInv
<1> QED
  BY <1>2, <1>3, <1>4 DEF RecordOutcome

LEMMA RetryPublish ==
    ASSUME TypeOK, RetryInv, NEW c \in Calls, Publish(c)
    PROVE  RetryInv'
<1>1. PICK e \in call[c].todo, ok \in BOOLEAN :
         nacked' = IF ok THEN nacked
                         ELSE [nacked EXCEPT ![e] = @ \cup {call[c].key}]
  BY DEF Publish
<1>2. UNCHANGED row /\ e \in Events
  BY DEF Publish, TypeOK, CallType
<1> DEFINE key == call[c].key
<1>3. ASSUME NEW f \in Events
      PROVE  \/ nacked'[f] = nacked[f]
             \/ key \notin nacked[f] /\ nacked'[f] = nacked[f] \cup {key}
  BY <1>1, <1>2 DEF TypeOK
<1> HIDE DEF key
<1>4. ASSUME NEW f \in Events
      PROVE  /\ IsFiniteSet(nacked'[f])
             /\ retries[f] <= Cardinality(nacked'[f])
             /\ status[f] = "leased" /\ leasedBy[f] \in nacked'[f] =>
                    retries[f] + 1 <= Cardinality(nacked'[f])
  <2>1. CASE nacked'[f] = nacked[f]
    BY <2>1 DEF RetryInv
  <2>2. CASE key \notin nacked[f] /\ nacked'[f] = nacked[f] \cup {key}
    <3>1. PICK N : N = nacked[f]
      OBVIOUS
    <3>2. IsFiniteSet(N) /\ retries[f] <= Cardinality(N) /\ retries[f] \in Nat
      BY <3>1 DEF RetryInv, TypeOK, RowsOK
    <3>3. Cardinality(N) \in Nat
      BY <3>2, FS_CardinalityType
    <3>4. key \notin N /\ nacked'[f] = N \cup {key}
      BY <2>2, <3>1
    <3>5. IsFiniteSet(N \cup {key}) /\ Cardinality(N \cup {key}) = Cardinality(N) + 1
      BY <3>2, <3>4, FS_AddElement
    <3> QED
      BY <3>2, <3>3, <3>4, <3>5
  <2> QED
    BY <1>3, <2>1, <2>2
<1> QED
  BY <1>2, <1>4 DEF RetryInv, row

LEMMA RetryNext ==
    TypeOK /\ KeysInv /\ AnswerKnown /\ RetryInv /\ [Next]_vars => RetryInv'
<1> SUFFICES ASSUME TypeOK, KeysInv, AnswerKnown, RetryInv, [Next]_vars PROVE RetryInv'
  OBVIOUS
<1>1. CASE UNCHANGED <<row, nacked>>
  BY <1>1 DEF row, RetryInv
<1>2. ASSUME NEW e \in Events, AppendEvent(e)
      PROVE  RetryInv'
  <2>1. \A f \in Events : status'[f] = status[f] \/ status'[f] = "pending"
    BY <1>2 DEF AppendEvent, TypeOK, RowsOK
  <2> QED
    BY <1>2, <2>1 DEF AppendEvent, RetryInv, broker
<1>3. ASSUME NEW c \in DeliveryCalls, ClaimBatch(c)
      PROVE  RetryInv'
  <2>1. PICK S \in SUBSET Events : Lease(S, call[c].key, call[c].at + LeaseDuration)
    BY <1>3 DEF ClaimBatch, OldestOf
  <2>2. /\ call[c].key \in DeliveryKeys /\ call[c].key \in Keys
        /\ call[c].key \notin RecoveryKeys
    BY <1>3, OutboxAssumption
       DEF ClaimBatch, TypeOK, CallOK, Calls, Running, Keys, OutboxAssumption
  <2>3. \A e \in S : call[c].key \notin nacked[e]
    BY <1>3, <2>2 DEF ClaimBatch, KeysInv, RefusalsRecorded
  <2>4. UNCHANGED nacked
    BY <1>3 DEF ClaimBatch, broker
  <2> QED
    BY <2>1, <2>2, <2>3, <2>4, RetryLease
<1>4. ASSUME NEW c \in RecoveryCalls, ClaimDeadLetter(c)
      PROVE  RetryInv'
  <2> DEFINE e == call[c].target
  <2>1. e \in Events /\ call[c].key \in RecoveryKeys /\ call[c].key \in Keys
    BY <1>4, RecoveryKnows DEF ClaimDeadLetter, Running
  <2>2. /\ UNCHANGED nacked
        /\ \/ UNCHANGED row
           \/ /\ status[e] = "dead_letter" /\ \A r \in audit : r.key # call[c].key
              /\ Lease({e}, call[c].key, call[c].at + LeaseDuration)
    BY <1>4 DEF ClaimDeadLetter, RejectRecovery, AcceptRecovery, broker
  <2>3. (\A r \in audit : r.key # call[c].key) => call[c].key \notin nacked[e]
    BY <2>1 DEF KeysInv, RefusalsRecorded
  <2> HIDE DEF e
  <2> QED
    BY <1>1, <2>1, <2>2, <2>3, RetryLease
<1>5. ASSUME NEW c \in Calls, MarkDelivery(c) \/ MarkRecovery(c)
      PROVE  RetryInv'
  BY <1>5, RetryOutcome DEF MarkDelivery, MarkRecovery, broker
<1> QED
  BY <1>1, <1>2, <1>3, <1>4, <1>5, RetryPublish
     DEF Next, RunStep, RecoveryStep, Tick, BeginRun, BeginRecovery, LookupRecovery,
         Crash, Calls, vars, broker

KeysAndAnswers == TypeOK /\ AnswerKnown /\ KeysInv

LEMMA KeysAndAnswersInit == Init => KeysAndAnswers
<1> SUFFICES ASSUME Init PROVE KeysAndAnswers
  OBVIOUS
<1>1. \A c \in Calls : call[c].pc = "idle"
  BY DEF Init, NoCall, Begun
<1> QED
  BY <1>1, TypeOKInit
     DEF Init, KeysAndAnswers, AnswerKnown, KeysInv, KeysRecorded, KeysApart,
         RefusalsRecorded, Holding, Running, Calls

\* An event is given up on, and a retry counted, only for a refusal the broker
\* gave: no crash, no expired lease and no stale mark consumes one.
THEOREM RetriesCountRefusals == Spec => []RetriesAreRefusals
<1>1. Init => KeysAndAnswers /\ RetryInv
  BY KeysAndAnswersInit, FS_EmptySet DEF Init, RetryInv
<1>2. KeysAndAnswers /\ RetryInv /\ [Next]_vars => (KeysAndAnswers /\ RetryInv)'
  BY TypeOKNext, AnswerKnownNext, KeysNext, RetryNext DEF KeysAndAnswers
<1>3. RetryInv => RetriesAreRefusals
  BY DEF RetryInv, RetriesAreRefusals
<1> QED
  BY <1>1, <1>2, <1>3, PTL DEF Spec

-----------------------------------------------------------------------------
(* Leases of one clock: whoever has work in hand holds its lease, or the   *)
(* lease is over.  That work has a row, whatever the clocks say, is what   *)
(* the refinement needs.                                                   *)

WorkInv ==
    \A c \in Calls :
        /\ call[c].todo # {} => call[c].pc \in {"publish", "mark"}
        /\ \A e \in call[c].todo : status[e] # "absent"

\* A call keeps part of its work, or takes what it has just leased.
LEMMA WorkStep ==
    ASSUME TypeOK, WorkInv, NEW c \in Calls, NEW new,
           call' = [call EXCEPT ![c] = new],
           new.todo # {} => new.pc \in {"publish", "mark"},
           \A e \in new.todo : e \in call[c].todo \/ status'[e] = "leased",
           \A e \in Events : status[e] # "absent" => status'[e] # "absent"
    PROVE  WorkInv'
<1>1. call'[c] = new /\ \A d \in Calls : d # c => call'[d] = call[d]
  BY DEF TypeOK
<1>2. \A d \in Calls : call[d].todo \subseteq Events
  BY DEF TypeOK, CallType
<1> QED
  BY <1>1, <1>2 DEF WorkInv

\* No step takes a row away.
LEMMA RowsStay ==
    ASSUME TypeOK, [Next]_vars, NEW e \in Events, status[e] # "absent"
    PROVE  status'[e] # "absent"
<1>1. ASSUME NEW S, NEW k, NEW t, Lease(S, k, t)
      PROVE  status'[e] # "absent"
  BY <1>1 DEF Lease
<1>2. CASE UNCHANGED row
  BY <1>2 DEF row
<1>3. ASSUME NEW f \in Events, AppendEvent(f)
      PROVE  status'[e] # "absent"
  BY <1>3 DEF AppendEvent, TypeOK, RowsOK
<1>4. ASSUME NEW f, MarkPublished(f)
      PROVE  status'[e] # "absent"
  BY <1>4 DEF MarkPublished, TypeOK, RowsOK
<1>5. ASSUME NEW f, NEW at, NEW limit, MarkFailed(f, at, limit)
      PROVE  status'[e] # "absent"
  BY <1>5 DEF MarkFailed, TypeOK, RowsOK
<1>6. ASSUME NEW c, RecordOutcome(c)
      PROVE  status'[e] # "absent"
  BY <1>2, <1>4, <1>5, <1>6 DEF RecordOutcome
<1>7. ASSUME NEW c \in DeliveryCalls, ClaimBatch(c)
      PROVE  status'[e] # "absent"
  BY <1>1, <1>7 DEF ClaimBatch
<1>8. ASSUME NEW c \in RecoveryCalls, ClaimDeadLetter(c)
      PROVE  status'[e] # "absent"
  <2>1. PICK f : RejectRecovery(c, f) \/ AcceptRecovery(c, f)
    BY <1>8 DEF ClaimDeadLetter
  <2>2. UNCHANGED row \/ Lease({f}, call[c].key, call[c].at + LeaseDuration)
    BY <2>1 DEF RejectRecovery, AcceptRecovery
  <2> QED
    BY <1>1, <1>2, <2>2
<1> QED
  BY <1>2, <1>3, <1>6, <1>7, <1>8
     DEF Next, RunStep, RecoveryStep, Tick, BeginRun, Publish, MarkDelivery,
         BeginRecovery, LookupRecovery, MarkRecovery, Crash, vars

\* The record a step of a call leaves behind: what it may have kept, and what
\* it took.
LEMMA WorkKinds ==
    ASSUME TypeOK, WorkInv, NEW c \in Calls,
           \/ c \in DeliveryCalls /\ (BeginRun(c) \/ RunStep(c))
           \/ c \in RecoveryCalls /\ (BeginRecovery(c) \/ RecoveryStep(c))
           \/ Crash(c)
    PROVE  \E new :
              /\ call' = [call EXCEPT ![c] = new]
              /\ new.todo # {} => new.pc \in {"publish", "mark"}
              /\ \A e \in new.todo : e \in call[c].todo \/ status'[e] = "leased"
<1> DEFINE Goal(new) ==
              /\ call' = [call EXCEPT ![c] = new]
              /\ new.todo # {} => new.pc \in {"publish", "mark"}
              /\ \A e \in new.todo : e \in call[c].todo \/ status'[e] = "leased"
<1>1. call[c] \in CallType
  BY DEF TypeOK
<1>2. ASSUME NEW pc, call' = [call EXCEPT ![c] = Over(c, pc)]
      PROVE  \E new : Goal(new)
  <2>1. Over(c, pc).todo = {}
    BY DEF Over, Begun
  <2> QED
    BY <1>2, <2>1
<1>3. ASSUME NEW pc, NEW k, NEW e, NEW at, NEW limit,
             call' = [call EXCEPT ![c] = Begun(pc, k, e, at, limit)]
      PROVE  \E new : Goal(new)
  <2>1. Begun(pc, k, e, at, limit).todo = {}
    BY DEF Begun
  <2> QED
    BY <1>3, <2>1
<1>4. CASE BeginRun(c) \/ BeginRecovery(c)
  BY <1>2, <1>3, <1>4 DEF BeginRun, BeginRecovery
<1>5. CASE ClaimBatch(c)
  <2>1. PICK S : /\ Lease(S, call[c].key, call[c].at + LeaseDuration) /\ S \subseteq Events
                 /\ call' = [call EXCEPT ![c] =
                       IF S = {} THEN Over(c, "done")
                       ELSE [call[c] EXCEPT !.pc = "publish", !.todo = S]]
    BY <1>5 DEF ClaimBatch, OldestOf
  <2> DEFINE new == [call[c] EXCEPT !.pc = "publish", !.todo = S]
  <2>2. new.pc = "publish" /\ new.todo = S
    BY <1>1 DEF CallType
  <2>3. \A e \in S : status'[e] = "leased"
    BY <2>1 DEF Lease
  <2>4. CASE S = {}
    BY <1>2, <2>1, <2>4
  <2>5. CASE S # {}
    BY <2>1, <2>2, <2>3, <2>5
  <2> QED
    BY <2>4, <2>5
<1>6. CASE Publish(c)
  <2>1. PICK e \in call[c].todo, ok \in BOOLEAN : call' = [call EXCEPT ![c] =
               [call[c] EXCEPT !.pc = "mark", !.sending = e, !.accepted = ok]]
    BY <1>6 DEF Publish
  <2> DEFINE new == [call[c] EXCEPT !.pc = "mark", !.sending = e, !.accepted = ok]
  <2>2. new.pc = "mark" /\ new.todo = call[c].todo
    BY <1>1 DEF CallType
  <2> QED
    BY <2>1, <2>2
<1>7. CASE MarkDelivery(c)
  <2>1. PICK S : /\ S \subseteq call[c].todo
                 /\ call' = [call EXCEPT ![c] =
                       IF S = {} THEN Over(c, "done")
                       ELSE [call[c] EXCEPT !.pc = "publish", !.todo = S, !.sending = None]]
    BY <1>7 DEF MarkDelivery
  <2> DEFINE new == [call[c] EXCEPT !.pc = "publish", !.todo = S, !.sending = None]
  <2>2. new.pc = "publish" /\ new.todo = S
    BY <1>1 DEF CallType
  <2>3. CASE S = {}
    BY <1>2, <2>1, <2>3
  <2>4. CASE S # {}
    BY <2>1, <2>2, <2>4
  <2> QED
    BY <2>3, <2>4
<1>8. CASE c \in RecoveryCalls /\ (LookupRecovery(c) \/ ClaimDeadLetter(c))
  <2>1. \/ \E pc \in {"done", "crashed"} : call' = [call EXCEPT ![c] = Over(c, pc)]
        \/ /\ call[c].pc = "lookup"
           /\ call' = [call EXCEPT ![c] = [call[c] EXCEPT !.pc = "claim"]]
        \/ \E f, t, n : /\ Lease({f}, call[c].key, t) /\ f \in Events
                        /\ call' = [call EXCEPT ![c] = [call[c] EXCEPT
                              !.pc = "publish", !.todo = {f}, !.limit = n]]
    <3>1. CASE LookupRecovery(c)
      BY <3>1 DEF LookupRecovery, Answer
    <3>2. CASE ClaimDeadLetter(c)
      <4>1. call[c].target \in Events
        BY <1>8, <3>2, RecoveryKnows DEF ClaimDeadLetter, Running
      <4>2. CASE RejectRecovery(c, call[c].target)
        BY <4>2 DEF RejectRecovery, Answer
      <4>3. CASE AcceptRecovery(c, call[c].target)
        BY <4>1, <4>3 DEF AcceptRecovery
      <4> QED
        BY <3>2, <4>2, <4>3 DEF ClaimDeadLetter
    <3> QED
      BY <1>8, <3>1, <3>2
  <2>2. CASE /\ call[c].pc = "lookup"
             /\ call' = [call EXCEPT ![c] = [call[c] EXCEPT !.pc = "claim"]]
    <3>1. [call[c] EXCEPT !.pc = "claim"].todo = {}
      BY <1>1, <2>2 DEF CallType, WorkInv
    <3> QED
      BY <2>2, <3>1
  <2>3. ASSUME NEW f, NEW t, NEW n, Lease({f}, call[c].key, t), f \in Events,
               call' = [call EXCEPT ![c] = [call[c] EXCEPT
                          !.pc = "publish", !.todo = {f}, !.limit = n]]
        PROVE  \E new : Goal(new)
    <3> DEFINE new == [call[c] EXCEPT !.pc = "publish", !.todo = {f}, !.limit = n]
    <3>1. new.pc = "publish" /\ new.todo = {f}
      BY <1>1 DEF CallType
    <3>2. status'[f] = "leased"
      BY <2>3 DEF Lease
    <3> QED
      BY <2>3, <3>1, <3>2
  <2> QED
    BY <1>2, <2>1, <2>2, <2>3
<1>9. CASE MarkRecovery(c) \/ Crash(c)
  BY <1>2, <1>9 DEF MarkRecovery, Crash
<1> QED
  BY <1>4, <1>5, <1>6, <1>7, <1>8, <1>9 DEF RunStep, RecoveryStep

LEMMA WorkNext == TypeOK /\ WorkInv /\ [Next]_vars => WorkInv'
<1> SUFFICES ASSUME TypeOK, WorkInv, [Next]_vars PROVE WorkInv'
  OBVIOUS
<1>1. \A e \in Events : status[e] # "absent" => status'[e] # "absent"
  BY RowsStay
<1>2. CASE UNCHANGED call
  <2>1. \A c \in Calls : call[c].todo \subseteq Events
    BY DEF TypeOK, CallType
  <2> QED
    BY <1>1, <1>2, <2>1 DEF WorkInv
<1>3. ASSUME NEW c \in Calls,
             \/ c \in DeliveryCalls /\ (BeginRun(c) \/ RunStep(c))
             \/ c \in RecoveryCalls /\ (BeginRecovery(c) \/ RecoveryStep(c))
             \/ Crash(c)
      PROVE  WorkInv'
  BY <1>1, <1>3, WorkKinds, WorkStep
<1> QED
  BY <1>2, <1>3 DEF Next, Tick, AppendEvent, vars, Calls

LEMMA WorkInit == Init => WorkInv
BY DEF Init, WorkInv, NoCall, Begun

-----------------------------------------------------------------------------
(* One publisher: with one clock, the lease of a call that has work in     *)
(* hand is its own until it is over.                                       *)

Lapsed(c) == call[c].at + LeaseDuration <= now

LeasesInv ==
    \A c \in Calls :
        /\ call[c].pc \in Running => call[c].at <= now
        /\ \A e \in call[c].todo :
             \/ Lapsed(c)
             \/ Owns(e, call[c].key) /\ leaseUntil[e] = call[c].at + LeaseDuration

\* The lease of a row that no step of the call's rivals may take.
LEMMA LeaseKept ==
    ASSUME TypeOK, KeysInv, WorkInv, LeasesInv, [Next]_vars,
           NEW c \in Calls, NEW e \in call[c].todo, ~Lapsed(c),
           ClockSkew = 0
    PROVE  \/ UNCHANGED <<status[e], leasedBy[e], leaseUntil[e]>>
           \/ call[c].sending = e /\ (MarkDelivery(c) \/ MarkRecovery(c))
<1> USE DEF Owns
<1>1. /\ e \in Events /\ Owns(e, call[c].key) /\ Holding(c)
      /\ leaseUntil[e] = call[c].at + LeaseDuration /\ ~(leaseUntil[e] <= now)
  BY OutboxAssumption
     DEF LeasesInv, WorkInv, TypeOK, CallType, Holding, Running, Lapsed, OutboxAssumption
<1>2. ASSUME UNCHANGED row
      PROVE  UNCHANGED <<status[e], leasedBy[e], leaseUntil[e]>>
  BY <1>1, <1>2 DEF row
<1>3. CASE \E f \in Events : AppendEvent(f)
  BY <1>1, <1>3 DEF AppendEvent, TypeOK, RowsOK
<1>4. ASSUME NEW d \in DeliveryCalls, ClaimBatch(d)
      PROVE  UNCHANGED <<status[e], leasedBy[e], leaseUntil[e]>>
  <2>1. call[d].at <= now /\ call[d].at \in Nat
    BY <1>4 DEF ClaimBatch, LeasesInv, TypeOK, CallType, Calls, Running
  <2>2. leaseUntil[e] \in Nat /\ now \in Nat
    BY <1>1, OutboxAssumption DEF TypeOK, RowsOK, OutboxAssumption
  <2>3. ~Ready(e, call[d].at, call[d].limit)
    BY <1>1, <2>1, <2>2 DEF Ready
  <2>4. PICK S : e \notin S /\ Lease(S, call[d].key, call[d].at + LeaseDuration)
    BY <1>4, <2>3 DEF ClaimBatch, OldestOf
  <2> QED
    BY <1>1, <2>4 DEF Lease
<1>5. ASSUME NEW d \in RecoveryCalls, ClaimDeadLetter(d)
      PROVE  UNCHANGED <<status[e], leasedBy[e], leaseUntil[e]>>
  <2>1. PICK f : RejectRecovery(d, f) \/ AcceptRecovery(d, f)
    BY <1>5 DEF ClaimDeadLetter
  <2>2. \/ UNCHANGED row
        \/ status[f] = "dead_letter" /\ Lease({f}, call[d].key, call[d].at + LeaseDuration)
    BY <2>1 DEF RejectRecovery, AcceptRecovery
  <2>3. CASE status[f] = "dead_letter" /\ Lease({f}, call[d].key, call[d].at + LeaseDuration)
    BY <1>1, <2>3 DEF Lease
  <2> QED
    BY <1>2, <2>2, <2>3
<1>6. ASSUME NEW d \in Calls, call[d].pc = "mark", RecordOutcome(d), d # c \/ call[d].sending # e
      PROVE  UNCHANGED <<status[e], leasedBy[e], leaseUntil[e]>>
  <2> DEFINE s == call[d].sending
  <2>1. s \in Events /\ Holding(d)
    BY <1>6 DEF TypeOK, CallOK, Holding, Running
  <2>2. d # c => call[d].key # call[c].key
    BY <1>1, <2>1 DEF KeysInv, KeysApart
  <2>3. \/ UNCHANGED row
        \/ /\ Owns(s, call[d].key)
           /\ MarkPublished(s) \/ MarkFailed(s, call[d].at, call[d].limit)
    BY <1>6 DEF RecordOutcome
  <2>4. CASE /\ Owns(s, call[d].key)
             /\ MarkPublished(s) \/ MarkFailed(s, call[d].at, call[d].limit)
    <3>1. s # e
      BY <1>1, <1>6, <2>2, <2>4
    <3>2. /\ status'[e] = status[e] /\ leasedBy'[e] = leasedBy[e]
          /\ leaseUntil'[e] = leaseUntil[e]
      BY <1>1, <2>1, <2>4, <3>1 DEF MarkPublished, MarkFailed, TypeOK, RowsOK
    <3> QED
      BY <1>1, <3>2
  <2> QED
    BY <1>2, <2>3, <2>4
<1> QED
  BY <1>2, <1>3, <1>4, <1>5, <1>6
     DEF Next, RunStep, RecoveryStep, Tick, BeginRun, Publish, MarkDelivery,
         BeginRecovery, LookupRecovery, MarkRecovery, Crash, Calls, vars

\* A mark is the last its call does about the event it sent.
LEMMA MarkMovesOn ==
    ASSUME TypeOK, NEW c \in Calls, MarkDelivery(c) \/ MarkRecovery(c)
    PROVE  /\ call[c].pc = "mark" /\ call'[c].pc # "mark"
           /\ call'[c].todo \subseteq call[c].todo \ {call[c].sending}
           /\ call'[c].todo # {} => /\ call'[c].key = call[c].key
                                    /\ call'[c].at = call[c].at
           /\ \A d \in Calls : d # c => call'[d] = call[d]
<1>1. call[c] \in CallType
  BY DEF TypeOK
<1>2. CASE call' = [call EXCEPT ![c] = Over(c, "done")]
  BY <1>1, <1>2 DEF MarkDelivery, MarkRecovery, TypeOK, Over, Begun
<1>3. CASE call' = [call EXCEPT ![c] = [call[c] EXCEPT !.pc = "publish",
               !.todo = call[c].todo \ {call[c].sending}, !.sending = None]]
  BY <1>1, <1>3 DEF MarkDelivery, MarkRecovery, TypeOK, CallType
<1> QED
  BY <1>2, <1>3 DEF MarkDelivery, MarkRecovery

\* A step of one call leaves the others in possession of their leases.
LEMMA LeasesStep ==
    ASSUME TypeOK, KeysInv, WorkInv, LeasesInv, [Next]_vars, ClockSkew = 0,
           NEW c \in Calls, UNCHANGED now,
           \A d \in Calls : d # c => call'[d] = call[d],
           call'[c].pc \in Running => call'[c].at <= now,
           \A e \in call'[c].todo :
              \/ call'[c].at + LeaseDuration <= now
              \/ /\ status'[e] = "leased" /\ leasedBy'[e] = call'[c].key
                 /\ leaseUntil'[e] = call'[c].at + LeaseDuration
    PROVE  LeasesInv'
<1>1. ASSUME NEW d \in Calls, d # c, NEW e \in call[d].todo, ~Lapsed(d)
      PROVE  /\ status'[e] = "leased" /\ leasedBy'[e] = call[d].key
             /\ leaseUntil'[e] = call[d].at + LeaseDuration
  <2>1. ~(MarkDelivery(d) \/ MarkRecovery(d))
    BY <1>1, MarkMovesOn
  <2> QED
    BY <1>1, <2>1, LeaseKept DEF LeasesInv, Owns
<1> QED
  BY <1>1 DEF LeasesInv, Owns, Lapsed

\* The clock of a call that has begun is not ahead.
LEMMA NowType == TypeOK => now \in Nat
BY OutboxAssumption DEF TypeOK, OutboxAssumption

LEMMA LeasesNext ==
    TypeOK /\ KeysInv /\ WorkInv /\ LeasesInv /\ [Next]_vars /\ ClockSkew = 0
        => LeasesInv'
<1> SUFFICES ASSUME TypeOK, KeysInv, WorkInv, LeasesInv, [Next]_vars, ClockSkew = 0
             PROVE  LeasesInv'
  OBVIOUS
<1>1. \A c \in Calls : call[c] \in CallType
  BY DEF TypeOK
<1>2. CASE UNCHANGED <<call, row>> /\ (now' = now \/ now' = now + 1)
  <2>1. ASSUME NEW c \in Calls
        PROVE  (call[c].at <= now => call[c].at <= now') /\ (Lapsed(c) => Lapsed(c)')
    BY <1>1, <1>2, NowType, OutboxAssumption DEF Lapsed, CallType, OutboxAssumption
  <2> QED
    BY <1>2, <2>1 DEF LeasesInv, Owns, row
<1>3. ASSUME NEW e \in Events, AppendEvent(e)
      PROVE  LeasesInv'
  <2>1. \A f \in Events : status[f] = "leased" => status'[f] = "leased"
    BY <1>3 DEF AppendEvent, TypeOK, RowsOK
  <2>2. UNCHANGED <<call, now, leasedBy, leaseUntil>>
    BY <1>3 DEF AppendEvent
  <2>3. \A c \in Calls : call[c].todo \subseteq Events
    BY <1>1 DEF CallType
  <2> QED
    BY <2>1, <2>2, <2>3 DEF LeasesInv, Owns, Lapsed
<1>4. ASSUME NEW c \in Calls, NEW pc \in {"done", "crashed"},
             call' = [call EXCEPT ![c] = Over(c, pc)], UNCHANGED now
      PROVE  LeasesInv'
  <2>1. call'[c].pc = pc /\ call'[c].todo = {} /\ \A d \in Calls : d # c => call'[d] = call[d]
    BY <1>4 DEF TypeOK, Over, Begun
  <2> QED
    BY <1>4, <2>1, LeasesStep DEF Running
<1>5. ASSUME NEW c \in Calls, NEW pc, NEW k, NEW e, NEW at \in Nat, NEW limit, at <= now,
             call' = [call EXCEPT ![c] = Begun(pc, k, e, at, limit)], UNCHANGED now
      PROVE  LeasesInv'
  <2>1. /\ call'[c].at = at /\ call'[c].todo = {}
        /\ \A d \in Calls : d # c => call'[d] = call[d]
    BY <1>5 DEF TypeOK, Begun
  <2> QED
    BY <1>5, <2>1, LeasesStep
<1>6. ASSUME NEW c \in DeliveryCalls, BeginRun(c)
      PROVE  LeasesInv'
  <2>1. PICK key \in DeliveryKeys, limit \in RetryLimits, at \in DeliveryTimes :
         \/ call' = [call EXCEPT ![c] = Begun("claim", key, None, at, limit)]
         \/ call' = [call EXCEPT ![c] = Over(c, "done")]
    BY <1>6 DEF BeginRun
  <2>2. at \in Nat /\ at <= now
    BY NowType, OutboxAssumption DEF DeliveryTimes, OutboxAssumption
  <2>3. c \in Calls /\ UNCHANGED now
    BY <1>6 DEF Calls, BeginRun
  <2> QED
    BY <1>4, <1>5, <2>1, <2>2, <2>3
<1>7. ASSUME NEW c \in RecoveryCalls, BeginRecovery(c)
      PROVE  LeasesInv'
  <2>1. PICK key, e : call' = [call EXCEPT ![c] = Begun("lookup", key, e, now, 0)]
    BY <1>7 DEF BeginRecovery
  <2>2. PICK at \in Nat : at = now
    BY NowType
  <2>3. c \in Calls /\ UNCHANGED now
    BY <1>7 DEF Calls, BeginRecovery
  <2>4. call' = [call EXCEPT ![c] = Begun("lookup", key, e, at, 0)] /\ at <= now
    BY <2>1, <2>2, NowType
  <2> QED
    BY <1>5, <2>3, <2>4
<1>8. ASSUME NEW c \in Calls, NEW S \in SUBSET Events, UNCHANGED now,
             call[c].pc \in Running,
             Lease(S, call[c].key, call[c].at + LeaseDuration),
             call'[c].todo = S, call'[c].key = call[c].key, call'[c].at = call[c].at,
             \A d \in Calls : d # c => call'[d] = call[d]
      PROVE  LeasesInv'
  <2>1. \A e \in S : /\ status'[e] = "leased" /\ leasedBy'[e] = call[c].key
                     /\ leaseUntil'[e] = call[c].at + LeaseDuration
    BY <1>8 DEF Lease
  <2>2. call[c].at <= now
    BY <1>8 DEF LeasesInv
  <2> QED
    BY <1>8, <2>1, <2>2, LeasesStep
<1>9. ASSUME NEW c \in DeliveryCalls, ClaimBatch(c)
      PROVE  LeasesInv'
  <2>1. PICK S \in SUBSET Events :
              /\ Lease(S, call[c].key, call[c].at + LeaseDuration)
              /\ call' = [call EXCEPT ![c] =
                       IF S = {} THEN Over(c, "done")
                       ELSE [call[c] EXCEPT !.pc = "publish", !.todo = S]]
    BY <1>9 DEF ClaimBatch, OldestOf
  <2>2. c \in Calls /\ UNCHANGED now /\ call[c].pc \in Running
    BY <1>9 DEF Calls, ClaimBatch, Running
  <2>3. CASE S = {}
    BY <1>4, <2>1, <2>2, <2>3
  <2>4. CASE S # {}
    <3>1. /\ call'[c].todo = S /\ call'[c].key = call[c].key /\ call'[c].at = call[c].at
          /\ \A d \in Calls : d # c => call'[d] = call[d]
      BY <1>1, <2>1, <2>2, <2>4 DEF TypeOK, CallType
    <3> QED
      BY <1>8, <2>1, <2>2, <3>1
  <2> QED
    BY <2>3, <2>4
<1>10. ASSUME NEW c \in Calls, UNCHANGED <<now, row>>, call[c].pc \in Running,
              call'[c].todo = call[c].todo, call'[c].key = call[c].key,
              call'[c].at = call[c].at,
              \A d \in Calls : d # c => call'[d] = call[d]
       PROVE  LeasesInv'
  <2>1. call[c].at <= now
    BY <1>10 DEF LeasesInv
  <2>2. \A e \in call[c].todo :
              \/ call[c].at + LeaseDuration <= now
              \/ /\ status'[e] = "leased" /\ leasedBy'[e] = call[c].key
                 /\ leaseUntil'[e] = call[c].at + LeaseDuration
    BY <1>10 DEF LeasesInv, Owns, row, Lapsed
  <2> QED
    BY <1>10, <2>1, <2>2, LeasesStep
<1>11. ASSUME NEW c \in Calls, Publish(c)
       PROVE  LeasesInv'
  <2>1. PICK e, ok : call' = [call EXCEPT ![c] =
               [call[c] EXCEPT !.pc = "mark", !.sending = e, !.accepted = ok]]
    BY <1>11 DEF Publish
  <2>2. /\ call'[c].todo = call[c].todo /\ call'[c].key = call[c].key
        /\ call'[c].at = call[c].at /\ \A d \in Calls : d # c => call'[d] = call[d]
    BY <1>1, <2>1 DEF TypeOK, CallType
  <2> QED
    BY <1>10, <1>11, <2>2 DEF Publish, Running
<1>12. ASSUME NEW c \in RecoveryCalls, LookupRecovery(c)
       PROVE  LeasesInv'
  <2>1. c \in Calls /\ UNCHANGED <<now, row>> /\ call[c].pc \in Running
    BY <1>12 DEF Calls, LookupRecovery, Running
  <2>2. \/ call' = [call EXCEPT ![c] = Over(c, "done")]
        \/ call' = [call EXCEPT ![c] = [call[c] EXCEPT !.pc = "claim"]]
    BY <1>12 DEF LookupRecovery, Answer
  <2>3. CASE call' = [call EXCEPT ![c] = [call[c] EXCEPT !.pc = "claim"]]
    <3>1. /\ call'[c].todo = call[c].todo /\ call'[c].key = call[c].key
          /\ call'[c].at = call[c].at /\ \A d \in Calls : d # c => call'[d] = call[d]
      BY <1>1, <2>1, <2>3 DEF TypeOK, CallType
    <3> QED
      BY <1>10, <2>1, <3>1
  <2> QED
    BY <1>4, <2>1, <2>2, <2>3
<1>13. ASSUME NEW c \in RecoveryCalls, ClaimDeadLetter(c)
       PROVE  LeasesInv'
  <2>1. /\ c \in Calls /\ UNCHANGED now /\ call[c].pc \in Running
        /\ call[c].target \in Events
    BY <1>13, RecoveryKnows DEF Calls, ClaimDeadLetter, Running
  <2>2. PICK f \in Events :
        \/ \E pc \in {"done", "crashed"} : call' = [call EXCEPT ![c] = Over(c, pc)]
        \/ /\ Lease({f}, call[c].key, call[c].at + LeaseDuration)
           /\ call' = [call EXCEPT ![c] = [call[c] EXCEPT !.pc = "publish",
                             !.todo = {f}, !.limit = retries[f] + 1]]
    BY <1>13, <2>1 DEF ClaimDeadLetter, RejectRecovery, AcceptRecovery, Answer
  <2>3. CASE \E pc \in {"done", "crashed"} : call' = [call EXCEPT ![c] = Over(c, pc)]
    BY <1>4, <2>1, <2>3
  <2>4. CASE /\ Lease({f}, call[c].key, call[c].at + LeaseDuration)
             /\ call' = [call EXCEPT ![c] = [call[c] EXCEPT !.pc = "publish",
                             !.todo = {f}, !.limit = retries[f] + 1]]
    <3>1. /\ call'[c].todo = {f} /\ call'[c].key = call[c].key /\ call'[c].at = call[c].at
          /\ \A d \in Calls : d # c => call'[d] = call[d]
      BY <1>1, <2>1, <2>4 DEF TypeOK, CallType
    <3>2. {f} \in SUBSET Events
      OBVIOUS
    <3> QED
      BY <1>8, <2>1, <2>4, <3>1, <3>2
  <2> QED
    BY <2>2, <2>3, <2>4
<1>14. ASSUME NEW c \in Calls, MarkDelivery(c) \/ MarkRecovery(c)
       PROVE  LeasesInv'
  <2>1. /\ call[c].pc = "mark"
        /\ call'[c].todo \subseteq call[c].todo \ {call[c].sending}
        /\ call'[c].todo # {} => call'[c].key = call[c].key /\ call'[c].at = call[c].at
        /\ \A d \in Calls : d # c => call'[d] = call[d]
    BY <1>14, MarkMovesOn
  <2>2. UNCHANGED now
    BY <1>14 DEF MarkDelivery, MarkRecovery
  <2>3. call'[c].pc \in Running => call'[c].at <= now
    <3>1. call[c].at <= now
      BY <2>1 DEF LeasesInv, Running
    <3>2. CASE call' = [call EXCEPT ![c] = Over(c, "done")]
      BY <3>2 DEF TypeOK, Over, Begun, Running
    <3>3. CASE call' = [call EXCEPT ![c] = [call[c] EXCEPT !.pc = "publish",
               !.todo = call[c].todo \ {call[c].sending}, !.sending = None]]
      BY <1>1, <3>1, <3>3 DEF TypeOK, CallType
    <3> QED
      BY <1>14, <3>2, <3>3 DEF MarkDelivery, MarkRecovery
  <2>4. ASSUME NEW e \in call'[c].todo, ~Lapsed(c)
        PROVE  /\ status'[e] = "leased" /\ leasedBy'[e] = call'[c].key
               /\ leaseUntil'[e] = call'[c].at + LeaseDuration
    BY <2>1, <2>4, LeaseKept DEF LeasesInv, Owns
  <2> QED
    BY <2>1, <2>2, <2>3, <2>4, LeasesStep DEF Lapsed
<1>15. ASSUME NEW c \in Calls, Crash(c)
       PROVE  LeasesInv'
  BY <1>4, <1>15 DEF Crash
<1> QED
  BY <1>2, <1>3, <1>6, <1>7, <1>9, <1>11, <1>12, <1>13, <1>14, <1>15
     DEF Next, RunStep, RecoveryStep, Tick, Calls, vars

\* With one clock no two calls hand an event to the broker while the lease of
\* each still runs, whatever crashed, lapsed or was reclaimed before.
THEOREM OnePublisher ==
    ASSUME ClockSkew = 0
    PROVE  Spec => []OnePublisherPerLiveLease
<1> DEFINE Inv == KeysAndAnswers /\ WorkInv /\ LeasesInv
<1>1. Init => Inv
  <2> SUFFICES ASSUME Init PROVE Inv
    OBVIOUS
  <2>1. \A c \in Calls : call[c].pc = "idle" /\ call[c].todo = {}
    BY DEF Init, NoCall, Begun
  <2> QED
    BY <2>1, KeysAndAnswersInit, WorkInit DEF LeasesInv, Running
<1>2. Inv /\ [Next]_vars => Inv'
  BY TypeOKNext, AnswerKnownNext, KeysNext, WorkNext, LeasesNext DEF KeysAndAnswers
<1>3. Inv => OnePublisherPerLiveLease
  <2> SUFFICES ASSUME Inv, NEW c \in Calls, NEW d \in Calls, NEW e \in Events, c # d,
                      e \in call[c].todo, e \in call[d].todo, ~Lapsed(c), ~Lapsed(d)
               PROVE  FALSE
    BY DEF OnePublisherPerLiveLease, Lapsed
  <2>1. Owns(e, call[c].key) /\ Owns(e, call[d].key)
    BY DEF LeasesInv
  <2>2. Holding(c) /\ Holding(d)
    BY DEF WorkInv, Holding, Running
  <2> QED
    BY <2>1, <2>2 DEF KeysAndAnswers, KeysInv, KeysApart, Owns
<1> QED
  BY <1>1, <1>2, <1>3, PTL DEF Spec

-----------------------------------------------------------------------------
(* The runs and re-drives keep the promise of OutboxPromise, whatever the  *)
(* clocks say.                                                             *)

PromiseInv == KeysAndAnswers /\ WorkInv /\ IsFiniteSet(audit)

Unsettled == {"pending", "leased", "failed"}

LEMMA AuditFinite ==
    ASSUME IsFiniteSet(audit), [Next]_vars
    PROVE  IsFiniteSet(audit')
<1>1. ASSUME NEW c \in RecoveryCalls, ClaimDeadLetter(c)
      PROVE  IsFiniteSet(audit')
  <2>1. PICK x : UNCHANGED audit \/ audit' = audit \cup {x}
    BY <1>1 DEF ClaimDeadLetter, RejectRecovery, AcceptRecovery
  <2> QED
    BY <2>1, FS_AddElement
<1>2. UNCHANGED audit => IsFiniteSet(audit')
  OBVIOUS
<1> QED
  BY <1>1, <1>2
     DEF Next, RunStep, RecoveryStep, Tick, AppendEvent, BeginRun, ClaimBatch, Publish,
         MarkDelivery, BeginRecovery, LookupRecovery, MarkRecovery, Crash, vars

LEMMA PromiseQuiet ==
    ASSUME UNCHANGED <<status, acked, audit>>
    PROVE  UNCHANGED Promise!promiseVars
BY DEF Promise!promiseVars, PostureOf, RecoveriesOf

\* Moving rows among those that still are to be delivered shows nothing.
LEMMA PromiseUnsettled ==
    ASSUME UNCHANGED <<acked, audit>>,
           \A e \in Events : \/ status'[e] = status[e]
                             \/ status[e] \in Unsettled /\ status'[e] \in Unsettled
    PROVE  UNCHANGED Promise!promiseVars
<1>1. \A e \in Events : PostureOf(e)' = PostureOf(e)
  BY DEF PostureOf, Unsettled
<1> QED
  BY <1>1 DEF Promise!promiseVars, RecoveriesOf

\* One row that is appended, settled or given up on.
LEMMA PromiseRow ==
    ASSUME NEW e \in Events, UNCHANGED <<acked, audit>>,
           \A f \in Events \ {e} : status'[f] = status[f],
           \/ status[e] = "absent" /\ status'[e] = "pending"
           \/ status[e] \in Unsettled /\ status'[e] = "published" /\ acked[e] # {}
           \/ status[e] \in Unsettled /\ status'[e] = "dead_letter"
    PROVE  Promise!PromiseNext
<1>1. \A f \in Events \ {e} : PostureOf(f)' = PostureOf(f)
  BY DEF PostureOf
<1>2. UNCHANGED <<{f \in Events : acked[f] # {}},
                  [f \in Events |-> Cardinality(RecoveriesOf(f))]>>
  BY DEF RecoveriesOf
<1>3. CASE status[e] = "absent" /\ status'[e] = "pending"
  <2>1. PostureOf(e) = "absent" /\ PostureOf(e)' = "pending"
    BY <1>3 DEF PostureOf
  <2>2. Promise!Accept(e)
    BY <1>1, <1>2, <2>1 DEF Promise!Accept
  <2> QED
    BY <2>2 DEF Promise!PromiseNext
<1>4. CASE status[e] \in Unsettled /\ status'[e] = "published" /\ acked[e] # {}
  <2>1. PostureOf(e) = "pending" /\ PostureOf(e)' = "published"
    BY <1>4 DEF PostureOf, Unsettled
  <2>2. Promise!Settle(e)
    BY <1>1, <1>2, <1>4, <2>1 DEF Promise!Settle
  <2> QED
    BY <2>2 DEF Promise!PromiseNext
<1>5. CASE status[e] \in Unsettled /\ status'[e] = "dead_letter"
  <2>1. PostureOf(e) = "pending" /\ PostureOf(e)' = "quarantined"
    BY <1>5 DEF PostureOf, Unsettled
  <2>2. Promise!Quarantine(e)
    BY <1>1, <1>2, <2>1 DEF Promise!Quarantine
  <2> QED
    BY <2>2 DEF Promise!PromiseNext
<1> QED
  BY <1>3, <1>4, <1>5

LEMMA PromisePublish ==
    ASSUME PromiseInv, NEW c \in Calls, Publish(c)
    PROVE  [Promise!PromiseNext]_Promise!promiseVars
<1>1. PICK e \in call[c].todo, ok \in BOOLEAN :
         acked' = IF ok THEN [acked EXCEPT ![e] = @ \cup {call[c].key}] ELSE acked
  BY DEF Publish
<1>2. UNCHANGED <<status, audit>> /\ e \in Events /\ status[e] # "absent"
  BY DEF Publish, row, PromiseInv, KeysAndAnswers, TypeOK, CallType, WorkInv
<1>3. CASE ok
  <2>1. /\ \A f \in Events \ {e} : acked'[f] = acked[f]
        /\ acked'[e] # {}
    BY <1>1, <1>2, <1>3 DEF PromiseInv, KeysAndAnswers, TypeOK
  <2>2. {f \in Events : acked[f] # {}}' = {f \in Events : acked[f] # {}} \cup {e}
    BY <1>2, <2>1
  <2>3. \A f \in Events : PostureOf(f)' = PostureOf(f)
    BY <1>2 DEF PostureOf
  <2>4. PostureOf(e) # "absent"
    BY <1>2 DEF PostureOf
  <2>5. UNCHANGED [f \in Events |-> Cardinality(RecoveriesOf(f))]
    BY <1>2 DEF RecoveriesOf
  <2>6. Promise!Deliver(e)
    BY <1>2, <2>2, <2>3, <2>4, <2>5 DEF Promise!Deliver
  <2> QED
    BY <1>2, <2>6 DEF Promise!PromiseNext
<1>4. CASE ~ok
  BY <1>1, <1>2, <1>4, PromiseQuiet
<1> QED
  BY <1>3, <1>4

LEMMA PromiseMark ==
    ASSUME PromiseInv, NEW c \in Calls, MarkDelivery(c) \/ MarkRecovery(c)
    PROVE  [Promise!PromiseNext]_Promise!promiseVars
<1> DEFINE s == call[c].sending
<1>1. /\ call[c].pc = "mark" /\ RecordOutcome(c) /\ UNCHANGED <<acked, audit>>
      /\ s \in Events /\ status \in [Events -> Statuses]
      /\ call[c].accepted => acked[s] # {}
  BY DEF MarkDelivery, MarkRecovery, broker, PromiseInv, KeysAndAnswers, TypeOK, RowsOK,
         CallOK, Running, AnswerKnown
<1>2. CASE UNCHANGED row
  BY <1>1, <1>2, PromiseQuiet DEF row
<1>3. CASE Owns(s, call[c].key) /\ call[c].accepted /\ MarkPublished(s)
  <2>1. /\ status[s] \in Unsettled /\ status'[s] = "published"
        /\ \A f \in Events \ {s} : status'[f] = status[f]
    BY <1>1, <1>3 DEF Owns, MarkPublished, Unsettled
  <2> HIDE DEF s
  <2> QED
    BY <1>1, <1>3, <2>1, PromiseRow
<1>4. CASE Owns(s, call[c].key) /\ MarkFailed(s, call[c].at, call[c].limit)
  <2>1. /\ status[s] \in Unsettled /\ status'[s] \in {"failed", "dead_letter"}
        /\ \A f \in Events \ {s} : status'[f] = status[f]
    BY <1>1, <1>4 DEF Owns, MarkFailed, Unsettled
  <2> HIDE DEF s
  <2>2. CASE status'[s] = "failed"
    BY <1>1, <2>1, <2>2, PromiseUnsettled DEF Unsettled
  <2>3. CASE status'[s] = "dead_letter"
    BY <1>1, <2>1, <2>3, PromiseRow
  <2> QED
    BY <2>1, <2>2, <2>3
<1> QED
  BY <1>1, <1>2, <1>3, <1>4 DEF RecordOutcome

LEMMA PromiseRedrive ==
    ASSUME PromiseInv, NEW c \in RecoveryCalls, ClaimDeadLetter(c)
    PROVE  [Promise!PromiseNext]_Promise!promiseVars
<1>0. PICK e \in Events : e = call[c].target
  BY RecoveryKnows DEF ClaimDeadLetter, Running, PromiseInv, KeysAndAnswers
<1>1. UNCHANGED acked
  BY DEF ClaimDeadLetter, broker
<1> DEFINE granted == [event |-> e, key |-> call[c].key]
<1>2. \/ UNCHANGED <<row, audit>>
      \/ /\ status[e] = "dead_letter"
         /\ Cardinality(RecoveriesOf(e)) < MaxRecoveries
         /\ \A r \in audit : r.key # call[c].key
         /\ audit' = audit \cup {granted}
         /\ Lease({e}, call[c].key, call[c].at + LeaseDuration)
  BY <1>0 DEF ClaimDeadLetter, RejectRecovery, AcceptRecovery
<1>3. CASE UNCHANGED <<row, audit>>
  BY <1>1, <1>3, PromiseQuiet DEF row
<1>4. CASE /\ status[e] = "dead_letter"
           /\ Cardinality(RecoveriesOf(e)) < MaxRecoveries
           /\ \A r \in audit : r.key # call[c].key
           /\ audit' = audit \cup {granted}
           /\ Lease({e}, call[c].key, call[c].at + LeaseDuration)
  <2>1. granted.event = e /\ granted \notin audit
    <3>1. granted.key = call[c].key
      OBVIOUS
    <3> QED
      BY <1>4, <3>1
  <2>2. /\ status'[e] = "leased"
        /\ \A f \in Events \ {e} : status'[f] = status[f]
    BY <1>1, <1>4 DEF Lease
  <2> HIDE DEF granted
  <2>3. \A f \in Events \ {e} : {r \in audit' : r.event = f} = RecoveriesOf(f)
    BY <1>4, <2>1 DEF RecoveriesOf
  <2>4. Cardinality({r \in audit' : r.event = e}) = Cardinality(RecoveriesOf(e)) + 1
    <3>1. IsFiniteSet(RecoveriesOf(e))
      BY FS_Subset DEF PromiseInv, RecoveriesOf
    <3>2. granted \notin RecoveriesOf(e)
      BY <2>1 DEF RecoveriesOf
    <3>3. {r \in audit' : r.event = e} = RecoveriesOf(e) \cup {granted}
      BY <1>4, <2>1 DEF RecoveriesOf
    <3>4. PICK S : S = RecoveriesOf(e)
      OBVIOUS
    <3> QED
      BY <3>1, <3>2, <3>3, <3>4, FS_AddElement
  <2>5. /\ PostureOf(e) = "quarantined" /\ PostureOf(e)' = "pending"
        /\ \A f \in Events \ {e} : PostureOf(f)' = PostureOf(f)
    BY <1>4, <2>2 DEF PostureOf
  <2>6. /\ Cardinality(RecoveriesOf(e))' = Cardinality(RecoveriesOf(e)) + 1
        /\ \A f \in Events \ {e} : Cardinality(RecoveriesOf(f))' = Cardinality(RecoveriesOf(f))
    BY <2>3, <2>4 DEF RecoveriesOf
  <2>7. Promise!Redrive(e)
    BY <1>1, <1>4, <2>5, <2>6 DEF Promise!Redrive
  <2> QED
    BY <1>1, <2>7 DEF Promise!PromiseNext
<1> QED
  BY <1>2, <1>3, <1>4

LEMMA PromiseClaim ==
    ASSUME PromiseInv, NEW c \in DeliveryCalls, ClaimBatch(c)
    PROVE  UNCHANGED Promise!promiseVars
<1>1. PICK S \in SUBSET {e \in Events : Ready(e, call[c].at, call[c].limit)} :
         Lease(S, call[c].key, call[c].at + LeaseDuration)
  BY DEF ClaimBatch, OldestOf
<1>2. \A e \in S : status[e] \in Unsettled /\ status'[e] = "leased"
  BY <1>1 DEF Ready, Unsettled, Lease
<1>3. \A e \in Events \ S : status'[e] = status[e]
  BY <1>1 DEF Lease
<1> QED
  BY <1>2, <1>3, PromiseUnsettled DEF ClaimBatch, broker, Unsettled

LEMMA PromiseStep ==
    PromiseInv /\ [Next]_vars => [Promise!PromiseNext]_Promise!promiseVars
<1> SUFFICES ASSUME PromiseInv, [Next]_vars
             PROVE  [Promise!PromiseNext]_Promise!promiseVars
  OBVIOUS
<1>1. CASE UNCHANGED <<row, broker, audit>>
  BY <1>1, PromiseQuiet DEF row, broker
<1>2. ASSUME NEW e \in Events, AppendEvent(e)
      PROVE  Promise!PromiseNext
  <2>1. /\ status[e] = "absent" /\ status'[e] = "pending" /\ UNCHANGED <<acked, audit>>
        /\ \A f \in Events \ {e} : status'[f] = status[f]
    BY <1>2 DEF AppendEvent, broker, PromiseInv, KeysAndAnswers, TypeOK, RowsOK
  <2> QED
    BY <2>1, PromiseRow
<1> QED
  BY <1>1, <1>2, PromiseClaim, PromisePublish, PromiseMark, PromiseRedrive
     DEF Next, RunStep, RecoveryStep, Tick, BeginRun, BeginRecovery, LookupRecovery,
         Crash, Calls, vars

\* At-least-once delivery, an explicit quarantine and bounded re-drives: every
\* step of the runs, the re-drives and the crashes is one of OutboxPromise, or
\* shows nothing.
THEOREM PromiseImplemented == Spec => ImplementsPromise
<1>1. Init => PromiseInv
  BY KeysAndAnswersInit, WorkInit, FS_EmptySet DEF Init, PromiseInv
<1>2. PromiseInv /\ [Next]_vars => PromiseInv'
  BY TypeOKNext, AnswerKnownNext, KeysNext, WorkNext, AuditFinite
     DEF PromiseInv, KeysAndAnswers
<1>3. Init => Promise!PromiseInit
  BY FS_EmptySet DEF Init, Promise!PromiseInit, PostureOf, RecoveriesOf
<1> QED
  BY <1>1, <1>2, <1>3, PromiseStep, PTL DEF Spec, ImplementsPromise, Promise!PromiseSpec

-----------------------------------------------------------------------------
(* What the promise gives a consumer of the outbox.                        *)

\* What is recorded as published has reached the broker.
PublishedWasAccepted == \A e \in Events : status[e] = "published" => acked[e] # {}

\* At least once: whatever crashed, expired, was repeated or re-driven, an event
\* is recorded as published only if the broker accepted it.  From the promise.
THEOREM AtLeastOnce == Spec => []PublishedWasAccepted
<1> DEFINE Told == \A e \in Events : PostureOf(e) = "published" => acked[e] # {}
<1>1. Promise!PromiseInit => Told
  BY DEF Promise!PromiseInit
<1>2. Told /\ [Promise!PromiseNext]_(Promise!promiseVars) => Told'
  <2> SUFFICES ASSUME Told, [Promise!PromiseNext]_(Promise!promiseVars),
                      NEW e \in Events, PostureOf(e)' = "published"
               PROVE  acked'[e] # {}
    OBVIOUS
  <2> DEFINE P == [f \in Events |-> PostureOf(f)]
             D == {f \in Events : acked[f] # {}}
  <2>1. P[e] = "published" => e \in D
    OBVIOUS
  <2>2. P'[e] = "published" /\ (e \in D' => acked'[e] # {})
    OBVIOUS
  <2>3. D \subseteq D' /\ (P'[e] = "published" => P[e] = "published" \/ e \in D)
    <3> HIDE DEF P, D
    <3>1. CASE UNCHANGED Promise!promiseVars
      BY <3>1 DEF Promise!promiseVars, P, D
    <3>2. ASSUME NEW f \in Events,
                 \/ Promise!Accept(f) \/ Promise!Deliver(f) \/ Promise!Settle(f)
                 \/ Promise!Quarantine(f) \/ Promise!Redrive(f)
          PROVE  D \subseteq D' /\ (P'[e] = "published" => P[e] = "published" \/ e \in D)
      <4>1. CASE Promise!Deliver(f)
        BY <4>1 DEF Promise!Deliver, P, D
      <4>2. CASE \/ Promise!Accept(f) \/ Promise!Settle(f)
                 \/ Promise!Quarantine(f) \/ Promise!Redrive(f)
        <5>1. D' = D
          BY <4>2 DEF Promise!Accept, Promise!Settle, Promise!Quarantine, Promise!Redrive, D
        <5>2. \E x : /\ P' = [P EXCEPT ![f] = x]
                     /\ x = "published" => f \in D
          BY <4>2 DEF Promise!Accept, Promise!Settle, Promise!Quarantine, Promise!Redrive, P, D
        <5>3. DOMAIN P = Events
          BY DEF P
        <5> QED
          BY <5>1, <5>2, <5>3
      <4> QED
        BY <3>2, <4>1, <4>2
    <3> QED
      BY <3>1, <3>2 DEF Promise!PromiseNext
  <2> HIDE DEF P, D
  <2> QED
    BY <2>1, <2>2, <2>3
<1>3. Told => PublishedWasAccepted
  BY DEF PublishedWasAccepted, PostureOf
<1> HIDE DEF Told
<1> QED
  BY <1>1, <1>2, <1>3, PromiseImplemented, PTL DEF ImplementsPromise, Promise!PromiseSpec

\* No event is taken back: neither a published one, whatever late failure is
\* still to be marked, nor one whose row exists.
NothingTakenBack ==
    [][\A e \in Events :
          /\ status[e] = "published" => status'[e] = "published"
          /\ status[e] # "absent" => status'[e] # "absent"]_vars

\* A late mark, a re-drive or another run never reopens what was published
\* (both marks look at the lease), and no event disappears.
THEOREM PublishedIsFinal == Spec => NothingTakenBack
<1> DEFINE Onward(e) == /\ PostureOf(e) = "published" => PostureOf(e)' = "published"
                        /\ PostureOf(e) # "absent" => PostureOf(e)' # "absent"
<1>1. ASSUME [Promise!PromiseNext]_(Promise!promiseVars), NEW e \in Events
      PROVE  Onward(e)
  <2> DEFINE P == [f \in Events |-> PostureOf(f)]
  <2>1. /\ P[e] = "published" => P'[e] = "published"
        /\ P[e] # "absent" => P'[e] # "absent"
    <3>1. CASE UNCHANGED Promise!promiseVars
      BY <3>1 DEF Promise!promiseVars
    <3>2. ASSUME NEW f \in Events, NEW x, P' = [P EXCEPT ![f] = x],
                 x # "absent", P[f] # "published"
          PROVE  /\ P[e] = "published" => P'[e] = "published"
                 /\ P[e] # "absent" => P'[e] # "absent"
      <4>1. DOMAIN P = Events
        OBVIOUS
      <4> HIDE DEF P
      <4> QED
        BY <3>2, <4>1
    <3>3. ASSUME NEW f \in Events, Promise!Accept(f) \/ Promise!Settle(f)
                                   \/ Promise!Quarantine(f) \/ Promise!Redrive(f)
          PROVE  \E x : P' = [P EXCEPT ![f] = x] /\ x # "absent" /\ P[f] # "published"
      BY <3>3 DEF Promise!Accept, Promise!Settle, Promise!Quarantine, Promise!Redrive
    <3>4. ASSUME NEW f \in Events, Promise!Deliver(f)
          PROVE  P' = P
      BY <3>4 DEF Promise!Deliver
    <3> HIDE DEF P
    <3> QED
      BY <1>1, <3>1, <3>2, <3>3, <3>4 DEF Promise!PromiseNext
  <2> QED
    BY <2>1
<1>2. ASSUME \A e \in Events : Onward(e)
      PROVE  \A e \in Events :
                /\ status[e] = "published" => status'[e] = "published"
                /\ status[e] # "absent" => status'[e] # "absent"
  BY <1>2 DEF PostureOf
<1>3. [Promise!PromiseNext]_(Promise!promiseVars) =>
        [\A e \in Events :
            /\ status[e] = "published" => status'[e] = "published"
            /\ status[e] # "absent" => status'[e] # "absent"]_vars
  BY <1>1, <1>2
<1> HIDE DEF Onward
<1> QED
  BY <1>3, PromiseImplemented, PTL DEF ImplementsPromise, Promise!PromiseSpec, NothingTakenBack
=============================================================================
