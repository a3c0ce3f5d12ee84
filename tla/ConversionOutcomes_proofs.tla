--------------------- MODULE ConversionOutcomes_proofs ---------------------
(***************************************************************************)
(* Proofs about ConversionOutcomes, for any callers, keys, intents,        *)
(* outcome ids, reports and migrated streams.                              *)
(***************************************************************************)
EXTENDS ConversionOutcomes, TLAPS

-----------------------------------------------------------------------------
(* Streams.                                                                *)

\* An outcome that fits after a stream is above every version of it.
LEMMA FitsIsAbove ==
    ASSUME NEW H \in SUBSET Outcome, NEW o \in Outcome, Fits(H, o), NEW p \in H
    PROVE  p.version < o.version
<1>1. PICK q \in Latest(H) : Follows(q, o)
  BY DEF Fits, FitsAfter
<1>2. p.version <= q.version /\ q \in H
  BY DEF Latest
<1>3. p.version \in Nat /\ q.version \in Nat /\ o.version = q.version + 1
  BY <1>1, <1>2 DEF Outcome, Follows
<1> QED
  BY <1>2, <1>3

\* A valid stream with an outcome that fits is valid, and the outcome is its
\* latest.
LEMMA FitsExtends ==
    ASSUME NEW H \in SUBSET Outcome, NEW o \in Outcome, Fits(H, o)
    PROVE  /\ Valid(H \cup {o})
           /\ Latest(H \cup {o}) = {o}
<1>1. \A p \in H : p.version < o.version /\ p.version \in Nat
  BY FitsIsAbove DEF Outcome
<1>2. o.version \in Nat
  BY DEF Outcome
<1>3. {p \in H \cup {o} : p.version < o.version} = H
  BY <1>1, <1>2
<1>4. \A q \in H : {p \in H \cup {o} : p.version < q.version} = {p \in H : p.version < q.version}
  BY <1>1, <1>2
<1>5. Valid(H \cup {o})
  BY <1>3, <1>4 DEF Valid, Fits
<1>6. Latest(H \cup {o}) = {o}
  BY <1>1, <1>2 DEF Latest
<1> QED
  BY <1>5, <1>6

\* A migrated stream that contradicts itself is not valid.
LEMMA ContradictoryIsInvalid ==
    ASSUME NEW H \in SUBSET Outcome, Migrated(H), Contradictory(H)
    PROVE  ~Valid(H)
<1> SUFFICES ASSUME Valid(H) PROVE FALSE
  OBVIOUS
<1>1. PICK o \in H :
        IF o.version = 1
          THEN o.status \notin Opening
          ELSE \E p \in H : p.version = o.version - 1 /\ o.status \notin Onward(p.status)
  BY DEF Contradictory
<1>0. \A x \in H, y \in H : x.version = y.version => x = y
  BY DEF Migrated
<1> DEFINE before == {p \in H : p.version < o.version}
<1>2. FitsAfter(before, o)
  BY DEF Valid
<1>3. o.version \in Nat \ {0} /\ \A p \in H : p.version \in Nat \ {0}
  BY DEF Outcome
<1>4. CASE o.version = 1
  <2>1. before = {}
    BY <1>3, <1>4
  <2> QED
    BY <1>1, <1>2, <1>4, <2>1 DEF FitsAfter, Opens
<1>5. CASE o.version # 1
  <2>1. PICK p \in H : p.version = o.version - 1 /\ o.status \notin Onward(p.status)
    BY <1>1, <1>5
  <2>2. p \in before
    BY <1>3, <2>1
  <2>3. PICK q \in Latest(before) : Follows(q, o)
    BY <1>2, <2>2 DEF FitsAfter
  <2>4. q \in H /\ q.version + 1 = o.version
    BY <2>3 DEF Latest, Follows
  <2>5. q.version = p.version
    BY <1>3, <2>1, <2>4
  <2>6. q = p
    BY <1>0, <2>1, <2>4, <2>5
  <2>7. o.corrects = None
    BY DEF Migrated
  <2> QED
    BY <2>1, <2>3, <2>6, <2>7 DEF Follows
<1> QED
  BY <1>4, <1>5

-----------------------------------------------------------------------------
(* Who writes what.                                                        *)

\* Rows are added one at a time, by the locked write of a call.
LEMMA RowsAdded ==
    ASSUME Next
    PROVE  \/ recorded' = recorded
           \/ \E c \in Callers : /\ At(c, "write_outcome")
                                 /\ Write(c)
                                 /\ recorded' = recorded \cup {call[c].outcome}
BY DEF Next, Step, Begin, Precheck, Reserve, Judge, Acquire, Rule, Write, Retry, Crash, At,
       Writing

\* Keys once recorded stay, and so do rows and the quarantine.
LEMMA RecordStays ==
    ASSUME IInv, Next
    PROVE  /\ recorded \subseteq recorded'
           /\ \A k \in Keys : keys[k] # None => keys'[k] = keys[k]
           /\ quarantine' = quarantine
BY DEF Next, Step, Begin, Precheck, Reserve, Judge, Acquire, Rule, Write, Retry, Crash,
       Collides, IInv, TypeOK

-----------------------------------------------------------------------------
(* Typing.                                                                 *)

LEMMA OverType ==
    ASSUME NEW answer \in Answers
    PROVE  Over(answer) \in Call
BY DEF Over, Call, Busy

LEMMA AnswerType ==
    ASSUME TypeOK, NEW c \in Callers, NEW answer \in Answers, Answer(c, answer)
    PROVE  call' \in [Callers -> Call]
BY OverType DEF Answer, TypeOK

LEMMA GoType ==
    ASSUME TypeOK, NEW c \in Callers, NEW stage \in Busy, Go(c, stage)
    PROVE  call' \in [Callers -> Call]
BY DEF Go, TypeOK, Call

LEMMA UnlockedType ==
    ASSUME TypeOK, NEW c \in Callers
    PROVE  Unlocked(c) \in [Locks -> Callers \cup {None}]
BY DEF Unlocked, TypeOK

LEMMA RepeatType ==
    ASSUME NEW c \in Callers
    PROVE  Repeat(c) \in Answers
BY DEF Repeat, Answers

LEMMA BusyOutcome ==
    ASSUME IInv, NEW c \in Callers, call[c].stage \in Busy
    PROVE  /\ call[c].outcome \in Reports /\ call[c].outcome \in Outcome
           /\ call[c].key \in Keys
BY OutcomesAssumption DEF IInv, CallsOK, CallOK, OutcomesAssumption

LEMMA TypeInit == Init => TypeOK
<1> SUFFICES ASSUME Init PROVE TypeOK
  OBVIOUS
<1>1. recorded \subseteq Outcome /\ quarantine \subseteq Intents
  BY OutcomesAssumption DEF Init, OutcomesAssumption
<1>2. Over("none") \in Call
  BY OverType DEF Answers
<1> QED
  BY <1>1, <1>2 DEF Init, TypeOK

LEMMA TypeNext ==
    ASSUME IInv, [Next]_vars
    PROVE  TypeOK'
<1> USE DEF IInv
<1>1. CASE UNCHANGED vars
  BY <1>1 DEF vars, TypeOK
<1>2. ASSUME NEW c \in Callers, Begin(c) PROVE TypeOK'
  <2>1. PICK o \in Reports, k \in Keys :
          call' = [call EXCEPT ![c] = [stage |-> "precheck", outcome |-> o, key |-> k,
                                      attempt |-> 1, answer |-> "none"]]
    BY <1>2 DEF Begin
  <2>2. [stage |-> "precheck", outcome |-> o, key |-> k, attempt |-> 1, answer |-> "none"]
          \in Call
    BY DEF Call, Busy, Answers
  <2> QED
    BY <1>2, <2>1, <2>2 DEF Begin, TypeOK
<1>3. ASSUME NEW c \in Callers, Precheck(c) PROVE TypeOK'
  <2>1. call' \in [Callers -> Call]
    <3>1. CASE Answer(c, Repeat(c))
      BY <3>1, AnswerType, RepeatType
    <3>2. CASE Go(c, "judge") \/ Go(c, "reserve")
      BY <3>2, GoType DEF Busy
    <3>3. CASE Answer(c, "conflict")
      BY <3>3, AnswerType DEF Answers
    <3> QED
      BY <1>3, <3>1, <3>2, <3>3 DEF Precheck
  <2> QED
    BY <1>3, <2>1 DEF Precheck, TypeOK
<1>4. ASSUME NEW c \in Callers, Reserve(c) PROVE TypeOK'
  <2>1. call' \in [Callers -> Call]
    <3>1. CASE Answer(c, Repeat(c))
      BY <3>1, AnswerType, RepeatType
    <3>2. CASE Answer(c, "replayed")
      BY <3>2, AnswerType DEF Answers
    <3> QED
      BY <1>4, <3>1, <3>2 DEF Reserve
  <2>2. call[c].outcome \in Reports
    BY <1>4, BusyOutcome DEF Reserve, At, Busy
  <2>3. keys' \in [Keys -> Reports \cup {None}]
    BY <1>4, <2>2 DEF Reserve, TypeOK
  <2> QED
    BY <1>4, <2>1, <2>3 DEF Reserve, TypeOK
<1>5. ASSUME NEW c \in Callers, Judge(c) PROVE TypeOK'
  <2>1. call' \in [Callers -> Call]
    <3>1. CASE Answer(c, "untimely") \/ Answer(c, "conflict")
      BY <3>1, AnswerType DEF Answers
    <3>2. CASE Go(c, "locking")
      BY <3>2, GoType DEF Busy
    <3> QED
      BY <1>5, <3>1, <3>2 DEF Judge
  <2> QED
    BY <1>5, <2>1 DEF Judge, TypeOK
<1>6. ASSUME NEW c \in Callers, Acquire(c) PROVE TypeOK'
  BY <1>6 DEF Acquire, TypeOK
<1>7. ASSUME NEW c \in Callers, Rule(c) PROVE TypeOK'
  <2>1. call' \in [Callers -> Call]
    <3>1. CASE Answer(c, Repeat(c))
      BY <3>1, AnswerType, RepeatType
    <3>2. CASE Go(c, "write_key") \/ Go(c, "write_outcome")
      BY <3>2, GoType DEF Busy
    <3>3. CASE Answer(c, "conflict")
      BY <3>3, AnswerType DEF Answers
    <3> QED
      BY <1>7, <3>1, <3>2, <3>3 DEF Rule
  <2>2. holder' \in [Locks -> Callers \cup {None}]
    BY <1>7, UnlockedType DEF Rule, TypeOK
  <2> QED
    BY <1>7, <2>1, <2>2 DEF Rule, TypeOK
<1>8. ASSUME NEW c \in Callers, Write(c) PROVE TypeOK'
  <2>1. call[c].outcome \in Reports /\ call[c].outcome \in Outcome
    BY <1>8, BusyOutcome DEF Write, Writing, Busy
  <2>2. call' \in [Callers -> Call]
    BY <1>8, AnswerType DEF Write, Answers
  <2>3. keys' \in [Keys -> Reports \cup {None}] /\ recorded' \subseteq Outcome
    BY <1>8, <2>1 DEF Write, TypeOK
  <2> QED
    BY <1>8, <2>2, <2>3, UnlockedType DEF Write, TypeOK
<1>9. ASSUME NEW c \in Callers, Retry(c) PROVE TypeOK'
  <2>1. CASE Answer(c, "fault")
    BY <1>9, <2>1, AnswerType, UnlockedType DEF Retry, TypeOK, Answers
  <2>2. CASE call' = [call EXCEPT ![c].attempt = 2, ![c].stage = "locking"]
    <3> DEFINE new == [call[c] EXCEPT !.attempt = 2, !.stage = "locking"]
    <3>2. call[c] \in Call /\ call \in [Callers -> Call]
      BY DEF TypeOK
    <3>3. new \in Call
      BY <3>2 DEF Call, Busy
    <3>4. call' = [call EXCEPT ![c] = new]
      BY <2>2, <3>2
    <3>1. call' \in [Callers -> Call]
      BY <3>2, <3>3, <3>4
    <3> QED
      BY <1>9, <3>1, UnlockedType DEF Retry, TypeOK
  <2> QED
    BY <1>9, <2>1, <2>2 DEF Retry
<1>10. ASSUME NEW c \in Callers, Crash(c) PROVE TypeOK'
  BY <1>10, AnswerType, UnlockedType DEF Crash, TypeOK, Answers
<1> QED
  BY <1>1, <1>2, <1>3, <1>4, <1>5, <1>6, <1>7, <1>8, <1>9, <1>10 DEF Next, Step

-----------------------------------------------------------------------------
(* What a call knows.                                                      *)

\* What every step leaves of the other calls.
LEMMA OthersWait ==
    ASSUME IInv, NEW c \in Callers, NEW d \in Callers, d # c,
           Begin(c) \/ Step(c) \/ Acquire(c) \/ Crash(c)
    PROVE  /\ call'[d] = call[d]
           /\ \A x \in Locks : holder[x] = d => holder'[x] = d
<1> USE DEF IInv, TypeOK
<1>1. call'[d] = call[d]
  BY DEF Begin, Step, Precheck, Reserve, Judge, Acquire, Rule, Write, Retry, Crash, Go, Answer
<1>2. d # None
  BY OutcomesAssumption DEF OutcomesAssumption
<1>3. \A x \in Locks : holder[x] = d => Unlocked(c)[x] = d
  BY DEF Unlocked
<1>4. \A x \in Locks : holder[x] = d => holder'[x] = d
  <2>1. CASE UNCHANGED holder \/ holder' = Unlocked(c)
    BY <1>3, <2>1
  <2>2. CASE Acquire(c)
    BY <1>2, <2>2 DEF Acquire
  <2> QED
    BY <2>1, <2>2 DEF Begin, Step, Precheck, Reserve, Judge, Rule, Write, Retry, Crash
<1> QED
  BY <1>1, <1>4

\* The locks named in an outcome are locks.
LEMMA NamedLocks ==
    ASSUME NEW o \in Outcome
    PROVE  <<"intent", o.intent>> \in Locks /\ <<"outcome", o.id>> \in Locks
BY DEF Locks, Outcome

\* Two calls about to write an outcome differ in its intent and its id.
LEMMA WritersDiffer ==
    ASSUME IInv, NEW c \in Callers, NEW d \in Callers, d # c,
           call[c].stage \in Writing, call[d].stage \in Writing
    PROVE  /\ call[c].outcome.intent # call[d].outcome.intent
           /\ call[c].outcome.id # call[d].outcome.id
<1>1. ASSUME NEW e \in Callers, call[e].stage \in Writing
      PROVE  /\ holder[<<"intent", call[e].outcome.intent>>] = e
             /\ holder[<<"outcome", call[e].outcome.id>>] = e
  BY <1>1 DEF IInv, CallsOK, CallOK
<1> QED
  BY <1>1

\* Another call's step leaves what a call knows.
LEMMA OthersKeep ==
    ASSUME IInv, NEW c \in Callers, NEW d \in Callers, d # c,
           Begin(c) \/ Step(c) \/ Acquire(c) \/ Crash(c), TypeOK'
    PROVE  CallOK(d)'
<1> DEFINE me == call[d]
<1>1. /\ call'[d] = me
      /\ \A x \in Locks : holder[x] = d => holder'[x] = d
  BY OthersWait
<1>2. CallOK(d)
  BY DEF IInv, CallsOK
<1>3. Next
  BY DEF Next
<1>4. /\ recorded \subseteq recorded'
      /\ \A k \in Keys : keys[k] # None => keys'[k] = keys[k]
  BY <1>3, RecordStays
<1>5. me.stage \in Busy => me.outcome \in Outcome /\ me.outcome \in Reports /\ me.key \in Keys
  BY BusyOutcome
<1>6. me.stage \in Writing =>
        /\ holder'[<<"intent", me.outcome.intent>>] = d
        /\ holder'[<<"outcome", me.outcome.id>>] = d
  BY <1>1, <1>2, <1>5, NamedLocks DEF CallOK, Writing, Busy
<1>7. me.stage = "write_outcome" =>
        /\ {p \in recorded' : p.id = me.outcome.id} = {p \in recorded : p.id = me.outcome.id}
        /\ Stream(recorded', me.outcome.intent) = Stream(recorded, me.outcome.intent)
  <2> SUFFICES ASSUME me.stage = "write_outcome", recorded' # recorded
               PROVE  /\ {p \in recorded' : p.id = me.outcome.id}
                            = {p \in recorded : p.id = me.outcome.id}
                      /\ Stream(recorded', me.outcome.intent)
                            = Stream(recorded, me.outcome.intent)
    OBVIOUS
  <2>1. call[c].stage \in Writing /\ recorded' \subseteq recorded \cup {call[c].outcome}
    BY DEF Begin, Step, Precheck, Reserve, Judge, Acquire, Rule, Write, Retry, Crash
  <2>2. /\ call[c].outcome.intent # me.outcome.intent
        /\ call[c].outcome.id # me.outcome.id
    BY <2>1, WritersDiffer DEF Writing
  <2> QED
    BY <1>4, <2>1, <2>2 DEF Stream
<1>8. me.attempt = 2 => me.stage = "locking" /\ keys'[me.key] # None
  BY <1>2, <1>4, <1>5 DEF CallOK, Busy
<1>9. me.stage = "write_outcome" =>
        /\ {p \in recorded' : p.id = me.outcome.id} = {}
        /\ Fits(Stream(recorded', me.outcome.intent), me.outcome)
  BY <1>2, <1>7 DEF CallOK, SameId
<1>10. me.stage \in {"reserve", "write_key"} => me.outcome \in recorded'
  BY <1>2, <1>4 DEF CallOK
<1> HIDE DEF me
<1> QED
  BY <1>1, <1>2, <1>5, <1>6, <1>8, <1>9, <1>10 DEF CallOK, SameId, me

\* A call that is over knows nothing.
LEMMA OverOK ==
    ASSUME IInv, NEW c \in Callers, NEW answer \in Answers \ {"fault"}, Answer(c, answer)
    PROVE  CallOK(c)'
<1>1. call'[c] = Over(answer)
  BY DEF Answer, IInv, TypeOK
<1>2. /\ Over(answer).stage = "idle" /\ Over(answer).attempt = 1
      /\ Over(answer).answer = answer
  BY DEF Over
<1> QED
  BY <1>1, <1>2 DEF CallOK, Busy, Writing

\* Going on changes the stage alone.
LEMMA GoFields ==
    ASSUME IInv, NEW c \in Callers, NEW stage \in Busy, Go(c, stage)
    PROVE  /\ call'[c].stage = stage
           /\ call'[c].outcome = call[c].outcome
           /\ call'[c].key = call[c].key
           /\ call'[c].attempt = call[c].attempt
           /\ call'[c].answer = call[c].answer
<1>1. call \in [Callers -> Call] /\ call[c] \in Call
  BY DEF IInv, TypeOK
<1> QED
  BY <1>1 DEF Go, Call

\* A call about to write never finds the row it is about to write, and at a
\* second attempt it is not about to write.
LEMMA CollidesByKey ==
    ASSUME IInv, NEW c \in Callers, call[c].stage \in Writing, Collides(c)
    PROVE  keys[call[c].key] # None /\ call[c].attempt = 1
<1> DEFINE o == call[c].outcome
<1>1. CallOK(c) /\ call[c] \in Call
  BY DEF IInv, CallsOK, TypeOK
<1>2. call[c].attempt = 1
  BY <1>1 DEF CallOK, Writing, Call
<1>3. o \in Outcome
  BY BusyOutcome DEF Writing, Busy
<1>4. ASSUME call[c].stage = "write_outcome", NEW p \in recorded,
             p.id = o.id \/ (p.intent = o.intent /\ p.version = o.version)
      PROVE  FALSE
  <2>1. SameId(o) = {} /\ Fits(Stream(recorded, o.intent), o)
    BY <1>1, <1>4 DEF CallOK
  <2>2. p.id # o.id
    BY <2>1 DEF SameId
  <2>3. p \in Stream(recorded, o.intent) /\ Stream(recorded, o.intent) \in SUBSET Outcome
    BY <1>4, <2>2 DEF Stream, IInv, TypeOK
  <2>4. p.version < o.version /\ o.version \in Nat
    BY <1>3, <2>1, <2>3, FitsIsAbove DEF Outcome
  <2> QED
    BY <1>4, <2>2, <2>4
<1> QED
  BY <1>2, <1>4 DEF Collides, At

\* A call's own step leaves it knowing what its next stage needs.
LEMMA OwnOK ==
    ASSUME IInv, NEW c \in Callers, Begin(c) \/ Step(c) \/ Acquire(c) \/ Crash(c)
    PROVE  CallOK(c)'
<1> DEFINE o == call[c].outcome
           k == call[c].key
<1>0. /\ CallOK(c) /\ call[c] \in Call /\ call \in [Callers -> Call]
      /\ KeysRecorded /\ recorded \subseteq Outcome
  BY DEF IInv, CallsOK, TypeOK
<1>a. call[c].stage \in Busy => o \in Reports /\ o \in Outcome /\ k \in Keys
  BY BusyOutcome
<1>b. Repeat(c) \in Answers \ {"fault"}
  BY DEF Repeat, Answers
<1>c. {"none", "accepted", "replayed", "conflict", "untimely"} \subseteq Answers \ {"fault"}
  BY DEF Answers
<1>1. CASE Begin(c)
  <2>1. PICK p \in Reports, q \in Keys :
          call' = [call EXCEPT ![c] = [stage |-> "precheck", outcome |-> p, key |-> q,
                                      attempt |-> 1, answer |-> "none"]]
    BY <1>1 DEF Begin
  <2>2. call'[c] = [stage |-> "precheck", outcome |-> p, key |-> q, attempt |-> 1,
                    answer |-> "none"]
    BY <1>0, <2>1
  <2> QED
    BY <2>2 DEF CallOK, Busy, Writing
<1>2. CASE Precheck(c)
  <2>1. CASE Answer(c, Repeat(c)) \/ Answer(c, "conflict")
    BY <1>b, <1>c, <2>1, OverOK
  <2>2. CASE o \in recorded /\ Go(c, "reserve")
    <3>1. call'[c].stage = "reserve" /\ call'[c].outcome = o /\ call'[c].key = k
          /\ call'[c].attempt = call[c].attempt /\ call'[c].answer = call[c].answer
      BY <2>2, GoFields DEF Busy
    <3>2. recorded' = recorded /\ call[c].stage = "precheck"
      BY <1>2 DEF Precheck, At
    <3> QED
      BY <1>0, <1>a, <2>2, <3>1, <3>2 DEF CallOK, Busy, Writing
  <2>3. CASE Go(c, "judge")
    <3>1. call'[c].stage = "judge" /\ call'[c].outcome = o /\ call'[c].key = k
          /\ call'[c].attempt = call[c].attempt /\ call'[c].answer = call[c].answer
      BY <2>3, GoFields DEF Busy
    <3>2. call[c].stage = "precheck"
      BY <1>2 DEF Precheck, At
    <3> QED
      BY <1>0, <1>a, <3>1, <3>2 DEF CallOK, Busy, Writing
  <2> QED
    BY <1>2, <2>1, <2>2, <2>3 DEF Precheck
<1>3. CASE Reserve(c)
  BY <1>3, <1>b, <1>c, OverOK DEF Reserve
<1>4. CASE Judge(c)
  <2>1. CASE Answer(c, "untimely") \/ Answer(c, "conflict")
    BY <1>c, <2>1, OverOK
  <2>2. CASE Go(c, "locking")
    <3>1. call'[c].stage = "locking" /\ call'[c].outcome = o /\ call'[c].key = k
          /\ call'[c].attempt = call[c].attempt /\ call'[c].answer = call[c].answer
      BY <2>2, GoFields DEF Busy
    <3>2. call[c].stage = "judge"
      BY <1>4 DEF Judge, At
    <3> QED
      BY <1>0, <1>a, <3>1, <3>2 DEF CallOK, Busy, Writing
  <2> QED
    BY <1>4, <2>1, <2>2 DEF Judge
<1>5. CASE Acquire(c)
  <2>1. call' = call /\ keys' = keys /\ recorded' = recorded /\ call[c].stage = "locking"
    BY <1>5 DEF Acquire, At
  <2> QED
    BY <1>0, <2>1 DEF CallOK, Writing
<1>6. CASE Rule(c)
  <2>0. call[c].stage = "locking" /\ o \in Outcome /\ k \in Keys /\ o \in Reports
    BY <1>6, <1>a DEF Rule, At, Busy
  <2>1. CASE Answer(c, Repeat(c)) \/ Answer(c, "conflict")
    BY <1>b, <1>c, <2>1, OverOK
  <2>2. CASE Go(c, "write_key") \/ Go(c, "write_outcome")
    <3>1. call'[c].outcome = o /\ call'[c].key = k /\ call'[c].stage \in Writing
          /\ call'[c].attempt = call[c].attempt /\ call'[c].answer = call[c].answer
          /\ (call'[c].stage = "write_key" => Go(c, "write_key"))
          /\ (call'[c].stage = "write_outcome" => Go(c, "write_outcome"))
      BY <2>2, GoFields DEF Busy, Writing
    <3>2. keys[k] = None
      <4>1. SUFFICES ASSUME keys[k] # None PROVE FALSE
        OBVIOUS
      <4>2. Answer(c, Repeat(c))
        BY <1>6, <4>1 DEF Rule
      <4>3. call'[c].stage = "idle"
        BY <1>0, <4>2 DEF Answer, Over
      <4> QED
        BY <3>1, <4>3 DEF Writing
    <3>3. CASE o \in recorded
      <4>1. Go(c, "write_key") /\ UNCHANGED <<holder, recorded, keys>>
        BY <1>6, <3>2, <3>3 DEF Rule
      <4>2. call'[c].stage = "write_key"
        BY <4>1, GoFields DEF Busy
      <4>3. holder[<<"intent", o.intent>>] = c /\ holder[<<"outcome", o.id>>] = c
        BY <1>6 DEF Rule, HoldsAll, Needed
      <4>4. call'[c].answer = "none"
        BY <1>0, <2>0, <4>1, GoFields DEF CallOK, Busy
      <4> QED
        BY <1>0, <2>0, <3>1, <3>2, <3>3, <4>1, <4>2, <4>3, <4>4 DEF CallOK
    <3>4. CASE o \notin recorded
      <4>1. /\ SameId(o) = {} /\ Fits(Stream(recorded, o.intent), o)
            /\ Go(c, "write_outcome") /\ UNCHANGED <<holder, recorded, keys>>
        <5>1. ASSUME ~(SameId(o) = {} /\ Fits(Stream(recorded, o.intent), o)) PROVE FALSE
          <6>1. Answer(c, "conflict")
            BY <1>6, <3>2, <3>4, <5>1 DEF Rule
          <6>2. call'[c].stage = "idle"
            BY <1>0, <6>1 DEF Answer, Over
          <6> QED
            BY <3>1, <6>2 DEF Writing
        <5> QED
          BY <1>6, <3>2, <3>4, <5>1 DEF Rule
      <4>2. call'[c].stage = "write_outcome"
        BY <4>1, GoFields DEF Busy
      <4>3. holder[<<"intent", o.intent>>] = c /\ holder[<<"outcome", o.id>>] = c
        BY <1>6 DEF Rule, HoldsAll, Needed
      <4>4. call'[c].answer = "none"
        BY <1>0, <2>0, <4>1, GoFields DEF CallOK, Busy
      <4> QED
        BY <1>0, <2>0, <3>1, <3>2, <4>1, <4>2, <4>3, <4>4 DEF CallOK, SameId
    <3> QED
      BY <3>3, <3>4
  <2> QED
    BY <1>6, <2>1, <2>2 DEF Rule
<1>7. CASE Write(c)
  BY <1>7, <1>c, OverOK DEF Write
<1>8. CASE Retry(c)
  <2>1. keys[k] # None /\ call[c].attempt = 1 /\ call[c].stage \in Busy
    BY <1>8, CollidesByKey DEF Retry, Writing, Busy
  <2>2. call' = [call EXCEPT ![c].attempt = 2, ![c].stage = "locking"] /\ keys' = keys
    BY <1>8, <2>1 DEF Retry
  <2>3. call'[c] = [call[c] EXCEPT !.attempt = 2, !.stage = "locking"]
    BY <1>0, <2>2
  <2>4. /\ call'[c].stage = "locking" /\ call'[c].outcome = o /\ call'[c].key = k
        /\ call'[c].answer = call[c].answer
    BY <1>0, <2>3 DEF Call
  <2> QED
    BY <1>0, <1>a, <2>1, <2>2, <2>4 DEF CallOK, Busy, Writing
<1>9. CASE Crash(c)
  BY <1>9, <1>c, OverOK DEF Crash
<1> QED
  BY <1>1, <1>2, <1>3, <1>4, <1>5, <1>6, <1>7, <1>8, <1>9 DEF Step

-----------------------------------------------------------------------------
(* The invariant.                                                          *)

LEMMA InitIInv == Init => IInv
<1> SUFFICES ASSUME Init PROVE IInv
  OBVIOUS
<1>1. TypeOK
  BY TypeInit
<1>2. \A i \in Intents : Migrated(Stream(recorded, i)) /\ Stream(recorded, i) \in SUBSET Outcome
  <2>2. ASSUME NEW i \in Intents, recorded = {} PROVE Migrated(Stream(recorded, i))
    BY <2>2 DEF Migrated, Stream
  <2> QED
    BY <1>1, <2>2, OutcomesAssumption DEF Init, OutcomesAssumption, Stream, TypeOK
<1>3. RowsUnique
  <2> SUFFICES ASSUME NEW o \in recorded, NEW p \in recorded,
                      o.id = p.id \/ (o.intent = p.intent /\ o.version = p.version)
               PROVE  o = p
    BY DEF RowsUnique
  <2>1. CASE o.id = p.id
    BY <2>1, OutcomesAssumption DEF Init, OutcomesAssumption
  <2>2. CASE o.intent = p.intent /\ o.version = p.version
    <3>1. o.intent \in Intents /\ o \in Stream(recorded, o.intent)
          /\ p \in Stream(recorded, o.intent)
      BY <1>1, <2>2 DEF TypeOK, Outcome, Stream
    <3> QED
      BY <1>2, <2>2, <3>1 DEF Migrated
  <2> QED
    BY <2>1, <2>2
<1>4. KeysRecorded
  BY DEF Init, KeysRecorded
<1>5. CallsOK
  <2> SUFFICES ASSUME NEW c \in Callers PROVE CallOK(c)
    BY DEF CallsOK
  <2>1. call[c] = Over("none")
    BY DEF Init
  <2> QED
    BY <2>1 DEF CallOK, Over, Busy, Writing
<1>6. Frozen
  BY <1>2, ContradictoryIsInvalid DEF Frozen, Init
<1> QED
  BY <1>1, <1>3, <1>4, <1>5, <1>6 DEF IInv

\* What the write of an outcome adds.
LEMMA WriteAdds ==
    ASSUME IInv, NEW c \in Callers, At(c, "write_outcome"), Write(c)
    PROVE  /\ call[c].outcome \in Outcome
           /\ Fits(Stream(recorded, call[c].outcome.intent), call[c].outcome)
           /\ recorded' = recorded \cup {call[c].outcome}
<1>1. call[c].stage = "write_outcome"
  BY DEF At
<1>2. call[c].outcome \in Outcome
  BY <1>1, BusyOutcome DEF Busy
<1>3. Fits(Stream(recorded, call[c].outcome.intent), call[c].outcome)
  BY <1>1 DEF IInv, CallsOK, CallOK
<1> QED
  BY <1>1, <1>2, <1>3 DEF Write, At

LEMMA NextIInv ==
    ASSUME IInv, [Next]_vars
    PROVE  IInv'
<1>1. TypeOK'
  BY TypeNext
<1>2. CASE UNCHANGED vars
  BY <1>2, <1>1 DEF IInv, vars, TypeOK, RowsUnique, KeysRecorded, CallsOK, CallOK, Frozen,
                    SameId, Stream
<1>3. CASE Next
  <2>1. PICK c \in Callers : Begin(c) \/ Step(c) \/ Acquire(c) \/ Crash(c)
    BY <1>3 DEF Next
  <2>2. CallsOK'
    <3> SUFFICES ASSUME NEW d \in Callers PROVE CallOK(d)'
      BY DEF CallsOK
    <3> QED
      BY <1>1, <2>1, OwnOK, OthersKeep
  <2>3. RowsUnique'
    <3>1. CASE recorded' = recorded
      BY <3>1 DEF IInv, RowsUnique
    <3>2. ASSUME NEW d \in Callers, At(d, "write_outcome"), Write(d) PROVE RowsUnique'
      <4> DEFINE o == call[d].outcome
      <4>1. recorded' = recorded \cup {o}
        BY <3>2, WriteAdds
      <4>2. \A p \in recorded : p.id # o.id /\ ~(p.intent = o.intent /\ p.version = o.version)
        BY <3>2 DEF Write, Collides
      <4> QED
        BY <4>1, <4>2 DEF IInv, RowsUnique
    <3> QED
      BY <1>3, <3>1, <3>2, RowsAdded
  <2>4. KeysRecorded'
    <3>1. /\ recorded \subseteq recorded'
          /\ KeysRecorded
      BY <1>3, RecordStays DEF IInv
    <3>2. CASE keys' = keys
      BY <3>1, <3>2 DEF KeysRecorded
    <3>3. CASE Reserve(c) \/ Write(c)
      <4>1. call[c].outcome \in recorded'
        BY <3>1, <3>3 DEF Reserve, Write, IInv, CallsOK, CallOK, At, Writing
      <4>2. \A k \in Keys : keys'[k] = keys[k] \/ keys'[k] = call[c].outcome
        BY <3>3 DEF Reserve, Write, IInv, TypeOK
      <4> QED
        BY <3>1, <4>1, <4>2 DEF KeysRecorded
    <3> QED
      BY <2>1, <3>2, <3>3 DEF Begin, Step, Precheck, Judge, Acquire, Rule, Retry, Crash
  <2>5. Frozen'
    <3>1. quarantine' = quarantine /\ Frozen
      BY <1>3, RecordStays DEF IInv
    <3>2. ASSUME NEW d \in Callers, At(d, "write_outcome"), Write(d), NEW i \in quarantine
          PROVE  Stream(recorded', i) = Stream(recorded, i)
      <4>1. i # call[d].outcome.intent
        BY <3>1, <3>2, WriteAdds DEF Fits, Frozen
      <4> QED
        BY <3>2, <4>1, WriteAdds DEF Stream
    <3> QED
      BY <1>3, <3>1, <3>2, RowsAdded DEF Frozen
  <2> QED
    BY <1>1, <2>2, <2>3, <2>4, <2>5 DEF IInv
<1> QED
  BY <1>2, <1>3

THEOREM Invariant == Spec => []IInv
<1>1. Init => IInv
  BY InitIInv
<1>2. IInv /\ [Next]_vars => IInv'
  BY NextIInv
<1> QED
  BY <1>1, <1>2, PTL DEF Spec

-----------------------------------------------------------------------------
(* The properties.                                                         *)

\* Every reachable state is well typed.
THEOREM TypeCorrect == Spec => []TypeOK
BY Invariant, PTL DEF IInv

\* The one retry of a mutation suffices, for any number of calls and keys: a
\* call collides because of its key alone, and the second attempt answers by
\* the key.
THEOREM RetrySuffices == Spec => []RetryWins
<1>1. IInv => RetryWins
  BY DEF IInv, CallsOK, CallOK, RetryWins
<1> QED
  BY <1>1, Invariant, PTL

\* Who is told accepted or replayed was told of a row, and its key names it.
THEOREM SuccessIsRecorded == Spec => AnswersStand
<1>1. ASSUME IInv, [Next]_vars, NEW c \in Callers, Answered(c, {"accepted", "replayed"})
      PROVE  /\ call[c].outcome \in recorded'
             /\ keys'[call[c].key] = call[c].outcome
  <2> DEFINE o == call[c].outcome
             k == call[c].key
  <2>0. /\ call \in [Callers -> Call] /\ keys \in [Keys -> Reports \cup {None}]
        /\ CallOK(c) /\ KeysRecorded
    BY <1>1 DEF IInv, TypeOK, CallsOK
  <2>1. call[c].stage \in Busy /\ call'[c].answer \in {"accepted", "replayed"}
    BY <1>1, <2>0 DEF Answered, At, Call
  <2>2. o \in Reports /\ o \in Outcome /\ k \in Keys /\ o # None
    BY <1>1, <2>1, BusyOutcome, OutcomesAssumption DEF OutcomesAssumption
  <2>3. Over("none").answer = "none" /\ Over("conflict").answer = "conflict"
        /\ Over("untimely").answer = "untimely" /\ Over("fault").answer = "fault"
        /\ Over(Repeat(c)).answer = Repeat(c)
    BY DEF Over
  <2>4. call[c].answer = "none"
    BY <2>0, <2>1 DEF CallOK
  <2>5. CASE Answer(c, Repeat(c)) /\ keys[k] # None /\ keys' = keys /\ recorded' = recorded
    <3>1. Repeat(c) = "replayed"
      BY <2>0, <2>1, <2>3, <2>5 DEF Answer, Repeat
    <3>2. keys[k] = o
      BY <3>1 DEF Repeat
    <3> QED
      BY <2>0, <2>2, <2>5, <3>2 DEF KeysRecorded
  <2>6. CASE /\ o \in recorded' /\ keys' = [keys EXCEPT ![k] = o]
    BY <2>0, <2>2, <2>6
  <2>7. CASE Answer(c, "conflict") \/ Answer(c, "untimely") \/ Answer(c, "fault")
             \/ Answer(c, "none")
    BY <2>0, <2>1, <2>3, <2>7 DEF Answer
  <2>8. CASE call'[c].answer = call[c].answer
    BY <2>1, <2>4, <2>8
  <2>9. ASSUME NEW stage \in Busy, Go(c, stage) PROVE call'[c].answer = call[c].answer
    BY <1>1, <2>9, GoFields
  <2>10. PICK d \in Callers : UNCHANGED vars \/ Begin(d) \/ Step(d) \/ Acquire(d) \/ Crash(d)
    BY <1>1 DEF Next
  <2>11. CASE UNCHANGED vars \/ d # c
    BY <1>1, <2>8, <2>10, <2>11, OthersWait DEF vars
  <2>12. CASE d = c
    <3>1. CASE Begin(c)
      BY <2>1, <3>1 DEF Begin, At, Busy
    <3>2. CASE Precheck(c)
      BY <2>5, <2>7, <2>8, <2>9, <3>2 DEF Precheck, Busy
    <3>3. CASE Reserve(c)
      <4>1. o \in recorded
        BY <2>0, <3>3 DEF Reserve, At, CallOK
      <4> QED
        BY <2>5, <2>6, <3>3, <4>1 DEF Reserve
    <3>4. CASE Judge(c)
      BY <2>7, <2>8, <2>9, <3>4 DEF Judge, Busy
    <3>5. CASE Acquire(c)
      BY <2>8, <3>5 DEF Acquire
    <3>6. CASE Rule(c)
      BY <2>5, <2>7, <2>8, <2>9, <3>6 DEF Rule, Busy
    <3>7. CASE Write(c)
      <4>1. o \in recorded'
        BY <2>0, <3>7 DEF Write, At, CallOK, Writing
      <4> QED
        BY <2>6, <3>7, <4>1 DEF Write
    <3>8. CASE Retry(c)
      <4>1. CASE Answer(c, "fault")
        BY <2>7, <4>1
      <4>2. CASE call' = [call EXCEPT ![c].attempt = 2, ![c].stage = "locking"]
        <5>1. call[c] \in Call
          BY <2>0
        <5>2. call'[c] = [call[c] EXCEPT !.attempt = 2, !.stage = "locking"]
          BY <2>0, <4>2
        <5>3. call'[c].answer = call[c].answer
          BY <5>1, <5>2 DEF Call
        <5> QED
          BY <2>8, <5>3
      <4> QED
        BY <3>8, <4>1, <4>2 DEF Retry
    <3>9. CASE Crash(c)
      BY <2>7, <3>9 DEF Crash
    <3> QED
      BY <2>10, <2>12, <3>1, <3>2, <3>3, <3>4, <3>5, <3>6, <3>7, <3>8, <3>9, <2>11 DEF Step
  <2> QED
    BY <2>11, <2>12
<1>2. IInv /\ [Next]_vars =>
        [\A c \in Callers :
          Answered(c, {"accepted", "replayed"}) =>
              /\ call[c].outcome \in recorded'
              /\ keys'[call[c].key] = call[c].outcome]_vars
  BY <1>1
<1> QED
  BY <1>2, Invariant, PTL DEF Spec, AnswersStand

\* What the migration quarantined is never continued.
THEOREM QuarantineStaysFrozen == Spec => QuarantineIsFrozen
<1>1. ASSUME IInv, [Next]_vars, NEW i \in quarantine
      PROVE  ~Valid(Stream(recorded, i)) /\ Stream(recorded', i) = Stream(recorded, i)
  <2>1. ~Valid(Stream(recorded, i))
    BY <1>1 DEF IInv, Frozen
  <2>2. ASSUME NEW d \in Callers, At(d, "write_outcome"), Write(d)
        PROVE  Stream(recorded', i) = Stream(recorded, i)
    <3>1. i # call[d].outcome.intent
      BY <1>1, <2>1, <2>2, WriteAdds DEF Fits
    <3> QED
      BY <1>1, <2>2, <3>1, WriteAdds DEF Stream
  <2>3. CASE recorded' = recorded
    BY <2>1, <2>3
  <2> QED
    BY <1>1, <2>1, <2>2, <2>3, RowsAdded DEF vars
<1>2. IInv /\ [Next]_vars =>
        [\A i \in quarantine :
          /\ ~Valid(Stream(recorded, i))
          /\ Stream(recorded', i) = Stream(recorded, i)]_vars
  BY <1>1
<1> QED
  BY <1>2, Invariant, PTL DEF Spec, QuarantineIsFrozen

-----------------------------------------------------------------------------
(* The refinement.                                                         *)

\* The posture of a valid stream is that of its latest outcome.
LEMMA PostureOfLatest ==
    ASSUME NEW i, NEW o, Valid(Stream(recorded, i)), Latest(Stream(recorded, i)) = {o}
    PROVE  Posture(i) = [version |-> o.version, status |-> o.status,
                         corrected |-> o.corrects # None]
<1>1. Stream(recorded, i) # {}
  BY DEF Latest
<1>2. (CHOOSE p \in Latest(Stream(recorded, i)) : TRUE) = o
  OBVIOUS
<1> QED
  BY <1>1, <1>2 DEF Posture

\* Versions of one stream differ, so what is latest is one.
LEMMA LatestIsOne ==
    ASSUME IInv, NEW i, NEW o \in Latest(Stream(recorded, i))
    PROVE  Latest(Stream(recorded, i)) = {o}
<1> SUFFICES ASSUME NEW p \in Latest(Stream(recorded, i)) PROVE p = o
  OBVIOUS
<1>1. /\ o \in recorded /\ p \in recorded /\ o.intent = p.intent
      /\ o.version <= p.version /\ p.version <= o.version
  BY DEF Latest, Stream
<1>2. o.version \in Nat /\ p.version \in Nat
  BY <1>1 DEF IInv, TypeOK, Outcome
<1>3. o.version = p.version
  BY <1>1, <1>2
<1> QED
  BY <1>1, <1>3 DEF IInv, RowsUnique

LEMMA LedgerInit == Init => Ledger!Init
<1> SUFFICES ASSUME Init, NEW i \in Intents
             PROVE  Posture(i) \in [version : Nat, corrected : {FALSE},
                                    status : Opening \cup {"completed", "none"}]
  BY DEF Ledger!Init, Ledger!Opening, Opening
<1> DEFINE H == Stream(recorded, i)
<1>1. IInv
  BY InitIInv
<1>2. CASE H # {} /\ Valid(H)
  <2>1. Migrated(H)
    BY <1>2, OutcomesAssumption DEF Init, OutcomesAssumption, Stream
  <2>2. PICK o \in H : o \in Latest(H)
    BY <1>2, <2>1 DEF Migrated, Latest
  <2>3. Posture(i) = [version |-> o.version, status |-> o.status, corrected |-> o.corrects # None]
    BY <1>1, <1>2, <2>2, LatestIsOne, PostureOfLatest
  <2>4. o \in Outcome /\ o.corrects = None
    BY <1>1, <2>1, <2>2 DEF IInv, TypeOK, Stream, Migrated
  <2>5. (o.corrects # None) = FALSE /\ o.version \in Nat
        /\ o.status \in Opening \cup {"completed", "none"}
    BY <2>4 DEF Outcome, Statuses
  <2>6. Posture(i) = [version |-> o.version, status |-> o.status, corrected |-> FALSE]
    BY <2>3, <2>5, Zenon
  <2>7. \A v \in Nat, st \in Opening \cup {"completed", "none"} :
          [version |-> v, status |-> st, corrected |-> FALSE]
            \in [version : Nat, corrected : {FALSE}, status : Opening \cup {"completed", "none"}]
    OBVIOUS
  <2>8. [version |-> o.version, status |-> o.status, corrected |-> FALSE]
            \in [version : Nat, corrected : {FALSE}, status : Opening \cup {"completed", "none"}]
    <3>1. o.version \in Nat /\ o.status \in Opening \cup {"completed", "none"}
      BY <2>5
    <3> HIDE DEF H
    <3> QED
      BY <3>1, <2>7, Zenon
  <2> QED
    BY <2>6, <2>8, Zenon
<1>3. CASE ~(H # {} /\ Valid(H))
  BY <1>3 DEF Posture, Unreported
<1> QED
  BY <1>2, <1>3

\* The write of an outcome moves the posture of its intent, and no other.
LEMMA WriteMoves ==
    ASSUME IInv, TypeOK', NEW c \in Callers, At(c, "write_outcome"), Write(c)
    PROVE  Ledger!Next
<1> PICK o \in Outcome : o = call[c].outcome
  BY WriteAdds DEF IInv, TypeOK
<1> DEFINE i == o.intent
           H == Stream(recorded, i)
           to == [version |-> o.version, status |-> o.status, corrected |-> o.corrects # None]
           stand == [j \in Intents |-> Posture(j)]
<1>1. /\ Fits(H, o) /\ recorded' = recorded \cup {o}
      /\ recorded \subseteq Outcome /\ i \in Intents
  BY WriteAdds DEF IInv, TypeOK, Outcome
<1>2. H \in SUBSET Outcome /\ Stream(recorded', i) = H \cup {o}
  BY <1>1 DEF Stream
<1>3. Valid(Stream(recorded', i)) /\ Latest(Stream(recorded', i)) = {o}
  <2>1. o.intent = i
    OBVIOUS
  <2> HIDE DEF H, i
  <2>2. Valid(H \cup {o}) /\ Latest(H \cup {o}) = {o}
    BY <1>1, <1>2, FitsExtends
  <2> QED
    BY <1>2, <2>2
<1>4. Posture(i)' = to
  <2>1. Stream(recorded', i) # {}
    BY <1>2
  <2>2. (CHOOSE p \in Latest(Stream(recorded', i)) : TRUE) = o
    BY <1>3
  <2> QED
    BY <1>3, <2>1, <2>2 DEF Posture
<1>5. ASSUME NEW j \in Intents, j # i PROVE Posture(j)' = Posture(j)
  <2>1. Stream(recorded', j) = Stream(recorded, j)
    BY <1>1, <1>5 DEF Stream
  <2> QED
    BY <2>1 DEF Posture
<1>6. [j \in Intents |-> Posture(j)'] = [stand EXCEPT ![i] = to]
  BY <1>1, <1>4, <1>5
<1> HIDE DEF to
<1>7. CASE H = {}
  <2>1. Posture(i) = Ledger!Unreported
    BY <1>7 DEF Posture, Unreported, Ledger!Unreported
  <2>2. Opens(o)
    BY <1>1, <1>7 DEF Fits, FitsAfter
  <2>3. to = [version |-> Posture(i).version + 1, status |-> o.status, corrected |-> FALSE]
    <3>1. Posture(i).version = 0
      BY <2>1 DEF Ledger!Unreported
    <3>2. (o.corrects # None) = FALSE /\ o.version = Posture(i).version + 1
      BY <2>2, <3>1 DEF Opens
    <3> QED
      BY <3>2 DEF to
  <2>4. o.status \in Ledger!Opening
    BY <2>2 DEF Opens, Opening, Ledger!Opening
  <2>5. Ledger!Open(i)
    BY <1>1, <1>6, <2>1, <2>3, <2>4 DEF Ledger!Open, Ledger!Move
  <2> QED
    BY <1>1, <2>5 DEF Ledger!Next
<1>8. CASE H # {}
  <2>1. PICK p \in Latest(H) : Follows(p, o)
    BY <1>1, <1>8 DEF Fits, FitsAfter
  <2>2. Valid(H) /\ Latest(H) = {p} /\ p \in Outcome
    BY <1>1, <1>2, <2>1, LatestIsOne DEF Fits, Latest
  <2>3. Posture(i) = [version |-> p.version, status |-> p.status,
                      corrected |-> p.corrects # None]
    BY <2>2, PostureOfLatest
  <2>4. Posture(i).version = p.version /\ Posture(i).status = p.status
        /\ p.version > 0 /\ o.version = p.version + 1
    BY <2>1, <2>2, <2>3 DEF Follows, Outcome
  <2>5. stand[i] = Posture(i)
    BY <1>1
  <2>6. CASE o.corrects = None
    <3>1. o.status \in Ledger!Onward(p.status)
      BY <2>1, <2>6 DEF Follows, Onward, Ledger!Onward
    <3>2. to = [version |-> stand[i].version + 1, status |-> o.status, corrected |-> FALSE]
      BY <2>4, <2>5, <2>6 DEF to
    <3>3. Ledger!Progress(i)
      BY <1>6, <2>4, <2>5, <3>1, <3>2 DEF Ledger!Progress, Ledger!Move
    <3> QED
      BY <1>1, <3>3 DEF Ledger!Next
  <2>7. CASE o.corrects # None
    <3>1. o.status \in (Ledger!Opening \cup {"completed"}) \ {"requested"}
      BY <1>1, <2>1, <2>7 DEF Follows, Outcome, Statuses, Opening, Ledger!Opening
    <3>2. to = [version |-> stand[i].version + 1, status |-> o.status, corrected |-> TRUE]
      BY <2>4, <2>5, <2>7 DEF to
    <3>3. Ledger!Correct(i)
      BY <1>6, <2>4, <2>5, <3>1, <3>2 DEF Ledger!Correct, Ledger!Move
    <3> QED
      BY <1>1, <3>3 DEF Ledger!Next
  <2> QED
    BY <2>6, <2>7
<1> QED
  BY <1>7, <1>8

\* Whatever arrives and however calls overlap, postures move as the ledger
\* promises: by one version, in the order of progression or by a correction.
THEOREM LedgerImplemented == Spec => ImplementsLedger
<1>1. Init => Ledger!Init
  BY LedgerInit
<1>2. IInv /\ TypeOK' /\ [Next]_vars => [Ledger!Next]_([i \in Intents |-> Posture(i)])
  <2> SUFFICES ASSUME IInv, TypeOK', [Next]_vars
               PROVE  Ledger!Next \/ [i \in Intents |-> Posture(i)]' = [i \in Intents |-> Posture(i)]
    OBVIOUS
  <2>1. CASE recorded' = recorded
    BY <2>1 DEF Posture
  <2> QED
    BY <2>1, RowsAdded, WriteMoves DEF vars
<1>3. IInv /\ [Next]_vars => TypeOK'
  BY TypeNext
<1> QED
  BY <1>1, <1>2, <1>3, Invariant, PTL DEF Spec, ImplementsLedger, Ledger!Spec
-----------------------------------------------------------------------------
(* What the ledger gives the reader of a posture.                          *)

Concluded == {"rejected", "failed", "completed"}

Moved(i) ==
    Posture(i)' # Posture(i) =>
        /\ Posture(i)'.version = Posture(i).version + 1
        /\ Posture(i).status \in Concluded =>
             Posture(i)'.corrected /\ Posture(i)'.status # "requested"

\* No posture is skipped or lost, and what an owner concluded changes by its
\* own correction alone.
ConcludedUntilCorrected == [][\A i \in Intents : Moved(i)]_vars

\* However many reports of an intent arrive at once, and whichever of them are
\* late or repeated, no posture jumps a version and no ended conversion goes on
\* without a correction (validate_conversion_outcome_progression).  From the
\* ledger.
THEOREM ConclusionsStand == Spec => ConcludedUntilCorrected
<1> DEFINE stand == [i \in Intents |-> Posture(i)]
           Stands == \A i \in Intents : stand'[i] # stand[i] =>
                         /\ stand'[i].version = stand[i].version + 1
                         /\ stand[i].status \in Concluded =>
                              stand'[i].corrected /\ stand'[i].status # "requested"
<1>1. ASSUME Ledger!Next PROVE Stands
  <2>1. PICK j \in Intents : Ledger!Open(j) \/ Ledger!Progress(j) \/ Ledger!Correct(j)
    BY <1>1 DEF Ledger!Next
  <2> SUFFICES ASSUME NEW i \in Intents, stand'[i] # stand[i]
               PROVE  /\ stand'[i].version = stand[i].version + 1
                      /\ stand[i].status \in Concluded =>
                           stand'[i].corrected /\ stand'[i].status # "requested"
    OBVIOUS
  <2>2. ASSUME NEW status, NEW corrected, Ledger!Move(j, status, corrected)
        PROVE  /\ i = j
               /\ stand'[i].version = stand[i].version + 1
               /\ stand'[i].status = status /\ stand'[i].corrected = corrected
    <3>1. stand' = [stand EXCEPT ![j] = [version |-> stand[j].version + 1, status |-> status,
                                         corrected |-> corrected]]
      BY <2>2 DEF Ledger!Move
    <3>2. DOMAIN stand = Intents
      OBVIOUS
    <3> HIDE DEF stand
    <3> QED
      BY <3>1, <3>2
  <2>3. CASE Ledger!Open(j)
    <3>1. PICK status : Ledger!Move(j, status, FALSE)
      BY <2>3 DEF Ledger!Open
    <3>2. stand[j].status = "none"
      BY <2>3 DEF Ledger!Open, Ledger!Unreported
    <3> HIDE DEF stand
    <3> QED
      BY <2>2, <3>1, <3>2 DEF Concluded
  <2>4. CASE Ledger!Progress(j)
    <3>1. PICK status \in Ledger!Onward(stand[j].status) : Ledger!Move(j, status, FALSE)
      BY <2>4 DEF Ledger!Progress
    <3> HIDE DEF stand
    <3>2. stand[j].status \notin Concluded
      BY <3>1 DEF Ledger!Onward, Concluded
    <3> QED
      BY <2>2, <3>1, <3>2
  <2>5. CASE Ledger!Correct(j)
    <3>1. PICK status \in (Ledger!Opening \cup {"completed"}) \ {"requested"} :
              Ledger!Move(j, status, TRUE)
      BY <2>5 DEF Ledger!Correct
    <3> HIDE DEF stand
    <3> QED
      BY <2>2, <3>1
  <2> QED
    BY <2>1, <2>3, <2>4, <2>5
<1>2. [Ledger!Next]_stand => [\A i \in Intents : Moved(i)]_vars
  <2>1. Stands => \A i \in Intents : Moved(i)
    BY DEF Moved
  <2>2. UNCHANGED stand => Stands
    OBVIOUS
  <2> QED
    BY <1>1, <2>1, <2>2
<1> QED
  BY <1>2, LedgerImplemented, PTL DEF ImplementsLedger, Ledger!Spec, ConcludedUntilCorrected
=============================================================================
