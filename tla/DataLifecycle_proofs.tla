------------------------ MODULE DataLifecycle_proofs ------------------------
(***************************************************************************)
(* Proofs about the data lifecycle, for any callers, writers, keys,        *)
(* receipts and commands.                                                  *)
(***************************************************************************)
EXTENDS DataLifecycle, TLAPS

-----------------------------------------------------------------------------
(* What each step does to a call, in one place: a call that is not idle    *)
(* afterwards kept its command or was received.                            *)

\* The call of one caller is replaced.
LEMMA CallUpdated ==
    ASSUME NEW c \in Callers, NEW d \in Callers, call \in [Callers -> Call], NEW x,
           call' = [call EXCEPT ![c] = x]
    PROVE  call'[d] = IF d = c THEN x ELSE call[d]
OBVIOUS

\* A call that is ruled on, and one that is answered, are calls.
LEMMA RuledTyped ==
    ASSUME NEW x \in Call, NEW decision \in Decided \cup {"not_found"}
    PROVE  [x EXCEPT !.stage = "commit", !.decision = decision] \in Call
BY DEF Call, Open

LEMMA AnsweredTyped ==
    ASSUME NEW x \in Call, NEW answer \in Answers
    PROVE  [x EXCEPT !.stage = "idle", !.decision = "blocked", !.answer = answer] \in Call
BY DEF Call, Decided

\* Calls are typed in every step.
LEMMA CallTyped ==
    ASSUME LifecycleAssumption, call \in [Callers -> Call], NEW c \in Callers,
           \/ \E command \in Commands :
                call' = [call EXCEPT ![c] = [stage |-> "key", command |-> command,
                                             decision |-> "blocked", answer |-> "none"]]
           \/ \E answer \in Answers : Answer(c, answer)
           \/ \E stage \in Open : Onward(c, stage)
           \/ \E decision \in Decided \cup {"not_found"} :
                call' = [call EXCEPT ![c].stage = "commit", ![c].decision = decision]
           \/ call' = [call EXCEPT ![c] = Idle]
    PROVE  call' \in [Callers -> Call]
<1>1. CASE \E command \in Commands :
             call' = [call EXCEPT ![c] = [stage |-> "key", command |-> command,
                                          decision |-> "blocked", answer |-> "none"]]
  BY <1>1 DEF Call, Open, Decided, Answers
<1>2. CASE \E answer \in Answers : Answer(c, answer)
  <2>1. PICK answer \in Answers : Answer(c, answer)
    BY <1>2
  <2> DEFINE new == [call[c] EXCEPT !.stage = "idle", !.decision = "blocked", !.answer = answer]
  <2>2. new \in Call
    BY AnsweredTyped
  <2>3. call' = [call EXCEPT ![c] = new]
    BY <2>1 DEF Answer, Call
  <2> HIDE DEF new
  <2> QED
    BY <2>2, <2>3
<1>3. CASE \E stage \in Open : Onward(c, stage)
  BY <1>3 DEF Onward, Call
<1>4. CASE \E decision \in Decided \cup {"not_found"} :
             call' = [call EXCEPT ![c].stage = "commit", ![c].decision = decision]
  <2>1. PICK decision \in Decided \cup {"not_found"} :
             call' = [call EXCEPT ![c].stage = "commit", ![c].decision = decision]
    BY <1>4
  <2> DEFINE new == [call[c] EXCEPT !.stage = "commit", !.decision = decision]
  <2>2. new \in Call
    BY RuledTyped
  <2>3. call' = [call EXCEPT ![c] = new]
    BY <2>1 DEF Call
  <2> HIDE DEF new
  <2> QED
    BY <2>2, <2>3
<1>5. CASE call' = [call EXCEPT ![c] = Idle]
  <2>1. (CHOOSE command \in Commands : TRUE) \in Commands
    BY DEF LifecycleAssumption
  <2>2. Idle \in Call
    BY <2>1 DEF Idle, Call, Decided, Answers
  <2> QED
    BY <1>5, <2>2
<1> QED
  BY <1>1, <1>2, <1>3, <1>4, <1>5

-----------------------------------------------------------------------------
(* The inductive invariant: the properties, and what the locks keep.       *)

PastKey(x) == x.stage \in Open \ {"key"}

\* The rows of the candidate are held by one transaction at a time.
Exclusive ==
    \A c \in Callers : call[c].stage = "commit" =>
        /\ writing = {}
        /\ \A d \in Callers : call[d].stage = "commit" => d = c

\* What was decided under the lock of the rows holds until the commit.
Judgement(x) ==
    /\ x.decision # "not_found" => control.state # "missing"
    /\ x.decision \in {"applied", "preview"} =>
         /\ control.state \notin {"missing", "unscoped"}
         /\ Possible(x.command.action)
    /\ x.decision = "applied" => ~x.command.dry

Judged == \A c \in Callers : call[c].stage = "commit" => Judgement(call[c])

\* A key that is being worked on is not on record, and nobody else works on it.
OwnKeys ==
    \A c \in Callers : PastKey(call[c]) =>
        /\ call[c].command.key \notin Recorded
        /\ \A d \in Callers \ {c} :
             PastKey(call[d]) => call[d].command.key # call[c].command.key

\* A writer past the check writes to a candidate that is not erased.
Fenced == writing # {} => control.state \notin {"missing", "unscoped"} /\ ~Gone

Stands(x) ==
    /\ x.answer \in {"applied", "preview"} =>
         /\ x.command.key \in Recorded
         /\ rows[x.command.key].command = x.command
         /\ rows[x.command.key].decision = x.answer
    /\ x.answer = "replayed" =>
         /\ x.command.key \in Recorded
         /\ rows[x.command.key].command = x.command
    /\ x.answer = "conflict" =>
         /\ x.command.key \in Recorded
         /\ rows[x.command.key].command # x.command

IInv ==
    /\ TypeOK
    /\ Exclusive
    /\ Judged
    /\ OwnKeys
    /\ Fenced
    /\ ErasedIsNameless
    /\ ReceiptsAreUsedOnce
    /\ AuditTellsControl
    /\ AnswersStand

\* The first state, before anyone calls.
LEMMA InitIsGood ==
    ASSUME LifecycleAssumption, Init
    PROVE  IInv
<1>1. (CHOOSE command \in Commands : TRUE) \in Commands
  BY DEF LifecycleAssumption
<1>2. Idle \in Call
  BY <1>1 DEF Idle, Call, Decided, Answers
<1>3. /\ control \in Control
      /\ control.state = "held" <=> control.from # "none"
      /\ control.state \in {"missing", "unscoped"} <=> control.version = 0
      /\ control.version \in {0, 1}
      /\ control.state \in {"missing", "unscoped", "active"}
      /\ graph \in BOOLEAN
  BY DEF Init, Control
<1>4. /\ Recorded = {} /\ rows \in [Recorded -> Row]
  BY DEF Init, Recorded
<1>5. /\ \A c \in Callers : call[c].stage = "idle" /\ call[c].answer = "none"
      /\ call \in [Callers -> Call]
  BY <1>2 DEF Init, Idle
<1>6. TypeOK
  <2>1. linked = FALSE /\ work = 0 /\ expired = FALSE /\ writing = {}
    BY DEF Init
  <2>2. work \in 0..MaxWork /\ Recorded \subseteq Keys
    BY <2>1, <1>4 DEF LifecycleAssumption
  <2> QED
    BY <1>3, <1>4, <1>5, <2>1, <2>2 DEF TypeOK
<1>7. Exclusive /\ Judged /\ OwnKeys /\ Fenced
  <2>1. writing = {}
    BY DEF Init
  <2>2. \A c \in Callers : call[c].stage # "commit" /\ ~PastKey(call[c])
    BY <1>5 DEF PastKey, Open
  <2> QED
    BY <2>1, <2>2 DEF Exclusive, Judged, OwnKeys, Fenced
<1>8. ErasedIsNameless
  BY <1>3, <1>4 DEF ErasedIsNameless, Gone, GoneIn, EffectiveIn
<1>9. ReceiptsAreUsedOnce
  BY <1>4 DEF ReceiptsAreUsedOnce
<1>10. 2..control.version = {}
  BY <1>3
<1>11. AuditTellsControl
  BY <1>4, <1>10 DEF AuditTellsControl
<1>12. AnswersStand
  BY <1>5 DEF AnswersStand
<1> QED
  BY <1>6, <1>7, <1>8, <1>9, <1>11, <1>12 DEF IInv

-----------------------------------------------------------------------------
(* Steps of one call that change nothing but the call.                     *)

Quiet == UNCHANGED <<control, linked, work, expired, graph, rows, writing>>

\* A call that changes alone keeps the invariant, if what it claims is so.
LEMMA QuietStep ==
    ASSUME LifecycleAssumption, IInv, Quiet, NEW c \in Callers, NEW new \in Call,
           call' = [call EXCEPT ![c] = new],
           new.stage = "commit" => RowFree /\ Judgement(new),
           PastKey(new) => /\ new.command.key \notin Recorded
                           /\ \A d \in Callers \ {c} :
                                PastKey(call[d]) => call[d].command.key # new.command.key,
           Stands(new)
    PROVE  IInv'
<1>1. call \in [Callers -> Call]
  BY DEF IInv, TypeOK
<1>2. call' \in [Callers -> Call]
  BY <1>1
<1>3. \A d \in Callers : call'[d] = IF d = c THEN new ELSE call[d]
  BY <1>1
<1>4. UNCHANGED <<control, linked, work, expired, graph, rows, writing>>
  BY DEF Quiet
<1>5. TypeOK'
  BY <1>2, <1>4 DEF IInv, TypeOK, Recorded
<1>6. Exclusive'
  <2> SUFFICES ASSUME NEW a \in Callers, call'[a].stage = "commit"
               PROVE  /\ writing' = {}
                      /\ \A d \in Callers : call'[d].stage = "commit" => d = a
    BY DEF Exclusive
  <2>1. CASE a = c
    BY <2>1, <1>3, <1>4 DEF RowFree
  <2>2. CASE a # c
    BY <2>2, <1>3, <1>4 DEF RowFree, IInv, Exclusive
  <2> QED
    BY <2>1, <2>2
<1>7. Judged'
  <2> SUFFICES ASSUME NEW a \in Callers, call'[a].stage = "commit"
               PROVE  Judgement(call[a])'
    BY DEF Judged
  <2>1. PICK x : x = call'[a]
    OBVIOUS
  <2>2. Judgement(x)
    BY <2>1, <1>3 DEF IInv, Judged
  <2> QED
    BY <2>1, <2>2, <1>4 DEF Judgement, Possible
<1>8. OwnKeys'
  <2> SUFFICES ASSUME NEW a \in Callers, PastKey(call'[a])
               PROVE  /\ call'[a].command.key \notin Recorded
                      /\ \A d \in Callers \ {a} :
                           PastKey(call'[d]) => call'[d].command.key # call'[a].command.key
    BY <1>4 DEF OwnKeys, Recorded, PastKey
  <2>1. CASE a = c
    BY <2>1, <1>3
  <2>2. CASE a # c
    BY <2>2, <1>3 DEF IInv, OwnKeys
  <2> QED
    BY <2>1, <2>2
<1>9. /\ Fenced' /\ ErasedIsNameless' /\ ReceiptsAreUsedOnce' /\ AuditTellsControl'
  BY <1>4 DEF IInv, Fenced, ErasedIsNameless, ReceiptsAreUsedOnce, AuditTellsControl,
              Gone, Recorded, Live, Filed
<1>10. AnswersStand'
  <2> SUFFICES ASSUME NEW a \in Callers
               PROVE  Stands(call[a])'
    BY DEF AnswersStand, Stands
  <2>1. PICK x : x = call'[a]
    OBVIOUS
  <2>2. Stands(x)
    BY <2>1, <1>3 DEF IInv, AnswersStand, Stands
  <2> QED
    BY <2>1, <2>2, <1>4 DEF Stands, Recorded
<1> QED
  BY <1>5, <1>6, <1>7, <1>8, <1>9, <1>10 DEF IInv

\* Calls are typed commands, answers and stages.
LEMMA TypedCall ==
    ASSUME LifecycleAssumption, TypeOK, NEW c \in Callers
    PROVE  /\ call[c] \in Call
           /\ call[c].command \in Commands
           /\ call[c].command \in Command
           /\ call[c].command.key \in Keys
           /\ call[c].command.action \in Actions
           /\ call[c].command.dry \in BOOLEAN
           /\ call[c].decision \in Decided \cup {"not_found"}
BY DEF TypeOK, LifecycleAssumption, Call, Command

\* A call that has ended without an answer claims nothing.
LEMMA IdleIsGood ==
    ASSUME LifecycleAssumption
    PROVE  /\ Idle \in Call /\ Idle.stage = "idle" /\ ~PastKey(Idle) /\ Stands(Idle)
<1>1. (CHOOSE command \in Commands : TRUE) \in Commands
  BY DEF LifecycleAssumption
<1>2. Idle \in Call /\ Idle.stage = "idle" /\ Idle.answer = "none"
  BY <1>1 DEF Idle, Call, Decided, Answers
<1> QED
  BY <1>2 DEF PastKey, Open, Stands

\* A call that is received claims nothing yet.
LEMMA ReceiveStep ==
    ASSUME LifecycleAssumption, IInv, NEW c \in Callers, Receive(c)
    PROVE  IInv'
<1>1. PICK command \in Commands :
         call' = [call EXCEPT ![c] = [stage |-> "key", command |-> command,
                                      decision |-> "blocked", answer |-> "none"]]
  BY DEF Receive
<1> DEFINE new == [stage |-> "key", command |-> command,
                   decision |-> "blocked", answer |-> "none"]
<1>2. new \in Call /\ new.stage = "key" /\ new.answer = "none"
  BY DEF Call, Open, Decided, Answers
<1>3. call' = [call EXCEPT ![c] = new]
  BY <1>1
<1> HIDE DEF new
<1>4. ~PastKey(new) /\ Stands(new) /\ new.stage # "commit"
  BY <1>2 DEF PastKey, Stands
<1>5. Quiet
  BY DEF Receive, Quiet
<1> QED
  BY <1>2, <1>3, <1>4, <1>5, QuietStep

\* An answer from what is on record.
LEMMA AnswerStep ==
    ASSUME LifecycleAssumption, IInv, Quiet, NEW c \in Callers, NEW answer \in Answers,
           Answer(c, answer),
           answer \notin {"applied", "preview"},
           answer \in {"replayed", "conflict"} =>
             /\ call[c].command.key \in Recorded
             /\ (answer = "replayed") = (rows[call[c].command.key].command = call[c].command)
    PROVE  IInv'
<1> DEFINE new == [call[c] EXCEPT !.stage = "idle", !.decision = "blocked", !.answer = answer]
<1>1. call[c] \in Call /\ call \in [Callers -> Call]
  BY TypedCall DEF IInv, TypeOK
<1>2. /\ new \in Call /\ new.stage = "idle"
      /\ new.answer = answer /\ new.command = call[c].command
  BY <1>1 DEF Call, Decided
<1>3. call' = [call EXCEPT ![c] = new]
  BY <1>1 DEF Answer, Call
<1> HIDE DEF new
<1>4. ~PastKey(new) /\ new.stage # "commit"
  BY <1>2 DEF PastKey, Open
<1>5. Stands(new)
  BY <1>2 DEF Stands
<1> QED
  BY <1>2, <1>3, <1>4, <1>5, QuietStep

\* A call that has its key moves on with it.
LEMMA OnwardStep ==
    ASSUME LifecycleAssumption, IInv, Quiet, NEW c \in Callers,
           NEW stage \in Open \ {"key", "commit"}, Onward(c, stage),
           call[c].stage = "key" => KeyFree(c) /\ call[c].command.key \notin Recorded,
           call[c].stage \in Open
    PROVE  IInv'
<1> DEFINE new == [call[c] EXCEPT !.stage = stage]
<1>1. call[c] \in Call /\ call \in [Callers -> Call]
  BY TypedCall DEF IInv, TypeOK
<1>2. /\ new \in Call /\ new.stage = stage
      /\ new.answer = call[c].answer /\ new.command = call[c].command
  BY <1>1 DEF Call
<1>3. call' = [call EXCEPT ![c] = new]
  BY <1>1 DEF Onward
<1> HIDE DEF new
<1>4. Stands(new)
  BY <1>2 DEF IInv, AnswersStand, Stands
<1>5. /\ new.command.key \notin Recorded
      /\ \A d \in Callers \ {c} :
           PastKey(call[d]) => call[d].command.key # new.command.key
  <2>1. CASE call[c].stage = "key"
    BY <2>1, <1>2 DEF KeyFree, PastKey
  <2>2. CASE call[c].stage # "key"
    BY <2>2, <1>2 DEF IInv, OwnKeys, PastKey
  <2> QED
    BY <2>1, <2>2
<1> QED
  BY <1>2, <1>3, <1>4, <1>5, QuietStep

\* The locks of the key, of the decision and of the posture.
LEMMA LockStep ==
    ASSUME LifecycleAssumption, IInv, NEW c \in Callers,
           LockKey(c) \/ LockAuthority(c) \/ LockArchive(c)
    PROVE  IInv'
<1> DEFINE me == call[c].command
<1>1. Quiet /\ call[c].stage \in Open
  BY DEF Quiet, LockKey, LockAuthority, LockArchive, Open
<1>2. CASE \E answer \in {"authority_replay", "archive_replay"} : Answer(c, answer)
  BY <1>1, <1>2, AnswerStep DEF Answers
<1>3. CASE LockKey(c) /\ me.key \in Recorded
  <2>1. PICK answer \in {"replayed", "conflict"} :
          /\ Answer(c, answer)
          /\ (answer = "replayed") = (rows[me.key].command = me)
    BY <1>3 DEF LockKey
  <2>2. answer \in Answers /\ answer \notin {"applied", "preview"}
    BY DEF Answers, Decided
  <2> QED
    BY <1>1, <1>3, <2>1, <2>2, AnswerStep
<1>4. CASE LockKey(c) /\ me.key \notin Recorded
  <2>1. PICK stage \in {"authority", "archive", "row"} : Onward(c, stage)
    BY <1>4 DEF LockKey
  <2>2. KeyFree(c)
    BY <1>4 DEF LockKey
  <2> QED
    BY <1>1, <1>4, <2>1, <2>2, OnwardStep DEF Open
<1>5. CASE \E stage \in {"archive", "row"} : Onward(c, stage) /\ call[c].stage # "key"
  BY <1>1, <1>5, OnwardStep DEF Open
<1>6. CASE LockKey(c)
  BY <1>3, <1>4, <1>6
<1>7. CASE LockAuthority(c)
  <2>1. call[c].stage # "key"
    BY <1>7 DEF LockAuthority
  <2>2. \/ Answer(c, "authority_replay")
        \/ \E stage \in {"archive", "row"} : Onward(c, stage)
    BY <1>7 DEF LockAuthority
  <2> QED
    BY <1>2, <1>5, <2>1, <2>2
<1>8. CASE LockArchive(c)
  <2>1. call[c].stage # "key"
    BY <1>8 DEF LockArchive
  <2>2. \/ Answer(c, "archive_replay")
        \/ Onward(c, "row")
    BY <1>8 DEF LockArchive
  <2> QED
    BY <1>2, <1>5, <2>1, <2>2
<1> QED
  BY <1>6, <1>7, <1>8

\* What is decided under the lock of the rows is so.
LEMMA Decides ==
    ASSUME LifecycleAssumption, TypeOK, NEW command \in Commands
    PROVE  /\ Decision(command) \in Decided \cup {"not_found"}
           /\ Decision(command) # "not_found" => control.state # "missing"
           /\ Decision(command) \in {"applied", "preview"} =>
                /\ control.state \notin {"missing", "unscoped"}
                /\ Possible(command.action)
           /\ Decision(command) = "applied" => ~command.dry
           /\ Decision(command) = "preview" => command.dry
BY DEF Decision, Decided, Admissible

LEMMA LockRowStep ==
    ASSUME LifecycleAssumption, IInv, NEW c \in Callers, LockRow(c)
    PROVE  IInv'
<1> DEFINE decision == Decision(call[c].command)
           new == [call[c] EXCEPT !.stage = "commit", !.decision = decision]
<1>1. call[c] \in Call /\ call \in [Callers -> Call] /\ call[c].command \in Commands
  BY TypedCall DEF IInv, TypeOK
<1>2. /\ decision \in Decided \cup {"not_found"}
      /\ decision # "not_found" => control.state # "missing"
      /\ decision \in {"applied", "preview"} =>
           /\ control.state \notin {"missing", "unscoped"}
           /\ Possible(call[c].command.action)
      /\ decision = "applied" => ~call[c].command.dry
  BY <1>1, Decides DEF IInv
<1>3. call[c].stage = "row" /\ RowFree /\ Quiet
  BY DEF LockRow, Quiet
<1>4. call' = [call EXCEPT ![c].stage = "commit", ![c].decision = decision]
  BY DEF LockRow
<1> HIDE DEF decision
<1>5. /\ new \in Call /\ new.stage = "commit" /\ new.decision = decision
      /\ new.answer = call[c].answer /\ new.command = call[c].command
  BY <1>1, <1>2 DEF Call, Open
<1>6. call' = [call EXCEPT ![c] = new]
  BY <1>1, <1>4 DEF Call
<1> HIDE DEF new
<1>7. Stands(new)
  BY <1>5 DEF IInv, AnswersStand, Stands
<1>8. Judgement(new)
  BY <1>2, <1>5 DEF Judgement
<1>9. /\ new.command.key \notin Recorded
      /\ \A d \in Callers \ {c} :
           PastKey(call[d]) => call[d].command.key # new.command.key
  BY <1>3, <1>5 DEF IInv, OwnKeys, PastKey, Open
<1> QED
  BY <1>3, <1>5, <1>6, <1>7, <1>8, <1>9, QuietStep

\* A transaction that is rolled back.
LEMMA RollbackStep ==
    ASSUME LifecycleAssumption, IInv, NEW c \in Callers, Refuse(c) \/ Fail(c)
    PROVE  IInv'
<1>1. /\ Idle \in Call /\ Idle.stage = "idle" /\ ~PastKey(Idle) /\ Stands(Idle)
  BY IdleIsGood
<1>2. Quiet /\ call' = [call EXCEPT ![c] = Idle]
  BY DEF Refuse, Fail, Quiet
<1>3. Idle.stage # "commit"
  BY <1>1
<1> QED
  BY <1>1, <1>2, <1>3, QuietStep

-----------------------------------------------------------------------------
(* The commit of an operation.                                             *)

\* What the projection makes of the control.
LEMMA ProjectedControl ==
    ASSUME TypeOK, control.state \notin {"missing", "unscoped"},
           NEW action \in Actions, Possible(action)
    PROVE  /\ Projected(action) \in Control
           /\ Projected(action).state = "held" <=> Projected(action).from # "none"
           /\ Projected(action).state \notin {"missing", "unscoped"}
           /\ Projected(action).version = control.version + 1
           /\ control.version \in Nat \ {0}
           /\ GoneIn(Projected(action)) <=> Gone \/ action = "erase"
<1>1. /\ control \in Control
      /\ control.state = "held" <=> control.from # "none"
      /\ control.state \in {"missing", "unscoped"} <=> control.version = 0
  BY DEF TypeOK
<1>2. CASE action = "apply_hold"
  BY <1>1, <1>2 DEF Possible, Projected, Control, GoneIn, EffectiveIn, Gone
<1>3. CASE action = "release_hold"
  BY <1>1, <1>3 DEF Possible, Projected, Control, GoneIn, EffectiveIn, Gone
<1>4. CASE action = "erase"
  BY <1>1, <1>4 DEF Possible, Projected, Control, GoneIn, EffectiveIn, Gone
<1>5. CASE action = "purge"
  BY <1>1, <1>5 DEF Possible, Projected, Control, GoneIn, EffectiveIn, Gone
<1> QED
  BY <1>2, <1>3, <1>4, <1>5 DEF Actions

\* What the commit of a judged operation does, without reference to the call.
LEMMA Recorded_Facts ==
    ASSUME LifecycleAssumption, IInv, NEW c \in Callers, call[c].stage = "commit",
           call[c].decision # "not_found"
    PROVE  /\ call[c].command \in Commands
           /\ call[c].command.key \in Keys \ Recorded
           /\ call[c].decision \in Decided
           /\ NextControl(c) \in Control
           /\ NextControl(c).state = "held" <=> NextControl(c).from # "none"
           /\ NextControl(c).state \in {"missing", "unscoped"} <=> NextControl(c).version = 0
           /\ GoneIn(NextControl(c)) <=> Gone \/ Erases(c)
           /\ Erases(c) => work = 0
           /\ control.state # "missing"
           /\ call[c].decision # "applied" => NextControl(c) = control
           /\ call[c].decision = "applied" =>
                /\ control.version \in Nat \ {0}
                /\ NextControl(c).version = control.version + 1
                /\ control.state \notin {"missing", "unscoped"}
                /\ NextControl(c).state \notin {"missing", "unscoped"}
           /\ RecordedControl(c) \in Control
           /\ call[c].decision = "applied" => RecordedControl(c) = NextControl(c)
           /\ GoneIn(NextControl(c)) => GoneIn(RecordedControl(c))
<1>1. /\ call[c].command \in Commands
      /\ call[c].command.key \in Keys
      /\ call[c].command.action \in Actions
      /\ call[c].decision \in Decided
  BY TypedCall DEF IInv
<1>2. call[c].command.key \notin Recorded
  BY DEF IInv, OwnKeys, PastKey, Open
<1>3. Judgement(call[c])
  BY DEF IInv, Judged
<1>4. /\ control \in Control
      /\ control.state = "held" <=> control.from # "none"
      /\ control.state \in {"missing", "unscoped"} <=> control.version = 0
  BY DEF IInv, TypeOK
<1>5. CASE call[c].decision = "applied"
  <2>1. /\ control.state \notin {"missing", "unscoped"}
        /\ Possible(call[c].command.action)
    BY <1>3, <1>5 DEF Judgement
  <2>2. NextControl(c) = Projected(call[c].command.action)
    BY <1>5 DEF NextControl
  <2>3. /\ NextControl(c) \in Control
        /\ NextControl(c).state = "held" <=> NextControl(c).from # "none"
        /\ NextControl(c).state \notin {"missing", "unscoped"}
        /\ NextControl(c).version = control.version + 1
        /\ control.version \in Nat \ {0}
        /\ GoneIn(NextControl(c)) <=> Gone \/ call[c].command.action = "erase"
    BY <1>1, <2>1, <2>2, ProjectedControl DEF IInv
  <2>4. NextControl(c).version # 0
    BY <2>3
  <2>5. Erases(c) => work = 0
    BY <2>1 DEF Erases, Possible
  <2>6. RecordedControl(c) = NextControl(c)
    BY <1>5 DEF RecordedControl, NextControl
  <2> QED
    BY <1>1, <1>2, <1>5, <2>1, <2>3, <2>4, <2>5, <2>6 DEF Erases
<1>6. CASE call[c].decision # "applied"
  <2>1. NextControl(c) = control
    BY <1>6 DEF NextControl
  <2>2. ASSUME call[c].decision = "preview"
        PROVE  RecordedControl(c) \in Control /\ (Gone => GoneIn(RecordedControl(c)))
    <3>1. /\ control.state \notin {"missing", "unscoped"}
          /\ Possible(call[c].command.action)
      BY <1>3, <2>2 DEF Judgement
    <3>2. RecordedControl(c) = Projected(call[c].command.action)
      BY <2>2 DEF RecordedControl
    <3> QED
      BY <1>1, <3>1, <3>2, ProjectedControl DEF IInv
  <2>3. call[c].decision # "preview" => RecordedControl(c) = control
    BY <1>6 DEF RecordedControl
  <2>4. /\ RecordedControl(c) \in Control
        /\ GoneIn(NextControl(c)) => GoneIn(RecordedControl(c))
    BY <1>4, <2>1, <2>2, <2>3 DEF Gone
  <2> QED
    BY <1>1, <1>2, <1>3, <1>4, <1>6, <2>1, <2>4 DEF Judgement, Erases, Gone
<1> QED
  BY <1>5, <1>6

\* The rows after the commit.
LEMMA RowsAfter ==
    ASSUME LifecycleAssumption, IInv, NEW c \in Callers, call[c].stage = "commit",
           call[c].decision # "not_found", Record(c)
    PROVE  /\ Recorded' = Recorded \cup {call[c].command.key}
           /\ rows' \in [Recorded' -> Row]
           /\ rows'[call[c].command.key] = NewRow(c)
           /\ \A k \in Recorded : rows'[k] = OldRow(c, k)
           /\ \A k \in Recorded :
                /\ rows'[k].command = rows[k].command
                /\ rows'[k].decision = rows[k].decision
                /\ rows'[k].version = rows[k].version
                /\ rows'[k].named = (rows[k].named /\ ~Erases(c))
<1> DEFINE key == call[c].command.key
<1>1. rows' = [k \in Recorded \cup {key} |->
                  IF k = key THEN NewRow(c) ELSE OldRow(c, k)]
  BY DEF Record
<1>2. /\ key \in Keys \ Recorded /\ call[c].command \in Commands
      /\ call[c].decision \in Decided
      /\ RecordedControl(c) \in Control
  BY Recorded_Facts
<1>3. Recorded' = Recorded \cup {key}
  BY <1>1 DEF Recorded
<1>4. NewRow(c) \in Row
  BY <1>2 DEF NewRow, Row, Control, GoneIn, EffectiveIn
<1>5. \A k \in Recorded : rows[k] \in Row
  BY DEF IInv, TypeOK
<1>6. \A k \in Recorded : OldRow(c, k) \in Row
  BY <1>5 DEF OldRow, Row
<1>7. \A k \in Recorded : rows'[k] = OldRow(c, k)
  BY <1>1, <1>2
<1>8. rows'[key] = NewRow(c)
  BY <1>1
<1>9. rows' \in [Recorded' -> Row]
  BY <1>1, <1>3, <1>4, <1>6
<1>10. \A k \in Recorded :
                /\ OldRow(c, k).command = rows[k].command
                /\ OldRow(c, k).decision = rows[k].decision
                /\ OldRow(c, k).version = rows[k].version
                /\ OldRow(c, k).named = (rows[k].named /\ ~Erases(c))
  <2> SUFFICES ASSUME NEW k \in Recorded
               PROVE  /\ OldRow(c, k).command = rows[k].command
                      /\ OldRow(c, k).decision = rows[k].decision
                      /\ OldRow(c, k).version = rows[k].version
                      /\ OldRow(c, k).named = (rows[k].named /\ ~Erases(c))
    OBVIOUS
  <2>1. rows[k] \in Row /\ rows[k].named \in BOOLEAN
    BY <1>5 DEF Row
  <2>2. CASE Erases(c)
    BY <2>1, <2>2 DEF OldRow, Row
  <2>3. CASE ~Erases(c)
    BY <2>1, <2>3 DEF OldRow
  <2> QED
    BY <2>2, <2>3
<1> QED
  BY <1>3, <1>7, <1>8, <1>9, <1>10

\* Who records an operation gives up the locks, and nobody else had those.
LEMMA CommitLocks ==
    ASSUME LifecycleAssumption, IInv, NEW c \in Callers, call[c].stage = "commit",
           call[c].decision # "not_found", Record(c)
    PROVE  /\ call' \in [Callers -> Call]
           /\ \A d \in Callers \ {c} : call'[d] = call[d] /\ call[d].stage # "commit"
           /\ call'[c].stage = "idle" /\ call'[c].command = call[c].command
           /\ call'[c].answer = call[c].decision
           /\ writing = {}
           /\ Exclusive' /\ Judged' /\ OwnKeys' /\ Fenced'
<1> DEFINE new == [call[c] EXCEPT !.stage = "idle", !.decision = "blocked",
                                  !.answer = call[c].decision]
<1>1. call[c] \in Call /\ call \in [Callers -> Call] /\ call[c].decision \in Decided
  BY TypedCall DEF IInv, TypeOK
<1>2. /\ new \in Call /\ new.stage = "idle"
      /\ new.answer = call[c].decision /\ new.command = call[c].command
  BY <1>1 DEF Call, Answers, Decided
<1>3. call' = [call EXCEPT ![c] = new]
  BY <1>1 DEF Record, Answer, Call
<1> HIDE DEF new
<1>4. call' \in [Callers -> Call]
  BY <1>1, <1>2, <1>3
<1>5. \A d \in Callers : call'[d] = IF d = c THEN new ELSE call[d]
  BY <1>1, <1>3
<1>6. /\ writing = {} /\ writing' = {}
      /\ \A d \in Callers \ {c} : call[d].stage # "commit"
  BY DEF IInv, Exclusive, Record
<1>7. \A d \in Callers : call'[d].stage # "commit"
  BY <1>2, <1>5, <1>6
<1>8. Exclusive' /\ Judged' /\ Fenced'
  BY <1>6, <1>7 DEF Exclusive, Judged, Fenced
<1>9. OwnKeys'
  <2> SUFFICES ASSUME NEW a \in Callers, PastKey(call'[a])
               PROVE  /\ call'[a].command.key \notin Recorded'
                      /\ \A d \in Callers \ {a} :
                           PastKey(call'[d]) => call'[d].command.key # call'[a].command.key
    BY DEF OwnKeys, PastKey
  <2>1. a # c /\ PastKey(call[a]) /\ call'[a] = call[a]
    BY <1>2, <1>5 DEF PastKey, Open
  <2>2. PastKey(call[c])
    BY DEF PastKey, Open
  <2>3. /\ call[a].command.key \notin Recorded
        /\ call[a].command.key # call[c].command.key
        /\ \A d \in Callers \ {a} :
             PastKey(call[d]) => call[d].command.key # call[a].command.key
    BY <2>1, <2>2 DEF IInv, OwnKeys
  <2>4. Recorded' = Recorded \cup {call[c].command.key}
    BY RowsAfter
  <2>5. \A d \in Callers \ {a} :
          PastKey(call'[d]) => d # c /\ call'[d] = call[d]
    BY <1>2, <1>5 DEF PastKey, Open
  <2> QED
    BY <2>1, <2>3, <2>4, <2>5
<1> QED
  BY <1>2, <1>4, <1>5, <1>6, <1>8, <1>9

\* The commit keeps the types and what is promised of erased data.
LEMMA CommitErases ==
    ASSUME LifecycleAssumption, IInv, NEW c \in Callers, call[c].stage = "commit",
           call[c].decision # "not_found", Record(c)
    PROVE  TypeOK' /\ ErasedIsNameless'
<1>1. /\ call[c].command.key \in Keys \ Recorded
      /\ NextControl(c) \in Control
      /\ NextControl(c).state = "held" <=> NextControl(c).from # "none"
      /\ NextControl(c).state \in {"missing", "unscoped"} <=> NextControl(c).version = 0
      /\ GoneIn(NextControl(c)) <=> Gone \/ Erases(c)
      /\ GoneIn(NextControl(c)) => GoneIn(RecordedControl(c))
      /\ Erases(c) => work = 0
  BY Recorded_Facts
<1>2. /\ Recorded' = Recorded \cup {call[c].command.key}
      /\ rows' \in [Recorded' -> Row]
      /\ rows'[call[c].command.key] = NewRow(c)
      /\ \A k \in Recorded : rows'[k].named = (rows[k].named /\ ~Erases(c))
  BY RowsAfter
<1>3. /\ control' = NextControl(c) /\ graph' = (graph /\ ~Erases(c))
      /\ UNCHANGED <<linked, work, expired, writing>>
  BY DEF Record
<1>4. call' \in [Callers -> Call]
  BY CommitLocks
<1>5. TypeOK'
  <2>1. graph' \in BOOLEAN
    BY <1>3 DEF Erases
  <2>2. Recorded' \subseteq Keys
    BY <1>1, <1>2 DEF IInv, TypeOK
  <2>3. /\ linked' \in BOOLEAN /\ expired' \in BOOLEAN
        /\ work' \in 0..MaxWork /\ writing' \subseteq Writers
    BY <1>3 DEF IInv, TypeOK
  <2>4. /\ control' \in Control
        /\ control'.state = "held" <=> control'.from # "none"
        /\ control'.state \in {"missing", "unscoped"} <=> control'.version = 0
    BY <1>1, <1>3
  <2> QED
    BY <1>2, <1>4, <2>1, <2>2, <2>3, <2>4 DEF TypeOK
<1>6. ErasedIsNameless'
  <2> SUFFICES ASSUME Gone'
               PROVE  ~graph' /\ work' = 0 /\ \A k \in Recorded' : ~rows'[k].named
    BY DEF ErasedIsNameless
  <2>1. GoneIn(NextControl(c))
    BY <1>3 DEF Gone, GoneIn, EffectiveIn
  <2>2. Gone \/ Erases(c)
    BY <2>1, <1>1
  <2>3. ~graph' /\ work' = 0
    BY <2>2, <1>1, <1>3 DEF IInv, ErasedIsNameless
  <2>4. ~NewRow(c).named
    BY <2>1, <1>1 DEF NewRow
  <2>5. \A k \in Recorded : ~rows'[k].named
    BY <2>2, <1>2 DEF IInv, ErasedIsNameless
  <2> QED
    BY <1>2, <2>3, <2>4, <2>5
<1> QED
  BY <1>5, <1>6

\* A commit that meets no index uses its receipts for the first time.
LEMMA CommitUses ==
    ASSUME LifecycleAssumption, IInv, NEW c \in Callers, call[c].stage = "commit",
           call[c].decision # "not_found", ~Collides(call[c].command, call[c].decision),
           Record(c)
    PROVE  ReceiptsAreUsedOnce'
<1> DEFINE key == call[c].command.key
<1>1. key \notin Recorded
  BY Recorded_Facts
<1>2. /\ Recorded' = Recorded \cup {key}
      /\ rows'[key] = NewRow(c)
      /\ \A k \in Recorded :
           rows'[k].command = rows[k].command /\ rows'[k].decision = rows[k].decision
  BY RowsAfter
<1>3. rows'[key].command = call[c].command /\ rows'[key].decision = call[c].decision
  BY <1>2 DEF NewRow
<1>4. \A k \in Recorded :
        /\ Live(call[c].command) /\ Live(rows[k].command) =>
             /\ call[c].command.receipt.id # rows[k].command.receipt.id
             /\ call[c].command.receipt.nonce # rows[k].command.receipt.nonce
        /\ /\ Filed(call[c].command) /\ call[c].decision = "applied"
           /\ Filed(rows[k].command) /\ rows[k].decision = "applied"
           => /\ call[c].command.archive.id # rows[k].command.archive.id
              /\ call[c].command.archive.digest # rows[k].command.archive.digest
  BY DEF Collides, Spent, Used, Filed
<1> SUFFICES ASSUME NEW j \in Recorded', NEW k \in Recorded', j # k
             PROVE  /\ Live(rows'[j].command) /\ Live(rows'[k].command) =>
                         /\ rows'[j].command.receipt.id # rows'[k].command.receipt.id
                         /\ rows'[j].command.receipt.nonce # rows'[k].command.receipt.nonce
                    /\ /\ Filed(rows'[j].command) /\ rows'[j].decision = "applied"
                       /\ Filed(rows'[k].command) /\ rows'[k].decision = "applied"
                       => /\ rows'[j].command.archive.id # rows'[k].command.archive.id
                          /\ rows'[j].command.archive.digest # rows'[k].command.archive.digest
  BY DEF ReceiptsAreUsedOnce, Live, Filed
<1>5. CASE j \in Recorded /\ k \in Recorded
  <2>1. /\ Live(rows[j].command) /\ Live(rows[k].command) =>
             /\ rows[j].command.receipt.id # rows[k].command.receipt.id
             /\ rows[j].command.receipt.nonce # rows[k].command.receipt.nonce
        /\ /\ Filed(rows[j].command) /\ rows[j].decision = "applied"
           /\ Filed(rows[k].command) /\ rows[k].decision = "applied"
           => /\ rows[j].command.archive.id # rows[k].command.archive.id
              /\ rows[j].command.archive.digest # rows[k].command.archive.digest
    BY <1>5 DEF IInv, ReceiptsAreUsedOnce
  <2>2. /\ rows'[j].command = rows[j].command /\ rows'[j].decision = rows[j].decision
        /\ rows'[k].command = rows[k].command /\ rows'[k].decision = rows[k].decision
    BY <1>2, <1>5
  <2> QED
    BY <2>1, <2>2
<1>6. CASE j = key /\ k \in Recorded
  BY <1>2, <1>3, <1>4, <1>6
<1>7. CASE j \in Recorded /\ k = key
  BY <1>2, <1>3, <1>4, <1>7
<1> QED
  BY <1>2, <1>5, <1>6, <1>7

\* The audit gains the one version that the control gains.
LEMMA CommitAudits ==
    ASSUME LifecycleAssumption, IInv, NEW c \in Callers, call[c].stage = "commit",
           call[c].decision # "not_found", Record(c)
    PROVE  AuditTellsControl'
<1> DEFINE key == call[c].command.key
<1>1. /\ key \notin Recorded
      /\ call[c].decision # "applied" => NextControl(c) = control
      /\ call[c].decision = "applied" =>
           /\ control.version \in Nat \ {0}
           /\ NextControl(c).version = control.version + 1
           /\ RecordedControl(c) = NextControl(c)
  BY Recorded_Facts
<1>2. /\ Recorded' = Recorded \cup {key}
      /\ rows'[key] = NewRow(c)
      /\ \A k \in Recorded :
           rows'[k].version = rows[k].version /\ rows'[k].decision = rows[k].decision
  BY RowsAfter
<1>3. /\ call[c].decision = "applied" => rows'[key].version = NextControl(c).version
      /\ rows'[key].decision = call[c].decision
  BY <1>1, <1>2 DEF NewRow
<1>4. control' = NextControl(c) /\ control.version \in Nat
  BY DEF Record, IInv, TypeOK, Control
<1>5. /\ \A v \in 2..control.version :
           \E k \in Recorded : rows[k].decision = "applied" /\ rows[k].version = v
      /\ \A k \in Recorded : rows[k].decision = "applied" =>
           /\ rows[k].version \in 2..control.version
           /\ \A j \in Recorded :
                rows[j].decision = "applied" /\ rows[j].version = rows[k].version => j = k
  BY DEF IInv, AuditTellsControl
<1>6. CASE call[c].decision # "applied"
  <2>1. control'.version = control.version
    BY <1>1, <1>4, <1>6
  <2> QED
    BY <1>1, <1>2, <1>3, <1>5, <1>6, <2>1 DEF AuditTellsControl
<1>7. CASE call[c].decision = "applied"
  <2>1. /\ control'.version = control.version + 1
        /\ rows'[key].version = control.version + 1
        /\ rows'[key].decision = "applied"
        /\ control.version + 1 \in 2..control'.version
    BY <1>1, <1>3, <1>4, <1>7
  <2>2. \A v \in 2..control'.version : v \in 2..control.version \/ v = control.version + 1
    BY <1>4, <2>1
  <2>3. \A v \in 2..control'.version :
          \E k \in Recorded' : rows'[k].decision = "applied" /\ rows'[k].version = v
    BY <1>2, <1>5, <2>1, <2>2
  <2>4. \A v \in 2..control.version : v \in 2..control'.version /\ v # control.version + 1
    BY <1>4, <2>1
  <2>5. ASSUME NEW k \in Recorded', rows'[k].decision = "applied"
        PROVE  /\ rows'[k].version \in 2..control'.version
               /\ \A j \in Recorded' :
                    rows'[j].decision = "applied" /\ rows'[j].version = rows'[k].version
                      => j = k
    <3>1. CASE k = key
      BY <3>1, <1>2, <1>5, <2>1, <2>4
    <3>2. CASE k \in Recorded
      BY <3>2, <2>5, <1>1, <1>2, <1>5, <2>1, <2>4
    <3> QED
      BY <1>2, <3>1, <3>2
  <2> QED
    BY <2>3, <2>5 DEF AuditTellsControl
<1> QED
  BY <1>6, <1>7

\* Whoever was told of an operation is still told the truth.
LEMMA CommitAnswers ==
    ASSUME LifecycleAssumption, IInv, NEW c \in Callers, call[c].stage = "commit",
           call[c].decision # "not_found", Record(c)
    PROVE  AnswersStand'
<1>1. call[c].command.key \notin Recorded /\ call[c].decision \in Decided
  BY Recorded_Facts
<1>2. /\ Recorded' = Recorded \cup {call[c].command.key}
      /\ rows'[call[c].command.key] = NewRow(c)
      /\ \A k \in Recorded :
           rows'[k].command = rows[k].command /\ rows'[k].decision = rows[k].decision
  BY RowsAfter
<1>3. /\ \A d \in Callers \ {c} : call'[d] = call[d]
      /\ call'[c].command = call[c].command
      /\ call'[c].answer = call[c].decision
  BY CommitLocks
<1>4. ASSUME NEW d \in Callers
      PROVE  Stands(call[d])'
  <2>1. PICK x : x = call'[d]
    OBVIOUS
  <2>2. CASE d # c
    <3>1. Stands(x)
      BY <2>1, <2>2, <1>3 DEF IInv, AnswersStand, Stands
    <3> QED
      BY <3>1, <2>1, <1>2 DEF Stands
  <2>3. CASE d = c
    <3>1. /\ x.command = call[c].command /\ x.answer = call[c].decision
          /\ x.answer # "conflict"
      BY <2>1, <2>3, <1>1, <1>3 DEF Decided
    <3>2. /\ x.command.key \in Recorded'
          /\ rows'[x.command.key].command = x.command
          /\ rows'[x.command.key].decision = x.answer
      BY <3>1, <1>2 DEF NewRow
    <3> QED
      BY <3>1, <3>2, <2>1 DEF Stands
  <2> QED
    BY <2>2, <2>3
<1> QED
  BY <1>4 DEF AnswersStand, Stands

LEMMA CommitStep ==
    ASSUME LifecycleAssumption, IInv, NEW c \in Callers, Commit(c)
    PROVE  IInv'
<1>1. CASE call[c].decision = "not_found"
  <2>1. Quiet /\ Answer(c, "not_found")
    BY <1>1 DEF Commit, Quiet
  <2>2. "not_found" \in Answers
    BY DEF Answers
  <2> QED
    BY <2>1, <2>2, AnswerStep
<1>2. CASE call[c].decision # "not_found"
  <2>1. /\ call[c].stage = "commit" /\ Record(c)
        /\ ~Collides(call[c].command, call[c].decision)
    BY <1>2 DEF Commit
  <2>2. TypeOK' /\ ErasedIsNameless'
    BY <1>2, <2>1, CommitErases
  <2>3. Exclusive' /\ Judged' /\ OwnKeys' /\ Fenced'
    BY <1>2, <2>1, CommitLocks
  <2>4. ReceiptsAreUsedOnce' /\ AuditTellsControl' /\ AnswersStand'
    BY <1>2, <2>1, CommitUses, CommitAudits, CommitAnswers
  <2> QED
    BY <2>2, <2>3, <2>4 DEF IInv
<1> QED
  BY <1>1, <1>2

-----------------------------------------------------------------------------
(* The steps of others.                                                    *)

\* Nothing about the operations and the calls changes.
Apart == UNCHANGED <<rows, call>>

\* Whoever leaves the operations and the calls alone keeps what is about them.
LEMMA ApartKeeps ==
    ASSUME IInv, Apart
    PROVE  /\ OwnKeys' /\ ReceiptsAreUsedOnce' /\ AnswersStand'
           /\ rows' \in [Recorded' -> Row] /\ Recorded' = Recorded /\ Recorded' \subseteq Keys
           /\ call' \in [Callers -> Call]
           /\ control'.version = control.version => AuditTellsControl'
BY DEF Apart, IInv, TypeOK, OwnKeys, PastKey, ReceiptsAreUsedOnce, Live, Filed, AnswersStand,
       AuditTellsControl, Recorded

\* A candidate is made: nothing was known of it.
LEMMA CreateStep ==
    ASSUME LifecycleAssumption, IInv, Create
    PROVE  IInv'
<1>1. /\ Apart /\ UNCHANGED <<linked, work, expired, writing>>
      /\ control.state = "missing" /\ graph' = TRUE
      /\ control'.state = "active" /\ control'.from = "none" /\ control'.version = 1
      /\ control' \in Control
  BY DEF Create, Apart, Control
<1>2. control.version = 0
  BY <1>1 DEF IInv, TypeOK
<1>3. /\ OwnKeys' /\ ReceiptsAreUsedOnce' /\ AnswersStand'
      /\ rows' \in [Recorded' -> Row] /\ Recorded' = Recorded /\ Recorded' \subseteq Keys
      /\ call' \in [Callers -> Call]
  BY <1>1, ApartKeeps
<1>4. TypeOK'
  BY <1>1, <1>3 DEF IInv, TypeOK
<1>5. Exclusive'
  BY <1>1 DEF IInv, Exclusive, Apart
<1>6. Judged'
  BY <1>1 DEF IInv, Judged, Judgement, Apart
<1>7. ~Gone' /\ Fenced' /\ ErasedIsNameless'
  BY <1>1 DEF Gone, GoneIn, EffectiveIn, Fenced, ErasedIsNameless
<1>8. AuditTellsControl'
  <2>1. 2..control'.version = {} /\ 2..control.version = {}
    BY <1>1, <1>2
  <2>2. \A k \in Recorded : rows[k].decision # "applied"
    BY <2>1 DEF IInv, AuditTellsControl
  <2> QED
    BY <2>1, <2>2, <1>1, <1>3 DEF AuditTellsControl, Apart
<1> QED
  BY <1>3, <1>4, <1>5, <1>6, <1>7, <1>8 DEF IInv

LEMMA FenceStep ==
    ASSUME LifecycleAssumption, IInv, NEW w \in Writers, Fence(w)
    PROVE  IInv'
<1>1. /\ Apart /\ UNCHANGED <<control, linked, work, expired, graph>>
      /\ writing = {} /\ writing' = {w}
      /\ \A d \in Callers : call[d].stage # "commit"
      /\ control.state \notin {"missing", "unscoped"} /\ ~Gone
  BY DEF Fence, Apart, RowFree
<1>2. /\ OwnKeys' /\ ReceiptsAreUsedOnce' /\ AnswersStand' /\ AuditTellsControl'
      /\ rows' \in [Recorded' -> Row] /\ Recorded' = Recorded /\ Recorded' \subseteq Keys
      /\ call' \in [Callers -> Call]
  BY <1>1, ApartKeeps
<1>3. TypeOK'
  BY <1>1, <1>2 DEF IInv, TypeOK
<1>4. Exclusive' /\ Judged'
  BY <1>1 DEF Exclusive, Judged, Apart
<1>5. ~Gone' /\ Fenced' /\ ErasedIsNameless'
  BY <1>1 DEF Gone, Fenced, ErasedIsNameless
<1> QED
  BY <1>2, <1>3, <1>4, <1>5 DEF IInv

\* A writer past the check holds the rows: no operation is being decided.
LEMMA WriteStep ==
    ASSUME LifecycleAssumption, IInv, NEW w \in Writers, Write(w)
    PROVE  IInv'
<1>1. /\ Apart /\ UNCHANGED <<control, expired>>
      /\ w \in writing /\ writing' = writing \ {w} /\ graph' = TRUE
      /\ linked' \in BOOLEAN /\ work' \in 0..MaxWork
  <2>1. work \in 0..MaxWork /\ linked \in BOOLEAN /\ MaxWork \in Nat
    BY DEF IInv, TypeOK, LifecycleAssumption
  <2>2. linked' \in BOOLEAN
    BY <2>1 DEF Write
  <2>3. work' \in 0..MaxWork
    BY <2>1 DEF Write
  <2> QED
    BY <2>2, <2>3 DEF Write, Apart
<1>2. /\ OwnKeys' /\ ReceiptsAreUsedOnce' /\ AnswersStand' /\ AuditTellsControl'
      /\ rows' \in [Recorded' -> Row] /\ Recorded' = Recorded /\ Recorded' \subseteq Keys
      /\ call' \in [Callers -> Call]
  BY <1>1, ApartKeeps
<1>3. TypeOK'
  BY <1>1, <1>2 DEF IInv, TypeOK
<1>4. \A d \in Callers : call[d].stage # "commit"
  BY <1>1 DEF IInv, Exclusive
<1>5. Exclusive' /\ Judged'
  BY <1>1, <1>4 DEF Exclusive, Judged, Apart
<1>6. control.state \notin {"missing", "unscoped"} /\ ~Gone
  BY <1>1 DEF IInv, Fenced
<1>7. Fenced' /\ ErasedIsNameless'
  BY <1>1, <1>6 DEF Gone, Fenced, ErasedIsNameless
<1> QED
  BY <1>2, <1>3, <1>5, <1>7 DEF IInv

\* Deliveries end and the retention runs out: neither takes back a judgement.
LEMMA PassingStep ==
    ASSUME LifecycleAssumption, IInv, Deliver \/ Expire
    PROVE  IInv'
<1>1. /\ Apart /\ UNCHANGED <<control, linked, graph, writing>>
      /\ expired' \in BOOLEAN /\ (expired => expired')
      /\ work' \in 0..MaxWork /\ (work = 0 => work' = 0)
  <2>1. work \in 0..MaxWork /\ expired \in BOOLEAN /\ MaxWork \in Nat
    BY DEF IInv, TypeOK, LifecycleAssumption
  <2>2. CASE Deliver
    BY <2>1, <2>2 DEF Deliver, Apart
  <2>3. CASE Expire
    BY <2>1, <2>3 DEF Expire, Apart
  <2> QED
    BY <2>2, <2>3
<1>2. /\ OwnKeys' /\ ReceiptsAreUsedOnce' /\ AnswersStand' /\ AuditTellsControl'
      /\ rows' \in [Recorded' -> Row] /\ Recorded' = Recorded /\ Recorded' \subseteq Keys
      /\ call' \in [Callers -> Call]
  BY <1>1, ApartKeeps
<1>3. TypeOK'
  BY <1>1, <1>2 DEF IInv, TypeOK
<1>4. Exclusive'
  BY <1>1 DEF IInv, Exclusive, Apart
<1>5. Judged'
  <2>1. \A c \in Callers :
          call[c].stage = "commit" /\ call[c].decision \in {"applied", "preview"} =>
            (Possible(call[c].command.action))'
    <3> SUFFICES ASSUME NEW c \in Callers,
                        call[c].stage = "commit",
                        call[c].decision \in {"applied", "preview"}
                 PROVE  (Possible(call[c].command.action))'
      OBVIOUS
    <3>1. PICK action : action = call[c].command.action
      OBVIOUS
    <3>2. Possible(action) /\ action \in Actions
      BY <3>1, TypedCall DEF IInv, Judged, Judgement
    <3>3. (Possible(action))'
      BY <3>2, <1>1 DEF Possible, Actions
    <3> QED
      BY <3>1, <3>3, <1>1 DEF Apart, Possible
  <2> QED
    BY <2>1, <1>1 DEF IInv, Judged, Judgement, Apart
<1>6. Fenced' /\ ErasedIsNameless'
  BY <1>1, <1>2 DEF IInv, Gone, Fenced, ErasedIsNameless, Apart
<1> QED
  BY <1>2, <1>3, <1>4, <1>5, <1>6 DEF IInv

-----------------------------------------------------------------------------
(* The theorems.                                                           *)

\* The invariant does not depend on steps that change nothing.
LEMMA StutterStep ==
    ASSUME IInv, UNCHANGED vars
    PROVE  IInv'
<1>1. UNCHANGED <<control, linked, work, expired, graph, rows, call, writing>>
  BY DEF vars
<1>2. /\ OwnKeys' /\ ReceiptsAreUsedOnce' /\ AnswersStand' /\ AuditTellsControl'
      /\ rows' \in [Recorded' -> Row] /\ Recorded' = Recorded /\ Recorded' \subseteq Keys
      /\ call' \in [Callers -> Call]
  BY <1>1, ApartKeeps DEF Apart
<1>3. TypeOK'
  BY <1>1, <1>2 DEF IInv, TypeOK
<1>4. Exclusive' /\ Fenced'
  BY <1>1 DEF IInv, Exclusive, Fenced, Gone
<1>5. Judged'
  BY <1>1 DEF IInv, Judged, Judgement, Possible
<1>6. ErasedIsNameless'
  BY <1>1 DEF IInv, ErasedIsNameless, Gone, Recorded
<1> QED
  BY <1>2, <1>3, <1>4, <1>5, <1>6 DEF IInv

\* Every step keeps the invariant.
LEMMA StepIsGood ==
    ASSUME LifecycleAssumption, IInv, [Next]_vars
    PROVE  IInv'
<1>1. ASSUME NEW c \in Callers, Receive(c) \/ Lock(c) \/ Commit(c) \/ Refuse(c) \/ Fail(c)
      PROVE  IInv'
  BY <1>1, ReceiveStep, LockStep, LockRowStep, CommitStep, RollbackStep DEF Lock
<1>2. ASSUME NEW w \in Writers, Fence(w) \/ Write(w)
      PROVE  IInv'
  BY <1>2, FenceStep, WriteStep
<1>3. CASE Create \/ Deliver \/ Expire
  BY <1>3, CreateStep, PassingStep
<1>4. CASE UNCHANGED vars
  BY <1>4, StutterStep
<1> QED
  BY <1>1, <1>2, <1>3, <1>4 DEF Next

\* In every behaviour of the data lifecycle the inductive invariant holds: the
\* locks keep the judgement of execute_data_lifecycle until its commit.
THEOREM LifecycleInvariant ==
    ASSUME LifecycleAssumption
    PROVE  Spec => []IInv
<1>1. Init => IInv
  BY InitIsGood
<1>2. IInv /\ [Next]_vars => IInv'
  BY StepIsGood
<1> QED
  BY <1>1, <1>2, PTL DEF Spec

\* Rows, control and calls keep the types of migration 009 and of the domain.
THEOREM TypeCorrect ==
    ASSUME LifecycleAssumption
    PROVE  Spec => []TypeOK
<1>1. IInv => TypeOK
  BY DEF IInv
<1> QED
  BY <1>1, LifecycleInvariant, PTL

\* Once execute_data_lifecycle has erased, no row names a person and nothing is
\* left to deliver, whichever writers and calls were under way.
THEOREM ErasureIsLasting ==
    ASSUME LifecycleAssumption
    PROVE  Spec => []ErasedIsNameless
<1>1. IInv => ErasedIsNameless
  BY DEF IInv
<1> QED
  BY <1>1, LifecycleInvariant, PTL

\* A signed decision is recorded by one operation, a signed posture by one that
\* was applied: the unique indexes of migrations 009 and 015.
THEOREM ReceiptsOnce ==
    ASSUME LifecycleAssumption
    PROVE  Spec => []ReceiptsAreUsedOnce
<1>1. IInv => ReceiptsAreUsedOnce
  BY DEF IInv
<1> QED
  BY <1>1, LifecycleInvariant, PTL

\* Each version of the control after the first has its one applied operation.
THEOREM AuditIsComplete ==
    ASSUME LifecycleAssumption
    PROVE  Spec => []AuditTellsControl
<1>1. IInv => AuditTellsControl
  BY DEF IInv
<1> QED
  BY <1>1, LifecycleInvariant, PTL

\* What a caller was told stands on record under its idempotency key.
THEOREM AnswersAreKept ==
    ASSUME LifecycleAssumption
    PROVE  Spec => []AnswersStand
<1>1. IInv => AnswersStand
  BY DEF IInv
<1> QED
  BY <1>1, LifecycleInvariant, PTL

-----------------------------------------------------------------------------
(* The promise of RetainedCandidate: where each step goes.                 *)

PromiseVars == <<Stage, control.state = "held", expired, work > 0, Named, SpentIds>>

\* A decision that moves the control is spent by it, for the first time.
LEMMA CommitSpends ==
    ASSUME LifecycleAssumption, IInv, NEW c \in Callers, call[c].stage = "commit",
           call[c].decision # "not_found", ~Collides(call[c].command, call[c].decision),
           Record(c)
    PROVE  /\ call[c].decision # "applied" => SpentIds' = SpentIds
           /\ call[c].decision = "applied" => Promise!Used
<1> DEFINE me == call[c].command
<1>1. me.key \notin Recorded /\ me \in Commands
  BY Recorded_Facts
<1>2. /\ Recorded' = Recorded \cup {me.key}
      /\ rows'[me.key] = NewRow(c)
      /\ \A k \in Recorded :
           rows'[k].command = rows[k].command /\ rows'[k].decision = rows[k].decision
  BY RowsAfter
<1>3. rows'[me.key].command = me /\ rows'[me.key].decision = call[c].decision
  BY <1>2 DEF NewRow
<1>4. \A d \in Decisions : d \in SpentIds' <=>
        \/ d \in SpentIds
        \/ call[c].decision = "applied" /\ Live(me) /\ me.receipt.id = d
  <2>1. ASSUME NEW d \in Decisions
        PROVE  d \in SpentIds' <=>
                 \E k \in Recorded' : /\ rows'[k].decision = "applied"
                                      /\ Live(rows'[k].command)
                                      /\ rows'[k].command.receipt.id = d
    BY <2>1 DEF SpentIds, Live
  <2>2. ASSUME NEW d \in Decisions
        PROVE  d \in SpentIds <=>
                 \E k \in Recorded : /\ rows[k].decision = "applied"
                                     /\ Live(rows[k].command)
                                     /\ rows[k].command.receipt.id = d
    BY <2>2 DEF SpentIds
  <2> QED
    BY <1>2, <1>3, <2>1, <2>2
<1>5. SpentIds \subseteq Decisions /\ SpentIds' \subseteq Decisions
  BY DEF SpentIds
<1>6. call[c].decision # "applied" => SpentIds' = SpentIds
  BY <1>4, <1>5
<1>7. ASSUME call[c].decision = "applied" PROVE Promise!Used
  <2>1. None \notin Decisions
    BY DEF LifecycleAssumption
  <2>2. CASE Live(me)
    <3>1. me.receipt.id \in Decisions
      BY <1>1, <2>2 DEF LifecycleAssumption, Command, Live, Receipt
    <3>2. me.receipt.id \notin SpentIds
      BY <2>2 DEF Collides, Spent, SpentIds
    <3>3. SpentIds' = (SpentIds \cup {me.receipt.id}) \ {None}
      BY <1>4, <1>5, <1>7, <2>1, <2>2, <3>1
    <3> QED
      BY <3>1, <3>2, <3>3 DEF Promise!Used
  <2>3. CASE ~Live(me)
    <3>1. SpentIds' = (SpentIds \cup {None}) \ {None}
      BY <1>4, <1>5, <2>1, <2>3
    <3>2. None \notin SpentIds
      BY <1>5, <2>1
    <3> QED
      BY <3>1, <3>2 DEF Promise!Used
  <2> QED
    BY <2>2, <2>3
<1> QED
  BY <1>6, <1>7

\* A commit names somebody only of a candidate that is not erased, and makes
\* nobody nameless but by the erasure.
LEMMA CommitNames ==
    ASSUME LifecycleAssumption, IInv, NEW c \in Callers, call[c].stage = "commit",
           call[c].decision # "not_found", Record(c)
    PROVE  /\ Named \in BOOLEAN
           /\ Erases(c) => Named' = FALSE
           /\ Gone => Named = FALSE /\ Named' = FALSE
           /\ ~Gone /\ ~Erases(c) => Named' \in {Named, TRUE}
<1>1. /\ graph \in BOOLEAN
      /\ ErasedIsNameless
  BY DEF IInv, TypeOK
<1>2. ErasedIsNameless' /\ TypeOK'
  BY CommitErases
<1>3. /\ Gone' <=> Gone \/ Erases(c)
  BY Recorded_Facts DEF Record, Gone, GoneIn, EffectiveIn
<1>4. ~Erases(c) => (Named => Named')
  <2>1. /\ Recorded \subseteq Recorded'
        /\ \A k \in Recorded : rows'[k].named = (rows[k].named /\ ~Erases(c))
    BY RowsAfter
  <2>2. graph' = (graph /\ ~Erases(c))
    BY DEF Record
  <2> QED
    BY <2>1, <2>2 DEF Named
<1>5. Gone => Named = FALSE
  BY <1>1 DEF ErasedIsNameless, Named
<1>6. Gone' => Named' = FALSE
  BY <1>2 DEF ErasedIsNameless, Named, Recorded
<1>7. Named \in BOOLEAN /\ Named' \in BOOLEAN
  BY <1>1, <1>2 DEF Named, TypeOK
<1>8. ~Gone /\ ~Erases(c) => Named' \in {Named, TRUE}
  BY <1>4, <1>7
<1> QED
  BY <1>3, <1>5, <1>6, <1>7, <1>8

\* Where the commit goes.
LEMMA CommitKeepsPromise ==
    ASSUME LifecycleAssumption, IInv, NEW c \in Callers, call[c].stage = "commit",
           call[c].decision # "not_found", ~Collides(call[c].command, call[c].decision),
           Record(c)
    PROVE  Promise!Next \/ UNCHANGED PromiseVars
<1> DEFINE action == call[c].command.action
<1>1. /\ Named \in BOOLEAN
      /\ Erases(c) => Named' = FALSE
      /\ Gone => Named = FALSE /\ Named' = FALSE
      /\ ~Gone /\ ~Erases(c) => Named' \in {Named, TRUE}
  BY CommitNames
<1>2. /\ control' = NextControl(c)
      /\ UNCHANGED <<work, expired>>
  BY DEF Record
<1>3. /\ control \in Control /\ control.state # "missing"
      /\ control.state = "held" <=> control.from # "none"
      /\ action \in Actions
  BY Recorded_Facts, TypedCall DEF IInv, TypeOK
<1>4. CASE call[c].decision # "applied"
  <2>1. control' = control /\ SpentIds' = SpentIds /\ ~Erases(c)
    BY <1>2, <1>4, Recorded_Facts, CommitSpends DEF Erases
  <2>2. Stage' = Stage /\ (work > 0)' = (work > 0)
    BY <1>2, <2>1 DEF Stage, Effective, EffectiveIn
  <2>3. CASE Gone
    BY <1>1, <1>2, <2>1, <2>2, <2>3 DEF PromiseVars
  <2>4. CASE ~Gone
    <3>1. Stage = "active"
      BY <1>3, <2>4 DEF Stage, Effective, EffectiveIn, Gone, GoneIn, Control
    <3>2. (work > 0)' \in BOOLEAN
      BY DEF Record
    <3>3. Named' \in {Named, TRUE}
      BY <1>1, <2>1, <2>4, Zenon
    <3>4. /\ Stage \in {"new", "active"} /\ Stage' = Stage
          /\ UNCHANGED <<control.state = "held", expired, SpentIds>>
      BY <1>2, <2>1, <2>2, <3>1
    <3>5. Promise!Work
      BY <3>2, <3>3, <3>4, Zenon DEF Promise!Work
    <3> QED
      BY <3>5 DEF Promise!Next
  <2> QED
    BY <2>3, <2>4
<1>5. CASE call[c].decision = "applied"
  <2>1. /\ Promise!Used
        /\ control' = Projected(action)
        /\ control.state \notin {"missing", "unscoped"}
        /\ Possible(action)
    <3>1. Judgement(call[c])
      BY DEF IInv, Judged
    <3> QED
      BY <1>2, <1>5, <3>1, CommitSpends DEF NextControl, Judgement
  <2>2. Stage = Effective /\ (Gone <=> Effective \in {"erased", "purged"})
    BY <2>1 DEF Stage, Gone, GoneIn, Effective
  <2>3. CASE action = "apply_hold"
    <3>1. /\ control.state # "held" /\ Effective = control.state
          /\ control'.state = "held" /\ control'.from = control.state
      BY <2>1, <2>3 DEF Possible, Projected, Effective, EffectiveIn
    <3>2. Stage' = Stage /\ Stage \in {"active", "erased", "purged"}
      BY <1>3, <2>1, <2>2, <3>1 DEF Stage, Effective, EffectiveIn, Control
    <3>3. Named' \in {Named, Stage = "active"}
      BY <1>1, <2>2, <2>3, <3>2 DEF Erases
    <3>4. Promise!Hold
      BY <1>2, <2>1, <3>1, <3>2, <3>3 DEF Promise!Hold
    <3> QED
      BY <3>4 DEF Promise!Next
  <2>4. CASE action = "release_hold"
    <3>1. /\ control.state = "held" /\ Effective = control.from
          /\ control'.state = control.from /\ control'.from = "none"
          /\ control.from \in {"active", "erased", "purged"}
      BY <1>3, <2>1, <2>4 DEF Possible, Projected, Effective, EffectiveIn, Control
    <3>2. Stage' = Stage /\ Stage \in {"active", "erased", "purged"}
      BY <2>2, <3>1 DEF Stage, Effective, EffectiveIn
    <3>3. Named' \in {Named, Stage = "active"}
      BY <1>1, <2>2, <2>4, <3>2 DEF Erases
    <3>4. control'.state # "held"
      BY <3>1
    <3>5. Promise!Release
      BY <1>2, <2>1, <3>1, <3>2, <3>3, <3>4 DEF Promise!Release
    <3> QED
      BY <3>5 DEF Promise!Next
  <2>5. CASE action = "erase"
    <3>1. /\ control.state = "active" /\ work = 0 /\ Effective = "active"
          /\ control'.state = "erased"
      BY <2>1, <2>5 DEF Possible, Projected, Effective, EffectiveIn
    <3>2. Stage = "active" /\ Stage' = "erased"
      BY <2>2, <3>1 DEF Stage, Effective, EffectiveIn
    <3>3. Named' = FALSE
      BY <1>1, <1>5, <2>5 DEF Erases
    <3>4. Promise!Erase
      BY <1>2, <2>1, <3>1, <3>2, <3>3 DEF Promise!Erase
    <3> QED
      BY <3>4 DEF Promise!Next
  <2>6. CASE action = "purge"
    <3>1. /\ control.state = "erased" /\ work = 0 /\ expired /\ Effective = "erased"
          /\ control'.state = "purged"
      BY <2>1, <2>6 DEF Possible, Projected, Effective, EffectiveIn
    <3>2. Stage = "erased" /\ Stage' = "purged"
      BY <2>2, <3>1 DEF Stage, Effective, EffectiveIn
    <3>3. Named' = Named
      BY <1>1, <2>2, <3>1
    <3>4. Promise!Purge
      BY <1>2, <2>1, <3>1, <3>2, <3>3 DEF Promise!Purge
    <3> QED
      BY <3>4 DEF Promise!Next
  <2> QED
    BY <1>3, <2>3, <2>4, <2>5, <2>6 DEF Actions
<1> QED
  BY <1>4, <1>5

\* The first state is one the promise begins in.
LEMMA PromiseInit ==
    ASSUME Init
    PROVE  Promise!Init
<1>1. /\ control.state \in {"missing", "unscoped", "active"}
      /\ graph = (control.state # "missing")
  BY DEF Init
<1>2. Recorded = {} /\ SpentIds = {} /\ Named = graph
  BY <1>1 DEF Init, Recorded, SpentIds, Named
<1>3. /\ Stage \in {"new", "active"} /\ (Stage = "active" <=> control.state # "missing")
      /\ control.state # "held"
  BY <1>1 DEF Stage, Effective, EffectiveIn
<1>4. expired = FALSE /\ work = 0
  BY DEF Init
<1>5. Named = (Stage = "active")
  BY <1>1, <1>2, <1>3
<1>6. (control.state = "held") = FALSE /\ (work > 0) = FALSE
  BY <1>3, <1>4
<1> QED
  BY <1>2, <1>3, <1>4, <1>5, <1>6 DEF Promise!Init

\* Writers and deliveries keep the promise.
LEMMA OthersKeepPromise ==
    ASSUME LifecycleAssumption, IInv,
           Create \/ Deliver \/ Expire \/ \E w \in Writers : Fence(w) \/ Write(w)
    PROVE  Promise!Next \/ UNCHANGED PromiseVars
<1>1. rows' = rows /\ SpentIds' = SpentIds /\ graph \in BOOLEAN /\ control \in Control
  BY DEF Create, Deliver, Expire, Fence, Write, SpentIds, Recorded, Live, IInv, TypeOK
<1>2. CASE Create
  <2>1. Stage = "new" /\ Stage' = "active"
    BY <1>2 DEF Create, Stage, Effective, EffectiveIn
  <2>2. Named' = TRUE /\ UNCHANGED <<work, expired>>
        /\ control.state # "held" /\ control'.state # "held"
    BY <1>2 DEF Create, Named
  <2>3. Promise!Work
    BY <1>1, <2>1, <2>2 DEF Promise!Work
  <2> QED
    BY <2>3 DEF Promise!Next
<1>3. CASE Deliver
  <2>1. Stage' = Stage /\ Named' = Named /\ UNCHANGED <<control, expired>>
    BY <1>3, <1>1 DEF Deliver, Stage, Effective, EffectiveIn, Named, Recorded
  <2>2. CASE work' > 0
    <3>1. work > 0
      BY <1>3 DEF Deliver
    <3> QED
      BY <1>1, <2>1, <2>2, <3>1 DEF PromiseVars
  <2>3. CASE ~(work' > 0)
    <3>1. Promise!Settle
      BY <1>1, <2>1, <2>3 DEF Promise!Settle
    <3> QED
      BY <3>1 DEF Promise!Next
  <2> QED
    BY <2>2, <2>3
<1>4. CASE Expire
  <2>1. Stage' = Stage /\ Named' = Named /\ UNCHANGED <<control, work>> /\ expired' = TRUE
    BY <1>4, <1>1 DEF Expire, Stage, Effective, EffectiveIn, Named, Recorded
  <2>2. Promise!Expire
    BY <1>1, <2>1 DEF Promise!Expire
  <2> QED
    BY <2>2 DEF Promise!Next
<1>5. ASSUME NEW w \in Writers, Fence(w) PROVE UNCHANGED PromiseVars
  BY <1>1, <1>5 DEF Fence, PromiseVars, Stage, Effective, EffectiveIn, Named, Recorded
<1>6. ASSUME NEW w \in Writers, Write(w) PROVE Promise!Next
  <2>1. control.state \notin {"missing", "unscoped"} /\ ~Gone
    BY <1>6 DEF Write, IInv, Fenced
  <2>2. UNCHANGED <<control, expired>> /\ Named' = TRUE
    BY <1>6 DEF Write, Named
  <2>3. Stage = "active" /\ Stage' = Stage
    <3>1. control.state = "held" <=> control.from # "none"
      BY DEF IInv, TypeOK
    <3>2. Stage = "active"
      BY <1>1, <2>1, <3>1 DEF Stage, Effective, EffectiveIn, Gone, GoneIn, Control
    <3>3. Stage' = Stage
      BY <2>2 DEF Stage, Effective, EffectiveIn
    <3> QED
      BY <3>2, <3>3
  <2>4. Promise!Work
    BY <1>1, <2>2, <2>3 DEF Promise!Work
  <2> QED
    BY <2>4 DEF Promise!Next
<1> QED
  BY <1>2, <1>3, <1>4, <1>5, <1>6

\* The calls keep the promise: only their commits count.
LEMMA CallsKeepPromise ==
    ASSUME LifecycleAssumption, IInv, NEW c \in Callers,
           Receive(c) \/ Lock(c) \/ Commit(c) \/ Refuse(c) \/ Fail(c)
    PROVE  Promise!Next \/ UNCHANGED PromiseVars
<1>1. CASE UNCHANGED <<control, work, expired, graph, rows>>
  BY <1>1 DEF PromiseVars, Stage, Effective, EffectiveIn, Named, SpentIds, Recorded, Live
<1>2. CASE Commit(c) /\ call[c].decision # "not_found"
  <2>1. /\ call[c].stage = "commit" /\ Record(c)
        /\ ~Collides(call[c].command, call[c].decision)
    BY <1>2 DEF Commit
  <2> QED
    BY <1>2, <2>1, CommitKeepsPromise
<1>3. CASE Receive(c) \/ Lock(c) \/ Refuse(c) \/ Fail(c)
  BY <1>1, <1>3 DEF Receive, Lock, LockKey, LockAuthority, LockArchive, LockRow, Refuse, Fail
<1>4. CASE Commit(c) /\ call[c].decision = "not_found"
  BY <1>1, <1>4 DEF Commit
<1> QED
  BY <1>2, <1>3, <1>4

\* The data lifecycle implements RetainedCandidate: erased once and for good,
\* purged only after that and the retention, and moved by a signed decision of
\* the bank at most once.
THEOREM PromiseKept ==
    ASSUME LifecycleAssumption
    PROVE  Spec => ImplementsPromise
<1>1. Init => Promise!Init
  BY PromiseInit
<1>2. IInv /\ [Next]_vars => [Promise!Next]_PromiseVars
  <2> SUFFICES ASSUME IInv, [Next]_vars PROVE Promise!Next \/ UNCHANGED PromiseVars
    OBVIOUS
  <2>1. CASE UNCHANGED vars
    BY <2>1 DEF vars, PromiseVars, Stage, Effective, EffectiveIn, Named, SpentIds, Recorded, Live
  <2> QED
    BY <2>1, OthersKeepPromise, CallsKeepPromise DEF Next
<1>3. [Promise!Next]_PromiseVars => [Promise!Next]_Promise!vars
  BY DEF PromiseVars, Promise!vars
<1> QED
  BY <1>1, <1>2, <1>3, LifecycleInvariant, PTL DEF Spec, ImplementsPromise, Promise!Spec

-----------------------------------------------------------------------------
(* What the promise gives the bank.                                        *)

Kept ==
    /\ control.state = "held" => Stage' = Stage
    /\ Stage = "erased" => Stage' \in {"erased", "purged"}
    /\ Stage = "purged" => Stage' = "purged"
    /\ Stage' = "purged" /\ Stage # "purged" => Stage = "erased" /\ expired

\* Held data stay what they are; erasure is for good; nothing is purged that
\* was not erased, or whose retention has not ended.
HoldsAndRetentionStand == [][Kept]_vars

\* Whatever operations race, a legal hold on record stops every erasure and
\* purge (evaluate_data_lifecycle is asked again under the lock of the row), and the
\* end of the retention comes before any purge.  From the promise.
THEOREM BankIsObeyed ==
    ASSUME LifecycleAssumption
    PROVE  Spec => HoldsAndRetentionStand
<1> DEFINE Known == control.state = "held" => Stage # "new"
<1>1. Promise!Init => Known
  BY DEF Promise!Init
<1>2. ASSUME Known, Promise!Next PROVE Kept /\ Known'
  <2> DEFINE held == control.state = "held"
             stage == Stage
  <2>1. /\ held => stage' = stage
        /\ stage = "erased" => stage' \in {"erased", "purged"}
        /\ stage = "purged" => stage' = "purged"
        /\ stage' = "purged" /\ stage # "purged" => stage = "erased" /\ expired
        /\ held' => stage' # "new"
    <3>0. held => stage # "new"
      BY <1>2
    <3> HIDE DEF held, stage
    <3>1. CASE Promise!Work
      BY <3>0, <3>1 DEF Promise!Work, held, stage
    <3>2. CASE Promise!Settle \/ Promise!Expire
      BY <3>0, <3>2 DEF Promise!Settle, Promise!Expire, held, stage
    <3>3. CASE Promise!Hold \/ Promise!Release
      BY <3>0, <3>3 DEF Promise!Hold, Promise!Release, held, stage
    <3>4. CASE Promise!Erase \/ Promise!Purge
      BY <3>0, <3>4 DEF Promise!Erase, Promise!Purge, held, stage
    <3> QED
      BY <1>2, <3>1, <3>2, <3>3, <3>4 DEF Promise!Next
  <2> QED
    BY <2>1 DEF Kept
<1>3. UNCHANGED Promise!vars => Kept /\ (Known => Known')
  BY DEF Promise!vars, Kept
<1>4. Known /\ [Promise!Next]_Promise!vars => [Kept]_vars /\ Known'
  BY <1>2, <1>3
<1> HIDE DEF Known
<1> QED
  BY <1>1, <1>4, PromiseKept, PTL DEF ImplementsPromise, Promise!Spec, HoldsAndRetentionStand
=============================================================================
