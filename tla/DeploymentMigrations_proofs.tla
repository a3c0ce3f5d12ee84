--------------------- MODULE DeploymentMigrations_proofs ---------------------
(***************************************************************************)
(* Proofs about deployment migrations, for any images, runners and legacy  *)
(* structures: the history of a database tells its structure, and whatever *)
(* overlaps or fails, it sees whole deployments, rollbacks and adoptions.  *)
(***************************************************************************)
EXTENDS DeploymentMigrations, TLAPS

-----------------------------------------------------------------------------
(* Prefixes and structures.                                                *)

\* A prefix as long as its image is the image.
LEMMA WholePrefix ==
    ASSUME NEW S, NEW s \in Seq(S), NEW t \in Seq(S), Prefix(s, t), Len(s) = Len(t)
    PROVE  s = t
BY DEF Prefix

\* The next migration of the image goes onto a prefix of it.
LEMMA PrefixGrows ==
    ASSUME NEW S, NEW s \in Seq(S), NEW t \in Seq(S), Prefix(s, t), Len(s) < Len(t)
    PROVE  LET m == t[Len(s) + 1] IN
           /\ m \in S
           /\ Append(s, m) \in Seq(S) /\ Len(Append(s, m)) = Len(s) + 1
           /\ Prefix(Append(s, m), t)
           /\ Structure(Append(s, m)) = Structure(s) \cup ({m} \cap Structural)
<1> DEFINE m == t[Len(s) + 1]
           a == Append(s, m)
<1>1. m \in S /\ Len(s) \in Nat
  OBVIOUS
<1>2. a \in Seq(S) /\ Len(a) = Len(s) + 1 /\ DOMAIN a = 1..(Len(s) + 1)
  BY <1>1
<1>3. a[Len(s) + 1] = m /\ \A n \in 1..Len(s) : a[n] = s[n]
  BY <1>1
<1>4. Prefix(a, t)
  BY <1>1, <1>2, <1>3 DEF Prefix
<1>5. Structure(a) = Structure(s) \cup ({m} \cap Structural)
  <2>1. DOMAIN a = DOMAIN s \cup {Len(s) + 1} /\ DOMAIN s = 1..Len(s)
    BY <1>1, <1>2
  <2> HIDE DEF a, m
  <2>2. {a[n] : n \in DOMAIN a} = {s[n] : n \in DOMAIN s} \cup {m}
    BY <1>3, <2>1
  <2> QED
    BY <2>2 DEF Structure
<1> QED
  BY <1>1, <1>2, <1>4, <1>5

\* The latest migration is taken away from a prefix of an image without
\* repetitions: nothing else goes.
LEMMA PrefixShrinks ==
    ASSUME NEW S, NEW s \in Seq(S), NEW t \in Seq(S), Prefix(s, t), Distinct(t), Len(s) > 0
    PROVE  LET m == s[Len(s)]
               f == SubSeq(s, 1, Len(s) - 1) IN
           /\ m \in S
           /\ f \in Seq(S) /\ Len(f) = Len(s) - 1
           /\ Prefix(f, t)
           /\ Structure(f) = Structure(s) \ {m}
<1> DEFINE m == s[Len(s)]
           f == SubSeq(s, 1, Len(s) - 1)
<1>1. Len(s) \in Nat \ {0} /\ m \in S /\ DOMAIN s = 1..Len(s)
  OBVIOUS
<1>2. f \in Seq(S) /\ Len(f) = Len(s) - 1 /\ DOMAIN f = 1..(Len(s) - 1)
  BY <1>1
<1>3. \A n \in 1..(Len(s) - 1) : f[n] = s[n]
  BY <1>1
<1>4. Prefix(f, t)
  BY <1>1, <1>2, <1>3 DEF Prefix
<1>5. \A n \in 1..(Len(s) - 1) : s[n] # m
  BY <1>1 DEF Prefix, Distinct
<1>6. DOMAIN s = DOMAIN f \cup {Len(s)}
  BY <1>1, <1>2
<1> HIDE DEF f
<1>7. {f[n] : n \in DOMAIN f} = {s[n] : n \in DOMAIN s} \ {m}
  BY <1>2, <1>3, <1>5, <1>6
<1> QED
  BY <1>1, <1>2, <1>4, <1>7 DEF f, Structure

\* Two prefixes of an image: the shorter one begins the longer.
LEMMA PrefixesNest ==
    ASSUME NEW S, NEW s \in Seq(S), NEW h \in Seq(S), NEW t \in Seq(S),
           Prefix(s, t), Prefix(h, t), Len(s) <= Len(h)
    PROVE  s = SubSeq(h, 1, Len(s))
<1>1. Len(SubSeq(h, 1, Len(s))) = Len(s) /\ SubSeq(h, 1, Len(s)) \in Seq(S)
  OBVIOUS
<1>2. \A n \in 1..Len(s) : SubSeq(h, 1, Len(s))[n] = s[n]
  BY DEF Prefix
<1> QED
  BY <1>1, <1>2

LEMMA EmptyStructure == Structure(<<>>) = {}
BY DEF Structure

\* What is assumed of an image.
LEMMA ImageFacts ==
    ASSUME NEW image \in Images
    PROVE  image \in Seq(Migrations) /\ Distinct(image) /\ Len(image) \in Nat \ {0}
           /\ image[1] \in Structure(image)
<1>1. image \in Seq(Migrations) /\ Len(image) > 0 /\ image[1] \in Structural
      /\ \A m \in 1..Len(image), n \in 1..Len(image) : image[m] = image[n] => m = n
  BY DeploymentAssumption DEF DeploymentAssumption
<1>2. 1 \in DOMAIN image /\ Len(image) \in Nat
  BY <1>1
<1> QED
  BY <1>1, <1>2 DEF Distinct, Structure

-----------------------------------------------------------------------------
(* One migration of a run.                                                 *)

LEMMA DatabaseFields ==
    ASSUME NEW d \in Database
    PROVE  /\ d.history \in Seq(Migrations) /\ d.tracked \in BOOLEAN
           /\ d.schema \in SUBSET Structural /\ d.events \in Seq(Event)
BY DEF Database

LEMMA RunFields ==
    ASSUME NEW me \in Run
    PROVE  /\ me.stage \in Open \cup {"idle"} /\ me.operation \in Operations
           /\ me.image \in Images /\ me.count \in 0..MaxRollback
           /\ me.left \in Nat /\ me.work \in Database
BY DEF Run

LEMMA EventGrows ==
    ASSUME NEW e \in Seq(Event), NEW operation \in Operations, NEW m \in Migrations
    PROVE  Append(e, [operation |-> operation, migration |-> m]) \in Seq(Event)
BY DEF Event

\* What one migration makes of the work of a run.
LEMMA StepOfWork ==
    ASSUME NEW me \in Run, Doing(me), me.left > 0
    PROVE  /\ Stepped(me) \in Database /\ Stepped(me).tracked
           /\ Prefix(Stepped(me).history, me.image)
           /\ me.operation = "apply" =>
                /\ Stepped(me).schema = Structure(Stepped(me).history)
                /\ Len(Stepped(me).history) = Len(me.work.history) + 1
           /\ me.operation = "rollback" =>
                /\ Stepped(me).schema = Structure(Stepped(me).history)
                /\ Len(Stepped(me).history) = Len(me.work.history) - 1
           /\ me.operation = "adopt" =>
                /\ Stepped(me).schema = me.work.schema
                /\ Len(Stepped(me).history) = Len(me.work.history) + 1
<1> DEFINE w == me.work
           t == me.image
<1>1. /\ w \in Database /\ t \in Images /\ me.left \in Nat /\ me.operation \in Operations
  BY RunFields
<1>2. /\ w.history \in Seq(Migrations) /\ w.schema \in SUBSET Structural
      /\ w.events \in Seq(Event) /\ w.tracked /\ Prefix(w.history, t)
  BY <1>1, DatabaseFields DEF Doing
<1>3. t \in Seq(Migrations) /\ Distinct(t)
  BY <1>1, ImageFacts
<1> HIDE DEF w, t
<1>4. CASE me.operation = "apply"
  <2>1. Len(w.history) < Len(t) /\ w.schema = Structure(w.history)
    BY <1>1, <1>2, <1>3, <1>4 DEF Doing, w, t
  <2> DEFINE m == t[Len(w.history) + 1]
             h == Append(w.history, m)
  <2>2. /\ m \in Migrations /\ h \in Seq(Migrations) /\ Len(h) = Len(w.history) + 1
        /\ Prefix(h, t) /\ Structure(h) = Structure(w.history) \cup ({m} \cap Structural)
    BY <1>2, <1>3, <2>1, PrefixGrows
  <2>3. Append(w.events, [operation |-> "apply", migration |-> m]) \in Seq(Event)
    BY <1>2, <2>2, EventGrows DEF Operations
  <2>4. Stepped(me) = [history |-> h, tracked |-> w.tracked,
                       schema |-> w.schema \cup ({m} \cap Structural),
                       events |-> Append(w.events, [operation |-> "apply", migration |-> m])]
    BY <1>4 DEF Stepped, ApplyNext, w, t
  <2> HIDE DEF m, h
  <2> QED
    BY <1>2, <1>4, <2>1, <2>2, <2>3, <2>4 DEF Database, w, t
<1>5. CASE me.operation = "rollback"
  <2>1. Len(w.history) > 0 /\ w.schema = Structure(w.history)
    BY <1>1, <1>2, <1>5 DEF Doing, w
  <2> DEFINE m == w.history[Len(w.history)]
             h == SubSeq(w.history, 1, Len(w.history) - 1)
  <2>2. /\ m \in Migrations /\ h \in Seq(Migrations) /\ Len(h) = Len(w.history) - 1
        /\ Prefix(h, t) /\ Structure(h) = Structure(w.history) \ {m}
    BY <1>2, <1>3, <2>1, PrefixShrinks
  <2>3. Append(w.events, [operation |-> "rollback", migration |-> m]) \in Seq(Event)
    BY <1>2, <2>2, EventGrows DEF Operations
  <2>4. Stepped(me) = [history |-> h, tracked |-> w.tracked, schema |-> w.schema \ {m},
                       events |-> Append(w.events, [operation |-> "rollback", migration |-> m])]
    BY <1>5 DEF Stepped, RollbackNext, w
  <2> HIDE DEF m, h
  <2> QED
    BY <1>2, <1>5, <2>1, <2>2, <2>3, <2>4 DEF Database, w, t
<1>6. CASE me.operation = "adopt"
  <2>1. Len(w.history) < Len(t)
    BY <1>1, <1>2, <1>3, <1>6 DEF Doing, w, t
  <2> DEFINE m == t[Len(w.history) + 1]
             h == Append(w.history, m)
  <2>2. /\ m \in Migrations /\ h \in Seq(Migrations) /\ Len(h) = Len(w.history) + 1
        /\ Prefix(h, t)
    BY <1>2, <1>3, <2>1, PrefixGrows
  <2>3. Append(w.events, [operation |-> "adopt", migration |-> m]) \in Seq(Event)
    BY <1>2, <2>2, EventGrows DEF Operations
  <2>4. Stepped(me) = [history |-> h, tracked |-> w.tracked, schema |-> w.schema,
                       events |-> Append(w.events, [operation |-> "adopt", migration |-> m])]
    BY <1>6 DEF Stepped, AdoptNext, w, t
  <2> HIDE DEF m, h
  <2> QED
    BY <1>2, <1>6, <2>2, <2>3, <2>4 DEF Database, w, t
<1> QED
  BY <1>1, <1>4, <1>5, <1>6 DEF Operations

\* A run that has done one migration more is still doing what it set out to.
LEMMA StepKept ==
    ASSUME NEW me \in Run, Doing(me), me.left \in Nat, me.left > 0, NEW new \in Run,
           new.operation = me.operation, new.image = me.image,
           new.left = me.left - 1, new.work = Stepped(me), db \in Database
    PROVE  Doing(new)
<1>1. /\ me.work.history \in Seq(Migrations) /\ new.work.history \in Seq(Migrations)
      /\ me.operation \in Operations /\ new.work.schema \subseteq Structural
      /\ db.history \in Seq(Migrations) /\ me.image \in Seq(Migrations)
  BY RunFields, DatabaseFields, ImageFacts
<1>2. /\ Len(me.work.history) \in Nat /\ Len(new.work.history) \in Nat
      /\ Len(db.history) \in Nat /\ Len(me.image) \in Nat
  BY <1>1
<1>3. CASE me.operation = "apply"
  <2>1. Len(new.work.history) = Len(me.work.history) + 1
        /\ Len(me.work.history) + me.left = Len(me.image)
    BY <1>3, StepOfWork DEF Doing
  <2>2. Len(new.work.history) + new.left = Len(me.image)
    BY <1>2, <2>1
  <2> QED
    BY <1>1, <1>3, <2>2, StepOfWork DEF Doing
<1>4. CASE me.operation = "rollback"
  <2>1. Len(new.work.history) = Len(me.work.history) - 1
        /\ me.left <= Len(me.work.history) /\ Len(me.work.history) <= Len(db.history)
    BY <1>4, StepOfWork DEF Doing
  <2>2. new.left <= Len(new.work.history) /\ Len(new.work.history) <= Len(db.history)
    BY <1>2, <2>1
  <2> QED
    BY <1>1, <1>4, <2>2, StepOfWork DEF Doing
<1>5. CASE me.operation = "adopt"
  <2>1. Len(new.work.history) = Len(me.work.history) + 1
        /\ Len(me.work.history) + me.left = Len(me.image)
    BY <1>5, StepOfWork DEF Doing
  <2>2. Len(new.work.history) + new.left = Len(me.image)
    BY <1>2, <2>1
  <2> QED
    BY <1>1, <1>5, <2>2, StepOfWork DEF Doing
<1> QED
  BY <1>1, <1>3, <1>4, <1>5 DEF Operations

\* What a run that may go on sees when it starts.
LEMMA CheckedIsDoing ==
    ASSUME IInv, NEW me \in Run, Permitted(me, db), NEW new \in Run,
           new.operation = me.operation, new.image = me.image, new.left = Due(me, db),
           new.work = [db EXCEPT !.tracked = TRUE]
    PROVE  Doing(new)
<1>1. /\ db \in Database /\ me.operation \in Operations /\ me.image \in Images
      /\ me.count \in Nat
  BY RunFields, DeploymentAssumption DEF IInv, TypeOK, DeploymentAssumption
<1>2. /\ db.history \in Seq(Migrations) /\ db.schema \in SUBSET Structural
      /\ Len(db.history) \in Nat /\ Len(me.image) \in Nat
  BY <1>1, DatabaseFields, ImageFacts
<1>3. /\ new.work.tracked /\ new.work.history = db.history /\ new.work.schema = db.schema
  BY <1>1 DEF Database
<1>4. Prefix(db.history, me.image)
  BY DEF Permitted
<1>5. me.operation # "adopt" => db.schema = Structure(db.history)
  <2>1. CASE db.tracked
    BY <2>1 DEF IInv, HistoryTells
  <2>2. CASE ~db.tracked
    BY <2>2, EmptyStructure DEF IInv, Untracked, Permitted
  <2> QED
    BY <2>1, <2>2
<1>6. CASE me.operation = "apply"
  BY <1>1, <1>2, <1>3, <1>4, <1>5, <1>6 DEF Doing, Due, Permitted
<1>7. CASE me.operation = "rollback"
  BY <1>1, <1>2, <1>3, <1>4, <1>5, <1>7 DEF Doing, Due, Permitted
<1>8. CASE me.operation = "adopt"
  <2>1. db.history = <<>> /\ db.schema # {} /\ db.schema = Structure(me.image)
    BY <1>8 DEF Permitted
  <2>2. new.left = Len(me.image)
    BY <1>8 DEF Due
  <2>3. Len(new.work.history) = 0
    BY <1>3, <2>1
  <2>4. Len(new.work.history) + new.left = Len(new.image)
    <3>1. 0 + Len(me.image) = Len(me.image)
      BY <1>2
    <3> QED
      BY <2>2, <2>3, <3>1, Zenon
  <2>5. Prefix(db.history, new.image) /\ Prefix(new.work.history, new.image)
    BY <1>3, <1>4
  <2>6. db.schema = Structure(new.image) /\ new.work.schema = db.schema
        /\ new.work.schema \subseteq Structural
    BY <1>2, <1>3, <2>1
  <2> QED
    BY <1>3, <1>8, <2>1, <2>4, <2>5, <2>6 DEF Doing
<1> QED
  BY <1>1, <1>6, <1>7, <1>8 DEF Operations

-----------------------------------------------------------------------------
(* The invariant.                                                          *)

LEMMA IdleIsRun == Idle \in Run
<1>1. (CHOOSE i \in Images : TRUE) \in Images
  BY DeploymentAssumption DEF DeploymentAssumption
<1>2. Empty \in Database
  BY DEF Empty, Database
<1> QED
  BY <1>1, <1>2, DeploymentAssumption DEF Idle, Run, Operations, Open, DeploymentAssumption

LEMMA InitIInv == Init => IInv
<1> SUFFICES ASSUME Init PROVE IInv
  OBVIOUS
<1>1. PICK legacy \in SUBSET Structural : db = [Empty EXCEPT !.schema = legacy]
  BY DeploymentAssumption DEF Init, DeploymentAssumption
<1>2. db = [history |-> <<>>, tracked |-> FALSE, schema |-> legacy, events |-> <<>>]
  BY <1>1 DEF Empty
<1>3. db \in Database /\ ~db.tracked /\ db.history = <<>>
  BY <1>2 DEF Database
<1>4. TypeOK
  BY <1>3, IdleIsRun DEF Init, TypeOK
<1>5. RunsOK
  BY DEF Init, RunsOK, Idle
<1> QED
  BY <1>3, <1>4, <1>5 DEF IInv, HistoryTells, Untracked

\* Only a commit changes the database, to the work of a run whose migrations
\* are all done.
LEMMA StepKinds ==
    ASSUME IInv, [Next]_vars
    PROVE  \/ db' = db
           \/ \E r \in Runners : /\ Commit(r) /\ db' = run[r].work
                                 /\ run[r] \in Run /\ Doing(run[r]) /\ run[r].left = 0
<1>1. CASE UNCHANGED vars
  BY <1>1 DEF vars
<1>2. ASSUME NEW r \in Runners, Commit(r)
      PROVE  db' = run[r].work /\ run[r] \in Run /\ Doing(run[r]) /\ run[r].left = 0
  BY <1>2 DEF Commit, IInv, TypeOK, RunsOK
<1>3. ASSUME NEW r \in Runners, Start(r) \/ Lock(r) \/ Check(r) \/ Step(r) \/ Fail(r)
      PROVE  db' = db
  BY <1>3 DEF Start, Lock, Check, Step, Fail
<1> QED
  BY <1>1, <1>2, <1>3 DEF Next, Work

\* The structure of a finished run is that of its history.
LEMMA DoneTells ==
    ASSUME IInv, NEW me \in Run, Doing(me), me.left = 0
    PROVE  /\ me.work \in Database /\ me.work.tracked
           /\ me.work.schema = Structure(me.work.history)
           /\ me.operation \in {"apply", "adopt"} => me.work.history = me.image
<1>1. /\ me.work \in Database /\ me.image \in Images /\ me.operation \in Operations
      /\ me.work.history \in Seq(Migrations) /\ me.image \in Seq(Migrations)
      /\ Prefix(me.work.history, me.image) /\ me.work.tracked
  BY RunFields, DatabaseFields, ImageFacts DEF Doing
<1>2. CASE me.operation \in {"apply", "adopt"}
  <2>1. Len(me.work.history) = Len(me.image)
    <3>1. Len(me.work.history) + 0 = Len(me.image)
      BY <1>2 DEF Doing
    <3> QED
      BY <1>1, <3>1
  <2>2. me.work.history = me.image
    BY <1>1, <2>1, WholePrefix
  <2> QED
    BY <1>1, <1>2, <2>2 DEF Doing
<1>3. CASE me.operation = "rollback"
  BY <1>1, <1>3 DEF Doing
<1> QED
  BY <1>1, <1>2, <1>3 DEF Operations

LEMMA TypeNext == IInv /\ [Next]_vars => TypeOK'
<1> SUFFICES ASSUME IInv, [Next]_vars PROVE TypeOK'
  OBVIOUS
<1> USE DEF IInv, TypeOK
<1>1. db' \in Database
  BY StepKinds, RunFields
<1>2. CASE UNCHANGED vars
  BY <1>1, <1>2 DEF vars
<1>3. ASSUME NEW r \in Runners, Start(r) PROVE TypeOK'
  <2>1. PICK image \in Images, operation \in Operations, count \in 0..MaxRollback :
          run' = [run EXCEPT ![r] = [stage |-> "waiting", operation |-> operation,
                                     image |-> image, count |-> count, left |-> 0, work |-> Empty]]
    BY <1>3 DEF Start
  <2>2. [stage |-> "waiting", operation |-> operation, image |-> image, count |-> count,
         left |-> 0, work |-> Empty] \in Run
    BY DEF Run, Open, Empty, Database
  <2> QED
    BY <1>1, <1>3, <2>1, <2>2 DEF Start
<1>4. ASSUME NEW r \in Runners, End(r) PROVE TypeOK'
  BY <1>1, <1>4, IdleIsRun DEF End
<1>5. ASSUME NEW r \in Runners, Lock(r) PROVE TypeOK'
  <2>1. [run[r] EXCEPT !.stage = "checking"] \in Run
    BY DEF Run, Open
  <2> QED
    BY <1>1, <1>5, <2>1 DEF Lock
<1>6. ASSUME NEW r \in Runners, Check(r), Permitted(run[r], db) PROVE TypeOK'
  <2> DEFINE new == [run[r] EXCEPT !.stage = "running", !.left = Due(run[r], db),
                                   !.work = [db EXCEPT !.tracked = TRUE]]
  <2>1. Due(run[r], db) \in Nat
    <3>1. run[r].image \in Images /\ run[r].count \in Nat
      BY RunFields, DeploymentAssumption DEF DeploymentAssumption
    <3>2. Len(run[r].image) \in Nat /\ Len(db.history) \in Nat
      BY <3>1, ImageFacts, DatabaseFields
    <3>3. Len(db.history) <= Len(run[r].image)
      BY <1>6 DEF Permitted, Prefix
    <3> QED
      BY <3>1, <3>2, <3>3 DEF Due
  <2>2. [db EXCEPT !.tracked = TRUE] \in Database
    BY DEF Database
  <2>3. new \in Run
    BY <2>1, <2>2 DEF Run, Open
  <2>4. run' = [run EXCEPT ![r] = new]
    BY <1>6 DEF Check
  <2> HIDE DEF new
  <2> QED
    BY <1>1, <1>6, <2>3, <2>4 DEF Check
<1>7. ASSUME NEW r \in Runners, Step(r) PROVE TypeOK'
  <2>1. Stepped(run[r]) \in Database /\ run[r].left - 1 \in Nat
    BY <1>7, StepOfWork, RunFields DEF Step, RunsOK
  <2> DEFINE new == [run[r] EXCEPT !.left = run[r].left - 1, !.work = Stepped(run[r])]
  <2>2. new \in Run
    BY <2>1 DEF Run
  <2>3. run' = [run EXCEPT ![r] = new]
    BY <1>7 DEF Step
  <2> HIDE DEF new
  <2> QED
    BY <1>1, <1>7, <2>2, <2>3 DEF Step
<1>8. ASSUME NEW r \in Runners, Start(r) \/ Lock(r) \/ Work(r) \/ Fail(r) PROVE TypeOK'
  <2>1. CASE Check(r)
    BY <1>4, <1>6, <2>1 DEF Check
  <2> QED
    BY <1>3, <1>4, <1>5, <1>7, <1>8, <2>1 DEF Work, Commit, Fail
<1> QED
  BY <1>2, <1>8 DEF Next

LEMMA HistoryNext == IInv /\ [Next]_vars => HistoryTells' /\ Untracked'
<1> SUFFICES ASSUME IInv, [Next]_vars PROVE HistoryTells' /\ Untracked'
  OBVIOUS
<1>1. CASE db' = db
  BY <1>1 DEF IInv, HistoryTells, Untracked
<1>2. ASSUME NEW me \in Run, Doing(me), me.left = 0, db' = me.work
      PROVE  HistoryTells' /\ Untracked'
  <2>1. me.work.tracked /\ me.work.schema = Structure(me.work.history)
    BY <1>2, DoneTells
  <2> QED
    BY <1>2, <2>1 DEF HistoryTells, Untracked, Structure
<1> QED
  BY <1>1, <1>2, StepKinds

\* One run at a time is past the lock, and what it sees stays what is there.
LEMMA RunsNext == IInv /\ [Next]_vars => RunsOK'
<1> SUFFICES ASSUME IInv, [Next]_vars, NEW q \in Runners
             PROVE  /\ run'[q].stage \in {"checking", "running"} => holder' = q
                    /\ run'[q].stage = "running" => Doing(run[q])'
  BY DEF RunsOK
<1> USE DEF IInv, TypeOK
<1>1. /\ run[q].stage \in {"checking", "running"} => holder = q
      /\ run[q].stage = "running" => Doing(run[q])
  BY DEF RunsOK
<1>2. ASSUME run'[q] = run[q], db' = db, holder' = holder \/ (holder = None /\ holder' # q)
      PROVE  /\ run'[q].stage \in {"checking", "running"} => holder' = q
             /\ run'[q].stage = "running" => Doing(run[q])'
  BY <1>1, <1>2, DeploymentAssumption DEF Doing, Prefix, Structure, DeploymentAssumption
<1>3. CASE UNCHANGED vars
  BY <1>2, <1>3 DEF vars
<1>4. ASSUME NEW r \in Runners, Start(r) \/ Lock(r) \/ Work(r) \/ Fail(r), q # r
      PROVE  /\ run'[q].stage \in {"checking", "running"} => holder' = q
             /\ run'[q].stage = "running" => Doing(run[q])'
  <2>1. run'[q] = run[q]
    BY <1>4 DEF Start, Lock, Work, Check, Step, Commit, Fail, End
  <2>2. CASE Start(r) \/ Lock(r) \/ Check(r) \/ Step(r)
    <3>1. db' = db
      BY <2>2 DEF Start, Lock, Check, Step
    <3>2. CASE holder' = holder
      BY <1>2, <2>1, <3>1, <3>2
    <3>3. CASE holder' # holder
      <4>1. (holder = None /\ holder' = r) \/ (holder = r /\ holder' = None)
        BY <2>2, <3>3 DEF Start, Lock, Check, Step, End
      <4>2. holder # q
        BY <1>4, <4>1, DeploymentAssumption DEF DeploymentAssumption
      <4> QED
        BY <1>1, <2>1, <4>2
    <3> QED
      BY <3>2, <3>3
  <2>3. CASE Fail(r)
    <3>1. db' = db /\ (holder' = holder \/ holder = r)
      BY <2>3 DEF Fail, End
    <3> QED
      BY <1>1, <1>2, <1>4, <2>1, <3>1
  <2>4. CASE Commit(r)
    <3>1. holder = r
      BY <2>4 DEF Commit, RunsOK
    <3> QED
      BY <1>1, <1>4, <2>1, <3>1
  <2> QED
    BY <1>4, <2>2, <2>3, <2>4 DEF Work
<1>5. ASSUME Start(q) \/ Lock(q) \/ Work(q) \/ Fail(q)
      PROVE  /\ run'[q].stage \in {"checking", "running"} => holder' = q
             /\ run'[q].stage = "running" => Doing(run[q])'
  <2>0. run[q] \in Run /\ run'[q] \in Run
    BY TypeNext
  <2>1. ASSUME End(q) PROVE run'[q].stage = "idle"
    BY <2>1 DEF End, Idle
  <2>2. CASE Start(q)
    <3>1. run'[q].stage = "waiting"
      BY <2>2 DEF Start
    <3> QED
      BY <3>1
  <2>3. CASE Lock(q)
    <3>1. run'[q] = [run[q] EXCEPT !.stage = "checking"] /\ holder' = q
      BY <2>3 DEF Lock
    <3>2. run'[q].stage = "checking"
      BY <2>0, <3>1 DEF Run
    <3> QED
      BY <3>1, <3>2
  <2>4. CASE Check(q) /\ Permitted(run[q], db)
    <3>1. /\ run'[q] = [run[q] EXCEPT !.stage = "running", !.left = Due(run[q], db),
                                      !.work = [db EXCEPT !.tracked = TRUE]]
          /\ holder' = holder /\ db' = db /\ run[q].stage = "checking"
      BY <2>4 DEF Check
    <3>2. /\ run'[q].operation = run[q].operation /\ run'[q].image = run[q].image
          /\ run'[q].left = Due(run[q], db) /\ run'[q].work = [db EXCEPT !.tracked = TRUE]
      BY <2>0, <3>1 DEF Run
    <3>3. PICK new \in Run : new = run'[q]
      BY <2>0
    <3>4. Doing(new)
      BY <2>0, <2>4, <3>2, <3>3, CheckedIsDoing
    <3>5. Doing(new)'
      BY <3>1, <3>4 DEF Doing, Prefix, Structure
    <3>6. Doing(run[q])'
      BY <3>3, <3>5 DEF Doing
    <3>7. holder' = q
      BY <1>1, <3>1
    <3> QED
      BY <3>6, <3>7, Zenon
  <2>5. CASE Step(q)
    <3>1. /\ run[q].stage = "running" /\ run[q].left > 0 /\ holder' = holder /\ db' = db
          /\ run'[q] = [run[q] EXCEPT !.left = run[q].left - 1, !.work = Stepped(run[q])]
      BY <2>5 DEF Step
    <3>2. PICK me \in Run : me = run[q]
      BY <2>0
    <3>3. PICK new \in Run : new = run'[q]
      BY <2>0
    <3>4. /\ new.operation = me.operation /\ new.image = me.image
          /\ new.left = me.left - 1 /\ new.work = Stepped(me)
      BY <3>1, <3>2, <3>3 DEF Run
    <3>5. Doing(me) /\ me.left \in Nat /\ me.left > 0
      BY <1>1, <3>1, <3>2, RunFields
    <3>6. Doing(new)
      BY <3>4, <3>5, StepKept
    <3>7. Doing(new)'
      BY <3>1, <3>6 DEF Doing, Prefix, Structure
    <3>8. Doing(run[q])'
      BY <3>3, <3>7 DEF Doing
    <3>9. holder' = q
      BY <1>1, <3>1
    <3> QED
      BY <3>8, <3>9, Zenon
  <2> QED
    BY <1>5, <2>1, <2>2, <2>3, <2>4, <2>5 DEF Work, Check, Commit, Fail
<1> QED
  BY <1>3, <1>4, <1>5 DEF Next

\* The inductive invariant: the history tells the structure, and the one run
\* past the lock works on what is there.
THEOREM Invariant == Spec => []IInv
<1>1. IInv /\ [Next]_vars => IInv'
  BY TypeNext, HistoryNext, RunsNext DEF IInv
<1> QED
  BY <1>1, InitIInv, PTL DEF Spec

-----------------------------------------------------------------------------
(* The theorems.                                                           *)

\* The database, the lock and the runs keep their types, whatever the images.
THEOREM TypeCorrect == Spec => []TypeOK
BY Invariant, PTL DEF IInv

\* Between transactions, a history tells the structure of its database.
THEOREM StructureIsTold == Spec => []HistoryTells
BY Invariant, PTL DEF IInv

LEMMA ReleaseInit == Init => Release!Init
<1> SUFFICES ASSUME Init PROVE Release!Init
  OBVIOUS
<1>1. PICK legacy \in Legacies \cup {{}} : db = [Empty EXCEPT !.schema = legacy]
  BY DEF Init
<1>2. db = [history |-> <<>>, tracked |-> FALSE, schema |-> legacy, events |-> <<>>]
  BY <1>1 DEF Empty
<1> QED
  BY <1>2 DEF Release!Init

\* What a run commits is a deployment, a rollback or an adoption of its image.
LEMMA CommitIsWhole ==
    ASSUME IInv, NEW me \in Run, Doing(me), me.left = 0, db' = me.work
    PROVE  Release!Next
<1> DEFINE t == me.image
           h == me.work.history
<1>1. /\ t \in Images /\ me.operation \in Operations
      /\ me.work.schema = Structure(h)
      /\ me.operation \in {"apply", "adopt"} => h = t
  BY DoneTells, RunFields
<1>2. /\ db.history \in Seq(Migrations) /\ h \in Seq(Migrations) /\ t \in Seq(Migrations)
      /\ Prefix(db.history, t) /\ Prefix(h, t)
  BY RunFields, DatabaseFields, ImageFacts DEF Doing, IInv, TypeOK
<1>3. Release!IsPrefix(db.history, t)
  BY <1>2 DEF Prefix, Release!IsPrefix
<1>4. db'.history = h /\ db'.schema = me.work.schema
  OBVIOUS
<1>5. \A s : Release!Structure(s) = Structure(s)
  BY DEF Release!Structure, Structure
<1>6. CASE me.operation = "apply"
  <2>1. /\ db.history = <<>> => db.schema = {}
        /\ db.schema = Structure(db.history)
    BY <1>6 DEF Doing
  <2>2. h = t /\ me.work.schema = Structure(t)
    BY <1>1, <1>6
  <2>3. Structure(db.history) \subseteq Structure(t)
    BY <1>2 DEF Structure, Prefix
  <2>4. db'.schema = db.schema \cup Release!Structure(t)
    BY <1>4, <1>5, <2>1, <2>2, <2>3
  <2>5. Release!Deploy(t)
    BY <1>3, <1>4, <2>1, <2>2, <2>4 DEF Release!Deploy
  <2> QED
    BY <1>1, <2>5 DEF Release!Next
<1>7. CASE me.operation = "rollback"
  <2>1. Len(h) <= Len(db.history)
    BY <1>7 DEF Doing
  <2>2. h = SubSeq(db.history, 1, Len(h)) /\ Len(h) \in 0..Len(db.history)
    BY <1>2, <2>1, PrefixesNest
  <2>3. \E n \in 0..Len(db.history) : db'.history = SubSeq(db.history, 1, n)
    BY <1>4, <2>2
  <2>4. db'.schema = Release!Structure(db'.history)
    BY <1>1, <1>4, <1>5
  <2>5. Release!Withdraw(t)
    BY <1>3, <2>3, <2>4 DEF Release!Withdraw
  <2> QED
    BY <1>1, <2>5 DEF Release!Next
<1>8. CASE me.operation = "adopt"
  <2>1. /\ db.history = <<>> /\ db.schema # {} /\ db.schema = Structure(t)
        /\ me.work.schema = db.schema
    BY <1>8 DEF Doing
  <2>2. h = t
    BY <1>1, <1>8
  <2>3. Release!Adopt(t)
    BY <1>4, <1>5, <2>1, <2>2 DEF Release!Adopt
  <2> QED
    BY <1>1, <2>3 DEF Release!Next
<1> QED
  BY <1>1, <1>6, <1>7, <1>8 DEF Operations

\* Runs that overlap, fail or die: the database sees whole deployments,
\* rollbacks and adoptions alone, each from a prefix of the image that runs.
THEOREM ReleaseImplemented == Spec => ImplementsRelease
<1>1. IInv /\ [Next]_vars => [Release!Next]_(Release!vars)
  <2> SUFFICES ASSUME IInv, [Next]_vars
               PROVE  Release!Next \/ UNCHANGED Release!vars
    OBVIOUS
  <2>1. CASE db' = db
    BY <2>1 DEF Release!vars
  <2>2. ASSUME NEW r \in Runners, db' = run[r].work, run[r] \in Run, Doing(run[r]),
               run[r].left = 0
        PROVE  Release!Next
    <3>1. PICK me \in Run : me = run[r]
      BY <2>2
    <3> QED
      BY <2>2, <3>1, CommitIsWhole
  <2> QED
    BY <2>1, <2>2, StepKinds
<1> QED
  BY <1>1, ReleaseInit, Invariant, PTL DEF Spec, ImplementsRelease, Release!Spec

-----------------------------------------------------------------------------
(* The audit record.  What a replay computes is not known to the prover    *)
(* unless the function it is defined by exists and is the only one; both   *)
(* are kept by every event that is added.                                  *)

Replays(told, events) ==
    told = [n \in 0..Len(events) |->
              IF n = 0 THEN <<>> ELSE Replay(told[n - 1], events[n])]

Told(events, history) ==
    \E told : /\ Replays(told, events) /\ told[Len(events)] = history
              /\ \A other : Replays(other, events) => other = told

LEMMA ReplayIsTold ==
    ASSUME NEW events, NEW history, Told(events, history)
    PROVE  Replayed(events) = history
<1>1. PICK told : /\ Replays(told, events) /\ told[Len(events)] = history
                  /\ \A other : Replays(other, events) => other = told
  BY DEF Told
<1>2. (CHOOSE f : Replays(f, events)) = told
  BY <1>1
<1> QED
  BY <1>1, <1>2 DEF Replayed, Replays

LEMMA NothingTold == Told(<<>>, <<>>)
<1>1. Len(<<>>) = 0 /\ 0..0 = {0}
  OBVIOUS
<1> DEFINE told == [n \in {0} |-> <<>>]
<1>2. ASSUME NEW other
      PROVE  Replays(other, <<>>) <=> other = told
  <2>1. Replays(other, <<>>) <=>
          other = [n \in {0} |-> IF n = 0 THEN <<>> ELSE Replay(other[n - 1], <<>>[n])]
    BY <1>1, Zenon DEF Replays
  <2>2. [n \in {0} |-> IF n = 0 THEN <<>> ELSE Replay(other[n - 1], <<>>[n])] = told
    OBVIOUS
  <2> QED
    BY <2>1, <2>2, Zenon
<1>3. told[Len(<<>>)] = <<>>
  BY <1>1
<1> HIDE DEF told
<1>4. Replays(told, <<>>) /\ \A other : Replays(other, <<>>) => other = told
  BY <1>2
<1> QED
  BY <1>3, <1>4 DEF Told

\* One event more, and it is replayed onto what was told before.
LEMMA OneMoreTold ==
    ASSUME NEW events \in Seq(Event), NEW history, Told(events, history), NEW event \in Event
    PROVE  Told(Append(events, event), Replay(history, event))
<1> DEFINE longer == Append(events, event)
           l == Len(events)
<1>1. l \in Nat /\ Len(longer) = l + 1 /\ longer[l + 1] = event
      /\ \A n \in 1..l : longer[n] = events[n]
  OBVIOUS
<1>2. PICK told : /\ Replays(told, events) /\ told[l] = history
                  /\ \A other : Replays(other, events) => other = told
  BY DEF Told
<1> DEFINE more == [n \in 0..(l + 1) |-> IF n <= l THEN told[n] ELSE Replay(history, event)]
<1> HIDE DEF longer, l
<1>3. told = [n \in 0..l |-> IF n = 0 THEN <<>> ELSE Replay(told[n - 1], events[n])]
  BY <1>2 DEF Replays, l
<1>4. Replays(more, longer)
  <2>1. \A n \in 0..(l + 1) :
          more[n] = IF n = 0 THEN <<>> ELSE Replay(more[n - 1], longer[n])
    <3> SUFFICES ASSUME NEW n \in 0..(l + 1)
                 PROVE  more[n] = IF n = 0 THEN <<>> ELSE Replay(more[n - 1], longer[n])
      OBVIOUS
    <3>1. CASE n = 0
      BY <1>1, <1>3, <3>1
    <3>2. CASE n \in 1..l
      <4>1. more[n] = told[n] /\ more[n - 1] = told[n - 1] /\ n \in 0..l /\ n # 0
        BY <1>1, <3>2
      <4>2. told[n] = Replay(told[n - 1], events[n])
        BY <1>3, <4>1
      <4> QED
        BY <1>1, <3>2, <4>1, <4>2
    <3>3. CASE n = l + 1
      <4>1. more[n] = Replay(history, event) /\ more[n - 1] = told[l] /\ n # 0
        BY <1>1, <3>3
      <4> QED
        BY <1>1, <1>2, <3>3, <4>1
    <3> QED
      BY <1>1, <3>1, <3>2, <3>3
  <2> QED
    BY <1>1, <2>1 DEF Replays
<1>5. ASSUME NEW other, Replays(other, longer)
      PROVE  other = more
  <2> DEFINE first == [n \in 0..l |-> other[n]]
  <2>1. other = [n \in 0..(l + 1) |-> IF n = 0 THEN <<>> ELSE Replay(other[n - 1], longer[n])]
    BY <1>1, <1>5 DEF Replays
  <2>2. \A n \in 0..l : first[n] = IF n = 0 THEN <<>> ELSE Replay(first[n - 1], events[n])
    <3> SUFFICES ASSUME NEW n \in 0..l
                 PROVE  first[n] = IF n = 0 THEN <<>> ELSE Replay(first[n - 1], events[n])
      OBVIOUS
    <3>1. other[n] = IF n = 0 THEN <<>> ELSE Replay(other[n - 1], longer[n])
      BY <1>1, <2>1
    <3> QED
      BY <1>1, <3>1
  <2>3. Replays(first, events)
    BY <2>2 DEF Replays, l
  <2>4. first = told
    BY <1>2, <2>3
  <2>5. \A n \in 0..l : other[n] = told[n]
    BY <2>4
  <2>6. other[l + 1] = Replay(other[l], event)
    BY <1>1, <2>1
  <2>7. other[l + 1] = Replay(history, event)
    BY <1>1, <1>2, <2>5, <2>6
  <2>8. \A n \in 0..(l + 1) : other[n] = more[n]
    BY <1>1, <2>5, <2>7
  <2> QED
    BY <2>1, <2>8
<1>6. more[l + 1] = Replay(history, event)
  BY <1>1
<1> HIDE DEF more
<1>7. Told(longer, Replay(history, event))
  BY <1>1, <1>4, <1>5, <1>6 DEF Told
<1> QED
  BY <1>7 DEF longer

\* The event of a migration says what became of the history.
LEMMA StepTold ==
    ASSUME NEW me \in Run, Doing(me), me.left > 0, Told(me.work.events, me.work.history)
    PROVE  Told(Stepped(me).events, Stepped(me).history)
<1> DEFINE w == me.work
           t == me.image
<1>1. /\ w \in Database /\ t \in Images /\ me.left \in Nat /\ me.operation \in Operations
  BY RunFields
<1>2. /\ w.history \in Seq(Migrations) /\ w.events \in Seq(Event) /\ Prefix(w.history, t)
      /\ t \in Seq(Migrations)
  BY <1>1, DatabaseFields, ImageFacts DEF Doing
<1> HIDE DEF w, t
<1>3. CASE me.operation = "rollback"
  <2>1. Len(w.history) > 0
    BY <1>1, <1>2, <1>3 DEF Doing, w
  <2> DEFINE m == w.history[Len(w.history)]
             e == [operation |-> "rollback", migration |-> m]
  <2>2. m \in Migrations /\ w.history # <<>>
    BY <1>2, <2>1
  <2>3. e \in Event /\ e.operation = "rollback" /\ e.migration = m
    BY <2>2 DEF Event, Operations
  <2>4. Stepped(me).events = Append(w.events, e)
        /\ Stepped(me).history = SubSeq(w.history, 1, Len(w.history) - 1)
    BY <1>3 DEF Stepped, RollbackNext, w
  <2> HIDE DEF e
  <2>5. Replay(w.history, e) = Stepped(me).history
    BY <2>2, <2>3, <2>4 DEF Replay, Last, Front
  <2> QED
    BY <1>2, <2>3, <2>4, <2>5, OneMoreTold DEF w
<1>4. CASE me.operation # "rollback"
  <2>1. Len(w.history) < Len(t)
    BY <1>1, <1>2, <1>4 DEF Doing, w, t, Operations
  <2> DEFINE m == t[Len(w.history) + 1]
             e == [operation |-> me.operation, migration |-> m]
  <2>2. m \in Migrations
    BY <1>2, <2>1
  <2>3. e \in Event /\ e.operation # "rollback" /\ e.migration = m
    BY <1>1, <1>4, <2>2 DEF Event
  <2>4. Stepped(me).events = Append(w.events, e)
        /\ Stepped(me).history = Append(w.history, m)
    BY <1>1, <1>4 DEF Operations, Stepped, ApplyNext, AdoptNext, w, t
  <2> HIDE DEF e
  <2>5. Replay(w.history, e) = Stepped(me).history
    BY <2>3, <2>4 DEF Replay
  <2> QED
    BY <1>2, <2>3, <2>4, <2>5, OneMoreTold DEF w
<1> QED
  BY <1>3, <1>4

\* What is committed, and what a run works on, tells its history.
AuditTold ==
    /\ Told(db.events, db.history)
    /\ \A r \in Runners : run[r].stage = "running" =>
         Told(run[r].work.events, run[r].work.history)

LEMMA AuditNext == IInv /\ AuditTold /\ [Next]_vars => AuditTold'
<1> SUFFICES ASSUME IInv, AuditTold, [Next]_vars PROVE AuditTold'
  OBVIOUS
<1>1. Told(db'.events, db'.history)
  BY StepKinds DEF AuditTold, Commit
<1>2. ASSUME NEW q \in Runners, run'[q].stage = "running"
      PROVE  Told(run'[q].work.events, run'[q].work.history)
  <2>1. CASE run'[q] = run[q]
    BY <1>2, <2>1 DEF AuditTold
  <2>2. CASE Check(q) /\ Permitted(run[q], db)
    <3> DEFINE new == [run[q] EXCEPT !.stage = "running", !.left = Due(run[q], db),
                                     !.work = [db EXCEPT !.tracked = TRUE]]
    <3>1. run'[q] = new
      BY <2>2 DEF Check, IInv, TypeOK
    <3>2. new.work = [db EXCEPT !.tracked = TRUE]
      BY DEF IInv, TypeOK, Run
    <3>3. new.work.events = db.events /\ new.work.history = db.history
      BY <3>2 DEF IInv, TypeOK, Database
    <3> QED
      BY <3>1, <3>3 DEF AuditTold
  <2>3. CASE Step(q)
    <3>1. run'[q].work = Stepped(run[q])
      BY <2>3 DEF Step, IInv, TypeOK, Run
    <3>2. run[q] \in Run /\ Doing(run[q]) /\ run[q].left > 0
          /\ Told(run[q].work.events, run[q].work.history)
      BY <2>3 DEF Step, IInv, TypeOK, RunsOK, AuditTold
    <3> QED
      BY <3>1, <3>2, StepTold
  <2>4. CASE run'[q].stage # "running"
    BY <1>2, <2>4
  <2>5. ASSUME NEW r \in Runners, Start(r) \/ Lock(r) \/ Work(r) \/ Fail(r)
        PROVE  \/ run'[q] = run[q]
               \/ run'[q].stage # "running"
               \/ r = q /\ (Step(q) \/ (Check(q) /\ Permitted(run[q], db)))
    <3>1. CASE r # q
      BY <2>5, <3>1 DEF Start, Lock, Work, Check, Step, Commit, Fail, End, IInv, TypeOK
    <3>2. CASE r = q
      <4>1. End(q) => run'[q].stage # "running"
        BY DEF End, Idle, IInv, TypeOK
      <4>2. Start(q) \/ Lock(q) => run'[q].stage # "running"
        BY DEF Start, Lock, IInv, TypeOK, Run
      <4> QED
        BY <2>5, <3>2, <4>1, <4>2 DEF Work, Check, Commit, Fail
    <3> QED
      BY <3>1, <3>2
  <2> QED
    BY <2>1, <2>2, <2>3, <2>4, <2>5 DEF Next, vars
<1> QED
  BY <1>1, <1>2 DEF AuditTold

\* The event table reconstructs the history: after whatever releases applied,
\* rolled back and adopted, and however their runs overlapped, failed or died.
THEOREM EventsReconstruct == Spec => []EventsTellHistory
<1>1. Init => AuditTold
  <2> SUFFICES ASSUME Init PROVE AuditTold
    OBVIOUS
  <2>1. db.events = <<>> /\ db.history = <<>>
    BY DEF Init, Empty
  <2>2. \A r \in Runners : run[r].stage = "idle"
    BY DEF Init, Idle
  <2> QED
    BY <2>1, <2>2, NothingTold DEF AuditTold
<1>2. AuditTold => EventsTellHistory
  BY ReplayIsTold DEF AuditTold, EventsTellHistory
<1> QED
  BY <1>1, <1>2, AuditNext, Invariant, PTL DEF Spec
=============================================================================
