------------------------ MODULE DeploymentMigrations ------------------------
(***************************************************************************)
(* Schema migrations run by the images of different releases.              *)
(*                                                                         *)
(* A run applies what its image has and the database has not, rolls back   *)
(* the latest migrations, or adopts a schema that was made without a       *)
(* history.  It is one transaction under one advisory lock; statements of  *)
(* a migration may fail, and the process may die.  Releases differ: one is *)
(* ahead of another, or has edited a migration another has applied.        *)
(*                                                                         *)
(* A migration stands for its version, name and both of its scripts.  Of a *)
(* schema only its structure is kept, which is what its fingerprint shows: *)
(* the set of the structural migrations in effect.                         *)
(***************************************************************************)
EXTENDS Integers, Sequences, FiniteSets, SequencesExt

CONSTANTS
    Runners,      \* processes that run migrations
    Images,       \* sequences of migrations, one for each image
    Structural,   \* migrations that change the structure of the tables
    Legacies,     \* structures a database may have before its first deployment
    MaxRollback,  \* largest rollback_count (15)
    MaxEvents,    \* bound on the migration events, for TLC
    None          \* an absent value

Migrations == UNION {{image[n] : n \in DOMAIN image} : image \in Images}

ASSUME DeploymentAssumption ==
    /\ Images # {}
    /\ None \notin Runners
    /\ Legacies \subseteq (SUBSET Structural) \ {{}}
    /\ MaxRollback \in Nat \ {0} /\ MaxEvents \in Nat
    /\ \A image \in Images :
         /\ image \in Seq(Migrations)
         /\ Len(image) > 0 /\ image[1] \in Structural
         /\ \A m \in 1..Len(image), n \in 1..Len(image) : image[m] = image[n] => m = n

VARIABLES
    db,      \* what is committed
    holder,  \* runner that holds the advisory lock, or None
    run      \* runner -> its run

vars == <<db, holder, run>>

Operations == {"apply", "rollback", "adopt"}
Event == [operation : Operations, migration : Migrations]

\* history: rows of lotus_idea_schema_migration; tracked: whether that table
\* exists; schema: the structure of the Idea tables; events: the event table.
Database == [history : Seq(Migrations), tracked : BOOLEAN,
             schema : SUBSET Structural, events : Seq(Event)]

Open == {"waiting", "checking", "running"}

\* left: migrations still to go; work: what the transaction sees.
Run == [stage : Open \cup {"idle"}, operation : Operations, image : Images,
        count : 0..MaxRollback, left : Nat, work : Database]

Structure(s) == {s[n] : n \in DOMAIN s} \cap Structural

Prefix(s, t) == Len(s) <= Len(t) /\ \A n \in 1..Len(s) : s[n] = t[n]

Empty == [history |-> <<>>, tracked |-> FALSE, schema |-> {}, events |-> <<>>]

Idle == [stage |-> "idle", operation |-> "apply", image |-> CHOOSE i \in Images : TRUE,
         count |-> 0, left |-> 0, work |-> Empty]

-----------------------------------------------------------------------------

Init ==
    /\ db \in {[Empty EXCEPT !.schema = legacy] : legacy \in Legacies \cup {{}}}
    /\ holder = None
    /\ run = [r \in Runners |-> Idle]

\* A command for an image; rollback_count belongs to rollbacks alone.  An
\* image that is not the one of the contract is refused here.
Start(r) ==
    /\ run[r].stage = "idle"
    /\ Len(db.events) < MaxEvents
    /\ \E image \in Images, operation \in Operations, count \in 0..MaxRollback :
         /\ (operation = "rollback") = (count > 0)
         /\ run' = [run EXCEPT ![r] = [stage |-> "waiting", operation |-> operation,
                                       image |-> image, count |-> count, left |-> 0, work |-> Empty]]
    /\ UNCHANGED <<db, holder>>

Lock_NotExclusive(r) ==
    /\ run[r].stage = "waiting"
    /\ holder' = r
    /\ run' = [run EXCEPT ![r].stage = "checking"]
    /\ UNCHANGED db

\* pg_advisory_xact_lock
Lock(r) ==
    /\ run[r].stage = "waiting"
    /\ holder = None
    /\ holder' = r
    /\ run' = [run EXCEPT ![r].stage = "checking"]
    /\ UNCHANGED db

End(r) ==
    /\ run' = [run EXCEPT ![r] = Idle]
    /\ holder' = IF holder = r THEN None ELSE holder

\* How many migrations the command concerns.
Due(me, d) ==
    CASE me.operation = "apply" -> Len(me.image) - Len(d.history)
      [] me.operation = "rollback" -> me.count
      [] OTHER -> Len(me.image)

\* The history is a prefix of the image; a schema without history is adopted,
\* and nothing else is; no more is rolled back than there is.
Permitted(me, d) ==
    /\ Prefix(d.history, me.image)
    /\ (d.history = <<>> /\ d.schema # {}) = (me.operation = "adopt")
    /\ me.operation = "rollback" => me.count <= Len(d.history)
    /\ me.operation = "adopt" => ~d.tracked /\ d.schema = Structure(me.image)

\* Under the lock: read what is there, create the history where it is missing.
Check(r) ==
    /\ run[r].stage = "checking"
    /\ IF Permitted(run[r], db)
         THEN /\ run' = [run EXCEPT ![r].stage = "running", ![r].left = Due(run[r], db),
                                    ![r].work = [db EXCEPT !.tracked = TRUE]]
              /\ UNCHANGED holder
         ELSE End(r)
    /\ UNCHANGED db

ApplyNext(w, image) ==
    LET m == image[Len(w.history) + 1] IN
    [history |-> Append(w.history, m), tracked |-> w.tracked,
     schema |-> w.schema \cup ({m} \cap Structural),
     events |-> Append(w.events, [operation |-> "apply", migration |-> m])]

RollbackNext_OldestEvent(w) ==
    LET m == w.history[Len(w.history)] IN
    [history |-> SubSeq(w.history, 1, Len(w.history) - 1), tracked |-> w.tracked,
     schema |-> w.schema \ {m},
     events |-> Append(w.events, [operation |-> "rollback", migration |-> w.history[1]])]

RollbackNext(w) ==
    LET m == w.history[Len(w.history)] IN
    [history |-> SubSeq(w.history, 1, Len(w.history) - 1), tracked |-> w.tracked,
     schema |-> w.schema \ {m},
     events |-> Append(w.events, [operation |-> "rollback", migration |-> m])]

AdoptNext(w, image) ==
    LET m == image[Len(w.history) + 1] IN
    [history |-> Append(w.history, m), tracked |-> w.tracked, schema |-> w.schema,
     events |-> Append(w.events, [operation |-> "adopt", migration |-> m])]

Stepped(me) ==
    CASE me.operation = "apply" -> ApplyNext(me.work, me.image)
      [] me.operation = "rollback" -> RollbackNext(me.work)
      [] OTHER -> AdoptNext(me.work, me.image)

\* One migration: its statements, its row and its event.
Step(r) ==
    /\ run[r].stage = "running" /\ run[r].left > 0
    /\ run' = [run EXCEPT ![r].left = run[r].left - 1, ![r].work = Stepped(run[r])]
    /\ UNCHANGED <<db, holder>>

Commit(r) ==
    /\ run[r].stage = "running" /\ run[r].left = 0
    /\ db' = run[r].work
    /\ End(r)

\* A statement fails, or the process dies: rolled back, the lock released.
Fail(r) ==
    /\ run[r].stage \in Open
    /\ End(r)
    /\ UNCHANGED db

Work(r) == Check(r) \/ Step(r) \/ Commit(r)

Next == \E r \in Runners : Start(r) \/ Lock(r) \/ Work(r) \/ Fail(r)

Spec == Init /\ [][Next]_vars

-----------------------------------------------------------------------------
(* Properties.                                                             *)

\* The database, the lock and the runs are of their types.
TypeOK ==
    /\ db \in Database
    /\ holder \in Runners \cup {None}
    /\ run \in [Runners -> Run]

\* A database with a history has the structure its history tells; so it is
\* never left with tables, an empty history, and no operation that may be run.
HistoryTells == db.tracked => db.schema = Structure(db.history)

Replay(history, event) ==
    IF event.operation = "rollback"
      THEN IF history # <<>> /\ Last(history) = event.migration
             THEN Front(history) ELSE Append(history, "torn")
      ELSE Append(history, event.migration)

\* What the events say the history is, replayed from the first.
Replayed(events) ==
    LET told[n \in 0..Len(events)] ==
          IF n = 0 THEN <<>> ELSE Replay(told[n - 1], events[n])
    IN  told[Len(events)]

\* The audit record suffices to reconstruct the history.
EventsTellHistory == Replayed(db.events) = db.history

-----------------------------------------------------------------------------
(* The inductive invariant behind them.                                    *)

Distinct(s) == \A m \in 1..Len(s), n \in 1..Len(s) : s[m] = s[n] => m = n

Untracked == ~db.tracked => db.history = <<>>

\* What a run under way has done so far, of what it will commit.
Doing(me) ==
    /\ me.work.tracked
    /\ Prefix(db.history, me.image)
    /\ Prefix(me.work.history, me.image)
    /\ me.work.schema \subseteq Structural
    /\ me.operation = "apply" =>
         /\ db.history = <<>> => db.schema = {}
         /\ db.schema = Structure(db.history)
         /\ me.work.schema = Structure(me.work.history)
         /\ Len(me.work.history) + me.left = Len(me.image)
    /\ me.operation = "rollback" =>
         /\ me.work.schema = Structure(me.work.history)
         /\ me.left <= Len(me.work.history)
         /\ Len(me.work.history) <= Len(db.history)
    /\ me.operation = "adopt" =>
         /\ db.history = <<>> /\ db.schema # {}
         /\ db.schema = Structure(me.image) /\ me.work.schema = db.schema
         /\ Len(me.work.history) + me.left = Len(me.image)

RunsOK ==
    \A r \in Runners :
        /\ run[r].stage \in {"checking", "running"} => holder = r
        /\ run[r].stage = "running" => Doing(run[r])

IInv == TypeOK /\ HistoryTells /\ Untracked /\ RunsOK

-----------------------------------------------------------------------------
Release == INSTANCE SchemaRelease WITH history <- db.history, schema <- db.schema

\* Runs overlap, fail and die in between; the database sees whole deployments,
\* rollbacks and adoptions alone.
ImplementsRelease == Release!Spec
=============================================================================
