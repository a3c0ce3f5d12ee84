------------------------- MODULE ConversionOutcomes -------------------------
(***************************************************************************)
(* Recording what owners report of the conversions they were given.        *)
(*                                                                         *)
(* A report arrives late, twice, or out of its order; two of them may      *)
(* arrive at once, under one Idempotency-Key or under several.  A call     *)
(* asks for its key and for its outcome id, validates the report against   *)
(* the history it loads, takes the locks of the intent, of the outcome id, *)
(* of the candidates either concerns and of its key, loads again,          *)
(* validates again and writes.                                             *)
(*                                                                         *)
(* One tenant.  Target and source of an outcome follow from its intent.    *)
(***************************************************************************)
EXTENDS Integers, FiniteSets

CONSTANTS
    Callers,      \* calls under way at one time
    Keys,         \* Idempotency-Key values
    Ids,          \* conversion outcome ids
    Intents,      \* conversion intent ids
    CandidateOf,  \* intent -> number of the candidate it converts
    Reports,      \* outcomes the owners report
    Legacies,     \* streams that migration 006 may have left behind
    None          \* an absent value

Opening == {"requested", "accepted", "rejected", "failed"}  \* _INITIAL_STATUSES
Statuses == Opening \cup {"completed"}

\* ConversionOutcomeIdentity; corrects is the outcome it supersedes, reason
\* whether a correction reason is given.
Outcome == [id : Ids, intent : Intents, version : Nat \ {0}, status : Statuses,
            at : Nat, corrects : Ids \cup {None}, reason : BOOLEAN]

Stream(H, i) == {o \in H : o.intent = i}

\* _latest_conversion_outcome_identity: of a history, in a set.
Latest(H) == {o \in H : \A p \in H : p.version <= o.version}

\* A stream that was migrated: numbered by time, without corrections.
Migrated(H) ==
    /\ H # {} => Latest(H) # {}
    /\ \A o \in H : o.corrects = None /\ ~o.reason
    /\ \A o \in H, p \in H : p.version = o.version => p = o
    /\ \A o \in H, p \in H : p.version < o.version => p.at <= o.at
    /\ \A o \in H : \A n \in 1..o.version : \E p \in H : p.version = n

ASSUME OutcomesAssumption ==
    /\ None \notin Callers \cup Ids \cup Reports
    /\ CandidateOf \in [Intents -> Nat]
    /\ Reports \subseteq Outcome
    /\ \A H \in Legacies :
         /\ H \subseteq Outcome
         /\ \A i \in Intents : Migrated(Stream(H, i))
         /\ \A o \in H, p \in H : o.id = p.id => o = p

VARIABLES
    recorded,    \* rows of idea_conversion_outcome
    quarantine,  \* intents whose migrated stream contradicts itself
    keys,        \* key -> outcome it was recorded for
    holder,      \* advisory lock -> the call that holds it
    call         \* caller -> its call

vars == <<recorded, quarantine, keys, holder, call>>

-----------------------------------------------------------------------------
(* The outcome policy.                                                     *)

\* _ALLOWED_NEXT_STATUSES
Onward(status) ==
    CASE status = "requested" -> {"accepted", "rejected", "failed"}
      [] status = "accepted" -> {"completed"}
      [] OTHER -> {}

Opens(o) ==
    /\ o.version = 1
    /\ o.corrects = None /\ ~o.reason
    /\ o.status \in Opening

Follows_Gap(p, o) ==
    /\ o.version > p.version
    /\ o.at > p.at
    /\ IF o.corrects # None
         THEN o.corrects = p.id /\ o.reason /\ o.status # "requested"
         ELSE ~o.reason /\ o.status \in Onward(p.status)

\* One report after another: progression, or a correction of the latest.
Follows(p, o) ==
    /\ o.version = p.version + 1
    /\ o.at > p.at
    /\ IF o.corrects # None
         THEN o.corrects = p.id /\ o.reason /\ o.status # "requested"
         ELSE ~o.reason /\ o.status \in Onward(p.status)

\* _validate_next_conversion_outcome, of a stream without the id of o.
FitsAfter(H, o) ==
    IF H = {} THEN Opens(o) ELSE \E p \in Latest(H) : Follows(p, o)

\* validate_conversion_outcome_history
Valid(H) ==
    \A o \in H : FitsAfter({p \in H : p.version < o.version}, o)

\* validate_conversion_outcome_progression
Fits(H, o) ==
    /\ Valid(H)
    /\ \A p \in H : p.id # o.id
    /\ FitsAfter(H, o)

\* Migration 006: by statuses alone, a stream that is out of order.
Contradictory(H) ==
    \E o \in H :
        IF o.version = 1
          THEN o.status \notin Opening
          ELSE \E p \in H : p.version = o.version - 1 /\ o.status \notin Onward(p.status)

-----------------------------------------------------------------------------
(* Locks and calls.                                                        *)

Locks == ({"intent"} \X Intents) \cup ({"outcome"} \X Ids)
            \cup ({"candidate"} \X {CandidateOf[i] : i \in Intents}) \cup ({"key"} \X Keys)

\* _conversion_outcome_candidate_ids, and the locks of the mutation.
Needed(o, k) ==
    {<<"intent", o.intent>>, <<"outcome", o.id>>, <<"key", k>>,
     <<"candidate", CandidateOf[o.intent]>>}
        \cup {<<"candidate", CandidateOf[p.intent]>> : p \in {q \in recorded : q.id = o.id}}

Rank(lock) ==
    CASE lock[1] = "intent" -> 1
      [] lock[1] = "outcome" -> 2
      [] lock[1] = "candidate" -> 3
      [] OTHER -> 4

Earlier_NoOrder(a, b) == FALSE

\* Identity locks come first, then candidates in order, then the key.
Earlier(a, b) ==
    \/ Rank(a) < Rank(b)
    \/ a[1] = "candidate" /\ b[1] = "candidate" /\ a[2] < b[2]

Busy == {"precheck", "reserve", "judge", "locking", "write_key", "write_outcome"}
Writing == {"write_key", "write_outcome"}
Answers == {"none", "accepted", "replayed", "key_conflict", "conflict", "untimely", "fault"}

Call == [stage : Busy \cup {"idle"}, outcome : Reports \cup {None}, key : Keys \cup {None},
         attempt : {1, 2}, answer : Answers]

Over(answer) ==
    [stage |-> "idle", outcome |-> None, key |-> None, attempt |-> 1, answer |-> answer]

Unlocked(c) == [x \in Locks |-> IF holder[x] = c THEN None ELSE holder[x]]

At(c, stage) == call[c].stage = stage

Go(c, stage) == call' = [call EXCEPT ![c].stage = stage]

Answer(c, answer) == call' = [call EXCEPT ![c] = Over(answer)]

\* evaluate_idempotency, of a key on record
Repeat(c) == IF keys[call[c].key] = call[c].outcome THEN "replayed" ELSE "key_conflict"

SameId(o) == {p \in recorded : p.id = o.id}

Init ==
    /\ recorded \in Legacies \cup {{}}
    /\ quarantine = {i \in Intents : Contradictory(Stream(recorded, i))}
    /\ keys = [k \in Keys |-> None]
    /\ holder = [x \in Locks |-> None]
    /\ call = [c \in Callers |-> Over("none")]

-----------------------------------------------------------------------------
(* One call.                                                               *)

Begin(c) ==
    /\ At(c, "idle")
    /\ \E o \in Reports, k \in Keys :
         call' = [call EXCEPT ![c] = [stage |-> "precheck", outcome |-> o, key |-> k,
                                      attempt |-> 1, answer |-> "none"]]
    /\ UNCHANGED <<recorded, quarantine, keys, holder>>

\* A used key answers the call; so does an outcome id with another content.
Precheck(c) ==
    LET o == call[c].outcome IN
    /\ At(c, "precheck")
    /\ IF keys[call[c].key] # None THEN Answer(c, Repeat(c))
       ELSE IF SameId(o) = {} THEN Go(c, "judge")
       ELSE IF o \in recorded THEN Go(c, "reserve")
       ELSE Answer(c, "conflict")
    /\ UNCHANGED <<recorded, quarantine, keys, holder>>

Reserve_NotCompared(c) ==
    LET k == call[c].key IN
    /\ At(c, "reserve")
    /\ keys' = IF keys[k] = None THEN [keys EXCEPT ![k] = call[c].outcome] ELSE keys
    /\ Answer(c, "replayed")
    /\ UNCHANGED <<recorded, quarantine, holder>>

Reserve_Swapped(c) ==
    LET k == call[c].key IN
    /\ At(c, "reserve")
    /\ keys' = IF keys[k] = None THEN [keys EXCEPT ![k] = k] ELSE keys
    /\ Answer(c, "replayed")
    /\ UNCHANGED <<recorded, quarantine, holder>>

\* reserve_replayed_idempotency: one statement, without a lock.
Reserve(c) ==
    LET k == call[c].key IN
    /\ At(c, "reserve")
    /\ \/ /\ keys[k] = None
          /\ keys' = [keys EXCEPT ![k] = call[c].outcome]
          /\ Answer(c, "replayed")
       \/ /\ keys[k] # None
          /\ Answer(c, Repeat(c))
          /\ UNCHANGED keys
    /\ UNCHANGED <<recorded, quarantine, holder>>

\* The history is loaded without a lock; the report may also be too old.
Judge(c) ==
    LET o == call[c].outcome IN
    /\ At(c, "judge")
    /\ \/ Answer(c, "untimely")
       \/ /\ Fits(Stream(recorded, o.intent), o)
          /\ Go(c, "locking")
       \/ /\ ~Fits(Stream(recorded, o.intent), o)
          /\ Answer(c, "conflict")
    /\ UNCHANGED <<recorded, quarantine, keys, holder>>

\* The locks are taken one by one, in order.
Acquire(c) ==
    LET needed == Needed(call[c].outcome, call[c].key) IN
    /\ At(c, "locking")
    /\ \E x \in needed :
         /\ holder[x] = None
         /\ \A y \in needed : Earlier(y, x) => holder[y] = c
         /\ holder' = [holder EXCEPT ![x] = c]
    /\ UNCHANGED <<recorded, quarantine, keys, call>>

HoldsAll(c) == \A x \in Needed(call[c].outcome, call[c].key) : holder[x] = c

\* record_conversion_outcome on the snapshot loaded under the locks.
Rule(c) ==
    LET o == call[c].outcome
        Refuse(answer) == Answer(c, answer) /\ holder' = Unlocked(c)
        Admit(stage) == Go(c, stage) /\ UNCHANGED holder
    IN
    /\ At(c, "locking")
    /\ HoldsAll(c)
    /\ IF keys[call[c].key] # None THEN Refuse(Repeat(c))
       ELSE IF o \in recorded THEN Admit("write_key")
       ELSE IF SameId(o) = {} /\ Fits(Stream(recorded, o.intent), o) THEN Admit("write_outcome")
       ELSE Refuse("conflict")
    /\ UNCHANGED <<recorded, quarantine, keys>>

\* The key has been reserved since, or the row collides: one retry.
Collides(c) ==
    LET o == call[c].outcome IN
    \/ keys[call[c].key] # None
    \/ /\ At(c, "write_outcome")
       /\ \E p \in recorded : p.id = o.id \/ (p.intent = o.intent /\ p.version = o.version)

Write(c) ==
    /\ call[c].stage \in Writing
    /\ ~Collides(c)
    /\ keys' = [keys EXCEPT ![call[c].key] = call[c].outcome]
    /\ recorded' = IF At(c, "write_key") THEN recorded ELSE recorded \cup {call[c].outcome}
    /\ Answer(c, IF At(c, "write_key") THEN "replayed" ELSE "accepted")
    /\ holder' = Unlocked(c)
    /\ UNCHANGED quarantine

\* execute_postgres_mutation: roll back, and once more from a fresh snapshot.
Retry(c) ==
    /\ call[c].stage \in Writing
    /\ Collides(c)
    /\ IF call[c].attempt = 1
         THEN call' = [call EXCEPT ![c].attempt = 2, ![c].stage = "locking"]
         ELSE Answer(c, "fault")
    /\ holder' = Unlocked(c)
    /\ UNCHANGED <<recorded, quarantine, keys>>

\* The process dies; PostgreSQL rolls back and releases its locks.
Crash(c) ==
    /\ ~At(c, "idle")
    /\ Answer(c, "none")
    /\ holder' = Unlocked(c)
    /\ UNCHANGED <<recorded, quarantine, keys>>

Step(c) == Precheck(c) \/ Reserve(c) \/ Judge(c) \/ Rule(c) \/ Write(c) \/ Retry(c)

Next == \E c \in Callers : Begin(c) \/ Step(c) \/ Acquire(c) \/ Crash(c)

Spec == Init /\ [][Next]_vars

\* A request that lives goes on, and PostgreSQL queues the waiters of a lock.
FairSpec == Spec /\ \A c \in Callers : WF_vars(Step(c)) /\ SF_vars(Acquire(c))

-----------------------------------------------------------------------------
(* Properties.                                                             *)

\* Rows, keys, locks and calls are of their types.
TypeOK ==
    /\ recorded \subseteq Outcome
    /\ quarantine \subseteq Intents
    /\ keys \in [Keys -> Reports \cup {None}]
    /\ holder \in [Locks -> Callers \cup {None}]
    /\ call \in [Callers -> Call]

\* The one retry of a mutation suffices: no call ends in a server error
\* because somebody reserved its key or recorded its outcome.
RetryWins == \A c \in Callers : call[c].answer # "fault"

Answered(c, answers) == ~At(c, "idle") /\ call'[c].answer \in answers

\* A success answers for what is on record: the outcome a call is told was
\* accepted or replayed is a row, and the key of the call names it, also
\* when the key was reserved by another call or the locked write collided.
AnswersStand ==
    [][\A c \in Callers :
          Answered(c, {"accepted", "replayed"}) =>
              /\ call[c].outcome \in recorded'
              /\ keys'[call[c].key] = call[c].outcome]_vars

\* A stream the migration quarantined has no posture and is not continued.
QuarantineIsFrozen ==
    [][\A i \in quarantine :
          /\ ~Valid(Stream(recorded, i))
          /\ Stream(recorded', i) = Stream(recorded, i)]_vars

\* Every call that does not crash ends: locks are taken in one order.
Settles == \A c \in Callers : call[c].stage \in Busy ~> At(c, "idle")

-----------------------------------------------------------------------------
(* The inductive invariant behind them.                                    *)

\* Two rows differ in id, and in version where they are of one intent.
RowsUnique ==
    \A o \in recorded, p \in recorded :
        o.id = p.id \/ (o.intent = p.intent /\ o.version = p.version) => o = p

\* A key on record names a row.
KeysRecorded == \A k \in Keys : keys[k] # None => keys[k] \in recorded

\* What a call knows at each of its stages, the locks it holds included.
CallOK(c) ==
    LET me == call[c] IN
    /\ me.stage \in Busy => me.outcome \in Reports /\ me.key \in Keys /\ me.answer = "none"
    /\ me.stage \in {"reserve", "write_key"} => me.outcome \in recorded
    /\ me.stage \in Writing =>
         /\ holder[<<"intent", me.outcome.intent>>] = c
         /\ holder[<<"outcome", me.outcome.id>>] = c
    /\ me.stage = "write_outcome" =>
         SameId(me.outcome) = {} /\ Fits(Stream(recorded, me.outcome.intent), me.outcome)
    /\ me.attempt = 2 => me.stage = "locking" /\ keys[me.key] # None
    /\ me.answer # "fault"

CallsOK == \A c \in Callers : CallOK(c)

Frozen == \A i \in quarantine : ~Valid(Stream(recorded, i))

IInv == TypeOK /\ RowsUnique /\ KeysRecorded /\ CallsOK /\ Frozen

-----------------------------------------------------------------------------
(* The posture that stands.                                                *)

Unreported == [version |-> 0, status |-> "none", corrected |-> FALSE]

\* current_conversion_outcome_identity; none of a stream that is not valid.
Posture(i) ==
    LET H == Stream(recorded, i) IN
    IF H # {} /\ Valid(H)
      THEN LET o == CHOOSE p \in Latest(H) : TRUE
           IN [version |-> o.version, status |-> o.status, corrected |-> o.corrects # None]
      ELSE Unreported

Ledger == INSTANCE ConversionLedger WITH stand <- [i \in Intents |-> Posture(i)]

\* The posture of an intent moves as promised, whatever arrives and however
\* calls overlap.
ImplementsLedger == Ledger!Spec
=============================================================================
