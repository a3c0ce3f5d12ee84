---------------------------- MODULE DataLifecycle ----------------------------
(***************************************************************************)
(* Hold, release, erasure and purge of the data of one candidate.          *)
(*                                                                         *)
(* A call is one transaction.  It takes the advisory locks of its          *)
(* idempotency key, of the bank's signed decision and of the Archive's     *)
(* signed posture, each followed by a look for an operation on record with *)
(* the same; then the rows of the candidate and of its control.  Under     *)
(* them it counts the deliveries still under way, evaluates the policy,    *)
(* changes the control, redacts or purges, and records the operation.      *)
(* Mutations of the candidate and claims of deliveries, by others, take    *)
(* the same rows and check the control.  A lock has no variable of its     *)
(* own: it is held by those whose stage lies between taking it and the end *)
(* of their transaction.                                                   *)
(***************************************************************************)
EXTENDS Integers

CONSTANTS
    Callers,    \* callers of the lifecycle endpoint, one call at a time each
    Writers,    \* writers of candidates and deliveries
    Keys,       \* idempotency keys
    Decisions,  \* ids of the bank's signed decisions
    Nonces,     \* their replay nonces
    Documents,  \* ids of the Archive's signed postures
    Digests,    \* their payload digests
    Commands,   \* commands that are sent
    MaxWork,    \* bound on the deliveries under way, for TLC
    None        \* an absent value

Actions == {"apply_hold", "release_hold", "erase", "purge"}

Receipt == [id : Decisions, nonce : Nonces]
Archive == [id : Documents, digest : Digests, posture : {"legal_hold", "clear", "disposed"}]

\* two: a second person approves; fit: tenant, retention policy, authority
\* reference and the window of the receipts are those of the candidate.
Command == [key : Keys, action : Actions, dry : BOOLEAN, receipt : Receipt \cup {None},
            archive : Archive \cup {None}, two : BOOLEAN, fit : BOOLEAN]

ASSUME LifecycleAssumption ==
    /\ Commands \subseteq Command /\ Commands # {}
    /\ None \notin Receipt \cup Archive \cup Decisions
    /\ MaxWork \in Nat

VARIABLES
    control,  \* row of idea_data_lifecycle_control
    linked,   \* whether a report evidence pack is linked to the candidate
    work,     \* number of outbox events and submissions not yet settled
    expired,  \* whether the retention has ended
    graph,    \* whether the rows about the candidate name a person
    rows,     \* key -> row of idea_data_lifecycle_operation, of the keys on record
    call,     \* caller -> its call
    writing   \* writers that hold the rows of the candidate

vars == <<control, linked, work, expired, graph, rows, call, writing>>

\* state "missing": no candidate; "unscoped": a candidate without a control.
Control == [state : {"missing", "unscoped", "active", "held", "erased", "purged"},
            from : {"active", "erased", "purged", "none"}, version : Nat]

Decided == {"preview", "applied", "replayed", "blocked"}

Row == [command : Commands, decision : Decided, named : BOOLEAN, version : Nat]

Answers == Decided \cup {"none", "conflict", "authority_replay", "archive_replay", "not_found"}

Open == {"key", "authority", "archive", "row", "commit"}

Call == [stage : Open \cup {"idle"}, command : Commands, decision : Decided \cup {"not_found"},
         answer : Answers]

Idle == [stage |-> "idle", command |-> CHOOSE command \in Commands : TRUE,
         decision |-> "blocked", answer |-> "none"]

EffectiveIn(c) == IF c.state = "held" THEN c.from ELSE c.state
GoneIn(c) == EffectiveIn(c) \in {"erased", "purged"}

Effective == EffectiveIn(control)
Gone == GoneIn(control)

Recorded == DOMAIN rows

-----------------------------------------------------------------------------
\* The policy.

\* The Archive's posture is required exactly when a pack is linked to the candidate.
ArchiveAllows(command) ==
    IF linked
      THEN /\ command.archive # None
           /\ (command.action = "apply_hold") = (command.archive.posture = "legal_hold")
           /\ command.action = "purge" => command.archive.posture = "disposed"
      ELSE command.archive = None

Admissible(command) ==
    /\ control.state # "unscoped"
    /\ command.fit
    /\ ArchiveAllows(command)
    /\ command.dry \/ command.action = "apply_hold" \/ command.two

Possible_PurgeEarly(action) ==
    CASE action = "apply_hold"   -> control.state # "held"
      [] action = "release_hold" -> control.state = "held"
      [] action = "erase"        -> control.state = "active" /\ work = 0
      [] action = "purge"        -> control.state = "erased" /\ work = 0

Possible(action) ==
    CASE action = "apply_hold"   -> control.state # "held"
      [] action = "release_hold" -> control.state = "held"
      [] action = "erase"        -> control.state = "active" /\ work = 0
      [] action = "purge"        -> control.state = "erased" /\ expired /\ work = 0

\* What the action would do has been done.
Done(action) ==
    \/ action = "erase" /\ control.state \in {"erased", "purged"}
    \/ action = "purge" /\ control.state = "purged"

Decision(command) ==
    CASE control.state = "missing" -> "not_found"
      [] control.state # "missing" /\ Admissible(command) /\ Done(command.action) -> "replayed"
      [] control.state # "missing" /\ Admissible(command) /\ Possible(command.action) ->
           IF command.dry THEN "preview" ELSE "applied"
      [] OTHER -> "blocked"

Projected_KeepsHold(action) ==
    CASE action = "apply_hold" ->
           [state |-> "held", from |-> control.state, version |-> control.version + 1]
      [] action = "release_hold" ->
           [control EXCEPT !.state = control.from, !.version = @ + 1]
      [] action = "erase" ->
           [state |-> "erased", from |-> "none", version |-> control.version + 1]
      [] action = "purge" ->
           [state |-> "purged", from |-> "none", version |-> control.version + 1]

Projected(action) ==
    CASE action = "apply_hold" ->
           [state |-> "held", from |-> control.state, version |-> control.version + 1]
      [] action = "release_hold" ->
           [state |-> control.from, from |-> "none", version |-> control.version + 1]
      [] action = "erase" ->
           [state |-> "erased", from |-> "none", version |-> control.version + 1]
      [] action = "purge" ->
           [state |-> "purged", from |-> "none", version |-> control.version + 1]

-----------------------------------------------------------------------------
\* Locks and what is on record.

Live(command) == command.receipt # None /\ ~command.dry
Filed(command) == command.archive # None /\ ~command.dry

KeyFree(c) ==
    \A d \in Callers \ {c} :
        call[d].stage \in Open \ {"key"} => call[d].command.key # call[c].command.key

AuthorityFree(c) ==
    \A d \in Callers \ {c} :
        call[d].stage \in {"archive", "row", "commit"} /\ Live(call[d].command) =>
            call[d].command.receipt # call[c].command.receipt

ArchiveFree(c) ==
    \A d \in Callers \ {c} :
        call[d].stage \in {"row", "commit"} /\ Filed(call[d].command) =>
            call[d].command.archive # call[c].command.archive

RowFree == writing = {} /\ \A d \in Callers : call[d].stage # "commit"

Spent_ById(receipt) ==
    \E k \in Recorded : Live(rows[k].command) /\ rows[k].command.receipt.id = receipt.id

\* A decision is found by its id or its nonce, of whatever operation on record.
Spent(receipt) ==
    \E k \in Recorded :
        /\ Live(rows[k].command)
        /\ \/ rows[k].command.receipt.id = receipt.id
           \/ rows[k].command.receipt.nonce = receipt.nonce

\* A posture is found by its id or its digest, of an applied operation.
Used(archive) ==
    \E k \in Recorded :
        /\ Filed(rows[k].command) /\ rows[k].decision = "applied"
        /\ \/ rows[k].command.archive.id = archive.id
           \/ rows[k].command.archive.digest = archive.digest

-----------------------------------------------------------------------------

Init ==
    /\ control \in {[state |-> "missing", from |-> "none", version |-> 0],
                    [state |-> "unscoped", from |-> "none", version |-> 0],
                    [state |-> "active", from |-> "none", version |-> 1]}
    /\ graph = (control.state # "missing")
    /\ linked = FALSE /\ work = 0 /\ expired = FALSE
    /\ rows = [k \in {} |-> None]
    /\ call = [c \in Callers |-> Idle]
    /\ writing = {}

\* A command arrives; a caller may repeat the one before, answered or not.
Receive(c) ==
    /\ call[c].stage = "idle"
    /\ \E command \in Commands :
         call' = [call EXCEPT ![c] = [stage |-> "key", command |-> command,
                                      decision |-> "blocked", answer |-> "none"]]
    /\ UNCHANGED <<control, linked, work, expired, graph, rows, writing>>

\* The end of a transaction: the answer, and every lock given up.
Answer(c, answer) ==
    call' = [call EXCEPT ![c].stage = "idle", ![c].decision = "blocked", ![c].answer = answer]

Onward(c, stage) == call' = [call EXCEPT ![c].stage = stage]

LockKey_NotCompared(c) ==
    LET me == call[c].command IN
    /\ call[c].stage = "key"
    /\ KeyFree(c)
    /\ IF me.key \in Recorded
         THEN Answer(c, "replayed")
         ELSE Onward(c, IF Live(me) THEN "authority" ELSE IF Filed(me) THEN "archive" ELSE "row")
    /\ UNCHANGED <<control, linked, work, expired, graph, rows, writing>>

LockKey(c) ==
    LET me == call[c].command IN
    /\ call[c].stage = "key"
    /\ KeyFree(c)
    /\ IF me.key \in Recorded
         THEN Answer(c, IF rows[me.key].command = me THEN "replayed" ELSE "conflict")
         ELSE Onward(c, IF Live(me) THEN "authority" ELSE IF Filed(me) THEN "archive" ELSE "row")
    /\ UNCHANGED <<control, linked, work, expired, graph, rows, writing>>

LockAuthority(c) ==
    LET me == call[c].command IN
    /\ call[c].stage = "authority"
    /\ AuthorityFree(c)
    /\ IF Spent(me.receipt) THEN Answer(c, "authority_replay")
                            ELSE Onward(c, IF Filed(me) THEN "archive" ELSE "row")
    /\ UNCHANGED <<control, linked, work, expired, graph, rows, writing>>

LockArchive(c) ==
    /\ call[c].stage = "archive"
    /\ ArchiveFree(c)
    /\ IF Used(call[c].command.archive) THEN Answer(c, "archive_replay") ELSE Onward(c, "row")
    /\ UNCHANGED <<control, linked, work, expired, graph, rows, writing>>

LockRow_NotLocked(c) ==
    /\ call[c].stage = "row"
    /\ call' = [call EXCEPT ![c].stage = "commit", ![c].decision = Decision(call[c].command)]
    /\ UNCHANGED <<control, linked, work, expired, graph, rows, writing>>

\* The candidate's rows are locked, then read and evaluated.
LockRow(c) ==
    /\ call[c].stage = "row"
    /\ RowFree
    /\ call' = [call EXCEPT ![c].stage = "commit", ![c].decision = Decision(call[c].command)]
    /\ UNCHANGED <<control, linked, work, expired, graph, rows, writing>>

\* The partial unique indexes on the operations.
Collides(command, decision) ==
    \/ Live(command) /\ Spent(command.receipt)
    \/ decision = "applied" /\ command.archive # None /\ Used(command.archive)

NextControl(c) ==
    IF call[c].decision = "applied" THEN Projected(call[c].command.action) ELSE control

Erases(c) == call[c].decision = "applied" /\ call[c].command.action = "erase"

\* The control on record with an operation: a preview tells of the one that
\* its action would lead to.
RecordedControl(c) ==
    IF call[c].decision \in {"applied", "preview"}
      THEN Projected(call[c].command.action) ELSE control

NewRow_VersionBefore(c) ==
    [command |-> call[c].command, decision |-> call[c].decision,
     named |-> ~GoneIn(RecordedControl(c)), version |-> control.version]

\* An operation that leaves or would leave the candidate erased names nobody.
NewRow(c) ==
    [command |-> call[c].command, decision |-> call[c].decision,
     named |-> ~GoneIn(RecordedControl(c)), version |-> RecordedControl(c).version]

\* Nor does any on record once it is erased.
OldRow(c, k) == IF Erases(c) THEN [rows[k] EXCEPT !.named = FALSE] ELSE rows[k]

Record(c) ==
    /\ control' = NextControl(c)
    /\ graph' = (graph /\ ~Erases(c))
    /\ rows' = [k \in Recorded \cup {call[c].command.key} |->
                  IF k = call[c].command.key THEN NewRow(c) ELSE OldRow(c, k)]
    /\ Answer(c, call[c].decision)
    /\ UNCHANGED <<linked, work, expired, writing>>

\* Change of the control, redaction and record of the operation: all or nothing.
Commit(c) ==
    /\ call[c].stage = "commit"
    /\ call[c].decision = "not_found" \/ ~Collides(call[c].command, call[c].decision)
    /\ IF call[c].decision = "not_found"
         THEN /\ Answer(c, "not_found")
              /\ UNCHANGED <<control, linked, work, expired, graph, rows, writing>>
         ELSE Record(c)

Refuse_KeepsLocks(c) ==
    /\ call[c].stage = "commit" /\ call[c].decision # "not_found"
    /\ Collides(call[c].command, call[c].decision)
    /\ UNCHANGED vars

\* The insert meets an index: an error, and all is rolled back.
Refuse(c) ==
    /\ call[c].stage = "commit" /\ call[c].decision # "not_found"
    /\ Collides(call[c].command, call[c].decision)
    /\ call' = [call EXCEPT ![c] = Idle]
    /\ UNCHANGED <<control, linked, work, expired, graph, rows, writing>>

\* A statement fails or the process dies; the transaction is rolled back, and
\* the caller has learned nothing.
Fail(c) ==
    /\ call[c].stage \in Open
    /\ call' = [call EXCEPT ![c] = Idle]
    /\ UNCHANGED <<control, linked, work, expired, graph, rows, writing>>

-----------------------------------------------------------------------------
\* Others.

\* A new candidate, with its control.
Create ==
    /\ control.state = "missing"
    /\ control' = [state |-> "active", from |-> "none", version |-> 1]
    /\ graph' = TRUE
    /\ UNCHANGED <<linked, work, expired, rows, call, writing>>

\* A writer locks the rows and is turned away from what is erased or has no control.
Fence(w) ==
    /\ w \notin writing /\ RowFree
    /\ control.state \notin {"missing", "unscoped"} /\ ~Gone
    /\ writing' = writing \cup {w}
    /\ UNCHANGED <<control, linked, work, expired, graph, rows, call>>

\* It writes rows that name a person, and may start a delivery or link a pack.
Write(w) ==
    /\ w \in writing
    /\ writing' = writing \ {w}
    /\ graph' = TRUE
    /\ \/ UNCHANGED <<linked, work>>
       \/ linked' = TRUE /\ UNCHANGED work
       \/ work < MaxWork /\ work' = work + 1 /\ UNCHANGED linked
    /\ UNCHANGED <<control, expired, rows, call>>

\* An event is published, a submission settled; neither looks at the control.
Deliver ==
    /\ work > 0
    /\ work' = work - 1
    /\ UNCHANGED <<control, linked, expired, graph, rows, call, writing>>

Expire ==
    /\ ~expired
    /\ expired' = TRUE
    /\ UNCHANGED <<control, linked, work, graph, rows, call, writing>>

Lock(c) == LockKey(c) \/ LockAuthority(c) \/ LockArchive(c) \/ LockRow(c)

Next ==
    \/ \E c \in Callers : Receive(c) \/ Lock(c) \/ Commit(c) \/ Refuse(c) \/ Fail(c)
    \/ \E w \in Writers : Fence(w) \/ Write(w)
    \/ Create \/ Deliver \/ Expire

Spec == Init /\ [][Next]_vars

\* Transactions run on; a lock goes to those who wait for it in their order.
FairSpec ==
    /\ Spec
    /\ \A c \in Callers : SF_vars(Lock(c)) /\ WF_vars(Commit(c) \/ Refuse(c))
    /\ \A w \in Writers : WF_vars(Write(w))

-----------------------------------------------------------------------------
\* Properties.

(***************************************************************************)
(* Rows, control and calls keep their types.                               *)
(***************************************************************************)
TypeOK ==
    /\ control \in Control
    /\ control.state = "held" <=> control.from # "none"
    /\ control.state \in {"missing", "unscoped"} <=> control.version = 0
    /\ linked \in BOOLEAN /\ expired \in BOOLEAN /\ graph \in BOOLEAN
    /\ work \in 0..MaxWork
    /\ Recorded \subseteq Keys /\ rows \in [Recorded -> Row]
    /\ call \in [Callers -> Call]
    /\ writing \subseteq Writers

(***************************************************************************)
(* Once the data is erased no row names a person, whatever call or writer  *)
(* was under way and whatever is asked afterwards, and nothing is left to  *)
(* deliver.                                                                *)
(***************************************************************************)
ErasedIsNameless ==
    Gone => /\ ~graph /\ work = 0
            /\ \A k \in Recorded : ~rows[k].named

(***************************************************************************)
(* A decision of the bank is on record once, by its id and by its nonce;   *)
(* a posture of the Archive has let one operation be applied.  The locks   *)
(* are on pairs, so two envelopes that share one half are not kept apart   *)
(* by them.                                                                *)
(***************************************************************************)
ReceiptsAreUsedOnce ==
    \A j \in Recorded, k \in Recorded : j # k =>
        /\ Live(rows[j].command) /\ Live(rows[k].command) =>
             /\ rows[j].command.receipt.id # rows[k].command.receipt.id
             /\ rows[j].command.receipt.nonce # rows[k].command.receipt.nonce
        /\ /\ Filed(rows[j].command) /\ rows[j].decision = "applied"
           /\ Filed(rows[k].command) /\ rows[k].decision = "applied"
           => /\ rows[j].command.archive.id # rows[k].command.archive.id
              /\ rows[j].command.archive.digest # rows[k].command.archive.digest

(***************************************************************************)
(* The audit tells the control: every version after the first was made by  *)
(* one applied operation on record, and by one only, though previews are   *)
(* on record with versions that were never made.                           *)
(***************************************************************************)
AuditTellsControl ==
    /\ \A v \in 2..control.version :
         \E k \in Recorded : rows[k].decision = "applied" /\ rows[k].version = v
    /\ \A k \in Recorded : rows[k].decision = "applied" =>
         /\ rows[k].version \in 2..control.version
         /\ \A j \in Recorded :
              rows[j].decision = "applied" /\ rows[j].version = rows[k].version => j = k

(***************************************************************************)
(* An answer stands for the operation on record under the key: a retry is  *)
(* told of the operation it asked for, and never makes a second one.       *)
(***************************************************************************)
AnswersStand ==
    \A c \in Callers :
        /\ call[c].answer \in {"applied", "preview"} =>
             /\ call[c].command.key \in Recorded
             /\ rows[call[c].command.key].command = call[c].command
             /\ rows[call[c].command.key].decision = call[c].answer
        /\ call[c].answer = "replayed" =>
             /\ call[c].command.key \in Recorded
             /\ rows[call[c].command.key].command = call[c].command
        /\ call[c].answer = "conflict" =>
             /\ call[c].command.key \in Recorded
             /\ rows[call[c].command.key].command # call[c].command

SpentIds ==
    {d \in Decisions : \E k \in Recorded :
        rows[k].decision = "applied" /\ Live(rows[k].command) /\ rows[k].command.receipt.id = d}

Stage ==
    CASE control.state = "missing" -> "new"
      [] control.state = "unscoped" -> "active"
      [] OTHER -> Effective

Named == graph \/ \E k \in Recorded : rows[k].named

Promise == INSTANCE RetainedCandidate WITH
    stage <- Stage,
    held  <- control.state = "held",
    busy  <- work > 0,
    named <- Named,
    spent <- SpentIds

(***************************************************************************)
(* The calls, the writers and the deliveries together keep the promise of  *)
(* RetainedCandidate.                                                      *)
(***************************************************************************)
ImplementsPromise == Promise!Spec

(***************************************************************************)
(* Every call ends: the locks are taken in one order by all.               *)
(***************************************************************************)
Settles == \A c \in Callers : call[c].stage # "idle" ~> call[c].stage = "idle"
=============================================================================
