---------------------------- MODULE SourceIngestion ----------------------------
(***************************************************************************)
(* The source-ingestion worker: a batch of work items, each evaluated on   *)
(* evidence of Core and persisted, or its candidate retired, one after     *)
(* the other in transactions of their own.                                 *)
(*                                                                         *)
(* A run reads the configured manifest and works through its items.  An    *)
(* item that Core does not serve is blocked and the run goes on; an item   *)
(* of an erased candidate raises, and so does an answer of Core that is    *)
(* malformed or gives a weight no portfolio can have: the run ends there.  *)
(* Runs overlap (a scheduled worker and the one an operator starts), die   *)
(* and are started again from the first item: the keys of the items are    *)
(* what makes a second pass harmless.                                      *)
(*                                                                         *)
(* The candidate rules are those of CandidatePolicy.  Persisting takes the *)
(* advisory locks of candidate and key, so that it is one step here; how   *)
(* it races with the other requests is the matter of CandidateAggregate.   *)
(***************************************************************************)
EXTENDS CandidatePolicy, Sequences

CONSTANTS
    Runners,      \* processes that run the worker
    Scheduled,    \* those that are started again and again
    Scopes,       \* tenant, book, portfolio and client, none a placeholder
    Portfolios,
    PortfolioOf,  \* scope -> its portfolio
    Dates,        \* business dates
    ClientKeys,   \* keys a manifest may give its items
    Weights,      \* cash weights as Core writes them
    ValueOf,      \* weight -> its value; several are written for one value
    Threshold,    \* the value from which a position is an opportunity
    Whole,        \* the value of the whole portfolio
    Answers,      \* what Core may answer
    Manifests,    \* the manifests that may be configured
    Touched,      \* scopes whose candidates other operations work on
    Outcomes,     \* statuses they take a candidate to
    MaxCrashes    \* bound of processes that die

Keys == ClientKeys \cup (Portfolios \X Dates)

Items == [scope : Scopes, date : Dates, key : ClientKeys \cup {None}]

\* The payload an item's key is recorded with.  Its material is the weight as
\* it is written: str() of the Decimal keeps the trailing zeros.
Observations ==
    [scope : Scopes, date : Dates, at : {m.at : m \in Manifests},
     material : Materials, proof : Proofs]

ASSUME IngestionAssumption ==
    /\ Scheduled \subseteq Runners
    /\ Touched \subseteq Scopes
    /\ PortfolioOf \in [Scopes -> Portfolios]
    /\ Arrival \in Postures
    /\ ValueOf \in [Weights -> Int]
    /\ Whole \in Nat /\ Threshold \in 1 .. Whole
    /\ Materials = {w \in Weights : ValueOf[w] \in Threshold .. Whole}
    /\ \A a \in Answers :
         /\ a.reply \in {"evidence", "denied", "unavailable", "malformed"}
         /\ a.complete \in BOOLEAN /\ a.current \in BOOLEAN
         /\ a.date \in Dates /\ a.generated \in Nat
         /\ a.weight = None \/ a.weight \in Weights
         /\ a.proof \in Proofs
    /\ \A m \in Manifests :
         /\ m.at \in Nat
         /\ m.items \in Seq(Items) /\ m.items # << >>
    /\ Outcomes \subseteq Statuses \ (Discovery \cup {"expired"})
    /\ MaxCrashes \in Nat

VARIABLES
    cand,      \* scope -> its candidate
    keys,      \* key -> the observation it is recorded with
    expiries,  \* expiry keys on record
    erased,    \* scopes whose candidate is erased
    manifest,  \* the configured manifest
    run,       \* runner -> its run
    crashes    \* processes that died

store == <<cand, keys, expiries, erased>>
vars == <<store, manifest, run, crashes>>

NoRun == [stage |-> "idle", plan |-> None, next |-> 0, seen |-> None, mv |-> 0]

Init ==
    /\ cand = [s \in Scopes |-> Absent]
    /\ keys = [k \in Keys |-> None]
    /\ expiries = {}
    /\ erased = {}
    /\ manifest \in Manifests
    /\ run = [r \in Runners |-> NoRun]
    /\ crashes = 0

-----------------------------------------------------------------------------
(* The work of one run.                                                    *)

Item(r) == run[r].plan.items[run[r].next]

\* The default key knows the portfolio and the date, not the client.
KeyOf(item) ==
    IF item.key = None THEN <<PortfolioOf[item.scope], item.date>> ELSE item.key

ExpiryKey_Unversioned(s, mv) == <<s, 1>>

ExpiryKey(s, mv) == <<s, mv>>

Present(s) == cand[s].status # "absent" /\ s \notin erased

\* A candidate that an evaluation may retire.
Live(c) == c.status # "absent" /\ "expired" \in Onward(c.status)

Answered_StopsAtBlock(r, decision) ==
    IF decision = "blocked" THEN run' = [run EXCEPT ![r] = NoRun]
    ELSE run' = [run EXCEPT ![r].stage = "item", ![r].next = @ + 1,
                            ![r].seen = None, ![r].mv = 0]

\* Whatever became of the item, the run goes on with the next.
Answered(r, decision) ==
    run' = [run EXCEPT ![r].stage = "item", ![r].next = @ + 1,
                       ![r].seen = None, ![r].mv = 0]

\* An error that nothing in the batch catches: the process exits with a code
\* that is not zero, and nothing is reported.
Abort(r) == run' = [run EXCEPT ![r] = NoRun]

Begin(r) ==
    /\ run[r].stage = "idle"
    /\ run' = [run EXCEPT ![r] = [NoRun EXCEPT !.stage = "item", !.plan = manifest, !.next = 1]]
    /\ UNCHANGED <<store, manifest, crashes>>

\* Core refuses the portfolio, or does not answer.
Unserved(a) == a.reply \in {"denied", "unavailable"}

\* Evidence of another day, or newer than the evaluation says it is.
OutOfTime(a, item, at) == a.date # item.date \/ a.generated > at

\* No evaluation: nothing is persisted and nothing retired.
Blocks(a, item, at) ==
    \/ Unserved(a)
    \/ /\ a.reply = "evidence"
       /\ \/ ~a.complete \/ ~a.current
          \/ OutOfTime(a, item, at)
          \/ a.weight = None

\* No evidence can be made of the answer (the time it was generated or a digest
\* does not parse), or it passes the gates with a weight outside the portfolio.
Raises(a, item, at) ==
    \/ a.reply = "malformed"
    \/ ~Blocks(a, item, at) /\ ValueOf[a.weight] \notin 0 .. Whole

\* Evaluate what Core answers; nothing is locked meanwhile.
Fetch(r) ==
    /\ run[r].stage = "item"
    /\ run[r].next <= Len(run[r].plan.items)
    /\ \E a \in Answers :
         LET at == run[r].plan.at IN
         \/ /\ Blocks(a, Item(r), at)
            /\ Answered(r, "blocked")
         \/ /\ ~Blocks(a, Item(r), at) /\ ~Raises(a, Item(r), at)
            /\ ValueOf[a.weight] < Threshold
            /\ run' = [run EXCEPT ![r].stage = "ineligible"]
         \/ /\ ~Blocks(a, Item(r), at) /\ ~Raises(a, Item(r), at)
            /\ ValueOf[a.weight] >= Threshold
            /\ run' = [run EXCEPT ![r].stage = "eligible", ![r].seen =
                   [scope |-> Item(r).scope, date |-> Item(r).date, at |-> at,
                    material |-> a.weight, proof |-> a.proof]]
    /\ UNCHANGED <<store, manifest, crashes>>

\* Core answers what the evaluation raises on.
Choke(r) ==
    /\ run[r].stage = "item"
    /\ run[r].next <= Len(run[r].plan.items)
    /\ \E a \in Answers : Raises(a, Item(r), run[r].plan.at)
    /\ Abort(r)
    /\ UNCHANGED <<store, manifest, crashes>>

\* The unlocked load of the expiry; what it finds makes the key.
LoadExpiry(r) ==
    LET s == Item(r).scope IN
    /\ run[r].stage = "ineligible"
    /\ \/ /\ Present(s) /\ Live(cand[s])
          /\ run' = [run EXCEPT ![r].stage = "retiring", ![r].mv = cand[s].mv]
       \/ /\ ~(Present(s) /\ Live(cand[s]))
          /\ Answered(r, "skipped_not_eligible")
    /\ UNCHANGED <<store, manifest, crashes>>

(***************************************************************************)
(* The transaction of the expiry.  It answers the same when it retires     *)
(* the candidate, when its key is on record and when the candidate is      *)
(* found gone or ended since.  The payload of a key is always the same (a  *)
(* high-cash evaluation has one reason to retire a candidate), so that a   *)
(* key on record is a replay and never a conflict.                         *)
(***************************************************************************)
Retires(r) ==
    LET s == Item(r).scope IN
    /\ ExpiryKey(s, run[r].mv) \notin expiries
    /\ Live(cand[s])

Retire(r) ==
    LET s == Item(r).scope IN
    /\ run[r].stage = "retiring"
    /\ \/ /\ Retires(r) /\ s \notin erased
          /\ cand' = [cand EXCEPT ![s] = Transitioned(cand[s], "expired")]
          /\ expiries' = expiries \cup {ExpiryKey(s, run[r].mv)}
          /\ Answered(r, "skipped_not_eligible")
       \/ /\ ~Retires(r) \/ s \in erased
          /\ Answered(r, "skipped_not_eligible")
          /\ UNCHANGED <<cand, expiries>>
       \/ /\ Retires(r) /\ s \in erased   \* erased after the locked load
          /\ Abort(r)
          /\ UNCHANGED <<cand, expiries>>
    /\ UNCHANGED <<keys, erased, manifest, crashes>>

Decision_ReplaysOnly(seen, k) ==
    IF keys[k] = seen THEN "replayed"
    ELSE IF seen.scope \in erased THEN "write_blocked"
    ELSE "adopted"

\* The decision of persist_candidate.
Decision(seen, k) ==
    IF keys[k] = seen THEN "replayed"
    ELSE IF keys[k] # None THEN "conflict"
    ELSE IF seen.scope \in erased THEN "write_blocked"
    ELSE "adopted"

\* The transaction of the candidate, under its lock and that of the key.
Persist(r) ==
    LET seen == run[r].seen
        k == KeyOf(Item(r))
        decision == Decision(seen, k)
    IN  /\ run[r].stage = "eligible"
        /\ \/ /\ decision \in {"replayed", "conflict"}
              /\ Answered(r, decision)
              /\ UNCHANGED <<cand, keys>>
           \/ /\ decision = "write_blocked"
              /\ Abort(r)
              /\ UNCHANGED <<cand, keys>>
           \/ /\ decision = "adopted"
              /\ cand' = [cand EXCEPT ![seen.scope] = Reconciled(cand[seen.scope], seen)]
              /\ keys' = [keys EXCEPT ![k] = seen]
              /\ Answered(r, decision)
        /\ UNCHANGED <<expiries, erased, manifest, crashes>>

\* The results are written out, once all items have one.
Report(r) ==
    /\ run[r].stage = "item"
    /\ run[r].next > Len(run[r].plan.items)
    /\ run' = [run EXCEPT ![r] = NoRun]
    /\ UNCHANGED <<store, manifest, crashes>>

-----------------------------------------------------------------------------
(* What happens around the runs.                                           *)

Crash(r) ==
    /\ run[r].stage # "idle"
    /\ crashes < MaxCrashes
    /\ crashes' = crashes + 1
    /\ run' = [run EXCEPT ![r] = NoRun]
    /\ UNCHANGED <<store, manifest>>

Configure ==
    /\ manifest' \in Manifests
    /\ UNCHANGED <<store, run, crashes>>

\* Where reviews, conversions and operators may take a candidate.
Ahead(s) ==
    IF s \in Discovery \cup {"ready_for_review", "reviewed_by_advisor"}
    THEN Outcomes ELSE Outcomes \cap Onward(s)

\* Other operations on the candidate, several of them in one step.
Move(s) ==
    /\ Present(s)
    /\ \E to \in Ahead(cand[s].status) :
         cand' = [cand EXCEPT ![s] = Transitioned(cand[s], to)]
    /\ UNCHANGED <<keys, expiries, erased, manifest, run, crashes>>

Erase(s) ==
    /\ Present(s)
    /\ erased' = erased \cup {s}
    /\ UNCHANGED <<cand, keys, expiries, manifest, run, crashes>>

\* The purge of an erased candidate deletes the keys recorded for it.
Purge(s) ==
    /\ s \in erased
    /\ keys' = [k \in Keys |->
           IF keys[k] # None /\ keys[k].scope = s THEN None ELSE keys[k]]
    /\ expiries' = {e \in expiries : e[1] # s}
    /\ UNCHANGED <<cand, erased, manifest, run, crashes>>

Work(r) ==
    Fetch(r) \/ Choke(r) \/ LoadExpiry(r) \/ Retire(r) \/ Persist(r) \/ Report(r)

Next ==
    \/ \E r \in Runners : Begin(r) \/ Work(r) \/ Crash(r)
    \/ \E s \in Touched : Move(s) \/ Erase(s) \/ Purge(s)
    \/ Configure

Spec == Init /\ [][Next]_vars

\* A scheduled worker begins its next iteration, after an exit with an error
\* when the container is restarted, and does not stop in the middle.
FairSpec == Spec /\ \A r \in Scheduled : WF_vars(Begin(r)) /\ WF_vars(Work(r))

-----------------------------------------------------------------------------
(* What ingestion must keep.                                               *)

RunOK(u) ==
    /\ u.stage \in {"idle", "item", "ineligible", "retiring", "eligible"}
    /\ u.stage # "idle" => u.plan \in Manifests /\ u.next \in 1 .. Len(u.plan.items) + 1
    /\ u.stage \in {"ineligible", "retiring", "eligible"} => u.next <= Len(u.plan.items)
    /\ u.stage = "eligible" => u.seen \in Observations
    /\ u.stage = "retiring" => u.mv \in Nat \ {0}

\* Candidates, keys and runs hold values of their kind, and a run under way
\* has a manifest and an item of it.
TypeOK ==
    /\ cand \in [Scopes -> Candidate]
    /\ keys \in [Keys -> Observations \cup {None}]
    /\ expiries \subseteq Scopes \X Nat
    /\ erased \subseteq Scopes
    /\ manifest \in Manifests
    /\ \A r \in Runners : RunOK(run[r])
    /\ crashes \in 0 .. MaxCrashes

(***************************************************************************)
(* A candidate that lives can be retired: the expiry key of its version is *)
(* free.  The key is made of the version an unlocked load found, and the   *)
(* transition is applied to the version the locked load finds; were a key  *)
(* left behind for a version that lives, evidence that it is no longer an  *)
(* opportunity would be answered as a replay for ever                      *)
(* (candidate-lifecycle-review-posture-policy.md:66-80).                   *)
(***************************************************************************)
LiveVersionsCanBeRetired ==
    \A s \in Scopes : Live(cand[s]) => ExpiryKey(s, cand[s].mv) \notin expiries

\* The items up to i of a manifest concern no erased candidate.
Clear(m, i) == \A j \in 1 .. i : m.items[j].scope \notin erased

Reached(m, i) == \E r \in Scheduled : run[r].plan = m /\ run[r].next > i

At(r, m, j) == run[r].stage = "item" /\ run[r].plan = m /\ run[r].next = j

\* Core does not answer an item up to i for ever with what the evaluation
\* raises on: a run that keeps coming to the item is answered otherwise again
\* and again, be it with a refusal.
Digestible(m, i) ==
    \A r \in Scheduled, j \in 1 .. i :
        []<>At(r, m, j) => []<><<Fetch(r) /\ At(r, m, j)>>_vars

(***************************************************************************)
(* Once the manifest stays, every item of it is worked on again and again, *)
(* whatever the items before it came to: blocked, replayed, in conflict,   *)
(* retired or adopted.  Two things end the run at the item they are met in,*)
(* at every restart, and are excepted: the candidate of an item up to this *)
(* one is erased (postgres_policy.py:170), or Core keeps answering one of  *)
(* them with a weight outside the portfolio or with metadata that do not   *)
(* parse (signal_evaluation.py:911, lotus_core_sources.py:562).            *)
(***************************************************************************)
RerunsReachEveryItem ==
    \A m \in Manifests : \A i \in 1 .. Len(m.items) :
        <>[](manifest = m /\ Clear(m, i)) /\ Digestible(m, i) => []<>Reached(m, i)

-----------------------------------------------------------------------------
(* The intake of evidence, which this module implements.                   *)

Intake == INSTANCE EvidenceIntake WITH
    shown <- [s \in Scopes |->
                 [version |-> cand[s].mv, material |-> cand[s].material,
                  proof |-> cand[s].proof, live |-> Live(cand[s])]],
    adopted <- keys,
    gone <- erased

(***************************************************************************)
(* Overlapping, dying and repeated runs come to no more than EvidenceIntake*)
(* allows: a key adopts one observation, a candidate shows the last one    *)
(* adopted for it and lives again only with materially new facts.          *)
(***************************************************************************)
ImplementsIntake == Intake!Spec
=============================================================================
