# lotus-idea in TLA+

A verification development for `lotus-idea`, the FastAPI/PostgreSQL service that turns source
evidence into governed investment-idea candidates, lets reviewers decide on them, converts them
into work of downstream owners (proposals in Advise, actions in Manage, packs in Report), and
publishes what happened through a durable outbox. Paths below are relative to the repository.

Contents: [1 the system](#1-the-system) · [2 modules](#2-modules-and-how-they-correspond-to-the-code) ·
[3 runs](#3-what-the-runs-check) · [4 bounds](#4-bounds) · [5 fairness](#5-fairness) ·
[6 proofs](#6-proofs) · [7 disagreements](#7-where-documents-and-code-disagree) ·
[8 not modelled](#8-what-is-not-modelled) · [9 plan](#9-plan)

## 1 The system

One process image, several workers, one PostgreSQL database. A request handler runs straight-line
Python with a handful of transactions; whatever it remembers between two of them may be stale, and
the process may die between any two. There are no queues between components: they meet in rows, row
locks and advisory locks.

| component | state it keeps | operations | meets | what makes it correct |
| --- | --- | --- | --- | --- |
| **Candidate aggregate** `domain/persistence.py`, `candidate_reconciliation.py`, `candidate_state.py`, `infrastructure/persistence/` | candidate row (status, posture, material and evidence version, evidence), audit, idempotency records | persist an evaluation, transition, expire | advisory lock per candidate; row locks of the erasure; key reservations without either | a decision is made on what the row is, not on what it was; versions only grow; status and posture fit; a key keeps its request |
| **Review governance** `domain/review_governance.py`, `review_authority.py`, `persistence_review_workflow.py` | decisions (an approval is a grant), feedback events | review action, feedback, their replays | writes the candidate row | authority is for exactly the evidence that was reviewed |
| **Presentation receipts** | receipts | record | aggregate | append-only, replayable |
| **Conversion and report packs** `domain/conversion_governance.py`, `report_evidence.py` | intents, packs | convert, pack | consume a grant; feed submissions | one grant converts once |
| **Conversion outcomes** `domain/conversion_outcome_policy.py`, `infrastructure/postgres_conversion_outcome.py` | outcomes per intent, quarantined streams | record outcome | owners; advisory locks of intent, id, candidates and key | outcomes follow the order of progression, also when late or repeated; an answer stands for a row |
| **Outbox** `application/outbox/`, `infrastructure/outbox/` | event rows with status, retries, due time, lease; run records; re-drive audit | append (with the mutation), claim batch, publish, mark, re-drive | broker; several runs at once; expiring leases | at-least-once, outcomes written by the owner of the lease only, bounded retries, explicit quarantine |
| **Downstream submission** `application/downstream_realization/`, `infrastructure/postgres_downstream_submission.py` | one row per key with posture, receipt, lease, audit | claim, POST with retries, finalize, operator resolution | owners over HTTP; erasure by a row lock on the lifecycle control | one sender per resource; no delivery for erased data; postures are the owners' word and final |
| **Owner realization** `application/*_reconciliation.py`, `domain/{advise,manage}_realization.py` | receipts, owner histories | recover a submission by reading the owner | concurrent recoveries | evidence only moves forward |
| **Data lifecycle** `domain/data_lifecycle/`, `infrastructure/data_lifecycle/` | control row (active, held, erased, purged), receipts, archive posture | hold, release, erase, purge, schedule | every writer and claim | an operation applies once and not while work is active; what is erased names nobody |
| **Review queue** `domain/review_queue/`, `infrastructure/postgres_review_queue.py` | none (read model), snapshot tokens | page, readiness summary | every write of a candidate | three copies of the rules agree; the pages of a walk are one queue |
| **Signals, scoring, ranking** `domain/signal_evaluation.py`, `scoring.py` | none | evaluate | source products | pure functions with temporal gates |
| **Source ingestion** `application/source_ingestion*.py`, `candidate_expiry.py`, `scripts/run_*source_ingestion_worker.py` | none of its own | batch run, expiry of what is no opportunity any more | aggregate, Core, reviews and erasures meanwhile | a rerun replays what was done and does the rest; a live version can be retired |
| **AI governance** `domain/ai_governance.py`, `persistence_ai_lineage.py` | lineage records, nonces | record lineage | aggregate, attestation service | no output without verified, unreplayed provenance |
| **Migrations, recovery** `infrastructure/postgres_deployment_migrations.py` | schema history, events | apply, roll back, adopt | one advisory lock | the history is a prefix of the image's bundle |
| HTTP boundary, telemetry, evidence and readiness contracts | none the above read | | | |

The behaviours that are hard here, each a row of `PROJECT.json` "hazards":

* **judged on a load, written under a lock** - reviews, conversions, packs, expiries and submissions
  validate a candidate they loaded without a lock; some compare it again under the lock, some do not;
* **leases that outlive their holder, and holders that outlive their lease** - outbox batches, re-drives,
  submissions;
* **answers that come late, twice or never** - the broker's and the owners';
* **crashes** between a committed claim and its outcome;
* **two kinds of lock on one candidate** - advisory lock of the writers, row locks of the lifecycle, none for
  key reservations;
* **one failing statement** that takes its transaction with it (the redaction, a migration);
* **one rule written several times** (the queue in a WHERE, a CASE and the domain policy);
* **reads of several statements**, each with a snapshot of its own (a page of the queue);
* **batches of independent commits** that stop half way and are run again (ingestion).

## 2 Modules and how they correspond to the code

| module | what it is |
| --- | --- |
| `OutboxDelivery` | delivery runs and governed re-drives; refines `OutboxPromise` |
| `OutboxPromise` | abstract: at-least-once delivery, quarantine, bounded re-drives |
| `DownstreamSubmission` | claim, POST, finalize, recovery, operator, hold/erase/purge of one candidate's work |
| `CandidatePolicy` | the rules of a candidate: statuses, postures, reconciliation of an evaluation; operators only |
| `CandidateAggregate` | one candidate: evaluations, transitions, expiry, reviews, feedback, conversion, packs, keys, erasure; refines `ExactReviewAuthority` |
| `ExactReviewAuthority` | abstract: an approval authorizes one conversion of exactly the reviewed evidence |
| `ConversionOutcomes` | reports of owners: keys, ids, locks, quarantined streams; refines `ConversionLedger` |
| `ConversionLedger` | abstract: a posture moves by one version along the order of progression or by a correction |
| `DataLifecycle` | hold, release, erase, purge with their receipts, writers and deliveries; refines `RetainedCandidate` |
| `RetainedCandidate` | abstract: erased once, when idle and not held, and nameless from then on |
| `ReviewQueue` | the queue of an audience, walks of pages, writes between the statements |
| `DeploymentMigrations` | apply, roll back and adopt by images of several releases; refines `SchemaRelease` |
| `SchemaRelease` | abstract: whole deployments, rollbacks and adoptions only |
| `SourceIngestion` | runs of the ingestion worker over a manifest, several candidates, what others do to them; refines `EvidenceIntake` |
| `EvidenceIntake` | abstract: a key adopts one observation, a candidate shows the last one adopted for it |
| `MC*` | the instances for TLC |
| `*_proofs` | theorems (section 6) |

Conventions: one action per database transaction, per message that reaches an owner or the broker,
and per read of one; what a request keeps in memory between two of them is its entry of `call`;
`Crash` may strike before any of them and rolls an open transaction back. Operators with an
underscore in their name (`Ready_NoBackoff`) are deviations of the operator before the underscore:
plausible bugs that the property named in `PROJECT.json` "mutants" must notice.

### OutboxDelivery

`status`, `retries`, `nextAttempt`, `leasedBy`, `leaseUntil` are the columns of `idea_outbox_event`;
`runRequest` and `audit` the idempotency records of runs and the re-drive audit (both unique on key;
audit unique on event). `BeginRun` records the key **before** the claim, so a run that crashes is
answered REPLAYED. `ClaimBatch` is the one statement `UPDATE .. WHERE id IN (SELECT .. FOR UPDATE SKIP
LOCKED LIMIT n) RETURNING`: `locked` is any set of ready rows another transaction holds at the moment.
`Publish` is the call of the broker: it accepted, or the call was told it did not (a refusal, a
timeout, an exception; `nacked` keeps refused and unanswered attempts alike, for the code treats them
alike, and the broker may hold an event whose answer was lost). `MarkDelivery` and `MarkRecovery` have the guard
`WHERE lease_attempt_id = me`, which does not look at the expiry. `BeginRecovery` .. `MarkRecovery` are the re-drive; the lookup takes
no lock, the claim does. One timestamp taken at the beginning (`call.at`, which the caller may supply)
serves as claim time, lease start and failure time. History variables: `acked`, `nacked`.

### DownstreamSubmission

`posture`, `subject`, `receipt`, `leaseLive`, `author`, `change` are the row of `idea_downstream_submission`
for each key and its last audit entry, `history` the version of the local copy of the owner's history.
`fence` is the row lock on the candidate's lifecycle control that `claim` and the erasure both take; it
is held from `TakeFence` to `InsertClaim` and from `CountForErasure` to `ApplyErasure`. `transit`
holds requests on their way: the owner may serve one whose caller has given up, crashed or gone on to
its next try. The owner decides a resource once. `Recoverable`, `Reconcilable`, `Replays` and
`Extends` are the guards of the three recovery routes, asked before the owner is read and again under
the row lock. `ApplyErasure` may fail: the redaction writes an object into `audit_json` where the table
accepts only an array, so it succeeds only where it meets no row (`Redactable`).
History variables: `posted`, `erased`.

### CandidateAggregate and CandidatePolicy

`CandidatePolicy` has the pure rules (`ALLOWED_LIFECYCLE_TRANSITIONS`, `ALLOWED_REVIEW_POSTURES_BY_LIFECYCLE`,
`review_posture_for_transition`, `reconcile_candidate`); two modules keep candidates by them. In
`CandidateAggregate` `cand` is the candidate row; `decisions`, `feedback`, `intents`, `packs` its append-only records;
`keys`, `expiries` the idempotency records (the key of an expiry is made of the candidate and the loaded
material version); `lock` the advisory lock. A request goes through three stages:

| stage | actions | code |
| --- | --- | --- |
| unlocked load and judgement | `LoadPersist` .. `LoadPack` | the application use cases |
| lock, second load, ruling | `Enter` (`Admitted`, `Standing`, `Bare`) | `aggregate_mutation.py`, the `record_*` methods of `domain/persistence.py` |
| write and commit | `WritePersist` .. `WritePack`, `WriteKey`, or `Blocked`, `Collide` | `postgres_repository_delta.py`, `postgres_mutation_retry.py` |

`Standing` says what each operation looks at again: a review and an intent compare the whole locked
candidate with the judged one, a transition and an expiry ask the status only, a pack nothing.
`Reserve` is the path that records a key for a known review or feedback event without the lock, and
`Collide` what it does to a locked request of the same key: one retry with a new load. `Erase` takes row
locks, not the advisory lock, so it may fall between a locked load and its write; the write then
looks at the lifecycle control (`Passes`) unless it has only a key to record (`Bare`). Identities are
versions plus content hash; facts are pairs of a material fingerprint and an evidence hash, and only
their equality matters. `Keyed` are the kinds of request that carry an Idempotency-Key here (feedback, the one kind that
reserves a key without the lock). Only the erasure is here, which leaves the keys; the purge, which deletes
them, is in `DataLifecycle` and `SourceIngestion`. History variable: `faults`, the server errors that were answered.

### ConversionOutcomes

`recorded` are the rows of `idea_conversion_outcome`, `quarantine` the intents whose migrated stream contradicts itself,
`holder` the advisory locks. A call goes `precheck` (is the key or the id on record: `Reserve` answers and takes
the key in a statement of its own) .. `judge` (validation against the unlocked history) .. `locking` (the locks of
intent, id, candidates and key in the order `Earlier`) .. `Rule` (all loaded again, `Fits` once more) .. `Write`, or `Retry`
after a collision, once. `Valid` is `validate_conversion_outcome_history`; `Posture` the outcome of the highest version of a valid
stream. The unique pair (intent, version) together with append-only writes keeps a stream in order, and the second validation
under the locks is what turns a lost race into a conflict rather than a server error.

### DataLifecycle

One candidate. `control` is its row, `rows` the operations on record, `graph` whether rows about it name a person, `work` the deliveries not
settled, `expired` the end of the retention. `LockKey`, `LockAuthority`, `LockArchive`, `LockRow` are the four locks, each with the look at
what is on record that the code does under it; then `Commit`, `Refuse` (everything a unique key or a check denies) or `Fail`.
`Possible` and `Projected` are the decision tables of `domain/data_lifecycle`; `NextControl` is what the control becomes, `RecordedControl` what the row tells of it
(a preview tells of the control its action would make); `Admissible` what is asked of the receipts. `Fence` and `Write` are any mutation of a
candidate: the check of the control under its row lock, and the write.

### ReviewQueue

`record` holds the row of each candidate (status, posture, suppression, expiry, reviews, score, scope), `walk` each reviewer's
walk. `Count` (first count and fingerprint), `Read` (`PageOf`, the page statement with its LIMIT and OFFSET) and `Verify` (second count; equal to the token
or a 409) are the three statements, each on what is committed when it runs. `Admitted` is the WHERE, `Classified` the CASE of the readiness summary,
`Exclusion` the domain policy; they are written from their three sources, not from one another. `Write` stands for every
mutation of a candidate and may write any contents, also in states the domain refuses (rows older than the policy): it over-approximates
the writers. Each write changes `candidate_json` (versions or `updated_at_utc` move), and hashes do not collide. History variables: `read`, `whole`.

### DeploymentMigrations

`db` is what is committed: history table, structure, event table. A run waits for the one advisory lock (`Lock`), asks what
exists (`Check`, `Permitted`), executes migration by migration on its own view (`Step`: `ApplyNext`, `RollbackNext`, `AdoptNext`), and commits; `Fail` is
any failing statement or the death of the process. A migration is its version, name and scripts; `Structural` are those a fingerprint
shows. Adoption compares structure only, so a data-only migration counts as run when the structure fits.

### SourceIngestion

`cand`, `keys` and `expiries` are rows as in `CandidateAggregate`, here of several scopes (tenant, book, portfolio, client: what the candidate id
is made of). `run[r]` is a process of the worker: its manifest, the number of its item, and the item's stage:

| stage | actions | code |
| --- | --- | --- |
| `item` | `Fetch`: Core answers, the gates of the evaluation decide | `high_cash_signal.py`, `signal_evaluation.py`, `source_temporal.py` |
| `item` | `Choke`: Core answers what the evaluation raises on, and the run ends | `signal_evaluation.py`, `lotus_core_sources.py` |
| `eligible` | `Persist`: one locked transaction | `persist_candidate` |
| `ineligible`, `retiring` | `LoadExpiry` without a lock, then `Retire` | `candidate_expiry.py` |
| after the last | `Report` | `summarize_source_ingestion_worker_run` |

`Persist` is one step because it holds the advisory locks of candidate and key from its load to its commit; the races inside it are those of
`CandidateAggregate`. `Answered` is the per-item result, blocked ones included; `Abort` an error that is not caught inside the batch, so that the process exits with a code that is not
zero. Three things raise one: a write of an erased candidate (`DataLifecycleWriteBlockedError`), and, in `Raises`, a weight outside [0, 1] that passes the gates
(`ValueError`, `signal_evaluation.py:911`; `Whole` is the value of 1) and metadata that do not parse (`lotus_core_sources.py:562`). A statement that fails in the
database does what `Crash` does. The default key is made of portfolio and date, the candidate of the whole scope, the material of the weight as it is written
(`ValueOf` maps it to its value). `Move`, `Erase` and `Purge` are the other operations on the candidates, `Configure` a new manifest, which may carry keys of its own.

### How they compose

The modules share `CandidatePolicy` and otherwise meet through one guard each: an intent of `CandidateAggregate` is a resource of `DownstreamSubmission`,
which sees the candidate only through `authorized` (its authority may lapse at any moment) and through the lifecycle state; the owner's
answers come back as reports of `ConversionOutcomes`; `DataLifecycle` sees writers and deliveries through the row they lock and the work they
leave; `ReviewQueue` sees every mutation as `Write`. Every committed mutation appends an outbox row in its own transaction: `AppendEvent`.
Six refinements are stated by `INSTANCE .. WITH` and checked as properties: `ImplementsPromise` (of `OutboxPromise`; and, in `DataLifecycle`, of
`RetainedCandidate`), `ImplementsAuthority`, `ImplementsLedger`, `ImplementsRelease`, `ImplementsIntake`.

## 3 What the runs check

Twelve runs, one per question. The two that must fail are in section 7.

| run | instance | properties | states |
| --- | --- | --- | --- |
| `outbox_race` | one event, two delivery runs, two re-drives, one clock | `TypeOK`; a retry is consumed only by a refusal (`RetriesAreRefusals`); two attempts never publish under live leases at once (`OnePublisherPerLiveLease`); `ImplementsPromise`: at-least-once, a quarantine left only by an audited re-drive, once | 436,468 |
| `outbox_batch` | two events in batches, two runs with clocks of their own, fairness | an outcome is that of the attempt that owns the lease (`OutcomeBelongsToOwner`); a call that survives leaves no lease behind (`ClaimsAreSettled`) | 41,864 |
| `sub_race` | one Advise intent, two keys, two callers, a recovery, operator, hold, erasure, purge | `TypeOK`; one caller at most ever POSTs a resource (`OneSenderPerResource`); no delivery for an erased candidate and no erasure under a delivery (`ErasureExcludesDelivery`); an accepted or rejected row says what the owner said (`PostureIsTheOwnersWord`); a resolved row stays (`ResolutionIsFinal`) | 213,588 |
| `sub_evidence` | a Manage intent and a report pack, a POST tried twice, two recoveries, fairness | receipts and owner histories only advance (`EvidenceNeverRegresses`); no claim stays in flight for a caller that lives (`ClaimsSettle`) | 468,496 |
| `cand_authority` | two requests of seven kinds, feedback under one key, an erasure, crashes, two materials, two evidence hashes of which one is ready | `TypeOK`; `ApprovedUnderExactGrant`; `PostureFitsStatus`; the one retry after a collision wins (`RetryWins`); `EndedUntilItRecurs`; `ErasedIsFrozen`; `ImplementsAuthority` | 1,494,703 |
| `outcome_race` | two intents, one with a quarantined stream, five reports that compete, two calls, crashes, fairness | `TypeOK`; an accepted or replayed answer stands for a row and the key of the call (`AnswersStand`); `ImplementsLedger`; every call ends (`Settles`) | 40,935 |
| `lifecycle_race` | two calls with five commands that share keys, decisions, nonces and digests, a writer, a delivery, fairness | `TypeOK`; `ErasedIsNameless`; `ReceiptsAreUsedOnce`; `AuditTellsControl`; `AnswersStand`; `ImplementsPromise`; `Settles` | 195,090 |
| `queue_pages` | three candidates of twelve kinds, one walk of pages of one, two writes | `TypeOK`; `RulesAgree`; the pages of a walk are one queue (`WalkIsOneQueue`); what the token rests on (`PageSawTheCut`) | 733,609 |
| `migration_releases` | three images of which one edited a migration of another, two runs at a time, a fresh or a legacy schema | the audit tells the history (`EventsTellHistory`); `ImplementsRelease` | 41,423 |
| `source_reruns` | a scheduled and a manual worker, two scopes, two manifests, nine answers of Core (an overdrawn portfolio and malformed metadata among them), a crash, an erasure, fairness | `LiveVersionsCanBeRetired`; no item starves, but behind an erased candidate or an answer Core keeps giving and the evaluation raises on (`RerunsReachEveryItem`); `ImplementsIntake` | 181,192 |

What they show, in the terms of the code:

* a slow worker is harmless to the outbox table because both marks carry `lease_attempt_id`, and it is
  harmful to nobody else because a publication is at-least-once; the lease expiry itself is never read
  by the marks, and does not have to be;
* the unique key of `idea_downstream_submission` on the resource, not the idempotency key, is what keeps two
  callers from both sending; the row lock on the lifecycle control is what orders claims and erasures;
* comparing the *whole* locked candidate with the loaded one is what makes an approval one of the evidence
  on the screen; a transition does not need it, for its target is checked under the lock;
* the reservation of a key without the lock costs the locked request one retry, never its key;
* the locks of the lifecycle are on pairs (decision and nonce, document and digest); it is the unique keys of
  `idea_data_lifecycle_operation` that keep halves from being used twice, and the answer for the loser is a conflict;
* the count of the queue before and after a page vouches for every candidate that stayed; it cannot see one that came and went in between (section 7);
* one advisory lock and one transaction for a whole deployment make any failure invisible, also between images that disagree;
* an expiry key made of a stale version never blocks a later retirement, because versions only grow and the version it names is past or has ended by then;
* a worker that answers per item keeps going past items that Core blocks, and past conflicts and replays; what ends it at the same item at every restart is the write of an erased
  candidate, and evidence of Core the evaluation raises on, for as long as Core gives it.

## 4 Bounds

* **Outbox.** One event suffices for the races of leases (rows do not interact, except in the batch and
  in the run record, which `outbox_batch` has two events for). Two runs and two re-drives: the third
  contender for one lease repeats the second. `MaxTime` 3 with leases of 2 and backoffs of 1 and 2 lets a lease
  expire, be reclaimed and be marked by its first owner, and lets the backoff reach its cap. `MaxRecoveries`
  is 1 as in the code. `ClockSkew` 1 in `outbox_batch` lets a caller's `deliveredAtUtc` disagree with the server; it
  is 0 in `outbox_race`, whose lease property is about one clock. `RetryLimits` {1, 2} makes two runs
  disagree about when an event is exhausted.
* **Submission.** Two keys for one resource and two callers per race. `MaxTries` is 1 in `sub_race`, the default of
  `retry_max_attempts`, and 2 in `sub_evidence`; with 2, `PostureIsTheOwnersWord` is false (section 7).
  `MaxVersion` 2 is what a regression needs. Nothing bounds crashes, message loss or operator actions.
* **Candidate.** `MaxMaterial` and `MaxEvidence` bound versions by refusing to *load* an evaluation that could exceed
  them (`WithinBounds`); a begun one is never cut off. Two material versions of two evidence versions give
  every relation of an old identity to the current one: older material, older evidence, same. Two
  reviews let a second approval follow a refresh. Two requests at a time: the properties relate one judged
  request to what others committed in between, and any number of those may commit one after the other.
* **Outcomes.** Two calls; the five reports are a request, two that compete for the next version (one a correction), one id for two intents, and one
  ahead of its stream, which is also the one that would continue the quarantined stream. Nothing else is bounded: rows are limited by ids.
* **Lifecycle.** One candidate, two callers, one writer, one delivery at a time (`MaxWork`), three keys, five commands chosen so that any two share a key, a
  decision id, a nonce, a document or nothing. A third caller would find what the second finds.
* **Queue.** Three ids and pages of one make a walk long enough for a shift in front of the offset; times 0 and 1 for a snooze or an expiry that
  passes; twelve row kinds, one per reason of exclusion and rank; `MaxWrites` 2, erasures included, for a candidate that comes and goes.
* **Migrations.** Two runs; images of one and three migrations, two of which disagree in the second; `MaxRollback` 2 (15 in the code), `MaxEvents` 7: apply, roll back,
  apply again by another image, and adopt.
* **Ingestion.** Two scopes of two portfolios, one of them touched by others; two dates; two manifests, of two items with default keys and of one with a key of its own;
  weights below zero, below the threshold and above it in two spellings (one above 1 would do what one below zero does); `MaxCrashes` 1. Versions need no bound: each key adopts once until it is purged, and an erased candidate adopts nothing.
* **Symmetry** permutes callers, keys, ids and fingerprints, none of which is ordered or named in a property.
  It is not used in the runs with liveness properties.
* `CHECK_DEADLOCK FALSE` is said where everything may be over: outbox and submission (keys used up, the clock at its bound), lifecycle (every key on record), queue
  (walks done, writes spent), migrations (events at their bound).

What a finite instance cannot show, the theorems of section 6 do for the properties named there.

## 5 Fairness

| assumption | why the code justifies it |
| --- | --- |
| weak, on every step of a begun call (`RunStep`, `RecoveryStep`, `SubmitStep`; `Step` of an outcome; `Commit` or `Refuse` and `Write` of the lifecycle) | straight-line Python with timeouts on every external call; only a crash stops it, and `Crash` or `Fail` is an action of its own |
| weak, on `ApplyErasure` | a transaction that holds its lock goes on to commit or roll back |
| strong, on `TakeFence`, `Acquire` and `Lock` | PostgreSQL queues the waiters of a row or advisory lock: a waiter is enabled again and again and gets it |
| weak, on `Begin` and `Work` of the scheduled ingestion worker | `run_scheduled_source_ingestion_worker.py --run-forever`, under `restart: on-failure` in `docker-compose.yml:100` |
| none on clocks, other beginnings, operators, recoveries, owners, Core's answers and the network | nobody has to start a run, resolve a case, answer or deliver; the schedulers of the outbox are outside the service |

Hence no property says that an event *is* delivered or that an unknown outcome *is* resolved: the code does not
promise it, for it takes an operator to start a run. What is promised is that a call that lives settles what it began.
Core may give any answer at any time. That it does not answer for ever what the evaluation raises on is therefore no fairness of the specification but a condition
of `RerunsReachEveryItem` (`Digestible`): without it the worker ends at that item at every restart, and TLC shows as much.

## 6 Proofs

The theorems hold for all values of the constants that satisfy the named assumption of each module: any number of
events, calls, keys, ids, versions, tries, images, candidates and reviewers. Invariants were checked by TLC on the runs' instances before they
were proved.

**`OutboxDelivery_proofs`.** `TypeCorrect` (`TypeOK` is inductive as it stands: row shapes, and what a running call
knows). `OutcomeOfTheOwner`: `OutcomeBelongsToOwner` needs in addition `AnswerKnown`, that a call at its mark has its answer in `acked`
or `nacked`; then only the two marks end a lease (`LeaseEndsAtMark`), and they write the answer of the lease's holder (`RecordedIsAnswered`).
Three more invariants carry the rest: `KeysInv` (a key in use is recorded, two calls in work have different keys, what a call was refused is a refusal on
record), `WorkInv` (work in hand has a row) and `LeasesInv` (who has work in hand holds its lease, or the lease is over).
`RetriesCountRefusals` rests on the first; `OnePublisher`, that no two calls publish under leases that both run, on the others and on `ClockSkew = 0`;
`PromiseImplemented` maps the marks, the claim of a re-drive and the hand-over to the broker to the actions of `OutboxPromise`, the rest to stutters.
From the refinement alone follow two things a consumer counts on: `AtLeastOnce`, that every event on record as published was accepted by the broker, and
`PublishedIsFinal`, that nothing published is offered or given up again.

**`DownstreamSubmission_proofs`.** `TypeCorrect`; `OneSender`; `ErasureAndDeliveryExclude`; `ResolutionsAreFinal`; `EvidenceOnlyAdvances`; `OwnersWord`; `AcceptancesAreTheOwners`.
`OneSender` and `ErasureAndDeliveryExclude` are not inductive apart, so they are proved from one invariant `TypeInv /\ ClaimsInv` with the parts

* `Fenced`: a caller about to insert its claim holds the lock, and the candidate is active;
* `Locked`: an erasure under way holds the lock and has seen the candidate active;
* `Tracked`: a resource somebody has sent or will send has a row, unless the candidate was purged;
* `Unique`: one such caller per resource;
* `ErasureExcludesDelivery` itself.

It needs the redaction to fail wherever it meets a row (`Redactable`), as it does in the code: were it to succeed there
(the deviation `Redactable_Always`), an operator who resolves a case whose lease is live would open the way for an erasure under a POST.

`ResolutionsAreFinal` and `EvidenceOnlyAdvances` follow step by step (`RowsAdvance`) from `OutcomeInv`: an open row has no receipt, and what a call is about to
write was sound when it read the row. `OwnersWord` assumes `MaxTries = 1`, the default of the code, without which it is false (section 7). Its
invariant `WordInv` follows an answer from the owner to the row: a POST in transit is the only one ever for its resource and undecided (`PostsInv`), an answer
heard stays true (`HeardInv`), as does what a recovery read (`ReadInv`), a call knows the subject of its row (`KnownInv`), and so the rows tell what the owner said (`RowsTell`).
`AcceptancesAreTheOwners` says what is left for a client that tries as often as it likes (any `MaxTries`): what the client
or a recovery records as accepted is accepted by the owner, and what a recovery records as rejected is rejected there; left out is the rejection the client heard itself. Answers of acceptance heard stay true (`AcceptedInv`), `ReadInv` and `KnownInv` do not depend on the number of tries (`OwnersStand`: an owner never takes back what
it decided), and so the rows say it (`RowsSay`). The two theorems together show the repeated POST to be the only way to the disagreement of section 7.

**`CandidateAggregate_proofs`.** `TypeCorrect`, `ExactGrant`, `ConversionOnce`, `PostureCorrect`, `DecisionsAreCurrent`,
`EndedStaysEnded`, `ErasureFreezes`, `KeysAreKept`, `RetrySuffices`, and the refinement `AuthorityImplemented`. The invariant is
`TypeInv /\ Firm /\ PostureFitsStatus /\ AuthorityInv`:

* `TypeInv` has, besides types, what a load made sure of (`Judged`) and that a pack's intent is on record;
* `Firm`: whoever writes holds the lock, and what it was ruled on (`Ruled`) is still so. This is where the lock
  matters: only the holder writes candidate, decisions and intents, and the two lock-free actions write neither;
* `AuthorityInv`: review ids are unique; nothing was decided or converted on evidence to come (`NotAhead`); every conversion has
  its grant (`Granted`); current evidence once approved is not open for review again (`Given`), once converted not approved
  again (`Used`). An approved candidate having a grant, and a grant converting once, follow step by step.

`StepKinds` reduces `Next` to the four writes that change candidate, decisions or intents. The refinement maps an evaluation with news to `Revise`, an
approval to `Approve` (nobody approved this evidence before: `Given`), a conversion to `Convert`, the expiry of an approved candidate to
`Withdraw`, all else to a stutter. `ErasureFreezes` needs no invariant: it is the guard `Passes` at every write. `RetrySuffices`
needs that a second attempt only happens with its key taken, and that keys are never given back (`KeysGrow`).
`EvidenceIsUsedOnce` reads the authority: no evidence is approved twice, and none is converted twice.

**`ConversionOutcomes_proofs`.** `TypeCorrect`, `RetrySuffices`, `SuccessIsRecorded`, `QuarantineStaysFrozen`, `LedgerImplemented`. The invariant adds to the types
that rows are unique in id and in (intent, version), that a key names a row (`KeysRecorded`), and what a call knows at each stage
(`CallOK`): a call about to write holds the locks of intent and id and its report fits what is on record; a second attempt
only happens with the key on record, which is why it cannot collide again.
`ConclusionsStand` follows from the ledger: versions of a posture have no gaps, and a rejected, failed or completed one changes by a correction only.

**`DeploymentMigrations_proofs`.** `TypeCorrect`, `StructureIsTold`, `ReleaseImplemented`, from the invariant that the holder of the lock has seen the database as it is and
that its own view is a prefix of its image on top of it (`Doing`). `EventsReconstruct` is `EventsTellHistory`, whose replay is a recursive function: that such a function exists
and is the only one is not taken from a theorem about recursion but is part of the invariant (`Told`, of what is committed and of the runner's view alike), since the events
grow by one at a time (`OneMoreTold`) and each replays to what its step did (`StepTold`).

**`DataLifecycle_proofs`.** `LifecycleInvariant`, and from it `TypeCorrect`, `ErasureIsLasting`, `ReceiptsOnce`, `AuditIsComplete`, `AnswersAreKept`, `PromiseKept`. The properties need
`Exclusive` (one call at a time between lock and commit), `Judged` (what was decided under the locks still holds at the commit), `OwnKeys` (a key in work is nobody
else's) and `Fenced` (a writer past the check writes to living data). `QuietStep` covers the steps that touch none of it; a commit has a lemma per conjunct.
`BankIsObeyed` follows from `PromiseKept`: held data stay as they are, erasure is for good, and only erased data past their retention are purged.

**`ReviewQueue_proofs`.** `TheRulesAgree`: for every row a candidate may have and at every instant, the three copies agree. `TheTokenProves`: `PageSawTheCut` needs that versions
only grow (`CutStands`, `ReadStands`): what was there at the first count and has the same version at the second was there in between.
`TypeCorrect`, `WalksAreOneQueue` and `WholeWalksSkipNothing` rest on the order: `Before` is total on the rows of a statement (`BeforeIsTotal`), so that `Rank` is a bijection of the
candidates and the places (`RankIsBijection`, by counting), `Ranked` lists each once in order (`RankedFacts`), ranking a stretch of a queue anew gives that stretch (`RankedAnew`), and a
page continues the pages before it (`PageFollows`, with `TheRulesAgree` for what the policy might drop). `Held` then says what a walk holds at each stage: answers as of its instant, a
cut equal to its token, the pages so far, and an offset past the end when it is done. `WholeWalksSkipNothing` is the promise of the route, `NoSilentSkips`, of
every walk that is `whole`: what `queue_skips` finds (section 7) is the only way to break it.

**`SourceIngestion_proofs`.** `TypeCorrect`, `RetirementStaysOpen`, `IntakeImplemented`. A step can do to a candidate only what `Grown` says: versions do not fall, and a live one of
the same version was live before. From that, every expiry key on record names a version that is past or has ended (`Spent`), and the version a
run judged on is none still to come (`Known`), also after others have moved the candidate. `ReconciledFacts` and `TransitionedFacts` say what the policy does; the
refinement maps an adopting `Persist` to `Adopt`, `Retire` and `Move` out of life to `End`, the purge to `Forget`, all else to a stutter.
From it, `EndsAndErasuresStand` (an ended candidate lives again with a new version only; an erased one shows nothing that came later) and
`KeysHaveCandidates` (a key on record names a candidate that is there).

**Model-checked only.** Liveness (`ClaimsAreSettled`, `ClaimsSettle`, `Settles`, `RerunsReachEveryItem`) and whatever speaks of fairness: the prover does
not do it. Every other property of a passing run is a theorem. `ConversionOnce` and `QuarantineStaysFrozen`, and the actions `DecidedOnCurrent` and
`KeyKeepsItsRequest` of `DecisionsAreCurrent` and `KeysAreKept`, are proved and have no run; nor have `FinalWordIsTheOwners` and `WholeWalksKeepIt`, and what is read off
a refinement (`PublishedWasAccepted`, `NothingTakenBack`, `EvidenceUsedOnce`, `ConcludedUntilCorrected`, `HoldsAndRetentionStand`, `EndedAndErasedStand`, `KeysNameCandidates`), since a run checks
the refinement itself.

## 7 Where documents and code disagree

Two runs must fail; the trace is the evidence. Documents are quoted in `PROJECT.json` "findings".

| run | the document | the code |
| --- | --- | --- |
| `sub_erasure` | "either erasure wins .. or .. records an active-delivery blocker" (`docs/runbooks/data-lifecycle-operations.md:191`) | the redaction of a settled submission violates the CHECK of `migrations/008_..sql:57` and the erasure is rolled back every time |
| `queue_skips` | "changed queue state returns a 409 snapshot conflict so consumers restart without silent skips or duplicates" (`api/review_queue/routes.py:517`) | the page is compared at both ends only: a candidate that enters the queue after the first count and leaves it before the second shifts the page and is in neither fingerprint |

Met while modelling, and behaviour of the models, without a run of their own. Outbox and submissions:

* `dead_lettered`, "Publication failed" (`docs/operations/outbox-dead-letter-recovery.md:44`), is answered from the row at mark time
  (`application/outbox/recovery.py:101`): also when this re-drive was accepted and a run dead-lettered the event it reclaimed;
* a re-drive that crashes leaves an ordinary expiring lease, so a delivery run publishes again, while
  `docs/operations/api-certification.md:275` speaks of one fenced publication attempt; a caller's `deliveredAtUtc` ahead of the clock leases failed rows before their backoff is over (`:272`);
* "definitive rejection" (`docs/operations/downstream-realization-readiness.md:556`): a 4xx on a retry after a lost acceptance is recorded as rejection
  (`infrastructure/downstream_realization.py:649`), with `retry_max_attempts` above its default; authority that lapsed is refused "before a claim or owner call" (`:85`) but
  judged on the candidate loaded before the claim (`submission_use_cases.py:144`).

Candidates:

* the same feedback under the same key is replayed (`docs/architecture/review-feedback-identity-and-idempotency.md:33`), but is looked up under an identity of the *current*
  evidence (`application/review_workflow.py:235`): after a refresh the replay is a server error;
* evidence "that has already moved to `converted_to_report`" (RFC-0002 slice 13, line 164) is judged on the unlocked load only (`domain/persistence.py:829`);
* the key of an expiry names the material version of the unlocked load, and the expiry retires the version it finds under the lock
  (`candidate_expiry.py:96`; `docs/architecture/candidate-lifecycle-review-posture-policy.md:71`);
* an evidence refresh "preserves the candidate's lifecycle and review posture" (`docs/operations/persistence.md:22`), but an approved candidate goes back to
  review (`candidate_reconciliation.py:105`), which is what `ApprovedUnderExactGrant` needs.

Ingestion:

* evaluations "with unchanged economics" do not create a material version (`docs/operations/persistence.md:30`), but the weight enters the fingerprint as
  `str(Decimal)` (`signal_evaluation.py:900`), so another spelling of the same weight does, and reopens an ended candidate;
* the scheduler "propagates blocked or failed iterations as nonzero exit status" (`docs/operations/source-ingestion-run-once.md`), but items Core blocks are
  results inside a batch that exits with 0; what is raised at one item ends the whole batch with an exit code that is not zero, so that every restart ends there and later items wait
  (the exceptions in `RerunsReachEveryItem`): `DataLifecycleWriteBlockedError` for an erased candidate; `ValueError` for a weight outside [0, 1], as an overdrawn
  portfolio has (`signal_evaluation.py:911`), and for a `generated_at` that is no timestamp (`lotus_core_sources.py:562`), though one without a zone is a blocked item;
* the default key knows tenant, portfolio and date, the candidate also book and client: two items of one portfolio conflict; so does a rerun of a key after Core changed its evidence;
* a replay is answered `replayed` though the candidate has ended since; evidence of an earlier day adopted later becomes the newest material version; a fixed
  `evaluatedAt` in the manifest blocks evidence generated after it.

Outcomes, lifecycle, queue:

* a repeated report that is on record can be refused with `conversion_outcome_conflict` when its stream moved on meanwhile (`conversion_workflow.py:239`; RFC-0002 slice 06, lines 941-945);
  streams of equal `recorded_at` get consecutive versions in migration 006, are not quarantined, yet are invalid to the policy (lines 947-950);
* a *blocked* lifecycle operation with a signed decision consumes the decision, though `docs/runbooks/data-lifecycle-operations.md:138` speaks of applied ones; its retry answers "replayed"; a *preview* is on record with a control version that was never made (`postgres_policy.py:352`);
  `contracts/operations/lotus-idea-data-lifecycle.v1.json` lists the Advise and Manage realization histories as redacted at erasure, and the redaction does not touch them; a candidate without a control
  can be neither erased nor written;
* an unscored candidate is stored as JSON `"score": null` (`postgres_codecs.py:220`), for which `(candidate_json->'score') IS NULL` (`postgres_review_queue.py`) is false; the page
  may be empty with `has_next` when excluded candidates outnumber the reviewable; `created_at` is ordered as text.

## 8 What is not modelled

Of the modelled components:

* outbox: event payloads, counters of a run's summary, the dead-letter listing;
* submission: request fingerprints (a used key ends the call either way), contents of owner histories (a version stands
  for a history), the Manage history snapshots that have no sequence of their own;
* candidate: back-filling after a policy upgrade, applicability and its clock (and with it the identity conflict of differing
  applicability), entitlements, expiry and revocation of a grant, AI lineage, `updated_at_utc`. Leaving the last out makes
  the comparison under the lock weaker than the code's: the model admits every request the code admits, and more;
* outcomes: several tenants, the lifecycle check of the write (that of `CandidateAggregate`);
* lifecycle: the verification of signatures (a receipt fits or not), several candidates at once;
* queue: the in-memory queue, the exception summary for operators, priority buckets, rows whose columns contradict their JSON;
* migrations: the local migration tool, what a statement does beyond the structure, backup and restore;
* ingestion: the other Core products and signal families, counters and readiness documents of the worker; manifests that do not validate (no run begins) and items of
  a placeholder scope (`UnscopedCandidatePersistenceError`, at the same item of every run); the `RuntimeError` of an expiry key in conflict (`candidate_expiry.py:121`):
  the key names candidate and material version, and its payload differs only in the reasons, of which a high-cash evaluation has one tuple.

Not modelled at all: presentation receipts (append-only, read by nobody, replayed as feedback is); AI governance (contents and Ed25519 signatures, an oracle
in a model, around one more append-only record); scores and the ranking evaluation (decimal arithmetic); outbox readiness, HTTP boundary,
telemetry, and the evidence and readiness contracts, which keep no state the above read and make most of the repository's lines.
`PROJECT.json` "components" gives the reason for each.

## 9 What could come next

* `OwnerRealization`: an owner history as a sequence of events, of which recoveries store only extensions, refining the versions of `DownstreamSubmission`.
* A correction of each finding of section 7, as a deviation of the operator at fault, to see which properties it restores.
