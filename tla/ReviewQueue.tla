----------------------------- MODULE ReviewQueue -----------------------------
(***************************************************************************)
(* The review queue of an audience, as reviewers page through it: which    *)
(* candidates it offers, in which order, and the snapshot token that is to *)
(* keep the pages of one walk on one queue while candidates are evaluated, *)
(* reviewed, snoozed and retired.                                          *)
(*                                                                         *)
(* Three statements make a page, each of which sees what is committed when *)
(* it starts (PostgreSQL's READ COMMITTED): a count with the fingerprint   *)
(* of the visible candidates, the page itself, and the count again.  The   *)
(* rules of the queue are written three times: as the WHERE of the page,   *)
(* as the CASE of the readiness summary, and in the domain policy that     *)
(* looks once more at each page.                                           *)
(*                                                                         *)
(* Hashes do not collide.  A write of a candidate changes its JSON, since  *)
(* each one moves its versions or updated_at_utc: writes[c] counts them.   *)
(***************************************************************************)
EXTENDS Integers, Sequences, FiniteSets, SequencesExt

CONSTANTS Ids,         \* candidate ids, ordered as the numbers they are
          Walks,       \* reviewers, each on one walk at a time
          Times,       \* instants, of reviews, expiries and evaluations
          Never,       \* later than all of them
          Required,    \* the posture the audience reviews
          Scopes,      \* access scopes of candidates
          Filter,      \* those asked for; empty is no filter
          Contents,    \* what the row of a candidate may say
          Initial,     \* the contents it may have at first
          Limit,       \* the size of a page
          MaxWrites,   \* bounds the writes of candidates
          None

Open == {"generated", "enriched", "scored", "governance_checked", "ready_for_review"}
Ended == {"expired", "closed", "rejected"}
Statuses == {"detected", "reviewed_by_advisor", "approved", "converted_to_proposal",
             "converted_to_manage_review", "converted_to_report", "accepted", "executed"}
            \cup Open \cup Ended

Waiting == {"advisor_review_required", "pm_review_required", "compliance_review_required"}
Settled == {"not_reviewed", "advisor_reviewed", "approved_for_conversion", "rejected", "no_action"}

\* The postures a status admits.  Rows older than the policy may break it.
Allowed(status) ==
    IF status = "ready_for_review" THEN Waiting \cup {"suppressed"}
    ELSE IF status = "reviewed_by_advisor"
      THEN (Waiting \ {"advisor_review_required"}) \cup {"advisor_reviewed", "suppressed"}
    ELSE IF status \in Open \cup {"detected"} THEN Waiting \cup {"not_reviewed", "suppressed"}
    ELSE IF status = "rejected" THEN {"rejected"}
    ELSE IF status \in Ended THEN {"no_action"}
    ELSE {"approved_for_conversion"}

\* Accepted at, and asleep until when: until is None of all but a snooze.
Review == [at : Times, until : Times \cup {None}]

\* since: when the material version began.  policy: of the score; None of an
\* unscored candidate.
Row == [created : Times, since : Times, status : Statuses,
        posture : Waiting \cup Settled \cup {"suppressed"},
        suppression : {None, "duplicate", "other"},
        expires : Times \cup {Never}, reviews : SUBSET Review,
        evidence : {"ready", "blocked"},
        policy : {None, "rankable", "unknown"}, score : Nat, scope : Scopes \cup {None}]

\* What a statement sees of the candidates: of some of them, their rows.
Seen == [row : Contents, version : 0..MaxWrites]
Fingerprints == UNION {[S -> Seen] : S \in SUBSET Ids}

ASSUME Assumptions ==
    /\ Ids \subseteq Nat /\ IsFiniteSet(Ids)
    /\ Times \subseteq Nat /\ Never \in Nat /\ \A t \in Times : t < Never
    /\ Contents \subseteq Row /\ Initial \subseteq Contents
    /\ Limit \in Nat \ {0} /\ MaxWrites \in Nat
    /\ Filter \subseteq Scopes /\ Required \in Waiting
    /\ None \notin Times /\ None \notin Scopes
    /\ None \notin {"duplicate", "other", "rankable", "unknown"}
    /\ None \notin Fingerprints

VARIABLES record,    \* the row of each candidate; None of one not seen, or erased
          writes,    \* how often it was written
          walk       \* what each reviewer holds

vars == <<record, writes, walk>>

-----------------------------------------------------------------------------
(* The rules, in each of the three places.                                 *)

\* The latest decision about this material version, as of the evaluation.
Applicable(r, at) == {d \in r.reviews : r.since <= d.at /\ d.at <= at}

Latest(r, at) ==
    CHOOSE d \in Applicable(r, at) : \A e \in Applicable(r, at) : e.at <= d.at

Asleep(r, at) ==
    /\ Applicable(r, at) # {}
    /\ Latest(r, at).until # None
    /\ Latest(r, at).until > at

\* The base of both queries.
Visible(r, at) ==
    /\ r.created <= at
    /\ r.posture = Required \/ r.suppression # None

Admitted_AtExpiry(r, at) ==
    /\ r.posture \in Allowed(r.status)
    /\ r.expires >= at
    /\ r.status \in Open
    /\ r.posture # "suppressed"
    /\ r.suppression = None
    /\ ~Asleep(r, at)
    /\ r.policy = "rankable"
    /\ r.evidence # "blocked"
    /\ Filter # {} => r.scope \in Filter

\* The WHERE of the page and of the count.
Admitted(r, at) ==
    /\ r.posture \in Allowed(r.status)
    /\ r.expires > at
    /\ r.status \in Open
    /\ r.posture # "suppressed"
    /\ r.suppression = None
    /\ ~Asleep(r, at)
    /\ r.policy = "rankable"
    /\ r.evidence # "blocked"
    /\ Filter # {} => r.scope \in Filter

\* The CASE of the readiness summary.  An absent score is a JSON null, which
\* is not the SQL NULL the CASE asks for: such a row is counted as unrankable.
Classified(r, at) ==
    IF Filter # {} /\ r.scope \notin Filter THEN "access_scope_mismatch"
    ELSE IF r.posture \notin Allowed(r.status) THEN "invalid_state"
    ELSE IF r.expires <= at THEN "expired"
    ELSE IF Asleep(r, at) THEN "snoozed"
    ELSE IF r.suppression = "duplicate" THEN "duplicate"
    ELSE IF r.posture = "suppressed" \/ r.suppression # None THEN "suppressed"
    ELSE IF r.status \in Ended THEN r.status
    ELSE IF r.evidence = "blocked" THEN "unsupported_evidence"
    ELSE IF r.policy # "rankable" THEN "unrankable_score_policy"
    ELSE IF r.status \notin Open THEN "non_reviewable_status"
    ELSE "none"

\* _queue_exclusion_for_candidate, of those its caller says are snoozed: all
\* that are, in memory; none, when it looks again at a page of the database.
Exclusion(r, at, snoozed) ==
    IF Filter # {} /\ (r.scope = None \/ r.scope \notin Filter) THEN "access_scope_mismatch"
    ELSE IF r.posture \notin Allowed(r.status) THEN "invalid_state"
    ELSE IF at >= r.expires THEN "expired"
    ELSE IF snoozed THEN "snoozed"
    ELSE IF r.suppression # None
      THEN (IF r.suppression = "duplicate" THEN "duplicate" ELSE "suppressed")
    ELSE IF r.posture = "suppressed" THEN "suppressed"
    ELSE IF r.status \in Ended THEN r.status
    ELSE IF r.evidence = "blocked" THEN "unsupported_evidence"
    ELSE IF r.policy = None THEN "unscored"
    ELSE IF r.policy # "rankable" THEN "unrankable_score_policy"
    ELSE IF r.status \notin Open THEN "non_reviewable_status"
    ELSE "none"

-----------------------------------------------------------------------------
(* What a statement sees.                                                  *)

\* The fingerprint: of each visible candidate, its row.
Fingerprint(at) ==
    [c \in {d \in Ids : record[d] # None /\ Visible(record[d], at)} |->
        [row |-> record[c], version |-> writes[c]]]

Eligible(seen, at) == {c \in DOMAIN seen : Admitted(seen[c].row, at)}

\* ORDER BY score DESC, created, id; _queue_sort_key is the same order.
Before(seen, c, d) ==
    LET a == seen[c].row
        b == seen[d].row
    IN  \/ a.score > b.score
        \/ a.score = b.score /\ a.created < b.created
        \/ a.score = b.score /\ a.created = b.created /\ c < d

\* One more than those that come before it.
Rank(seen, ids, c) == 1 + Cardinality({d \in ids : Before(seen, d, c)})

Ranked(seen, ids) ==
    [n \in 1..Cardinality(ids) |-> CHOOSE c \in ids : Rank(seen, ids, c) = n]

QueueOf(seen, at) == Ranked(seen, Eligible(seen, at))

PageOf_Ranks(seen, at, offset) ==
    LET page == SubSeq(QueueOf(seen, at), offset + 1,
                       IF offset + Limit < Len(QueueOf(seen, at))
                         THEN offset + Limit ELSE Len(QueueOf(seen, at)))
    IN  [i \in 1..Len(page) |-> offset + i - 1]

\* LIMIT and OFFSET; then the policy looks at the page, and ranks it anew.
PageOf(seen, at, offset) ==
    LET page == SubSeq(QueueOf(seen, at), offset + 1,
                       IF offset + Limit < Len(QueueOf(seen, at))
                         THEN offset + Limit ELSE Len(QueueOf(seen, at)))
    IN  Ranked(seen, {c \in ToSet(page) :
                        /\ seen[c].row.posture = Required \/ seen[c].row.suppression # None
                        /\ Exclusion(seen[c].row, at, FALSE) = "none"})

-----------------------------------------------------------------------------
(* The reviewers and the rest of the system.                               *)

\* read and whole are for the properties: what the page statement saw, and
\* whether it saw no candidate that the count before it had not seen.
Idle == [stage |-> "idle", at |-> 0, token |-> None, offset |-> 0,
         cut |-> None, read |-> None, got |-> <<>>, whole |-> TRUE]

Init ==
    /\ record \in [Ids -> Initial \cup {None}]
    /\ writes = [c \in Ids |-> 0]
    /\ walk = [w \in Walks |-> Idle]

\* A first page is asked for, of the queue as of some instant.
Ask(w, at) ==
    /\ walk[w].stage \in {"idle", "asked", "done", "conflict"}
    /\ walk' = [walk EXCEPT ![w] = [Idle EXCEPT !.stage = "asked", !.at = at]]
    /\ UNCHANGED <<record, writes>>

\* The count, and require_matching_review_queue_snapshot.
Count(w) ==
    /\ walk[w].stage = "asked"
    /\ LET seen == Fingerprint(walk[w].at)
       IN  walk' = [walk EXCEPT ![w].stage =
                                  IF walk[w].token \in {None, seen} THEN "counted" ELSE "conflict",
                                ![w].cut = seen]
    /\ UNCHANGED <<record, writes>>

\* The page.
Read(w) ==
    /\ walk[w].stage = "counted"
    /\ LET seen == Fingerprint(walk[w].at)
       IN  walk' = [walk EXCEPT
                      ![w].stage = "read", ![w].read = seen,
                      ![w].whole = @ /\ DOMAIN seen \subseteq DOMAIN walk[w].cut]
    /\ UNCHANGED <<record, writes>>

\* has_next_page counts whichever is more, the reviewable or the excluded.
More(w) ==
    LET reviewable == Cardinality(Eligible(walk[w].cut, walk[w].at))
        excluded == Cardinality(DOMAIN walk[w].cut) - reviewable
    IN  walk[w].offset + Limit < (IF reviewable > excluded THEN reviewable ELSE excluded)

Verify_Unchecked(w) ==
    /\ walk[w].stage = "read"
    /\ walk' = [walk EXCEPT
                  ![w].stage = IF More(w) THEN "asked" ELSE "done",
                  ![w].token = walk[w].cut,
                  ![w].offset = @ + Limit,
                  ![w].got = @ \o PageOf(walk[w].read, walk[w].at, walk[w].offset)]
    /\ UNCHANGED <<record, writes>>

\* The count again: the page is answered, and the next one asked for when
\* there is one, or it is withdrawn with a conflict.
Verify(w) ==
    /\ walk[w].stage = "read"
    /\ IF Fingerprint(walk[w].at) # walk[w].cut
         THEN walk' = [walk EXCEPT ![w].stage = "conflict"]
         ELSE walk' = [walk EXCEPT
                         ![w].stage = IF More(w) THEN "asked" ELSE "done",
                         ![w].token = walk[w].cut,
                         ![w].offset = @ + Limit,
                         ![w].got = @ \o PageOf(walk[w].read, walk[w].at, walk[w].offset)]
    /\ UNCHANGED <<record, writes>>

\* The writes so far, which MaxWrites bounds.
Written == {e \in Ids \X (1..MaxWrites) : e[2] <= writes[e[1]]}

Write_SameTime(c, r) ==
    /\ Cardinality(Written) < MaxWrites
    /\ IF record[c] = None THEN writes[c] = 0 ELSE
         /\ r.created = record[c].created /\ r.scope = record[c].scope
         /\ record[c].reviews \subseteq r.reviews
         /\ record[c].since <= r.since
    /\ record' = [record EXCEPT ![c] = r]
    /\ UNCHANGED <<writes, walk>>

\* The rest of the system: a candidate is persisted, or its row is written by
\* a refresh, a review, a transition or a conversion.  Its creation and scope
\* stay, its reviews are kept, its material version never goes back.
Write(c, r) ==
    /\ Cardinality(Written) < MaxWrites
    /\ IF record[c] = None THEN writes[c] = 0 ELSE
         /\ r.created = record[c].created /\ r.scope = record[c].scope
         /\ record[c].reviews \subseteq r.reviews
         /\ record[c].since <= r.since
    /\ record' = [record EXCEPT ![c] = r]
    /\ writes' = [writes EXCEPT ![c] = @ + 1]
    /\ UNCHANGED walk

\* An erasure replaces the candidate's JSON by a tombstone, which has no date
\* of creation and so is never visible; and fences its writers out.
Erase(c) ==
    /\ Cardinality(Written) < MaxWrites
    /\ record[c] # None
    /\ record' = [record EXCEPT ![c] = None]
    /\ writes' = [writes EXCEPT ![c] = @ + 1]
    /\ UNCHANGED walk

Next ==
    \/ \E w \in Walks :
         \/ \E at \in Times : Ask(w, at)
         \/ Count(w) \/ Read(w) \/ Verify(w)
    \/ \E c \in Ids, r \in Contents : Write(c, r)
    \/ \E c \in Ids : Erase(c)

Spec == Init /\ [][Next]_vars

-----------------------------------------------------------------------------
(* Properties.                                                             *)

\* Rows, counts of writes and walks are of their types.
TypeOK ==
    /\ record \in [Ids -> Contents \cup {None}]
    /\ writes \in [Ids -> 0..MaxWrites]
    /\ \A w \in Walks :
         /\ DOMAIN walk[w] = DOMAIN Idle
         /\ walk[w].stage \in {"idle", "asked", "counted", "read", "done", "conflict"}
         /\ walk[w].at \in Times \cup {0}
         /\ walk[w].token \in Fingerprints \cup {None}
         /\ walk[w].cut \in Fingerprints \cup {None}
         /\ walk[w].read \in Fingerprints \cup {None}
         /\ walk[w].offset \in Nat
         /\ walk[w].got \in Seq(Ids)
         /\ walk[w].whole \in BOOLEAN

\* The three copies of the rules agree on every candidate and at every time:
\* what the page admits is what the summary counts as reviewable and what the
\* policy does not drop from the page; and the reason is the same, but for a
\* candidate without a score.
RulesAgree ==
    \A c \in Ids, at \in Times :
        record[c] # None /\ Visible(record[c], at) =>
            LET reason == Exclusion(record[c], at, Asleep(record[c], at))
            IN  /\ Admitted(record[c], at) = (reason = "none")
                /\ reason = Classified(record[c], at) \/ reason = "unscored"
                /\ Admitted(record[c], at) => Exclusion(record[c], at, FALSE) = "none"

\* The pages of a walk are one queue: that of the first page, in its order,
\* none of it twice and, at the end, all of it; unless a candidate came into
\* view and left it again between two statements of one page.
WalkIsOneQueue ==
    \A w \in Walks :
        walk[w].whole /\ walk[w].token # None =>
            LET queue == QueueOf(walk[w].token, walk[w].at)
            IN  /\ IsPrefix(walk[w].got, queue)
                /\ walk[w].stage = "done" => walk[w].got = queue

\* What the token rests on: a page between two equal counts saw the candidates
\* of those counts, at the least; no others, if none came and went.
PageSawTheCut ==
    \A w \in Walks :
        walk[w].stage = "read" /\ Fingerprint(walk[w].at) = walk[w].cut =>
            /\ \A c \in DOMAIN walk[w].cut :
                 c \in DOMAIN walk[w].read /\ walk[w].read[c] = walk[w].cut[c]
            /\ walk[w].whole => walk[w].read = walk[w].cut

\* The promise of the route (api/review_queue/routes.py:517): a walk without a
\* conflict skips no candidate of the queue it began and repeats none.
NoSilentSkips ==
    \A w \in Walks :
        /\ IsInjective(walk[w].got)
        /\ walk[w].stage = "done" =>
             Eligible(walk[w].token, walk[w].at) \subseteq ToSet(walk[w].got)
=============================================================================
