------------------------ MODULE SourceIngestion_proofs ------------------------
(***************************************************************************)
(* Proofs about SourceIngestion, for any runners, manifests, keys, answers *)
(* of Core and operations of others.                                       *)
(***************************************************************************)
EXTENDS SourceIngestion, TLAPS

-----------------------------------------------------------------------------
(* The inductive invariant.                                                *)

RunType == [stage : {"idle", "item", "ineligible", "retiring", "eligible"},
            plan : Manifests \cup {None}, next : Nat,
            seen : Observations \cup {None}, mv : Nat]

CandsOK ==
    /\ cand \in [Scopes -> Candidate]
    /\ \A s \in Scopes : cand[s].status = "absent" <=> cand[s].mv = 0

\* A key on record is that of a version that is past or has ended.
Spent(s, m) == m <= cand[s].mv /\ (Live(cand[s]) => m < cand[s].mv)

ExpiriesOK ==
    /\ expiries \subseteq Scopes \X Nat
    /\ \A s \in Scopes, m \in Nat : <<s, m>> \in expiries => Spent(s, m)

\* The version an expiry was judged on is not one still to come.
Known(u) == u.stage = "retiring" => u.mv <= cand[u.plan.items[u.next].scope].mv

RunsOK ==
    /\ run \in [Runners -> RunType]
    /\ \A r \in Runners : RunOK(run[r]) /\ Known(run[r])

KeysOK == keys \in [Keys -> Observations \cup {None}]

RestOK == erased \subseteq Scopes /\ manifest \in Manifests /\ crashes \in 0 .. MaxCrashes

IInv == CandsOK /\ ExpiriesOK /\ RunsOK /\ KeysOK /\ RestOK

LEMMA InvTypeOK == IInv => TypeOK
BY DEF IInv, CandsOK, ExpiriesOK, RunsOK, KeysOK, RestOK, TypeOK

LEMMA InvLive == IInv => LiveVersionsCanBeRetired
<1> SUFFICES ASSUME IInv, NEW s \in Scopes, Live(cand[s]),
                    ExpiryKey(s, cand[s].mv) \in expiries
             PROVE  FALSE
  BY DEF LiveVersionsCanBeRetired
<1>1. cand[s].mv \in Nat
  BY DEF IInv, CandsOK, Candidate
<1>2. Spent(s, cand[s].mv)
  BY <1>1 DEF IInv, ExpiriesOK, ExpiryKey
<1> QED
  BY <1>1, <1>2 DEF Spent

-----------------------------------------------------------------------------
(* The policy of a candidate.                                              *)

LEMMA LiveStatus ==
    ASSUME NEW c, c.status \in Statuses \cup {"absent"}
    PROVE  Live(c) <=> c.status \in Statuses \ (Converted \cup Terminal)
BY DEF Live, Onward, Statuses, Converted, Terminal, Discovery

LEMMA TransitionedFacts ==
    ASSUME NEW c \in Candidate, NEW to \in Statuses
    PROVE  /\ Transitioned(c, to) \in Candidate
           /\ Transitioned(c, to).status = to
           /\ Transitioned(c, to).mv = c.mv
           /\ Transitioned(c, to).material = c.material
           /\ Transitioned(c, to).proof = c.proof
<1> DEFINE q == PostureAfter(c.posture, to)
<1>1. q \in Postures
  BY DEF PostureAfter, Candidate, Postures, Escalated
<1>2. Transitioned(c, to) = [c EXCEPT !.status = to, !.posture = q]
  BY DEF Transitioned
<1> HIDE DEF q
<1> QED
  BY <1>1, <1>2 DEF Candidate

\* New material facts make the next version, which lives; others change the
\* proof and nothing that matters here.
LEMMA ReconciledFacts ==
    ASSUME NEW c \in Candidate, c.status = "absent" <=> c.mv = 0,
           NEW f, f.material \in Materials, f.proof \in Proofs
    PROVE  LET n == Reconciled(c, f) IN
           /\ n \in Candidate /\ n.status # "absent"
           /\ n.material = f.material /\ n.proof = f.proof
           /\ IF c.mv > 0 /\ c.material = f.material
              THEN n.mv = c.mv /\ (Live(n) <=> Live(c))
              ELSE n.mv = c.mv + 1 /\ Live(n)
<1> DEFINE new == Reconciled(c, f)
<1>0. /\ {"generated", "ready_for_review", "approved"}
             \subseteq Statuses \ (Converted \cup Terminal)
      /\ c.mv \in Nat /\ c.ev \in Nat /\ c.status \in Statuses \cup {"absent"}
      /\ Arrival \in Postures
  BY IngestionAssumption DEF IngestionAssumption, Statuses, Discovery, Candidate,
     Converted, Terminal
<1>1. CASE c.status = "absent"
  <2>1. new = [status |-> "generated", posture |-> Arrival, mv |-> 1, ev |-> 1,
               material |-> f.material, proof |-> f.proof]
    BY <1>1 DEF Reconciled, FirstVersion
  <2> HIDE DEF new
  <2>2. new \in Candidate /\ new.status = "generated" /\ new.mv = 1
        /\ new.material = f.material /\ new.proof = f.proof
    BY <1>0, <2>1 DEF Candidate
  <2>3. Live(new)
    BY <1>0, <2>2, LiveStatus
  <2> QED
    BY <1>0, <1>1, <2>2, <2>3 DEF new
<1>2. CASE c.status # "absent" /\ f.material # c.material
  <2> DEFINE v == c.mv + 1
  <2>1. new = [c EXCEPT !.status = "generated", !.posture = Arrival, !.mv = v, !.ev = 1,
                        !.material = f.material, !.proof = f.proof]
    BY <1>2 DEF Reconciled, NewMaterial
  <2>2. v \in Nat
    BY <1>0
  <2> HIDE DEF v, new
  <2>3. new \in Candidate /\ new.status = "generated" /\ new.mv = v
        /\ new.material = f.material /\ new.proof = f.proof
    BY <1>0, <2>1, <2>2 DEF Candidate
  <2>4. Live(new)
    BY <1>0, <2>3, LiveStatus
  <2> QED
    BY <1>0, <1>2, <2>3, <2>4 DEF new, v
<1>3. CASE c.status # "absent" /\ f.material = c.material /\ f.proof # c.proof
  <2> DEFINE v == c.ev + 1
             s == IF c.status = "approved" THEN "ready_for_review" ELSE c.status
             q == IF c.status = "approved" THEN "advisor_review_required" ELSE c.posture
  <2>1. new = [c EXCEPT !.status = s, !.posture = q, !.ev = v, !.proof = f.proof]
    BY <1>3 DEF Reconciled, Refreshed
  <2>2. /\ v \in Nat
        /\ s \in Statuses
        /\ s = c.status \/ (s = "ready_for_review" /\ c.status = "approved")
        /\ q \in Postures
    BY <1>0, <1>3 DEF Candidate, Postures
  <2> HIDE DEF v, s, q, new
  <2>3. new \in Candidate /\ new.status = s /\ new.mv = c.mv
        /\ new.material = c.material /\ new.proof = f.proof
    BY <1>0, <2>1, <2>2 DEF Candidate
  <2>4. Live(new) <=> Live(c)
    BY <1>0, <2>2, <2>3, LiveStatus
  <2>5. new.status # "absent"
    BY <1>3, <2>2, <2>3
  <2> QED
    BY <1>0, <1>3, <2>3, <2>4, <2>5 DEF new
<1>4. CASE c.status # "absent" /\ f.material = c.material /\ f.proof = c.proof
  BY <1>0, <1>4 DEF Reconciled
<1> QED
  BY <1>1, <1>2, <1>3, <1>4

-----------------------------------------------------------------------------
(* What a step may do to candidates, and what that leaves of the rest.     *)

Grown(x, y) ==
    /\ y \in Candidate
    /\ y.status = "absent" <=> y.mv = 0
    /\ y.mv >= x.mv
    /\ Live(y) /\ y.mv = x.mv => Live(x)

LEMMA StayGrown == ASSUME IInv, NEW s \in Scopes PROVE Grown(cand[s], cand[s])
BY DEF IInv, CandsOK, Grown, Candidate

LEMMA OneGrown ==
    ASSUME IInv, NEW s \in Scopes, NEW y, Grown(cand[s], y),
           cand' = [cand EXCEPT ![s] = y]
    PROVE  CandsOK' /\ \A t \in Scopes : Grown(cand[t], cand'[t])
BY StayGrown DEF IInv, CandsOK, Grown

LEMMA NoneGrown ==
    ASSUME IInv, UNCHANGED cand
    PROVE  CandsOK' /\ \A t \in Scopes : Grown(cand[t], cand'[t])
<1>1. CandsOK'
  BY DEF IInv, CandsOK
<1> QED
  BY <1>1, StayGrown

\* Spent keys stay spent.
LEMMA StillSpent ==
    ASSUME IInv, CandsOK', \A t \in Scopes : Grown(cand[t], cand'[t]),
           NEW s \in Scopes, NEW m \in Nat, Spent(s, m)
    PROVE  Spent(s, m)'
<1>1. cand[s].mv \in Nat /\ cand'[s].mv \in Nat
  BY DEF IInv, CandsOK, Candidate
<1> QED
  BY <1>1 DEF Spent, Grown

LEMMA ExpiriesKept ==
    ASSUME IInv, CandsOK', \A t \in Scopes : Grown(cand[t], cand'[t]),
           expiries' \subseteq expiries
    PROVE  ExpiriesOK'
BY StillSpent DEF IInv, ExpiriesOK

\* A run under way is at an item of its manifest.
LEMMA AtItem ==
    ASSUME NEW u \in RunType, RunOK(u), u.stage # "idle", u.next <= Len(u.plan.items)
    PROVE  /\ u.plan \in Manifests /\ u.next \in 1 .. Len(u.plan.items)
           /\ u.plan.items[u.next] \in Items
           /\ u.plan.items[u.next].scope \in Scopes
<1>1. u.plan \in Manifests /\ u.next \in Nat /\ u.next >= 1
  BY DEF RunOK, RunType
<1>2. u.plan.items \in Seq(Items)
  BY <1>1, IngestionAssumption DEF IngestionAssumption
<1>3. u.next \in 1 .. Len(u.plan.items)
  BY <1>1, <1>2
<1>4. u.plan.items[u.next] \in Items
  BY <1>2, <1>3
<1> QED
  BY <1>1, <1>3, <1>4 DEF Items

\* What the others know stays true.
LEMMA StillKnown ==
    ASSUME IInv, CandsOK', \A t \in Scopes : Grown(cand[t], cand'[t]), NEW q \in Runners
    PROVE  run[q].stage = "retiring" =>
               run[q].mv <= cand'[run[q].plan.items[run[q].next].scope].mv
<1> SUFFICES ASSUME run[q].stage = "retiring"
             PROVE  run[q].mv <= cand'[run[q].plan.items[run[q].next].scope].mv
  OBVIOUS
<1> DEFINE s == run[q].plan.items[run[q].next].scope
<1>1. run[q] \in RunType /\ RunOK(run[q]) /\ run[q].mv <= cand[s].mv
  BY DEF IInv, RunsOK, Known
<1>2. s \in Scopes
  BY <1>1, AtItem DEF RunOK
<1> HIDE DEF s
<1>3. run[q].mv \in Nat /\ cand[s].mv \in Nat /\ cand'[s].mv \in Nat
  BY <1>1, <1>2 DEF IInv, CandsOK, Candidate, RunType
<1>4. cand[s].mv <= cand'[s].mv
  BY <1>2 DEF Grown
<1> QED
  BY <1>1, <1>3, <1>4 DEF s

\* A run goes one step further.
LEMMA OneRun ==
    ASSUME IInv, CandsOK', \A t \in Scopes : Grown(cand[t], cand'[t]),
           NEW r \in Runners, NEW u \in RunType, RunOK(u),
           u.stage = "retiring" => u.mv <= cand'[u.plan.items[u.next].scope].mv,
           run' = [run EXCEPT ![r] = u]
    PROVE  RunsOK'
<1>1. run \in [Runners -> RunType] /\ run' \in [Runners -> RunType]
  BY DEF IInv, RunsOK
<1>2. ASSUME NEW q \in Runners
      PROVE  /\ RunOK(run'[q])
             /\ run'[q].stage = "retiring" =>
                    run'[q].mv <= cand'[run'[q].plan.items[run'[q].next].scope].mv
  <2>1. CASE q = r
    <3>1. run'[q] = u
      BY <1>1, <2>1
    <3> QED
      BY <3>1
  <2>2. CASE q # r
    <3>1. run'[q] = run[q]
      BY <1>1, <2>2
    <3>2. RunOK(run[q])
      BY DEF IInv, RunsOK
    <3> QED
      BY <3>1, <3>2, StillKnown
  <2> QED
    BY <2>1, <2>2
<1> QED
  BY <1>1, <1>2 DEF RunsOK, Known, RunOK

LEMMA NoRunStep ==
    ASSUME IInv, CandsOK', \A t \in Scopes : Grown(cand[t], cand'[t]), UNCHANGED run
    PROVE  RunsOK'
BY StillKnown DEF IInv, RunsOK, Known, RunOK

LEMMA NoRunOK == NoRun \in RunType /\ RunOK(NoRun) /\ NoRun.stage = "idle"
BY DEF NoRun, RunType, RunOK

\* The run goes on with the next item.
LEMMA AnsweredRun ==
    ASSUME IInv, CandsOK', \A t \in Scopes : Grown(cand[t], cand'[t]),
           NEW r \in Runners, run[r].stage # "idle",
           run[r].next <= Len(run[r].plan.items), NEW d, Answered(r, d)
    PROVE  RunsOK'
<1> DEFINE n == run[r].next + 1
           u == [run[r] EXCEPT !.stage = "item", !.next = n, !.seen = None, !.mv = 0]
<1>1. run[r] \in RunType /\ RunOK(run[r])
  BY DEF IInv, RunsOK
<1>2. run[r].plan \in Manifests /\ run[r].next \in 1 .. Len(run[r].plan.items)
  BY <1>1, AtItem
<1>3. n \in 1 .. Len(run[r].plan.items) + 1 /\ n \in Nat
  BY <1>2
<1>4. run' = [run EXCEPT ![r] = u]
  <2>1. run \in [Runners -> RunType]
        /\ DOMAIN run[r] = {"stage", "plan", "next", "seen", "mv"}
    BY <1>1 DEF IInv, RunsOK, RunType
  <2> QED
    BY <2>1 DEF Answered
<1> HIDE DEF n
<1>5. u \in RunType /\ u.stage = "item" /\ u.plan = run[r].plan /\ u.next = n
  BY <1>1, <1>3 DEF RunType
<1> HIDE DEF u
<1>6. RunOK(u)
  BY <1>2, <1>3, <1>5 DEF RunOK
<1> QED
  BY <1>4, <1>5, <1>6, OneRun

LEMMA AbortRun ==
    ASSUME IInv, CandsOK', \A t \in Scopes : Grown(cand[t], cand'[t]),
           NEW r \in Runners, run' = [run EXCEPT ![r] = NoRun]
    PROVE  RunsOK'
BY NoRunOK, OneRun

-----------------------------------------------------------------------------
(* The invariant is inductive.                                             *)

LEMMA InitInv == Init => IInv
<1> SUFFICES ASSUME Init PROVE IInv
  OBVIOUS
<1>1. Absent \in Candidate /\ Absent.status = "absent" /\ Absent.mv = 0
  BY DEF Absent, Candidate, Postures
<1>2. CandsOK
  BY <1>1 DEF Init, CandsOK
<1>3. ExpiriesOK
  BY DEF Init, ExpiriesOK
<1>4. RunsOK
  BY NoRunOK DEF Init, RunsOK, Known
<1>5. KeysOK /\ RestOK
  BY IngestionAssumption DEF Init, KeysOK, RestOK, IngestionAssumption
<1> QED
  BY <1>2, <1>3, <1>4, <1>5 DEF IInv

LEMMA BeginInv == ASSUME IInv, NEW r \in Runners, Begin(r) PROVE IInv'
<1> DEFINE u == [NoRun EXCEPT !.stage = "item", !.plan = manifest, !.next = 1]
<1>1. CandsOK' /\ \A t \in Scopes : Grown(cand[t], cand'[t])
  BY NoneGrown DEF Begin, store
<1>2. manifest \in Manifests /\ manifest.items \in Seq(Items)
  BY IngestionAssumption DEF IInv, RestOK, IngestionAssumption
<1>3. u \in RunType /\ u.stage = "item" /\ u.plan = manifest /\ u.next = 1
  BY <1>2 DEF NoRun, RunType
<1>4. run' = [run EXCEPT ![r] = u]
  BY DEF Begin
<1> HIDE DEF u
<1>5. RunOK(u)
  BY <1>2, <1>3 DEF RunOK
<1>6. RunsOK'
  BY <1>1, <1>3, <1>4, <1>5, OneRun
<1>7. ExpiriesOK'
  BY <1>1, ExpiriesKept DEF Begin, store
<1> QED
  BY <1>1, <1>6, <1>7 DEF Begin, store, IInv, KeysOK, RestOK

LEMMA FetchInv == ASSUME IInv, NEW r \in Runners, Fetch(r) PROVE IInv'
<1>1. CandsOK' /\ \A t \in Scopes : Grown(cand[t], cand'[t])
  BY NoneGrown DEF Fetch, store
<1>2. ExpiriesOK'
  BY <1>1, ExpiriesKept DEF Fetch, store
<1>3. run[r] \in RunType /\ RunOK(run[r]) /\ run[r].stage = "item"
      /\ run[r].next <= Len(run[r].plan.items)
  BY DEF IInv, RunsOK, Fetch
<1>4. /\ run[r].plan \in Manifests /\ run[r].next \in 1 .. Len(run[r].plan.items)
      /\ Item(r) \in Items
  BY <1>3, AtItem DEF Item
<1>5. PICK a \in Answers :
         LET at == run[r].plan.at IN
         \/ Answered(r, "blocked")
         \/ run' = [run EXCEPT ![r].stage = "ineligible"]
         \/ /\ ~Blocks(a, Item(r), at) /\ ~Raises(a, Item(r), at)
            /\ ValueOf[a.weight] >= Threshold
            /\ run' = [run EXCEPT ![r].stage = "eligible", ![r].seen =
                   [scope |-> Item(r).scope, date |-> Item(r).date, at |-> at,
                    material |-> a.weight, proof |-> a.proof]]
  BY DEF Fetch
<1>6. RunsOK'
  <2>1. CASE Answered(r, "blocked")
    BY <1>1, <1>3, <2>1, AnsweredRun
  <2>2. CASE run' = [run EXCEPT ![r].stage = "ineligible"]
    <3> DEFINE u == [run[r] EXCEPT !.stage = "ineligible"]
    <3>1. u \in RunType /\ u.stage = "ineligible" /\ u.plan = run[r].plan
          /\ u.next = run[r].next
      BY <1>3 DEF RunType
    <3>2. run' = [run EXCEPT ![r] = u]
      BY <2>2
    <3> HIDE DEF u
    <3>3. RunOK(u)
      BY <1>3, <1>4, <3>1 DEF RunOK
    <3> QED
      BY <1>1, <3>1, <3>2, <3>3, OneRun
  <2>3. CASE /\ ~Blocks(a, Item(r), run[r].plan.at)
             /\ ~Raises(a, Item(r), run[r].plan.at)
             /\ ValueOf[a.weight] >= Threshold
             /\ run' = [run EXCEPT ![r].stage = "eligible", ![r].seen =
                   [scope |-> Item(r).scope, date |-> Item(r).date,
                    at |-> run[r].plan.at, material |-> a.weight, proof |-> a.proof]]
    <3> DEFINE o == [scope |-> Item(r).scope, date |-> Item(r).date,
                     at |-> run[r].plan.at, material |-> a.weight, proof |-> a.proof]
               u == [run[r] EXCEPT !.stage = "eligible", !.seen = o]
    <3>1. a.weight \in Materials /\ a.proof \in Proofs
      <4>1. a.weight \in Weights /\ a.proof \in Proofs
        BY <2>3, IngestionAssumption DEF Blocks, Unserved, Raises, IngestionAssumption
      <4>2. ValueOf[a.weight] \in Threshold .. Whole
        BY <2>3, <4>1, IngestionAssumption DEF Raises, IngestionAssumption
      <4> QED
        BY <4>1, <4>2, IngestionAssumption DEF IngestionAssumption
    <3>2. o \in Observations
      BY <1>4, <3>1 DEF Observations, Items
    <3>3. run' = [run EXCEPT ![r] = u]
      <4>1. run \in [Runners -> RunType] /\ DOMAIN run[r] = {"stage", "plan", "next", "seen", "mv"}
        BY <1>3 DEF IInv, RunsOK, RunType
      <4> QED
        BY <2>3, <4>1
    <3> HIDE DEF o
    <3>4. u \in RunType /\ u.stage = "eligible" /\ u.plan = run[r].plan
          /\ u.next = run[r].next /\ u.seen = o
      BY <1>3, <3>2 DEF RunType
    <3> HIDE DEF u
    <3>5. RunOK(u)
      BY <1>3, <1>4, <3>2, <3>4 DEF RunOK
    <3> QED
      BY <1>1, <3>3, <3>4, <3>5, OneRun
  <2> QED
    BY <1>5, <2>1, <2>2, <2>3
<1> QED
  BY <1>1, <1>2, <1>6 DEF Fetch, store, IInv, KeysOK, RestOK

LEMMA LoadExpiryInv == ASSUME IInv, NEW r \in Runners, LoadExpiry(r) PROVE IInv'
<1> DEFINE s == Item(r).scope
<1>1. CandsOK' /\ \A t \in Scopes : Grown(cand[t], cand'[t])
  BY NoneGrown DEF LoadExpiry, store
<1>2. ExpiriesOK'
  BY <1>1, ExpiriesKept DEF LoadExpiry, store
<1>3. run[r] \in RunType /\ RunOK(run[r]) /\ run[r].stage = "ineligible"
      /\ run[r].next <= Len(run[r].plan.items)
  BY DEF IInv, RunsOK, LoadExpiry, RunOK
<1>4. /\ run[r].plan \in Manifests /\ run[r].next \in 1 .. Len(run[r].plan.items)
      /\ s \in Scopes
  BY <1>3, AtItem DEF Item
<1>5. RunsOK'
  <2>1. CASE Answered(r, "skipped_not_eligible")
    BY <1>1, <1>3, <2>1, AnsweredRun
  <2>2. CASE /\ Present(s)
             /\ run' = [run EXCEPT ![r].stage = "retiring", ![r].mv = cand[s].mv]
    <3> DEFINE m == cand[s].mv
               u == [run[r] EXCEPT !.stage = "retiring", !.mv = m]
    <3>1. m \in Nat \ {0}
      BY <1>4, <2>2 DEF Present, IInv, CandsOK, Candidate
    <3>2. run' = [run EXCEPT ![r] = u]
      <4>1. run \in [Runners -> RunType] /\ DOMAIN run[r] = {"stage", "plan", "next", "seen", "mv"}
        BY <1>3 DEF IInv, RunsOK, RunType
      <4> QED
        BY <2>2, <4>1
    <3> HIDE DEF m
    <3>3. u \in RunType /\ u.stage = "retiring" /\ u.plan = run[r].plan
          /\ u.next = run[r].next /\ u.mv = m
      BY <1>3, <3>1 DEF RunType
    <3> HIDE DEF u
    <3>4. RunOK(u)
      BY <1>3, <1>4, <3>1, <3>3 DEF RunOK
    <3>5. m <= cand'[u.plan.items[u.next].scope].mv
      <4>1. cand' = cand /\ u.plan.items[u.next].scope = s
        BY <3>3 DEF LoadExpiry, store, Item
      <4> QED
        BY <3>1, <4>1 DEF m
    <3> QED
      BY <1>1, <3>2, <3>3, <3>4, <3>5, OneRun
  <2> QED
    BY <2>1, <2>2 DEF LoadExpiry
<1> QED
  BY <1>1, <1>2, <1>5 DEF LoadExpiry, store, IInv, KeysOK, RestOK

\* A transition out of a live status, or between others, makes no candidate live.
LEMMA TransitionGrown ==
    ASSUME IInv, NEW s \in Scopes, cand[s].status # "absent", NEW to \in Statuses,
           to \in Converted \cup Terminal \/ Live(cand[s])
    PROVE  Grown(cand[s], Transitioned(cand[s], to))
<1> DEFINE c == cand[s]
           n == Transitioned(c, to)
<1>1. c \in Candidate /\ c.mv # 0
  BY DEF IInv, CandsOK
<1> HIDE DEF c
<1>2. n \in Candidate /\ n.status = to /\ n.mv = c.mv
  BY <1>1, TransitionedFacts
<1> HIDE DEF n
<1>3. to # "absent" /\ c.mv \in Nat
  BY <1>1 DEF Statuses, Discovery, Converted, Terminal, Candidate
<1>4. Live(n) => Live(c)
  BY <1>2, LiveStatus DEF c
<1>5. Grown(c, n)
  BY <1>1, <1>2, <1>3, <1>4 DEF Grown
<1> QED
  BY <1>5 DEF n, c

LEMMA RetireInv == ASSUME IInv, NEW r \in Runners, Retire(r) PROVE IInv'
<1> DEFINE s == Item(r).scope
           m == run[r].mv
<1>1. run[r] \in RunType /\ RunOK(run[r]) /\ run[r].stage = "retiring"
      /\ run[r].next <= Len(run[r].plan.items) /\ m \in Nat
  BY DEF IInv, RunsOK, Retire, RunOK, RunType
<1>2. s \in Scopes /\ m <= cand[s].mv
  BY <1>1, AtItem DEF Item, IInv, RunsOK, Known
<1>3. CASE /\ Retires(r)
           /\ cand' = [cand EXCEPT ![s] = Transitioned(cand[s], "expired")]
           /\ expiries' = expiries \cup {ExpiryKey(s, m)}
           /\ Answered(r, "skipped_not_eligible")
  <2> DEFINE n == Transitioned(cand[s], "expired")
  <2>1. cand[s] \in Candidate /\ cand[s].status # "absent" /\ Live(cand[s])
        /\ cand[s].mv \in Nat
    BY <1>2, <1>3 DEF Retires, Live, IInv, CandsOK, Candidate
  <2>2. "expired" \in Statuses /\ "expired" \in Converted \cup Terminal
    BY DEF Statuses, Terminal
  <2>3. Grown(cand[s], n)
    BY <1>2, <2>1, <2>2, TransitionGrown
  <2>4. CandsOK' /\ \A t \in Scopes : Grown(cand[t], cand'[t])
    <3> HIDE DEF n, s
    <3> QED
      BY <1>2, <1>3, <2>3, OneGrown DEF n
  <2>5. RunsOK'
    BY <1>1, <1>3, <2>4, AnsweredRun
  <2>6. m <= cand'[s].mv /\ ~Live(cand'[s])
    <3>1. n.status = "expired" /\ n.mv = cand[s].mv /\ ~Live(n)
      BY <2>1, <2>2, TransitionedFacts, LiveStatus
    <3> HIDE DEF n
    <3>2. cand'[s] = n
      BY <1>2, <1>3 DEF n, IInv, CandsOK
    <3> QED
      BY <1>2, <3>1, <3>2
  <2>7. ExpiriesOK'
    <3> HIDE DEF s, m
    <3>1. expiries' \subseteq Scopes \X Nat
      BY <1>1, <1>2, <1>3 DEF ExpiryKey, IInv, ExpiriesOK
    <3>2. ASSUME NEW t \in Scopes, NEW k \in Nat, <<t, k>> \in expiries'
          PROVE  Spent(t, k)'
      <4>1. CASE <<t, k>> \in expiries
        BY <2>4, <4>1, StillSpent DEF IInv, ExpiriesOK
      <4>2. CASE t = s /\ k = m
        <5>1. k <= cand'[t].mv /\ ~Live(cand'[t])
          BY <2>6, <4>2
        <5> QED
          BY <5>1 DEF Spent
      <4> QED
        BY <1>3, <3>2, <4>1, <4>2 DEF ExpiryKey
    <3> QED
      BY <3>1, <3>2 DEF ExpiriesOK
  <2> QED
    BY <2>4, <2>5, <2>7 DEF Retire, IInv, KeysOK, RestOK
<1>4. CASE UNCHANGED <<cand, expiries>> /\ (Answered(r, "skipped_not_eligible") \/ Abort(r))
  <2>1. CandsOK' /\ \A t \in Scopes : Grown(cand[t], cand'[t])
    BY <1>4, NoneGrown
  <2>2. RunsOK'
    <3>1. CASE Answered(r, "skipped_not_eligible")
      BY <1>1, <2>1, <3>1, AnsweredRun
    <3>2. CASE Abort(r)
      BY <2>1, <3>2, AbortRun DEF Abort
    <3> QED
      BY <1>4, <3>1, <3>2
  <2>3. ExpiriesOK'
    BY <1>4, <2>1, ExpiriesKept
  <2> QED
    BY <2>1, <2>2, <2>3 DEF Retire, IInv, KeysOK, RestOK
<1> QED
  BY <1>3, <1>4 DEF Retire

\* What Persist adopts is an observation, and the candidate grows by it.
LEMMA PersistAdopts ==
    ASSUME IInv, NEW r \in Runners, Persist(r)
    PROVE  /\ run[r] \in RunType /\ RunOK(run[r]) /\ run[r].stage = "eligible"
           /\ run[r].next <= Len(run[r].plan.items)
           /\ run[r].seen \in Observations /\ run[r].seen.scope \in Scopes
           /\ run[r].seen.material \in Materials /\ run[r].seen.proof \in Proofs
           /\ Grown(cand[run[r].seen.scope],
                    Reconciled(cand[run[r].seen.scope], run[r].seen))
<1> DEFINE o == run[r].seen
           c == cand[o.scope]
           n == Reconciled(c, o)
<1>1. run[r] \in RunType /\ RunOK(run[r]) /\ run[r].stage = "eligible"
      /\ run[r].next <= Len(run[r].plan.items) /\ o \in Observations
  BY DEF IInv, RunsOK, Persist, RunOK
<1> HIDE DEF o
<1>2. o.scope \in Scopes /\ o.material \in Materials /\ o.proof \in Proofs
  BY <1>1 DEF Observations
<1>3. c \in Candidate /\ (c.status = "absent" <=> c.mv = 0)
  BY <1>2 DEF IInv, CandsOK
<1> HIDE DEF c
<1>4. /\ n \in Candidate /\ n.status # "absent"
      /\ IF c.mv > 0 /\ c.material = o.material
         THEN n.mv = c.mv /\ (Live(n) <=> Live(c))
         ELSE n.mv = c.mv + 1 /\ Live(n)
  BY <1>2, <1>3, ReconciledFacts
<1> HIDE DEF n
<1>5. c.mv \in Nat /\ n.mv \in Nat
  BY <1>3, <1>4 DEF Candidate
<1>6. Grown(c, n)
  <2>1. CASE c.mv > 0 /\ c.material = o.material
    BY <1>4, <1>5, <2>1 DEF Grown
  <2>2. CASE ~(c.mv > 0 /\ c.material = o.material)
    <3>1. n.mv = c.mv + 1
      BY <1>4, <2>2
    <3> QED
      BY <1>4, <1>5, <3>1 DEF Grown
  <2> QED
    BY <2>1, <2>2
<1> QED
  BY <1>1, <1>2, <1>6 DEF n, c, o

LEMMA PersistInv == ASSUME IInv, NEW r \in Runners, Persist(r) PROVE IInv'
<1> DEFINE o == run[r].seen
           n == Reconciled(cand[o.scope], o)
           k == KeyOf(Item(r))
<1>1. /\ run[r].stage = "eligible" /\ run[r].next <= Len(run[r].plan.items)
      /\ o \in Observations /\ o.scope \in Scopes
      /\ Grown(cand[o.scope], n)
  BY PersistAdopts
<1>2. CASE UNCHANGED <<cand, keys>>
           /\ (Abort(r) \/ \E d \in {"replayed", "conflict"} : Answered(r, d))
  <2>1. CandsOK' /\ \A t \in Scopes : Grown(cand[t], cand'[t])
    BY <1>2, NoneGrown
  <2>2. RunsOK'
    <3>1. CASE Abort(r)
      BY <2>1, <3>1, AbortRun DEF Abort
    <3>2. ASSUME NEW d, Answered(r, d) PROVE RunsOK'
      BY <1>1, <2>1, <3>2, AnsweredRun
    <3> QED
      BY <1>2, <3>1, <3>2
  <2>3. ExpiriesOK'
    BY <2>1, ExpiriesKept DEF Persist
  <2> QED
    BY <1>2, <2>1, <2>2, <2>3 DEF Persist, IInv, KeysOK, RestOK
<1>3. CASE /\ cand' = [cand EXCEPT ![o.scope] = n]
           /\ keys' = [keys EXCEPT ![k] = o]
           /\ Answered(r, "adopted")
  <2>1. CandsOK' /\ \A t \in Scopes : Grown(cand[t], cand'[t])
    <3> HIDE DEF o, n
    <3> QED
      BY <1>1, <1>3, OneGrown
  <2>2. RunsOK'
    BY <1>1, <1>3, <2>1, AnsweredRun
  <2>3. ExpiriesOK'
    BY <2>1, ExpiriesKept DEF Persist
  <2>4. KeysOK'
    <3> HIDE DEF o, k
    <3> QED
      BY <1>1, <1>3 DEF IInv, KeysOK
  <2> QED
    BY <2>1, <2>2, <2>3, <2>4 DEF Persist, IInv, RestOK
<1>4. \/ Decision(o, k) \in {"replayed", "conflict"}
         /\ Answered(r, Decision(o, k)) /\ UNCHANGED <<cand, keys>>
      \/ Abort(r) /\ UNCHANGED <<cand, keys>>
      \/ /\ cand' = [cand EXCEPT ![o.scope] = n]
         /\ keys' = [keys EXCEPT ![k] = o]
         /\ Answered(r, "adopted")
  BY DEF Persist
<1> HIDE DEF o, n, k
<1> QED
  BY <1>2, <1>3, <1>4

LEMMA EndRunInv ==
    ASSUME IInv, NEW r \in Runners, Choke(r) \/ Report(r) \/ Crash(r) PROVE IInv'
<1>1. UNCHANGED store /\ UNCHANGED manifest /\ run' = [run EXCEPT ![r] = NoRun]
      /\ crashes' \in 0 .. MaxCrashes
  <2>1. crashes \in 0 .. MaxCrashes /\ MaxCrashes \in Nat
    BY IngestionAssumption DEF IInv, RestOK, IngestionAssumption
  <2> QED
    BY <2>1 DEF Choke, Abort, Report, Crash
<1>2. CandsOK' /\ \A t \in Scopes : Grown(cand[t], cand'[t])
  BY <1>1, NoneGrown DEF store
<1>3. RunsOK' /\ ExpiriesOK'
  BY <1>1, <1>2, AbortRun, ExpiriesKept DEF store
<1> QED
  BY <1>1, <1>2, <1>3 DEF store, IInv, KeysOK, RestOK

LEMMA ConfigureInv == ASSUME IInv, Configure PROVE IInv'
<1>1. CandsOK' /\ \A t \in Scopes : Grown(cand[t], cand'[t])
  BY NoneGrown DEF Configure, store
<1>2. RunsOK' /\ ExpiriesOK'
  BY <1>1, NoRunStep, ExpiriesKept DEF Configure, store
<1> QED
  BY <1>1, <1>2 DEF Configure, store, IInv, KeysOK, RestOK

\* Other operations end a candidate or leave it alive, and revive none.
LEMMA AheadFacts ==
    ASSUME NEW st \in Statuses, NEW to \in Ahead(st)
    PROVE  to \in Statuses /\ (to \in Converted \cup Terminal
                               \/ st \in Statuses \ (Converted \cup Terminal))
<1>1. Outcomes \subseteq Statuses
  BY IngestionAssumption DEF IngestionAssumption
<1>2. CASE st \in Converted \cup Terminal
  BY <1>1, <1>2 DEF Ahead, Onward, Statuses, Discovery, Converted, Terminal
<1> QED
  BY <1>1, <1>2 DEF Ahead

LEMMA MoveInv == ASSUME IInv, NEW s \in Scopes, Move(s) PROVE IInv'
<1>1. PICK to \in Ahead(cand[s].status) :
         cand' = [cand EXCEPT ![s] = Transitioned(cand[s], to)]
  BY DEF Move
<1>2. cand[s].status \in Statuses /\ cand[s].status # "absent"
  BY DEF Move, Present, IInv, CandsOK, Candidate
<1>3. to \in Statuses /\ (to \in Converted \cup Terminal \/ Live(cand[s]))
  BY <1>2, AheadFacts, LiveStatus
<1>4. Grown(cand[s], Transitioned(cand[s], to))
  BY <1>2, <1>3, TransitionGrown
<1>5. CandsOK' /\ \A t \in Scopes : Grown(cand[t], cand'[t])
  BY <1>1, <1>4, OneGrown
<1>6. RunsOK' /\ ExpiriesOK'
  BY <1>5, NoRunStep, ExpiriesKept DEF Move
<1> QED
  BY <1>5, <1>6 DEF Move, IInv, KeysOK, RestOK

LEMMA ErasureInv ==
    ASSUME IInv, NEW s \in Scopes, Erase(s) \/ Purge(s) PROVE IInv'
<1>1. CandsOK' /\ \A t \in Scopes : Grown(cand[t], cand'[t])
  BY NoneGrown DEF Erase, Purge
<1>2. expiries' \subseteq expiries /\ UNCHANGED run
  BY DEF Erase, Purge
<1>3. RunsOK' /\ ExpiriesOK'
  BY <1>1, <1>2, NoRunStep, ExpiriesKept
<1>4. KeysOK' /\ RestOK'
  BY DEF Erase, Purge, IInv, KeysOK, RestOK
<1> QED
  BY <1>1, <1>3, <1>4 DEF IInv

LEMMA NextInv == IInv /\ [Next]_vars => IInv'
<1> SUFFICES ASSUME IInv, [Next]_vars PROVE IInv'
  OBVIOUS
<1>1. CASE UNCHANGED vars
  <2>1. CandsOK' /\ \A t \in Scopes : Grown(cand[t], cand'[t])
    BY <1>1, NoneGrown DEF vars, store
  <2>2. RunsOK' /\ ExpiriesOK'
    BY <1>1, <2>1, NoRunStep, ExpiriesKept DEF vars, store
  <2> QED
    BY <1>1, <2>1, <2>2 DEF vars, store, IInv, KeysOK, RestOK
<1>2. ASSUME NEW r \in Runners, Begin(r) \/ Work(r) \/ Crash(r) PROVE IInv'
  BY <1>2, BeginInv, FetchInv, LoadExpiryInv, RetireInv, PersistInv, EndRunInv DEF Work
<1>3. ASSUME NEW s \in Touched, Move(s) \/ Erase(s) \/ Purge(s) PROVE IInv'
  <2>1. s \in Scopes
    BY IngestionAssumption DEF IngestionAssumption
  <2> QED
    BY <1>3, <2>1, MoveInv, ErasureInv
<1> QED
  BY <1>1, <1>2, <1>3, ConfigureInv DEF Next

LEMMA AlwaysInv == Spec => []IInv
BY InitInv, NextInv, PTL DEF Spec

\* Whatever runs overlap, candidates, keys and runs keep their types, and a
\* run under way has an item of a manifest.
THEOREM TypeCorrect == Spec => []TypeOK
BY AlwaysInv, InvTypeOK, PTL

\* The expiry key of a version that lives is free, though it is made of an
\* unlocked load and the transition is applied to what a locked one finds:
\* evidence that a position is no opportunity any more is never mistaken for
\* a replay while the candidate lives.
THEOREM RetirementStaysOpen == Spec => []LiveVersionsCanBeRetired
BY AlwaysInv, InvLive, PTL

-----------------------------------------------------------------------------
(* The runs implement EvidenceIntake.                                      *)

LEMMA InitIntake == Init => Intake!Init
<1> SUFFICES ASSUME Init PROVE Intake!Init
  OBVIOUS
<1>1. Live(Absent) = FALSE
  BY DEF Live, Absent
<1>2. Absent.mv = 0 /\ Absent.material = None /\ Absent.proof = None
  BY DEF Absent
<1>3. ASSUME NEW s \in Scopes PROVE cand[s] = Absent
  BY DEF Init
<1> QED
  BY <1>1, <1>2, <1>3 DEF Init, Intake!Init, Intake!Nothing

\* A step that leaves candidates, keys and erasures alone is a stutter.
LEMMA QuietStep ==
    ASSUME UNCHANGED <<cand, keys, erased>> PROVE UNCHANGED Intake!intake
BY DEF Intake!intake

\* A transition ends the candidate or shows nothing.
LEMMA EndStep ==
    ASSUME IInv, NEW s \in Scopes, cand[s].status # "absent", NEW to \in Statuses,
           to \in Converted \cup Terminal \/ Live(cand[s]),
           cand' = [cand EXCEPT ![s] = Transitioned(cand[s], to)],
           UNCHANGED <<keys, erased>>
    PROVE  Intake!End(s) \/ UNCHANGED Intake!intake
<1> DEFINE c == cand[s]
           n == Transitioned(c, to)
<1>1. c \in Candidate /\ cand \in [Scopes -> Candidate]
  BY DEF IInv, CandsOK
<1> HIDE DEF c
<1>2. /\ n.mv = c.mv /\ n.material = c.material /\ n.proof = c.proof
      /\ Live(n) => Live(c)
  <2>1. n \in Candidate /\ n.status = to /\ n.mv = c.mv /\ n.material = c.material
        /\ n.proof = c.proof
    BY <1>1, TransitionedFacts
  <2> HIDE DEF n
  <2>2. Live(n) => Live(c)
    BY <2>1, LiveStatus DEF c
  <2> QED
    BY <2>1, <2>2
<1>3. cand' = [cand EXCEPT ![s] = n]
  BY DEF c
<1> HIDE DEF n
<1>4. cand'[s] = n /\ \A t \in Scopes \ {s} : cand'[t] = cand[t]
  BY <1>1, <1>3
<1>5. Live(c) \in BOOLEAN /\ Live(n) \in BOOLEAN
  BY DEF Live
<1>6. CASE Live(c) <=> Live(n)
  BY <1>2, <1>4, <1>5, <1>6 DEF c, Intake!intake
<1>7. CASE Live(c) /\ ~Live(n)
  BY <1>2, <1>4, <1>5, <1>7 DEF c, Intake!End
<1> QED
  BY <1>2, <1>6, <1>7

LEMMA RetireIntake ==
    ASSUME IInv, NEW r \in Runners, Retire(r) PROVE [Intake!Next]_Intake!intake
<1> DEFINE s == Item(r).scope
<1>1. s \in Scopes
  BY AtItem DEF IInv, RunsOK, Retire, RunOK, Item
<1>2. CASE UNCHANGED cand
  BY <1>2, QuietStep DEF Retire
<1>3. CASE Retires(r) /\ cand' = [cand EXCEPT ![s] = Transitioned(cand[s], "expired")]
  <2>1. Live(cand[s]) /\ cand[s].status # "absent" /\ "expired" \in Statuses
        /\ UNCHANGED <<keys, erased>>
    BY <1>3 DEF Retires, Live, Statuses, Terminal, Retire
  <2> HIDE DEF s
  <2> QED
    BY <1>1, <1>3, <2>1, EndStep DEF Intake!Next
<1> QED
  BY <1>2, <1>3 DEF Retire

LEMMA MoveIntake ==
    ASSUME IInv, NEW s \in Scopes, Move(s) PROVE [Intake!Next]_Intake!intake
<1>1. PICK to \in Ahead(cand[s].status) :
         cand' = [cand EXCEPT ![s] = Transitioned(cand[s], to)]
  BY DEF Move
<1>2. cand[s].status \in Statuses /\ cand[s].status # "absent"
  BY DEF Move, Present, IInv, CandsOK, Candidate
<1>3. to \in Statuses /\ (to \in Converted \cup Terminal \/ Live(cand[s]))
  BY <1>2, AheadFacts, LiveStatus
<1> QED
  BY <1>1, <1>2, <1>3, EndStep DEF Move, Intake!Next

LEMMA PersistIntake ==
    ASSUME IInv, NEW r \in Runners, Persist(r) PROVE [Intake!Next]_Intake!intake
<1> DEFINE o == run[r].seen
           c == cand[o.scope]
           n == Reconciled(c, o)
<1>0. PICK k \in Keys : k = KeyOf(Item(r))
  <2>1. Item(r) \in Items
    BY PersistAdopts, AtItem DEF Item
  <2> QED
    BY <2>1, IngestionAssumption DEF KeyOf, Keys, Items, IngestionAssumption
<1>1. CASE UNCHANGED <<cand, keys>>
  BY <1>1, QuietStep DEF Persist
<1>2. CASE /\ Decision(o, k) = "adopted"
           /\ cand' = [cand EXCEPT ![o.scope] = n]
           /\ keys' = [keys EXCEPT ![k] = o]
  <2>1. /\ o \in Observations /\ o.scope \in Scopes
        /\ o.material \in Materials /\ o.proof \in Proofs
    BY PersistAdopts
  <2> HIDE DEF o
  <2>2. keys[k] = None /\ o.scope \notin erased /\ UNCHANGED erased
    BY <1>2 DEF Decision, Persist
  <2>3. c \in Candidate /\ (c.status = "absent" <=> c.mv = 0)
        /\ cand \in [Scopes -> Candidate]
    BY <2>1 DEF IInv, CandsOK
  <2> HIDE DEF c
  <2>4. /\ n.material = o.material /\ n.proof = o.proof
        /\ IF c.mv > 0 /\ c.material = o.material
           THEN n.mv = c.mv /\ (Live(n) <=> Live(c))
           ELSE n.mv = c.mv + 1 /\ Live(n)
    BY <2>1, <2>3, ReconciledFacts
  <2>5. cand'[o.scope] = n /\ \A t \in Scopes \ {o.scope} : cand'[t] = cand[t]
    <3> HIDE DEF n
    <3> QED
      BY <1>2, <2>1, <2>3
  <2> HIDE DEF n
  <2>6. keys'[k] = o
    BY <1>2 DEF IInv, KeysOK
  <2>7. Live(c) \in BOOLEAN /\ Live(n) \in BOOLEAN
    BY DEF Live
  <2>8. [version |-> n.mv, material |-> n.material, proof |-> n.proof, live |-> Live(n)]
        = Intake!Showing([version |-> c.mv, material |-> c.material,
                          proof |-> c.proof, live |-> Live(c)], o)
    <3>1. CASE c.mv > 0 /\ c.material = o.material
      <4>1. n.mv = c.mv /\ n.material = o.material /\ n.proof = o.proof
            /\ n.material = c.material /\ Live(n) = Live(c)
        BY <2>4, <2>7, <3>1
      <4> QED
        BY <3>1, <4>1 DEF Intake!Showing
    <3>2. CASE ~(c.mv > 0 /\ c.material = o.material)
      <4>1. n.mv = c.mv + 1 /\ n.material = o.material /\ n.proof = o.proof
            /\ Live(n) = TRUE
        BY <2>4, <2>7, <3>2
      <4> QED
        BY <3>2, <4>1 DEF Intake!Showing
    <3> QED
      BY <3>1, <3>2
  <2>9. Intake!Adopt(k)
    BY <1>2, <2>1, <2>2, <2>5, <2>6, <2>8 DEF Intake!Adopt, c
  <2> QED
    BY <2>9 DEF Intake!Next
<1> QED
  BY <1>0, <1>1, <1>2 DEF Persist

LEMMA NextIntake == IInv /\ [Next]_vars => [Intake!Next]_Intake!intake
<1> SUFFICES ASSUME IInv, [Next]_vars PROVE [Intake!Next]_Intake!intake
  OBVIOUS
<1>1. CASE UNCHANGED vars \/ Configure
  BY <1>1, QuietStep DEF vars, store, Configure
<1>2. ASSUME NEW r \in Runners,
             Begin(r) \/ Fetch(r) \/ Choke(r) \/ LoadExpiry(r) \/ Report(r) \/ Crash(r)
      PROVE  UNCHANGED Intake!intake
  BY <1>2, QuietStep DEF Begin, Fetch, Choke, LoadExpiry, Report, Crash, store
<1>3. ASSUME NEW s \in Touched, Erase(s) \/ Purge(s)
      PROVE  [Intake!Next]_Intake!intake
  <2>1. s \in Scopes
    BY IngestionAssumption DEF IngestionAssumption
  <2>2. CASE Erase(s)
    BY <2>1, <2>2 DEF Erase, Intake!Next, Intake!Erase
  <2>3. CASE Purge(s)
    BY <2>1, <2>3 DEF Purge, Intake!Next, Intake!Forget
  <2> QED
    BY <1>3, <2>2, <2>3
<1>4. ASSUME NEW s \in Touched, Move(s) PROVE [Intake!Next]_Intake!intake
  BY <1>4, MoveIntake, IngestionAssumption DEF IngestionAssumption
<1> QED
  BY <1>1, <1>2, <1>3, <1>4, RetireIntake, PersistIntake DEF Next, Work

\* A key adopts one observation, a candidate shows the last adopted for it and
\* lives again only with materially new facts, an erased one adopts nothing:
\* each step of the runs and of the operations around them is a step of
\* EvidenceIntake or leaves it alone.
THEOREM IntakeImplemented == Spec => ImplementsIntake
BY AlwaysInv, InitIntake, NextIntake, PTL DEF Spec, ImplementsIntake, Intake!Spec
-----------------------------------------------------------------------------
(* What the intake gives the reader of a candidate.                        *)

\* A key on record belongs to a candidate there is.
KeysNameCandidates ==
    \A k \in Keys : keys[k] # None => cand[keys[k].scope].mv > 0

\* An ended candidate lives again with a new version only, and an erased one
\* shows nothing that came later.
Kept(s) ==
    /\ ~Live(cand[s]) /\ Live(cand'[s]) => cand'[s].mv > cand[s].mv
    /\ s \in erased =>
         /\ s \in erased'
         /\ cand'[s].mv = cand[s].mv /\ cand'[s].material = cand[s].material
         /\ cand'[s].proof = cand[s].proof
         /\ Live(cand'[s]) => Live(cand[s])

EndedAndErasedStand == [][\A s \in Scopes : Kept(s)]_vars
\* What one step of the intake does to a candidate.
LEMMA IntakeKeeps ==
    ASSUME TypeOK, TypeOK', Intake!Next, NEW s \in Scopes
    PROVE  Kept(s) /\ cand'[s].mv >= cand[s].mv
<1> DEFINE shown == [t \in Scopes |->
                 [version |-> cand[t].mv, material |-> cand[t].material,
                  proof |-> cand[t].proof, live |-> Live(cand[t])]]
           was == shown[s]
           is == shown'[s]
           Same == /\ is.version = was.version /\ is.material = was.material
                   /\ is.proof = was.proof
                   /\ is.live => was.live
<1>0. was = [version |-> was.version, material |-> was.material,
             proof |-> was.proof, live |-> was.live]
  OBVIOUS
<1>1. /\ was.version = cand[s].mv /\ was.material = cand[s].material
      /\ was.proof = cand[s].proof /\ was.live = Live(cand[s])
      /\ is.version = cand'[s].mv /\ is.material = cand'[s].material
      /\ is.proof = cand'[s].proof /\ is.live = Live(cand'[s])
      /\ was.version \in Nat
  BY DEF TypeOK, Candidate
<1>2. /\ is.version >= was.version
      /\ ~was.live /\ is.live => is.version > was.version
      /\ s \in erased => s \in erased' /\ Same
  <2>1. CASE \E k \in Keys : Intake!Adopt(k)
    <3>1. PICK k \in Keys : Intake!Adopt(k)
      BY <2>1
    <3> DEFINE o == keys'[k]
    <3>2. /\ o.scope \notin erased /\ erased' = erased
          /\ shown' = [shown EXCEPT ![o.scope] = Intake!Showing(shown[o.scope], o)]
      BY <3>1 DEF Intake!Adopt
    <3> HIDE DEF o, shown
    <3>3. CASE o.scope # s
      <4>1. is = was
        BY <3>2, <3>3
      <4> QED
        BY <1>1, <3>2, <4>1
    <3>4. CASE o.scope = s
      <4>1. is = Intake!Showing(was, o)
        BY <3>2, <3>4 DEF shown
      <4> HIDE DEF was, is
      <4>2. \/ is.version = was.version /\ is.live = was.live
            \/ is.version = was.version + 1
        BY <1>0, <4>1 DEF Intake!Showing
      <4> QED
        BY <1>1, <3>2, <3>4, <4>2
    <3> QED
      BY <3>3, <3>4
  <2>2. CASE \E t \in Scopes : Intake!End(t)
    <3>1. PICK t \in Scopes : Intake!End(t)
      BY <2>2
    <3>2. /\ erased' = erased
          /\ shown' = [shown EXCEPT ![t].live = FALSE]
      BY <3>1 DEF Intake!End
    <3>3. s \in DOMAIN shown
      OBVIOUS
    <3>4. is.version = was.version /\ is.material = was.material /\ is.proof = was.proof
          /\ (is.live => was.live)
      <4>1. is = was \/ is = [was EXCEPT !.live = FALSE]
        <5> HIDE DEF shown
        <5> QED
          BY <3>2, <3>3
      <4> HIDE DEF was, is
      <4> QED
        BY <1>0, <4>1
    <3> QED
      BY <1>1, <3>2, <3>4
  <2>3. CASE \E t \in Scopes : Intake!Erase(t) \/ Intake!Forget(t)
    <3>1. shown' = shown /\ erased \subseteq erased'
      BY <2>3 DEF Intake!Erase, Intake!Forget
    <3> QED
      BY <1>1, <3>1
  <2> QED
    BY <2>1, <2>2, <2>3 DEF Intake!Next
<1> HIDE DEF was, is
<1>3. /\ was.version = cand[s].mv /\ is.version = cand'[s].mv
      /\ was.material = cand[s].material /\ is.material = cand'[s].material
      /\ was.proof = cand[s].proof /\ is.proof = cand'[s].proof
  BY <1>1, Zenon
<1>4. /\ ~Live(cand[s]) /\ Live(cand'[s]) => ~was.live /\ is.live
      /\ (is.live => was.live) => (Live(cand'[s]) => Live(cand[s]))
  BY <1>1, Zenon
<1>5. cand'[s].mv >= cand[s].mv
  BY <1>2, <1>3
<1>6. ~Live(cand[s]) /\ Live(cand'[s]) => cand'[s].mv > cand[s].mv
  BY <1>2, <1>3, <1>4
<1>7. s \in erased =>
        /\ s \in erased'
        /\ cand'[s].mv = cand[s].mv /\ cand'[s].material = cand[s].material
        /\ cand'[s].proof = cand[s].proof
        /\ Live(cand'[s]) => Live(cand[s])
  BY <1>2, <1>3, <1>4
<1> QED
  BY <1>5, <1>6, <1>7 DEF Kept

\* Whatever runs and operations overlap, an ended candidate is not revived by
\* the facts it ended with, and no late run writes into an erased one
\* (reconcile_candidate; persist_candidate under the candidate's lock).  From
\* the intake.
THEOREM EndsAndErasuresStand == Spec => EndedAndErasedStand
<1>1. TypeOK /\ TypeOK' /\ [Intake!Next]_Intake!intake => [\A s \in Scopes : Kept(s)]_vars
  <2>1. ASSUME TypeOK, TypeOK', UNCHANGED Intake!intake, NEW s \in Scopes PROVE Kept(s)
    BY <2>1 DEF Intake!intake, Kept, TypeOK
  <2> QED
    BY <2>1, IntakeKeeps
<1> QED
  BY <1>1, TypeCorrect, IntakeImplemented, PTL
     DEF ImplementsIntake, Intake!Spec, EndedAndErasedStand

\* A key on record names a candidate that is there, whoever dies half way: key
\* and candidate are written in one transaction (persist_candidate).
THEOREM KeysHaveCandidates == Spec => []KeysNameCandidates
<1>1. TypeOK /\ Intake!Init => KeysNameCandidates
  BY DEF Intake!Init, KeysNameCandidates
<1>2. TypeOK /\ TypeOK' /\ KeysNameCandidates /\ [Intake!Next]_Intake!intake => KeysNameCandidates'
  <2> SUFFICES ASSUME TypeOK, TypeOK', KeysNameCandidates, [Intake!Next]_Intake!intake,
                      NEW k \in Keys, keys'[k] # None
               PROVE  cand'[keys'[k].scope].mv > 0
    BY DEF KeysNameCandidates
  <2>1. keys'[k] \in Observations /\ keys'[k].scope \in Scopes
    BY DEF TypeOK, Observations
  <2>2. ASSUME NEW s \in Scopes PROVE cand[s].mv \in Nat /\ cand'[s].mv \in Nat
    BY DEF TypeOK, Candidate
  <2>3. CASE Intake!Next /\ keys'[k] = keys[k]
    <3>1. cand[keys'[k].scope].mv > 0
      BY <2>3 DEF KeysNameCandidates
    <3> QED
      BY <2>1, <2>2, <2>3, <3>1, IntakeKeeps
  <2>4. CASE Intake!Next /\ keys'[k] # keys[k]
    <3> DEFINE shown == [t \in Scopes |->
                 [version |-> cand[t].mv, material |-> cand[t].material,
                  proof |-> cand[t].proof, live |-> Live(cand[t])]]
               o == keys'[k]
    <3>1. Intake!Adopt(k)
      <4>1. ASSUME NEW j \in Keys, Intake!Adopt(j) PROVE j = k
        BY <2>4, <4>1 DEF Intake!Adopt, TypeOK
      <4>2. ASSUME NEW t \in Scopes, Intake!Forget(t) PROVE FALSE
        BY <2>4, <4>2 DEF Intake!Forget, TypeOK
      <4>3. ASSUME NEW t \in Scopes, Intake!End(t) \/ Intake!Erase(t) PROVE FALSE
        BY <2>4, <4>3 DEF Intake!End, Intake!Erase
      <4> QED
        BY <2>4, <4>1, <4>2, <4>3 DEF Intake!Next
    <3>2. shown' = [shown EXCEPT ![o.scope] = Intake!Showing(shown[o.scope], o)]
      BY <3>1 DEF Intake!Adopt
    <3>3. shown'[o.scope].version = cand'[o.scope].mv
          /\ shown[o.scope].version = cand[o.scope].mv
      BY <2>1
    <3> HIDE DEF shown
    <3>4. shown'[o.scope] = Intake!Showing(shown[o.scope], o)
      BY <2>1, <3>2 DEF shown
    <3>5. \/ shown[o.scope].version > 0 /\ shown'[o.scope].version = shown[o.scope].version
          \/ shown'[o.scope].version = shown[o.scope].version + 1
      BY <2>1, <3>4 DEF Intake!Showing, shown
    <3> QED
      BY <2>1, <2>2, <3>3, <3>5
  <2>5. CASE UNCHANGED Intake!intake
    <3>1. keys' = keys /\ cand'[keys'[k].scope].mv = cand[keys'[k].scope].mv
      BY <2>1, <2>5 DEF Intake!intake
    <3> QED
      BY <3>1 DEF KeysNameCandidates
  <2> QED
    BY <2>3, <2>4, <2>5
<1> QED
  BY <1>1, <1>2, TypeCorrect, IntakeImplemented, PTL DEF ImplementsIntake, Intake!Spec
=============================================================================
