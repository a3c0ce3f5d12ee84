------------------------- MODULE ReviewQueue_proofs -------------------------
(***************************************************************************)
(* What holds of the review queue for any number of candidates, reviewers  *)
(* and writes, and any rows.                                               *)
(***************************************************************************)
EXTENDS ReviewQueue, FiniteSetTheorems, FunctionTheorems, SequenceTheorems, TLAPS

\* Rows and counts are of their types, as far as the proofs need it.
RowsOK ==
    /\ record \in [Ids -> Contents \cup {None}]
    /\ writes \in [Ids -> Nat]

LEMMA RowsInit == Init => RowsOK
  BY Assumptions DEF Assumptions, Init, RowsOK

LEMMA RowsNext == RowsOK /\ [Next]_vars => RowsOK'
<1> SUFFICES ASSUME RowsOK, [Next]_vars PROVE RowsOK'
  OBVIOUS
<1>1. ASSUME NEW c \in Ids, NEW r \in Contents, Write(c, r) PROVE RowsOK'
  <2>1. record' \in [Ids -> Contents \cup {None}]
    BY <1>1 DEF RowsOK, Write
  <2>2. writes[c] + 1 \in Nat
    BY DEF RowsOK
  <2>3. writes' \in [Ids -> Nat]
    BY <1>1, <2>2 DEF RowsOK, Write
  <2> QED
    BY <2>1, <2>3 DEF RowsOK
<1>4. ASSUME NEW c \in Ids, Erase(c) PROVE RowsOK'
  <2>1. record' \in [Ids -> Contents \cup {None}]
    BY <1>4 DEF RowsOK, Erase
  <2>2. writes[c] + 1 \in Nat
    BY DEF RowsOK
  <2>3. writes' \in [Ids -> Nat]
    BY <1>4, <2>2 DEF RowsOK, Erase
  <2> QED
    BY <2>1, <2>3 DEF RowsOK
<1>2. ASSUME UNCHANGED <<record, writes>> PROVE RowsOK'
  BY <1>2 DEF RowsOK
<1>3. ASSUME NEW w \in Walks, \/ \E at \in Times : Ask(w, at)
                              \/ Count(w) \/ Read(w) \/ Verify(w)
      PROVE  UNCHANGED <<record, writes>>
  BY <1>3 DEF Ask, Count, Read, Verify
<1> QED
  BY <1>1, <1>2, <1>3, <1>4 DEF Next, vars

LEMMA RowsAlways == Spec => []RowsOK
  BY RowsInit, RowsNext, PTL DEF Spec

-----------------------------------------------------------------------------
(* The three copies of the rules.                                          *)

LEMMA RulesOfARow ==
    ASSUME NEW r \in Row, NEW at \in Times, Visible(r, at), NEW asleep \in BOOLEAN,
           asleep = Asleep(r, at)
    PROVE  /\ Admitted(r, at) = (Exclusion(r, at, asleep) = "none")
           /\ Exclusion(r, at, asleep) \in {Classified(r, at), "unscored"}
           /\ Admitted(r, at) => Exclusion(r, at, FALSE) = "none"
<1>1. at \in Int /\ r.expires \in Int
  <2>1. r.expires \in Times \cup {Never}
    BY DEF Row
  <2>2. Times \subseteq Int /\ Never \in Int
    BY Assumptions DEF Assumptions
  <2> QED
    BY <2>1, <2>2
<1>2. None # "duplicate" /\ None # "rankable" /\ (Filter # {} /\ r.scope \in Filter => r.scope # None)
  BY Assumptions DEF Assumptions
<1>3. r.status \in Ended => r.status # "none" /\ r.status \notin Open
  BY DEF Ended, Open
<1>4. Admitted(r, at) \in BOOLEAN
  BY DEF Admitted
<1>5. ASSUME Admitted(r, at)
      PROVE  asleep = FALSE /\ Exclusion(r, at, FALSE) = "none"
  <2>1. asleep = FALSE
    BY <1>5 DEF Admitted
  <2>2. ~(at >= r.expires) /\ ~(Filter # {} /\ (r.scope = None \/ r.scope \notin Filter))
    BY <1>1, <1>2, <1>5 DEF Admitted
  <2>3. /\ r.suppression = None /\ r.posture # "suppressed" /\ r.status \notin Ended
        /\ r.evidence # "blocked" /\ r.policy = "rankable" /\ r.status \in Open
        /\ r.posture \in Allowed(r.status)
    BY <1>3, <1>5 DEF Admitted
  <2> QED
    BY <1>2, <2>1, <2>2, <2>3 DEF Exclusion
<1>6. ASSUME asleep = FALSE, Exclusion(r, at, FALSE) = "none"
      PROVE  Admitted(r, at)
  BY <1>1, <1>2, <1>3, <1>6 DEF Admitted, Exclusion
<1>7. asleep = TRUE => Exclusion(r, at, asleep) # "none"
  BY DEF Exclusion
<1>8. Exclusion(r, at, asleep) \in {Classified(r, at), "unscored"}
  <2>1. CASE asleep = TRUE
    BY <1>1, <1>2, <2>1 DEF Exclusion, Classified
  <2>2. CASE asleep = FALSE
    BY <1>1, <1>2, <2>2 DEF Exclusion, Classified
  <2> QED
    BY <2>1, <2>2
<1> QED
  BY <1>4, <1>5, <1>6, <1>7, <1>8

\* The WHERE of the page, the CASE of the readiness summary and the policy of
\* the domain agree on every row a candidate may have, at every instant.
THEOREM TheRulesAgree == Spec => []RulesAgree
<1>1. RowsOK => RulesAgree
  <2> SUFFICES ASSUME RowsOK, NEW c \in Ids, NEW at \in Times,
                      record[c] # None, Visible(record[c], at)
               PROVE  LET reason == Exclusion(record[c], at, Asleep(record[c], at))
                      IN  /\ Admitted(record[c], at) = (reason = "none")
                          /\ reason = Classified(record[c], at) \/ reason = "unscored"
                          /\ Admitted(record[c], at) => Exclusion(record[c], at, FALSE) = "none"
    BY DEF RulesAgree
  <2>1. record[c] \in Row
    BY Assumptions DEF Assumptions, RowsOK
  <2>2. Asleep(record[c], at) \in BOOLEAN
    BY DEF Asleep
  <2> QED
    BY <2>1, <2>2, RulesOfARow
<1> QED
  BY <1>1, RowsAlways, PTL

-----------------------------------------------------------------------------
(* The order of the queue.                                                 *)

\* Candidates that can be compared.
Comparable(seen, ids) ==
    /\ ids \subseteq Int /\ IsFiniteSet(ids)
    /\ \A c \in ids : seen[c].row.score \in Int /\ seen[c].row.created \in Int

\* Score, creation and id order any candidates totally: no two are a tie.
LEMMA BeforeIsTotal ==
    ASSUME NEW seen, NEW ids, Comparable(seen, ids)
    PROVE  /\ \A c \in ids : ~Before(seen, c, c)
           /\ \A c, d \in ids : c # d => Before(seen, c, d) \/ Before(seen, d, c)
           /\ \A c, d \in ids : Before(seen, c, d) => ~Before(seen, d, c)
           /\ \A c, d, e \in ids : Before(seen, c, d) /\ Before(seen, d, e) => Before(seen, c, e)
  BY DEF Comparable, Before

LEMMA RankBounds ==
    ASSUME NEW seen, NEW ids, Comparable(seen, ids)
    PROVE  /\ Cardinality(ids) \in Nat
           /\ \A c \in ids : Rank(seen, ids, c) \in 1..Cardinality(ids)
           /\ \A c, d \in ids : Before(seen, c, d) => Rank(seen, ids, c) < Rank(seen, ids, d)
<1> DEFINE ahead(c) == {d \in ids : Before(seen, d, c)}
<1>1. IsFiniteSet(ids) /\ Cardinality(ids) \in Nat
  BY FS_CardinalityType DEF Comparable
<1>2. ASSUME NEW c \in ids
      PROVE  /\ IsFiniteSet(ahead(c)) /\ Cardinality(ahead(c)) \in Nat
             /\ Cardinality(ahead(c)) < Cardinality(ids)
  <2>1. ahead(c) \in SUBSET ids /\ ahead(c) # ids
    BY BeforeIsTotal
  <2> HIDE DEF ahead
  <2> QED
    BY <1>1, <2>1, FS_Subset, FS_CardinalityType
<1>3. ASSUME NEW c \in ids, NEW d \in ids, Before(seen, c, d)
      PROVE  Cardinality(ahead(c)) < Cardinality(ahead(d))
  <2>1. ahead(c) \in SUBSET ahead(d) /\ c \in ahead(d) /\ c \notin ahead(c)
    BY <1>3, BeforeIsTotal
  <2>2. IsFiniteSet(ahead(d)) /\ Cardinality(ahead(d)) \in Nat /\ Cardinality(ahead(c)) \in Nat
    BY <1>2
  <2> HIDE DEF ahead
  <2> QED
    BY <2>1, <2>2, FS_Subset
<1>4. \A c \in ids : Rank(seen, ids, c) = 1 + Cardinality(ahead(c))
  BY DEF Rank
<1> HIDE DEF ahead
<1>5. \A c \in ids : Rank(seen, ids, c) \in 1..Cardinality(ids)
  BY <1>1, <1>2, <1>4
<1>6. \A c, d \in ids : Before(seen, c, d) => Rank(seen, ids, c) < Rank(seen, ids, d)
  BY <1>2, <1>3, <1>4
<1> QED
  BY <1>1, <1>5, <1>6

\* Every place is taken, by one candidate.
LEMMA RankIsBijection ==
    ASSUME NEW seen, NEW ids, Comparable(seen, ids)
    PROVE  /\ \A c, d \in ids : Rank(seen, ids, c) = Rank(seen, ids, d) => c = d
           /\ \A n \in 1..Cardinality(ids) : \E c \in ids : Rank(seen, ids, c) = n
<1> DEFINE N == Cardinality(ids)
           rank == [c \in ids |-> Rank(seen, ids, c)]
<1>1. N \in Nat /\ IsFiniteSet(1..N) /\ Cardinality(1..N) = N
  BY RankBounds, FS_Interval
<1>2. \A c, d \in ids : Rank(seen, ids, c) = Rank(seen, ids, d) => c = d
  <2> SUFFICES ASSUME NEW c \in ids, NEW d \in ids, c # d
               PROVE  Rank(seen, ids, c) # Rank(seen, ids, d)
    OBVIOUS
  <2>1. Before(seen, c, d) \/ Before(seen, d, c)
    BY BeforeIsTotal
  <2>2. Rank(seen, ids, c) \in Int /\ Rank(seen, ids, d) \in Int
    BY RankBounds
  <2> QED
    BY <2>1, <2>2, RankBounds
<1>3. rank \in [ids -> 1..N]
  BY RankBounds
<1>4. \A c, d \in ids : rank[c] = rank[d] => c = d
  BY <1>2
<1> HIDE DEF rank, N
<1>5. rank \in Injection(ids, 1..N)
  BY <1>3, <1>4, Fun_IsInj
<1>6. rank \in Surjection(ids, 1..N)
  BY <1>1, <1>5, FS_Injection DEF N
<1>7. \A n \in 1..N : \E c \in ids : rank[c] = n
  BY <1>6, Fun_SurjectionProperties
<1> QED
  BY <1>2, <1>7 DEF rank, N

\* Ranking makes a sequence of the candidates, in their order, each once.
LEMMA RankedFacts ==
    ASSUME NEW seen, NEW ids, Comparable(seen, ids)
    PROVE  LET q == Ranked(seen, ids) IN
           /\ Cardinality(ids) \in Nat
           /\ q \in Seq(ids) /\ Len(q) = Cardinality(ids)
           /\ \A n \in 1..Len(q) : q[n] \in ids /\ Rank(seen, ids, q[n]) = n
           /\ \A c \in ids : Rank(seen, ids, c) \in 1..Len(q) /\ q[Rank(seen, ids, c)] = c
           /\ \A m, n \in 1..Len(q) : Before(seen, q[m], q[n]) <=> m < n
<1> DEFINE N == Cardinality(ids)
           q == Ranked(seen, ids)
<1>1. N \in Nat
  BY RankBounds
<1>2. \A n \in 1..N : q[n] \in ids /\ Rank(seen, ids, q[n]) = n
  BY RankIsBijection DEF Ranked
<1>3. q = [n \in 1..N |-> q[n]]
  BY DEF Ranked
<1> HIDE DEF q
<1>4. q \in Seq(ids) /\ Len(q) = N
  BY <1>1, <1>2, <1>3
<1>5. \A c \in ids : Rank(seen, ids, c) \in 1..N /\ q[Rank(seen, ids, c)] = c
  BY <1>2, RankBounds, RankIsBijection
<1>6. ASSUME NEW m \in 1..N, NEW n \in 1..N
      PROVE  Before(seen, q[m], q[n]) <=> m < n
  <2>1. /\ q[m] \in ids /\ Rank(seen, ids, q[m]) = m
        /\ q[n] \in ids /\ Rank(seen, ids, q[n]) = n
    BY <1>2
  <2>2. CASE q[m] = q[n]
    BY <2>1, <2>2, BeforeIsTotal
  <2>3. CASE Before(seen, q[m], q[n])
    BY <2>1, <2>3, RankBounds
  <2>4. CASE Before(seen, q[n], q[m])
    <3>1. n < m
      BY <2>1, <2>4, RankBounds
    <3> QED
      BY <2>1, <2>4, <3>1, BeforeIsTotal
  <2> QED
    BY <2>1, <2>2, <2>3, <2>4, BeforeIsTotal
<1> QED
  BY <1>1, <1>2, <1>4, <1>5, <1>6 DEF q

\* The candidates in the places after a up to b.
Slice(q, a, b) == {q[n] : n \in (a + 1)..b}

\* As many candidates as places.
LEMMA SliceSize ==
    ASSUME NEW S, NEW q \in Seq(S), NEW a \in Nat, NEW b \in Nat, a <= b, b <= Len(q),
           \A m, n \in 1..Len(q) : q[m] = q[n] => m = n
    PROVE  IsFiniteSet(Slice(q, a, b)) /\ Cardinality(Slice(q, a, b)) = b - a
<1> DEFINE D == (a + 1)..b
           T == Slice(q, a, b)
           f == [n \in D |-> q[n]]
<1>1. IsFiniteSet(D) /\ Cardinality(D) = b - a
  <2>1. \A c \in Int : IsFiniteSet(c..b) /\ Cardinality(c..b) = IF c > b THEN 0 ELSE b - c + 1
    BY FS_Interval
  <2> QED
    BY <2>1
<1>2. D \subseteq 1..Len(q)
  OBVIOUS
<1>3. f \in [D -> T]
  BY DEF Slice
<1>6. \A m, n \in D : f[m] = f[n] => m = n
  BY <1>2
<1>7. \A t \in T : \E n \in D : f[n] = t
  BY DEF Slice
<1> HIDE DEF D, T, f
<1>4. f \in Bijection(D, T)
  BY <1>3, <1>6, <1>7, Fun_IsBij
<1>5. ExistsBijection(D, T)
  BY <1>4, Fun_ExistsBij
<1> QED
  BY <1>1, <1>5, FS_Bijection DEF D, T

\* The candidates of a part of a queue, ranked anew, are that part.
LEMMA RankedAnew ==
    ASSUME NEW seen, NEW ids, Comparable(seen, ids),
           NEW a \in Nat, NEW b \in Nat, a <= b, b <= Len(Ranked(seen, ids))
    PROVE  LET q == Ranked(seen, ids)
           IN  Ranked(seen, Slice(q, a, b)) = SubSeq(q, a + 1, b)
<1> DEFINE q == Ranked(seen, ids)
           S == Slice(q, a, b)
<1>1. /\ q \in Seq(ids) /\ Len(q) \in Nat /\ b <= Len(q)
      /\ \A n \in 1..Len(q) : q[n] \in ids
      /\ \A m, n \in 1..Len(q) : Before(seen, q[m], q[n]) <=> m < n
      /\ \A m, n \in 1..Len(q) : q[m] = q[n] => m = n
  BY RankedFacts
<1> HIDE DEF q
<1>2. IsFiniteSet(S) /\ Cardinality(S) = b - a
  BY <1>1, SliceSize
<1>3. ASSUME NEW k \in 1..(b - a)
      PROVE  q[a + k] \in S /\ Rank(seen, S, q[a + k]) = k
  <2>1. a + k \in (a + 1)..b /\ a + k \in 1..Len(q)
    BY <1>1
  <2>2. {d \in S : Before(seen, d, q[a + k])} = Slice(q, a, a + k - 1)
    <3>1. \A n \in (a + 1)..b : n \in 1..Len(q) /\ (Before(seen, q[n], q[a + k]) <=> n < a + k)
      BY <1>1, <2>1
    <3>2. \A d : d \in Slice(q, a, a + k - 1) <=>
                   \E n \in (a + 1)..b : d = q[n] /\ n < a + k
      BY <2>1 DEF Slice
    <3> QED
      BY <3>1, <3>2 DEF Slice
  <2>3. a + k - 1 \in Nat /\ a <= a + k - 1 /\ a + k - 1 <= Len(q)
    BY <1>1, <2>1
  <2>4. Cardinality(Slice(q, a, a + k - 1)) = a + k - 1 - a
    BY <1>1, <2>3, SliceSize
  <2>5. q[a + k] \in S
    BY <2>1 DEF Slice
  <2> DEFINE ahead == {d \in S : Before(seen, d, q[a + k])}
  <2>6. Rank(seen, S, q[a + k]) = 1 + Cardinality(ahead)
    BY DEF Rank
  <2>7. ahead = Slice(q, a, a + k - 1)
    BY <2>2
  <2> HIDE DEF ahead, S
  <2> QED
    BY <2>4, <2>5, <2>6, <2>7
<1>4. Comparable(seen, S)
  <2>1. S \subseteq ids
    BY <1>1 DEF Slice
  <2> QED
    BY <1>2, <2>1 DEF Comparable
<1> DEFINE r == Ranked(seen, S)
<1>5. /\ Len(r) = b - a /\ r \in Seq(S)
      /\ \A c \in S : r[Rank(seen, S, c)] = c
  BY <1>2, <1>4, RankedFacts
<1> HIDE DEF r, S
<1>6. \A k \in 1..(b - a) : r[k] = q[a + k]
  BY <1>3, <1>5
<1>7. SubSeq(q, a + 1, b) \in Seq(ids) /\ Len(SubSeq(q, a + 1, b)) = b - a
      /\ \A k \in 1..(b - a) : SubSeq(q, a + 1, b)[k] = q[a + k]
  BY <1>1
<1>8. r = SubSeq(q, a + 1, b)
  BY <1>5, <1>6, <1>7
<1> QED
  BY <1>8 DEF q, r, S

-----------------------------------------------------------------------------
(* What the second count proves of the statement before it.                *)

Fields == {"stage", "at", "token", "offset", "cut", "read", "got", "whole"}

\* Until a candidate of the cut is written again, its row is that of the cut.
CutStands(w) ==
    walk[w].stage \in {"counted", "read"} =>
        \A c \in DOMAIN walk[w].cut :
            /\ c \in Ids /\ walk[w].cut[c].version \in Nat /\ walk[w].cut[c].version <= writes[c]
            /\ Visible(walk[w].cut[c].row, walk[w].at) /\ walk[w].cut[c].row # None
            /\ writes[c] = walk[w].cut[c].version =>
                 walk[w].cut[c] = [row |-> record[c], version |-> writes[c]]

\* And the page saw that row.
ReadStands(w) ==
    walk[w].stage = "read" =>
        /\ walk[w].whole => DOMAIN walk[w].read \subseteq DOMAIN walk[w].cut
        /\ walk[w].read = [c \in DOMAIN walk[w].read |-> walk[w].read[c]]
        /\ walk[w].cut = [c \in DOMAIN walk[w].cut |-> walk[w].cut[c]]
        /\ \A c \in DOMAIN walk[w].cut :
             writes[c] = walk[w].cut[c].version =>
                 c \in DOMAIN walk[w].read /\ walk[w].read[c] = walk[w].cut[c]

WalksOK ==
    /\ DOMAIN walk = Walks
    /\ \A w \in Walks : DOMAIN walk[w] = Fields
    /\ \A w \in Walks : walk[w].stage \in {"counted", "read"} =>
         walk[w].cut = [c \in DOMAIN walk[w].cut |-> walk[w].cut[c]]
    /\ \A w \in Walks : CutStands(w) /\ ReadStands(w)

\* A walk that did not move keeps what it knows, if no candidate was written.
LEMMA StandsStill ==
    ASSUME NEW v \in Walks, CutStands(v), ReadStands(v),
           walk'[v] = walk[v], record' = record, writes' = writes
    PROVE  CutStands(v)' /\ ReadStands(v)'
  BY DEF CutStands, ReadStands, Visible

LEMMA CountStep ==
    ASSUME RowsOK, WalksOK, NEW w \in Walks, Count(w)
    PROVE  WalksOK'
<1> DEFINE seen == Fingerprint(walk[w].at)
           stage == IF walk[w].token \in {None, seen} THEN "counted" ELSE "conflict"
<1>1. /\ DOMAIN walk' = Walks
      /\ \A v \in Walks : v # w => walk'[v] = walk[v]
      /\ DOMAIN walk'[w] = Fields
      /\ walk'[w].stage = stage /\ walk'[w].cut = seen /\ walk'[w].at = walk[w].at
      /\ record' = record /\ writes' = writes
  BY DEF Count, WalksOK, Fields
<1>2. stage # "read"
  OBVIOUS
<1>3. /\ seen = [c \in DOMAIN seen |-> seen[c]]
      /\ \A c \in DOMAIN seen :
           /\ c \in Ids /\ record[c] # None /\ Visible(record[c], walk[w].at)
           /\ seen[c] = [row |-> record[c], version |-> writes[c]]
           /\ seen[c].row = record[c] /\ seen[c].version = writes[c] /\ writes[c] \in Nat
  BY DEF Fingerprint, RowsOK
<1> HIDE DEF seen, stage
<1>4. ReadStands(w)'
  BY <1>1, <1>2 DEF ReadStands
<1>5. CutStands(w)'
  BY <1>1, <1>3 DEF CutStands, Visible
<1>6. \A v \in Walks : CutStands(v)' /\ ReadStands(v)'
  BY <1>1, <1>4, <1>5, StandsStill DEF WalksOK
<1> QED
  BY <1>1, <1>2, <1>3, <1>6 DEF WalksOK

LEMMA ReadStep ==
    ASSUME RowsOK, WalksOK, NEW w \in Walks, Read(w)
    PROVE  WalksOK'
<1> DEFINE seen == Fingerprint(walk[w].at)
<1>1. /\ DOMAIN walk' = Walks
      /\ \A v \in Walks : v # w => walk'[v] = walk[v]
      /\ DOMAIN walk'[w] = Fields
      /\ walk'[w].stage = "read" /\ walk'[w].read = seen /\ walk'[w].at = walk[w].at
      /\ walk'[w].cut = walk[w].cut
      /\ walk'[w].whole = (walk[w].whole /\ DOMAIN seen \subseteq DOMAIN walk[w].cut)
      /\ walk[w].stage = "counted"
      /\ record' = record /\ writes' = writes
  BY DEF Read, WalksOK, Fields
<1>2. /\ seen = [c \in DOMAIN seen |-> seen[c]]
      /\ \A c \in Ids : record[c] # None /\ Visible(record[c], walk[w].at) =>
           c \in DOMAIN seen /\ seen[c] = [row |-> record[c], version |-> writes[c]]
  BY DEF Fingerprint
<1> HIDE DEF seen
<1>3. CutStands(w)'
  BY <1>1 DEF WalksOK, CutStands, Visible
<1>4. ASSUME NEW c \in DOMAIN walk[w].cut, writes[c] = walk[w].cut[c].version
      PROVE  c \in DOMAIN seen /\ seen[c] = walk[w].cut[c]
  <2>1. /\ c \in Ids /\ walk[w].cut[c] = [row |-> record[c], version |-> writes[c]]
        /\ Visible(walk[w].cut[c].row, walk[w].at) /\ walk[w].cut[c].row # None
    BY <1>1, <1>4 DEF WalksOK, CutStands
  <2>2. walk[w].cut[c].row = record[c]
    BY <2>1
  <2> QED
    BY <1>2, <2>1, <2>2
<1>5. ReadStands(w)'
  BY <1>1, <1>2, <1>4 DEF ReadStands, WalksOK
<1>6. \A v \in Walks : CutStands(v)' /\ ReadStands(v)'
  BY <1>1, <1>3, <1>5, StandsStill DEF WalksOK
<1> QED
  BY <1>1, <1>6 DEF WalksOK

LEMMA AskOrVerifyStep ==
    ASSUME RowsOK, WalksOK, NEW w \in Walks, Verify(w) \/ \E at \in Times : Ask(w, at)
    PROVE  WalksOK'
<1>1. /\ DOMAIN walk' = Walks
      /\ \A v \in Walks : v # w => walk'[v] = walk[v]
      /\ DOMAIN walk'[w] = Fields
      /\ walk'[w].stage \notin {"counted", "read"}
      /\ record' = record /\ writes' = writes
  <2>1. CASE Verify(w)
    <3> DEFINE stage == IF More(w) THEN "asked" ELSE "done"
    <3>1. stage \notin {"counted", "read"}
      OBVIOUS
    <3> HIDE DEF stage
    <3>2. CASE Fingerprint(walk[w].at) # walk[w].cut
      BY <2>1, <3>2 DEF Verify, WalksOK, Fields
    <3>3. CASE Fingerprint(walk[w].at) = walk[w].cut
      <4>1. walk' = [walk EXCEPT ![w].stage = stage,
                                 ![w].token = walk[w].cut,
                                 ![w].offset = @ + Limit,
                                 ![w].got = @ \o PageOf(walk[w].read, walk[w].at, walk[w].offset)]
        BY <2>1, <3>3 DEF Verify, stage
      <4> QED
        BY <2>1, <3>1, <4>1 DEF Verify, WalksOK, Fields
    <3> QED
      BY <3>2, <3>3
  <2>2. ASSUME NEW at \in Times, Ask(w, at)
        PROVE  <1>1!1 /\ <1>1!2 /\ <1>1!3 /\ <1>1!4 /\ <1>1!5
    <3> DEFINE m == [Idle EXCEPT !.stage = "asked", !.at = at]
    <3>1. DOMAIN m = Fields /\ m.stage = "asked"
      BY DEF Idle, Fields
    <3>2. walk' = [walk EXCEPT ![w] = m]
      BY <2>2 DEF Ask
    <3> HIDE DEF m
    <3> QED
      BY <2>2, <3>1, <3>2 DEF Ask, WalksOK
  <2> QED
    BY <2>1, <2>2
<1>2. CutStands(w)' /\ ReadStands(w)'
  BY <1>1 DEF CutStands, ReadStands
<1>3. \A v \in Walks : CutStands(v)' /\ ReadStands(v)'
  BY <1>1, <1>2, StandsStill DEF WalksOK
<1> QED
  BY <1>1, <1>3 DEF WalksOK

\* A write, and an erasure, raise the count of its candidate above that of any cut.
LEMMA WriteStep ==
    ASSUME RowsOK, WalksOK, NEW c \in Ids,
           Erase(c) \/ \E r \in Contents : Write(c, r)
    PROVE  WalksOK'
<1>1. /\ walk' = walk
      /\ writes'[c] = writes[c] + 1
      /\ \A d \in Ids : writes[d] \in Nat /\ (d # c => record'[d] = record[d] /\ writes'[d] = writes[d])
  BY DEF Write, Erase, RowsOK
<1>2. ASSUME NEW w \in Walks PROVE CutStands(w)' /\ ReadStands(w)'
  <2>1. CutStands(w) /\ ReadStands(w)
    BY DEF WalksOK
  <2> SUFFICES ASSUME walk[w].stage \in {"counted", "read"}
               PROVE  CutStands(w)' /\ ReadStands(w)'
    BY <1>1 DEF CutStands, ReadStands
  <2>2. ASSUME NEW d \in DOMAIN walk[w].cut
        PROVE  /\ writes'[d] \in Nat /\ walk[w].cut[d].version <= writes'[d]
               /\ writes'[d] = walk[w].cut[d].version =>
                    writes'[d] = writes[d] /\ record'[d] = record[d]
    <3>1. d \in Ids /\ walk[w].cut[d].version \in Nat /\ walk[w].cut[d].version <= writes[d]
      BY <2>1 DEF CutStands
    <3>2. CASE d = c
      BY <1>1, <3>1, <3>2
    <3>3. CASE d # c
      BY <1>1, <3>1, <3>3
    <3> QED
      BY <3>2, <3>3
  <2>3. CutStands(w)'
    BY <1>1, <2>1, <2>2 DEF CutStands, Visible
  <2>4. ReadStands(w)'
    BY <1>1, <2>1, <2>2 DEF ReadStands
  <2> QED
    BY <2>3, <2>4
<1> QED
  BY <1>1, <1>2 DEF WalksOK

LEMMA WalksInit == Init => WalksOK
<1> SUFFICES ASSUME Init PROVE WalksOK
  OBVIOUS
<1>1. DOMAIN Idle = Fields /\ Idle.stage = "idle"
  BY DEF Idle, Fields
<1>2. DOMAIN walk = Walks /\ \A w \in Walks : walk[w] = Idle
  BY DEF Init
<1> QED
  BY <1>1, <1>2 DEF WalksOK, CutStands, ReadStands

LEMMA WalksAlways == Spec => [](RowsOK /\ WalksOK)
<1>1. RowsOK /\ WalksOK /\ [Next]_vars => RowsOK' /\ WalksOK'
  <2> SUFFICES ASSUME RowsOK, WalksOK, [Next]_vars PROVE WalksOK'
    BY RowsNext
  <2>1. CASE UNCHANGED vars
    <3>1. \A w \in Walks : CutStands(w)' /\ ReadStands(w)'
      BY <2>1, StandsStill DEF vars, WalksOK
    <3> QED
      BY <2>1, <3>1 DEF vars, WalksOK
  <2>2. CASE Next
    <3>1. ASSUME NEW c \in Ids, Erase(c) \/ \E r \in Contents : Write(c, r) PROVE WalksOK'
      BY <3>1, WriteStep
    <3>2. ASSUME NEW w \in Walks, Count(w) PROVE WalksOK'
      BY <3>2, CountStep
    <3>3. ASSUME NEW w \in Walks, Read(w) PROVE WalksOK'
      BY <3>3, ReadStep
    <3>4. ASSUME NEW w \in Walks, Verify(w) \/ \E at \in Times : Ask(w, at) PROVE WalksOK'
      BY <3>4, AskOrVerifyStep
    <3> QED
      BY <2>2, <3>1, <3>2, <3>3, <3>4 DEF Next
  <2> QED
    BY <2>1, <2>2
<1> QED
  BY <1>1, RowsInit, WalksInit, PTL DEF Spec

\* What the snapshot token rests on, for any number of candidates and writes:
\* a page between two equal counts saw every candidate of the counts as it
\* was then, and no other unless one came into view and left in between.
THEOREM TheTokenProves == Spec => []PageSawTheCut
<1>1. RowsOK /\ WalksOK => PageSawTheCut
  <2> SUFFICES ASSUME RowsOK, WalksOK, NEW w \in Walks, walk[w].stage = "read",
                      Fingerprint(walk[w].at) = walk[w].cut
               PROVE  /\ \A c \in DOMAIN walk[w].cut :
                           c \in DOMAIN walk[w].read /\ walk[w].read[c] = walk[w].cut[c]
                      /\ walk[w].whole => walk[w].read = walk[w].cut
    BY DEF PageSawTheCut
  <2>1. ReadStands(w)
    BY DEF WalksOK
  <2>2. \A c \in DOMAIN walk[w].cut : writes[c] = walk[w].cut[c].version
    <3> DEFINE seen == Fingerprint(walk[w].at)
    <3>1. \A c \in DOMAIN seen : seen[c].version = writes[c]
      BY DEF Fingerprint
    <3> QED
      BY <3>1
  <2>3. \A c \in DOMAIN walk[w].cut :
           c \in DOMAIN walk[w].read /\ walk[w].read[c] = walk[w].cut[c]
    BY <2>1, <2>2 DEF ReadStands
  <2>4. ASSUME walk[w].whole PROVE walk[w].read = walk[w].cut
    <3>1. DOMAIN walk[w].read = DOMAIN walk[w].cut
      BY <2>1, <2>3, <2>4 DEF ReadStands
    <3> QED
      BY <2>1, <2>3, <3>1 DEF ReadStands
  <2> QED
    BY <2>3, <2>4
<1> QED
  BY <1>1, WalksAlways, PTL

-----------------------------------------------------------------------------
(* The pages of a walk.                                                    *)

\* What a statement may have seen as of an instant.
Sight(seen, at) ==
    /\ seen \in Fingerprints
    /\ \A c \in DOMAIN seen : Visible(seen[c].row, at)

\* The first n candidates of a queue, or all of it.
Pages(q, n) == SubSeq(q, 1, IF n < Len(q) THEN n ELSE Len(q))

LEMMA SightRows ==
    ASSUME NEW seen, NEW at, Sight(seen, at)
    PROVE  /\ DOMAIN seen \subseteq Ids /\ IsFiniteSet(DOMAIN seen)
           /\ \A c \in DOMAIN seen : seen[c].row \in Row /\ Visible(seen[c].row, at)
           /\ \A ids \in SUBSET DOMAIN seen : Comparable(seen, ids)
<1>1. PICK S \in SUBSET Ids : seen \in [S -> Seen]
  BY DEF Sight, Fingerprints
<1>2. Ids \subseteq Int /\ IsFiniteSet(Ids) /\ Contents \subseteq Row /\ Times \subseteq Int
  BY Assumptions DEF Assumptions
<1>3. \A c \in DOMAIN seen : seen[c].row \in Row
  BY <1>1, <1>2 DEF Seen
<1>4. ASSUME NEW c \in DOMAIN seen
      PROVE  seen[c].row.score \in Int /\ seen[c].row.created \in Int
  <2>1. PICK r \in Row : r = seen[c].row
    BY <1>3
  <2>2. r.score \in Nat /\ r.created \in Times
    BY DEF Row
  <2>3. Nat \subseteq Int /\ Times \subseteq Int
    BY <1>2
  <2> QED
    BY <2>1, <2>2, <2>3, Zenon
<1>5. \A ids \in SUBSET DOMAIN seen : ids \subseteq Int /\ IsFiniteSet(ids)
  BY <1>1, <1>2, FS_Subset
<1>6. DOMAIN seen \subseteq Ids /\ IsFiniteSet(DOMAIN seen)
  BY <1>1, <1>2, FS_Subset
<1> QED
  BY <1>3, <1>4, <1>5, <1>6 DEF Comparable, Sight

LEMMA EligibleRows ==
    ASSUME NEW seen, NEW at, Sight(seen, at)
    PROVE  /\ Eligible(seen, at) \in SUBSET DOMAIN seen
           /\ IsFiniteSet(Eligible(seen, at))
           /\ Comparable(seen, Eligible(seen, at))
  BY SightRows, FS_Subset DEF Eligible

\* The policy of the domain drops nothing from a page of the database.
LEMMA NothingDropped ==
    ASSUME NEW at \in Times, NEW seen, Sight(seen, at), NEW c \in Eligible(seen, at)
    PROVE  /\ seen[c].row.posture = Required \/ seen[c].row.suppression # None
           /\ Exclusion(seen[c].row, at, FALSE) = "none"
<1>1. c \in DOMAIN seen /\ Admitted(seen[c].row, at)
  BY DEF Eligible
<1>2. seen[c].row \in Row /\ Visible(seen[c].row, at)
  BY <1>1, SightRows
<1>3. PICK asleep \in BOOLEAN : asleep = Asleep(seen[c].row, at)
  BY DEF Asleep
<1> QED
  BY <1>1, <1>2, <1>3, RulesOfARow DEF Visible

\* A prefix, and what follows it up to a place, is the prefix up to there.
LEMMA PrefixesJoin ==
    ASSUME NEW S, NEW q \in Seq(S), NEW a \in Nat, NEW b \in Nat, a <= b
    PROVE  LET m == IF a < Len(q) THEN a ELSE Len(q)
               n == IF b < Len(q) THEN b ELSE Len(q)
           IN  SubSeq(q, 1, m) \o SubSeq(q, a + 1, n) = SubSeq(q, 1, n)
<1> DEFINE m == IF a < Len(q) THEN a ELSE Len(q)
           n == IF b < Len(q) THEN b ELSE Len(q)
<1>1. /\ Len(q) \in Nat /\ m \in Nat /\ n \in Nat /\ m <= n /\ n <= Len(q)
      /\ a < Len(q) => m = a
      /\ ~ a < Len(q) => m = Len(q) /\ n = Len(q)
  OBVIOUS
<1> HIDE DEF m, n
<1>2. SubSeq(q, 1, m) \o SubSeq(q, a + 1, n) = SubSeq(q, 1, n)
  <2>1. CASE a < Len(q)
    <3>1. 1 \in 1..Len(q) + 1 /\ m \in 1 - 1..n /\ n \in m..Len(q)
      BY <1>1, <2>1
    <3> QED
      BY <1>1, <2>1, <3>1, ConcatAdjacentSubSeq
  <2>2. CASE ~ a < Len(q)
    <3>1. SubSeq(q, a + 1, n) = <<>>
      BY <1>1, <2>2, SubSeqEmpty
    <3>2. SubSeq(q, 1, n) = q
      BY <1>1, <2>2, SubSeqFull
    <3>3. q \o <<>> = q
      BY ConcatEmptySeq
    <3> QED
      BY <1>1, <2>2, <3>1, <3>2, <3>3
  <2> QED
    BY <2>1, <2>2
<1> QED
  BY <1>2 DEF m, n

\* The next page goes on where the pages before it ended.
LEMMA PageFollows ==
    ASSUME NEW at \in Times, NEW seen, Sight(seen, at), NEW offset \in Nat
    PROVE  /\ PageOf(seen, at, offset) \in Seq(Ids)
           /\ Pages(QueueOf(seen, at), offset) \o PageOf(seen, at, offset)
                = Pages(QueueOf(seen, at), offset + Limit)
<1> DEFINE ids == Eligible(seen, at)
           q == QueueOf(seen, at)
           end == IF offset + Limit < Len(q) THEN offset + Limit ELSE Len(q)
           page == SubSeq(q, offset + 1, end)
           kept == {c \in ToSet(page) :
                      /\ seen[c].row.posture = Required \/ seen[c].row.suppression # None
                      /\ Exclusion(seen[c].row, at, FALSE) = "none"}
<1>1. Comparable(seen, ids) /\ ids \subseteq Ids /\ q = Ranked(seen, ids)
  BY EligibleRows, SightRows DEF QueueOf
<1>2. q \in Seq(ids) /\ Len(q) \in Nat /\ \A n \in 1..Len(q) : q[n] \in ids
  BY <1>1, RankedFacts
<1>3. Limit \in Nat \ {0}
  BY Assumptions DEF Assumptions
<1>4. PageOf(seen, at, offset) = Ranked(seen, kept)
  BY DEF PageOf
<1> HIDE DEF q, ids
<1>5. ToSet(page) \subseteq ids
  BY <1>2, <1>3 DEF ToSet
<1>6. kept = ToSet(page)
  BY <1>5, NothingDropped DEF ids
<1>7. Ranked(seen, ToSet(page)) = page
  <2>1. CASE offset < Len(q)
    <3>1. end \in Nat /\ offset <= end /\ end <= Len(q)
      BY <1>2, <1>3, <2>1
    <3>2. DOMAIN page = 1..(end - offset) /\ \A n \in 1..(end - offset) : page[n] = q[offset + n]
      BY <1>2, <3>1
    <3>3. ToSet(page) = Slice(q, offset, end)
      <4>1. ASSUME NEW n \in (offset + 1)..end PROVE q[n] \in ToSet(page)
        <5>1. n - offset \in DOMAIN page /\ page[n - offset] = q[n]
          BY <3>1, <3>2
        <5> QED
          BY <5>1 DEF ToSet
      <4>2. ASSUME NEW n \in DOMAIN page PROVE page[n] \in Slice(q, offset, end)
        <5>1. offset + n \in (offset + 1)..end /\ page[n] = q[offset + n]
          BY <3>1, <3>2
        <5> QED
          BY <5>1 DEF Slice
      <4> HIDE DEF page
      <4> QED
        BY <4>1, <4>2 DEF ToSet, Slice
    <3> HIDE DEF end
    <3>4. Ranked(seen, Slice(q, offset, end)) = page
      BY <1>1, <3>1, RankedAnew
    <3> QED
      BY <3>3, <3>4
  <2>2. CASE offset >= Len(q)
    <3>1. page = <<>>
      BY <1>2, <1>3, <2>2
    <3>2. ToSet(<<>>) = {}
      BY DEF ToSet
    <3>3. Ranked(seen, {}) = <<>>
      BY FS_EmptySet DEF Ranked
    <3> QED
      BY <3>1, <3>2, <3>3
  <2> QED
    BY <1>2, <2>1, <2>2
<1>8. PageOf(seen, at, offset) = page
  BY <1>4, <1>6, <1>7
<1>9. page \in Seq(ids)
  BY <1>2, <1>3
<1>10. Pages(q, offset) \o page = Pages(q, offset + Limit)
  <2>1. offset + Limit \in Nat /\ offset <= offset + Limit
    BY <1>3
  <2> QED
    BY <1>2, <2>1, PrefixesJoin DEF Pages
<1> QED
  BY <1>1, <1>8, <1>9, <1>10 DEF q

\* What a reviewer holds: the answers of statements as of the instant asked
\* for, the pages of the queue of the token when the walk is whole, and all of
\* them when it is done.
Held(v) ==
    /\ v.stage # "idle" => v.at \in Times
    /\ v.stage \in {"counted", "read"} => Sight(v.cut, v.at)
    /\ v.stage = "read" => Sight(v.read, v.at)
    /\ v.token # None => Sight(v.token, v.at)
    /\ v.stage \in {"counted", "read"} /\ v.token # None => v.cut = v.token
    /\ v.token = None => v.got = <<>> /\ v.offset = 0
    /\ v.stage = "done" => v.token # None /\ v.offset >= Len(QueueOf(v.token, v.at))
    /\ v.whole /\ v.token # None => v.got = Pages(QueueOf(v.token, v.at), v.offset)

\* Its types, as in TypeOK.
HeldType(v) ==
    /\ DOMAIN v = DOMAIN Idle
    /\ v.stage \in {"idle", "asked", "counted", "read", "done", "conflict"}
    /\ v.at \in Times \cup {0}
    /\ v.token \in Fingerprints \cup {None}
    /\ v.cut \in Fingerprints \cup {None}
    /\ v.read \in Fingerprints \cup {None}
    /\ v.offset \in Nat
    /\ v.got \in Seq(Ids)
    /\ v.whole \in BOOLEAN

LEMMA HeldIdle == Held(Idle) /\ HeldType(Idle)
  BY DEF Idle, Held, HeldType

LEMMA HeldAsk ==
    ASSUME NEW at \in Times
    PROVE  LET u == [Idle EXCEPT !.stage = "asked", !.at = at] IN Held(u) /\ HeldType(u)
  BY DEF Idle, Held, HeldType

LEMMA HeldCount ==
    ASSUME NEW v, Held(v), HeldType(v), v.stage = "asked", NEW seen, Sight(seen, v.at)
    PROVE  LET u == [v EXCEPT !.stage = IF v.token \in {None, seen} THEN "counted" ELSE "conflict",
                              !.cut = seen]
           IN  Held(u) /\ HeldType(u)
<1> DEFINE stage == IF v.token \in {None, seen} THEN "counted" ELSE "conflict"
           u == [v EXCEPT !.stage = stage, !.cut = seen]
<1>1. /\ stage \in {"counted", "conflict"}
      /\ stage = "counted" /\ v.token # None => seen = v.token
  OBVIOUS
<1> HIDE DEF stage
<1>2. DOMAIN v = Fields
  BY DEF HeldType, Idle, Fields
<1>3. /\ DOMAIN u = Fields /\ u.stage = stage /\ u.cut = seen
      /\ u.at = v.at /\ u.token = v.token /\ u.read = v.read
      /\ u.offset = v.offset /\ u.got = v.got /\ u.whole = v.whole
  BY <1>2 DEF Fields
<1> HIDE DEF u
<1>4. Held(u)
  BY <1>1, <1>3 DEF Held
<1>5. HeldType(u)
  BY <1>1, <1>2, <1>3 DEF HeldType, Sight
<1> QED
  BY <1>4, <1>5 DEF u, stage

LEMMA HeldRead ==
    ASSUME NEW v, Held(v), HeldType(v), v.stage = "counted",
           NEW seen, Sight(seen, v.at), NEW covered \in BOOLEAN
    PROVE  LET u == [v EXCEPT !.stage = "read", !.read = seen, !.whole = @ /\ covered]
           IN  Held(u) /\ HeldType(u)
<1> DEFINE u == [v EXCEPT !.stage = "read", !.read = seen, !.whole = @ /\ covered]
<1>1. DOMAIN v = Fields
  BY DEF HeldType, Idle, Fields
<1>2. /\ DOMAIN u = Fields /\ u.stage = "read" /\ u.read = seen
      /\ u.at = v.at /\ u.token = v.token /\ u.cut = v.cut
      /\ u.offset = v.offset /\ u.got = v.got /\ u.whole = (v.whole /\ covered)
  BY <1>1 DEF Fields
<1> HIDE DEF u
<1>3. Held(u)
  BY <1>2 DEF Held
<1>4. HeldType(u)
  BY <1>1, <1>2 DEF HeldType, Sight
<1> QED
  BY <1>3, <1>4 DEF u

\* A page that is withdrawn, and one that is answered.
LEMMA HeldConflict ==
    ASSUME NEW v, Held(v), HeldType(v), v.stage = "read"
    PROVE  LET u == [v EXCEPT !.stage = "conflict"] IN Held(u) /\ HeldType(u)
<1> DEFINE u == [v EXCEPT !.stage = "conflict"]
<1>1. DOMAIN v = Fields
  BY DEF HeldType, Idle, Fields
<1>2. /\ DOMAIN u = Fields /\ u.stage = "conflict" /\ u.read = v.read
      /\ u.at = v.at /\ u.token = v.token /\ u.cut = v.cut
      /\ u.offset = v.offset /\ u.got = v.got /\ u.whole = v.whole
  BY <1>1 DEF Fields
<1> HIDE DEF u
<1>3. Held(u)
  BY <1>2 DEF Held
<1>4. HeldType(u)
  BY <1>1, <1>2 DEF HeldType
<1> QED
  BY <1>3, <1>4 DEF u

LEMMA HeldVerify ==
    ASSUME NEW v, Held(v), HeldType(v), v.stage = "read",
           v.whole => v.read = v.cut,
           NEW more \in BOOLEAN,
           ~more => v.offset + Limit >= Cardinality(Eligible(v.cut, v.at))
    PROVE  LET u == [v EXCEPT !.stage = IF more THEN "asked" ELSE "done",
                              !.token = v.cut,
                              !.offset = @ + Limit,
                              !.got = @ \o PageOf(v.read, v.at, v.offset)]
           IN  Held(u) /\ HeldType(u)
<1> DEFINE stage == IF more THEN "asked" ELSE "done"
           page == PageOf(v.read, v.at, v.offset)
           u == [v EXCEPT !.stage = stage, !.token = v.cut, !.offset = @ + Limit,
                          !.got = @ \o page]
           q == QueueOf(v.cut, v.at)
<1>1. stage \in {"asked", "done"} /\ (stage = "done" => ~more)
  OBVIOUS
<1>2. DOMAIN v = Fields
  BY DEF HeldType, Idle, Fields
<1>3. /\ DOMAIN u = Fields /\ u.stage = stage /\ u.read = v.read
      /\ u.at = v.at /\ u.token = v.cut /\ u.cut = v.cut
      /\ u.offset = v.offset + Limit /\ u.got = v.got \o page /\ u.whole = v.whole
  BY <1>2 DEF Fields
<1>4. v.at \in Times /\ Sight(v.cut, v.at) /\ Sight(v.read, v.at)
  BY DEF Held
<1>5. v.offset \in Nat /\ v.offset + Limit \in Nat /\ v.got \in Seq(Ids)
  BY Assumptions DEF Assumptions, HeldType
<1>6. page \in Seq(Ids)
  BY <1>4, <1>5, PageFollows
<1>7. v.cut # None /\ v.cut \in Fingerprints
  BY <1>4, Assumptions DEF Sight, Assumptions
<1>8. Len(q) = Cardinality(Eligible(v.cut, v.at))
  BY <1>4, EligibleRows, RankedFacts DEF QueueOf
<1>9. ASSUME v.whole PROVE v.got \o page = Pages(q, v.offset + Limit)
  <2>1. v.got = Pages(q, v.offset)
    <3>1. CASE v.token = None
      <4>1. v.got = <<>> /\ v.offset = 0
        BY <3>1 DEF Held
      <4>2. Len(q) \in Nat
        BY <1>4, EligibleRows, RankedFacts DEF QueueOf
      <4>3. (IF 0 < Len(q) THEN 0 ELSE Len(q)) = 0
        BY <4>2
      <4> HIDE DEF q
      <4> QED
        BY <4>1, <4>3, SubSeqEmpty DEF Pages
    <3>2. CASE v.token # None
      BY <1>9, <3>2 DEF Held
    <3> QED
      BY <3>1, <3>2
  <2>2. page = PageOf(v.cut, v.at, v.offset)
    BY <1>9
  <2> QED
    BY <1>4, <1>5, <2>1, <2>2, PageFollows
<1> HIDE DEF u, page, stage, q
<1>10. Held(u)
  <2>1. u.stage \in {"asked", "done"} /\ u.token # None
    BY <1>1, <1>3, <1>7
  <2>2. u.stage = "done" => u.offset >= Len(QueueOf(u.token, u.at))
    BY <1>1, <1>3, <1>8 DEF q
  <2>3. u.whole => u.got = Pages(QueueOf(u.token, u.at), u.offset)
    BY <1>3, <1>9 DEF q
  <2>4. u.at \in Times /\ Sight(u.token, u.at)
    BY <1>3, <1>4
  <2> QED
    BY <2>1, <2>2, <2>3, <2>4 DEF Held
<1>11. HeldType(u)
  <2>1. u.offset \in Nat /\ u.got \in Seq(Ids)
    BY <1>3, <1>5, <1>6
  <2> QED
    BY <1>1, <1>2, <1>3, <1>7, <2>1 DEF HeldType
<1> QED
  BY <1>10, <1>11 DEF u, page, stage

\* While the bound admits another write, it admits one of each candidate.
LEMMA WrittenBound ==
    ASSUME writes \in [Ids -> 0..MaxWrites], Cardinality(Written) < MaxWrites, NEW c \in Ids
    PROVE  writes[c] < MaxWrites
<1> SUFFICES ASSUME writes[c] = MaxWrites PROVE FALSE
  BY Assumptions DEF Assumptions
<1>1. MaxWrites \in Nat /\ IsFiniteSet(Ids)
  BY Assumptions DEF Assumptions
<1>2. IsFiniteSet(1..MaxWrites) /\ Cardinality(1..MaxWrites) = MaxWrites
  <2>1. \A b \in Int : IsFiniteSet(1..b) /\ Cardinality(1..b) = IF 1 > b THEN 0 ELSE b - 1 + 1
    BY FS_Interval
  <2> QED
    BY <1>1, <2>1
<1>3. IsFiniteSet({c}) /\ Cardinality({c}) = 1
  BY FS_Singleton
<1>4. Cardinality({c} \X (1..MaxWrites)) = MaxWrites
  <2>1. Cardinality({c} \X (1..MaxWrites)) = Cardinality({c}) * Cardinality(1..MaxWrites)
    BY <1>2, <1>3, FS_Product
  <2> QED
    BY <1>1, <1>2, <1>3, <2>1
<1>5. IsFiniteSet(Written)
  <2>1. IsFiniteSet(Ids \X (1..MaxWrites))
    BY <1>1, <1>2, FS_Product
  <2>2. Written \subseteq Ids \X (1..MaxWrites)
    BY DEF Written
  <2> QED
    BY <2>1, <2>2, FS_Subset
<1>6. {c} \X (1..MaxWrites) \subseteq Written
  BY <1>1 DEF Written
<1>7. Cardinality(Written) \in Nat /\ MaxWrites <= Cardinality(Written)
  <2>1. Cardinality({c} \X (1..MaxWrites)) <= Cardinality(Written)
    BY <1>5, <1>6, FS_Subset
  <2> QED
    BY <1>4, <1>5, <2>1, FS_CardinalityType
<1> QED
  BY <1>1, <1>7

\* Rows and counts, as TypeOK has them.
Recorded ==
    /\ record \in [Ids -> Contents \cup {None}]
    /\ writes \in [Ids -> 0..MaxWrites]

LEMMA FingerprintIsSight ==
    ASSUME Recorded, NEW at
    PROVE  Sight(Fingerprint(at), at)
<1> DEFINE S == {d \in Ids : record[d] # None /\ Visible(record[d], at)}
           seen == Fingerprint(at)
<1>1. \A c \in S : [row |-> record[c], version |-> writes[c]] \in Seen
  BY DEF Recorded, Seen
<1>2. seen = [c \in S |-> [row |-> record[c], version |-> writes[c]]]
  BY DEF Fingerprint
<1>3. \A c \in S : seen[c].row = record[c] /\ Visible(record[c], at)
  BY <1>2
<1> HIDE DEF seen
<1>4. seen \in [S -> Seen]
  BY <1>1, <1>2
<1>5. S \in SUBSET Ids
  OBVIOUS
<1> HIDE DEF S
<1>6. seen \in Fingerprints
  BY <1>4, <1>5 DEF Fingerprints
<1> QED
  BY <1>2, <1>3, <1>6 DEF Sight, seen

\* All of it.
QueueOK ==
    /\ Recorded
    /\ \A w \in Walks : Held(walk[w]) /\ HeldType(walk[w])

LEMMA QueueInit == Init => QueueOK
<1> SUFFICES ASSUME Init PROVE QueueOK
  OBVIOUS
<1>1. Recorded
  BY Assumptions DEF Assumptions, Init, Recorded
<1>2. \A w \in Walks : walk[w] = Idle
  BY DEF Init
<1> QED
  BY <1>1, <1>2, HeldIdle DEF QueueOK

LEMMA WalkStep ==
    ASSUME RowsOK, WalksOK, QueueOK, PageSawTheCut, NEW w \in Walks,
           \/ \E at \in Times : Ask(w, at)
           \/ Count(w) \/ Read(w) \/ Verify(w)
    PROVE  QueueOK'
<1> DEFINE v == walk[w]
           seen == Fingerprint(v.at)
<1>1. Held(v) /\ HeldType(v) /\ Recorded /\ DOMAIN walk = Walks
  BY DEF QueueOK, WalksOK
<1>2. Sight(seen, v.at)
  BY <1>1, FingerprintIsSight
<1>3. \E u : Held(u) /\ HeldType(u) /\ walk' = [walk EXCEPT ![w] = u]
  <2>1. ASSUME NEW at \in Times, Ask(w, at)
        PROVE  \E u : Held(u) /\ HeldType(u) /\ walk' = [walk EXCEPT ![w] = u]
    BY <2>1, HeldAsk DEF Ask
  <2>2. CASE Count(w)
    <3> DEFINE u == [v EXCEPT !.stage = IF v.token \in {None, seen} THEN "counted" ELSE "conflict",
                              !.cut = seen]
    <3>1. Held(u) /\ HeldType(u)
      BY <1>1, <1>2, <2>2, HeldCount DEF Count
    <3>2. walk' = [walk EXCEPT ![w] = u]
      BY <2>2 DEF Count
    <3> QED
      BY <3>1, <3>2
  <2>3. CASE Read(w)
    <3> DEFINE covered == DOMAIN seen \subseteq DOMAIN v.cut
               u == [v EXCEPT !.stage = "read", !.read = seen, !.whole = @ /\ covered]
    <3>1. Held(u) /\ HeldType(u)
      BY <1>1, <1>2, <2>3, HeldRead DEF Read
    <3>2. walk' = [walk EXCEPT ![w] = u]
      BY <2>3 DEF Read
    <3> QED
      BY <3>1, <3>2
  <2>4. CASE Verify(w)
    <3>1. CASE seen # v.cut
      <4> DEFINE u == [v EXCEPT !.stage = "conflict"]
      <4>1. Held(u) /\ HeldType(u)
        BY <1>1, <2>4, HeldConflict DEF Verify
      <4>2. walk' = [walk EXCEPT ![w] = u]
        BY <2>4, <3>1 DEF Verify
      <4> QED
        BY <4>1, <4>2
    <3>2. CASE seen = v.cut
      <4> DEFINE more == More(w)
                 u == [v EXCEPT !.stage = IF more THEN "asked" ELSE "done",
                                !.token = v.cut,
                                !.offset = @ + Limit,
                                !.got = @ \o PageOf(v.read, v.at, v.offset)]
      <4>1. v.stage = "read" /\ (v.whole => v.read = v.cut)
        BY <2>4, <3>2 DEF Verify, PageSawTheCut
      <4>2. more \in BOOLEAN
        BY DEF More
      <4>3. ~more => v.offset + Limit >= Cardinality(Eligible(v.cut, v.at))
        <5>1. /\ IsFiniteSet(Eligible(v.cut, v.at)) /\ IsFiniteSet(DOMAIN v.cut)
          BY <1>2, <3>2, EligibleRows, SightRows
        <5>2. Cardinality(Eligible(v.cut, v.at)) \in Nat /\ Cardinality(DOMAIN v.cut) \in Nat
          BY <5>1, FS_CardinalityType
        <5>3. v.offset \in Nat /\ Limit \in Nat
          BY <1>1, Assumptions DEF HeldType, Assumptions
        <5> QED
          BY <5>2, <5>3 DEF More
      <4>4. walk' = [walk EXCEPT ![w] = u]
        BY <2>4, <3>2 DEF Verify
      <4> HIDE DEF more, v
      <4>5. Held(u) /\ HeldType(u)
        BY <1>1, <4>1, <4>2, <4>3, HeldVerify
      <4> QED
        BY <4>4, <4>5
    <3> QED
      BY <3>1, <3>2
  <2> QED
    BY <2>1, <2>2, <2>3, <2>4
<1>4. Recorded'
  BY <1>1 DEF Ask, Count, Read, Verify, Recorded
<1> QED
  BY <1>1, <1>3, <1>4 DEF QueueOK

LEMMA QueueNext ==
    RowsOK /\ WalksOK /\ QueueOK /\ PageSawTheCut /\ [Next]_vars => QueueOK'
<1> SUFFICES ASSUME RowsOK, WalksOK, QueueOK, PageSawTheCut, [Next]_vars PROVE QueueOK'
  OBVIOUS
<1>1. ASSUME NEW c \in Ids, Cardinality(Written) < MaxWrites,
             writes' = [writes EXCEPT ![c] = @ + 1]
      PROVE  writes' \in [Ids -> 0..MaxWrites]
  <2>1. writes \in [Ids -> 0..MaxWrites] /\ MaxWrites \in Nat
    BY Assumptions DEF Assumptions, QueueOK, Recorded
  <2>2. writes[c] < MaxWrites
    BY <1>1, <2>1, WrittenBound
  <2>3. writes[c] + 1 \in 0..MaxWrites
    BY <2>1, <2>2
  <2> QED
    BY <1>1, <2>1, <2>3
<1>2. ASSUME NEW c \in Ids, NEW r \in Contents, Write(c, r) PROVE QueueOK'
  <2>1. record' \in [Ids -> Contents \cup {None}] /\ walk' = walk
    BY <1>2 DEF QueueOK, Recorded, Write
  <2>2. writes' \in [Ids -> 0..MaxWrites]
    BY <1>1, <1>2 DEF Write
  <2> QED
    BY <2>1, <2>2 DEF QueueOK, Recorded
<1>3. ASSUME NEW c \in Ids, Erase(c) PROVE QueueOK'
  <2>1. record' \in [Ids -> Contents \cup {None}] /\ walk' = walk
    BY <1>3 DEF QueueOK, Recorded, Erase
  <2>2. writes' \in [Ids -> 0..MaxWrites]
    BY <1>1, <1>3 DEF Erase
  <2> QED
    BY <2>1, <2>2 DEF QueueOK, Recorded
<1>4. CASE UNCHANGED vars
  BY <1>4 DEF vars, QueueOK, Recorded
<1> QED
  BY <1>2, <1>3, <1>4, WalkStep DEF Next

LEMMA QueueAlways == Spec => []QueueOK
<1>1. RowsOK /\ WalksOK /\ QueueOK /\ PageSawTheCut /\ [Next]_vars => QueueOK'
  BY QueueNext
<1> QED
  BY <1>1, QueueInit, WalksAlways, TheTokenProves, PTL DEF Spec

\* Rows, counts of writes and walks are of their types.
THEOREM TypeCorrect == Spec => []TypeOK
<1>1. QueueOK => TypeOK
  BY DEF QueueOK, Recorded, HeldType, TypeOK
<1> QED
  BY <1>1, QueueAlways, PTL

\* A queue, of any token: its first pages begin it, and none repeats.
LEMMA PagesBegin ==
    ASSUME NEW seen, NEW at, Sight(seen, at), NEW n \in Nat
    PROVE  LET q == QueueOf(seen, at)
               got == Pages(q, n)
           IN  /\ IsPrefix(got, q)
               /\ n >= Len(q) => got = q
               /\ IsInjective(got)
               /\ Eligible(seen, at) \subseteq ToSet(q)
<1> DEFINE ids == Eligible(seen, at)
           q == QueueOf(seen, at)
           m == IF n < Len(q) THEN n ELSE Len(q)
           got == Pages(q, n)
<1>1. /\ q \in Seq(ids) /\ Len(q) \in Nat
      /\ \A i \in 1..Len(q) : q[i] \in ids /\ Rank(seen, ids, q[i]) = i
      /\ \A c \in ids : Rank(seen, ids, c) \in 1..Len(q) /\ q[Rank(seen, ids, c)] = c
  BY EligibleRows, RankedFacts DEF QueueOf
<1> HIDE DEF q, ids
<1>2. m \in 0..Len(q)
  BY <1>1
<1>3. got = SubSeq(q, 1, m)
  BY DEF Pages
<1> HIDE DEF m
<1>4. Len(got) = m /\ \A i \in 1..m : got[i] = q[i]
  BY <1>1, <1>2, <1>3
<1>5. IsPrefix(got, q)
  <2>1. SubSeq(got, 1, Len(got)) = got
    <3>1. got \in Seq(ids)
      BY <1>1, <1>2, <1>3
    <3> QED
      BY <3>1, SubSeqFull
  <2> HIDE DEF got
  <2> QED
    BY <1>1, <1>2, <1>3, <1>4, <2>1 DEF IsPrefix
<1>6. n >= Len(q) => got = q
  <2>1. n >= Len(q) => m = Len(q)
    BY <1>1 DEF m
  <2> QED
    BY <1>1, <1>3, <2>1, SubSeqFull
<1>7. IsInjective(got)
  <2>1. DOMAIN got = 1..m
    BY <1>1, <1>2, <1>3
  <2>2. ASSUME NEW i \in 1..m, NEW j \in 1..m, q[i] = q[j] PROVE i = j
    <3>1. i \in 1..Len(q) /\ j \in 1..Len(q)
      BY <1>1, <1>2
    <3>2. Rank(seen, ids, q[i]) = i /\ Rank(seen, ids, q[j]) = j
      BY <1>1, <3>1
    <3> QED
      BY <2>2, <3>2
  <2> HIDE DEF got
  <2> QED
    BY <1>4, <2>1, <2>2 DEF IsInjective
<1>8. ids \subseteq ToSet(q)
  BY <1>1 DEF ToSet
<1> QED
  BY <1>5, <1>6, <1>7, <1>8 DEF q, ids

\* The pages of a walk are the queue of its first page, in its order, and all
\* of it at the end: for any candidates, rows, page size and interleaving.
THEOREM WalksAreOneQueue == Spec => []WalkIsOneQueue
<1>1. QueueOK => WalkIsOneQueue
  <2> SUFFICES ASSUME QueueOK, NEW w \in Walks, walk[w].whole, walk[w].token # None
               PROVE  LET queue == QueueOf(walk[w].token, walk[w].at)
                      IN  /\ IsPrefix(walk[w].got, queue)
                          /\ walk[w].stage = "done" => walk[w].got = queue
    BY DEF WalkIsOneQueue
  <2> DEFINE v == walk[w]
             q == QueueOf(v.token, v.at)
  <2>1. Held(v) /\ v.offset \in Nat
    BY DEF QueueOK, HeldType
  <2>2. Sight(v.token, v.at) /\ v.got = Pages(q, v.offset)
    BY <2>1 DEF Held
  <2>3. v.stage = "done" => v.offset >= Len(q)
    BY <2>1 DEF Held
  <2> HIDE DEF v
  <2> QED
    BY <2>1, <2>2, <2>3, PagesBegin DEF v
<1> QED
  BY <1>1, QueueAlways, PTL

\* The promise of the route, of the walks that can keep it.
WholeWalksKeepIt ==
    \A w \in Walks :
        walk[w].whole =>
            /\ IsInjective(walk[w].got)
            /\ walk[w].stage = "done" =>
                 Eligible(walk[w].token, walk[w].at) \subseteq ToSet(walk[w].got)

\* NoSilentSkips, of walks on whose pages no candidate came into view and left
\* again between two statements: the one way in which a walk without a
\* conflict may skip a candidate or repeat one (api/review_queue/routes.py:517).
THEOREM WholeWalksSkipNothing == Spec => []WholeWalksKeepIt
<1>1. QueueOK => WholeWalksKeepIt
  <2> SUFFICES ASSUME QueueOK, NEW w \in Walks, walk[w].whole
               PROVE  /\ IsInjective(walk[w].got)
                      /\ walk[w].stage = "done" =>
                           Eligible(walk[w].token, walk[w].at) \subseteq ToSet(walk[w].got)
    BY DEF WholeWalksKeepIt
  <2> DEFINE v == walk[w]
             q == QueueOf(v.token, v.at)
  <2>1. Held(v) /\ v.offset \in Nat
    BY DEF QueueOK, HeldType
  <2>2. CASE v.token = None
    <3>1. v.got = <<>> /\ v.stage # "done"
      BY <2>1, <2>2 DEF Held
    <3> QED
      BY <3>1 DEF IsInjective
  <2>3. CASE v.token # None
    <3>1. Sight(v.token, v.at) /\ v.got = Pages(q, v.offset)
      BY <2>1, <2>3 DEF Held
    <3>2. v.stage = "done" => v.offset >= Len(q)
      BY <2>1 DEF Held
    <3> HIDE DEF v
    <3>3. /\ IsInjective(v.got) /\ (v.offset >= Len(q) => v.got = q)
          /\ Eligible(v.token, v.at) \subseteq ToSet(q)
      BY <2>1, <3>1, PagesBegin
    <3> HIDE DEF q
    <3>4. v.stage = "done" => Eligible(v.token, v.at) \subseteq ToSet(v.got)
      BY <3>2, <3>3
    <3> QED
      BY <3>3, <3>4 DEF v
  <2> QED
    BY <2>2, <2>3
<1> QED
  BY <1>1, QueueAlways, PTL
=============================================================================
