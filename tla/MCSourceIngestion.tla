-------------------------- MODULE MCSourceIngestion --------------------------
(* Small instances of SourceIngestion for TLC.                             *)
EXTENDS SourceIngestion, TLC

CONSTANTS s1, s2, f1, f2, p1, p2, k1, below, low, high, high0

MCScopes == {s1, s2}
MCPortfolioOf == (s1 :> f1) @@ (s2 :> f2)

\* The weight of an overdrawn portfolio, one below the threshold, and two ways
\* to write one above it.
MCValueOf == (below :> -1) @@ (low :> 0) @@ (high :> 1) @@ (high0 :> 1)

Evidence(date, generated, weight, proof) ==
    [reply |-> "evidence", complete |-> TRUE, current |-> TRUE, date |-> date,
     generated |-> generated, weight |-> weight, proof |-> proof]

\* Evidence of the two days, eligible, below the threshold, stale, or generated
\* after the evaluation; an overdrawn portfolio on one day, and an answer that
\* does not parse on the other; or none at all.
MCAnswers ==
    {Evidence(1, 1, high, p1), Evidence(1, 1, high, p2), Evidence(1, 1, low, p1),
     Evidence(2, 2, high0, p1), Evidence(2, 3, high0, p2),
     [Evidence(1, 1, high, p1) EXCEPT !.current = FALSE],
     Evidence(1, 1, below, p1), [Evidence(2, 2, high0, p1) EXCEPT !.reply = "malformed"],
     [Evidence(2, 2, high0, p1) EXCEPT !.reply = "unavailable"]}

WorkOn(scope, date, key) == [scope |-> scope, date |-> date, key |-> key]

\* One of two portfolios, and one for the next day of the first alone, with
\* a key of its own.
MCManifests ==
    {[at |-> 2, items |-> <<WorkOn(s1, 1, None), WorkOn(s2, 2, None)>>],
     [at |-> 2, items |-> <<WorkOn(s1, 2, k1)>>]}
=============================================================================
