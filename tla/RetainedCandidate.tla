-------------------------- MODULE RetainedCandidate --------------------------
(***************************************************************************)
(* What the data lifecycle promises of one candidate.                      *)
(*                                                                         *)
(* Its data is erased once, when nothing is being delivered and nobody     *)
(* holds it, and is nameless from then on; its payload is purged after the *)
(* erasure and the end of its retention.  A hold freezes both.  A signed   *)
(* decision of the bank moves it at most once.                             *)
(***************************************************************************)
CONSTANTS
    Decisions,  \* signed decisions of the bank's authorities
    None        \* no signed decision: a profile that asks for none

VARIABLES
    stage,    \* "new", "active", "erased" or "purged", whether held or not
    held,     \* whether a legal hold is on it
    expired,  \* whether its retention has ended
    busy,     \* whether a delivery is under way
    named,    \* whether some row still names a person
    spent     \* decisions that have moved it

vars == <<stage, held, expired, busy, named, spent>>

Init ==
    /\ stage \in {"new", "active"}
    /\ named = (stage = "active")
    /\ held = FALSE /\ expired = FALSE /\ busy = FALSE
    /\ spent = {}

Used ==
    \E d \in Decisions \cup {None} : d \notin spent /\ spent' = (spent \cup {d}) \ {None}

\* Writes to the candidate and records about it, as long as it is not erased.
Work ==
    /\ stage \in {"new", "active"}
    /\ stage' = stage \/ stage' = "active"
    /\ named' \in {named, TRUE} /\ busy' \in BOOLEAN
    /\ UNCHANGED <<held, expired, spent>>

Settle == busy' = FALSE /\ UNCHANGED <<stage, held, expired, named, spent>>

Expire == expired' = TRUE /\ UNCHANGED <<stage, held, busy, named, spent>>

Hold ==
    /\ stage # "new" /\ ~held
    /\ held' = TRUE /\ named' \in {named, stage = "active"} /\ Used
    /\ UNCHANGED <<stage, expired, busy>>

Release ==
    /\ held
    /\ held' = FALSE /\ named' \in {named, stage = "active"} /\ Used
    /\ UNCHANGED <<stage, expired, busy>>

Erase ==
    /\ stage = "active" /\ ~held /\ ~busy
    /\ stage' = "erased" /\ named' = FALSE /\ Used
    /\ UNCHANGED <<held, expired, busy>>

Purge ==
    /\ stage = "erased" /\ ~held /\ ~busy /\ expired
    /\ stage' = "purged" /\ Used
    /\ UNCHANGED <<held, expired, busy, named>>

Next == Work \/ Settle \/ Expire \/ Hold \/ Release \/ Erase \/ Purge

Spec == Init /\ [][Next]_vars
=============================================================================
