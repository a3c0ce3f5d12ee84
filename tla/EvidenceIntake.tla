---------------------------- MODULE EvidenceIntake ----------------------------
(***************************************************************************)
(* What source ingestion promises of the candidates it keeps, whatever     *)
(* runs overlap, stop half way and are run again.                          *)
(*                                                                         *)
(* A key adopts one observation and no other.  A candidate shows the facts *)
(* of the last observation adopted for it, under a new version when they   *)
(* are materially new.  A candidate that has ended lives again only with a *)
(* new version.  An erased candidate adopts nothing, and only its keys are *)
(* ever forgotten.                                                         *)
(***************************************************************************)
EXTENDS Integers

CONSTANTS Scopes, Keys, Observations, None

VARIABLES
    shown,    \* scope -> version, facts, and whether it is live
    adopted,  \* key -> the observation it adopted
    gone      \* scopes whose candidate is erased

intake == <<shown, adopted, gone>>

Nothing == [version |-> 0, material |-> None, proof |-> None, live |-> FALSE]

Init ==
    /\ shown = [s \in Scopes |-> Nothing]
    /\ adopted = [k \in Keys |-> None]
    /\ gone = {}

Showing(c, o) ==
    IF c.version > 0 /\ c.material = o.material
    THEN [c EXCEPT !.proof = o.proof]
    ELSE [version |-> c.version + 1, material |-> o.material, proof |-> o.proof,
          live |-> TRUE]

Adopt(k) ==
    LET o == adopted'[k] IN
    /\ adopted[k] = None
    /\ o \in Observations /\ o.scope \notin gone
    /\ adopted' = [adopted EXCEPT ![k] = o]
    /\ shown' = [shown EXCEPT ![o.scope] = Showing(shown[o.scope], o)]
    /\ UNCHANGED gone

\* Retired by an evaluation, closed, rejected or converted.
End(s) ==
    /\ shown[s].live
    /\ shown' = [shown EXCEPT ![s].live = FALSE]
    /\ UNCHANGED <<adopted, gone>>

Erase(s) ==
    /\ gone' = gone \cup {s}
    /\ UNCHANGED <<shown, adopted>>

Forget(s) ==
    /\ s \in gone
    /\ adopted' = [k \in Keys |->
           IF adopted[k] # None /\ adopted[k].scope = s THEN None ELSE adopted[k]]
    /\ UNCHANGED <<shown, gone>>

Next ==
    \/ \E k \in Keys : Adopt(k)
    \/ \E s \in Scopes : End(s) \/ Erase(s) \/ Forget(s)

Spec == Init /\ [][Next]_intake
=============================================================================
