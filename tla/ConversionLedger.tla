-------------------------- MODULE ConversionLedger --------------------------
(***************************************************************************)
(* What is promised of the posture of a conversion intent.                 *)
(*                                                                         *)
(* An owner reports how the work it was given goes on.  The posture that   *)
(* stands moves by one version at a time: first to a report a stream may   *)
(* open with, then along the order of progression, and against that order  *)
(* only by an explicit correction of the posture that stands.  Callers,    *)
(* keys, locks and repeated reports are not seen.                          *)
(***************************************************************************)
EXTENDS Integers

CONSTANTS Intents

VARIABLE stand  \* the posture of each intent; version 0: there is none

Opening == {"requested", "accepted", "rejected", "failed"}

Onward(status) ==
    CASE status = "requested" -> {"accepted", "rejected", "failed"}
      [] status = "accepted" -> {"completed"}
      [] OTHER -> {}

Unreported == [version |-> 0, status |-> "none", corrected |-> FALSE]

Init == stand \in [Intents -> [version : Nat, corrected : {FALSE},
                               status : Opening \cup {"completed", "none"}]]

Move(i, status, corrected) ==
    stand' = [stand EXCEPT ![i] = [version |-> stand[i].version + 1, status |-> status,
                                   corrected |-> corrected]]

Open(i) ==
    /\ stand[i] = Unreported
    /\ \E status \in Opening : Move(i, status, FALSE)

Progress(i) ==
    /\ stand[i].version > 0
    /\ \E status \in Onward(stand[i].status) : Move(i, status, FALSE)

\* The owner takes back what it said; nothing goes back to being requested.
Correct(i) ==
    /\ stand[i].version > 0
    /\ \E status \in (Opening \cup {"completed"}) \ {"requested"} : Move(i, status, TRUE)

Next == \E i \in Intents : Open(i) \/ Progress(i) \/ Correct(i)

Spec == Init /\ [][Next]_stand
=============================================================================
