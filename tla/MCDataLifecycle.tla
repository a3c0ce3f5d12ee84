-------------------------- MODULE MCDataLifecycle --------------------------
(***************************************************************************)
(* Commands that meet each other: the same key with other content, two     *)
(* decisions under one nonce, one posture for a release and an erasure, a  *)
(* preview without a second person, and the way from the hold to the       *)
(* purge, over a pack that is linked meanwhile.                            *)
(***************************************************************************)
EXTENDS DataLifecycle

Signed(id, nonce) == [id |-> id, nonce |-> nonce]
Posture(id, posture) == [id |-> id, digest |-> id, posture |-> posture]

Of(key, action, receipt, archive) ==
    [key |-> key, action |-> action, dry |-> FALSE, receipt |-> receipt,
     archive |-> archive, two |-> TRUE, fit |-> TRUE]

MCCommands == {
    Of("k1", "apply_hold", Signed("d1", "n1"), Posture("a1", "legal_hold")),
    [Of("k1", "erase", None, None) EXCEPT !.dry = TRUE, !.two = FALSE],
    Of("k2", "erase", None, Posture("a2", "disposed")),
    Of("k3", "release_hold", None, Posture("a2", "disposed")),
    Of("k3", "purge", Signed("d2", "n1"), Posture("a3", "disposed")) }
=============================================================================
