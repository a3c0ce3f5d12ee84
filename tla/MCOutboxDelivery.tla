-------------------------- MODULE MCOutboxDelivery --------------------------
(* Small instances of OutboxDelivery for TLC.                              *)
EXTENDS OutboxDelivery, TLC

\* Calls of one kind are interchangeable, and so are keys of one kind.
Symmetry == Permutations(DeliveryCalls) \cup Permutations(RecoveryCalls)
               \cup Permutations(DeliveryKeys) \cup Permutations(RecoveryKeys)
=============================================================================
