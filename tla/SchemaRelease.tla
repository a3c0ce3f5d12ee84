---------------------------- MODULE SchemaRelease ----------------------------
(***************************************************************************)
(* What a deployment promises of the schema of the database.               *)
(*                                                                         *)
(* The database stands at a prefix of the migrations of some image.  A     *)
(* deployment takes it to the end of an image that continues it, a         *)
(* rollback takes away the latest of them, an adoption writes the history  *)
(* of a schema that has none: each as a whole, or not at all.              *)
(***************************************************************************)
EXTENDS Integers, Sequences

CONSTANTS
    Images,       \* sequences of migrations, one for each image
    Structural,   \* migrations that change the structure of the tables
    Legacies      \* structures a database may have before its first deployment

VARIABLES history, schema

vars == <<history, schema>>

Structure(s) == {s[n] : n \in DOMAIN s} \cap Structural

IsPrefix(s, t) == Len(s) <= Len(t) /\ \A n \in 1..Len(s) : s[n] = t[n]

Init == history = <<>> /\ schema \in Legacies \cup {{}}

Deploy(image) ==
    /\ IsPrefix(history, image)
    /\ history = <<>> => schema = {}
    /\ history' = image
    /\ schema' = schema \cup Structure(image)

Withdraw(image) ==
    /\ IsPrefix(history, image)
    /\ \E n \in 0..Len(history) : history' = SubSeq(history, 1, n)
    /\ schema' = Structure(history')

Adopt(image) ==
    /\ history = <<>> /\ schema # {} /\ schema = Structure(image)
    /\ history' = image
    /\ UNCHANGED schema

Next == \E image \in Images : Deploy(image) \/ Withdraw(image) \/ Adopt(image)

Spec == Init /\ [][Next]_vars
=============================================================================
