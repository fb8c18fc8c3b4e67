----------------------------- MODULE MCAtomicPublish -----------------------------
(* Small instances of AtomicPublish for TLC.                               *)
EXTENDS AtomicPublish, TLC

CONSTANTS a, w, q1, q2

Two == {a, w}

(* The two sessions run in one process or in two.                          *)
OneOrTwo == {[p \in Two |-> q1], a :> q1 @@ w :> q2}
(* One capability appends, the other rewrites the file as it is.           *)
AppendAndWrite == a :> "Append" @@ w :> "Write"
===============================================================================
