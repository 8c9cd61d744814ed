------------------------------ MODULE MCFileLock ------------------------------
(* Instances of FileLock for TLC. *)
EXTENDS FileLock

ThreeThreads == {"a1", "a2", "b1"}

TwoAndOne == [t \in ThreeThreads |-> IF t = "b1" THEN "b" ELSE "a"]
=============================================================================
