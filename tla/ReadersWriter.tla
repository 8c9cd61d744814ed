---------------------------- MODULE ReadersWriter ----------------------------
(***************************************************************************)
(* What a read/write lock promises its callers (source/utility.locks.F90,  *)
(* description of setWrite): the write lock is had only when every read    *)
(* and write lock has been released, and while it is held no read lock can *)
(* be had.                                                                 *)
(***************************************************************************)
CONSTANTS Thread, Nobody

VARIABLES readers, writer

vars == <<readers, writer>>

Init == readers = {} /\ writer = Nobody

Enter(t) ==
  /\ writer = Nobody
  /\ readers' = readers \cup {t}
  /\ UNCHANGED writer

Leave(t) ==
  /\ t \in readers
  /\ readers' = readers \ {t}
  /\ UNCHANGED writer

Seize(t) ==
  /\ readers = {} /\ writer = Nobody
  /\ writer' = t
  /\ UNCHANGED readers

Yield(t) ==
  /\ writer = t
  /\ writer' = Nobody
  /\ UNCHANGED readers

Next == \E t \in Thread : Enter(t) \/ Leave(t) \/ Seize(t) \/ Yield(t)

Spec == Init /\ [][Next]_vars
=============================================================================
