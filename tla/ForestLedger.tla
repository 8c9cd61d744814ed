----------------------------- MODULE ForestLedger -----------------------------
(***************************************************************************)
(* What the task of evolving forests promises, whatever its threads,       *)
(* stacks, barriers and evolver do (source/tasks.evolve_forests.F90,       *)
(* comment before "Begin task"): each forest is processed to each          *)
(* successive output time and laid aside when an event requires it; when   *)
(* all forests have come that far the event is performed, and those laid   *)
(* aside are processed further.                                            *)
(***************************************************************************)
EXTENDS Naturals, Sequences

CONSTANTS
  Forest,     \* the forests of the run
  NOutputs,   \* how many output times there are
  FirstOutput,   \* [Forest -> first output the forest is due at]
  FirstAgenda \* the universal events attached before the first forest

VARIABLES
  phase,      \* where each forest is in its life
  output,     \* the outputs written of each forest
  agenda      \* the universal events still to be performed

vars == <<phase, output, agenda>>

Init ==
  /\ phase = [f \in Forest |-> "unbuilt"]
  /\ output = [f \in Forest |-> <<>>]
  /\ agenda = FirstAgenda

Become(f, from, to) ==
  /\ phase[f] = from
  /\ phase' = [phase EXCEPT ![f] = to]

(* A thread takes a forest: a new one, or one that was laid aside earlier. *)
Take(f) ==
  /\ Become(f, "unbuilt", "evolving") \/ Become(f, "waiting", "evolving")
  /\ UNCHANGED <<output, agenda>>

(* The next output of a forest is written, none twice and none left out. *)
Write(f) ==
  /\ phase[f] = "evolving"
  /\ FirstOutput[f] + Len(output[f]) <= NOutputs
  /\ output' = [output EXCEPT ![f] = Append(@, FirstOutput[f] + Len(@))]
  /\ UNCHANGED <<phase, agenda>>

LayAside(f) ==
  /\ Become(f, "evolving", "aside")
  /\ UNCHANGED <<output, agenda>>

Finish(f) ==
  /\ Become(f, "evolving", "complete")
  /\ UNCHANGED <<output, agenda>>

(* Every forest has come as far as it can.  At most one event is performed, no
   later than any other; those its task attaches lie after it. *)
Turn ==
  /\ \A f \in Forest : phase[f] \in {"aside", "complete"}
  /\ \E f \in Forest : phase[f] = "aside"
  /\ phase' = [f \in Forest |-> IF phase[f] = "aside" THEN "waiting"
                                                       ELSE phase[f]]
  /\ \/ agenda' = agenda
     \/ \E e \in agenda :
          /\ e \notin agenda'
          /\ \A x \in agenda : e.time <= x.time
          /\ agenda \ {e} \subseteq agenda'
          /\ \A x \in agenda' \ agenda : e.time < x.time
  /\ UNCHANGED output

Next ==
  \/ \E f \in Forest : Take(f) \/ Write(f) \/ LayAside(f) \/ Finish(f)
  \/ Turn

Spec == Init /\ [][Next]_vars
===============================================================================
