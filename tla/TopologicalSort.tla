--------------------------- MODULE TopologicalSort ---------------------------
(***************************************************************************)
(* The topological sort of source/numerical.sort.topological.F90.  Objects *)
(* are numbered from 1; a dependency <<left, right>> says that left comes  *)
(* after right.  The objects that wait for others are swapped to the end   *)
(* of the order, where the next round looks at them again; those it leaves *)
(* behind are in their place.                                              *)
(***************************************************************************)
EXTENDS Integers, Sequences, SequencesExt

(* order and its inverse; the objects from j on are not in their place yet,
   and those from k on wait for others. *)
Swap(s, left) ==
  LET k == s.k - 1
  IN  [s EXCEPT !.k = k,
                !.position = [@ EXCEPT ![s.order[k]] = s.position[left],
                                       ![left] = k],
                !.order = [@ EXCEPT ![s.position[left]] = s.order[k],
                                    ![k] = left]]

Consider(s, dependency) ==
  LET left == dependency[1]
      right == dependency[2]
  IN  IF \/ left = right
         \/ s.position[left] \notin s.j .. s.k - 1
         \/ s.position[right] < s.j
      THEN s
      ELSE Swap(s, left)

Round(n, s, dependencies) ==
  LET considered[i \in 0 .. Len(dependencies)] ==
        IF i = 0 THEN [s EXCEPT !.j = s.k, !.k = n + 1]
        ELSE Consider(considered[i - 1], dependencies[i])
  IN  considered[Len(dependencies)]

(* No round but the last leaves every object where it was, so there are no
   more rounds than objects and one; the rounds end when k <= j. *)
SortTopological(n, dependencies) ==
  LET unsorted == [i \in 1 .. n |-> i]
      start == [order |-> unsorted, position |-> unsorted, j |-> 0, k |-> 1]
      NextRound(s) == IF s.k <= s.j THEN s ELSE Round(n, s, dependencies)
      after[r \in 0 .. n + 1] == IF r = 0 THEN start ELSE NextRound(after[r - 1])
      sorted == after[n + 1]
  IN  [order |-> sorted.order, countOrdered |-> sorted.j - 1]
=============================================================================
