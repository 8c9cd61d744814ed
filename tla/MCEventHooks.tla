---------------------------- MODULE MCEventHooks ----------------------------
(* An instance of EventHooks for TLC: what the components of a node hook to
   satelliteMergerEvent, and a function hooked before the team begins. *)
EXTENDS EventHooks

Labels == {"remnantStructure", "nodeComponentDisk", "nodeComponentSpheroid"}

Before == <<"blackHole">>

Bindings ==
  [f \in Labels \cup {"blackHole"} |->
     IF f = "blackHole" THEN "allLevels" ELSE "atLevel"]

After(fs) == [direction |-> "after", matches |-> fs]

Components ==
  [f \in Labels \cup {"blackHole"} |->
     CASE f = "remnantStructure" -> <<>>
       [] f = "blackHole" ->
            <<[direction |-> "before", matches |-> {"remnantStructure"}]>>
       [] f = "nodeComponentDisk" -> <<After({"remnantStructure"})>>
       [] f = "nodeComponentSpheroid" ->
            <<After({"remnantStructure"}), After({"nodeComponentDisk"})>>]

ASSUME DependenciesCanBeKept == Satisfiable

-----------------------------------------------------------------------------
(* The sort by itself: it orders the objects that wait, at any remove, for none
   that waits for itself, each after all that it waits for, and loses none of
   the others.  TLC evaluates this for every list of up to three dependencies
   between up to four objects. *)
WaitsFor(n, dependencies) ==
  LET once == [i \in 1 .. n |-> {d[2] : d \in {x \in ToSet(dependencies) :
                                                 x[1] = i /\ x[2] # i}}]
      Further(waits, r) == [i \in 1 .. n |-> waits[i] \cup UNION {once[m] : m \in waits[i]}]
  IN  FoldLeft(Further, once, [r \in 1 .. n |-> r])

SortsAsPromised(n, dependencies) ==
  LET sorted == SortTopological(n, dependencies)
      ordered == SubSeq(sorted.order, 1, sorted.countOrdered)
      waits == WaitsFor(n, dependencies)
      Circular(i) == i \in waits[i]
  IN  /\ ToSet(sorted.order) = 1 .. n
      /\ ToSet(ordered) = {i \in 1 .. n : \A m \in waits[i] \cup {i} : ~ Circular(m)}
      /\ \A p \in DOMAIN ordered :
           waits[ordered[p]] \subseteq {ordered[q] : q \in 1 .. p - 1}

ASSUME SortIsTopological ==
  \A n \in 1 .. 4, l \in 0 .. 3 :
    \A dependencies \in [1 .. l -> (1 .. n) \X (1 .. n)] :
      SortsAsPromised(n, dependencies)
=============================================================================
