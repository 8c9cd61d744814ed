--------------------------- MODULE ForestTask_proofs ---------------------------
(***************************************************************************)
(* Theorems about ForestTask, for every team of threads, every number of   *)
(* forests, and every choice of output times, events and transfers.        *)
(***************************************************************************)
EXTENDS ForestTask, FiniteSetTheorems, SequenceTheorems, WellFoundedInduction,
        TLAPS

USE TeamAssumption, ForestAssumption, FlagAssumption

-------------------------------------------------------------------------------
(* The operators of the model *)

NatOrder == OpToRel(<, Nat)

(* A non-empty set of naturals has a least element, and Least is it. *)
LEMMA LeastIsLeast ==
  ASSUME NEW S, S \subseteq Nat, S # {}
  PROVE  Least(S) \in S /\ \A y \in S : Least(S) <= y
<1>1. IsWellFoundedOn(NatOrder, Nat)
  BY NatLessThanWellFounded, Zenon DEF NatOrder
<1>2. \E x \in S : \A y \in S : ~ (<<y, x>> \in NatOrder)
  BY <1>1, WFMin
<1>3. \A x, y \in Nat : <<y, x>> \in NatOrder <=> y < x
  BY Zenon DEF NatOrder, OpToRel
<1>4. \A x, y \in Nat : ~(y < x) => x <= y
  OBVIOUS
<1>5. \E x \in S : \A y \in S : x <= y
  BY <1>2, <1>3, <1>4
<1> QED
  BY <1>5 DEF Least

(* The output times are naturals, indexed from one. *)
LEMMA OutputTimes ==
  /\ NOutputs \in Nat \ {0}
  /\ \A i \in 1 .. NOutputs : OutputTime[i] \in Nat
BY OutputAssumption DEF NOutputs

(* timeNext answers with the index of an output, or with 0. *)
LEMMA TimeNextType ==
  ASSUME NEW t \in Nat
  PROVE  timeNext(t) \in 0 .. NOutputs
<1> DEFINE S == {NOutputs} \union {i \in 1 .. NOutputs : OutputTime[i] > t}
<1>1. S \subseteq 1 .. NOutputs /\ S # {}
  BY OutputTimes
<1>2. Least(S) \in S
  BY <1>1, OutputTimes, LeastIsLeast
<1> QED
  BY <1>1, <1>2, OutputTimes DEF timeNext

(* So does firstOutput. *)
LEMMA FirstOutputType ==
  ASSUME TypeOK, NEW f \in Forest, NEW isNew \in BOOLEAN
  PROVE  firstOutput(f, isNew) \in 0 .. NOutputs
<1>1. timeNext(time[f]) \in 0 .. NOutputs
  BY TimeNextType DEF TypeOK, ForestsOK
<1> QED
  BY <1>1, OutputTimes DEF firstOutput

(* Every event on the universe's list has a natural time. *)
LEMMA EventTimes ==
  ASSUME NEW e \in Event
  PROVE  /\ e.time \in Nat
         /\ e.creator \in Creators
         /\ e.index \in 1 .. Len(Schedule[e.creator])
BY EventAssumption DEF Event, EventOf

(* Removing an element of a sequence leaves a sequence of the same elements. *)
LEMMA WithoutType ==
  ASSUME NEW S, NEW q \in Seq(S), NEW i \in DOMAIN q
  PROVE  Without(q, i) \in Seq(S)
<1>1. Len(q) \in Nat /\ i \in 1 .. Len(q)
  BY LenProperties
<1>2. SubSeq(q, 1, i - 1) \in Seq(S)
  BY <1>1, SubSeqProperties
<1>3. SubSeq(q, i + 1, Len(q)) \in Seq(S)
  BY <1>1, SubSeqProperties
<1> QED
  BY <1>2, <1>3, ConcatProperties DEF Without

(* What the task of an event attaches is a sequence of events. *)
LEMMA NextEventType ==
  ASSUME NEW e \in Event
  PROVE  NextEvent(e) \in Seq(Event)
<1>1. CASE /\ e.index < Len(Schedule[e.creator])
           /\ NextEvent(e) = <<EventOf(e.creator, e.index + 1)>>
  <2>1. Schedule[e.creator] \in Seq(Nat) /\ e.creator \in Creators
    BY EventTimes, EventAssumption
  <2>2. e.index + 1 \in DOMAIN Schedule[e.creator]
    BY <1>1, <2>1, EventTimes, LenProperties
  <2>3. EventOf(e.creator, e.index + 1) \in Event
    BY <2>1, <2>2 DEF Event
  <2> QED
    BY <1>1, <2>3
<1>2. CASE NextEvent(e) = <<>>
  BY <1>2
<1> QED
  BY <1>1, <1>2 DEF NextEvent

-------------------------------------------------------------------------------
(* Type correctness *)

\* A thread holds a tree from the plan of its evolution to its release, and has
\* an output ahead while it evolves it.
Evolving == {"limit", "begin", "evolve", "record", "finalize"}
Holding == Evolving \union {"plan", "release"}
HoldsForest == \A t \in Threads : pc[t] \in Holding => tree[t] \in Forest
HasOutput == \A t \in Threads : pc[t] \in Evolving => iOutput[t] \in 1 .. NOutputs
TypeInv == TypeOK /\ HoldsForest /\ HasOutput

(* The first events form a list of events. *)
LEMMA FirstEventsType == FirstEvents \subseteq Seq(Event)
<1> DEFINE active == {c \in Creators : Schedule[c] # <<>>}
<1>1. Cardinality(active) \in Nat
  <2>1. IsFiniteSet(active)
    BY EventAssumption, FS_Subset
  <2> QED
    BY <2>1, FS_CardinalityType
<1>2. \A c \in active : EventOf(c, 1) \in Event
  <2> SUFFICES ASSUME NEW c \in active PROVE 1 \in DOMAIN Schedule[c]
    BY DEF Event
  <2>1. Schedule[c] \in Seq(Nat) /\ Schedule[c] # <<>>
    BY EventAssumption
  <2>2. Len(Schedule[c]) \in Nat \ {0} /\ DOMAIN Schedule[c] = 1 .. Len(Schedule[c])
    BY <2>1, LenProperties, EmptySeq
  <2> QED
    BY <2>2
<1>3. {EventOf(c, 1) : c \in active} \subseteq Event
  BY <1>2
<1>4. \A q \in FirstEvents : q \in [1 .. Cardinality(active) -> Event]
  BY <1>3 DEF FirstEvents
<1> HIDE DEF active
<1> SUFFICES ASSUME NEW q \in FirstEvents PROVE q \in Seq(Event)
  OBVIOUS
<1> QED
  BY <1>1, <1>4, IsASeq

(* The initial state is typed. *)
LEMMA InitTypeInv == Init => TypeInv
<1> SUFFICES ASSUME Init PROVE TypeInv
  OBVIOUS
<1>1. events \in Seq(Event)
  BY FirstEventsType DEF Init
<1>2. FlagsOK
  BY DEF Init, FlagsOK
<1>3. UniverseOK
  BY <1>1 DEF Init, UniverseOK
<1>4. ThreadsOK
  BY OutputTimes DEF Init, ThreadsOK, Points, Working
<1>5. ForestsOK
  BY DEF Init, ForestsOK
<1>6. HoldsForest /\ HasOutput
  BY DEF Init, HoldsForest, HasOutput, Holding, Evolving
<1> QED
  BY <1>2, <1>3, <1>4, <1>5, <1>6 DEF TypeInv, TypeOK

\* The groups of variables an action leaves alone, and the points of the program.
USE DEF didEvolve, deadlock, universal, stacks, nodes, team, shared, loop, plan,
        limit, private, forests, At, Goto, Points, Working, Barriers

LEMMA FetchNewTyped ==
  ASSUME TypeInv, NEW t \in Threads, FetchNew(t)
  PROVE  TypeInv'
<1>1. FlagsOK'
  BY DEF FetchNew, TypeInv, TypeOK, FlagsOK
<1>2. UniverseOK'
  BY DEF FetchNew, TypeInv, TypeOK, UniverseOK, WorkLeft
<1>3. ThreadsOK'
  BY DEF FetchNew, TypeInv, TypeOK, ThreadsOK, Forest, WorkLeft, UniverseOK
<1>4. ForestsOK'
  BY DEF FetchNew, TypeInv, TypeOK, ForestsOK
<1>5. HoldsForest' /\ HasOutput'
  BY DEF FetchNew, TypeInv, TypeOK, ThreadsOK,
     HoldsForest, HasOutput, Holding, Evolving, Forest, WorkLeft, UniverseOK
<1> QED
  BY <1>1, <1>2, <1>3, <1>4, <1>5 DEF TypeInv, TypeOK

LEMMA FetchNoneTyped ==
  ASSUME TypeInv, NEW t \in Threads, FetchNone(t)
  PROVE  TypeInv'
<1>1. FlagsOK'
  BY DEF FetchNone, TypeInv, TypeOK, FlagsOK
<1>2. UniverseOK'
  BY DEF FetchNone, TypeInv, TypeOK, UniverseOK
<1>3. ThreadsOK'
  BY DEF FetchNone, TypeInv, TypeOK, ThreadsOK
<1>4. ForestsOK'
  BY DEF FetchNone, TypeInv, TypeOK, ForestsOK
<1>5. HoldsForest' /\ HasOutput'
  BY DEF FetchNone, TypeInv, TypeOK, ThreadsOK,
     HoldsForest, HasOutput, Holding, Evolving
<1> QED
  BY <1>1, <1>2, <1>3, <1>4, <1>5 DEF TypeInv, TypeOK

LEMMA ResumeTyped ==
  ASSUME TypeInv, NEW t \in Threads, Resume(t)
  PROVE  TypeInv'
<1> USE HeadTailProperties
<1>1. FlagsOK'
  BY DEF Resume, TypeInv, TypeOK, FlagsOK
<1>2. UniverseOK'
  BY DEF Resume, TypeInv, TypeOK, UniverseOK, PopTree
<1>3. ThreadsOK'
  BY DEF Resume, TypeInv, TypeOK, ThreadsOK, UniverseOK
<1>4. ForestsOK'
  BY DEF Resume, TypeInv, TypeOK, ForestsOK, AfterRestore
<1>5. HoldsForest' /\ HasOutput'
  BY DEF Resume, TypeInv, TypeOK, ThreadsOK,
     HoldsForest, HasOutput, Holding, Evolving, UniverseOK
<1> QED
  BY <1>1, <1>2, <1>3, <1>4, <1>5 DEF TypeInv, TypeOK

LEMMA ResumeNoneTyped ==
  ASSUME TypeInv, NEW t \in Threads, ResumeNone(t)
  PROVE  TypeInv'
<1>1. FlagsOK'
  BY DEF ResumeNone, TypeInv, TypeOK, FlagsOK
<1>2. UniverseOK'
  BY DEF ResumeNone, TypeInv, TypeOK, UniverseOK
<1>3. ThreadsOK'
  BY DEF ResumeNone, TypeInv, TypeOK, ThreadsOK
<1>4. ForestsOK'
  BY DEF ResumeNone, TypeInv, TypeOK, ForestsOK
<1>5. HoldsForest' /\ HasOutput'
  BY DEF ResumeNone, TypeInv, TypeOK, ThreadsOK,
     HoldsForest, HasOutput, Holding, Evolving
<1> QED
  BY <1>1, <1>2, <1>3, <1>4, <1>5 DEF TypeInv, TypeOK

LEMMA PlanTyped ==
  ASSUME TypeInv, NEW t \in Threads, Plan(t)
  PROVE  TypeInv'
<1> DEFINE i == firstOutput(tree[t], treeIsNew[t])
<1>0. i \in 0 .. NOutputs
  <2>1. tree[t] \in Forest /\ treeIsNew[t] \in BOOLEAN
    BY DEF Plan, TypeInv, TypeOK, FlagsOK, HoldsForest, Holding
  <2> QED
    BY <2>1, FirstOutputType DEF TypeInv
<1> HIDE DEF i
<1>1. FlagsOK'
  BY DEF Plan, TypeInv, TypeOK, FlagsOK, i
<1>2. UniverseOK'
  BY DEF Plan, TypeInv, TypeOK, UniverseOK
<1>3. ThreadsOK'
  BY <1>0, OutputTimes DEF Plan, TypeInv, TypeOK, ThreadsOK, i
<1>4. ForestsOK'
  BY DEF Plan, TypeInv, TypeOK, ForestsOK
<1>5. HoldsForest' /\ HasOutput'
  BY <1>0, OutputTimes DEF Plan, TypeInv, TypeOK, ThreadsOK,
     HoldsForest, HasOutput, Holding, Evolving, i
<1> QED
  BY <1>1, <1>2, <1>3, <1>4, <1>5 DEF TypeInv, TypeOK

LEMMA LimitTyped ==
  ASSUME TypeInv, NEW t \in Threads, Limit(t)
  PROVE  TypeInv'
<1> DEFINE target == OutputTime[iOutput[t]]
             first == Least(EventBefore(target) \union {target})
<1>0. first \in Nat
  <2>1. target \in Nat
    BY OutputTimes DEF Limit, TypeInv, HasOutput, Evolving
  <2>2. EventBefore(target) \subseteq Nat
    BY EventTimes DEF EventBefore, ElementsOf, TypeInv, TypeOK, UniverseOK
  <2> QED
    BY <2>1, <2>2, LeastIsLeast
<1> HIDE DEF first
<1>1. FlagsOK'
  BY DEF Limit, TypeInv, TypeOK, FlagsOK, first
<1>2. UniverseOK'
  BY <1>0 DEF Limit, TypeInv, TypeOK, UniverseOK, first
<1>3. ThreadsOK'
  BY <1>0 DEF Limit, TypeInv, TypeOK, ThreadsOK, first
<1>4. ForestsOK'
  BY DEF Limit, TypeInv, TypeOK, ForestsOK
<1>5. HoldsForest' /\ HasOutput'
  BY DEF Limit, TypeInv, TypeOK, ThreadsOK,
     HoldsForest, HasOutput, Holding, Evolving
<1> QED
  BY <1>1, <1>2, <1>3, <1>4, <1>5 DEF TypeInv, TypeOK

LEMMA EvolveBeginTyped ==
  ASSUME TypeInv, NEW t \in Threads, EvolveBegin(t)
  PROVE  TypeInv'
<1>1. FlagsOK'
  BY DEF EvolveBegin, TypeInv, TypeOK, FlagsOK
<1>2. UniverseOK'
  BY DEF EvolveBegin, TypeInv, TypeOK, UniverseOK
<1>3. ThreadsOK'
  BY DEF EvolveBegin, TypeInv, TypeOK, ThreadsOK
<1>4. ForestsOK'
  BY DEF EvolveBegin, TypeInv, TypeOK, ForestsOK
<1>5. HoldsForest' /\ HasOutput'
  BY DEF EvolveBegin, TypeInv, TypeOK, ThreadsOK,
     HoldsForest, HasOutput, Holding, Evolving
<1> QED
  BY <1>1, <1>2, <1>3, <1>4, <1>5 DEF TypeInv, TypeOK

LEMMA EvolveAdvanceTyped ==
  ASSUME TypeInv, NEW t \in Threads, EvolveAdvance(t)
  PROVE  TypeInv'
<1>1. FlagsOK'
  BY DEF EvolveAdvance, TypeInv, TypeOK, FlagsOK
<1>2. UniverseOK'
  BY DEF EvolveAdvance, TypeInv, TypeOK, UniverseOK
<1>3. ThreadsOK'
  BY DEF EvolveAdvance, TypeInv, TypeOK, ThreadsOK
<1>4. ForestsOK'
  BY DEF EvolveAdvance, TypeInv, TypeOK, ForestsOK, HoldsForest, Holding, Evolving
<1>5. HoldsForest' /\ HasOutput'
  BY DEF EvolveAdvance, TypeInv, TypeOK, ThreadsOK,
     HoldsForest, HasOutput, Holding, Evolving
<1> QED
  BY <1>1, <1>2, <1>3, <1>4, <1>5 DEF TypeInv, TypeOK

LEMMA EvolvePushTyped ==
  ASSUME TypeInv, NEW t \in Threads, EvolvePush(t)
  PROVE  TypeInv'
<1>1. FlagsOK'
  BY DEF EvolvePush, TypeInv, TypeOK, FlagsOK
<1>2. UniverseOK'
  BY DEF EvolvePush, TypeInv, TypeOK, UniverseOK, Due, PushDue
<1>3. ThreadsOK'
  BY DEF EvolvePush, TypeInv, TypeOK, ThreadsOK
<1>4. ForestsOK'
  BY DEF EvolvePush, TypeInv, TypeOK, ForestsOK
<1>5. HoldsForest' /\ HasOutput'
  BY DEF EvolvePush, TypeInv, TypeOK, ThreadsOK,
     HoldsForest, HasOutput, Holding, Evolving
<1> QED
  BY <1>1, <1>2, <1>3, <1>4, <1>5 DEF TypeInv, TypeOK

LEMMA EvolvePullTyped ==
  ASSUME TypeInv, NEW t \in Threads, EvolvePull(t)
  PROVE  TypeInv'
<1>1. FlagsOK'
  BY DEF EvolvePull, TypeInv, TypeOK, FlagsOK
<1>2. UniverseOK'
  BY DEF EvolvePull, TypeInv, TypeOK, UniverseOK, Due, PullDue
<1>3. ThreadsOK'
  BY DEF EvolvePull, TypeInv, TypeOK, ThreadsOK
<1>4. ForestsOK'
  BY DEF EvolvePull, TypeInv, TypeOK, ForestsOK
<1>5. HoldsForest' /\ HasOutput'
  BY DEF EvolvePull, TypeInv, TypeOK, ThreadsOK,
     HoldsForest, HasOutput, Holding, Evolving
<1> QED
  BY <1>1, <1>2, <1>3, <1>4, <1>5 DEF TypeInv, TypeOK

LEMMA EvolveSuspendTyped ==
  ASSUME TypeInv, NEW t \in Threads, EvolveSuspend(t)
  PROVE  TypeInv'
<1>1. FlagsOK'
  BY DEF EvolveSuspend, TypeInv, TypeOK, FlagsOK
<1>2. UniverseOK'
  BY DEF EvolveSuspend, TypeInv, TypeOK, UniverseOK
<1>3. ThreadsOK'
  BY DEF EvolveSuspend, TypeInv, TypeOK, ThreadsOK
<1>4. ForestsOK'
  BY DEF EvolveSuspend, TypeInv, TypeOK, ForestsOK
<1>5. HoldsForest' /\ HasOutput'
  BY DEF EvolveSuspend, TypeInv, TypeOK, ThreadsOK,
     HoldsForest, HasOutput, Holding, Evolving
<1> QED
  BY <1>1, <1>2, <1>3, <1>4, <1>5 DEF TypeInv, TypeOK

LEMMA EvolveEndTyped ==
  ASSUME TypeInv, NEW t \in Threads, EvolveEnd(t)
  PROVE  TypeInv'
<1>1. FlagsOK'
  BY DEF EvolveEnd, TypeInv, TypeOK, FlagsOK
<1>2. UniverseOK'
  BY DEF EvolveEnd, TypeInv, TypeOK, UniverseOK
<1>3. ThreadsOK'
  BY DEF EvolveEnd, TypeInv, TypeOK, ThreadsOK
<1>4. ForestsOK'
  BY DEF EvolveEnd, TypeInv, TypeOK, ForestsOK
<1>5. HoldsForest' /\ HasOutput'
  BY DEF EvolveEnd, TypeInv, TypeOK, ThreadsOK,
     HoldsForest, HasOutput, Holding, Evolving
<1> QED
  BY <1>1, <1>2, <1>3, <1>4, <1>5 DEF TypeInv, TypeOK

LEMMA RecordTyped ==
  ASSUME TypeInv, NEW t \in Threads, Record(t)
  PROVE  TypeInv'
<1>1. FlagsOK'
  BY DEF Record, TypeInv, TypeOK, FlagsOK, SomeEvolved, Limited
<1>2. UniverseOK'
  BY DEF Record, TypeInv, TypeOK, UniverseOK
<1>3. ThreadsOK'
  BY DEF Record, TypeInv, TypeOK, ThreadsOK
<1>4. ForestsOK'
  BY DEF Record, TypeInv, TypeOK, ForestsOK, Remnant, HoldsForest, Holding, Evolving
<1>5. HoldsForest' /\ HasOutput'
  BY DEF Record, TypeInv, TypeOK, ThreadsOK,
     HoldsForest, HasOutput, Holding, Evolving
<1> QED
  BY <1>1, <1>2, <1>3, <1>4, <1>5 DEF TypeInv, TypeOK

LEMMA FinalizeShortTyped ==
  ASSUME TypeInv, NEW t \in Threads, FinalizeShort(t)
  PROVE  TypeInv'
<1>1. FlagsOK'
  BY DEF FinalizeShort, TypeInv, TypeOK, FlagsOK
<1>2. UniverseOK'
  BY DEF FinalizeShort, TypeInv, TypeOK, UniverseOK, Errors
<1>3. ThreadsOK'
  BY DEF FinalizeShort, TypeInv, TypeOK, ThreadsOK
<1>4. ForestsOK'
  BY DEF FinalizeShort, TypeInv, TypeOK, ForestsOK
<1>5. HoldsForest' /\ HasOutput'
  BY DEF FinalizeShort, TypeInv, TypeOK, ThreadsOK,
     HoldsForest, HasOutput, Holding, Evolving
<1> QED
  BY <1>1, <1>2, <1>3, <1>4, <1>5 DEF TypeInv, TypeOK

LEMMA FinalizeLimitedTyped ==
  ASSUME TypeInv, NEW t \in Threads, FinalizeLimited(t)
  PROVE  TypeInv'
<1>1. FlagsOK'
  BY DEF FinalizeLimited, TypeInv, TypeOK, FlagsOK
<1>2. UniverseOK'
  BY DEF FinalizeLimited, TypeInv, TypeOK, UniverseOK
<1>3. ThreadsOK'
  BY DEF FinalizeLimited, TypeInv, TypeOK, ThreadsOK
<1>4. ForestsOK'
  BY DEF FinalizeLimited, TypeInv, TypeOK, ForestsOK
<1>5. HoldsForest' /\ HasOutput'
  BY DEF FinalizeLimited, TypeInv, TypeOK, ThreadsOK,
     HoldsForest, HasOutput, Holding, Evolving
<1> QED
  BY <1>1, <1>2, <1>3, <1>4, <1>5 DEF TypeInv, TypeOK

LEMMA FinalizeOutputTyped ==
  ASSUME TypeInv, NEW t \in Threads, FinalizeOutput(t)
  PROVE  TypeInv'
<1>1. FlagsOK'
  BY DEF FinalizeOutput, TypeInv, TypeOK, FlagsOK
<1>2. UniverseOK'
  BY DEF FinalizeOutput, TypeInv, TypeOK, UniverseOK
<1>3. ThreadsOK'
  BY OutputTimes DEF FinalizeOutput, TypeInv, TypeOK, ThreadsOK, HasOutput, Evolving
<1>4. ForestsOK'
  BY AppendProperties DEF FinalizeOutput, TypeInv, TypeOK, ForestsOK, HoldsForest, Holding, HasOutput, Evolving
<1>5. HoldsForest' /\ HasOutput'
  BY OutputTimes DEF FinalizeOutput, TypeInv, TypeOK, ThreadsOK,
     HoldsForest, HasOutput, Holding, Evolving
<1> QED
  BY <1>1, <1>2, <1>3, <1>4, <1>5 DEF TypeInv, TypeOK

LEMMA DestroyTyped ==
  ASSUME TypeInv, NEW t \in Threads, Destroy(t)
  PROVE  TypeInv'
<1>1. FlagsOK'
  BY DEF Destroy, TypeInv, TypeOK, FlagsOK
<1>2. UniverseOK'
  BY DEF Destroy, TypeInv, TypeOK, UniverseOK
<1>3. ThreadsOK'
  BY DEF Destroy, TypeInv, TypeOK, ThreadsOK
<1>4. ForestsOK'
  BY DEF Destroy, TypeInv, TypeOK, ForestsOK
<1>5. HoldsForest' /\ HasOutput'
  BY DEF Destroy, TypeInv, TypeOK, ThreadsOK,
     HoldsForest, HasOutput, Holding, Evolving
<1> QED
  BY <1>1, <1>2, <1>3, <1>4, <1>5 DEF TypeInv, TypeOK

LEMMA SuspendTyped ==
  ASSUME TypeInv, NEW t \in Threads, Suspend(t)
  PROVE  TypeInv'
<1>1. FlagsOK'
  BY DEF Suspend, TypeInv, TypeOK, FlagsOK
<1>2. UniverseOK'
  BY AppendProperties DEF Suspend, TypeInv, TypeOK, UniverseOK, PushTree, HoldsForest, Holding
<1>3. ThreadsOK'
  BY DEF Suspend, TypeInv, TypeOK, ThreadsOK
<1>4. ForestsOK'
  BY DEF Suspend, TypeInv, TypeOK, ForestsOK, HoldsForest, Holding
<1>5. HoldsForest' /\ HasOutput'
  BY DEF Suspend, TypeInv, TypeOK, ThreadsOK,
     HoldsForest, HasOutput, Holding, Evolving
<1> QED
  BY <1>1, <1>2, <1>3, <1>4, <1>5 DEF TypeInv, TypeOK

LEMMA DecideTyped ==
  ASSUME TypeInv, NEW t \in Threads, Decide(t)
  PROVE  TypeInv'
<1>1. FlagsOK'
  BY DEF Decide, TypeInv, TypeOK, FlagsOK
<1>2. UniverseOK'
  BY DEF Decide, TypeInv, TypeOK, UniverseOK
<1>3. ThreadsOK'
  BY DEF Decide, TypeInv, TypeOK, ThreadsOK
<1>4. ForestsOK'
  BY DEF Decide, TypeInv, TypeOK, ForestsOK
<1>5. HoldsForest' /\ HasOutput'
  BY DEF Decide, TypeInv, TypeOK, ThreadsOK,
     HoldsForest, HasOutput, Holding, Evolving
<1> QED
  BY <1>1, <1>2, <1>3, <1>4, <1>5 DEF TypeInv, TypeOK

LEMMA MasterStopsTyped ==
  ASSUME TypeInv, MasterStops
  PROVE  TypeInv'
<1>1. FlagsOK'
  BY DEF MasterStops, TypeInv, TypeOK, FlagsOK
<1>2. UniverseOK'
  BY DEF MasterStops, TypeInv, TypeOK, UniverseOK, Errors
<1>3. ThreadsOK'
  BY DEF MasterStops, TypeInv, TypeOK, ThreadsOK
<1>4. ForestsOK'
  BY DEF MasterStops, TypeInv, TypeOK, ForestsOK
<1>5. HoldsForest' /\ HasOutput'
  BY DEF MasterStops, TypeInv, TypeOK, ThreadsOK,
     HoldsForest, HasOutput, Holding, Evolving
<1> QED
  BY <1>1, <1>2, <1>3, <1>4, <1>5 DEF TypeInv, TypeOK

LEMMA MasterTransfersTyped ==
  ASSUME TypeInv, MasterTransfers
  PROVE  TypeInv'
<1>1. FlagsOK'
  BY DEF MasterTransfers, TypeInv, TypeOK, FlagsOK, Deadlocked
<1>2. UniverseOK'
  <2>1. error' \in Errors \union {None}
    BY DEF MasterTransfers, PerformEvent, Errors, TypeInv, TypeOK, UniverseOK
  <2>2. events' \in Seq(Event)
    <3>1. ASSUME NEW i \in DOMAIN events
          PROVE  Without(events, i) \o NextEvent(events[i]) \in Seq(Event)
      <4>1. events \in Seq(Event) /\ events[i] \in Event
        BY <3>1 DEF TypeInv, TypeOK, UniverseOK
      <4> QED
        BY <3>1, <4>1, WithoutType, NextEventType, ConcatProperties
    <3> QED
      BY <3>1 DEF MasterTransfers, PerformEvent, TypeInv, TypeOK, UniverseOK
  <2>3. universeWaiting' \in Seq(Forest) /\ universeProcessed' \in Seq(Forest)
    <3>1. CASE universeProcessed = <<>>
      BY <3>1 DEF MasterTransfers, TypeInv, TypeOK, UniverseOK
    <3>2. CASE universeProcessed # <<>>
      <4>1. universeWaiting' = universeProcessed /\ universeProcessed' = <<>>
        BY <3>2 DEF MasterTransfers
      <4> QED
        BY <4>1 DEF TypeInv, TypeOK, UniverseOK
    <3> QED
      BY <3>1, <3>2
  <2> QED
    BY <2>1, <2>2, <2>3 DEF MasterTransfers, TypeInv, TypeOK, UniverseOK
<1>3. ThreadsOK'
  BY DEF MasterTransfers, TypeInv, TypeOK, ThreadsOK
<1>4. ForestsOK'
  BY DEF MasterTransfers, TypeInv, TypeOK, ForestsOK
<1>5. HoldsForest' /\ HasOutput'
  BY DEF MasterTransfers, TypeInv, TypeOK, ThreadsOK,
     HoldsForest, HasOutput, Holding, Evolving
<1> QED
  BY <1>1, <1>2, <1>3, <1>4, <1>5 DEF TypeInv, TypeOK

LEMMA ResetTyped ==
  ASSUME TypeInv, Reset
  PROVE  TypeInv'
<1>1. FlagsOK'
  BY DEF Reset, TypeInv, TypeOK, FlagsOK, AfterReset
<1>2. UniverseOK'
  BY DEF Reset, TypeInv, TypeOK, UniverseOK
<1>3. ThreadsOK'
  BY DEF Reset, TypeInv, TypeOK, ThreadsOK, LoopTest
<1>4. ForestsOK'
  BY DEF Reset, TypeInv, TypeOK, ForestsOK
<1>5. HoldsForest' /\ HasOutput'
  BY DEF Reset, TypeInv, TypeOK, ThreadsOK,
     HoldsForest, HasOutput, Holding, Evolving, LoopTest
<1> QED
  BY <1>1, <1>2, <1>3, <1>4, <1>5 DEF TypeInv, TypeOK

LEMMA PassBarrierTyped ==
  ASSUME TypeInv, PassBarrier
  PROVE  TypeInv'
<1>1. FlagsOK'
  BY DEF PassBarrier, TypeInv, TypeOK, FlagsOK
<1>2. UniverseOK'
  BY DEF PassBarrier, TypeInv, TypeOK, UniverseOK
<1>3. ThreadsOK'
  BY DEF PassBarrier, TypeInv, TypeOK, ThreadsOK, AfterBarrier, BarrierMet, LoopTest
<1>4. ForestsOK'
  BY DEF PassBarrier, TypeInv, TypeOK, ForestsOK
<1>5. HoldsForest' /\ HasOutput'
  BY DEF PassBarrier, TypeInv, TypeOK, ThreadsOK,
     HoldsForest, HasOutput, Holding, Evolving, AfterBarrier, BarrierMet, LoopTest
<1> QED
  BY <1>1, <1>2, <1>3, <1>4, <1>5 DEF TypeInv, TypeOK

(* Every step of the task keeps the types. *)
LEMMA StepTypeInv == TypeInv /\ [Next]_vars => TypeInv'
<1> SUFFICES ASSUME TypeInv, [Next]_vars PROVE TypeInv'
  OBVIOUS
<1>1. ASSUME NEW t \in Threads, Fetch(t) PROVE TypeInv'
  BY <1>1, FetchNewTyped, FetchNoneTyped, ResumeTyped, ResumeNoneTyped DEF Fetch
<1>2. ASSUME NEW t \in Threads, Evolve(t) PROVE TypeInv'
  BY <1>2, EvolveBeginTyped, EvolveAdvanceTyped, EvolvePushTyped,
     EvolvePullTyped, EvolveSuspendTyped, EvolveEndTyped DEF Evolve
<1>3. ASSUME NEW t \in Threads, Finalize(t) PROVE TypeInv'
  BY <1>3, RecordTyped, FinalizeShortTyped, FinalizeLimitedTyped,
     FinalizeOutputTyped, DestroyTyped, SuspendTyped DEF Finalize
<1>4. ASSUME NEW t \in Threads, ThreadStep(t) PROVE TypeInv'
  BY <1>1, <1>2, <1>3, <1>4, PlanTyped, LimitTyped, DecideTyped DEF ThreadStep
<1>5. CASE MasterStep
  BY <1>5, MasterStopsTyped, MasterTransfersTyped, ResetTyped DEF MasterStep
<1>6. CASE PassBarrier
  BY <1>6, PassBarrierTyped
<1>7. CASE UNCHANGED vars
  BY <1>7 DEF vars, TypeInv, TypeOK, FlagsOK, UniverseOK, ThreadsOK, ForestsOK,
     HoldsForest, HasOutput
<1> QED
  BY <1>4, <1>5, <1>6, <1>7 DEF Next, Terminated

(* Type correctness of the task, for every team and every universe. *)
THEOREM TypeCorrect == Spec => []TypeOK
<1>1. TypeInv => TypeOK
  BY DEF TypeInv
<1> QED
  BY <1>1, InitTypeInv, StepTypeInv, PTL DEF Spec

-------------------------------------------------------------------------------
(* Barriers, and who owns a tree *)

(* The team goes through the phases of a pass together: it works, with the
   threads that found nothing left waiting at the first barrier; the master
   transfers the trees while the others wait; all decide whether to go on; and,
   unless they do, all are done.  The master resets the trigger a little later
   than the others go on. *)
Resetting(t, done) == t = Master /\ pc[t] = "reset" /\ finished[t] = done
InWork == \A t \in Threads : pc[t] \in Working \union {"passEnd"}
                             \/ Resetting(t, FALSE)
InMaster == /\ pc[Master] \in {"master", "universe"}
            /\ \A t \in Threads \ {Master} : pc[t] = "universe"
InDecide == \A t \in Threads : pc[t] \in {"decide", "trigger"}
InEnd == \A t \in Threads : pc[t] = "done" \/ Resetting(t, TRUE)
Phases == InWork \/ InMaster \/ InDecide \/ InEnd

\* A thread that left the work is finished, until the trigger calls it back.
Finished ==
  \A t \in Threads :
    /\ pc[t] \in {"passEnd", "master", "universe", "decide"} => finished[t] = TRUE
    /\ pc[t] = "trigger" => finished[t] = ~triggerFinishUniverse

\* A tree that is held or suspended was handed out, and only a thread that
\* evolves one holds one.
HandedOut == 1 .. forestNumber
Places ==
  /\ \A t \in Threads : IF pc[t] \in Holding THEN tree[t] \in HandedOut
                                             ELSE tree[t] = NoTree
  /\ Suspended \subseteq HandedOut

\* A thread leaves the work when nothing is left to fetch or to resume.
Exhausted ==
  /\ \A t \in Threads : pc[t] \in {"resume", "passEnd"} => forestNumber = NForests
  /\ \A t \in Threads : pc[t] = "passEnd" => universeWaiting = <<>>
  /\ pc[Master] = "master" => forestNumber = NForests /\ universeWaiting = <<>>

TeamInv == TypeInv /\ Phases /\ Finished /\ Exhausted
OwnerInv == TeamInv /\ Places /\ OneOwner /\ FilesAreSuspendedTrees


(* The team starts working, with every forest still to be handed out. *)
LEMMA InitTeamInv == Init => TeamInv
<1> SUFFICES ASSUME Init PROVE TeamInv
  OBVIOUS
<1>1. TypeInv
  BY InitTypeInv
<1>2. Phases
  BY DEF Init, Phases, InWork
<1>3. Finished /\ Exhausted
  BY DEF Init, Finished, Exhausted
<1> QED
  BY <1>1, <1>2, <1>3 DEF TeamInv

LEMMA FetchNewInStep ==
  ASSUME TeamInv, NEW t \in Threads, FetchNew(t)
  PROVE  TeamInv'
<1>1. TypeInv'
  BY FetchNewTyped DEF TeamInv
<1>2. Phases'
  BY DEF FetchNew, TeamInv, TypeInv, TypeOK,
     ThreadsOK, FlagsOK, Phases, InWork, InMaster, InDecide, InEnd, Resetting
<1>3. Finished'
  BY DEF FetchNew, TeamInv, TypeInv, TypeOK,
     ThreadsOK, FlagsOK, Finished
<1>4. Exhausted'
  BY DEF FetchNew, TeamInv, TypeInv, TypeOK,
     ThreadsOK, UniverseOK, WorkLeft, Exhausted
<1> QED
  BY <1>1, <1>2, <1>3, <1>4 DEF TeamInv

LEMMA FetchNoneInStep ==
  ASSUME TeamInv, NEW t \in Threads, FetchNone(t)
  PROVE  TeamInv'
<1>1. TypeInv'
  BY FetchNoneTyped DEF TeamInv
<1>2. Phases'
  BY DEF FetchNone, TeamInv, TypeInv, TypeOK,
     ThreadsOK, FlagsOK, Phases, InWork, InMaster, InDecide, InEnd, Resetting
<1>3. Finished'
  BY DEF FetchNone, TeamInv, TypeInv, TypeOK,
     ThreadsOK, FlagsOK, Finished
<1>4. Exhausted'
  BY DEF FetchNone, TeamInv, TypeInv, TypeOK,
     ThreadsOK, UniverseOK, WorkLeft, Exhausted
<1> QED
  BY <1>1, <1>2, <1>3, <1>4 DEF TeamInv

LEMMA ResumeInStep ==
  ASSUME TeamInv, NEW t \in Threads, Resume(t)
  PROVE  TeamInv'
<1>1. TypeInv'
  BY ResumeTyped DEF TeamInv
<1>2. Phases'
  BY DEF Resume, TeamInv, TypeInv, TypeOK,
     ThreadsOK, FlagsOK, Phases, InWork, InMaster, InDecide, InEnd, Resetting
<1>3. Finished'
  BY DEF Resume, TeamInv, TypeInv, TypeOK,
     ThreadsOK, FlagsOK, Finished
<1>4. Exhausted'
  BY DEF Resume, TeamInv, TypeInv, TypeOK,
     ThreadsOK, UniverseOK, PopTree, Exhausted
<1> QED
  BY <1>1, <1>2, <1>3, <1>4 DEF TeamInv

LEMMA ResumeNoneInStep ==
  ASSUME TeamInv, NEW t \in Threads, ResumeNone(t)
  PROVE  TeamInv'
<1>1. TypeInv'
  BY ResumeNoneTyped DEF TeamInv
<1>2. Phases'
  BY DEF ResumeNone, TeamInv, TypeInv, TypeOK,
     ThreadsOK, FlagsOK, Phases, InWork, InMaster, InDecide, InEnd, Resetting
<1>3. Finished'
  BY DEF ResumeNone, TeamInv, TypeInv, TypeOK,
     ThreadsOK, FlagsOK, Phases, InWork, InMaster, InDecide, InEnd, Resetting, Finished
<1>4. Exhausted'
  BY DEF ResumeNone, TeamInv, TypeInv, TypeOK,
     ThreadsOK, UniverseOK, Exhausted
<1> QED
  BY <1>1, <1>2, <1>3, <1>4 DEF TeamInv

LEMMA PlanInStep ==
  ASSUME TeamInv, NEW t \in Threads, Plan(t)
  PROVE  TeamInv'
<1>1. TypeInv'
  BY PlanTyped DEF TeamInv
<1>2. Phases'
  BY DEF Plan, TeamInv, TypeInv, TypeOK,
     ThreadsOK, FlagsOK, Phases, InWork, InMaster, InDecide, InEnd, Resetting
<1>3. Finished'
  BY DEF Plan, TeamInv, TypeInv, TypeOK,
     ThreadsOK, FlagsOK, Finished
<1>4. Exhausted'
  BY DEF Plan, TeamInv, TypeInv, TypeOK,
     ThreadsOK, UniverseOK, Exhausted
<1> QED
  BY <1>1, <1>2, <1>3, <1>4 DEF TeamInv

LEMMA LimitInStep ==
  ASSUME TeamInv, NEW t \in Threads, Limit(t)
  PROVE  TeamInv'
<1>1. TypeInv'
  BY LimitTyped DEF TeamInv
<1>2. Phases'
  BY DEF Limit, TeamInv, TypeInv, TypeOK,
     ThreadsOK, FlagsOK, Phases, InWork, InMaster, InDecide, InEnd, Resetting
<1>3. Finished'
  BY DEF Limit, TeamInv, TypeInv, TypeOK,
     ThreadsOK, FlagsOK, Finished
<1>4. Exhausted'
  BY DEF Limit, TeamInv, TypeInv, TypeOK,
     ThreadsOK, UniverseOK, Exhausted
<1> QED
  BY <1>1, <1>2, <1>3, <1>4 DEF TeamInv

LEMMA EvolveBeginInStep ==
  ASSUME TeamInv, NEW t \in Threads, EvolveBegin(t)
  PROVE  TeamInv'
<1>1. TypeInv'
  BY EvolveBeginTyped DEF TeamInv
<1>2. Phases'
  BY DEF EvolveBegin, TeamInv, TypeInv, TypeOK,
     ThreadsOK, FlagsOK, Phases, InWork, InMaster, InDecide, InEnd, Resetting
<1>3. Finished'
  BY DEF EvolveBegin, TeamInv, TypeInv, TypeOK,
     ThreadsOK, FlagsOK, Finished
<1>4. Exhausted'
  BY DEF EvolveBegin, TeamInv, TypeInv, TypeOK,
     ThreadsOK, UniverseOK, Exhausted
<1> QED
  BY <1>1, <1>2, <1>3, <1>4 DEF TeamInv

LEMMA EvolveAdvanceInStep ==
  ASSUME TeamInv, NEW t \in Threads, EvolveAdvance(t)
  PROVE  TeamInv'
<1>1. TypeInv'
  BY EvolveAdvanceTyped DEF TeamInv
<1>2. Phases'
  BY DEF EvolveAdvance, TeamInv, TypeInv, TypeOK,
     ThreadsOK, FlagsOK, Phases, InWork, InMaster, InDecide, InEnd, Resetting
<1>3. Finished'
  BY DEF EvolveAdvance, TeamInv, TypeInv, TypeOK,
     ThreadsOK, FlagsOK, Finished
<1>4. Exhausted'
  BY DEF EvolveAdvance, TeamInv, TypeInv, TypeOK,
     ThreadsOK, UniverseOK, Exhausted
<1> QED
  BY <1>1, <1>2, <1>3, <1>4 DEF TeamInv

LEMMA EvolvePushInStep ==
  ASSUME TeamInv, NEW t \in Threads, EvolvePush(t)
  PROVE  TeamInv'
<1>1. TypeInv'
  BY EvolvePushTyped DEF TeamInv
<1>2. Phases'
  BY DEF EvolvePush, TeamInv, TypeInv, TypeOK,
     ThreadsOK, FlagsOK, Phases, InWork, InMaster, InDecide, InEnd, Resetting
<1>3. Finished'
  BY DEF EvolvePush, TeamInv, TypeInv, TypeOK,
     ThreadsOK, FlagsOK, Finished
<1>4. Exhausted'
  BY DEF EvolvePush, TeamInv, TypeInv, TypeOK,
     ThreadsOK, UniverseOK, Exhausted
<1> QED
  BY <1>1, <1>2, <1>3, <1>4 DEF TeamInv

LEMMA EvolvePullInStep ==
  ASSUME TeamInv, NEW t \in Threads, EvolvePull(t)
  PROVE  TeamInv'
<1>1. TypeInv'
  BY EvolvePullTyped DEF TeamInv
<1>2. Phases'
  BY DEF EvolvePull, TeamInv, TypeInv, TypeOK,
     ThreadsOK, FlagsOK, Phases, InWork, InMaster, InDecide, InEnd, Resetting
<1>3. Finished'
  BY DEF EvolvePull, TeamInv, TypeInv, TypeOK,
     ThreadsOK, FlagsOK, Finished
<1>4. Exhausted'
  BY DEF EvolvePull, TeamInv, TypeInv, TypeOK,
     ThreadsOK, UniverseOK, Exhausted
<1> QED
  BY <1>1, <1>2, <1>3, <1>4 DEF TeamInv

LEMMA EvolveSuspendInStep ==
  ASSUME TeamInv, NEW t \in Threads, EvolveSuspend(t)
  PROVE  TeamInv'
<1>1. TypeInv'
  BY EvolveSuspendTyped DEF TeamInv
<1>2. Phases'
  BY DEF EvolveSuspend, TeamInv, TypeInv, TypeOK,
     ThreadsOK, FlagsOK, Phases, InWork, InMaster, InDecide, InEnd, Resetting
<1>3. Finished'
  BY DEF EvolveSuspend, TeamInv, TypeInv, TypeOK,
     ThreadsOK, FlagsOK, Finished
<1>4. Exhausted'
  BY DEF EvolveSuspend, TeamInv, TypeInv, TypeOK,
     ThreadsOK, UniverseOK, Exhausted
<1> QED
  BY <1>1, <1>2, <1>3, <1>4 DEF TeamInv

LEMMA EvolveEndInStep ==
  ASSUME TeamInv, NEW t \in Threads, EvolveEnd(t)
  PROVE  TeamInv'
<1>1. TypeInv'
  BY EvolveEndTyped DEF TeamInv
<1>2. Phases'
  BY DEF EvolveEnd, TeamInv, TypeInv, TypeOK,
     ThreadsOK, FlagsOK, Phases, InWork, InMaster, InDecide, InEnd, Resetting
<1>3. Finished'
  BY DEF EvolveEnd, TeamInv, TypeInv, TypeOK,
     ThreadsOK, FlagsOK, Finished
<1>4. Exhausted'
  BY DEF EvolveEnd, TeamInv, TypeInv, TypeOK,
     ThreadsOK, UniverseOK, Exhausted
<1> QED
  BY <1>1, <1>2, <1>3, <1>4 DEF TeamInv

LEMMA RecordInStep ==
  ASSUME TeamInv, NEW t \in Threads, Record(t)
  PROVE  TeamInv'
<1>1. TypeInv'
  BY RecordTyped DEF TeamInv
<1>2. Phases'
  BY DEF Record, TeamInv, TypeInv, TypeOK,
     ThreadsOK, FlagsOK, Phases, InWork, InMaster, InDecide, InEnd, Resetting
<1>3. Finished'
  BY DEF Record, TeamInv, TypeInv, TypeOK,
     ThreadsOK, FlagsOK, Finished
<1>4. Exhausted'
  BY DEF Record, TeamInv, TypeInv, TypeOK,
     ThreadsOK, UniverseOK, Exhausted
<1> QED
  BY <1>1, <1>2, <1>3, <1>4 DEF TeamInv

LEMMA FinalizeShortInStep ==
  ASSUME TeamInv, NEW t \in Threads, FinalizeShort(t)
  PROVE  TeamInv'
<1>1. TypeInv'
  BY FinalizeShortTyped DEF TeamInv
<1>2. Phases'
  <2>1. CASE deadlockReport
    BY <2>1 DEF FinalizeShort, TeamInv, TypeInv, TypeOK,
       ThreadsOK, FlagsOK, Phases, InWork, InMaster, InDecide, InEnd, Resetting
  <2>2. CASE ~deadlockReport
    BY <2>2 DEF FinalizeShort, TeamInv, TypeInv, TypeOK,
       ThreadsOK, FlagsOK, Phases, InWork, InMaster, InDecide, InEnd, Resetting
  <2> QED
    BY <2>1, <2>2
<1>3. Finished'
  BY DEF FinalizeShort, TeamInv, TypeInv, TypeOK,
     ThreadsOK, FlagsOK, Finished
<1>4. Exhausted'
  BY DEF FinalizeShort, TeamInv, TypeInv, TypeOK,
     ThreadsOK, UniverseOK, Exhausted
<1> QED
  BY <1>1, <1>2, <1>3, <1>4 DEF TeamInv

LEMMA FinalizeLimitedInStep ==
  ASSUME TeamInv, NEW t \in Threads, FinalizeLimited(t)
  PROVE  TeamInv'
<1>1. TypeInv'
  BY FinalizeLimitedTyped DEF TeamInv
<1>2. Phases'
  BY DEF FinalizeLimited, TeamInv, TypeInv, TypeOK,
     ThreadsOK, FlagsOK, Phases, InWork, InMaster, InDecide, InEnd, Resetting
<1>3. Finished'
  BY DEF FinalizeLimited, TeamInv, TypeInv, TypeOK,
     ThreadsOK, FlagsOK, Finished
<1>4. Exhausted'
  BY DEF FinalizeLimited, TeamInv, TypeInv, TypeOK,
     ThreadsOK, UniverseOK, Exhausted
<1> QED
  BY <1>1, <1>2, <1>3, <1>4 DEF TeamInv

LEMMA FinalizeOutputInStep ==
  ASSUME TeamInv, NEW t \in Threads, FinalizeOutput(t)
  PROVE  TeamInv'
<1>1. TypeInv'
  BY FinalizeOutputTyped DEF TeamInv
<1>2. Phases'
  BY DEF FinalizeOutput, TeamInv, TypeInv, TypeOK,
     ThreadsOK, FlagsOK, Phases, InWork, InMaster, InDecide, InEnd, Resetting
<1>3. Finished'
  BY DEF FinalizeOutput, TeamInv, TypeInv, TypeOK,
     ThreadsOK, FlagsOK, Finished
<1>4. Exhausted'
  BY DEF FinalizeOutput, TeamInv, TypeInv, TypeOK,
     ThreadsOK, UniverseOK, Exhausted
<1> QED
  BY <1>1, <1>2, <1>3, <1>4 DEF TeamInv

LEMMA DestroyInStep ==
  ASSUME TeamInv, NEW t \in Threads, Destroy(t)
  PROVE  TeamInv'
<1>1. TypeInv'
  BY DestroyTyped DEF TeamInv
<1>2. Phases'
  BY DEF Destroy, TeamInv, TypeInv, TypeOK,
     ThreadsOK, FlagsOK, Phases, InWork, InMaster, InDecide, InEnd, Resetting
<1>3. Finished'
  BY DEF Destroy, TeamInv, TypeInv, TypeOK,
     ThreadsOK, FlagsOK, Finished
<1>4. Exhausted'
  BY DEF Destroy, TeamInv, TypeInv, TypeOK,
     ThreadsOK, UniverseOK, Exhausted
<1> QED
  BY <1>1, <1>2, <1>3, <1>4 DEF TeamInv

LEMMA SuspendInStep ==
  ASSUME TeamInv, NEW t \in Threads, Suspend(t)
  PROVE  TeamInv'
<1>1. TypeInv'
  BY SuspendTyped DEF TeamInv
<1>2. Phases'
  BY DEF Suspend, TeamInv, TypeInv, TypeOK,
     ThreadsOK, FlagsOK, Phases, InWork, InMaster, InDecide, InEnd, Resetting
<1>3. Finished'
  BY DEF Suspend, TeamInv, TypeInv, TypeOK,
     ThreadsOK, FlagsOK, Finished
<1>4. Exhausted'
  BY DEF Suspend, TeamInv, TypeInv, TypeOK,
     ThreadsOK, UniverseOK, Exhausted
<1> QED
  BY <1>1, <1>2, <1>3, <1>4 DEF TeamInv

LEMMA DecideInStep ==
  ASSUME TeamInv, NEW t \in Threads, Decide(t)
  PROVE  TeamInv'
<1>1. TypeInv'
  BY DecideTyped DEF TeamInv
<1>2. Phases'
  BY DEF Decide, TeamInv, TypeInv, TypeOK,
     ThreadsOK, FlagsOK, Finished, Phases, InWork, InMaster, InDecide, InEnd, Resetting
<1>3. Finished'
  BY DEF Decide, TeamInv, TypeInv, TypeOK,
     ThreadsOK, FlagsOK, Phases, InWork, InMaster, InDecide, InEnd, Resetting, Finished
<1>4. Exhausted'
  BY DEF Decide, TeamInv, TypeInv, TypeOK,
     ThreadsOK, UniverseOK, Exhausted
<1> QED
  BY <1>1, <1>2, <1>3, <1>4 DEF TeamInv

LEMMA MasterStopsInStep ==
  ASSUME TeamInv, MasterStops
  PROVE  TeamInv'
<1>1. TypeInv'
  BY MasterStopsTyped DEF TeamInv
<1>2. Phases'
  BY DEF MasterStops, TeamInv, TypeInv, TypeOK,
     ThreadsOK, FlagsOK, Phases, InWork, InMaster, InDecide, InEnd, Resetting
<1>3. Finished'
  BY DEF MasterStops, TeamInv, TypeInv, TypeOK,
     ThreadsOK, FlagsOK, Finished
<1>4. Exhausted'
  BY DEF MasterStops, TeamInv, TypeInv, TypeOK,
     ThreadsOK, UniverseOK, Exhausted
<1> QED
  BY <1>1, <1>2, <1>3, <1>4 DEF TeamInv

LEMMA MasterTransfersInStep ==
  ASSUME TeamInv, MasterTransfers
  PROVE  TeamInv'
<1>1. TypeInv'
  BY MasterTransfersTyped DEF TeamInv
<1>2. Phases'
  BY ZenonT(30) DEF MasterTransfers, TeamInv, TypeInv, TypeOK,
     ThreadsOK, FlagsOK, Phases, InWork, InMaster, InDecide, InEnd, Resetting
<1>3. Finished'
  BY DEF MasterTransfers, TeamInv, TypeInv, TypeOK,
     ThreadsOK, FlagsOK, Phases, InWork, InMaster, InDecide, InEnd, Resetting, Finished
<1>4. Exhausted'
  BY DEF MasterTransfers, TeamInv, TypeInv, TypeOK,
     ThreadsOK, UniverseOK, Phases, InWork, InMaster, InDecide, InEnd, Resetting, Exhausted
<1> QED
  BY <1>1, <1>2, <1>3, <1>4 DEF TeamInv

LEMMA ResetInStep ==
  ASSUME TeamInv, Reset
  PROVE  TeamInv'
<1>1. TypeInv'
  BY ResetTyped DEF TeamInv
<1>2. Phases'
  BY DEF Reset, TeamInv, TypeInv, TypeOK,
     ThreadsOK, FlagsOK, LoopTest, Phases, InWork, InMaster, InDecide, InEnd, Resetting
<1>3. Finished'
  BY DEF Reset, TeamInv, TypeInv, TypeOK,
     ThreadsOK, FlagsOK, Phases, InWork, InMaster, InDecide, InEnd, Resetting, LoopTest, Finished
<1>4. Exhausted'
  BY DEF Reset, TeamInv, TypeInv, TypeOK,
     ThreadsOK, UniverseOK, LoopTest, Exhausted
<1> QED
  BY <1>1, <1>2, <1>3, <1>4 DEF TeamInv

LEMMA PassBarrierInStep ==
  ASSUME TeamInv, PassBarrier
  PROVE  TeamInv'
<1>1. TypeInv'
  BY PassBarrierTyped DEF TeamInv
<1>2. Phases'
  BY DEF PassBarrier, TeamInv, TypeInv, TypeOK,
     ThreadsOK, FlagsOK, AfterBarrier, BarrierMet, LoopTest, Finished, Phases, InWork, InMaster, InDecide, InEnd, Resetting
<1>3. Finished'
  BY DEF PassBarrier, TeamInv, TypeInv, TypeOK,
     ThreadsOK, FlagsOK, Phases, InWork, InMaster, InDecide, InEnd, Resetting, AfterBarrier, BarrierMet, LoopTest, Finished
<1>4. Exhausted'
  BY DEF PassBarrier, TeamInv, TypeInv, TypeOK,
     ThreadsOK, UniverseOK, Phases, InWork, InMaster, InDecide, InEnd, Resetting, AfterBarrier, BarrierMet, LoopTest, Exhausted
<1> QED
  BY <1>1, <1>2, <1>3, <1>4 DEF TeamInv
(* Every step of the task keeps the team in step. *)
LEMMA StepTeamInv == TeamInv /\ [Next]_vars => TeamInv'
<1> SUFFICES ASSUME TeamInv, [Next]_vars PROVE TeamInv'
  OBVIOUS
<1>1. ASSUME NEW t \in Threads, Fetch(t) PROVE TeamInv'
  BY <1>1, FetchNewInStep, FetchNoneInStep, ResumeInStep, ResumeNoneInStep DEF Fetch
<1>2. ASSUME NEW t \in Threads, Evolve(t) PROVE TeamInv'
  BY <1>2, EvolveBeginInStep, EvolveAdvanceInStep, EvolvePushInStep,
     EvolvePullInStep, EvolveSuspendInStep, EvolveEndInStep DEF Evolve
<1>3. ASSUME NEW t \in Threads, Finalize(t) PROVE TeamInv'
  BY <1>3, RecordInStep, FinalizeShortInStep, FinalizeLimitedInStep,
     FinalizeOutputInStep, DestroyInStep, SuspendInStep DEF Finalize
<1>4. ASSUME NEW t \in Threads, ThreadStep(t) PROVE TeamInv'
  BY <1>1, <1>2, <1>3, <1>4, PlanInStep, LimitInStep, DecideInStep DEF ThreadStep
<1>5. CASE MasterStep
  BY <1>5, MasterStopsInStep, MasterTransfersInStep, ResetInStep DEF MasterStep
<1>6. CASE PassBarrier
  BY <1>6, PassBarrierInStep
<1>7. CASE UNCHANGED vars
  <2>1. TypeInv'
    BY <1>7, StepTypeInv DEF TeamInv
  <2>2. Phases' /\ Finished' /\ Exhausted'
    BY <1>7 DEF vars, TeamInv, Phases, InWork, InMaster, InDecide, InEnd,
       Resetting, Finished, Exhausted
  <2> QED
    BY <2>1, <2>2 DEF TeamInv
<1> QED
  BY <1>4, <1>5, <1>6, <1>7 DEF Next, Terminated

(* The threads of a team never wait at different barriers, whatever their
   number: none is released from one barrier by the arrival of another thread
   at the next (the barriers of evolveForestsPerform). *)
THEOREM TeamBarriersAligned == Spec => []BarriersAligned
<1>1. TeamInv => BarriersAligned
  BY DEF TeamInv, TypeInv, TypeOK, ThreadsOK, Phases, InWork, InMaster,
     InDecide, InEnd, Resetting, BarriersAligned
<1> QED
  BY <1>1, InitTeamInv, StepTeamInv, PTL DEF Spec

(* Taking the first element of a sequence without repetitions leaves the others,
   once each. *)
LEMMA TailElements ==
  ASSUME NEW S, NEW q \in Seq(S), q # <<>>, NoRepeats(q)
  PROVE  /\ Head(q) \in ElementsOf(q)
         /\ ElementsOf(Tail(q)) = ElementsOf(q) \ {Head(q)}
         /\ NoRepeats(Tail(q))
<1>1. /\ Len(q) \in Nat /\ Len(q) > 0 /\ DOMAIN q = 1 .. Len(q)
      /\ Head(q) = q[1]
  OBVIOUS
<1>2. /\ DOMAIN Tail(q) = 1 .. Len(q) - 1
      /\ \A i \in 1 .. Len(q) - 1 : Tail(q)[i] = q[i + 1]
  OBVIOUS
<1>3. \A x \in ElementsOf(q) \ {Head(q)} : x \in ElementsOf(Tail(q))
  <2> SUFFICES ASSUME NEW i \in 1 .. Len(q), q[i] # q[1]
               PROVE  q[i] \in ElementsOf(Tail(q))
    BY <1>1 DEF ElementsOf
  <2>1. i - 1 \in 1 .. Len(q) - 1 /\ (i - 1) + 1 = i
    BY <1>1
  <2> QED
    BY <2>1, <1>2 DEF ElementsOf
<1>4. \A x \in ElementsOf(Tail(q)) : x \in ElementsOf(q) \ {Head(q)}
  BY <1>1, <1>2 DEF ElementsOf, NoRepeats
<1>5. NoRepeats(Tail(q))
  BY <1>1, <1>2 DEF NoRepeats
<1>6. Head(q) \in ElementsOf(q)
  BY <1>1 DEF ElementsOf
<1> QED
  BY <1>3, <1>4, <1>5, <1>6

(* Appending an element adds it, and repeats nothing if it was not there. *)
LEMMA AppendElements ==
  ASSUME NEW S, NEW q \in Seq(S), NEW e \in S
  PROVE  /\ ElementsOf(Append(q, e)) = ElementsOf(q) \union {e}
         /\ NoRepeats(q) /\ e \notin ElementsOf(q) => NoRepeats(Append(q, e))
<1>1. /\ Len(q) \in Nat /\ DOMAIN q = 1 .. Len(q)
      /\ DOMAIN Append(q, e) = 1 .. Len(q) + 1
      /\ Append(q, e)[Len(q) + 1] = e
      /\ \A i \in 1 .. Len(q) : Append(q, e)[i] = q[i]
  OBVIOUS
<1>2. \A x \in ElementsOf(Append(q, e)) : x \in ElementsOf(q) \union {e}
  BY <1>1 DEF ElementsOf
<1>3. \A x \in ElementsOf(q) \union {e} : x \in ElementsOf(Append(q, e))
  <2>1. e \in ElementsOf(Append(q, e))
    <3>1. Len(q) + 1 \in DOMAIN Append(q, e)
      BY <1>1
    <3> QED
      BY <3>1, <1>1, Zenon DEF ElementsOf
  <2>2. \A i \in 1 .. Len(q) : q[i] \in ElementsOf(Append(q, e))
    <3>1. \A i \in 1 .. Len(q) : i \in DOMAIN Append(q, e)
      BY <1>1
    <3> QED
      BY <3>1, <1>1, Zenon DEF ElementsOf
  <2>3. \A x \in ElementsOf(q) : \E i \in 1 .. Len(q) : x = q[i]
    BY <1>1, Zenon DEF ElementsOf
  <2> QED
    BY <2>1, <2>2, <2>3
<1>4. ASSUME NoRepeats(q), e \notin ElementsOf(q)
      PROVE  NoRepeats(Append(q, e))
  <2> SUFFICES ASSUME NEW i \in 1 .. Len(q) + 1, NEW j \in 1 .. Len(q) + 1,
                      Append(q, e)[i] = Append(q, e)[j]
               PROVE  i = j
    BY <1>1 DEF NoRepeats
  <2>1. CASE i \in 1 .. Len(q) /\ j \in 1 .. Len(q)
    BY <2>1, <1>1, <1>4 DEF NoRepeats
  <2>2. CASE i = Len(q) + 1 \/ j = Len(q) + 1
    BY <2>2, <1>1, <1>4 DEF ElementsOf
  <2> QED
    BY <2>1, <2>2, <1>1
<1> QED
  BY <1>2, <1>3, <1>4

(* An empty sequence has no elements. *)
LEMMA EmptyElements == ElementsOf(<<>>) = {} /\ NoRepeats(<<>>)
BY DEF ElementsOf, NoRepeats

(* A step that leaves alone what the threads hold, the stacks and the files
   leaves alone who owns a tree. *)
LEMMA OwnersKept ==
  ASSUME OwnerInv, TeamInv',
         UNCHANGED <<tree, universeWaiting, universeProcessed, onDisk,
                     forestNumber>>,
         \A t \in Threads : pc'[t] \in Holding <=> pc[t] \in Holding
  PROVE  OwnerInv'
<1>1. Places'
  BY DEF OwnerInv, Places, Suspended, HandedOut
<1>2. OneOwner' /\ FilesAreSuspendedTrees'
  BY DEF OwnerInv, OneOwner, FilesAreSuspendedTrees, Held, Suspended
<1> QED
  BY <1>1, <1>2 DEF OwnerInv

LEMMA InitOwnerInv == Init => OwnerInv
<1> SUFFICES ASSUME Init PROVE OwnerInv
  OBVIOUS
<1>1. TeamInv
  BY InitTeamInv
<1>2. Held = {} /\ Suspended = {}
  BY EmptyElements DEF Init, Held, Suspended
<1>3. Places
  BY <1>2 DEF Init, Places, Holding, Evolving
<1>4. OneOwner /\ FilesAreSuspendedTrees
  BY <1>2, EmptyElements DEF Init, OneOwner, FilesAreSuspendedTrees
<1> QED
  BY <1>1, <1>3, <1>4 DEF OwnerInv


(* Most steps move no tree. *)
LEMMA StillOwned ==
  ASSUME OwnerInv,
         \/ \E t \in Threads :
              \/ FetchNone(t) \/ ResumeNone(t) \/ Plan(t)
              \/ Limit(t) \/ EvolveBegin(t) \/ EvolveAdvance(t)
              \/ EvolvePush(t) \/ EvolvePull(t) \/ EvolveSuspend(t)
              \/ EvolveEnd(t) \/ Record(t) \/ FinalizeShort(t)
              \/ FinalizeLimited(t) \/ FinalizeOutput(t) \/ Decide(t)
         \/ MasterStops \/ Reset \/ PassBarrier
  PROVE  OwnerInv'
<1>1. TeamInv
  BY DEF OwnerInv
<1>2. ASSUME NEW t \in Threads, FetchNone(t) PROVE OwnerInv'
  <2>1. TeamInv'
    BY <1>1, <1>2, FetchNoneInStep
  <2>2. /\ UNCHANGED <<tree, universeWaiting, universeProcessed, onDisk, forestNumber>>
        /\ \A u \in Threads : pc'[u] \in Holding <=> pc[u] \in Holding
    BY <1>1, <1>2 DEF FetchNone, TeamInv, TypeInv, TypeOK, ThreadsOK, Holding,
       Evolving
  <2> QED
    BY <2>1, <2>2, OwnersKept
<1>3. ASSUME NEW t \in Threads, ResumeNone(t) PROVE OwnerInv'
  <2>1. TeamInv'
    BY <1>1, <1>3, ResumeNoneInStep
  <2>2. /\ UNCHANGED <<tree, universeWaiting, universeProcessed, onDisk, forestNumber>>
        /\ \A u \in Threads : pc'[u] \in Holding <=> pc[u] \in Holding
    BY <1>1, <1>3 DEF ResumeNone, TeamInv, TypeInv, TypeOK, ThreadsOK, Holding,
       Evolving
  <2> QED
    BY <2>1, <2>2, OwnersKept
<1>4. ASSUME NEW t \in Threads, Plan(t) PROVE OwnerInv'
  <2>1. TeamInv'
    BY <1>1, <1>4, PlanInStep
  <2>2. /\ UNCHANGED <<tree, universeWaiting, universeProcessed, onDisk, forestNumber>>
        /\ \A u \in Threads : pc'[u] \in Holding <=> pc[u] \in Holding
    BY <1>1, <1>4 DEF Plan, TeamInv, TypeInv, TypeOK, ThreadsOK, Holding,
       Evolving
  <2> QED
    BY <2>1, <2>2, OwnersKept
<1>5. ASSUME NEW t \in Threads, Limit(t) PROVE OwnerInv'
  <2>1. TeamInv'
    BY <1>1, <1>5, LimitInStep
  <2>2. /\ UNCHANGED <<tree, universeWaiting, universeProcessed, onDisk, forestNumber>>
        /\ \A u \in Threads : pc'[u] \in Holding <=> pc[u] \in Holding
    BY <1>1, <1>5 DEF Limit, TeamInv, TypeInv, TypeOK, ThreadsOK, Holding,
       Evolving
  <2> QED
    BY <2>1, <2>2, OwnersKept
<1>6. ASSUME NEW t \in Threads, EvolveBegin(t) PROVE OwnerInv'
  <2>1. TeamInv'
    BY <1>1, <1>6, EvolveBeginInStep
  <2>2. /\ UNCHANGED <<tree, universeWaiting, universeProcessed, onDisk, forestNumber>>
        /\ \A u \in Threads : pc'[u] \in Holding <=> pc[u] \in Holding
    BY <1>1, <1>6 DEF EvolveBegin, TeamInv, TypeInv, TypeOK, ThreadsOK, Holding,
       Evolving
  <2> QED
    BY <2>1, <2>2, OwnersKept
<1>7. ASSUME NEW t \in Threads, EvolveAdvance(t) PROVE OwnerInv'
  <2>1. TeamInv'
    BY <1>1, <1>7, EvolveAdvanceInStep
  <2>2. /\ UNCHANGED <<tree, universeWaiting, universeProcessed, onDisk, forestNumber>>
        /\ \A u \in Threads : pc'[u] \in Holding <=> pc[u] \in Holding
    BY <1>1, <1>7 DEF EvolveAdvance, TeamInv, TypeInv, TypeOK, ThreadsOK, Holding,
       Evolving
  <2> QED
    BY <2>1, <2>2, OwnersKept
<1>8. ASSUME NEW t \in Threads, EvolvePush(t) PROVE OwnerInv'
  <2>1. TeamInv'
    BY <1>1, <1>8, EvolvePushInStep
  <2>2. /\ UNCHANGED <<tree, universeWaiting, universeProcessed, onDisk, forestNumber>>
        /\ \A u \in Threads : pc'[u] \in Holding <=> pc[u] \in Holding
    BY <1>1, <1>8 DEF EvolvePush, TeamInv, TypeInv, TypeOK, ThreadsOK, Holding,
       Evolving
  <2> QED
    BY <2>1, <2>2, OwnersKept
<1>9. ASSUME NEW t \in Threads, EvolvePull(t) PROVE OwnerInv'
  <2>1. TeamInv'
    BY <1>1, <1>9, EvolvePullInStep
  <2>2. /\ UNCHANGED <<tree, universeWaiting, universeProcessed, onDisk, forestNumber>>
        /\ \A u \in Threads : pc'[u] \in Holding <=> pc[u] \in Holding
    BY <1>1, <1>9 DEF EvolvePull, TeamInv, TypeInv, TypeOK, ThreadsOK, Holding,
       Evolving
  <2> QED
    BY <2>1, <2>2, OwnersKept
<1>10. ASSUME NEW t \in Threads, EvolveSuspend(t) PROVE OwnerInv'
  <2>1. TeamInv'
    BY <1>1, <1>10, EvolveSuspendInStep
  <2>2. /\ UNCHANGED <<tree, universeWaiting, universeProcessed, onDisk, forestNumber>>
        /\ \A u \in Threads : pc'[u] \in Holding <=> pc[u] \in Holding
    BY <1>1, <1>10 DEF EvolveSuspend, TeamInv, TypeInv, TypeOK, ThreadsOK, Holding,
       Evolving
  <2> QED
    BY <2>1, <2>2, OwnersKept
<1>11. ASSUME NEW t \in Threads, EvolveEnd(t) PROVE OwnerInv'
  <2>1. TeamInv'
    BY <1>1, <1>11, EvolveEndInStep
  <2>2. /\ UNCHANGED <<tree, universeWaiting, universeProcessed, onDisk, forestNumber>>
        /\ \A u \in Threads : pc'[u] \in Holding <=> pc[u] \in Holding
    BY <1>1, <1>11 DEF EvolveEnd, TeamInv, TypeInv, TypeOK, ThreadsOK, Holding,
       Evolving
  <2> QED
    BY <2>1, <2>2, OwnersKept
<1>12. ASSUME NEW t \in Threads, Record(t) PROVE OwnerInv'
  <2>1. TeamInv'
    BY <1>1, <1>12, RecordInStep
  <2>2. /\ UNCHANGED <<tree, universeWaiting, universeProcessed, onDisk, forestNumber>>
        /\ \A u \in Threads : pc'[u] \in Holding <=> pc[u] \in Holding
    BY <1>1, <1>12 DEF Record, TeamInv, TypeInv, TypeOK, ThreadsOK, Holding,
       Evolving
  <2> QED
    BY <2>1, <2>2, OwnersKept
<1>13. ASSUME NEW t \in Threads, FinalizeShort(t) PROVE OwnerInv'
  <2>1. TeamInv'
    BY <1>1, <1>13, FinalizeShortInStep
  <2>2. /\ UNCHANGED <<tree, universeWaiting, universeProcessed, onDisk, forestNumber>>
        /\ \A u \in Threads : pc'[u] \in Holding <=> pc[u] \in Holding
    BY <1>1, <1>13 DEF FinalizeShort, TeamInv, TypeInv, TypeOK, ThreadsOK, Holding,
       Evolving
  <2> QED
    BY <2>1, <2>2, OwnersKept
<1>14. ASSUME NEW t \in Threads, FinalizeLimited(t) PROVE OwnerInv'
  <2>1. TeamInv'
    BY <1>1, <1>14, FinalizeLimitedInStep
  <2>2. /\ UNCHANGED <<tree, universeWaiting, universeProcessed, onDisk, forestNumber>>
        /\ \A u \in Threads : pc'[u] \in Holding <=> pc[u] \in Holding
    BY <1>1, <1>14 DEF FinalizeLimited, TeamInv, TypeInv, TypeOK, ThreadsOK, Holding,
       Evolving
  <2> QED
    BY <2>1, <2>2, OwnersKept
<1>15. ASSUME NEW t \in Threads, FinalizeOutput(t) PROVE OwnerInv'
  <2>1. TeamInv'
    BY <1>1, <1>15, FinalizeOutputInStep
  <2>2. /\ UNCHANGED <<tree, universeWaiting, universeProcessed, onDisk, forestNumber>>
        /\ \A u \in Threads : pc'[u] \in Holding <=> pc[u] \in Holding
    BY <1>1, <1>15 DEF FinalizeOutput, TeamInv, TypeInv, TypeOK, ThreadsOK, Holding,
       Evolving
  <2> QED
    BY <2>1, <2>2, OwnersKept
<1>16. ASSUME NEW t \in Threads, Decide(t) PROVE OwnerInv'
  <2>1. TeamInv'
    BY <1>1, <1>16, DecideInStep
  <2>2. /\ UNCHANGED <<tree, universeWaiting, universeProcessed, onDisk, forestNumber>>
        /\ \A u \in Threads : pc'[u] \in Holding <=> pc[u] \in Holding
    BY <1>1, <1>16 DEF Decide, TeamInv, TypeInv, TypeOK, ThreadsOK, Holding,
       Evolving
  <2> QED
    BY <2>1, <2>2, OwnersKept
<1>17. ASSUME MasterStops PROVE OwnerInv'
  <2>1. TeamInv'
    BY <1>1, <1>17, MasterStopsInStep
  <2>2. /\ UNCHANGED <<tree, universeWaiting, universeProcessed, onDisk, forestNumber>>
        /\ \A u \in Threads : pc'[u] \in Holding <=> pc[u] \in Holding
    BY <1>1, <1>17 DEF MasterStops, TeamInv, TypeInv, TypeOK, ThreadsOK, Holding,
       Evolving
  <2> QED
    BY <2>1, <2>2, OwnersKept
<1>18. ASSUME Reset PROVE OwnerInv'
  <2>1. TeamInv'
    BY <1>1, <1>18, ResetInStep
  <2>2. /\ UNCHANGED <<tree, universeWaiting, universeProcessed, onDisk, forestNumber>>
        /\ \A u \in Threads : pc'[u] \in Holding <=> pc[u] \in Holding
    BY <1>1, <1>18 DEF Reset, TeamInv, TypeInv, TypeOK, ThreadsOK, Holding,
       Evolving, LoopTest
  <2> QED
    BY <2>1, <2>2, OwnersKept
<1>19. ASSUME PassBarrier PROVE OwnerInv'
  <2>1. TeamInv'
    BY <1>1, <1>19, PassBarrierInStep
  <2>2. /\ UNCHANGED <<tree, universeWaiting, universeProcessed, onDisk, forestNumber>>
        /\ \A u \in Threads : pc'[u] \in Holding <=> pc[u] \in Holding
    BY <1>1, <1>19 DEF PassBarrier, TeamInv, TypeInv, TypeOK, ThreadsOK, Holding,
       Evolving, AfterBarrier, BarrierMet, LoopTest
  <2> QED
    BY <2>1, <2>2, OwnersKept
<1> QED
  BY <1>2, <1>3, <1>4, <1>5, <1>6, <1>7, <1>8, <1>9,
     <1>10, <1>11, <1>12, <1>13, <1>14, <1>15, <1>16, <1>17,
     <1>18, <1>19

(* A forest that is handed out is new to the team. *)
LEMMA FetchNewOwned ==
  ASSUME OwnerInv, NEW t \in Threads, FetchNew(t)
  PROVE  OwnerInv'
<1>1. TeamInv'
  BY FetchNewInStep DEF OwnerInv
<1>2. /\ forestNumber \in Nat /\ forestNumber' = forestNumber + 1
      /\ forestNumber' \notin HandedOut /\ forestNumber' \in HandedOut'
      /\ HandedOut \subseteq HandedOut'
  BY DEF FetchNew, OwnerInv, TeamInv, TypeInv, TypeOK, UniverseOK, HandedOut
<1>3. /\ tree[t] = NoTree /\ tree' = [tree EXCEPT ![t] = forestNumber']
      /\ tree \in [Threads -> Forest \union {NoTree}]
  BY DEF FetchNew, OwnerInv, Places, Holding, Evolving, TeamInv, TypeInv,
     TypeOK, ThreadsOK
<1>4. UNCHANGED <<universeWaiting, universeProcessed, onDisk>>
  BY DEF FetchNew
<1>5. Places'
  BY <1>2, <1>3, <1>4 DEF FetchNew, OwnerInv, Places, Suspended, Holding,
     Evolving, TeamInv, TypeInv, TypeOK, ThreadsOK
<1>6. \A u \in Threads : tree[u] # forestNumber'
  <2>1. forestNumber' # NoTree
    BY DEF FetchNew, OwnerInv, TeamInv, TypeInv, TypeOK, UniverseOK, WorkLeft,
       Forest
  <2> QED
    BY <2>1, <1>2 DEF OwnerInv, Places
<1>7. OneOwner'
  <2>1. Held' = Held \union {forestNumber'}
    <3>1. forestNumber' # NoTree
      BY DEF FetchNew, OwnerInv, TeamInv, TypeInv, TypeOK, UniverseOK, WorkLeft,
         Forest
    <3> QED
      BY <1>3, <3>1 DEF Held
  <2>2. Suspended' = Suspended /\ forestNumber' \notin Suspended
    BY <1>2, <1>4 DEF Suspended, OwnerInv, Places
  <2>3. Held' \intersect Suspended' = {}
    BY <2>1, <2>2 DEF OwnerInv, OneOwner
  <2>4. \A u, v \in Threads : tree'[u] = tree'[v] /\ tree'[u] # NoTree => u = v
    BY <1>3, <1>6 DEF OwnerInv, OneOwner
  <2> QED
    BY <2>3, <2>4, <1>4 DEF OwnerInv, OneOwner
<1>8. FilesAreSuspendedTrees'
  BY <1>4 DEF OwnerInv, FilesAreSuspendedTrees, Suspended
<1> QED
  BY <1>1, <1>5, <1>7, <1>8 DEF OwnerInv

(* A tree that is resumed passes from the waiting stack to one thread. *)
LEMMA ResumeOwned ==
  ASSUME OwnerInv, NEW t \in Threads, Resume(t)
  PROVE  OwnerInv'
<1> DEFINE f == Head(universeWaiting)
<1>1. TeamInv'
  BY ResumeInStep DEF OwnerInv
<1>2. /\ f \in ElementsOf(universeWaiting)
      /\ ElementsOf(universeWaiting') = ElementsOf(universeWaiting) \ {f}
      /\ NoRepeats(universeWaiting')
  BY TailElements DEF Resume, PopTree, OwnerInv, OneOwner, TeamInv, TypeInv,
     TypeOK, UniverseOK
<1>3. /\ tree' = [tree EXCEPT ![t] = f]
      /\ tree \in [Threads -> Forest \union {NoTree}] /\ tree[t] = NoTree
      /\ UNCHANGED <<universeProcessed, forestNumber>>
      /\ onDisk' = onDisk \ {f}
  BY DEF Resume, AfterRestore, OwnerInv, Places, Holding, Evolving, TeamInv,
     TypeInv, TypeOK, ThreadsOK
<1>4. f \in HandedOut /\ f \notin Held /\ f # NoTree
  <2>1. f \in HandedOut /\ f \notin Held
    BY <1>2 DEF OwnerInv, Places, OneOwner, Suspended
  <2> QED
    BY <2>1 DEF OwnerInv, HandedOut, TeamInv, TypeInv, TypeOK, UniverseOK, Forest
<1>5. Suspended' = Suspended \ {f}
  BY <1>2, <1>3 DEF Suspended, OwnerInv, OneOwner
<1>6. Held' = Held \union {f}
  BY <1>3, <1>4 DEF Held
<1>7. Places'
  BY <1>3, <1>4, <1>5 DEF Resume, OwnerInv, Places, HandedOut, Holding, Evolving,
     TeamInv, TypeInv, TypeOK, ThreadsOK
<1>8. OneOwner'
  <2>1. \A u \in Threads : tree[u] # f
    BY <1>4 DEF Held
  <2>2. \A u, v \in Threads : tree'[u] = tree'[v] /\ tree'[u] # NoTree => u = v
    BY <2>1, <1>3 DEF OwnerInv, OneOwner
  <2> QED
    BY <2>2, <1>2, <1>3, <1>5, <1>6 DEF OwnerInv, OneOwner
<1>9. FilesAreSuspendedTrees'
  BY <1>3, <1>5 DEF OwnerInv, FilesAreSuspendedTrees
<1> QED
  BY <1>1, <1>7, <1>8, <1>9 DEF OwnerInv

(* A tree that is destroyed is nobody's. *)
LEMMA DestroyOwned ==
  ASSUME OwnerInv, NEW t \in Threads, Destroy(t)
  PROVE  OwnerInv'
<1>1. TeamInv'
  BY DestroyInStep DEF OwnerInv
<1>2. /\ tree' = [tree EXCEPT ![t] = NoTree]
      /\ tree \in [Threads -> Forest \union {NoTree}]
      /\ UNCHANGED <<universeWaiting, universeProcessed, onDisk, forestNumber>>
  BY DEF Destroy, OwnerInv, TeamInv, TypeInv, TypeOK, ThreadsOK
<1>3. Held' \subseteq Held
  BY <1>2 DEF Held
<1>4. Places'
  BY <1>2 DEF Destroy, OwnerInv, Places, HandedOut, Holding, Evolving, Suspended,
     TeamInv, TypeInv, TypeOK, ThreadsOK
<1>5. OneOwner'
  BY <1>2, <1>3 DEF OwnerInv, OneOwner, Suspended
<1>6. FilesAreSuspendedTrees'
  BY <1>2 DEF OwnerInv, FilesAreSuspendedTrees, Suspended
<1> QED
  BY <1>1, <1>4, <1>5, <1>6 DEF OwnerInv

(* A tree that is suspended passes from its thread to the processed stack. *)
LEMMA SuspendOwned ==
  ASSUME OwnerInv, NEW t \in Threads, Suspend(t)
  PROVE  OwnerInv'
<1> DEFINE f == tree[t]
<1>1. TeamInv'
  BY SuspendInStep DEF OwnerInv
<1>2. f \in HandedOut /\ f \in Forest /\ f # NoTree
  BY DEF Suspend, OwnerInv, Places, Holding, TeamInv, TypeInv, HoldsForest
<1>3. /\ tree' = [tree EXCEPT ![t] = NoTree]
      /\ tree \in [Threads -> Forest \union {NoTree}]
      /\ UNCHANGED <<universeWaiting, forestNumber>>
  BY DEF Suspend, OwnerInv, TeamInv, TypeInv, TypeOK, ThreadsOK
<1>4. f \in Held /\ f \notin Suspended
  BY <1>2 DEF OwnerInv, OneOwner, Held
<1>5. /\ ElementsOf(universeProcessed') = ElementsOf(universeProcessed) \union {f}
      /\ NoRepeats(universeProcessed')
  BY <1>2, <1>4, AppendElements DEF Suspend, PushTree, OwnerInv, OneOwner,
     Suspended, TeamInv, TypeInv, TypeOK, UniverseOK
<1>6. Suspended' = Suspended \union {f}
  BY <1>3, <1>5 DEF Suspended
<1>7. Held' = Held \ {f}
  BY <1>2, <1>3 DEF Held, OwnerInv, OneOwner
<1>8. Places'
  BY <1>2, <1>3, <1>6 DEF Suspend, OwnerInv, Places, HandedOut, Holding, Evolving,
     TeamInv, TypeInv, TypeOK, ThreadsOK
<1>9. OneOwner'
  <2>1. \A u, v \in Threads : tree'[u] = tree'[v] /\ tree'[u] # NoTree => u = v
    BY <1>3 DEF OwnerInv, OneOwner
  <2>2. ElementsOf(universeWaiting') \intersect ElementsOf(universeProcessed') = {}
    BY <1>3, <1>4, <1>5 DEF Suspended, OwnerInv, OneOwner
  <2> QED
    BY <2>1, <2>2, <1>3, <1>5, <1>6, <1>7 DEF OwnerInv, OneOwner
<1>10. FilesAreSuspendedTrees'
  BY <1>6 DEF Suspend, OwnerInv, FilesAreSuspendedTrees
<1> QED
  BY <1>1, <1>8, <1>9, <1>10 DEF OwnerInv

(* The master makes the processed trees the waiting ones when no tree is waiting,
   so that none is overwritten. *)
LEMMA MasterTransfersOwned ==
  ASSUME OwnerInv, MasterTransfers
  PROVE  OwnerInv'
<1>1. TeamInv'
  BY MasterTransfersInStep DEF OwnerInv
<1>2. universeWaiting = <<>>
  BY DEF MasterTransfers, OwnerInv, TeamInv, Exhausted
<1>3. /\ UNCHANGED <<tree, onDisk, forestNumber>>
      /\ \A t \in Threads : pc'[t] \in Holding <=> pc[t] \in Holding
  BY DEF MasterTransfers, OwnerInv, TeamInv, TypeInv, TypeOK, ThreadsOK, Holding,
     Evolving
<1>4. CASE universeProcessed = <<>>
  BY <1>1, <1>3, <1>4, OwnersKept DEF MasterTransfers
<1>5. CASE universeProcessed # <<>>
  <2>1. universeWaiting' = universeProcessed /\ universeProcessed' = <<>>
    BY <1>5 DEF MasterTransfers
  <2>2. Suspended' = Suspended /\ Held' = Held
    BY <2>1, <1>2, <1>3, EmptyElements DEF Suspended, Held
  <2>3. Places'
    BY <2>2, <1>3 DEF OwnerInv, Places, HandedOut
  <2>4. OneOwner' /\ FilesAreSuspendedTrees'
    BY <2>1, <2>2, <1>3, EmptyElements DEF OwnerInv, OneOwner,
       FilesAreSuspendedTrees
  <2> QED
    BY <2>3, <2>4, <1>1 DEF OwnerInv
<1> QED
  BY <1>4, <1>5

(* Every step keeps a tree with one owner. *)
LEMMA StepOwnerInv == OwnerInv /\ [Next]_vars => OwnerInv'
<1> SUFFICES ASSUME OwnerInv, [Next]_vars PROVE OwnerInv'
  OBVIOUS
<1>1. ASSUME NEW t \in Threads, Fetch(t) PROVE OwnerInv'
  BY <1>1, FetchNewOwned, ResumeOwned, StillOwned DEF Fetch
<1>2. ASSUME NEW t \in Threads, Evolve(t) PROVE OwnerInv'
  BY <1>2, StillOwned DEF Evolve
<1>3. ASSUME NEW t \in Threads, Finalize(t) PROVE OwnerInv'
  BY <1>3, DestroyOwned, SuspendOwned, StillOwned DEF Finalize
<1>4. ASSUME NEW t \in Threads, ThreadStep(t) PROVE OwnerInv'
  BY <1>1, <1>2, <1>3, <1>4, StillOwned DEF ThreadStep
<1>5. CASE MasterStep
  BY <1>5, MasterTransfersOwned, StillOwned DEF MasterStep
<1>6. CASE PassBarrier
  BY <1>6, StillOwned
<1>7. CASE UNCHANGED vars
  <2>1. TeamInv'
    BY <1>7, StepTeamInv DEF OwnerInv
  <2> QED
    BY <2>1, <1>7, OwnersKept DEF vars
<1> QED
  BY <1>4, <1>5, <1>6, <1>7 DEF Next, Terminated

(* A tree is evolved by one thread at a time and lies on one stack at one place
   (the work share, resumeTree and suspendTree). *)
THEOREM OneOwnerAlways == Spec => []OneOwner
<1>1. OwnerInv => OneOwner
  BY DEF OwnerInv
<1> QED
  BY <1>1, InitOwnerInv, StepOwnerInv, PTL DEF Spec

(* The master overwrites the waiting stack only when the team waits, no thread
   holds a tree and no tree is waiting. *)
THEOREM MasterSectionAlone == Spec => []MasterAlone
<1>1. OwnerInv => MasterAlone
  <2> SUFFICES ASSUME OwnerInv, pc[Master] = "master"
               PROVE  /\ \A t \in Threads \ {Master} : pc[t] = "universe"
                      /\ Held = {}
                      /\ universeWaiting = <<>>
                      /\ forestNumber = NForests
    BY DEF MasterAlone
  <2>1. \A t \in Threads \ {Master} : pc[t] = "universe"
    BY DEF OwnerInv, TeamInv, Phases, InWork, InMaster, InDecide, InEnd, Resetting
  <2>2. \A t \in Threads : pc[t] \notin Holding
    BY <2>1 DEF Holding, Evolving
  <2>3. Held = {}
    BY <2>2 DEF OwnerInv, Places, Held
  <2> QED
    BY <2>1, <2>3 DEF OwnerInv, TeamInv, Exhausted
<1> QED
  BY <1>1, InitOwnerInv, StepOwnerInv, PTL DEF Spec

(* A tree has a file exactly while it is suspended: none is read that was not
   written, and none is left behind. *)
THEOREM FilesTracked == Spec => []FilesAreSuspendedTrees
<1>1. OwnerInv => FilesAreSuspendedTrees
  BY DEF OwnerInv
<1> QED
  BY <1>1, InitOwnerInv, StepOwnerInv, PTL DEF Spec

===============================================================================
