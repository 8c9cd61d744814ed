------------------------------ MODULE ForestTask ------------------------------
(***************************************************************************)
(* The task that evolves every merger tree of a run                        *)
(* (source/tasks.evolve_forests.F90), in its multi-forest mode: a team of  *)
(* OpenMP threads, each of which takes one forest at a time, evolves it    *)
(* from output to output, and lays it aside when a universal event, or a   *)
(* node that must first arrive from another forest, stands in its way.     *)
(*                                                                         *)
(* Times are abstracted to naturals and a forest to the earliest time of   *)
(* its evolving nodes; the evolver (merger_trees.evolver.standard.F90) is  *)
(* kept as far as the task can see it: when it starts, every time it       *)
(* advances the forest, exchanges a node with another forest, suspends or  *)
(* returns.                                                                *)
(***************************************************************************)
EXTENDS Naturals, Sequences, FiniteSets

CONSTANTS
  Threads,       \* the OpenMP team
  Master,        \* its thread number 0
  NForests,      \* how many forests the constructor can build
  OutputTime,    \* the sequence of output times
  StartTime,     \* [Forest -> time of the earliest node]
  EndTime,       \* [Forest -> time of the base node]
  Creators,      \* the objects that attach events to the universe
  Schedule,      \* [Creators -> sequence of the times they attach one at]
  Transfers,     \* nodes that move between forests: [from, to, time]
  SuspendToRAM,  \* whether a suspended tree is kept in memory, or in a file
  NoTree, None

Forest == 1 .. NForests
NOutputs == Len(OutputTime)
Errors == {"failed to evolve tree", "universe deadlocked", "event in the past"}

ASSUME TeamAssumption == Master \in Threads
ASSUME ForestAssumption ==
  /\ NForests \in Nat
  /\ NoTree \notin Forest
  /\ StartTime \in [Forest -> Nat]
  /\ EndTime \in [Forest -> Nat]
  /\ \A f \in Forest : StartTime[f] <= EndTime[f]
ASSUME OutputAssumption ==
  /\ OutputTime \in Seq(Nat)
  /\ NOutputs > 0
  /\ \A i, j \in 1 .. NOutputs : i < j => OutputTime[i] < OutputTime[j]
ASSUME EventAssumption ==
  /\ IsFiniteSet(Creators)
  /\ Schedule \in [Creators -> Seq(Nat)]
  /\ \A c \in Creators : \A i, j \in 1 .. Len(Schedule[c]) :
       i < j => Schedule[c][i] < Schedule[c][j]
\* A forest beyond those of the run may have a node to send, or be sent one.
ASSUME TransferAssumption == Transfers \subseteq [from : Nat, to : Nat, time : Nat]
ASSUME FlagAssumption == SuspendToRAM \in BOOLEAN /\ None \notin Errors

VARIABLES
  (* shared by the team *)
  forestNumber,           \* forests handed out by the work share so far
  treeDidEvolve,          \* the evolver's result: declared once for the team
  treesDidEvolve,         \* some tree evolved during this pass
  treesCouldEvolve,       \* some tree had a time before its target
  deadlockReport,         \* the pass that reports a deadlock has begun
  universalEvolveToTime,  \* the event time found last by any thread
  events,                 \* universeWaiting%event: attached, in list order
  universeWaiting,        \* trees waiting to be processed
  universeProcessed,      \* trees laid aside during this pass
  waitList,               \* nodes pushed from their forest, not yet pulled
  pulled,                 \* nodes that have arrived in their new forest
  triggerFinishUniverse,  \* there is another pass to make
  error,                  \* the message the program stopped with, or None
  (* private to each thread *)
  pc, tree, finished, treeIsNew, treeIsFinished, iOutput, evolveToTime,
  evolutionIsEventLimited, suspendTree,
  (* the forests *)
  time,                   \* earliest evolving time
  output,                 \* outputs written, in order
  emptied,                \* forests whose base node has been removed
  onDisk                  \* forests whose nodes are in a file, not in memory

didEvolve == <<treeDidEvolve, treesDidEvolve>>
deadlock  == <<treesCouldEvolve, deadlockReport>>
universal == <<universalEvolveToTime, events>>
stacks    == <<universeWaiting, universeProcessed>>
nodes     == <<waitList, pulled>>
team      == <<forestNumber, triggerFinishUniverse, error>>
shared    == <<didEvolve, deadlock, universal, stacks, nodes, team>>
loop      == <<tree, finished, treeIsNew>>
plan      == <<treeIsFinished, iOutput>>
limit     == <<evolveToTime, evolutionIsEventLimited, suspendTree>>
private   == <<pc, loop, plan, limit>>
forests   == <<time, output, emptied, onDisk>>
vars      == <<shared, private, forests>>

-------------------------------------------------------------------------------
(* Outputs and universal events *)

Least(S) == CHOOSE x \in S : \A y \in S : x <= y
ElementsOf(q) == {q[i] : i \in DOMAIN q}

\* The index of the output after time t, the last one when t is its time; 0 when
\* t is beyond it.
timeNext(t) ==
  IF t > OutputTime[NOutputs] THEN 0
  ELSE Least({NOutputs} \union {i \in 1 .. NOutputs : OutputTime[i] > t})

\* The first output a fetched tree is evolved to; 0 when there is none left, as
\* for a forest that has no node any more.
firstOutput(f, isNew) ==
  LET i == timeNext(time[f])
  IN  IF f \in emptied THEN 0
      ELSE IF isNew /\ i > 1 /\ time[f] = OutputTime[i - 1] THEN i - 1
      ELSE i

EventBeforeOrAt(t) ==  \* mutant
  {e.time : e \in {x \in ElementsOf(events) : x.time <= t}}
LastEventBefore(t) ==  \* mutant
  {events[i].time : i \in {j \in DOMAIN events :
     events[j].time < t /\ \A k \in j + 1 .. Len(events) : events[k].time >= t}}
EventBefore(t) == {e.time : e \in {x \in ElementsOf(events) : x.time < t}}

\* An event a creator attaches; its time is the k-th of the creator's schedule.
EventOf(c, k) == [creator |-> c, index |-> k, time |-> Schedule[c][k]]

\* The lists the creators' first events can form before evolution begins.
FirstEvents ==
  LET active == {c \in Creators : Schedule[c] # <<>>}
  IN  {q \in [1 .. Cardinality(active) -> {EventOf(c, 1) : c \in active}] :
         \A i, j \in DOMAIN q : i # j => q[i] # q[j]}

(* The stacks of a universe: a tree is appended, and taken from the front. *)
PushAlone(q, f) == <<f>>  \* mutant
PushTree(q, f) == Append(q, f)
PopNothing(q) == q  \* mutant
PopTree(q) == Tail(q)

-------------------------------------------------------------------------------
Init ==
  /\ forestNumber = 0
  /\ treeDidEvolve = FALSE
  /\ treesDidEvolve = FALSE
  /\ treesCouldEvolve = FALSE
  /\ deadlockReport = FALSE
  /\ universalEvolveToTime = 0
  /\ events \in FirstEvents
  /\ universeWaiting = <<>>
  /\ universeProcessed = <<>>
  /\ waitList = {}
  /\ pulled = {}
  /\ triggerFinishUniverse = FALSE
  /\ error = None
  /\ pc = [t \in Threads |-> "fetch"]
  /\ tree = [t \in Threads |-> NoTree]
  /\ finished = [t \in Threads |-> FALSE]
  /\ treeIsNew = [t \in Threads |-> FALSE]
  /\ treeIsFinished = [t \in Threads |-> FALSE]
  /\ iOutput = [t \in Threads |-> 1]
  /\ evolveToTime = [t \in Threads |-> 0]
  /\ evolutionIsEventLimited = [t \in Threads |-> FALSE]
  /\ suspendTree = [t \in Threads |-> FALSE]
  /\ time = StartTime
  /\ output = [f \in Forest |-> <<>>]
  /\ emptied = {}
  /\ onDisk = {}

\* Thread t is at the point p of the program, which has not stopped.
At(t, p) == pc[t] = p /\ error = None
Goto(t, p) == pc' = [pc EXCEPT ![t] = p]

WorkLeftOnceMore == forestNumber <= NForests  \* mutant
WorkLeft == forestNumber < NForests

(* Take the next forest of the work share, if it has one left. *)
FetchNew(t) ==
  /\ At(t, "fetch")
  /\ WorkLeft
  /\ forestNumber' = forestNumber + 1
  /\ tree' = [tree EXCEPT ![t] = forestNumber']
  /\ treeIsNew' = [treeIsNew EXCEPT ![t] = TRUE]
  /\ Goto(t, "plan")
  /\ UNCHANGED <<didEvolve, deadlock, universal, stacks, nodes,
       triggerFinishUniverse, error, finished, plan, limit, forests>>

(* The work share has run out: no tree can be constructed. *)
FetchNone(t) ==
  /\ At(t, "fetch")
  /\ ~WorkLeft
  /\ treeIsNew' = [treeIsNew EXCEPT ![t] = FALSE]
  /\ Goto(t, "resume")
  /\ UNCHANGED <<shared, tree, finished, plan, limit, forests>>

(* resumeTree, in critical(universeTransform): pop a waiting tree and, if it
   was suspended to a file, read it back and delete the file. *)
AfterRestoreKept(f) == onDisk  \* mutant
AfterRestore(f) == onDisk \ {f}

Resume(t) ==
  /\ At(t, "resume")
  /\ universeWaiting # <<>>
  /\ tree' = [tree EXCEPT ![t] = Head(universeWaiting)]
  /\ universeWaiting' = PopTree(universeWaiting)
  /\ onDisk' = AfterRestore(Head(universeWaiting))
  /\ Goto(t, "plan")
  /\ UNCHANGED <<didEvolve, deadlock, universal, universeProcessed, nodes,
       team, finished, treeIsNew, plan, limit, time, output, emptied>>

ResumeSpins(t) ==  \* mutant
  /\ At(t, "resume")
  /\ universeWaiting = <<>>
  /\ Goto(t, "fetch")
  /\ UNCHANGED <<shared, loop, plan, limit, forests>>

(* Nothing is waiting either: go and wait for the rest of the team. *)
ResumeNone(t) ==
  /\ At(t, "resume")
  /\ universeWaiting = <<>>
  /\ finished' = [finished EXCEPT ![t] = TRUE]
  /\ Goto(t, "passEnd")
  /\ UNCHANGED <<shared, tree, treeIsNew, plan, limit, forests>>

(* Find the output the tree is to be evolved to first. *)
Plan(t) ==
  /\ At(t, "plan")
  /\ LET i == firstOutput(tree[t], treeIsNew[t])
     IN  /\ treeIsFinished' = [treeIsFinished EXCEPT ![t] = (i = 0)]
         /\ iOutput' = [iOutput EXCEPT ![t] = IF i = 0 THEN NOutputs + 1
                                                       ELSE i]
         /\ Goto(t, IF i = 0 THEN "release" ELSE "limit")
  /\ UNCHANGED <<shared, loop, limit, forests>>

(* Evolve to the next output or, in critical(universeTransform), to the first
   universal event before it. *)
Limit(t) ==
  /\ At(t, "limit")
  /\ LET target == OutputTime[iOutput[t]]
         before == EventBefore(target)
         first  == Least(before \union {target})
     IN  /\ evolveToTime' = [evolveToTime EXCEPT ![t] = first]
         /\ evolutionIsEventLimited' =
              [evolutionIsEventLimited EXCEPT ![t] = before # {}]
         /\ universalEvolveToTime' =
              IF before # {} THEN first ELSE universalEvolveToTime
         /\ treesCouldEvolve' =
              \/ treesCouldEvolve
              \/ tree[t] \notin emptied /\ time[tree[t]] <= first
  /\ Goto(t, "begin")
  /\ UNCHANGED <<didEvolve, deadlockReport, events, stacks, nodes, team, loop,
       plan, suspendTree, forests>>

-------------------------------------------------------------------------------
(* The evolver, called with the thread's tree and evolveToTime *)

HasInterTreeEvent(f) ==
  \E x \in Transfers : \/ x.from = f /\ x \notin waitList \union pulled
                       \/ x.to = f /\ x \notin pulled

\* The nodes that must leave, or arrive in, forest f at its present time.
PushDue(f) == {x \in Transfers : /\ x.from = f
                                 /\ x.time = time[f]
                                 /\ x \notin waitList \union pulled}
PullDue(f) == {x \in Transfers : /\ x.to = f
                                 /\ x.time = time[f]
                                 /\ x \notin pulled}
\* A pending event later than the target plays no part in this call.
Due(t, S) == {x \in S : x.time <= evolveToTime[t]}

\* How far the evolver can take the forest: no tree outlives its base node.
FinalTime(t) == Least({evolveToTime[t], EndTime[tree[t]]})
ReachedEarly(now, target) == now + 1 >= target  \* mutant
Reached(now, target) == now >= target
AtTarget(t) == Reached(time[tree[t]], FinalTime(t))

(* A tree that ends before the target and exchanges no node with another is
   reported as evolved and left alone. *)
EvolveBegin(t) ==
  /\ At(t, "begin")
  /\ LET ignore == \/ tree[t] \in emptied
                   \/ /\ evolveToTime[t] > EndTime[tree[t]]
                      /\ ~HasInterTreeEvent(tree[t])
     IN  /\ treeDidEvolve' = ignore
         /\ Goto(t, IF ignore THEN "record" ELSE "evolve")
  /\ suspendTree' = [suspendTree EXCEPT ![t] = FALSE]
  /\ UNCHANGED <<treesDidEvolve, deadlock, universal, stacks, nodes, team,
       loop, plan, evolveToTime, evolutionIsEventLimited, forests>>

EvolveAdvance(t) ==
  /\ At(t, "evolve")
  /\ ~AtTarget(t)
  /\ Due(t, PushDue(tree[t])) = {}
  /\ Due(t, PullDue(tree[t])) = {}
  /\ time' = [time EXCEPT ![tree[t]] = @ + 1]
  /\ treeDidEvolve' = TRUE
  /\ UNCHANGED <<treesDidEvolve, deadlock, universal, stacks, nodes, team,
       private, output, emptied, onDisk>>

EvolvePush(t) ==
  /\ At(t, "evolve")
  /\ \E x \in Due(t, PushDue(tree[t])) : waitList' = waitList \union {x}
  /\ treeDidEvolve' = TRUE
  /\ UNCHANGED <<treesDidEvolve, deadlock, universal, stacks, pulled, team,
       private, forests>>

EvolvePull(t) ==
  /\ At(t, "evolve")
  /\ \E x \in Due(t, PullDue(tree[t])) :
       /\ x \in waitList
       /\ waitList' = waitList \ {x}
       /\ pulled' = pulled \union {x}
  /\ treeDidEvolve' = TRUE
  /\ UNCHANGED <<treesDidEvolve, deadlock, universal, stacks, team, private,
       forests>>

(* A whole pass over the tree moved nothing, for want of a node that another
   forest has not sent yet.  In the reporting pass the evolver prints the
   deadlocked nodes and returns without asking for suspension. *)
EvolveSuspend(t) ==
  /\ At(t, "evolve")
  /\ Due(t, PushDue(tree[t])) = {}
  /\ Due(t, PullDue(tree[t])) # {}
  /\ Due(t, PullDue(tree[t])) \intersect waitList = {}
  /\ suspendTree' = [suspendTree EXCEPT ![t] = ~deadlockReport]
  /\ Goto(t, "record")
  /\ UNCHANGED <<shared, loop, plan, evolveToTime, evolutionIsEventLimited,
       forests>>

(* A pass that finds no node to evolve ends the call. *)
EvolveEnd(t) ==
  /\ At(t, "evolve")
  /\ AtTarget(t)
  /\ Due(t, PushDue(tree[t])) = {}
  /\ Due(t, PullDue(tree[t])) = {}
  /\ Goto(t, "record")
  /\ UNCHANGED <<shared, loop, plan, limit, forests>>

-------------------------------------------------------------------------------
(* After the evolver returns *)

\* The base node of a forest that has been evolved to its end before the target
\* is removed, unless it has an event, or a satellite about to merge, left.
Remnant(t) ==
  {f \in {tree[t]} : /\ time[f] = EndTime[f]
                     /\ EndTime[f] < evolveToTime[t]
                     /\ ~HasInterTreeEvent(f)}

\* What kept the tree from going on to its output.
LimitedBySuspension(t) == suspendTree[t]  \* mutant
LimitedByEvent(t) == evolutionIsEventLimited[t]  \* mutant
Limited(t) == evolutionIsEventLimited[t] \/ suspendTree[t]

\* Some tree of the pass evolved.
SomeEvolvedLast == treeDidEvolve  \* mutant
SomeEvolvedAlways == TRUE  \* mutant
SomeEvolved == treesDidEvolve \/ treeDidEvolve

(* critical(universeStatus): record that some tree evolved; then remove the
   remnants of the forest. *)
Record(t) ==
  /\ At(t, "record")
  /\ treesDidEvolve' = SomeEvolved
  /\ evolutionIsEventLimited' =
       [evolutionIsEventLimited EXCEPT ![t] = Limited(t)]
  /\ emptied' \in {emptied, emptied \union Remnant(t)}
  /\ Goto(t, "finalize")
  /\ UNCHANGED <<treeDidEvolve, deadlock, universal, stacks, nodes, team, loop,
       plan, evolveToTime, suspendTree, time, output, onDisk>>

FailedToReach(t) == /\ tree[t] \notin emptied
                    /\ EndTime[tree[t]] > evolveToTime[t]
                    /\ time[tree[t]] < evolveToTime[t]
                    /\ ~evolutionIsEventLimited[t]

(* The tree stopped short of its target for no known reason. *)
FinalizeShort(t) ==
  /\ At(t, "finalize")
  /\ FailedToReach(t)
  /\ IF deadlockReport
     THEN Goto(t, "release") /\ UNCHANGED error
     ELSE error' = "failed to evolve tree" /\ UNCHANGED pc
  /\ UNCHANGED <<didEvolve, deadlock, universal, stacks, nodes, forestNumber,
       triggerFinishUniverse, loop, plan, limit, forests>>

(* It can evolve no further until an event's task is performed. *)
FinalizeLimited(t) ==
  /\ At(t, "finalize")
  /\ ~FailedToReach(t)
  /\ evolutionIsEventLimited[t]
  /\ Goto(t, "release")
  /\ UNCHANGED <<shared, loop, plan, limit, forests>>

(* It reached the output time: output it, unless it is empty, and go on to the
   next one. *)
FinalizeOutput(t) ==
  /\ At(t, "finalize")
  /\ ~FailedToReach(t)
  /\ ~evolutionIsEventLimited[t]
  /\ output' = IF tree[t] \in emptied THEN output
               ELSE [output EXCEPT ![tree[t]] = Append(@, iOutput[t])]
  /\ iOutput' = [iOutput EXCEPT ![t] = @ + 1]
  /\ treeIsFinished' = [treeIsFinished EXCEPT ![t] = iOutput[t] = NOutputs]
  /\ Goto(t, IF iOutput[t] = NOutputs THEN "release" ELSE "limit")
  /\ UNCHANGED <<shared, loop, limit, time, emptied, onDisk>>

(* A finished tree is destroyed. *)
Destroy(t) ==
  /\ At(t, "release")
  /\ treeIsFinished[t]
  /\ tree' = [tree EXCEPT ![t] = NoTree]
  /\ Goto(t, "fetch")
  /\ UNCHANGED <<shared, finished, treeIsNew, plan, limit, forests>>

(* suspendTree: an unfinished one is written to its file, unless trees stay in
   memory, and pushed to the processed stack in critical(universeTransform). *)
Suspend(t) ==
  /\ At(t, "release")
  /\ ~treeIsFinished[t]
  /\ onDisk' = IF SuspendToRAM THEN onDisk ELSE onDisk \union {tree[t]}
  /\ universeProcessed' = PushTree(universeProcessed, tree[t])
  /\ tree' = [tree EXCEPT ![t] = NoTree]
  /\ Goto(t, "fetch")
  /\ UNCHANGED <<didEvolve, deadlock, universal, universeWaiting, nodes, team,
       finished, treeIsNew, plan, limit, time, output, emptied>>

-------------------------------------------------------------------------------
(* The end of a pass.  An OpenMP barrier holds the thread that meets it until
   every thread of the team has met one; "done" is the barrier that ends the
   parallel region. *)

Barriers == {"passEnd", "universe", "trigger", "done"}

LoopTest(t) == IF finished[t] THEN "done" ELSE "fetch"

AfterBarrierEarlyReset(t) ==  \* mutant
  CASE pc[t] = "passEnd"  -> IF t = Master THEN "master" ELSE "universe"
    [] pc[t] = "universe" -> IF t = Master THEN "reset" ELSE "decide"
    [] pc[t] = "trigger"  -> LoopTest(t)
    [] OTHER              -> pc[t]
AfterBarrier(t) ==
  CASE pc[t] = "passEnd"  -> IF t = Master THEN "master" ELSE "universe"
    [] pc[t] = "universe" -> "decide"
    [] pc[t] = "trigger"  -> IF t = Master THEN "reset" ELSE LoopTest(t)
    [] OTHER              -> pc[t]

BarrierMetByMaster == pc[Master] \in Barriers  \* mutant
BarrierMet == \A t \in Threads : pc[t] \in Barriers

PassBarrier ==
  /\ error = None
  /\ BarrierMet
  /\ \E t \in Threads : pc[t] # "done"
  /\ pc' = [t \in Threads |-> AfterBarrier(t)]
  /\ UNCHANGED <<shared, loop, plan, limit, forests>>

Deadlocked == (~treesDidEvolve /\ treesCouldEvolve) \/ deadlockReport

(* The report has been made: stop.  (The code pops the trees still pending, to
   say how many they are; here they stay on the stack of the stopped program,
   which tells a tree that was given up from one that was finished.) *)
MasterStops ==
  /\ At(Master, "master")
  /\ deadlockReport
  /\ error' = "universe deadlocked"
  /\ UNCHANGED <<didEvolve, deadlock, universal, stacks, nodes, forestNumber,
       triggerFinishUniverse, private, forests>>

(* The task of an event attaches its creator's next one while that lies before
   the end of some tree it finds in memory, and before the last output. *)
NextEvent(e) ==
  IF /\ e.index < Len(Schedule[e.creator])
     /\ Schedule[e.creator][e.index + 1] < OutputTime[NOutputs]
     /\ \E f \in ElementsOf(universeProcessed) \ (onDisk \union emptied) :
          Schedule[e.creator][e.index + 1] < EndTime[f]
  THEN <<EventOf(e.creator, e.index + 1)>>
  ELSE <<>>
Without(q, i) == SubSeq(q, 1, i - 1) \o SubSeq(q, i + 1, Len(q))

(* The first event of the list at universalEvolveToTime is performed, and
   removed; one that is found before it and lies in the past is an error. *)
PerformEvent ==
  LET due == {i \in DOMAIN events : events[i].time <= universalEvolveToTime}
  IN  \/ due = {} /\ UNCHANGED <<events, error>>
      \/ \E i \in due :
           /\ \A j \in due : i <= j
           /\ IF events[i].time < universalEvolveToTime
              THEN error' = "event in the past" /\ UNCHANGED events
              ELSE /\ events' = Without(events, i) \o NextEvent(events[i])
                   /\ UNCHANGED error

(* The master section: look for a deadlock of the universe, and make the
   processed trees the waiting ones for another pass. *)
MasterTransfers ==
  /\ At(Master, "master")
  /\ ~deadlockReport
  /\ deadlockReport' = Deadlocked
  /\ treesDidEvolve' = FALSE
  /\ IF universeProcessed = <<>>
     THEN UNCHANGED <<stacks, events, triggerFinishUniverse, error>>
     ELSE /\ universeWaiting' = universeProcessed
          /\ universeProcessed' = <<>>
          /\ PerformEvent
          /\ triggerFinishUniverse' = TRUE
  /\ Goto(Master, "universe")
  /\ UNCHANGED <<treeDidEvolve, treesCouldEvolve, universalEvolveToTime, nodes,
       forestNumber, loop, plan, limit, forests>>

(* There is more work: nobody is finished after all. *)
Decide(t) ==
  /\ At(t, "decide")
  /\ finished' = [finished EXCEPT ![t] = @ /\ ~triggerFinishUniverse]
  /\ Goto(t, "trigger")
  /\ UNCHANGED <<shared, tree, treeIsNew, plan, limit, forests>>

AfterResetKept == triggerFinishUniverse  \* mutant
AfterReset == FALSE

Reset ==
  /\ At(Master, "reset")
  /\ triggerFinishUniverse' = AfterReset
  /\ Goto(Master, LoopTest(Master))
  /\ UNCHANGED <<didEvolve, deadlock, universal, stacks, nodes, forestNumber,
       error, loop, plan, limit, forests>>

-------------------------------------------------------------------------------
Fetch(t) == FetchNew(t) \/ FetchNone(t) \/ Resume(t) \/ ResumeNone(t)
Evolve(t) ==
  \/ EvolveBegin(t)   \/ EvolveAdvance(t) \/ EvolvePush(t) \/ EvolvePull(t)
  \/ EvolveSuspend(t) \/ EvolveEnd(t)
Finalize(t) ==
  \/ Record(t) \/ FinalizeShort(t) \/ FinalizeLimited(t)
  \/ FinalizeOutput(t) \/ Destroy(t) \/ Suspend(t)
ThreadStep(t) ==
  Fetch(t) \/ Plan(t) \/ Limit(t) \/ Evolve(t) \/ Finalize(t) \/ Decide(t)
MasterStep == MasterStops \/ MasterTransfers \/ Reset

\* The parallel region has ended, or an error report has stopped the program.
AllDone == \A t \in Threads : pc[t] = "done"
Terminated == (AllDone \/ error # None) /\ UNCHANGED vars

Next ==
  \/ \E t \in Threads : ThreadStep(t)
  \/ MasterStep
  \/ PassBarrier
  \/ Terminated

\* Threads run, and nothing in the program can keep one from running.
Fairness == /\ \A t \in Threads : WF_vars(ThreadStep(t))
            /\ WF_vars(MasterStep)
            /\ WF_vars(PassBarrier)

Spec == Init /\ [][Next]_vars
FairSpec == Spec /\ Fairness

-------------------------------------------------------------------------------
(* Properties *)

Working == {"fetch", "resume", "plan", "limit", "begin", "evolve", "record",
            "finalize", "release"}
Points == Working \union Barriers \union {"master", "decide", "reset"}
Event == UNION {{EventOf(c, k) : k \in DOMAIN Schedule[c]} : c \in Creators}

FlagsOK ==
  /\ treeDidEvolve \in BOOLEAN
  /\ treesDidEvolve \in BOOLEAN
  /\ treesCouldEvolve \in BOOLEAN
  /\ deadlockReport \in BOOLEAN
  /\ triggerFinishUniverse \in BOOLEAN
  /\ finished \in [Threads -> BOOLEAN]
  /\ treeIsNew \in [Threads -> BOOLEAN]
  /\ treeIsFinished \in [Threads -> BOOLEAN]
  /\ evolutionIsEventLimited \in [Threads -> BOOLEAN]
  /\ suspendTree \in [Threads -> BOOLEAN]
UniverseOK ==
  /\ forestNumber \in 0 .. NForests
  /\ universalEvolveToTime \in Nat
  /\ events \in Seq(Event)
  /\ universeWaiting \in Seq(Forest)
  /\ universeProcessed \in Seq(Forest)
  /\ waitList \subseteq Transfers
  /\ pulled \subseteq Transfers
  /\ error \in Errors \union {None}
ThreadsOK ==
  /\ pc \in [Threads -> Points]
  /\ tree \in [Threads -> Forest \union {NoTree}]
  /\ iOutput \in [Threads -> 1 .. NOutputs + 1]
  /\ evolveToTime \in [Threads -> Nat]
ForestsOK ==
  /\ time \in [Forest -> Nat]
  /\ output \in [Forest -> Seq(1 .. NOutputs)]
  /\ emptied \subseteq Forest
  /\ onDisk \subseteq Forest

(* Every variable of evolveForestsPerform holds a value of its type, and the
   outputs of a forest are output indices. *)
TypeOK == FlagsOK /\ UniverseOK /\ ThreadsOK /\ ForestsOK

Held == {tree[t] : t \in Threads} \ {NoTree}
Suspended == ElementsOf(universeWaiting) \union ElementsOf(universeProcessed)
NoRepeats(q) == \A i, j \in DOMAIN q : q[i] = q[j] => i = j

\* The first output of a forest, as the task finds it for the new tree.
FirstDue(f) ==
  Least({NOutputs + 1}
        \union {i \in 1 .. NOutputs : OutputTime[i] >= StartTime[f]})
Complete(f) == f \in emptied \/ Len(output[f]) = NOutputs + 1 - FirstDue(f)

(* A tree is evolved by one thread at a time and lies on one stack at one
   place: two threads never share a tree, none is pushed twice, none is both
   held and suspended. *)
OneOwner ==
  /\ \A t, u \in Threads : tree[t] = tree[u] /\ tree[t] # NoTree => t = u
  /\ NoRepeats(universeWaiting)
  /\ NoRepeats(universeProcessed)
  /\ ElementsOf(universeWaiting) \intersect ElementsOf(universeProcessed) = {}
  /\ Held \intersect Suspended = {}

(* No tree is lost: one that was handed out and is neither held by a thread nor
   suspended has had its last output written, or has no node left. *)
NoTreeLost ==
  \A f \in (1 .. forestNumber) \ (Held \union Suspended) : Complete(f)

(* The barriers of the team stay in step: when every thread waits at one, they
   all wait at the same one, so that none is released into another phase. *)
BarriersAligned ==
  (\A t \in Threads : pc[t] \in Barriers) =>
    \A t, u \in Threads : pc[t] = pc[u]

(* The master section, which overwrites the waiting stack with the processed
   one, runs only between passes: the others wait for it, no thread holds a
   tree and none is waiting. *)
MasterAlone ==
  pc[Master] = "master" =>
    /\ \A t \in Threads \ {Master} : pc[t] = "universe"
    /\ Held = {}
    /\ universeWaiting = <<>>
    /\ forestNumber = NForests

(* A forest is output at each output time from its first on, in order, never
   twice and with none skipped, whichever thread evolves it and however often
   it is suspended and resumed. *)
EveryOutputInTurn ==
  \A f \in Forest : \A i \in DOMAIN output[f] :
    output[f][i] = FirstDue(f) + i - 1

(* A forest is output at a time only when it has been evolved to that time, or
   has ended before it. *)
OutputAtItsTime ==
  [][\A f \in Forest : output'[f] # output[f] =>
       LET k == output'[f][Len(output'[f])]
       IN  time[f] = OutputTime[k] \/ EndTime[f] < OutputTime[k]]_vars

(* When the parallel region ends every forest has been output to the end, and
   every node that left a forest has arrived in another. *)
AllDoneIsComplete ==
  AllDone => /\ forestNumber = NForests
             /\ \A f \in Forest : Complete(f)
             /\ waitList = {}

(* The reports the code calls impossible are never made: a universal event in
   the past, and a tree that stopped short of its target for no reason. *)
NoImpossibleError ==
  error \notin {"event in the past", "failed to evolve tree"}

(* Universal events require all merger trees to reach the same cosmic time:
   the one that is performed is the earliest attached, and every tree on the
   stack passed to its task has reached its time. *)
Performs == Len(universeProcessed) > 0 /\ events' # events
UniversalEventSynchronised ==
  [][Performs =>
       /\ \A e \in ElementsOf(events) : e.time >= universalEvolveToTime
       /\ \A f \in ElementsOf(universeProcessed) :
            \/ time[f] >= universalEvolveToTime
            \/ EndTime[f] < universalEvolveToTime]_vars

(* A tree has a file exactly while it is suspended, if trees go to files. *)
FilesAreSuspendedTrees ==
  onDisk = IF SuspendToRAM THEN {} ELSE Suspended

(* Trees whose nodes can all arrive are never taken for a deadlocked universe:
   processing goes on after every event. *)
NoUniverseDeadlock == error # "universe deadlocked"

(* The task keeps the promise of ForestLedger: a forest is evolving while a
   thread holds it, laid aside on the processed stack, waiting on the other. *)
PhaseOf(f) ==
  IF f > forestNumber THEN "unbuilt"
  ELSE IF f \in Held THEN "evolving"
  ELSE IF f \in ElementsOf(universeProcessed) THEN "aside"
  ELSE IF f \in ElementsOf(universeWaiting) THEN "waiting"
  ELSE "complete"
Ledger == INSTANCE ForestLedger WITH
  FirstOutput <- [f \in Forest |-> FirstDue(f)],
  FirstAgenda <- {EventOf(c, 1) : c \in {x \in Creators : Schedule[x] # <<>>}},
  phase <- [f \in Forest |-> PhaseOf(f)],
  agenda <- ElementsOf(events)
KeepsLedger == Ledger!Spec

(* The task ends: every thread leaves the loop, or an error stops it. *)
Termination == <>(AllDone \/ error # None)

(* A universe in which a node never arrives is not processed for ever: the
   deadlock is reported. *)
DeadlockReported == <>(error = "universe deadlocked")

(* A universe that can evolve is evolved to its end: every thread leaves the
   loop, and no error is reported. *)
Completion == <>(AllDone /\ error = None)
===============================================================================
