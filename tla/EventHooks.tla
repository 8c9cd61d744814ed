------------------------------ MODULE EventHooks ------------------------------
(***************************************************************************)
(* An event of source/events.hooks.F90: a list of functions, hooked by the *)
(* objects of the threads, that every thread which triggers the event      *)
(* walks and calls.  The list changes under the write lock of the event    *)
(* and is walked under its read lock.  Each time a function is hooked the  *)
(* whole list is sorted by the dependencies of all the functions in it.    *)
(*                                                                         *)
(* The threads are those of one team (OpenMP level 1); functions hooked    *)
(* before the team begins are hooked by the master at level 0.  The lock   *)
(* is taken at its promise, ReadersWriter, which ReadWriteLock keeps.      *)
(***************************************************************************)
EXTENDS TopologicalSort

CONSTANTS
  N,         \* the number of threads in the team
  Functions, \* the functions that objects of each thread hook, by their labels
  Outside,   \* a list of those that the master hooked before the team began
  Binding,   \* [functions -> {"none", "atLevel", "allLevels"}]
  DependenciesOf, \* a list of dependencies for each function
  Calls      \* bound: how often each thread triggers the event or asks in vain

Threads == 0 .. N-1

AllFunctions == Functions \cup ToSet(Outside)

ASSUME HooksAssumption ==
  /\ N \in Nat \ {0} /\ Calls \in Nat
  /\ IsFiniteSet(AllFunctions) /\ "none" \notin AllFunctions
  /\ \A f \in AllFunctions :
       /\ Binding[f] \in {"none", "atLevel", "allLevels"}
       /\ DependenciesOf[f] \in Seq(ToSet(DependenciesOf[f]))
       /\ \A d \in ToSet(DependenciesOf[f]) :
            d.direction \in {"before", "after"} /\ f \notin d.matches

(* All functions of a list come after, or before, those that they want to. *)
InOrder(fs) ==
  \A i, j \in DOMAIN fs : \A d \in ToSet(DependenciesOf[fs[i]]) :
    fs[j] \in d.matches => IF d.direction = "after" THEN j < i ELSE i < j

(* The master's list has been through attach, too: it is sorted, and holds each
   of its functions, which are told apart by their labels, once. *)
ASSUME OutsideAssumption ==
  /\ Outside \in Seq(ToSet(Outside))
  /\ IsInjective(Outside)
  /\ InOrder(Outside)

(* There is an order of the functions that keeps all dependencies. *)
Satisfiable ==
  \E rank \in [AllFunctions -> 1 .. Cardinality(AllFunctions)] :
    \A f, g \in AllFunctions : \A d \in ToSet(DependenciesOf[f]) :
      g \in d.matches =>
        IF d.direction = "after" THEN rank[g] < rank[f] ELSE rank[f] < rank[g]

(* A hooked function: the object and the level and thread that hooked it. *)
Hook == [function : AllFunctions, level : 0 .. 1, thread : Threads]

HookOf(t, f) == [function |-> f, level |-> 1, thread |-> t]

NoHook == [function |-> "none", level |-> 0, thread |-> 0]

VARIABLES
  readers, writer, \* the lock of the event
  hooks,    \* the list from first_ on
  count,    \* count_
  error,    \* the program has stopped with an error
  pc,       \* where each thread is
  about,    \* the function it hooks or takes out
  status,   \* [Threads -> [Functions -> {"new", "hooked", "gone"}]]
  current,  \* the pointer with which it walks the list
  called,   \* what it has called for the event it triggers, in order
  left      \* how often it still triggers the event, or asks in vain

lock == <<readers, writer>>
list == <<hooks, count, error>>
walk == <<current, called, left>>
vars == <<lock, list, walk, pc, about, status>>

Nobody == N

Lock == INSTANCE ReadersWriter WITH Thread <- Threads

Init ==
  /\ Lock!Init
  /\ hooks = [i \in DOMAIN Outside |->
                [function |-> Outside[i], level |-> 0, thread |-> 0]]
  /\ count = Len(Outside)
  /\ error = FALSE
  /\ pc = [t \in Threads |-> "idle"]
  /\ about = [t \in Threads |-> NoHook]
  /\ status = [t \in Threads |-> [f \in Functions |-> "new"]]
  /\ current = [t \in Threads |-> NoHook]
  /\ called = [t \in Threads |-> <<>>]
  /\ left = [t \in Threads |-> Calls]

Goto(t, from, to) ==
  /\ pc[t] = from
  /\ pc' = [pc EXCEPT ![t] = to]

Forget(t) == about' = [about EXCEPT ![t] = NoHook]

-------------------------------------------------------------------------------
(* Dependencies between the places of a list of hooks, in the order in which
   resolveDependencies finds them. *)
DependencyArray(q) ==
  LET Pair(i, d, j) == IF d.direction = "after" THEN <<i, j>> ELSE <<j, i>>
      OfPair(i, d, j) == IF q[j].function \in d.matches THEN <<Pair(i, d, j)>> ELSE <<>>
      OfOne(i, d) == FlattenSeq([j \in DOMAIN q |-> OfPair(i, d, j)])
      OfHook(i) == LET ds == DependenciesOf[q[i].function]
                   IN  FlattenSeq([k \in DOMAIN ds |-> OfOne(i, ds[k])])
  IN  FlattenSeq([i \in DOMAIN q |-> OfHook(i)])

(* The list as resolveDependencies leaves it, or the error it stops with. *)
Resolved(q) ==
  LET sorted == SortTopological(Len(q), DependencyArray(q))
  IN  [hooks |-> [i \in DOMAIN q |-> q[sorted.order[i]]],
       error |-> sorted.countOrdered < Len(q)]

(* attach and detach wait for the write lock; some destructors first ask, under
   the read lock, whether their function is hooked (isAttached). *)
StartAttach(t, f) ==
  /\ status[t][f] = "new"
  /\ Goto(t, "idle", "attach")
  /\ Lock!Seize(t)
  /\ about' = [about EXCEPT ![t] = HookOf(t, f)]
  /\ UNCHANGED <<list, walk, status>>

AttachUnresolved(t) ==  \* mutant: the new hook stays at the end
  /\ Goto(t, "attach", "idle")
  /\ Lock!Yield(t)
  /\ hooks' = Append(hooks, about[t])
  /\ count' = count + 1
  /\ status' = [status EXCEPT ![t][about[t].function] = "hooked"]
  /\ Forget(t)
  /\ UNCHANGED <<error, walk>>
AttachUncounted(t) ==  \* mutant: the new hook is not counted
  LET resolved == Resolved(Append(hooks, about[t]))
  IN  /\ Goto(t, "attach", "idle")
      /\ Lock!Yield(t)
      /\ hooks' = resolved.hooks
      /\ status' = [status EXCEPT ![t][about[t].function] = "hooked"]
      /\ Forget(t)
      /\ UNCHANGED <<count, error, walk>>
Attach(t) ==
  LET resolved == Resolved(Append(hooks, about[t]))
  IN  /\ Goto(t, "attach", "idle")
      /\ Lock!Yield(t)
      /\ hooks' = resolved.hooks
      /\ count' = count + 1
      /\ error' = resolved.error
      /\ status' = [status EXCEPT ![t][about[t].function] = "hooked"]
      /\ Forget(t)
      /\ UNCHANGED walk

(* It may be asked of any function, hooked or not. *)
AskAttached(t, f) ==
  /\ Goto(t, "idle", "asked")
  /\ Lock!Enter(t)
  /\ about' = [about EXCEPT ![t] = HookOf(t, f)]
  /\ IF status[t][f] = "hooked"
     THEN UNCHANGED left
     ELSE left[t] > 0 /\ left' = [left EXCEPT ![t] = @ - 1]
  /\ UNCHANGED <<list, current, called, status>>

(* isAttached looks for the hook in the list; only what is there is taken out. *)
IsAttached(t) ==
  /\ Lock!Leave(t)
  /\ IF about[t] \in ToSet(hooks)
     THEN Goto(t, "asked", "remove") /\ UNCHANGED about
     ELSE Goto(t, "asked", "idle") /\ Forget(t)
  /\ UNCHANGED <<list, walk, status>>

(* Most destructors do not ask. *)
StartDetach(t, f) ==
  /\ \/ status[t][f] = "hooked" /\ Goto(t, "idle", "detach")
     \/ about[t] = HookOf(t, f) /\ Goto(t, "remove", "detach")
  /\ Lock!Seize(t)
  /\ about' = [about EXCEPT ![t] = HookOf(t, f)]
  /\ UNCHANGED <<list, walk, status>>

PlaceOf(h) == SelectInSeq(hooks, LAMBDA x : x = h)

UnlinkAndNext(i) ==  \* mutant: the hook after it is lost
  SubSeq(hooks, 1, i - 1) \o SubSeq(hooks, i + 2, Len(hooks))
Unlinked(i) == RemoveAt(hooks, i)

Detach(t) ==
  LET i == PlaceOf(about[t])
  IN  /\ Goto(t, "detach", "idle")
      /\ Lock!Yield(t)
      /\ IF i > 0
         THEN hooks' = Unlinked(i) /\ count' = count - 1 /\ UNCHANGED error
         ELSE error' = TRUE /\ UNCHANGED <<hooks, count>>
      /\ status' = [status EXCEPT ![t][about[t].function] = "gone"]
      /\ Forget(t)
      /\ UNCHANGED walk

-------------------------------------------------------------------------------
(* A thread triggers the event: the code that the build puts in its place. *)

HookAt(i) == IF i \in DOMAIN hooks THEN hooks[i] ELSE NoHook

TriggerUnlocked(t) ==  \* mutant: walks the list without the lock
  /\ left[t] > 0
  /\ Goto(t, "idle", "walking")
  /\ current' = [current EXCEPT ![t] = HookAt(1)]
  /\ left' = [left EXCEPT ![t] = @ - 1]
  /\ readers' = readers \cup {t}
  /\ UNCHANGED <<writer, list, called, about, status>>
Trigger(t) ==
  /\ left[t] > 0
  /\ Goto(t, "idle", "walking")
  /\ Lock!Enter(t)
  /\ current' = [current EXCEPT ![t] = HookAt(1)]
  /\ left' = [left EXCEPT ![t] = @ - 1]
  /\ UNCHANGED <<list, called, about, status>>

(* The threads of the team all have the ancestor 0 at level 0, so that what the
   master hooked there at all levels is called by the master alone. *)
FunctionActive(t, h) ==
  \/ Binding[h.function] = "none"
  \/ Binding[h.function] = "atLevel" /\ h.level = 1 /\ h.thread = t
  \/ Binding[h.function] = "allLevels" /\ h.level <= 1 /\ h.thread = t

CallTwoOn(t) ==  \* mutant: steps on before and after a call
  /\ pc[t] = "walking"
  /\ current[t] # NoHook
  /\ called' = IF FunctionActive(t, current[t])
               THEN [called EXCEPT ![t] = Append(@, current[t])]
               ELSE called
  /\ current' = [current EXCEPT ![t] =
                   HookAt(PlaceOf(@) + (IF FunctionActive(t, @) THEN 2 ELSE 1))]
  /\ UNCHANGED <<lock, list, left, pc, about, status>>
Call(t) ==
  /\ pc[t] = "walking"
  /\ current[t] # NoHook
  /\ called' = IF FunctionActive(t, current[t])
               THEN [called EXCEPT ![t] = Append(@, current[t])]
               ELSE called
  /\ current' = [current EXCEPT ![t] = HookAt(PlaceOf(@) + 1)]
  /\ UNCHANGED <<lock, list, left, pc, about, status>>

Return(t) ==
  /\ current[t] = NoHook
  /\ Goto(t, "walking", "idle")
  /\ Lock!Leave(t)
  /\ called' = [called EXCEPT ![t] = <<>>]
  /\ UNCHANGED <<list, current, left, about, status>>

-------------------------------------------------------------------------------
Act(t) ==
  \/ \E f \in Functions : StartAttach(t, f) \/ AskAttached(t, f) \/ StartDetach(t, f)
  \/ Attach(t) \/ IsAttached(t) \/ Detach(t)
  \/ Trigger(t) \/ Call(t) \/ Return(t)

Finished ==
  /\ \A t \in Threads :
       pc[t] = "idle" /\ left[t] = 0 /\ \A f \in Functions : status[t][f] = "gone"
  /\ UNCHANGED vars

Next ==
  \/ ~ error /\ \E t \in Threads : Act(t)
  \/ Finished

Spec == Init /\ [][Next]_vars

-------------------------------------------------------------------------------
TypeOK ==
  /\ readers \subseteq Threads /\ writer \in Threads \cup {Nobody}
  /\ hooks \in Seq(Hook) /\ count \in Nat /\ error \in BOOLEAN
  /\ pc \in [Threads -> {"idle", "attach", "asked", "remove", "detach", "walking"}]
  /\ about \in [Threads -> Hook \cup {NoHook}]
  /\ status \in [Threads -> [Functions -> {"new", "hooked", "gone"}]]
  /\ current \in [Threads -> Hook \cup {NoHook}]
  /\ called \in [Threads -> Seq(Hook)]
  /\ left \in [Threads -> 0 .. Calls]

(* The list holds just what the threads hooked and did not take out, once each,
   and count_ says how many (resolveDependencies walks the list by count_). *)
ListIsWhatWasHooked ==
  /\ count = Len(hooks)
  /\ Cardinality(ToSet(hooks)) = Len(hooks)
  /\ {h \in ToSet(hooks) : h.level = 1} =
       {HookOf(x[1], x[2]) : x \in {y \in Threads \X Functions :
                                      status[y[1]][y[2]] = "hooked"}}

(* Whatever the threads hook and take out, and in whatever order, a function
   that is to be called after another comes after all that is hooked under
   that label, by any thread. *)
DependenciesKept == InOrder([i \in DOMAIN hooks |-> hooks[i].function])

(* Dependencies that can be satisfied between the functions can be satisfied
   between the hooks of all threads, and no hook goes twice: the program never
   stops with an error. *)
NeverStops == ~ error

(* The hook a thread is at has not been taken out and deallocated. *)
NoDanglingHook ==
  \A t \in Threads :
    pc[t] = "walking" => current[t] \in ToSet(hooks) \cup {NoHook}

(* When a thread has walked the list it has called all that is hooked for it and
   nothing else, in the order of the list, once. *)
CallsAllThatIsHooked ==
  \A t \in Threads :
    pc[t] = "walking" /\ current[t] = NoHook =>
      /\ ToSet(called[t]) = {h \in ToSet(hooks) : FunctionActive(t, h)}
      /\ \A i, j \in DOMAIN called[t] :
           i < j => PlaceOf(called[t][i]) < PlaceOf(called[t][j])
=============================================================================
